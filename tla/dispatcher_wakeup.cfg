SPECIFICATION FairSpec
CONSTANTS
  Workers = {w1}
  Requests = {r1, r2}
  Undecodable = {}
  Blacklisted = {}
  Capacity = 2
  Limit = 2
  FaultSets = {{}}
  NoRequest = NoRequest
  NoWorker = NoWorker
PROPERTY EveryRequestAnswered
