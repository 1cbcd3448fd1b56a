SPECIFICATION Spec
CONSTANTS
  Workers = {w1, w2}
  Requests = {r1, r2}
  Undecodable = {r2}
  Blacklisted = {}
  Capacity = 2
  Limit = 2
  FaultSets = {{}}
  NoRequest = NoRequest
  NoWorker = NoWorker
INVARIANT NeverAborts
