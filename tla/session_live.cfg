SPECIFICATION FairSpec
CONSTANTS
  Imsi = {i1, i2}
  Valid = {i1, i2}
  NoImsi = NoImsi
  Blacklist = {}
  Editable = {}
  Callers = {w1}
  Timeout = 1
  ShutdownRate = 1
  Second = 1
  Stops = {s1}
  MaxTime = 2
  MaxRemovals = 0
PROPERTIES IdleSessionEnds ShutdownEndsOnceCallsCease DestructorReturns
