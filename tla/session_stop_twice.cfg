SPECIFICATION Spec
CONSTANTS
  Imsi = {i1, i2}
  Valid = {i1, i2}
  NoImsi = NoImsi
  Blacklist = {}
  Editable = {}
  Callers = {w1}
  Timeout = 1
  ShutdownRate = 2
  Second = 3
  Stops = {s1, s2}
  MaxTime = 2
  MaxRemovals = 0
INVARIANT StopIsGraceful
