SPECIFICATION Spec
CONSTANTS
  Imsi = {i1, i2, bad}
  Valid = {i1, i2}
  NoImsi = NoImsi
  Blacklist = {i2}
  Editable = {i1}
  Callers = {w1, w2}
  Timeout = 1
  ShutdownRate = 2
  Second = 3
  Stops = {s1}
  MaxTime = 1
  MaxRemovals = 1
SYMMETRY Symmetry
INVARIANTS CdrMatchesSessions OnlyAdmissibleSessions IInv
PROPERTIES TimeoutOnlyWhenIdle BarredCallIsRefused ResultIsTrue QuietAfterDestruction ShutdownIsPaced ImplementsLifecycle
