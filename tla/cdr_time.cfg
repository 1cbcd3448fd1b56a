SPECIFICATION Spec
CONSTANTS
  Writers = {w1, w2}
  NoWriter = NoWriter
  Millis = 2
  Seconds = 2
  MaxTime = 4
  MaxRecords = 2
INVARIANT OwnTimeAlways
