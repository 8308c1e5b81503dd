SPECIFICATION Spec
CONSTANTS
  g1 = g1
  g2 = g2
  Callers = {g1, g2}
  LineSizes <- Lengths
  MaxFileSize = 2
  MaxLines = 3
  MaxWriters = 2
  MaxSecond = 1
INVARIANTS NewestOnDisk LinesWhole
PROPERTY LoggingReturns
CHECK_DEADLOCK FALSE
