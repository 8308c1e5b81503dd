SPECIFICATION MCSpec
CONSTANTS
  Packets <- Odd
  MaxPackets = 2
  ReadSizes = {2, 5}
  MaxTokenSize = 14
  TimeOf <- Times
  Client = "b"
  Target = "a"
  Stamps = {60, 61, 75}
  Clocks = {8, 12}
  NanosPerMilli = 10
  Word = 256
INVARIANT NeverPanics
