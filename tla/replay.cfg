SPECIFICATION MCSpec
CONSTANTS
  Packets <- Odd
  MaxPackets = 3
  ReadSizes = {3, 7}
  MaxTokenSize = 14
  TimeOf <- Times
  Client = "b"
  Target = "a"
  Stamps = {60, 61, 75}
  Clocks = {8, 12}
  NanosPerMilli = 10
  Word = 256
INVARIANTS FramingHolds SentAsRecorded
PROPERTY Ends
