SPECIFICATION MCSpec
CONSTANTS
  ClientBytes = 3
  TargetBytes = 1
PROPERTIES
  EveryChunkWritten
