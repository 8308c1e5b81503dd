SPECIFICATION MCSpec
CONSTANTS
  ClientBytes = 4
  TargetBytes = 2
INVARIANTS
  TypeOK
  RecordCoversForwarded
  IndicesAccounted
  RecordIsPrefix
  CausalOrder
  EndsTogether
  LagAtMostOneByte
  WrittenInTurn
