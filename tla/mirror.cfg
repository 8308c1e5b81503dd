SPECIFICATION MCSpec
CONSTANTS
  Devices = {d1, d2}
  Packets <- MCPackets
  Capacity = 1
  MaxCaptured = 2
  MaxSent = 4
  Flows <- MCFlows
  SrcPort <- MCSrcPort
  DstPort <- MCDstPort
  ObservedPort = 80
  Segments = 2
INVARIANTS
  TypeOK
  NothingLost
  RecordFollowsForward
  ForwardedInOrder
  ConnectionsClosed
  NoSendOnClosed
PROPERTIES
  Stops
