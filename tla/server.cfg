SPECIFICATION MCSpec
CONSTANTS
  a = a
  b = b
  net = net
  portA = portA
  portB = portB
  None = None
  Conns = {a, b}
  Keys = {net, portA, portB}
  HostOf <- Hosts
  PortsOf <- Ports
  MaxChunks = 2
  BufferSize = 3
INVARIANTS ServerTypeOK RefsMatch OwnQueue RecordsInTurn CloseKeepsWritten
PROPERTIES ReleasedIsSwept EverythingWritten
