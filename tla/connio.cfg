SPECIFICATION TcpSpec
CONSTANTS
  Unit = 2
  MaxIn = 4
  MaxOut = 8
  Room = 1
  Handlers = {"any", "echo", "repeat", "file"}
  AnyOut = 3
  MaxCount = 3
  MaxFile = 2
  LineEnds = {2, 4}
INVARIANTS
  TcpTypeOK
  StreamIn
  StreamOut
  NoLostWakeup
  PeerClosedIsReal
  LinesAsAsked
PROPERTIES
  AllDelivered
  EchoReturns
  MoreAsked
