SPECIFICATION TcpSpec
CONSTANTS
  Unit = 2
  MaxIn = 4
  MaxOut = 4
  Room = 1
  Handlers = {"file"}
  AnyOut = 0
  MaxCount = 1
  MaxFile = 2
  LineEnds = {2, 4}
INVARIANTS
  FileAtEnd
