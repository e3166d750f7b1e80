SPECIFICATION NSpec
CONSTANTS
  Peer = {p1, p2}
  PoolSize = 1
  PoolQueue = 1
  Limits = {1, 2}
  Nobody = Nobody
  Sharer = {a1, a2, a3}
  Calls = 3
  MinSeqId = 4
  MaxSeqId = 5
  FirstSeqId = 5
  None = None
  Senders = 2
  Addresses = 2
  Requests = 1
  IOThreads = 2
  Worker = {w1, w2}
  PipeSize = 1
  StackLimit = 1
  MaxActive = 0
  MaxConns = 2
  Header = 2
  Chunk = 8
  Sizes = {3, 9}
  MaxEvents = 3
  BufferSize = 1
  MaxFaults = 1
INVARIANTS
  NTypeOK
  ClientsCounted
  ReturnsClean
  OwnReply
  ConnectionsHeld
  ReplyToAsker
PROPERTIES
  StopEndsServe
  SharedCallsEnd
  RequestsComeBack
  ImplementsLog
\* A server that has been stopped stops.
CHECK_DEADLOCK FALSE
