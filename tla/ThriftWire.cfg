SPECIFICATION WSpec
CONSTANTS
  Fields <- MCFields
  Numbers <- MCNumbers
  Lists <- MCLists
  Maps <- MCMaps
  Name <- MCName
  MaxFields = 2
  MaxMessages = 2
  MaxNibble = 2
  VarintBase = 4
  RecursionLimit = 2
  Readers <- MCReaders
  Descriptor = {1, 2, 3, 4, 5, 6, 7}
  Peer = {1, 2}
  RetryLimit = 1
  MaxListens = 2
  PoolObject = {p1, p2}
  Entry = {e1, e2}
  PoolDescriptor = {1, 2}
  NumRetries = 1
  RetryInterval = 0
  MaxConsecutiveFailures = 1
  AlwaysTryLast = TRUE
  LastClock = 2
  Bodies = {1, 2}
  HttpBufSize = 4
  Key = {k1}
  MaxRequests = 2
  Settings <- MCSettings
  Credentials <- MCCredentials
  Pieces = 3
  WriteLength = 2
  MaxRecvRetries = 2
  Factory = {f1, f2}
  MaxConnections = 2
  MaxRecords = 1
  MinDirectDeflateSize = 1
  UwBufSize = 2
  CwBufSize = 3
  CrBufSize = 2
  UrBufSize = 2
  MinRoom = 2
  WriteSizes = {1, 2}
  MaxZlibBytes = 4
  Frames <- MCFrames
  MaxFrames = 3
  AnswerBytes = 1
  MaxAnswers = 2
  Source = {s1, s2}
  RequestLengths <- MCRequestLengths
  FirstBufSize = 2
  Stub = {a1, a2}
  MaxCalls = 2
  EventCells = 2
  ReadBufferCells = 3
  ChunkCells = 4
  MaxLogEvents = 4
  ServiceName <- MCServiceNames
  CalledMethod = "m"
  MaxMultiCalls = 3
  MaxBytes = 5
  Lengths = {1, 2}
  BufSize = 2
  FrameBuf = 3
  DefaultSize = 3
  ReclaimThresh = 2
  MaxWritten = 6
  MaxFrameSize = 3
  HeaderSize = 2
  MemorySize = 3
  MaxSizes = {3, 9}
  MaxMessageSize = 3
  MaxPipes = 3
  BufferSize = 2
  Talkers = {1}
  MaxBytesInPipe = 2
  MaxInterruptCalls = 1
  User = {u1, u2, u3}
  MaxItems = 1
  MaxInstances = 2
  Clients = 2
  MaxRequestFrames = 2
  MaxReply = 2
  WriteDefault = 4
  IdleReadLimit = 4
  IdleWriteLimit = 5
  ResizeEveryN = 2
INVARIANTS
  WTypeOK
  ReadsBack
  SocketsOwned
  StreamsDelivered
  StreamInOrder
  OwnAnswers
  SecureChannel
\* All messages have been exchanged, or a connection has ended.
CHECK_DEADLOCK FALSE
