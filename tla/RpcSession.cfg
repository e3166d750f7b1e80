SPECIFICATION SSpec
CONSTANTS
  NULL = NULL
  MaxCalls = 3
  Made = {"call", "throws", "oneway", "unknown", "reject"}
  Call = {1, 2, 3}
  Service = {a, absent}
  Registered = {a}
  Chunk = {}
  ReadSize = {1, 2}
  ReqLen = 2
  RepLen = 2
  SignBit = 8
  Uint32Mod = 100
  MaxBuf = 6
INVARIANTS
  STypeOK
  AnswersOwnCall
  HandledInOrder
PROPERTIES
  CallsEnd
\* The script ends after its last call, or dies.
CHECK_DEADLOCK FALSE
