SPECIFICATION Spec
CONSTANTS
  c1 = c1
  c2 = c2
  a = a
  absent = absent
  NULL = NULL
  Call <- MCCall
  Service <- MCService
  Registered <- MCRegistered
  Chunk <- MCChunk
  ReqLen = 2
  RepLen = 2
  SignBit = 7
  Uint32Mod = 5
  MaxBuf = 6
INVARIANTS
  UnflushedReadIsToldSo
CHECK_DEADLOCK FALSE
