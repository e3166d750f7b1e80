SPECIFICATION Spec
CONSTANTS
  o1 = o1
  o2 = o2
  s1 = s1
  s2 = s2
  s3 = s3
  Obj <- MCObj
  Str <- MCStr
  Literal = Literal
  Empty = Empty
  NULL = NULL
  MaxCount = 3
SYMMETRY Interchangeable
INVARIANTS
  TypeOK
  CountsExact
\* A request ends.
CHECK_DEADLOCK FALSE
