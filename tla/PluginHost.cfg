SPECIFICATION Spec
CONSTANTS
  d1 = d1
  d2 = d2
  f1 = f1
  f2 = f2
  f2link = f2link
  f3 = f3
  f4 = f4
  l1 = l1
  l2 = l2
  l3 = l3
  l4 = l4
  sa = sa
  sb = sb
  NULL = NULL
  Dir <- MCDir
  DefaultDir = d1
  Unreadable = {d2}
  File <- MCFile
  DirOf <- MCDirOf
  SoNamed <- MCSoNamed
  Loadable <- MCSoNamed
  ImageOf <- MCImageOf
  HasRegister <- MCHasRegister
  Offers <- MCOffers
  Service <- MCService
  MaxChanges = 2
  MaxHotSwaps = 1
INVARIANTS
  TypeOK
  ProcessorsLive
  NothingLeftMapped
PROPERTIES
  ScanComplete
  RegistryFrozen
\* A process that has shut down stops.
CHECK_DEADLOCK FALSE
