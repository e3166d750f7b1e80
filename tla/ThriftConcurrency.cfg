SPECIFICATION CSpec
CONSTANTS
  Worker = {w1, w2}
  Client = {boss, user}
  Controller = {boss}
  Task = {t1, t2, t3}
  Expiring = {t2}
  PendingMax = 2
  SizeMod = 16
  NULL = NULL
  Timer = {x1, x2}
  Caller = {c1, c2}
  LastTime = 2
  Dispatcher = Dispatcher
INVARIANTS
  CTypeOK
  CountsAgree
  TimersInTime
PROPERTIES
  StopDrains
  ImplementsPool
  TasksServed
  CallsReturn
\* A pool that has been stopped stops.
CHECK_DEADLOCK FALSE
