--------------------------- MODULE ThreadManager ---------------------------
(***************************************************************************)
(* The thread pool of the Thrift library (concurrency/ThreadManager.cpp):  *)
(* worker threads, the queue of tasks and its limit, expiry, growing and   *)
(* shrinking the pool, stop.                                               *)
(*                                                                         *)
(* Everything happens under one mutex with three monitors on it, so an     *)
(* action is what a thread does between two points where it gives the      *)
(* mutex up.  A wait set holds the threads asleep on a monitor; notify     *)
(* takes one out, and so may the system (a spurious wake-up).  A thread    *)
(* that has been taken out still has to get the mutex.  Tasks run without  *)
(* the mutex; what one does that matters here is to call add.              *)
(***************************************************************************)
EXTENDS Integers, Sequences, FiniteSets, Functions

CONSTANTS
  Worker,      \* the threads the factory can make
  Client,      \* other threads that call the manager
  Controller,  \* those of them that start, grow, shrink and stop it
  Task,
  Expiring,    \* the tasks added with an expiration
  PendingMax,  \* pendingTaskCountMax_; 0 is no limit
  SizeMod,     \* 2^64: the counters are of type size_t
  NULL

ASSUME PoolAssumption ==
  /\ Controller \subseteq Client /\ Worker \cap Client = {}
  /\ NULL \notin Worker \cup Client \cup Task
  /\ PendingMax \in Nat /\ SizeMod \in Nat \ {0}
  /\ IsFiniteSet(Worker) /\ Cardinality(Worker) < SizeMod

VARIABLES
  state_, workerCount_, workerMaxCount_, idleCount_, expiredCount_, tasks_,
  expireCallback_,              \* whether one is set
  mutex_,                       \* the worker that holds the mutex between two actions
  monitor_, maxMonitor_, workerMonitor_,   \* the threads asleep on each
  at,           \* for each worker, where it is
  doing,        \* the task it has taken
  calling,      \* for each thread, the call it is blocked in
  adding,       \* the task it wants to add, and whether its wait is limited
  due,          \* the tasks whose time is over
  sweeper,      \* a client in removeExpiredTasks
  torn,         \* tasks_ was changed while another thread walked through it
  finished, removed, expired,  \* histories: what has become of tasks
  late          \* history: the tasks added after stop was called

counts == <<workerCount_, workerMaxCount_, idleCount_>>
monitors == <<monitor_, maxMonitor_, workerMonitor_>>
workers == <<at, doing>>
callers == <<calling, adding>>
ends == <<finished, removed, expired, late>>
misc == <<expireCallback_, due, sweeper>>
vars == <<state_, counts, expiredCount_, tasks_, mutex_, monitors, workers, callers, ends,
          misc, torn>>

Thread == Worker \cup Client

NoTask == [task |-> NULL, timed |-> FALSE]

Init ==
  /\ state_ = "UNINITIALIZED"
  /\ workerCount_ = 0 /\ workerMaxCount_ = 0 /\ idleCount_ = 0 /\ expiredCount_ = 0
  /\ tasks_ = << >> /\ expireCallback_ = FALSE
  /\ mutex_ = NULL /\ monitor_ = {} /\ maxMonitor_ = {} /\ workerMonitor_ = {}
  /\ at = [w \in Worker |-> "none"] /\ doing = [w \in Worker |-> NULL]
  /\ calling = [x \in Thread |-> "nothing"] /\ adding = [x \in Thread |-> NoTask]
  /\ due = {} /\ sweeper = NULL /\ torn = FALSE
  /\ finished = {} /\ removed = {} /\ expired = {} /\ late = {}

\* The wait sets that can be left of S when n threads are notified.
Notified(S, n) ==
  {S \ X : X \in {X \in SUBSET S : Cardinality(X) = (IF n < Cardinality(S) THEN n ELSE Cardinality(S))}}

Free(x) == mutex_ \in {NULL, x}

Wrap(n) == n % SizeMod

-----------------------------------------------------------------------------
\* Worker::run.

\* Faulty variant: pending tasks are no reason to stay.
CountAllows(count) == count <= workerMaxCount_

isActive(count) ==
  count <= workerMaxCount_ \/ (state_ = "JOINING" /\ tasks_ # << >>)

\* Faulty variant: the notification is for more workers only.
NoticesOfExit(count) == 0

\* A worker that leaves notifies a controller when the count has got where it
\* should be.
ExitNotices(count) == IF count = workerMaxCount_ THEN 1 ELSE 0

\* Faulty variant: a worker that leaves stays in the count.
ExitUncounted(w, count, idle) ==
  /\ at' = [at EXCEPT ![w] = "dead"] /\ doing' = [doing EXCEPT ![w] = NULL]
  /\ workerCount_' = count /\ idleCount_' = idle
  /\ workerMonitor_' \in Notified(workerMonitor_, ExitNotices(count))
  /\ mutex_' = NULL
  /\ UNCHANGED <<tasks_, expired, monitor_, maxMonitor_>>

\* Final accounting.  A worker that was not admitted counts itself out too.
Exit(w, count, idle) ==
  /\ at' = [at EXCEPT ![w] = "dead"] /\ doing' = [doing EXCEPT ![w] = NULL]
  /\ workerCount_' = Wrap(count - 1) /\ idleCount_' = idle
  /\ workerMonitor_' \in Notified(workerMonitor_, ExitNotices(Wrap(count - 1)))
  /\ mutex_' = NULL
  /\ UNCHANGED <<tasks_, expired, monitor_, maxMonitor_>>

\* Faulty variant: the idle workers are counted out and never in.
SleepUncounted(w, count, idle) ==
  /\ at' = [at EXCEPT ![w] = "waiting"] /\ doing' = [doing EXCEPT ![w] = NULL]
  /\ workerCount_' = count /\ idleCount_' = idle
  /\ monitor_' = monitor_ \cup {w}
  /\ mutex_' = NULL
  /\ UNCHANGED <<tasks_, expired, maxMonitor_>>

Sleep(w, count, idle) ==
  /\ at' = [at EXCEPT ![w] = "waiting"] /\ doing' = [doing EXCEPT ![w] = NULL]
  /\ workerCount_' = count /\ idleCount_' = idle + 1
  /\ monitor_' = monitor_ \cup {w}
  /\ mutex_' = NULL
  /\ UNCHANGED <<tasks_, expired, maxMonitor_>>

Room(n) == PendingMax # 0 /\ n <= PendingMax - 1

\* A task taken from the queue is executed, reported to the callback, or, with
\* no callback, forgotten; then the worker goes on without giving up the mutex.
Take(w, count, idle) ==
  LET t == Head(tasks_)
  IN  /\ tasks_' = Tail(tasks_)
      /\ workerCount_' = count /\ idleCount_' = idle
      /\ maxMonitor_' \in Notified(maxMonitor_, IF Room(Len(tasks_) - 1) THEN 1 ELSE 0)
      /\ doing' = [doing EXCEPT ![w] = t]
      /\ IF t \in due
           THEN /\ at' = [at EXCEPT ![w] = IF expireCallback_ THEN "expiring" ELSE "looping"]
                /\ mutex_' = IF expireCallback_ THEN NULL ELSE w
                /\ expired' = expired \cup {t}
           ELSE /\ at' = [at EXCEPT ![w] = "running"]
                /\ mutex_' = NULL /\ UNCHANGED expired
      /\ UNCHANGED monitor_

\* The loop, from its head to the next point where the mutex is given up.
Loop(w, count, idle, admitted) ==
  /\ \/ ~isActive(count) /\ Exit(w, count, idle)
     \/ isActive(count) /\ tasks_ = << >> /\ Sleep(w, count, idle)
     \/ isActive(count) /\ tasks_ # << >> /\ Take(w, count, idle)
  /\ isActive(count) =>
       workerMonitor_' \in
         Notified(workerMonitor_, IF admitted /\ count = workerMaxCount_ THEN 1 ELSE 0)
  /\ UNCHANGED <<state_, workerMaxCount_, callers, removed, late, misc>>

Start(w) ==
  /\ at[w] = "starting" /\ Free(w)
  /\ IF workerCount_ < workerMaxCount_
       THEN Loop(w, workerCount_ + 1, idleCount_, TRUE)
       ELSE /\ Exit(w, workerCount_, idleCount_)
            /\ UNCHANGED <<state_, workerMaxCount_, callers, removed, late, misc>>
  /\ UNCHANGED <<expiredCount_, finished>>

Wake(w) ==
  /\ at[w] = "waiting" /\ w \notin monitor_ /\ Free(w)
  /\ Loop(w, workerCount_, idleCount_ - 1, FALSE)
  /\ UNCHANGED <<expiredCount_, finished>>

FinishTask(w) ==
  /\ at[w] = "running" /\ calling[w] = "nothing" /\ Free(w)
  /\ finished' = finished \cup {doing[w]}
  /\ Loop(w, workerCount_, idleCount_, FALSE)
  /\ UNCHANGED expiredCount_

Expired(w) ==
  /\ at[w] = "expiring" /\ Free(w)
  /\ expiredCount_' = expiredCount_ + 1
  /\ Loop(w, workerCount_, idleCount_, FALSE)
  /\ UNCHANGED finished

GoOn(w) ==
  /\ at[w] = "looping" /\ Free(w)
  /\ Loop(w, workerCount_, idleCount_, FALSE)
  /\ UNCHANGED <<expiredCount_, finished>>

WorkerStep(w) == Start(w) \/ Wake(w) \/ FinishTask(w) \/ Expired(w) \/ GoOn(w)

-----------------------------------------------------------------------------
\* add.

Idle(x) == calling[x] = "nothing" /\ x # sweeper

\* A client, or a task that runs on a worker, may call the manager.
MayAdd(x) == Idle(x) /\ (x \in Worker => at[x] = "running")

\* The workers are in idMap_.
canSleep(x) == x \in Client

New(t) ==
  /\ t \notin Range(tasks_) \cup finished \cup removed \cup expired
  /\ \A x \in Thread : adding[x].task # t
  /\ \A w \in Worker : doing[w] # t

Full(queue) == PendingMax > 0 /\ Len(queue) >= PendingMax

\* Faulty variant: the last idle worker is not woken.
WokenForTask == IF idleCount_ > 1 THEN 1 ELSE 0

\* One idle worker is notified, if there is one.
Notices == IF idleCount_ > 0 THEN 1 ELSE 0

Enqueue(queue, t) ==
  /\ tasks_' = Append(queue, t)
  /\ monitor_' \in Notified(monitor_, Notices)

FirstDue == CHOOSE i \in DOMAIN tasks_ :
  tasks_[i] \in due /\ \A j \in DOMAIN tasks_ : tasks_[j] \in due => i <= j

\* removeExpired(true) when the queue is full.
Purges == Full(tasks_) /\ Range(tasks_) \cap due # {}

\* Faulty variant: the first task is dropped for the one that is due.
FirstPurged == IF Purges THEN Tail(tasks_) ELSE tasks_

QueuePurged ==
  IF Purges THEN SubSeq(tasks_, 1, FirstDue - 1) \o SubSeq(tasks_, FirstDue + 1, Len(tasks_))
  ELSE tasks_

\* timeout is -1 (no wait), 0 (wait for ever) or positive (timed).
Add(x, t, wait, timed) ==
  /\ MayAdd(x) /\ New(t) /\ mutex_ = NULL /\ state_ = "STARTED"
  /\ expiredCount_' = expiredCount_ + (IF Purges THEN 1 ELSE 0)
  /\ expired' = expired \cup (IF Purges THEN {tasks_[FirstDue]} ELSE {})
  /\ \/ /\ ~Full(QueuePurged)
        /\ Enqueue(QueuePurged, t)
        /\ UNCHANGED <<maxMonitor_, callers>>
     \/ /\ Full(QueuePurged) /\ canSleep(x) /\ wait
        /\ maxMonitor_' = maxMonitor_ \cup {x}
        /\ calling' = [calling EXCEPT ![x] = "add"]
        /\ adding' = [adding EXCEPT ![x] = [task |-> t, timed |-> timed]]
        /\ tasks_' = QueuePurged /\ UNCHANGED monitor_
  /\ UNCHANGED <<state_, counts, mutex_, workerMonitor_, workers, finished, removed, late, misc>>

Returns(c) ==
  /\ calling' = [calling EXCEPT ![c] = "nothing"]
  /\ adding' = [adding EXCEPT ![c] = NoTask]

\* Faulty variant: a thread that is woken takes it that there is room.
RoomTakenForGranted == FALSE

\* The loop around the wait.
MustGoOnWaiting == Full(tasks_)

\* Woken, a blocked add looks at the queue again, and at nothing else.
AddResumes(c) ==
  /\ calling[c] = "add" /\ c \notin maxMonitor_ /\ mutex_ = NULL
  /\ IF MustGoOnWaiting
       THEN /\ maxMonitor_' = maxMonitor_ \cup {c}
            /\ UNCHANGED <<tasks_, monitor_, callers, late>>
       ELSE /\ Enqueue(tasks_, adding[c].task)
            /\ Returns(c)
            /\ late' = IF state_ = "STARTED" THEN late ELSE late \cup {adding[c].task}
            /\ UNCHANGED maxMonitor_
  /\ UNCHANGED <<state_, counts, expiredCount_, mutex_, workerMonitor_, workers,
                 finished, removed, expired, misc>>

\* The wait ends with TimedOutException, even for a thread just notified.
AddTimesOut(c) ==
  /\ calling[c] = "add" /\ adding[c].timed /\ mutex_ = NULL
  /\ maxMonitor_' = maxMonitor_ \ {c}
  /\ Returns(c)
  /\ UNCHANGED <<state_, counts, expiredCount_, tasks_, mutex_, monitor_, workerMonitor_,
                 workers, ends, misc>>

-----------------------------------------------------------------------------
\* Taking tasks back.  Nobody blocked in add is told.

\* What is left of the queue without the tasks in D.
Without(queue, D) ==
  LET left == {i \in DOMAIN queue : queue[i] \notin D}
      nth(n) == CHOOSE i \in left : Cardinality({j \in left : j <= i}) = n
  IN  [n \in 1..Cardinality(left) |-> queue[nth(n)]]

remove(c, t) ==
  /\ Idle(c) /\ mutex_ = NULL /\ state_ = "STARTED"
  /\ t \in Range(tasks_)
  /\ tasks_' = Without(tasks_, {t})
  /\ removed' = removed \cup {t}
  /\ UNCHANGED <<state_, counts, expiredCount_, mutex_, monitors, workers, callers,
                 finished, expired, late, misc>>

removeNextPending(c) == tasks_ # << >> /\ remove(c, Head(tasks_))

\* removeExpiredTasks does not take the mutex: it starts to walk the queue ...
SweepBegins(c) ==
  /\ Idle(c) /\ sweeper = NULL /\ Range(tasks_) # {}
  /\ sweeper' = c
  /\ UNCHANGED <<state_, counts, expiredCount_, tasks_, mutex_, monitors, workers, callers,
                 ends, expireCallback_, due>>

\* ... and gets through it, unless it has changed under way.
SweepEnds(c) ==
  /\ sweeper = c
  /\ LET old == Range(tasks_) \cap due
     IN  /\ tasks_' = Without(tasks_, old)
         /\ expired' = expired \cup old
         /\ expiredCount_' = expiredCount_ + Cardinality(old)
  /\ sweeper' = NULL
  /\ UNCHANGED <<state_, counts, mutex_, monitors, workers, callers,
                 finished, removed, late, expireCallback_, due>>

setExpireCallback(c) ==
  /\ Idle(c) /\ mutex_ = NULL /\ expireCallback_' = ~expireCallback_
  /\ UNCHANGED <<state_, counts, expiredCount_, tasks_, mutex_, monitors, workers, callers,
                 ends, due, sweeper>>

\* Time passes.
FallsDue(t) ==
  /\ t \in Expiring \cap Range(tasks_) /\ t \notin due
  /\ due' = due \cup {t}
  /\ UNCHANGED <<state_, counts, expiredCount_, tasks_, mutex_, monitors, workers, callers,
                 ends, expireCallback_, sweeper>>

-----------------------------------------------------------------------------
\* Growing, shrinking, starting and stopping the pool.

start(c) ==
  /\ c \in Controller /\ Idle(c) /\ mutex_ = NULL
  /\ state_ = "UNINITIALIZED" /\ state_' = "STARTED"
  /\ monitor_' = {}
  /\ UNCHANGED <<counts, expiredCount_, tasks_, mutex_, maxMonitor_, workerMonitor_, workers,
                 callers, ends, misc>>

Blocked(c, call) == calling' = [calling EXCEPT ![c] = call]

\* addWorker: new threads are started, and will look for the mutex.
addWorker(c, W) ==
  /\ c \in Controller /\ Idle(c) /\ mutex_ = NULL
  /\ W # {} /\ \A w \in W : at[w] = "none"
  /\ at' = [w \in Worker |-> IF w \in W THEN "starting" ELSE at[w]]
  /\ workerMaxCount_' = workerMaxCount_ + Cardinality(W)
  /\ IF workerCount_ = workerMaxCount_'
       THEN UNCHANGED <<calling, workerMonitor_>>
       ELSE Blocked(c, "addWorker") /\ workerMonitor_' = workerMonitor_ \cup {c}
  /\ UNCHANGED <<state_, workerCount_, idleCount_, expiredCount_, tasks_, mutex_, monitor_,
                 maxMonitor_, doing, adding, ends, misc>>

\* The dead workers are joined and forgotten.
Buried == at' = [w \in Worker |-> IF at[w] = "dead" THEN "joined" ELSE at[w]]

\* removeWorkersUnderLock(n), up to its wait.
Shrink(c, call, n) ==
  /\ workerMaxCount_' = workerMaxCount_ - n
  /\ monitor_' \in Notified(monitor_, IF idleCount_ > n THEN n ELSE Cardinality(monitor_))
  /\ IF workerCount_ = workerMaxCount_'
       THEN Buried /\ UNCHANGED <<calling, workerMonitor_>>
       ELSE /\ Blocked(c, call) /\ workerMonitor_' = workerMonitor_ \cup {c}
            /\ UNCHANGED at
  /\ UNCHANGED <<workerCount_, idleCount_, expiredCount_, tasks_, mutex_, maxMonitor_, doing,
                 adding, ends, misc>>

removeWorker(c, n) ==
  /\ c \in Controller /\ Idle(c) /\ mutex_ = NULL
  /\ n <= workerMaxCount_
  /\ Shrink(c, "removeWorker", n)
  /\ UNCHANGED state_

\* stop throws half way when more workers are there than should be, and then
\* the state stays JOINING.
stop(c) ==
  /\ c \in Controller /\ Idle(c) /\ mutex_ = NULL
  /\ IF state_ \in {"JOINING", "STOPPED"}
       THEN /\ state_' = "STOPPED"
            /\ UNCHANGED <<counts, expiredCount_, tasks_, mutex_, monitors, workers, callers,
                           ends, misc>>
       ELSE IF workerCount_ > workerMaxCount_
         THEN /\ state_' = "JOINING"
              /\ UNCHANGED <<counts, expiredCount_, tasks_, mutex_, monitors, workers,
                             callers, ends, misc>>
         ELSE /\ Shrink(c, "stop", workerCount_)
              /\ state_' = IF workerCount_ = workerMaxCount_' THEN "STOPPED" ELSE "JOINING"

\* A controller that has been notified looks at the counts again.
ScalingResumes(c) ==
  /\ calling[c] \in {"addWorker", "removeWorker", "stop"}
  /\ c \notin workerMonitor_ /\ mutex_ = NULL
  /\ IF workerCount_ # workerMaxCount_
       THEN workerMonitor_' = workerMonitor_ \cup {c} /\ UNCHANGED <<state_, at, calling>>
       ELSE /\ calling' = [calling EXCEPT ![c] = "nothing"]
            /\ IF calling[c] = "addWorker" THEN UNCHANGED at ELSE Buried
            /\ state_' = IF calling[c] = "stop" THEN "STOPPED" ELSE state_
            /\ UNCHANGED workerMonitor_
  /\ UNCHANGED <<counts, expiredCount_, tasks_, mutex_, monitor_, maxMonitor_, doing, adding,
                 ends, misc>>

SpuriousWakeUp ==
  /\ \/ \E w \in monitor_ : monitor_' = monitor_ \ {w} /\ UNCHANGED <<maxMonitor_, workerMonitor_>>
     \/ \E c \in maxMonitor_ : maxMonitor_' = maxMonitor_ \ {c} /\ UNCHANGED <<monitor_, workerMonitor_>>
     \/ \E c \in workerMonitor_ : workerMonitor_' = workerMonitor_ \ {c} /\ UNCHANGED <<monitor_, maxMonitor_>>
  /\ UNCHANGED <<state_, counts, expiredCount_, tasks_, mutex_, workers, callers, ends, misc>>

-----------------------------------------------------------------------------

\* To change the queue while another thread walks through it is undefined.
Unlocked == torn' = (sweeper # NULL /\ sweeper' = sweeper /\ tasks_' # tasks_)

Working(w) == ~torn /\ WorkerStep(w) /\ Unlocked
Resuming(c) == ~torn /\ (AddResumes(c) \/ ScalingResumes(c) \/ SweepEnds(c)) /\ Unlocked

Next ==
  \/ \E w \in Worker : Working(w)
  \/ \E x \in Thread : Resuming(x)
  \/ /\ ~torn
     /\ \/ \E x \in Thread, t \in Task, wait, timed \in BOOLEAN : Add(x, t, wait, timed)
        \/ \E x \in Thread : AddTimesOut(x)
        \/ \E c \in Client :
             \/ removeNextPending(c) \/ SweepBegins(c) \/ setExpireCallback(c)
             \/ \E t \in Task : remove(c, t)
             \/ start(c) \/ stop(c)
             \/ \E W \in SUBSET Worker : addWorker(c, W)
             \/ \E n \in 1..Cardinality(Worker) : removeWorker(c, n)
        \/ \E t \in Task : FallsDue(t)
        \/ SpuriousWakeUp
     /\ Unlocked

\* Threads that are not asleep run, and tasks end.
Fairness ==
  /\ \A w \in Worker : WF_vars(Working(w))
  /\ \A x \in Thread : WF_vars(Resuming(x))

Spec == Init /\ [][Next]_vars /\ Fairness
-----------------------------------------------------------------------------

TypeOK ==
  /\ state_ \in {"UNINITIALIZED", "STARTED", "JOINING", "STOPPED"}
  /\ {workerCount_, workerMaxCount_, idleCount_} \subseteq 0..(SizeMod - 1)
  /\ expiredCount_ \in Nat /\ expireCallback_ \in BOOLEAN
  /\ tasks_ \in Seq(Task)
  /\ mutex_ \in Worker \cup {NULL}
  /\ monitor_ \subseteq Worker /\ maxMonitor_ \subseteq Thread /\ workerMonitor_ \subseteq Client
  /\ at \in [Worker -> {"none", "starting", "waiting", "running", "expiring", "looping",
                         "dead", "joined"}]
  /\ doing \in [Worker -> Task \cup {NULL}]
  /\ calling \in [Thread -> {"nothing", "add", "addWorker", "removeWorker", "stop"}]
  /\ adding \in [Thread -> [task : Task \cup {NULL}, timed : BOOLEAN]]
  /\ due \subseteq Task /\ sweeper \in Client \cup {NULL} /\ torn \in BOOLEAN
  /\ UNION {finished, removed, expired, late} \subseteq Task

\* The counters are right at every point where another thread can see them:
\* idleCount_ counts the workers that wait or have been woken and not run yet,
\* and no worker is counted out that was not counted in; and the queue never
\* grows beyond its limit, however many threads wait for room and are woken at
\* once.
CountsAgree ==
  /\ idleCount_ = Cardinality({w \in Worker : at[w] = "waiting"})
  /\ workerCount_ = Cardinality({w \in Worker : at[w] \in {"waiting", "running", "expiring", "looping"}})
  /\ PendingMax > 0 => Len(tasks_) <= PendingMax

\* When a call of stop that had workers to wait for returns, what is left in the
\* queue was put there by calls of add that were blocked when stop was called.
StopDrains ==
  [][\A c \in Client :
       calling[c] = "stop" /\ calling'[c] = "nothing" => Range(tasks_) \subseteq late]_vars

\* Tasks start in the order they were accepted in, each once at most, and only
\* expiry and removal take any away.
Pool == INSTANCE TaskPool WITH
  pending <- tasks_,
  executing <- {doing[w] : w \in {w \in Worker : at[w] = "running"}},
  dropped <- removed \cup expired

ImplementsPool == Pool!Spec

\* The tasks in the queue of a pool that runs and has workers do not stay there,
\* though workers come and go and tasks add tasks to a full queue.
TasksServed ==
  tasks_ # << >> ~> tasks_ = << >> \/ workerMaxCount_ = 0 \/ state_ # "STARTED" \/ torn

\* addWorker, removeWorker and stop return: the thread that waits for a number
\* of workers is told when it is reached.
ScalingReturns ==
  \A c \in Controller :
    calling[c] \in {"addWorker", "removeWorker", "stop"} ~> calling[c] = "nothing" \/ torn
=============================================================================
