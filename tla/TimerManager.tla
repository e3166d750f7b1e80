---------------------------- MODULE TimerManager ----------------------------
(***************************************************************************)
(* The timer of the Thrift library (concurrency/TimerManager.cpp): callers *)
(* add and remove timers, a dispatcher thread sleeps until the first is    *)
(* due, takes all that are due and runs them without the lock.  One        *)
(* monitor serves the dispatcher and the callers of start and stop.        *)
(***************************************************************************)
EXTENDS Integers, FiniteSets

CONSTANTS
  Timer,       \* the handles add returns
  RunnableOf,  \* what each of them runs; two may run the same
  Caller,      \* the threads that start and stop the manager
  LastTime,    \* bound on the clock
  Dispatcher

VARIABLES
  timerState,   \* state_
  taskMap_,     \* the timers in the map
  deadline,     \* their keys
  taskCount_,
  clock,
  dispatcher,   \* where the dispatcher thread is
  sleepsUntil,  \* the end of its wait
  toRun,        \* the tasks it has taken and not run
  taken,        \* those it has a pointer to
  inWait,       \* the threads in the monitor's wait set
  inCall,       \* what each caller is waiting in
  fired,        \* history: the timers that have been run
  cancelled     \* history: those a remove has taken back

timerVars == <<timerState, taskMap_, deadline, taskCount_, clock, dispatcher, sleepsUntil, toRun,
               taken, inWait, inCall, fired, cancelled>>

\* A wait without a time-out.
Forever == LastTime + 1

TimerInit ==
  /\ timerState = "UNINITIALIZED"
  /\ taskMap_ = {} /\ deadline = [t \in Timer |-> 0] /\ taskCount_ = 0 /\ clock = 0
  /\ dispatcher = "none" /\ sleepsUntil = 0 /\ toRun = {} /\ taken = {}
  /\ inWait = {} /\ inCall = [c \in Caller |-> "nothing"]
  /\ fired = {} /\ cancelled = {}

Due == {t \in taskMap_ : deadline[t] <= clock}

\* The key at the front of the map.
FirstDeadline == CHOOSE d \in {deadline[t] : t \in taskMap_} : \A t \in taskMap_ : d <= deadline[t]

-----------------------------------------------------------------------------
\* The dispatcher.

\* Faulty variant: notify where notifyAll is called.
OneWoken == IF inWait = {} THEN {} ELSE inWait \ {CHOOSE x \in inWait : TRUE}

\* The wait set after notifyAll.
AllWoken == {}

DispatcherStarts ==
  /\ dispatcher = "starting" /\ dispatcher' = "looping"
  /\ IF timerState = "STARTING" THEN timerState' = "STARTED" /\ inWait' = AllWoken
     ELSE UNCHANGED <<timerState, inWait>>
  /\ UNCHANGED <<taskMap_, deadline, taskCount_, clock, sleepsUntil, toRun, taken, inCall, fired,
                 cancelled>>

\* Nothing is due: wait for the first deadline, or for a notification.
DispatcherWaits ==
  /\ dispatcher = "looping" /\ timerState = "STARTED" /\ Due = {}
  /\ dispatcher' = "asleep"
  /\ sleepsUntil' = IF taskMap_ = {} THEN Forever ELSE FirstDeadline
  /\ inWait' = inWait \cup {Dispatcher}
  /\ UNCHANGED <<timerState, taskMap_, deadline, taskCount_, clock, toRun, taken, inCall, fired,
                 cancelled>>

DispatcherWakes ==
  /\ dispatcher = "asleep" /\ (Dispatcher \notin inWait \/ clock >= sleepsUntil)
  /\ dispatcher' = "looping"
  /\ inWait' = inWait \ {Dispatcher}
  /\ UNCHANGED <<timerState, taskMap_, deadline, taskCount_, clock, sleepsUntil, toRun, taken,
                 inCall, fired, cancelled>>

\* Faulty variant: what is taken stays in the map.
LeftInMap == taskMap_

\* What is left of the map when the dispatcher takes all that is due.
MapWithoutDue == taskMap_ \ Due

DispatcherTakes ==
  /\ dispatcher = "looping" /\ timerState = "STARTED" /\ Due # {}
  /\ dispatcher' = "running"
  /\ toRun' = Due /\ taken' = Due
  /\ taskMap_' = MapWithoutDue
  /\ taskCount_' = taskCount_ - Cardinality(Due)
  /\ UNCHANGED <<timerState, deadline, clock, sleepsUntil, inWait, inCall, fired, cancelled>>

\* They are run in the order of their addresses, which is any.
DispatcherRuns(t) ==
  /\ dispatcher = "running" /\ t \in toRun
  /\ toRun' = toRun \ {t}
  /\ fired' = fired \cup {t}
  /\ UNCHANGED <<timerState, taskMap_, deadline, taskCount_, clock, dispatcher, sleepsUntil, taken,
                 inWait, inCall, cancelled>>

\* state_ is read without the lock.
DispatcherGoesOn ==
  /\ dispatcher = "running" /\ toRun = {}
  /\ dispatcher' = "looping" /\ taken' = {}
  /\ UNCHANGED <<timerState, taskMap_, deadline, taskCount_, clock, sleepsUntil, toRun, inWait,
                 inCall, fired, cancelled>>

DispatcherEnds ==
  /\ dispatcher = "looping" /\ timerState # "STARTED"
  /\ dispatcher' = "ended" /\ taken' = {}
  /\ IF timerState = "STOPPING" THEN timerState' = "STOPPED" /\ inWait' = AllWoken
     ELSE UNCHANGED <<timerState, inWait>>
  /\ UNCHANGED <<taskMap_, deadline, taskCount_, clock, sleepsUntil, toRun, inCall, fired, cancelled>>

-----------------------------------------------------------------------------
\* start and stop.

Idle(c) == inCall[c] = "nothing"

TimerStart(c) ==
  /\ Idle(c) /\ timerState \in {"UNINITIALIZED", "STARTING"}
  /\ IF timerState = "UNINITIALIZED"
       THEN timerState' = "STARTING" /\ dispatcher' = "starting"
       ELSE UNCHANGED <<timerState, dispatcher>>
  /\ inCall' = [inCall EXCEPT ![c] = "start"]
  /\ inWait' = inWait \cup {c}
  /\ UNCHANGED <<taskMap_, deadline, taskCount_, clock, sleepsUntil, toRun, taken, fired, cancelled>>

\* stop() clears the map and takes the manager from its dispatcher only after
\* that has ended.
TimerStop(c) ==
  /\ Idle(c)
  /\ CASE timerState = "UNINITIALIZED" ->
            timerState' = "STOPPED" /\ UNCHANGED <<inCall, inWait>>
       [] timerState \in {"STARTING", "STARTED"} ->
            /\ timerState' = "STOPPING"
            /\ inCall' = [inCall EXCEPT ![c] = "stop"]
            /\ inWait' = {c}
       [] timerState = "STOPPING" ->
            /\ inCall' = [inCall EXCEPT ![c] = "waiting"]
            /\ inWait' = inWait \cup {c}
            /\ UNCHANGED timerState
       [] timerState = "STOPPED" -> UNCHANGED <<timerState, inCall, inWait>>
  /\ UNCHANGED <<taskMap_, deadline, taskCount_, clock, dispatcher, sleepsUntil, toRun, taken, fired,
                 cancelled>>

\* Awake again: back to sleep or out of the call.
CallerResumes(c) ==
  /\ ~Idle(c) /\ c \notin inWait
  /\ IF timerState = (IF inCall[c] = "start" THEN "STARTING" ELSE "STOPPING")
       THEN inWait' = inWait \cup {c} /\ UNCHANGED <<inCall, taskMap_>>
       ELSE /\ inCall' = [inCall EXCEPT ![c] = "nothing"]
            /\ taskMap_' = IF inCall[c] = "stop" THEN {} ELSE taskMap_
            /\ UNCHANGED inWait
  /\ UNCHANGED <<timerState, deadline, taskCount_, clock, dispatcher, sleepsUntil, toRun, taken,
                 fired, cancelled>>

-----------------------------------------------------------------------------
\* Timers.

\* Faulty variant: the dispatcher is woken for the first timer only.
NotifiesIfEmpty(d) == taskCount_ = 0

\* The dispatcher has to be told of a timer that comes before all others.
NotifyRequired(d) == taskCount_ = 0 \/ d < FirstDeadline

\* A deadline in the past is refused, but that is seen to before the lock is
\* taken.
TimerAdd(t, d) ==
  /\ timerState = "STARTED" /\ t \notin taskMap_ \cup taken \cup fired \cup cancelled
  /\ IF NotifyRequired(d) /\ inWait # {} THEN \E x \in inWait : inWait' = inWait \ {x}
     ELSE UNCHANGED inWait
  /\ taskMap_' = taskMap_ \cup {t}
  /\ deadline' = [deadline EXCEPT ![t] = d]
  /\ taskCount_' = taskCount_ + 1
  /\ UNCHANGED <<timerState, clock, dispatcher, sleepsUntil, toRun, taken, inCall, fired, cancelled>>

\* Faulty variant: a timer that has been taken can still be removed.
AlsoTaken == taskMap_ \cup taken

\* The timers remove can take back.  A handle of any other is refused: its task
\* is being executed, or has gone.
Removable == taskMap_

\* remove of a handle, and remove of a Runnable, which takes all its timers.
TimerRemove(T) ==
  /\ timerState = "STARTED" /\ T # {} /\ T \subseteq Removable
  /\ taskMap_' = taskMap_ \ T
  /\ taskCount_' = taskCount_ - Cardinality(T)
  /\ cancelled' = cancelled \cup T
  /\ UNCHANGED <<timerState, deadline, clock, dispatcher, sleepsUntil, toRun, taken, inWait, inCall,
                 fired>>

RemoveHandle(t) == TimerRemove({t})
RemoveRunnable(r) == TimerRemove({t \in Removable : RunnableOf[t] = r})

TimePasses ==
  /\ clock < LastTime /\ clock' = clock + 1
  /\ UNCHANGED <<timerState, taskMap_, deadline, taskCount_, dispatcher, sleepsUntil, toRun, taken,
                 inWait, inCall, fired, cancelled>>

SpuriousTimerWakeUp ==
  /\ \E x \in inWait : inWait' = inWait \ {x}
  /\ UNCHANGED <<timerState, taskMap_, deadline, taskCount_, clock, dispatcher, sleepsUntil, toRun,
                 taken, inCall, fired, cancelled>>

-----------------------------------------------------------------------------

Dispatching ==
  \/ DispatcherStarts \/ DispatcherWaits \/ DispatcherWakes \/ DispatcherTakes
  \/ DispatcherGoesOn \/ DispatcherEnds
  \/ \E t \in Timer : DispatcherRuns(t)

TimerNext ==
  \/ Dispatching \/ TimePasses \/ SpuriousTimerWakeUp
  \/ \E c \in Caller : TimerStart(c) \/ TimerStop(c) \/ CallerResumes(c)
  \/ \E t \in Timer : RemoveHandle(t) \/ \E d \in 0..LastTime : TimerAdd(t, d)
  \/ \E t \in Timer : RemoveRunnable(RunnableOf[t])

\* Threads that are awake run; timers' tasks come to an end.
TimerFairness ==
  /\ WF_timerVars(Dispatching)
  /\ \A c \in Caller : WF_timerVars(CallerResumes(c))

TimerSpec == TimerInit /\ [][TimerNext]_timerVars /\ TimerFairness
-----------------------------------------------------------------------------

TimerTypeOK ==
  /\ timerState \in {"UNINITIALIZED", "STARTING", "STARTED", "STOPPING", "STOPPED"}
  /\ UNION {taskMap_, toRun, taken, fired, cancelled} \subseteq Timer
  /\ deadline \in [Timer -> 0..LastTime] /\ clock \in 0..LastTime /\ taskCount_ \in 0..Cardinality(Timer)
  /\ dispatcher \in {"none", "starting", "looping", "asleep", "running", "ended"}
  /\ sleepsUntil \in 0..Forever
  /\ inWait \subseteq Caller \cup {Dispatcher}
  /\ inCall \in [Caller -> {"nothing", "start", "stop", "waiting"}]

\* The dispatcher does not sleep past the deadline of a timer it does not know
\* of: if one is due before its wait ends, it has been notified.
NeverOversleeps ==
  dispatcher = "asleep" /\ Dispatcher \in inWait =>
    \A t \in taskMap_ : sleepsUntil <= deadline[t] \/ timerState # "STARTED"

\* A timer that remove has taken back is never run, and one that has been taken
\* for execution is not taken back; each runs once and none before its time.
CancelledNeverFires ==
  /\ cancelled \cap (fired \cup toRun) = {}
  /\ \A t \in fired \cup toRun : deadline[t] <= clock
  /\ taskMap_ \cap (fired \cup toRun) = {}

\* start and stop return, to however many threads have called them, as long as
\* no task of a timer is one of these.
TimerCallsReturn ==
  (\E c \in Caller : inCall[c] # "nothing") ~> \A c \in Caller : inCall[c] = "nothing"
=============================================================================
