------------------------ MODULE MCThriftConcurrency ------------------------
(***************************************************************************)
(* Thread pool and timer of the Thrift library in small instances.  They   *)
(* share no state, so a behaviour is one of the pool or one of the timer,  *)
(* and the other stays in its initial state.                               *)
(***************************************************************************)
EXTENDS ThreadManager

CONSTANTS Timer, Caller, LastTime, Dispatcher

ASSUME TimerAssumption == IsFiniteSet(Timer) /\ LastTime \in Nat /\ Dispatcher \notin Caller

VARIABLES timerState, taskMap_, deadline, taskCount_, clock, dispatcher, sleepsUntil, toRun, taken,
          inWait, inCall, fired, cancelled

\* The timers all run the same Runnable.
Timers == INSTANCE TimerManager WITH RunnableOf <- [t \in Timer |-> 1]

VARIABLE part   \* whose behaviour this is

poolVars == vars
timerVars == <<timerState, taskMap_, deadline, taskCount_, clock, dispatcher, sleepsUntil, toRun,
               taken, inWait, inCall, fired, cancelled>>

CInit == part \in {"pool", "timer"} /\ Init /\ Timers!TimerInit

CNext ==
  /\ UNCHANGED part
  /\ \/ part = "pool" /\ Next /\ UNCHANGED timerVars
     \/ part = "timer" /\ Timers!TimerNext /\ UNCHANGED poolVars

\* The fairness of the part whose behaviour it is.
CSpec ==
  /\ CInit /\ [][CNext]_<<part, poolVars, timerVars>>
  /\ \A w \in Worker : WF_poolVars(part = "pool" /\ Working(w))
  /\ \A x \in Thread : WF_poolVars(part = "pool" /\ Resuming(x))
  /\ WF_timerVars(part = "timer" /\ Timers!Dispatching)
  /\ \A c \in Caller : WF_timerVars(part = "timer" /\ Timers!CallerResumes(c))

-----------------------------------------------------------------------------
\* The types of all variables.
CTypeOK == TypeOK /\ Timers!TimerTypeOK

\* The dispatcher does not sleep past the deadline of a timer in the map; one
\* that has been removed is never run, and none before its time.
TimersInTime == Timers!NeverOversleeps /\ Timers!CancelledNeverFires

\* The calls that change the number of workers return, and so do start and stop
\* of the timer to all their callers.
CallsReturn == ScalingReturns /\ Timers!TimerCallsReturn
=============================================================================
