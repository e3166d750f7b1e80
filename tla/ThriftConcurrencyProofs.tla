---------------------- MODULE ThriftConcurrencyProofs ----------------------
(***************************************************************************)
(* Theorems about the timer, for any number of timers, callers and times,  *)
(* and about the types of pool and timer together.                         *)
(***************************************************************************)
EXTENDS MCThriftConcurrency, ThreadManagerProofs

-----------------------------------------------------------------------------
\* The inductive invariant of the timer.

\* As long as it runs taskCount_ is the number of timers in the map, so that add
\* knows when the map is empty, and nobody but the dispatcher sleeps, so that
\* notify reaches it.
Running ==
  /\ timerState = "UNINITIALIZED" => dispatcher = "none"
  /\ timerState \in {"UNINITIALIZED", "STARTING"} => taskMap_ = {} /\ taskCount_ = 0
  /\ timerState = "STARTED" => taskCount_ = Cardinality(taskMap_) /\ inWait \subseteq {Dispatcher}
  /\ \A c \in Caller : inCall[c] \in {"stop", "waiting"} => timerState \in {"STOPPING", "STOPPED"}

\* A timer is in the map, with the dispatcher, or done with.
OnePlace ==
  /\ toRun \subseteq taken /\ (dispatcher # "running" => toRun = {})
  /\ taskMap_ \cap cancelled = {}

TimerInv == Timers!TimerTypeOK /\ Running /\ OnePlace /\ TimersInTime

-----------------------------------------------------------------------------
\* Sets of timers.

LEMMA TimersCounted ==
  ASSUME NEW S \in SUBSET Timer
  PROVE  /\ IsFiniteSet(S) /\ Cardinality(S) \in 0..Cardinality(Timer)
         /\ Cardinality(Timer) \in Nat /\ (Cardinality(S) = 0 <=> S = {})
BY TimerAssumption, FS_Subset, FS_CardinalityType, FS_EmptySet

LEMMA CountBounds ==
  TimerInv => taskCount_ \in 0..Cardinality(Timer)
BY DEF TimerInv, Timers!TimerTypeOK, Timers!Cardinality, Cardinality

LEMMA TimersLeft ==
  ASSUME NEW S \in SUBSET Timer, NEW T \in SUBSET S
  PROVE  Cardinality(S \ T) = Cardinality(S) - Cardinality(T)
<1>1. IsFiniteSet(S \ T) /\ IsFiniteSet(T) /\ (S \ T) \cup T = S /\ (S \ T) \cap T = {}
  BY TimersCounted
<1>2. Cardinality((S \ T) \cup T) = Cardinality(S \ T) + Cardinality(T) - Cardinality((S \ T) \cap T)
  BY <1>1, FS_Union
<1>3. Cardinality((S \ T) \cap T) = 0
  BY <1>1, FS_EmptySet
<1>4. Cardinality(S \ T) \in Nat /\ Cardinality(T) \in Nat
  BY TimersCounted
<1>5. Cardinality(S) = Cardinality(S \ T) + Cardinality(T) - 0
  BY <1>1, <1>2, <1>3
<1> QED
  BY <1>4, <1>5

\* The key at the front of the map is the first.
LEMMA FrontOfMap ==
  ASSUME Timers!TimerTypeOK, taskMap_ # {}
  PROVE  /\ Timers!FirstDeadline \in 0..LastTime
         /\ \E t \in taskMap_ : deadline[t] = Timers!FirstDeadline
         /\ \A t \in taskMap_ : Timers!FirstDeadline <= deadline[t]
<1> DEFINE D == {deadline[t] : t \in taskMap_}
<1>1. D \subseteq 0..LastTime /\ D # {}
  BY DEF Timers!TimerTypeOK
<1>2. D \in SUBSET Nat
  BY <1>1, TimerAssumption
<1>3. \E d \in D : \A e \in D : d <= e
  BY <1>1, <1>2, LeastIndex
<1>4. \E d \in {deadline[t] : t \in taskMap_} : \A t \in taskMap_ : d <= deadline[t]
  BY <1>3
<1>5. /\ Timers!FirstDeadline \in D
      /\ \A t \in taskMap_ : Timers!FirstDeadline <= deadline[t]
  BY <1>4 DEF Timers!FirstDeadline
<1> QED
  BY <1>1, <1>5

-----------------------------------------------------------------------------
\* The dispatcher.

LEMMA DispatcherKeeps ==
  ASSUME TimerInv
  PROVE  /\ Timers!DispatcherStarts => TimerInv'
         /\ Timers!DispatcherWakes => TimerInv'
         /\ Timers!DispatcherGoesOn => TimerInv'
         /\ Timers!DispatcherEnds => TimerInv'
         /\ \A t \in Timer : Timers!DispatcherRuns(t) => TimerInv'
<1> USE DEF TimerInv, Running, OnePlace, TimersInTime, Timers!TimerTypeOK, Timers!NeverOversleeps,
            Timers!CancelledNeverFires
<1>1. ASSUME Timers!DispatcherStarts
      PROVE  TimerInv'
  <2>1. Cardinality({}) = 0
    BY FS_EmptySet
  <2> QED
    BY <1>1, <2>1 DEF Timers!DispatcherStarts, Timers!AllWoken
<1>2. ASSUME Timers!DispatcherWakes
      PROVE  TimerInv'
  BY <1>2 DEF Timers!DispatcherWakes
<1>3. ASSUME Timers!DispatcherGoesOn
      PROVE  TimerInv'
  BY <1>3 DEF Timers!DispatcherGoesOn
<1>4. ASSUME Timers!DispatcherEnds
      PROVE  TimerInv'
  BY <1>4 DEF Timers!DispatcherEnds, Timers!AllWoken
<1>5. ASSUME NEW t \in Timer, Timers!DispatcherRuns(t)
      PROVE  TimerInv'
  BY <1>5 DEF Timers!DispatcherRuns
<1> QED
  BY <1>1, <1>2, <1>3, <1>4, <1>5

LEMMA WaitKeeps ==
  ASSUME TimerInv, Timers!DispatcherWaits
  PROVE  TimerInv'
<1>1. /\ dispatcher = "looping" /\ timerState = "STARTED" /\ dispatcher' = "asleep"
      /\ sleepsUntil' = IF taskMap_ = {} THEN Timers!Forever ELSE Timers!FirstDeadline
      /\ inWait' = inWait \cup {Dispatcher}
      /\ UNCHANGED <<timerState, taskMap_, deadline, taskCount_, clock, toRun, taken, inCall,
                     fired, cancelled>>
  BY DEF Timers!DispatcherWaits
<1>2. sleepsUntil' \in 0..Timers!Forever
  <2>1. Timers!Forever = LastTime + 1 /\ LastTime \in Nat
    BY TimerAssumption DEF Timers!Forever
  <2>2. taskMap_ # {} => Timers!FirstDeadline \in 0..LastTime
    BY FrontOfMap DEF TimerInv
  <2> QED
    <3>1. CASE taskMap_ = {}
      BY <1>1, <2>1, <3>1
    <3>2. CASE taskMap_ # {}
      <4>1. sleepsUntil' = Timers!FirstDeadline
        BY <1>1, <3>2
      <4>2. PICK d \in 0..LastTime : d = sleepsUntil'
        BY <2>2, <3>2, <4>1
      <4> QED
        BY <2>1, <4>2
    <3> QED
      BY <3>1, <3>2
<1>3. Timers!TimerTypeOK'
  BY <1>1, <1>2 DEF TimerInv, Timers!TimerTypeOK, Timers!Forever
<1>4. Timers!NeverOversleeps'
  <2>1. \A t \in taskMap_ : sleepsUntil' <= deadline[t]
    BY <1>1, FrontOfMap DEF TimerInv
  <2> QED
    BY <1>1, <2>1 DEF Timers!NeverOversleeps
<1> QED
  BY <1>1, <1>3, <1>4
     DEF TimerInv, Running, OnePlace, TimersInTime, Timers!CancelledNeverFires

LEMMA TakeKeeps ==
  ASSUME TimerInv, Timers!DispatcherTakes
  PROVE  TimerInv'
<1> DEFINE D == Timers!Due
<1>1. /\ timerState = "STARTED" /\ dispatcher' = "running"
      /\ toRun' = D /\ taken' = D /\ taskMap_' = taskMap_ \ D
      /\ taskCount_' = taskCount_ - Cardinality(D)
      /\ UNCHANGED <<timerState, deadline, clock, sleepsUntil, inWait, inCall, fired, cancelled>>
  BY DEF Timers!DispatcherTakes, Timers!MapWithoutDue, Timers!Cardinality, Cardinality
<1>2. D \subseteq taskMap_ /\ \A t \in D : deadline[t] <= clock
  BY DEF Timers!Due
<1>3. taskMap_ \subseteq Timer
  BY DEF TimerInv, Timers!TimerTypeOK
<1> HIDE DEF D
<1>4. taskCount_' = Cardinality(taskMap_')
  BY <1>1, <1>2, <1>3, TimersLeft DEF TimerInv, Running
<1>5. Timers!TimerTypeOK'
  <2>1. taskMap_' \in SUBSET Timer
    BY <1>1, <1>2, <1>3
  <2>2. taskCount_' \in 0..Cardinality(Timer)
    BY <1>4, <2>1, TimersCounted
  <2>3. taskCount_' \in 0..Timers!Cardinality(Timer)
    BY <2>2 DEF Timers!Cardinality, Cardinality
  <2> QED
    BY <1>1, <1>2, <2>1, <2>3 DEF TimerInv, Timers!TimerTypeOK
<1>6. Running'
  BY <1>1, <1>4 DEF TimerInv, Running
<1>7. OnePlace'
  BY <1>1 DEF TimerInv, OnePlace
<1>8. Timers!NeverOversleeps' /\ Timers!CancelledNeverFires'
  BY <1>1, <1>2
     DEF TimerInv, OnePlace, TimersInTime, Timers!NeverOversleeps, Timers!CancelledNeverFires
<1> QED
  BY <1>5, <1>6, <1>7, <1>8 DEF TimerInv, TimersInTime

-----------------------------------------------------------------------------
\* start and stop.

LEMMA TimerCallsKeep ==
  ASSUME TimerInv, NEW c \in Caller
  PROVE  /\ Timers!TimerStart(c) => TimerInv'
         /\ Timers!TimerStop(c) => TimerInv'
         /\ Timers!CallerResumes(c) => TimerInv'
<1> USE DEF TimerInv, Running, OnePlace, TimersInTime, Timers!TimerTypeOK, Timers!NeverOversleeps,
            Timers!CancelledNeverFires
<1>1. ASSUME Timers!TimerStart(c)
      PROVE  TimerInv'
  <2>1. timerState \in {"UNINITIALIZED", "STARTING"} /\ inCall[c] = "nothing"
    BY <1>1 DEF Timers!TimerStart, Timers!Idle
  <2>2. /\ inCall' = [inCall EXCEPT ![c] = "start"] /\ inWait' = inWait \cup {c}
        /\ UNCHANGED <<taskMap_, deadline, taskCount_, clock, sleepsUntil, toRun, taken, fired,
                       cancelled>>
    BY <1>1 DEF Timers!TimerStart
  <2>3. CASE timerState' = "STARTING" /\ dispatcher' = "starting" /\ timerState = "UNINITIALIZED"
    BY <2>1, <2>2, <2>3
  <2>4. CASE UNCHANGED <<timerState, dispatcher>>
    BY <2>1, <2>2, <2>4
  <2> QED
    BY <1>1, <2>3, <2>4 DEF Timers!TimerStart
<1>2. ASSUME Timers!TimerStop(c)
      PROVE  TimerInv'
  <2>1. CASE timerState = "UNINITIALIZED"
    BY <1>2, <2>1 DEF Timers!TimerStop
  <2>2. CASE timerState \in {"STARTING", "STARTED"}
    BY <1>2, <2>2 DEF Timers!TimerStop
  <2>3. CASE timerState = "STOPPING"
    BY <1>2, <2>3 DEF Timers!TimerStop
  <2>4. CASE timerState = "STOPPED"
    BY <1>2, <2>4 DEF Timers!TimerStop
  <2> QED
    BY <2>1, <2>2, <2>3, <2>4
<1>3. ASSUME Timers!CallerResumes(c)
      PROVE  TimerInv'
  <2>1. CASE UNCHANGED <<inCall, taskMap_>> /\ inWait' = inWait \cup {c} /\ timerState # "STARTED"
    BY <1>3, <2>1 DEF Timers!CallerResumes
  <2>2. CASE /\ inCall' = [inCall EXCEPT ![c] = "nothing"] /\ UNCHANGED inWait
             /\ taskMap_' = IF inCall[c] = "stop" THEN {} ELSE taskMap_
    BY <1>3, <2>2 DEF Timers!CallerResumes
  <2> QED
    BY <1>3, <2>1, <2>2 DEF Timers!CallerResumes
<1> QED
  BY <1>1, <1>2, <1>3

-----------------------------------------------------------------------------
\* Timers.

LEMMA TimerAddKeeps ==
  ASSUME TimerInv, NEW t \in Timer, NEW d \in 0..LastTime, Timers!TimerAdd(t, d)
  PROVE  TimerInv'
<1>1. /\ timerState = "STARTED" /\ t \notin taskMap_ \cup taken \cup fired \cup cancelled
      /\ taskMap_' = taskMap_ \cup {t} /\ deadline' = [deadline EXCEPT ![t] = d]
      /\ taskCount_' = taskCount_ + 1
      /\ UNCHANGED <<timerState, clock, dispatcher, sleepsUntil, toRun, taken, inCall, fired,
                     cancelled>>
      /\ inWait' \subseteq inWait
      /\ (taskCount_ = 0 \/ d < Timers!FirstDeadline) /\ inWait # {} =>
           \E x \in inWait : inWait' = inWait \ {x}
  BY DEF Timers!TimerAdd, Timers!NotifyRequired
<1>2. taskMap_ \subseteq Timer /\ taskCount_ = Cardinality(taskMap_) /\ inWait \subseteq {Dispatcher}
  BY <1>1 DEF TimerInv, Running, Timers!TimerTypeOK
<1>3. taskCount_' = Cardinality(taskMap_')
  BY <1>1, <1>2, TimersCounted, FS_AddElement
<1>4. /\ deadline' \in [Timer -> 0..LastTime] /\ deadline'[t] = d
      /\ \A u \in Timer \ {t} : deadline'[u] = deadline[u]
  BY <1>1 DEF TimerInv, Timers!TimerTypeOK
<1>5. Timers!TimerTypeOK'
  <2>1. taskMap_' \in SUBSET Timer
    BY <1>1, <1>2
  <2>2. taskCount_' \in 0..Cardinality(Timer)
    BY <1>3, <2>1, TimersCounted
  <2>3. taskCount_' \in 0..Timers!Cardinality(Timer)
    BY <2>2 DEF Timers!Cardinality, Cardinality
  <2> QED
    BY <1>1, <1>4, <2>1, <2>3 DEF TimerInv, Timers!TimerTypeOK
<1>6. Running' /\ OnePlace'
  BY <1>1, <1>2, <1>3 DEF TimerInv, Running, OnePlace
<1>7. Timers!CancelledNeverFires'
  BY <1>1, <1>4
     DEF TimerInv, OnePlace, TimersInTime, Timers!CancelledNeverFires, Timers!TimerTypeOK
<1>8. Timers!NeverOversleeps'
  <2> SUFFICES ASSUME dispatcher = "asleep", Dispatcher \in inWait', NEW u \in taskMap_ \cup {t}
               PROVE  sleepsUntil <= deadline'[u]
    BY <1>1 DEF Timers!NeverOversleeps
  <2>1. Dispatcher \in inWait /\ inWait' = inWait
    BY <1>1, <1>2
  <2>2. taskCount_ # 0 /\ ~(d < Timers!FirstDeadline)
    BY <1>1, <1>2, <2>1
  <2>3. taskMap_ # {}
    BY <1>2, <2>2, TimersCounted
  <2>4. \A v \in taskMap_ : sleepsUntil <= deadline[v]
    BY <1>1, <2>1 DEF TimerInv, TimersInTime, Timers!NeverOversleeps
  <2>5. PICK v \in taskMap_ : deadline[v] = Timers!FirstDeadline
    BY <2>3, FrontOfMap DEF TimerInv
  <2>6. sleepsUntil \in Int /\ d \in Int /\ deadline[v] \in Int
    BY <1>2, TimerAssumption DEF TimerInv, Timers!TimerTypeOK, Timers!Forever
  <2>7. sleepsUntil <= d
    BY <2>2, <2>4, <2>5, <2>6
  <2> QED
    BY <1>1, <1>2, <1>4, <2>4, <2>7
<1> QED
  BY <1>5, <1>6, <1>7, <1>8 DEF TimerInv, TimersInTime

LEMMA TimerRemoveKeeps ==
  ASSUME TimerInv, NEW T, Timers!TimerRemove(T)
  PROVE  TimerInv'
<1>1. /\ timerState = "STARTED" /\ T \subseteq taskMap_
      /\ taskMap_' = taskMap_ \ T /\ taskCount_' = taskCount_ - Cardinality(T)
      /\ cancelled' = cancelled \cup T
      /\ UNCHANGED <<timerState, deadline, clock, dispatcher, sleepsUntil, toRun, taken, inWait,
                     inCall, fired>>
  BY DEF Timers!TimerRemove, Timers!Removable, Timers!Cardinality, Cardinality
<1>2. taskMap_ \subseteq Timer
  BY DEF TimerInv, Timers!TimerTypeOK
<1>3. taskCount_' = Cardinality(taskMap_')
  BY <1>1, <1>2, TimersLeft DEF TimerInv, Running
<1>4. Timers!TimerTypeOK'
  <2>1. taskMap_' \in SUBSET Timer
    BY <1>1, <1>2
  <2>2. taskCount_' \in 0..Cardinality(Timer)
    BY <1>3, <2>1, TimersCounted
  <2>3. taskCount_' \in 0..Timers!Cardinality(Timer)
    BY <2>2 DEF Timers!Cardinality, Cardinality
  <2> QED
    BY <1>1, <1>2, <2>1, <2>3 DEF TimerInv, Timers!TimerTypeOK
<1>5. Running' /\ OnePlace'
  BY <1>1, <1>3 DEF TimerInv, Running, OnePlace
<1>6. Timers!NeverOversleeps' /\ Timers!CancelledNeverFires'
  BY <1>1 DEF TimerInv, TimersInTime, Timers!NeverOversleeps, Timers!CancelledNeverFires
<1> QED
  BY <1>4, <1>5, <1>6 DEF TimerInv, TimersInTime

LEMMA OtherTimerStepsKeep ==
  ASSUME TimerInv
  PROVE  /\ Timers!TimePasses => TimerInv'
         /\ Timers!SpuriousTimerWakeUp => TimerInv'
         /\ UNCHANGED timerVars => TimerInv'
<1> USE DEF TimerInv, Running, OnePlace, TimersInTime, Timers!TimerTypeOK, Timers!NeverOversleeps,
            Timers!CancelledNeverFires
<1>1. ASSUME Timers!TimePasses
      PROVE  TimerInv'
  <2>1. \A t \in fired \cup toRun : deadline[t] <= clock + 1
    BY TimerAssumption
  <2>2. clock' = clock + 1 /\ clock' \in 0..LastTime
    BY <1>1, TimerAssumption DEF Timers!TimePasses
  <2> QED
    BY <1>1, <2>1, <2>2 DEF Timers!TimePasses
<1>2. ASSUME Timers!SpuriousTimerWakeUp
      PROVE  TimerInv'
  BY <1>2 DEF Timers!SpuriousTimerWakeUp
<1>3. ASSUME UNCHANGED timerVars
      PROVE  TimerInv'
  BY <1>3 DEF timerVars
<1> QED
  BY <1>1, <1>2, <1>3

-----------------------------------------------------------------------------
\* The theorems.

LEMMA TimerBegins ==
  ASSUME Timers!TimerInit
  PROVE  TimerInv
<1>1. Cardinality(Timer) \in Nat /\ LastTime \in Nat
  BY TimerAssumption, FS_CardinalityType
<1>2. Timers!Cardinality(Timer) \in Nat
  BY <1>1 DEF Timers!Cardinality, Cardinality
<1> QED
  BY <1>1, <1>2
     DEF Timers!TimerInit, TimerInv, Running, OnePlace, TimersInTime, Timers!TimerTypeOK,
         Timers!NeverOversleeps, Timers!CancelledNeverFires, Timers!Forever

LEMMA TimerStep ==
  ASSUME TimerInv, [CNext]_<<part, poolVars, timerVars>>
  PROVE  TimerInv'
<1>1. CASE Timers!TimerNext
  <2>1. CASE Timers!Dispatching
    BY <2>1, DispatcherKeeps, WaitKeeps, TakeKeeps DEF Timers!Dispatching
  <2>2. CASE Timers!TimePasses \/ Timers!SpuriousTimerWakeUp
    BY <2>2, OtherTimerStepsKeep
  <2>3. CASE \E c \in Caller : Timers!TimerStart(c) \/ Timers!TimerStop(c) \/ Timers!CallerResumes(c)
    BY <2>3, TimerCallsKeep
  <2>4. CASE \E t \in Timer : Timers!RemoveHandle(t)
    BY <2>4, TimerRemoveKeeps DEF Timers!RemoveHandle
  <2>5. CASE \E t \in Timer : \E d \in 0..LastTime : Timers!TimerAdd(t, d)
    BY <2>5, TimerAddKeeps
  <2>6. CASE \E t \in Timer : Timers!RemoveRunnable([u \in Timer |-> 1][t])
    BY <2>6, TimerRemoveKeeps DEF Timers!RemoveRunnable
  <2> QED
    BY <1>1, <2>1, <2>2, <2>3, <2>4, <2>5, <2>6 DEF Timers!TimerNext
<1>2. CASE UNCHANGED timerVars
  BY <1>2, OtherTimerStepsKeep
<1> QED
  BY <1>1, <1>2 DEF CNext

\* The dispatcher never sleeps past the deadline of a timer in the map, although timers are added
\* while it looks at the map, sleeps or runs others; and a timer that remove took back is never run,
\* none is run before its time, and none that is run is still in the map.
THEOREM DeadlinesAreKept == CSpec => []TimersInTime
<1>1. CInit => TimerInv
  BY TimerBegins DEF CInit
<1>2. TimerInv /\ [CNext]_<<part, poolVars, timerVars>> => TimerInv'
  BY TimerStep
<1>3. TimerInv => TimersInTime
  BY DEF TimerInv
<1> QED
  BY <1>1, <1>2, <1>3, PTL DEF CSpec

\* Pool and timer keep their types; the count of timers is never below zero or above the number of
\* timers, and no counter of the pool leaves the range of size_t.
THEOREM ConcurrencyTypeCorrect ==
  ASSUME OneController
  PROVE  CSpec => []CTypeOK
<1>1. CInit => TypeInv /\ TimerInv
  BY TimerBegins, TypesBegin DEF CInit
<1>2. TypeInv /\ TimerInv /\ [CNext]_<<part, poolVars, timerVars>> => TypeInv' /\ TimerInv'
  <2>1. [CNext]_<<part, poolVars, timerVars>> => [Next]_vars
    BY DEF CNext, poolVars
  <2> QED
    BY <2>1, TimerStep, StepTypes
<1>3. TypeInv /\ TimerInv => CTypeOK
  BY InvGivesTypes DEF TimerInv, CTypeOK
<1> QED
  BY <1>1, <1>2, <1>3, PTL DEF CSpec
=============================================================================
