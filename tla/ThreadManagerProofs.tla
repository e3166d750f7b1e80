------------------------- MODULE ThreadManagerProofs -------------------------
(***************************************************************************)
(* Theorems about the thread pool, for any number of workers, clients and  *)
(* tasks and any limit of the queue: its counts are right, it implements   *)
(* TaskPool, it keeps its types, and stop works the queue off.             *)
(***************************************************************************)
EXTENDS ThreadManager, TLAPS, FiniteSetTheorems, SequenceTheorems, WellFoundedInduction

\* Two threads that change the number of workers at once would wait for each
\* other's: the pool is made for one.
OneController == \A c, d \in Controller : c = d

-----------------------------------------------------------------------------
\* Counting workers.

In(f, S) == {w \in Worker : f[w] \in S}
Number(f, S) == Cardinality(In(f, S))

One(P) == IF P THEN 1 ELSE 0

LEMMA FiniteIn ==
  ASSUME NEW f, NEW S
  PROVE  /\ IsFiniteSet(In(f, S)) /\ Number(f, S) \in Nat
         /\ Number(f, S) <= Cardinality(Worker) /\ Cardinality(Worker) \in Nat
<1>1. In(f, S) \in SUBSET Worker
  BY DEF In
<1> QED
  BY <1>1, PoolAssumption, FS_Subset, FS_CardinalityType DEF Number

LEMMA NoneIn ==
  ASSUME NEW f, NEW S, NEW w \in Worker, Number(f, S) = 0
  PROVE  f[w] \notin S
BY FiniteIn, FS_EmptySet DEF Number, In

\* One worker changes its state.
LEMMA OneMoves ==
  ASSUME NEW f, NEW g, NEW S, NEW w \in Worker,
         \A v \in Worker \ {w} : g[v] = f[v]
  PROVE  Number(g, S) = Number(f, S) - One(f[w] \in S) + One(g[w] \in S)
<1> DEFINE A == In(f, S)
           B == In(g, S)
<1>1. IsFiniteSet(A) /\ IsFiniteSet(B) /\ Cardinality(A) \in Nat /\ Cardinality(B) \in Nat
  BY FiniteIn DEF Number
<1>2. A \ {w} = B \ {w} /\ (w \in A <=> f[w] \in S) /\ (w \in B <=> g[w] \in S)
  BY DEF In
<1>3. /\ Cardinality(A \ {w}) = (IF w \in A THEN Cardinality(A) - 1 ELSE Cardinality(A))
      /\ Cardinality(B \ {w}) = (IF w \in B THEN Cardinality(B) - 1 ELSE Cardinality(B))
  BY <1>1, FS_RemoveElement
<1> HIDE DEF A, B
<1>4. /\ One(f[w] \in S) = (IF w \in A THEN 1 ELSE 0)
      /\ One(g[w] \in S) = (IF w \in B THEN 1 ELSE 0)
  BY <1>2 DEF One
<1>5. Cardinality(A \ {w}) = Cardinality(B \ {w})
  BY <1>2
<1>6. Cardinality(B) = Cardinality(A) - One(f[w] \in S) + One(g[w] \in S)
  BY <1>1, <1>3, <1>4, <1>5
<1> QED
  BY <1>6 DEF Number, A, B

\* Workers in two sets of states.
LEMMA NumberOfBoth ==
  ASSUME NEW f, NEW S, NEW T, S \cap T = {}
  PROVE  Number(f, S \cup T) = Number(f, S) + Number(f, T)
<1> DEFINE A == In(f, S)
           B == In(f, T)
<1>1. In(f, S \cup T) = A \cup B /\ A \cap B = {}
  BY DEF In
<1>2. IsFiniteSet(A) /\ IsFiniteSet(B) /\ Cardinality(A) \in Nat /\ Cardinality(B) \in Nat
  BY FiniteIn DEF Number
<1>3. Cardinality(A \cap B) = 0
  BY <1>1, FS_EmptySet
<1> HIDE DEF A, B
<1>4. Cardinality(A \cup B) = Cardinality(A) + Cardinality(B) - Cardinality(A \cap B)
  BY <1>2, FS_Union
<1>5. Cardinality(A \cup B) = Cardinality(A) + Cardinality(B)
  BY <1>2, <1>3, <1>4
<1> QED
  BY <1>1, <1>5 DEF Number, A, B

-----------------------------------------------------------------------------
\* The queue.

LEMMA LeastIndex ==
  ASSUME NEW T \in SUBSET Nat, T # {}
  PROVE  \E i \in T : \A j \in T : i <= j
<1>1. \E i \in T : \A j \in T : ~ (<<j, i>> \in OpToRel(<, Nat))
  BY NatLessThanWellFounded, WFMin
<1>2. PICK i \in T : \A j \in T : ~ (<<j, i>> \in OpToRel(<, Nat))
  BY <1>1
<1>3. \A j \in T : ~ (j < i)
  BY <1>2 DEF OpToRel
<1> QED
  BY <1>3

\* A queue is a sequence of what is in it.
Queue(q) == q \in Seq(Range(q))

LEMMA SequenceIsQueue ==
  ASSUME NEW X, NEW q \in Seq(X)
  PROVE  Queue(q) /\ Range(q) \subseteq X /\ Len(q) \in Nat
<1>1. Len(q) \in Nat /\ q \in [1..Len(q) -> X] /\ DOMAIN q = 1..Len(q)
  OBVIOUS
<1>2. q \in [1..Len(q) -> Range(q)]
  BY <1>1 DEF Range
<1>3. q \in Seq(Range(q))
  BY <1>1, <1>2, SeqDef
<1> QED
  BY <1>1, <1>3 DEF Queue, Range

LEMMA WithoutShortens ==
  ASSUME NEW q, Queue(q), NEW D
  PROVE  Queue(Without(q, D)) /\ Len(Without(q, D)) <= Len(q)
<1> DEFINE left == {i \in DOMAIN q : q[i] \notin D}
           s == Without(q, D)
           k == Cardinality(left)
<1>1. Len(q) \in Nat /\ DOMAIN q = 1..Len(q)
  BY DEF Queue
<1>2. 1 \in Int /\ Len(q) \in Int
  BY <1>1
<1>3. /\ IsFiniteSet(1..Len(q))
      /\ Cardinality(1..Len(q)) = IF 1 > Len(q) THEN 0 ELSE Len(q) - 1 + 1
  BY <1>2, FS_Interval
<1>4. IsFiniteSet(1..Len(q)) /\ Cardinality(1..Len(q)) = Len(q)
  BY <1>1, <1>3
<1>5. k \in Nat /\ k <= Len(q)
  BY <1>1, <1>4, FS_Subset, FS_CardinalityType
<1>6. DOMAIN s = 1..k /\ s = [i \in 1..k |-> s[i]]
  BY DEF Without
<1> HIDE DEF s, k
<1>7. s \in [1..k -> Range(s)]
  BY <1>6 DEF Range
<1>8. s \in Seq(Range(s)) /\ Len(s) = k
  BY <1>5, <1>6, <1>7, SeqDef
<1> QED
  BY <1>5, <1>8 DEF Queue, s

LEMMA PurgeShortens ==
  ASSUME Queue(tasks_)
  PROVE  /\ Queue(QueuePurged) /\ Len(QueuePurged) <= Len(tasks_)
         /\ Len(QueuePurged) \in Nat /\ Len(tasks_) \in Nat
<1>0. Len(tasks_) \in Nat /\ DOMAIN tasks_ = 1..Len(tasks_) /\ tasks_ \in Seq(Range(tasks_))
  BY DEF Queue
<1>1. CASE ~Purges
  BY <1>0, <1>1 DEF QueuePurged, Queue
<1>2. CASE Purges
  <2> DEFINE T == {i \in DOMAIN tasks_ : tasks_[i] \in due}
             n == FirstDue
             front == SubSeq(tasks_, 1, n - 1)
             rear == SubSeq(tasks_, n + 1, Len(tasks_))
  <2>1. T \in SUBSET Nat /\ T # {}
    BY <1>0, <1>2 DEF Purges, Range
  <2>2. \E i \in DOMAIN tasks_ : tasks_[i] \in due /\ \A j \in DOMAIN tasks_ : tasks_[j] \in due => i <= j
    BY <2>1, LeastIndex
  <2>3. n \in 1..Len(tasks_)
    BY <2>2, <1>0 DEF FirstDue
  <2> HIDE DEF n
  <2>4. \A i \in 1..Len(tasks_) : tasks_[i] \in Range(tasks_)
    BY <1>0 DEF Range
  <2>5. front \in Seq(Range(tasks_)) /\ Len(front) = (IF 1 <= n - 1 THEN n - 1 - 1 + 1 ELSE 0)
    BY <2>3, <2>4, SubSeqProperties
  <2>6. /\ rear \in Seq(Range(tasks_))
        /\ Len(rear) = (IF n + 1 <= Len(tasks_) THEN Len(tasks_) - (n + 1) + 1 ELSE 0)
    BY <2>3, <2>4, <1>0, SubSeqProperties
  <2> HIDE DEF front, rear
  <2>7. front \o rear \in Seq(Range(tasks_)) /\ Len(front \o rear) = Len(front) + Len(rear)
    BY <2>5, <2>6, ConcatProperties
  <2> DEFINE k == Len(front)
             m == Len(rear)
             all == Len(tasks_)
  <2>8. n \in 1..all /\ all \in Nat
    BY <2>3, <1>0
  <2>9. k = (IF 1 <= n - 1 THEN n - 1 - 1 + 1 ELSE 0)
    BY <2>5
  <2>10. m = (IF n + 1 <= all THEN all - (n + 1) + 1 ELSE 0)
    BY <2>6
  <2> HIDE DEF k, m, all
  <2>11. k + m = all - 1
    BY <2>8, <2>9, <2>10
  <2>12. front \o rear \in Seq(Range(tasks_)) /\ Len(front \o rear) = Len(tasks_) - 1
    BY <2>11, <2>7 DEF k, m, all
  <2>13. QueuePurged = front \o rear
    BY <1>2 DEF QueuePurged, front, rear, n
  <2>14. Queue(front \o rear)
    BY <2>12, SequenceIsQueue
  <2> QED
    BY <2>12, <2>13, <2>14, <1>0
<1> QED
  BY <1>1, <1>2

LEMMA AppendLengthens ==
  ASSUME NEW q, Queue(q), NEW t
  PROVE  /\ Queue(Append(q, t)) /\ Len(Append(q, t)) = Len(q) + 1 /\ Len(q) \in Nat
<1> DEFINE X == Range(q) \cup {t}
<1>1. q \in [1..Len(q) -> Range(q)] /\ Len(q) \in Nat
  BY DEF Queue
<1>2. q \in [1..Len(q) -> X]
  BY <1>1
<1>3. q \in Seq(X) /\ t \in X
  BY <1>1, <1>2, SeqDef
<1> HIDE DEF X
<1>4. Append(q, t) \in Seq(X) /\ Len(Append(q, t)) = Len(q) + 1
  BY <1>3, AppendProperties
<1> QED
  BY <1>1, <1>4, SequenceIsQueue

LEMMA TailShortens ==
  ASSUME NEW q, Queue(q), q # << >>
  PROVE  Queue(Tail(q)) /\ Len(Tail(q)) = Len(q) - 1 /\ Len(q) \in Nat
<1>1. q \in Seq(Range(q))
  BY DEF Queue
<1>2. Tail(q) \in Seq(Range(q)) /\ Len(Tail(q)) = Len(q) - 1 /\ Len(q) \in Nat
  BY <1>1, HeadTailProperties
<1> QED
  BY <1>2, SequenceIsQueue

-----------------------------------------------------------------------------
\* The inductive invariant.

WorkerStates == {"none", "starting", "waiting", "running", "expiring", "looping", "dead", "joined"}
Calls == {"nothing", "add", "addWorker", "removeWorker", "stop"}
ScalingCalls == {"addWorker", "removeWorker", "stop"}
Waiting == {"waiting"}
Counted == {"waiting", "running", "expiring", "looping"}
Starting == {"starting"}

Types ==
  /\ at \in [Worker -> WorkerStates] /\ calling \in [Thread -> Calls]
  /\ workerMaxCount_ \in Nat

Growing == \E c \in Controller : calling[c] = "addWorker"
Shrinking == \E c \in Controller : calling[c] \in {"removeWorker", "stop"}

OnlyControllersScale == \A x \in Thread : calling[x] \in ScalingCalls => x \in Controller

\* A pool that is not shrinking has, counted or about to be, the workers it
\* should have; one that is not growing has at least those, and none that is
\* still to be counted.  So a worker that starts is always admitted, and one
\* that leaves was counted.
OneWay ==
  /\ ~(Growing /\ Shrinking)
  /\ Shrinking \/ workerCount_ + Number(at, Starting) = workerMaxCount_
  /\ Growing \/ (workerCount_ >= workerMaxCount_ /\ Number(at, Starting) = 0)

CountsRight == workerCount_ = Number(at, Counted) /\ idleCount_ = Number(at, Waiting)

QueueFits == Queue(tasks_) /\ (PendingMax > 0 => Len(tasks_) <= PendingMax)

PoolInv == Types /\ OnlyControllersScale /\ OneWay /\ CountsRight /\ QueueFits

-----------------------------------------------------------------------------
\* Steps that leave the workers alone.

LEMMA OtherCallsKeep ==
  ASSUME PoolInv, UNCHANGED counts, at' = at, calling' \in [Thread -> Calls],
         \A x \in Thread : calling'[x] # calling[x] => {calling[x], calling'[x]} \cap ScalingCalls = {},
         QueueFits'
  PROVE  PoolInv'
<1>1. Controller \subseteq Thread
  BY PoolAssumption DEF Thread
<1>2. (Growing' <=> Growing) /\ (Shrinking' <=> Shrinking)
  BY <1>1 DEF Growing, Shrinking, ScalingCalls
<1>3. \A S : Number(at, S)' = Number(at', S)
  BY DEF Number, In
<1>4. Types' /\ OnlyControllersScale'
  BY DEF PoolInv, Types, OnlyControllersScale, ScalingCalls, counts
<1>5. OneWay' /\ CountsRight'
  BY <1>2 DEF PoolInv, OneWay, CountsRight, counts, Number, In
<1> QED
  BY <1>4, <1>5 DEF PoolInv

LEMMA QueueStepKeeps ==
  ASSUME PoolInv, UNCHANGED <<counts, at, calling>>, QueueFits'
  PROVE  PoolInv'
BY OtherCallsKeep DEF PoolInv, Types

LEMMA QuietStepKeeps ==
  ASSUME PoolInv, UNCHANGED <<counts, at, calling, tasks_>>
  PROVE  PoolInv'
<1>1. QueueFits'
  BY DEF PoolInv, QueueFits, Queue, Range
<1> QED
  BY <1>1, QueueStepKeeps

-----------------------------------------------------------------------------
\* The workers.

\* A worker at the head of its loop: where it was before, and the counts it
\* has in hand.
LEMMA LoopKeeps ==
  ASSUME PoolInv, NEW w \in Worker, at[w] \in Starting \cup Counted,
         NEW count, NEW idle, NEW admitted,
         count = workerCount_ + One(at[w] \in Starting), idle = idleCount_ - One(at[w] \in Waiting),
         at[w] \in Starting => workerCount_ < workerMaxCount_,
         Loop(w, count, idle, admitted)
  PROVE  PoolInv'
<1> USE DEF WorkerStates
<1>1. /\ at \in [Worker -> WorkerStates] /\ calling' = calling /\ workerMaxCount_' = workerMaxCount_
      /\ workerMaxCount_ \in Nat
  BY DEF PoolInv, Types, Loop, callers
<1>2. PICK x \in WorkerStates :
        /\ at' = [at EXCEPT ![w] = x]
        /\ x \notin Starting
        /\ workerCount_' = count - One(x \notin Counted) /\ idleCount_' = idle + One(x \in Waiting)
        /\ x \notin Counted => count > workerMaxCount_
        /\ \/ tasks_' = tasks_
           \/ tasks_ # << >> /\ tasks_' = Tail(tasks_)
  <2>0. workerCount_ = Number(at, Counted) /\ workerCount_ \in Nat /\ workerCount_ <= Cardinality(Worker)
    BY FiniteIn DEF PoolInv, CountsRight
  <2>1. CASE ~isActive(count) /\ Exit(w, count, idle)
    <3>1. count > workerMaxCount_ /\ count = workerCount_ /\ count \in Nat
      BY <2>0, <2>1, <1>1 DEF isActive, One
    <3>2. count - 1 \in 0..(SizeMod - 1) /\ SizeMod \in Nat \ {0}
      BY <2>0, <3>1, <1>1, PoolAssumption, FiniteIn
    <3>3. Wrap(count - 1) = count - 1
      BY <3>2 DEF Wrap
    <3>4. WITNESS "dead" \in WorkerStates
    <3> QED
      BY <2>1, <3>1, <3>3 DEF Exit, One, Counted, Waiting, Starting
  <2>2. CASE isActive(count) /\ tasks_ = << >> /\ Sleep(w, count, idle)
    <3>1. WITNESS "waiting" \in WorkerStates
    <3> QED
      BY <2>2 DEF Sleep, One, Counted, Waiting, Starting
  <2>3. CASE isActive(count) /\ tasks_ # << >> /\ Take(w, count, idle)
    <3>1. PICK x \in {"running", "expiring", "looping"} : at' = [at EXCEPT ![w] = x]
      BY <2>3 DEF Take
    <3>2. WITNESS x \in WorkerStates
    <3> QED
      BY <2>3, <3>1 DEF Take, One, Counted, Waiting, Starting
  <2> QED
    BY <2>1, <2>2, <2>3 DEF Loop
<1>3. at'[w] = x /\ \A v \in Worker \ {w} : at'[v] = at[v]
  BY <1>1, <1>2
<1> DEFINE starting == Number(at, Starting)
           counted == Number(at, Counted)
           waiting == Number(at, Waiting)
           starting2 == Number(at', Starting)
           counted2 == Number(at', Counted)
           waiting2 == Number(at', Waiting)
<1>4. {starting, counted, waiting, starting2, counted2, waiting2} \subseteq Nat
  BY FiniteIn
<1>5. /\ starting2 = starting - One(at[w] \in Starting) + One(x \in Starting)
      /\ counted2 = counted - One(at[w] \in Counted) + One(x \in Counted)
      /\ waiting2 = waiting - One(at[w] \in Waiting) + One(x \in Waiting)
  <2>1. \A S : Number(at', S) = Number(at, S) - One(at[w] \in S) + One(at'[w] \in S)
    BY <1>3, OneMoves
  <2> QED
    BY <2>1, <1>3
<1>6. /\ starting = Number(at, Starting) /\ starting2 = Number(at', Starting)
      /\ counted = Number(at, Counted) /\ counted2 = Number(at', Counted)
      /\ waiting = Number(at, Waiting) /\ waiting2 = Number(at', Waiting)
  OBVIOUS
<1> HIDE DEF starting, counted, waiting, starting2, counted2, waiting2
<1>7. at[w] \in Starting <=> at[w] \notin Counted
  BY DEF Starting, Counted
<1>8. workerCount_ = counted /\ idleCount_ = waiting
  BY <1>6 DEF PoolInv, CountsRight
<1>9. workerCount_' = counted2 /\ idleCount_' = waiting2
  BY <1>2, <1>4, <1>5, <1>7, <1>8 DEF One
<1>10. CountsRight'
  BY <1>6, <1>9 DEF CountsRight, Number, In
<1>11. OneWay'
  <2>1. Shrinking' = Shrinking /\ Growing' = Growing
    BY <1>1 DEF Shrinking, Growing
  <2>2. /\ ~(Growing /\ Shrinking)
        /\ Shrinking \/ workerCount_ + starting = workerMaxCount_
        /\ Growing \/ (workerCount_ >= workerMaxCount_ /\ starting = 0)
    BY <1>6 DEF PoolInv, OneWay
  <2>3. ASSUME ~Shrinking PROVE workerCount_' + starting2 = workerMaxCount_
    <3>1. workerCount_ + starting = workerMaxCount_
      BY <2>2, <2>3
    <3>2. workerCount_ + One(at[w] \in Starting) <= workerMaxCount_
      BY <3>1, <1>4, <1>8, <1>1 DEF One
    <3>3. x \in Counted
      BY <3>2, <1>1, <1>2, <1>4, <1>8 DEF One
    <3>4. workerCount_' = workerCount_ + One(at[w] \in Starting)
      BY <3>3, <1>2, <1>4, <1>8 DEF One
    <3>5. starting2 = starting - One(at[w] \in Starting)
      BY <1>2, <1>4, <1>5 DEF One
    <3> QED
      BY <3>1, <3>4, <3>5, <1>1, <1>4, <1>8 DEF One
  <2>4. ASSUME ~Growing PROVE workerCount_' >= workerMaxCount_ /\ starting2 = 0
    <3>1. workerCount_ >= workerMaxCount_ /\ starting = 0
      BY <2>2, <2>4
    <3>2. at[w] \notin Starting
      BY <3>1, <1>6, NoneIn
    <3> QED
      BY <3>1, <3>2, <1>1, <1>2, <1>4, <1>5, <1>8 DEF One
  <2>5. OneWay' <=> /\ ~(Growing' /\ Shrinking')
                    /\ Shrinking' \/ workerCount_' + starting2 = workerMaxCount_'
                    /\ Growing' \/ (workerCount_' >= workerMaxCount_' /\ starting2 = 0)
    BY <1>6 DEF OneWay, Number, In
  <2> QED
    BY <2>1, <2>2, <2>3, <2>4, <2>5, <1>1
<1>12. QueueFits'
  BY <1>2, TailShortens, PoolAssumption DEF PoolInv, QueueFits, Queue, Range
<1>13. Types' /\ OnlyControllersScale'
  BY <1>1, <1>2 DEF PoolInv, Types, OnlyControllersScale
<1> QED
  BY <1>10, <1>11, <1>12, <1>13 DEF PoolInv

LEMMA WorkerStepKeeps ==
  ASSUME PoolInv, NEW w \in Worker, WorkerStep(w)
  PROVE  PoolInv'
<1>0. workerCount_ \in Nat /\ idleCount_ \in Nat
  BY FiniteIn DEF PoolInv, CountsRight
<1>1. CASE Start(w)
  <2>1. Number(at, Starting) # 0
    BY <1>1, NoneIn DEF Start, Starting
  <2>2. Number(at, Starting) \in Nat /\ workerMaxCount_ \in Nat
    BY FiniteIn DEF PoolInv, Types
  <2>3. Growing
    BY <2>1 DEF PoolInv, OneWay
  <2>4. workerCount_ + Number(at, Starting) = workerMaxCount_
    BY <2>3 DEF PoolInv, OneWay
  <2>5. workerCount_ < workerMaxCount_
    BY <1>0, <2>1, <2>2, <2>4
  <2>6. Loop(w, workerCount_ + 1, idleCount_, TRUE)
    BY <1>1, <2>5 DEF Start
  <2>7. /\ at[w] \in Starting \cup Counted /\ One(at[w] \in Starting) = 1 /\ One(at[w] \in Waiting) = 0
    BY <1>1 DEF Start, One, Starting, Counted, Waiting
  <2>8. workerCount_ + 1 = workerCount_ + One(at[w] \in Starting) /\ idleCount_ = idleCount_ - One(at[w] \in Waiting)
    BY <1>0, <2>7
  <2> QED
    BY <2>5, <2>6, <2>7, <2>8, LoopKeeps
<1>2. CASE Wake(w)
  <2>1. /\ at[w] \in Starting \cup Counted /\ at[w] \notin Starting
        /\ One(at[w] \in Starting) = 0 /\ One(at[w] \in Waiting) = 1
    BY <1>2 DEF Wake, One, Starting, Counted, Waiting
  <2>2. /\ workerCount_ = workerCount_ + One(at[w] \in Starting)
        /\ idleCount_ - 1 = idleCount_ - One(at[w] \in Waiting)
    BY <1>0, <2>1
  <2>3. Loop(w, workerCount_, idleCount_ - 1, FALSE)
    BY <1>2 DEF Wake
  <2> QED
    BY <2>1, <2>2, <2>3, LoopKeeps
<1>3. CASE FinishTask(w) \/ Expired(w) \/ GoOn(w)
  <2>1. /\ at[w] \in Starting \cup Counted /\ at[w] \notin Starting
        /\ One(at[w] \in Starting) = 0 /\ One(at[w] \in Waiting) = 0
    BY <1>3 DEF FinishTask, Expired, GoOn, One, Starting, Counted, Waiting
  <2>2. /\ workerCount_ = workerCount_ + One(at[w] \in Starting)
        /\ idleCount_ = idleCount_ - One(at[w] \in Waiting)
    BY <1>0, <2>1
  <2>3. Loop(w, workerCount_, idleCount_, FALSE)
    BY <1>3 DEF FinishTask, Expired, GoOn
  <2> QED
    BY <2>1, <2>2, <2>3, LoopKeeps
<1> QED
  BY <1>1, <1>2, <1>3 DEF WorkerStep

-----------------------------------------------------------------------------
\* The callers.

LEMMA EnqueueFits ==
  ASSUME NEW q, Queue(q), ~Full(q), NEW t, Enqueue(q, t)
  PROVE  QueueFits'
<1>1. tasks_' = Append(q, t)
  BY DEF Enqueue
<1>2. Queue(Append(q, t)) /\ Len(Append(q, t)) = Len(q) + 1 /\ Len(q) \in Nat
  BY AppendLengthens
<1>3. PendingMax > 0 => Len(Append(q, t)) <= PendingMax
  BY <1>2, PoolAssumption DEF Full
<1> QED
  BY <1>1, <1>2, <1>3 DEF QueueFits, Queue, Range

\* A queue that has become shorter fits still.
LEMMA ShorterFits ==
  ASSUME QueueFits, Queue(tasks_'), Len(tasks_') <= Len(tasks_)
  PROVE  QueueFits'
<1>1. Len(tasks_) \in Nat /\ Len(tasks_') \in Nat
  BY SequenceIsQueue DEF QueueFits, Queue
<1>2. PendingMax > 0 => Len(tasks_') <= PendingMax
  BY <1>1, PoolAssumption DEF QueueFits
<1> QED
  BY <1>2 DEF QueueFits, Queue, Range

LEMMA AddKeeps ==
  ASSUME PoolInv, NEW x \in Thread, NEW t \in Task, NEW wait, NEW timed, Add(x, t, wait, timed)
  PROVE  PoolInv'
<1>1. /\ Queue(QueuePurged) /\ Len(QueuePurged) <= Len(tasks_)
  BY PurgeShortens DEF PoolInv, QueueFits
<1>2. /\ UNCHANGED counts /\ at' = at /\ calling \in [Thread -> Calls] /\ calling[x] = "nothing"
  BY DEF Add, workers, MayAdd, Idle, PoolInv, Types
<1>3. CASE ~Full(QueuePurged) /\ Enqueue(QueuePurged, t) /\ UNCHANGED callers
  <2>1. QueueFits'
    BY <1>1, <1>3, EnqueueFits
  <2> QED
    BY <1>2, <1>3, <2>1, QueueStepKeeps DEF callers
<1>4. CASE calling' = [calling EXCEPT ![x] = "add"] /\ tasks_' = QueuePurged
  <2>1. QueueFits'
    BY <1>1, <1>4, ShorterFits DEF PoolInv
  <2>2. /\ calling' \in [Thread -> Calls]
        /\ \A y \in Thread : calling'[y] # calling[y] => {calling[y], calling'[y]} \cap ScalingCalls = {}
    BY <1>2, <1>4 DEF Calls, ScalingCalls
  <2> QED
    BY <1>2, <2>1, <2>2, OtherCallsKeep
<1> QED
  BY <1>3, <1>4 DEF Add

LEMMA ReturnKeeps ==
  ASSUME PoolInv, NEW c \in Thread, calling[c] = "add", Returns(c), UNCHANGED <<counts, at>>,
  QueueFits'
  PROVE  PoolInv'
<1>1. /\ calling' \in [Thread -> Calls]
      /\ \A y \in Thread : calling'[y] # calling[y] => {calling[y], calling'[y]} \cap ScalingCalls = {}
  BY DEF Returns, PoolInv, Types, Calls, ScalingCalls
<1> QED
  BY <1>1, OtherCallsKeep

LEMMA AddResumesKeeps ==
  ASSUME PoolInv, NEW c \in Thread, AddResumes(c)
  PROVE  PoolInv'
<1>1. UNCHANGED <<counts, at>> /\ calling[c] = "add"
  BY DEF AddResumes, workers
<1>2. CASE UNCHANGED <<tasks_, callers>>
  BY <1>1, <1>2, QuietStepKeeps DEF callers
<1>3. CASE ~Full(tasks_) /\ Enqueue(tasks_, adding[c].task) /\ Returns(c)
  <2>1. QueueFits'
    BY <1>3, EnqueueFits DEF PoolInv, QueueFits
  <2> QED
    BY <1>1, <1>3, <2>1, ReturnKeeps
<1> QED
  BY <1>2, <1>3 DEF AddResumes, MustGoOnWaiting

LEMMA AddTimesOutKeeps ==
  ASSUME PoolInv, NEW c \in Thread, AddTimesOut(c)
  PROVE  PoolInv'
<1>1. QueueFits'
  BY DEF AddTimesOut, PoolInv, QueueFits, Queue, Range
<1> QED
  BY <1>1, ReturnKeeps DEF AddTimesOut, workers

LEMMA RemovalKeeps ==
  ASSUME PoolInv, NEW D, tasks_' = Without(tasks_, D), UNCHANGED <<counts, at, calling>>
  PROVE  PoolInv'
<1>1. Queue(tasks_') /\ Len(tasks_') <= Len(tasks_)
  BY WithoutShortens DEF PoolInv, QueueFits
<1> QED
  BY <1>1, ShorterFits, QueueStepKeeps DEF PoolInv

\* The calls of clients that leave the workers alone.
LEMMA ClientStepKeeps ==
  ASSUME PoolInv, NEW c \in Client
  PROVE  /\ removeNextPending(c) => PoolInv'
         /\ \A t : remove(c, t) => PoolInv'
         /\ SweepBegins(c) => PoolInv'
         /\ SweepEnds(c) => PoolInv'
         /\ setExpireCallback(c) => PoolInv'
         /\ start(c) => PoolInv'
<1>1. \A t : remove(c, t) => PoolInv'
  BY RemovalKeeps DEF remove, callers, workers
<1>2. SweepEnds(c) => PoolInv'
  BY RemovalKeeps DEF SweepEnds, callers, workers
<1>3. SweepBegins(c) \/ setExpireCallback(c) \/ start(c) => PoolInv'
  BY QuietStepKeeps DEF SweepBegins, setExpireCallback, start, callers, workers
<1> QED
  BY <1>1, <1>2, <1>3 DEF removeNextPending

-----------------------------------------------------------------------------
\* The controller.

\* A controller that is in no call finds as many workers as there should be.
LEMMA SettledWhenIdle ==
  ASSUME PoolInv, OneController, NEW c \in Controller, calling[c] = "nothing"
  PROVE  ~Growing /\ ~Shrinking /\ workerCount_ = workerMaxCount_ /\ Number(at, Starting) = 0
<1>1. ~Growing /\ ~Shrinking
  BY DEF OneController, Growing, Shrinking
<1>2. workerCount_ \in Nat /\ workerMaxCount_ \in Nat
  BY FiniteIn DEF PoolInv, CountsRight, Types
<1>3. workerCount_ + Number(at, Starting) = workerMaxCount_ /\ Number(at, Starting) = 0
  BY <1>1 DEF PoolInv, OneWay
<1> QED
  BY <1>1, <1>2, <1>3

LEMMA AddWorkerKeeps ==
  ASSUME PoolInv, OneController, NEW c \in Client, NEW W \in SUBSET Worker, addWorker(c, W)
  PROVE  PoolInv'
<1>1. c \in Controller /\ c \in Thread /\ calling[c] = "nothing" /\ calling \in [Thread -> Calls]
  BY DEF addWorker, Idle, Thread, PoolInv, Types
<1>2. ~Growing /\ ~Shrinking /\ workerCount_ = workerMaxCount_ /\ Number(at, Starting) = 0
  BY <1>1, SettledWhenIdle
<1>3. IsFiniteSet(W) /\ Cardinality(W) \in Nat /\ Cardinality(W) # 0
  BY PoolAssumption, FS_Subset, FS_CardinalityType, FS_EmptySet DEF addWorker
<1>4. workerMaxCount_ \in Nat /\ workerMaxCount_' = workerMaxCount_ + Cardinality(W)
  BY DEF addWorker, PoolInv, Types
<1>5. workerCount_ # workerMaxCount_'
  BY <1>2, <1>3, <1>4
<1>6. calling' = [calling EXCEPT ![c] = "addWorker"] /\ UNCHANGED <<workerCount_, idleCount_, tasks_>>
  BY <1>5 DEF addWorker, Blocked
<1>7. at' = [w \in Worker |-> IF w \in W THEN "starting" ELSE at[w]] /\ \A w \in W : at[w] = "none"
  BY DEF addWorker
<1>8. Number(at', Counted) = Number(at, Counted) /\ Number(at', Waiting) = Number(at, Waiting)
  <2>1. In(at', Counted) = In(at, Counted) /\ In(at', Waiting) = In(at, Waiting)
    BY <1>7 DEF In, Counted, Waiting
  <2> QED
    BY <2>1 DEF Number
<1>9. Number(at', Starting) = Cardinality(W)
  <2>1. In(at', Starting) = W
    BY <1>2, <1>7, NoneIn DEF In, Starting
  <2> QED
    BY <2>1 DEF Number
<1>10. Growing' /\ ~Shrinking'
  BY <1>1, <1>6 DEF Growing, Shrinking, OneController
<1>11. OneWay'
  <2>1. workerCount_' + Number(at', Starting) = workerMaxCount_'
    BY <1>2, <1>4, <1>6, <1>9
  <2> QED
    BY <2>1, <1>10 DEF OneWay, Number, In
<1>12. CountsRight'
  BY <1>6, <1>8 DEF PoolInv, CountsRight, Number, In
<1>13. Types' /\ OnlyControllersScale' /\ QueueFits'
  <2>1. at' \in [Worker -> WorkerStates] /\ calling' \in [Thread -> Calls] /\ workerMaxCount_' \in Nat
    BY <1>1, <1>3, <1>4, <1>6, <1>7 DEF PoolInv, Types, WorkerStates, Calls
  <2>2. OnlyControllersScale'
    BY <1>1, <1>6 DEF PoolInv, OnlyControllersScale
  <2> QED
    BY <2>1, <2>2, <1>6 DEF Types, PoolInv, QueueFits, Queue, Range
<1> QED
  BY <1>11, <1>12, <1>13 DEF PoolInv

\* Joining the dead changes no count.
LEMMA BurialCountsNobody ==
  ASSUME at \in [Worker -> WorkerStates], Buried \/ UNCHANGED at
  PROVE  /\ at' \in [Worker -> WorkerStates]
         /\ Number(at', Starting) = Number(at, Starting)
         /\ Number(at', Counted) = Number(at, Counted)
         /\ Number(at', Waiting) = Number(at, Waiting)
<1>1. at' \in [Worker -> WorkerStates]
  BY DEF Buried, WorkerStates
<1>2. /\ In(at', Starting) = In(at, Starting)
      /\ In(at', Counted) = In(at, Counted)
      /\ In(at', Waiting) = In(at, Waiting)
  BY DEF In, Buried, Starting, Counted, Waiting
<1> QED
  BY <1>1, <1>2 DEF Number

LEMMA ShrinkKeeps ==
  ASSUME PoolInv, OneController, NEW c \in Controller, Idle(c), NEW n \in Nat,
  n <= workerMaxCount_,
         NEW call \in {"removeWorker", "stop"}, Shrink(c, call, n)
  PROVE  PoolInv'
<1>1. c \in Thread /\ calling[c] = "nothing" /\ calling \in [Thread -> Calls]
  BY PoolAssumption DEF Idle, Thread, PoolInv, Types
<1>2. ~Growing /\ ~Shrinking /\ workerCount_ = workerMaxCount_ /\ Number(at, Starting) = 0
  BY <1>1, SettledWhenIdle
<1>3. /\ workerMaxCount_ \in Nat /\ workerMaxCount_' = workerMaxCount_ - n
      /\ UNCHANGED <<workerCount_, idleCount_, tasks_>> /\ (Buried \/ UNCHANGED at)
      /\ at \in [Worker -> WorkerStates]
  BY DEF Shrink, PoolInv, Types
<1>4. /\ at' \in [Worker -> WorkerStates]
      /\ Number(at', Starting) = Number(at, Starting)
      /\ Number(at', Counted) = Number(at, Counted)
      /\ Number(at', Waiting) = Number(at, Waiting)
  BY <1>3, BurialCountsNobody
<1>5. CountsRight'
  BY <1>3, <1>4 DEF PoolInv, CountsRight, Number, In
<1>6. QueueFits'
  BY <1>3 DEF PoolInv, QueueFits, Queue, Range
<1>7. workerMaxCount_' \in Nat /\ workerMaxCount_' <= workerCount_'
  BY <1>2, <1>3
<1>8. CASE workerCount_ = workerMaxCount_' /\ calling' = calling
  <2>1. Growing' = Growing /\ Shrinking' = Shrinking
    BY <1>8 DEF Growing, Shrinking
  <2>2. workerCount_' + Number(at', Starting) = workerMaxCount_' /\ workerCount_' >= workerMaxCount_'
    BY <1>2, <1>3, <1>4, <1>7, <1>8
  <2>3. OneWay'
    BY <1>2, <1>4, <2>1, <2>2 DEF OneWay, Number, In
  <2>4. Types' /\ OnlyControllersScale'
    BY <1>1, <1>4, <1>7, <1>8 DEF Types, PoolInv, OnlyControllersScale
  <2> QED
    BY <2>3, <2>4, <1>5, <1>6 DEF PoolInv
<1>9. CASE calling' = [calling EXCEPT ![c] = call]
  <2>1. ~Growing' /\ Shrinking'
    BY <1>1, <1>9, PoolAssumption DEF Growing, Shrinking, OneController, Thread
  <2>2. workerCount_' >= workerMaxCount_' /\ Number(at', Starting) = 0
    BY <1>2, <1>3, <1>4, <1>7
  <2>3. OneWay'
    BY <2>1, <2>2 DEF OneWay, Number, In
  <2>4. Types'
    BY <1>1, <1>4, <1>7, <1>9 DEF Types, Calls
  <2>5. OnlyControllersScale'
    BY <1>1, <1>9 DEF PoolInv, OnlyControllersScale
  <2> QED
    BY <2>3, <2>4, <2>5, <1>5, <1>6 DEF PoolInv
<1> QED
  BY <1>8, <1>9 DEF Shrink, Blocked

LEMMA RemoveWorkerKeeps ==
  ASSUME PoolInv, OneController, NEW c \in Client, NEW n \in 1..Cardinality(Worker),
  removeWorker(c, n)
  PROVE  PoolInv'
<1>1. n \in Nat /\ c \in Controller /\ Idle(c) /\ n <= workerMaxCount_ /\ Shrink(c, "removeWorker", n)
  BY FiniteIn DEF removeWorker
<1> QED
  BY <1>1, ShrinkKeeps

LEMMA StopKeeps ==
  ASSUME PoolInv, OneController, NEW c \in Client, stop(c)
  PROVE  PoolInv'
<1>1. c \in Controller /\ Idle(c)
  BY DEF stop
<1>2. CASE UNCHANGED <<counts, tasks_, workers, callers>>
  BY <1>2, QuietStepKeeps DEF workers, callers
<1>3. CASE Shrink(c, "stop", workerCount_)
  <2>1. calling[c] = "nothing"
    BY <1>1 DEF Idle
  <2>2. workerCount_ = workerMaxCount_ /\ workerCount_ \in Nat
    BY <1>1, <2>1, SettledWhenIdle, FiniteIn DEF PoolInv, CountsRight
  <2>3. workerCount_ <= workerMaxCount_
    BY <2>2
  <2> QED
    BY <1>1, <1>3, <2>2, <2>3, ShrinkKeeps
<1> QED
  BY <1>2, <1>3 DEF stop

LEMMA ScalingResumesKeeps ==
  ASSUME PoolInv, OneController, NEW c \in Thread, ScalingResumes(c)
  PROVE  PoolInv'
<1>1. /\ calling[c] \in ScalingCalls /\ c \in Controller /\ UNCHANGED <<counts, tasks_>>
      /\ calling \in [Thread -> Calls] /\ at \in [Worker -> WorkerStates]
  BY DEF ScalingResumes, PoolInv, Types, OnlyControllersScale, ScalingCalls
<1>2. CASE UNCHANGED <<at, calling>>
  BY <1>1, <1>2, QuietStepKeeps
<1>3. CASE /\ workerCount_ = workerMaxCount_
           /\ calling' = [calling EXCEPT ![c] = "nothing"] /\ (Buried \/ UNCHANGED at)
  <2>1. /\ at' \in [Worker -> WorkerStates]
        /\ Number(at', Starting) = Number(at, Starting)
        /\ Number(at', Counted) = Number(at, Counted)
        /\ Number(at', Waiting) = Number(at, Waiting)
    BY <1>1, <1>3, BurialCountsNobody
  <2>2. ~Growing' /\ ~Shrinking'
    BY <1>1, <1>3 DEF Growing, Shrinking, OneController
  <2>3. Number(at, Starting) = 0
    <3>1. Number(at, Starting) \in Nat /\ workerMaxCount_ \in Nat
      BY FiniteIn DEF PoolInv, Types
    <3>2. workerMaxCount_ + Number(at, Starting) = workerMaxCount_ \/ Number(at, Starting) = 0
      BY <1>3 DEF PoolInv, OneWay
    <3> QED
      BY <3>1, <3>2
  <2>4. workerMaxCount_ \in Nat
    BY DEF PoolInv, Types
  <2>5. /\ workerCount_' + Number(at', Starting) = workerMaxCount_'
        /\ workerCount_' >= workerMaxCount_' /\ Number(at', Starting) = 0
    BY <1>1, <1>3, <2>1, <2>3, <2>4 DEF counts
  <2>6. OneWay'
    BY <2>2, <2>5 DEF OneWay, Number, In
  <2>7. CountsRight'
    BY <1>1, <2>1 DEF PoolInv, CountsRight, Number, In, counts
  <2>8. Types' /\ OnlyControllersScale'
    BY <1>1, <1>3, <2>1, <2>4 DEF PoolInv, Types, OnlyControllersScale, Calls, ScalingCalls, counts
  <2>9. QueueFits'
    BY <1>1 DEF PoolInv, QueueFits, Queue, Range
  <2> QED
    BY <2>6, <2>7, <2>8, <2>9 DEF PoolInv
<1> QED
  BY <1>2, <1>3 DEF ScalingResumes

-----------------------------------------------------------------------------
\* The theorem.

LEMMA InitGood ==
  ASSUME Init
  PROVE  PoolInv
<1>1. at = [w \in Worker |-> "none"] /\ calling = [x \in Thread |-> "nothing"]
  BY DEF Init
<1>2. In(at, Starting) = {} /\ In(at, Counted) = {} /\ In(at, Waiting) = {}
  BY <1>1 DEF In, Starting, Counted, Waiting
<1>3. Number(at, Starting) = 0 /\ Number(at, Counted) = 0 /\ Number(at, Waiting) = 0
  BY <1>2, FS_EmptySet DEF Number
<1>4. ~Growing /\ ~Shrinking
  BY <1>1, PoolAssumption DEF Growing, Shrinking, Thread
<1>5. Types /\ OnlyControllersScale
  BY <1>1 DEF Init, Types, WorkerStates, Calls, OnlyControllersScale, ScalingCalls
<1>6. OneWay /\ CountsRight
  BY <1>3, <1>4 DEF Init, OneWay, CountsRight
<1>7. QueueFits
  <2>1. tasks_ \in Seq({}) /\ Len(tasks_) = 0
    BY DEF Init
  <2>2. Queue(tasks_)
    BY <2>1, SequenceIsQueue
  <2> QED
    BY <2>1, <2>2, PoolAssumption DEF QueueFits
<1> QED
  BY <1>5, <1>6, <1>7 DEF PoolInv

LEMMA StepKeeps ==
  ASSUME PoolInv, OneController, [Next]_vars
  PROVE  PoolInv'
<1>1. ASSUME NEW w \in Worker, Working(w)
      PROVE  PoolInv'
  BY <1>1, WorkerStepKeeps DEF Working
<1>2. ASSUME NEW x \in Thread, Resuming(x)
      PROVE  PoolInv'
  <2>1. CASE AddResumes(x)
    BY <2>1, AddResumesKeeps
  <2>2. CASE ScalingResumes(x)
    BY <2>2, ScalingResumesKeeps
  <2>3. CASE SweepEnds(x)
    BY <2>3, RemovalKeeps DEF SweepEnds, callers, workers
  <2> QED
    BY <1>2, <2>1, <2>2, <2>3 DEF Resuming
<1>3. ASSUME NEW x \in Thread, NEW t \in Task, NEW wait \in BOOLEAN, NEW timed \in BOOLEAN,
             Add(x, t, wait, timed)
      PROVE  PoolInv'
  BY <1>3, AddKeeps
<1>4. ASSUME NEW x \in Thread, AddTimesOut(x)
      PROVE  PoolInv'
  BY <1>4, AddTimesOutKeeps
<1>5. ASSUME NEW c \in Client,
             \/ removeNextPending(c) \/ SweepBegins(c) \/ setExpireCallback(c)
             \/ \E t \in Task : remove(c, t)
             \/ start(c)
      PROVE  PoolInv'
  BY <1>5, ClientStepKeeps
<1>6. ASSUME NEW c \in Client,
             \/ stop(c)
             \/ \E W \in SUBSET Worker : addWorker(c, W)
             \/ \E n \in 1..Cardinality(Worker) : removeWorker(c, n)
      PROVE  PoolInv'
  BY <1>6, StopKeeps, AddWorkerKeeps, RemoveWorkerKeeps
<1>7. ASSUME \/ \E t \in Task : FallsDue(t)
             \/ SpuriousWakeUp
             \/ UNCHANGED vars
      PROVE  PoolInv'
  BY <1>7, QuietStepKeeps DEF FallsDue, SpuriousWakeUp, vars, callers, workers
<1> QED
  BY <1>1, <1>2, <1>3, <1>4, <1>5, <1>6, <1>7 DEF Next

LEMMA InvGivesCounts ==
  ASSUME PoolInv
  PROVE  CountsAgree
<1>1. In(at, Waiting) = {w \in Worker : at[w] = "waiting"}
  BY DEF In, Waiting
<1>2. In(at, Counted) = {w \in Worker : at[w] \in {"waiting", "running", "expiring", "looping"}}
  BY DEF In, Counted
<1> QED
  BY <1>1, <1>2 DEF PoolInv, CountsRight, QueueFits, CountsAgree, Number

\* A pool whose workers are added and removed by one thread counts its workers
\* right whenever the mutex is free: idleCount_ are those that wait,
\* workerCount_ those that were admitted and have not left, and neither ever
\* wraps around; and its queue keeps to its limit.  So add wakes a worker when
\* one is idle, and the controller waits for the right number.
THEOREM WorkersCounted ==
  ASSUME OneController
  PROVE  Spec => []CountsAgree
<1>1. Init => PoolInv
  BY InitGood
<1>2. PoolInv /\ [Next]_vars => PoolInv'
  BY StepKeeps
<1>3. PoolInv => CountsAgree
  BY InvGivesCounts
<1> QED
  BY <1>1, <1>2, <1>3, PTL DEF Spec

-----------------------------------------------------------------------------
\* Queues in which no task is twice, and what is left of them.

Distinct(q) == \A i, j \in DOMAIN q : q[i] = q[j] => i = j

\* r is q without the tasks in D, in the order of q.
IsRest(r, q, D) ==
  /\ r \in Seq(Task)
  /\ \E f \in [1..Len(r) -> {i \in DOMAIN q : q[i] \notin D}] :
       /\ \A i, j \in 1..Len(r) : i < j => f[i] < f[j]
       /\ \A k \in DOMAIN q : q[k] \in D \/ \E i \in 1..Len(r) : f[i] = k
       /\ \A i \in 1..Len(r) : r[i] = q[f[i]]

LEMMA RestKeeps ==
  ASSUME NEW q \in Seq(Task), Distinct(q), NEW r, NEW D, IsRest(r, q, D)
  PROVE  Range(r) = Range(q) \ D /\ Distinct(r)
<1>1. /\ Len(q) \in Nat /\ DOMAIN q = 1..Len(q)
      /\ Len(r) \in Nat /\ DOMAIN r = 1..Len(r)
  BY DEF IsRest
<1>2. PICK f \in [1..Len(r) -> {i \in DOMAIN q : q[i] \notin D}] :
        /\ \A i, j \in 1..Len(r) : i < j => f[i] < f[j]
        /\ \A k \in DOMAIN q : q[k] \in D \/ \E i \in 1..Len(r) : f[i] = k
        /\ \A i \in 1..Len(r) : r[i] = q[f[i]]
  BY DEF IsRest
<1>3. \A i \in 1..Len(r) : f[i] \in 1..Len(q) /\ q[f[i]] \notin D
  BY <1>1, <1>2
<1>4. Range(r) \subseteq Range(q) \ D
  BY <1>1, <1>2, <1>3 DEF Range
<1>5. Range(q) \ D \subseteq Range(r)
  <2> SUFFICES ASSUME NEW k \in DOMAIN q, q[k] \notin D
               PROVE  q[k] \in Range(r)
    BY DEF Range
  <2>1. PICK i \in 1..Len(r) : f[i] = k
    BY <1>2
  <2> QED
    BY <1>1, <1>2, <2>1 DEF Range
<1>6. Distinct(r)
  <2> SUFFICES ASSUME NEW i \in 1..Len(r), NEW j \in 1..Len(r), r[i] = r[j], i # j
               PROVE  FALSE
    BY <1>1 DEF Distinct
  <2>1. f[i] = f[j]
    BY <1>1, <1>2, <1>3 DEF Distinct
  <2>2. i < j \/ j < i
    BY <1>1
  <2> QED
    BY <1>1, <1>2, <1>3, <2>1, <2>2
<1> QED
  BY <1>4, <1>5, <1>6

LEMMA TailIsRest ==
  ASSUME NEW q \in Seq(Task), Distinct(q), q # << >>
  PROVE  Head(q) \in Range(q) /\ Head(q) \in Task /\ IsRest(Tail(q), q, {Head(q)})
<1>1. /\ Tail(q) \in Seq(Task) /\ Len(Tail(q)) = Len(q) - 1 /\ Len(q) \in Nat /\ Len(q) # 0
      /\ DOMAIN q = 1..Len(q) /\ Head(q) = q[1]
      /\ \A i \in 1..Len(q) - 1 : Tail(q)[i] = q[i + 1]
  OBVIOUS
<1> DEFINE n == Len(q) - 1
           f == [i \in 1..n |-> i + 1]
           L == {i \in DOMAIN q : q[i] \notin {Head(q)}}
<1>2. n \in Nat /\ 1 \in DOMAIN q /\ \A i \in 1..n : i + 1 \in DOMAIN q /\ i + 1 # 1
  BY <1>1
<1>3. \A i \in 1..n : i + 1 \in L
  BY <1>1, <1>2 DEF Distinct
<1>4. f \in [1..n -> L]
  BY <1>3
<1>5. \A k \in DOMAIN q : q[k] \in {Head(q)} \/ \E i \in 1..n : f[i] = k
  <2> SUFFICES ASSUME NEW k \in 1..Len(q), k # 1
               PROVE  \E i \in 1..n : f[i] = k
    BY <1>1
  <2>1. k - 1 \in 1..n /\ f[k - 1] = k
    BY <1>1
  <2> QED
    BY <2>1
<1>6. /\ \A i, j \in 1..n : i < j => f[i] < f[j]
      /\ \A i \in 1..n : Tail(q)[i] = q[f[i]]
  BY <1>1, <1>2
<1>7. IsRest(Tail(q), q, {Head(q)})
  <2>1. Len(Tail(q)) = n
    BY <1>1
  <2> HIDE DEF n, f
  <2> QED
    BY <1>1, <1>4, <1>5, <1>6, <2>1 DEF IsRest
<1> QED
  BY <1>1, <1>2, <1>7 DEF Range

LEMMA PurgedIsRest ==
  ASSUME tasks_ \in Seq(Task), Distinct(tasks_), Purges
  PROVE  /\ tasks_[FirstDue] \in Range(tasks_) /\ tasks_[FirstDue] \in Task
         /\ IsRest(QueuePurged, tasks_, {tasks_[FirstDue]})
<1> DEFINE q == tasks_
           m == FirstDue
           T == {i \in DOMAIN q : q[i] \in due}
<1>1. Len(q) \in Nat /\ DOMAIN q = 1..Len(q) /\ \A i \in 1..Len(q) : q[i] \in Task
  OBVIOUS
<1>2. T \in SUBSET Nat /\ T # {}
  BY <1>1 DEF Purges, Range
<1>3. \E i \in DOMAIN tasks_ : tasks_[i] \in due /\ \A j \in DOMAIN tasks_ : tasks_[j] \in due => i <= j
  BY <1>2, LeastIndex
<1>4. m \in 1..Len(q)
  BY <1>3, <1>1 DEF FirstDue
<1> HIDE DEF m
<1> DEFINE front == SubSeq(q, 1, m - 1)
           rear == SubSeq(q, m + 1, Len(q))
           r == front \o rear
           n == Len(q) - 1
           L == {i \in DOMAIN q : q[i] \notin {q[m]}}
           f == [i \in 1..n |-> IF i < m THEN i ELSE i + 1]
<1>5. /\ front \in Seq(Task) /\ Len(front) = m - 1
      /\ \A i \in 1..m - 1 : front[i] = q[i]
  <2>1. \A i \in 1..(m - 1) : q[i] \in Task
    BY <1>1, <1>4
  <2>2. /\ front \in Seq(Task)
        /\ Len(front) = (IF 1 <= m - 1 THEN m - 1 - 1 + 1 ELSE 0)
        /\ \A i \in 1..m - 1 - 1 + 1 : front[i] = q[1 + i - 1]
    BY <2>1, <1>4, SubSeqProperties
  <2>3. m - 1 \in Nat
    BY <1>4
  <2> HIDE DEF front
  <2> QED
    BY <2>2, <2>3
<1>6. /\ rear \in Seq(Task) /\ Len(rear) = Len(q) - m
      /\ \A i \in 1..Len(q) - m : rear[i] = q[m + i]
  <2>1. \A i \in (m + 1)..Len(q) : q[i] \in Task
    BY <1>1, <1>4
  <2>2. /\ rear \in Seq(Task)
        /\ Len(rear) = (IF m + 1 <= Len(q) THEN Len(q) - (m + 1) + 1 ELSE 0)
        /\ \A i \in 1..Len(q) - (m + 1) + 1 : rear[i] = q[m + 1 + i - 1]
    BY <2>1, <1>1, <1>4, SubSeqProperties
  <2>3. Len(q) \in Nat /\ m \in 1..Len(q)
    BY <1>1, <1>4
  <2> DEFINE all == Len(q)
  <2> HIDE DEF rear, q
  <2> QED
    BY <2>2, <2>3
<1> HIDE DEF front, rear
<1>7. /\ r \in Seq(Task) /\ Len(r) = Len(front) + Len(rear)
      /\ \A i \in 1..Len(front) + Len(rear) :
           r[i] = IF i <= Len(front) THEN front[i] ELSE rear[i - Len(front)]
  BY <1>5, <1>6, ConcatProperties
<1>8. n \in Nat /\ Len(r) = n
  BY <1>1, <1>4, <1>5, <1>6, <1>7
<1>9. \A i \in 1..n : f[i] \in 1..Len(q) /\ f[i] # m
  BY <1>1, <1>4, <1>8
<1>10. \A i \in 1..n : r[i] = q[f[i]]
  <2> SUFFICES ASSUME NEW i \in 1..n
               PROVE  r[i] = q[f[i]]
    OBVIOUS
  <2>1. CASE i < m
    <3>1. i \in 1..m - 1 /\ i <= Len(front) /\ i \in 1..Len(front) + Len(rear)
      BY <2>1, <1>1, <1>4, <1>5, <1>6
    <3> QED
      BY <3>1, <2>1, <1>5, <1>7
  <2>2. CASE ~(i < m)
    <3>1. /\ ~(i <= Len(front)) /\ i \in 1..Len(front) + Len(rear)
          /\ i - Len(front) = i - m + 1 /\ i - m + 1 \in 1..Len(q) - m
          /\ m + (i - m + 1) = i + 1
      BY <2>2, <1>1, <1>4, <1>5, <1>6
    <3>2. r[i] = rear[i - m + 1]
      BY <3>1, <1>7
    <3>3. rear[i - m + 1] = q[m + (i - m + 1)]
      BY <3>1, <1>6
    <3> QED
      BY <2>2, <3>1, <3>2, <3>3
  <2> QED
    BY <2>1, <2>2
<1>11. f \in [1..n -> L]
  <2>1. \A i \in 1..n : q[f[i]] # q[m]
    BY <1>1, <1>4, <1>9 DEF Distinct
  <2>2. \A i \in 1..n : f[i] \in L
    BY <2>1, <1>1, <1>9
  <2> QED
    BY <2>2
<1>12. \A k \in DOMAIN q : q[k] \in {q[m]} \/ \E i \in 1..n : f[i] = k
  <2> SUFFICES ASSUME NEW k \in 1..Len(q), k # m
               PROVE  \E i \in 1..n : f[i] = k
    BY <1>1
  <2>1. CASE k < m
    <3>1. k \in 1..n /\ f[k] = k
      BY <2>1, <1>1, <1>4
    <3> QED
      BY <3>1
  <2>2. CASE m < k
    <3>1. k - 1 \in 1..n /\ f[k - 1] = k
      BY <2>2, <1>1, <1>4
    <3> QED
      BY <3>1
  <2> QED
    BY <2>1, <2>2, <1>1, <1>4
<1>13. \A i, j \in 1..n : i < j => f[i] < f[j]
  BY <1>1, <1>4, <1>8
<1>14. QueuePurged = r
  BY DEF QueuePurged, front, rear, m
<1> HIDE DEF r, n, f, L
<1>15. IsRest(r, q, {q[m]})
  <2>1. L = {i \in DOMAIN q : q[i] \notin {q[m]}}
    BY DEF L
  <2> QED
    BY <1>7, <1>8, <1>10, <1>11, <1>12, <1>13, <2>1 DEF IsRest
<1> QED
  BY <1>1, <1>4, <1>14, <1>15 DEF m, Range

\* How many indices of a set are not beyond each.
RankIn(S, N) == [i \in 0..N |-> Cardinality({j \in S : j <= i})]

LEMMA Ranks ==
  ASSUME NEW N \in Nat, NEW S \in SUBSET (1..N), NEW rank, rank = RankIn(S, N)
  PROVE  /\ IsFiniteSet(S) /\ Cardinality(S) \in Nat
         /\ rank \in [0..N -> Nat] /\ rank[0] = 0 /\ rank[N] = Cardinality(S)
         /\ \A i \in 1..N : rank[i] = IF i \in S THEN rank[i - 1] + 1 ELSE rank[i - 1]
         /\ \A i, j \in 0..N : i <= j => rank[i] <= rank[j]
<1> DEFINE Below(i) == {j \in S : j <= i}
<1>1. IsFiniteSet(1..N)
  BY FS_Interval
<1>2. IsFiniteSet(S) /\ Cardinality(S) \in Nat
  BY <1>1, FS_Subset, FS_CardinalityType
<1>3. \A i : Below(i) \in SUBSET S
  OBVIOUS
<1>4. \A i : IsFiniteSet(Below(i)) /\ Cardinality(Below(i)) \in Nat
  BY <1>2, <1>3, FS_Subset, FS_CardinalityType
<1>5. \A i \in 0..N : rank[i] = Cardinality(Below(i))
  BY DEF RankIn
<1>6. \A j \in S : j \in Int /\ 1 <= j /\ j <= N
  OBVIOUS
<1>7. Below(0) = {} /\ Below(N) = S
  <2>1. \A j \in S : ~(j <= 0)
    BY <1>6
  <2> QED
    BY <1>6, <2>1
<1>8. \A i \in 1..N : Below(i) = IF i \in S THEN Below(i - 1) \cup {i} ELSE Below(i - 1)
  <2> SUFFICES ASSUME NEW i \in 1..N
               PROVE  Below(i) = IF i \in S THEN Below(i - 1) \cup {i} ELSE Below(i - 1)
    OBVIOUS
  <2>1. \A j \in S : j <= i <=> j <= i - 1 \/ j = i
    BY <1>6
  <2> QED
    BY <2>1
<1>9. \A i \in 1..N : i \notin Below(i - 1)
  OBVIOUS
<1>10. \A i, j \in 0..N : i <= j => Below(i) \in SUBSET Below(j)
  <2> SUFFICES ASSUME NEW i \in 0..N, NEW j \in 0..N, i <= j
               PROVE  Below(i) \in SUBSET Below(j)
    OBVIOUS
  <2>1. \A k \in S : k <= i => k <= j
    BY <1>6
  <2> QED
    BY <2>1
<1>11. rank \in [0..N -> Nat]
  BY <1>4, <1>5 DEF RankIn
<1> HIDE DEF Below
<1>12. rank[0] = 0 /\ rank[N] = Cardinality(S)
  BY <1>5, <1>7, FS_EmptySet
<1>13. ASSUME NEW i \in 1..N
       PROVE  rank[i] = IF i \in S THEN rank[i - 1] + 1 ELSE rank[i - 1]
  <2>1. i \in 0..N /\ i - 1 \in 0..N
    OBVIOUS
  <2>2. Cardinality(Below(i - 1) \cup {i}) = Cardinality(Below(i - 1)) + 1
    BY <1>4, <1>9, FS_AddElement
  <2> QED
    BY <1>5, <1>8, <2>1, <2>2
<1>14. ASSUME NEW i \in 0..N, NEW j \in 0..N, i <= j
       PROVE  rank[i] <= rank[j]
  BY <1>4, <1>5, <1>10, <1>14, FS_Subset
<1> QED
  BY <1>2, <1>11, <1>12, <1>13, <1>14

\* Taking tasks back leaves the others in their order.
LEMMA WithoutIsRest ==
  ASSUME NEW q \in Seq(Task), NEW D
  PROVE  IsRest(Without(q, D), q, D)
<1> DEFINE left == {i \in DOMAIN q : q[i] \notin D}
           N == Len(q)
           k == Cardinality(left)
           rank == RankIn(left, N)
           nth(n) == CHOOSE i \in left : Cardinality({j \in left : j <= i}) = n
           f == [n \in 1..k |-> nth(n)]
           r == Without(q, D)
<1>1. N \in Nat /\ DOMAIN q = 1..N /\ left \in SUBSET (1..N) /\ \A i \in 1..N : q[i] \in Task
  OBVIOUS
<1>2. r = [n \in 1..k |-> q[nth(n)]]
  BY DEF Without
<1>3. \A i \in left : Cardinality({j \in left : j <= i}) = rank[i]
  BY <1>1 DEF RankIn
<1>4. /\ k \in Nat /\ rank \in [0..N -> Nat] /\ rank[0] = 0 /\ rank[N] = k
      /\ \A i \in 1..N : rank[i] = IF i \in left THEN rank[i - 1] + 1 ELSE rank[i - 1]
      /\ \A i, j \in 0..N : i <= j => rank[i] <= rank[j]
  <2>1. rank = RankIn(left, N)
    OBVIOUS
  <2> HIDE DEF rank, left, N
  <2>2. /\ Cardinality(left) \in Nat
        /\ rank \in [0..N -> Nat] /\ rank[0] = 0 /\ rank[N] = Cardinality(left)
        /\ \A i \in 1..N : rank[i] = IF i \in left THEN rank[i - 1] + 1 ELSE rank[i - 1]
        /\ \A i, j \in 0..N : i <= j => rank[i] <= rank[j]
    BY <1>1, <2>1, Ranks
  <2> QED
    BY <2>2
<1>5. \A n \in 1..k : f[n] = nth(n) /\ r[n] = q[nth(n)]
  BY <1>2
<1> HIDE DEF rank, N, k, r
<1>6. ASSUME NEW n \in 1..k
      PROVE  nth(n) \in left /\ rank[nth(n)] = n
  <2> DEFINE T == {i \in 1..N : rank[i] >= n}
  <2>1. N \in T
    BY <1>1, <1>4
  <2>2. T \in SUBSET Nat /\ T # {}
    BY <2>1
  <2>3. PICK i \in T : \A j \in T : i <= j
    BY <2>2, LeastIndex
  <2>4. i \in 1..N /\ rank[i] >= n /\ rank[i - 1] \in Nat /\ rank[i] \in Nat
    BY <1>1, <1>4
  <2>5. rank[i - 1] < n
    <3>1. CASE i = 1
      BY <3>1, <1>4
    <3>2. CASE i # 1
      <4>1. i - 1 \in 1..N /\ ~(i <= i - 1)
        BY <3>2, <2>4, <1>1
      <4>2. ~(rank[i - 1] >= n)
        BY <4>1, <2>3
      <4> QED
        BY <4>2, <2>4
    <3> QED
      BY <3>1, <3>2
  <2>6. i \in left /\ rank[i] = n
    BY <1>4, <2>4, <2>5
  <2>7. \E x \in left : Cardinality({j \in left : j <= x}) = n
    BY <2>6, <1>3
  <2>8. nth(n) \in left /\ Cardinality({j \in left : j <= nth(n)}) = n
    BY <2>7
  <2> QED
    BY <2>8, <1>3
<1> DEFINE inLeft(n) == f[n] \in left /\ rank[f[n]] = n
<1>7. \A n \in 1..k : inLeft(n)
  BY <1>5, <1>6
<1>8. f \in [1..k -> left]
  BY <1>5, <1>6
<1>9. \A n \in 1..k : r[n] = q[f[n]]
  BY <1>5
<1> HIDE DEF f
<1>10. ASSUME NEW m \in 1..k, NEW n \in 1..k, m < n
       PROVE  f[m] < f[n]
  <2>1. f[m] \in 1..N /\ f[n] \in 1..N /\ rank[f[m]] = m /\ rank[f[n]] = n
    BY <1>1, <1>7
  <2>2. f[n] <= f[m] => n <= m
    BY <1>1, <1>4, <2>1
  <2> QED
    BY <2>1, <2>2, <1>10, <1>1
<1>11. ASSUME NEW i \in DOMAIN q, q[i] \notin D
       PROVE  \E n \in 1..k : f[n] = i
  <2>1. i \in left /\ i \in 1..N
    BY <1>1, <1>11
  <2>2. rank[i] = rank[i - 1] + 1 /\ rank[i - 1] \in Nat /\ rank[i] <= rank[N]
    BY <2>1, <1>1, <1>4
  <2>3. rank[i] \in 1..k
    BY <2>2, <1>4
  <2> DEFINE n == rank[i]
             l == f[n]
  <2>4. l \in left /\ rank[l] = n /\ l \in 1..N
    BY <1>1, <1>7, <2>3
  <2>5. rank[l] = rank[l - 1] + 1 /\ rank[l - 1] \in Nat
    BY <2>4, <1>4, <1>1
  <2> HIDE DEF l
  <2>6. ~(l < i)
    <3> SUFFICES ASSUME l < i
                 PROVE  FALSE
      OBVIOUS
    <3>1. l \in 0..N /\ i - 1 \in 0..N /\ l <= i - 1
      BY <2>1, <2>4, <1>1
    <3> QED
      BY <3>1, <1>4, <2>2, <2>4
  <2>7. ~(i < l)
    <3> SUFFICES ASSUME i < l
                 PROVE  FALSE
      OBVIOUS
    <3>1. i \in 0..N /\ l - 1 \in 0..N /\ i <= l - 1
      BY <2>1, <2>4, <1>1
    <3> QED
      BY <3>1, <1>4, <2>2, <2>4, <2>5
  <2>8. l = i
    BY <2>1, <2>4, <2>6, <2>7, <1>1
  <2> QED
    BY <2>3, <2>8 DEF l
<1>12. r \in Seq(Task) /\ Len(r) = k
  <2>1. \A n \in 1..k : q[f[n]] \in Task
    BY <1>1, <1>8
  <2>2. r \in [1..k -> Task]
    BY <1>2, <1>5, <1>9, <2>1
  <2> QED
    BY <2>2, <1>4, SeqDef
<1> HIDE DEF inLeft
<1>13. IsRest(r, q, D)
  BY <1>8, <1>9, <1>10, <1>11, <1>12 DEF IsRest
<1> QED
  BY <1>13 DEF r

-----------------------------------------------------------------------------
\* Every task is in one place.

Executing == {doing[w] : w \in {w \in Worker : at[w] = "running"}}
Known == Range(tasks_) \cup Executing \cup finished \cup removed \cup expired

InPlaces ==
  /\ tasks_ \in Seq(Task)
  /\ at \in [Worker -> WorkerStates] /\ doing \in [Worker -> Task \cup {NULL}]
  /\ calling \in [Thread -> Calls]
  /\ adding \in [Thread -> [task : Task \cup {NULL}, timed : BOOLEAN]]

\* A task that runs is at one worker and no longer in the queue.
OnceRunning ==
  \A w \in Worker : at[w] = "running" =>
    /\ doing[w] \in Task \ Range(tasks_)
    /\ \A v \in Worker : at[v] = "running" /\ doing[v] = doing[w] => v = w

\* A task that waits for room has not been accepted, and one thread adds it.
OnceAdded ==
  \A x \in Thread : calling[x] = "add" =>
    /\ adding[x].task \in Task \ Known
    /\ \A y \in Thread : calling[y] = "add" /\ adding[y].task = adding[x].task => y = x

PlaceInv == InPlaces /\ Distinct(tasks_) /\ OnceRunning /\ OnceAdded

\* A step of the pool is one of its specification, or none.
PoolStep == [Pool!Next]_(Pool!poolVars)

LEMMA RunningIsTask ==
  ASSUME PlaceInv
  PROVE  Executing \subseteq Task /\ Executing \cap Range(tasks_) = {} /\ Range(tasks_) \subseteq Task
<1>1. Executing \subseteq Task /\ Executing \cap Range(tasks_) = {}
  BY DEF PlaceInv, OnceRunning, Executing
<1>2. Range(tasks_) \subseteq Task
  BY DEF PlaceInv, InPlaces, Range
<1> QED
  BY <1>1, <1>2

\* Those who wait for room still do, or have gone, and t is none of theirs.
LEMMA AddersKeep ==
  ASSUME PlaceInv, NEW t, Known' \subseteq Known \cup {t},
         \A x \in Thread : calling'[x] = "add" =>
           calling[x] = "add" /\ adding'[x] = adding[x] /\ adding[x].task # t
  PROVE  OnceAdded'
BY DEF PlaceInv, OnceAdded

LEMMA SameAddersKeep ==
  ASSUME PlaceInv, Known' \subseteq Known, UNCHANGED <<calling, adding>>
  PROVE  OnceAdded'
BY DEF PlaceInv, OnceAdded

-----------------------------------------------------------------------------
\* The steps of the specification.

LEMMA NothingMoves ==
  ASSUME PlaceInv, UNCHANGED <<tasks_, finished, removed, expired>>,
         \A w \in Worker : at'[w] = "running" <=> at[w] = "running",
         \A w \in Worker : at[w] = "running" => doing'[w] = doing[w]
  PROVE  Distinct(tasks_)' /\ OnceRunning' /\ Known' = Known /\ PoolStep
<1>1. Executing' = Executing
  BY DEF Executing
<1>2. Range(tasks_)' = Range(tasks_) /\ Distinct(tasks_)'
  BY DEF Range, PlaceInv, Distinct
<1>3. OnceRunning'
  BY <1>2 DEF PlaceInv, OnceRunning
<1>4. Known' = Known
  BY <1>1, <1>2 DEF Known
<1>5. UNCHANGED Pool!poolVars
  BY <1>1 DEF Pool!poolVars, Executing
<1> QED
  BY <1>2, <1>3, <1>4, <1>5 DEF PoolStep

LEMMA TasksDropped ==
  ASSUME PlaceInv, NEW D, D \subseteq Range(tasks_), IsRest(tasks_', tasks_, D),
         removed' \cup expired' = removed \cup expired \cup D, finished' = finished,
         \A w \in Worker : at'[w] = "running" <=> at[w] = "running",
         \A w \in Worker : at[w] = "running" => doing'[w] = doing[w]
  PROVE  Distinct(tasks_)' /\ OnceRunning' /\ Known' \subseteq Known /\ PoolStep
<1>1. Executing' = Executing
  BY DEF Executing
<1>2. Range(tasks_)' = Range(tasks_) \ D /\ Distinct(tasks_)'
  <2>1. Range(tasks_') = Range(tasks_) \ D /\ Distinct(tasks_')
    BY RestKeeps DEF PlaceInv, InPlaces
  <2> QED
    BY <2>1 DEF Range, Distinct
<1>3. OnceRunning'
  BY <1>2 DEF PlaceInv, OnceRunning
<1>4. Known' \subseteq Known
  BY <1>1, <1>2 DEF Known
<1>5. Pool!Drop(D)
  <2>1. tasks_' \in Seq(Task) /\ Pool!Keeps(Len(tasks_'), D)
    BY DEF IsRest, Pool!Keeps
  <2>2. D \subseteq {tasks_[i] : i \in DOMAIN tasks_}
    BY DEF Range
  <2> QED
    BY <1>1, <2>1, <2>2 DEF Pool!Drop, Executing
<1>6. D \in SUBSET Task
  BY RunningIsTask
<1> QED
  BY <1>2, <1>3, <1>4, <1>5, <1>6 DEF PoolStep, Pool!Next

LEMMA AppendKeeps ==
  ASSUME NEW q \in Seq(Task), Distinct(q), NEW t \in Task, t \notin Range(q)
  PROVE  /\ Append(q, t) \in Seq(Task) \ {<< >>} /\ Distinct(Append(q, t))
         /\ Range(Append(q, t)) = Range(q) \cup {t}
         /\ Len(Append(q, t)) = Len(q) + 1 /\ Append(q, t)[Len(q) + 1] = t
         /\ \A i \in 1..Len(q) : Append(q, t)[i] = q[i]
         /\ Len(q) \in Nat
<1> DEFINE r == Append(q, t)
           n == Len(q)
<1>1. /\ r \in Seq(Task) /\ Len(r) = n + 1 /\ r[n + 1] = t /\ \A i \in 1..n : r[i] = q[i]
      /\ n \in Nat /\ DOMAIN q = 1..n /\ DOMAIN r = 1..n + 1 /\ r # << >>
  OBVIOUS
<1> HIDE DEF r, n
<1>2. Range(r) = Range(q) \cup {t}
  <2>1. 1..n + 1 = 1..n \cup {n + 1}
    BY <1>1
  <2> QED
    BY <1>1, <2>1 DEF Range
<1>3. Distinct(r)
  <2> SUFFICES ASSUME NEW i \in 1..n + 1, NEW j \in 1..n + 1, r[i] = r[j]
               PROVE  i = j
    BY <1>1 DEF Distinct
  <2>1. \A k \in 1..n + 1 : k \in 1..n \/ k = n + 1
    BY <1>1
  <2>2. \A k \in 1..n : r[k] = q[k] /\ q[k] # t
    BY <1>1 DEF Range
  <2> QED
    BY <1>1, <2>1, <2>2 DEF Distinct
<1> QED
  BY <1>1, <1>2, <1>3 DEF r, n

LEMMA TaskSubmitted ==
  ASSUME PlaceInv, NEW t \in Task, t \notin Known, tasks_' = Append(tasks_, t),
         UNCHANGED <<at, doing, finished, removed, expired>>
  PROVE  Distinct(tasks_)' /\ OnceRunning' /\ Known' \subseteq Known \cup {t} /\ PoolStep
<1>1. Executing' = Executing /\ t \notin Executing
  BY DEF Executing, Known
<1>2. Range(tasks_)' = Range(tasks_) \cup {t} /\ Distinct(tasks_)'
  <2>1. Range(tasks_') = Range(tasks_) \cup {t} /\ Distinct(tasks_')
    BY AppendKeeps DEF PlaceInv, InPlaces, Known
  <2> QED
    BY <2>1 DEF Range, Distinct
<1>3. OnceRunning'
  BY <1>1, <1>2 DEF PlaceInv, OnceRunning, Executing
<1>4. Known' \subseteq Known \cup {t}
  BY <1>1, <1>2 DEF Known
<1>5. Pool!Submit(t)
  BY <1>1 DEF Pool!Submit, Pool!Accepted, Executing, Known, Range
<1> QED
  BY <1>2, <1>3, <1>4, <1>5 DEF PoolStep, Pool!Next

LEMMA TaskReplaces ==
  ASSUME PlaceInv, NEW t \in Task, t \notin Known, NEW q, NEW d \in Range(tasks_),
         IsRest(q, tasks_, {d}), tasks_' = Append(q, t), expired' = expired \cup {d},
         UNCHANGED <<at, doing, finished, removed>>
  PROVE  Distinct(tasks_)' /\ OnceRunning' /\ Known' \subseteq Known \cup {t} /\ PoolStep
<1>1. Executing' = Executing /\ t \notin Executing
  BY DEF Executing, Known
<1>2. Range(q) = Range(tasks_) \ {d} /\ Distinct(q) /\ q \in Seq(Task) /\ t \notin Range(q)
  <2>1. t \notin Range(tasks_) /\ q \in Seq(Task)
    BY DEF Known, IsRest
  <2>2. Range(q) = Range(tasks_) \ {d} /\ Distinct(q)
    BY RestKeeps DEF PlaceInv, InPlaces
  <2> QED
    BY <2>1, <2>2
<1>3. /\ tasks_' \in Seq(Task) \ {<< >>} /\ Distinct(tasks_')
      /\ Range(tasks_') = Range(q) \cup {t}
      /\ Len(tasks_') = Len(q) + 1 /\ tasks_'[Len(q) + 1] = t
      /\ \A i \in 1..Len(q) : tasks_'[i] = q[i]
      /\ Len(q) \in Nat
  BY <1>2, AppendKeeps
<1>4. Range(tasks_)' = (Range(tasks_) \ {d}) \cup {t} /\ Distinct(tasks_)'
  BY <1>2, <1>3 DEF Range, Distinct
<1>5. OnceRunning'
  BY <1>1, <1>4 DEF PlaceInv, OnceRunning, Executing
<1>6. Known' \subseteq Known \cup {t}
  BY <1>1, <1>4 DEF Known
<1>7. Pool!SubmitForExpired(t, d)
  <2>1. Len(tasks_') - 1 = Len(q) /\ Len(tasks_') = Len(q) + 1
    BY <1>3
  <2>2. Pool!Keeps(Len(q), {d})
    BY <1>3 DEF IsRest, Pool!Keeps
  <2>3. t \notin Pool!Accepted
    BY DEF Pool!Accepted, Executing, Known, Range
  <2>4. d \in {tasks_[i] : i \in DOMAIN tasks_}
    BY DEF Range
  <2>5. Pool!Keeps(Len(tasks_') - 1, {d}) /\ tasks_'[Len(tasks_')] = t
    BY <1>3, <2>1, <2>2
  <2>6. removed' \cup expired' = (removed \cup expired) \cup {d}
    OBVIOUS
  <2> QED
    BY <1>1, <1>3, <2>3, <2>4, <2>5, <2>6 DEF Pool!SubmitForExpired, Executing
<1>8. d \in Task
  BY RunningIsTask
<1>9. Pool!Next
  BY <1>7, <1>8 DEF Pool!Next
<1> QED
  BY <1>4, <1>5, <1>6, <1>9 DEF PoolStep

\* A worker stops running what it ran.
LEMMA WorkerRests ==
  ASSUME PlaceInv, NEW w \in Worker, at'[w] # "running",
         \A v \in Worker \ {w} : at'[v] = at[v] /\ doing'[v] = doing[v],
         finished' = finished \cup (IF at[w] = "running" THEN {doing[w]} ELSE {}),
         UNCHANGED <<tasks_, removed, expired>>
  PROVE  Distinct(tasks_)' /\ OnceRunning' /\ Known' \subseteq Known /\ PoolStep
<1>1. CASE at[w] # "running"
  <2>1. \A v \in Worker : at'[v] = "running" <=> at[v] = "running"
    BY <1>1
  <2>2. \A v \in Worker : at[v] = "running" => doing'[v] = doing[v]
    BY <1>1
  <2> QED
    BY <1>1, <2>1, <2>2, NothingMoves
<1>2. CASE at[w] = "running"
  <2>1. PICK t \in Task : t = doing[w]
    BY <1>2 DEF PlaceInv, OnceRunning
  <2>2. Executing' = Executing \ {t} /\ t \in Executing
    BY <1>2, <2>1 DEF PlaceInv, OnceRunning, Executing
  <2>3. Range(tasks_)' = Range(tasks_) /\ Distinct(tasks_)'
    BY DEF Range, PlaceInv, Distinct
  <2>4. OnceRunning'
    BY <2>3 DEF PlaceInv, OnceRunning
  <2>5. Known' \subseteq Known
    BY <1>2, <2>1, <2>2, <2>3 DEF Known
  <2>6. Pool!Finish(t)
    BY <1>2, <2>1, <2>2 DEF Pool!Finish, Executing
  <2>7. Pool!Next
    BY <2>6 DEF Pool!Next
  <2> QED
    BY <2>3, <2>4, <2>5, <2>7 DEF PoolStep
<1> QED
  BY <1>1, <1>2

\* A worker takes the next task, which it runs or finds expired.
LEMMA WorkerTakes ==
  ASSUME PlaceInv, NEW w \in Worker, tasks_ # << >>, tasks_' = Tail(tasks_),
         doing'[w] = Head(tasks_),
         \A v \in Worker \ {w} : at'[v] = at[v] /\ doing'[v] = doing[v],
         finished' = finished \cup (IF at[w] = "running" THEN {doing[w]} ELSE {}),
         removed' = removed,
         expired' = expired \cup (IF at'[w] = "running" THEN {} ELSE {Head(tasks_)})
  PROVE  Distinct(tasks_)' /\ OnceRunning' /\ Known' \subseteq Known /\ PoolStep
<1> DEFINE h == Head(tasks_)
           t == doing[w]
<1>1. h \in Range(tasks_) /\ h \in Task /\ IsRest(Tail(tasks_), tasks_, {h})
  BY TailIsRest DEF PlaceInv, InPlaces
<1>2. Range(tasks_)' = Range(tasks_) \ {h} /\ Distinct(tasks_)' /\ tasks_' \in Seq(Task)
  <2>1. Range(tasks_') = Range(tasks_) \ {h} /\ Distinct(tasks_')
    BY <1>1, RestKeeps DEF PlaceInv, InPlaces
  <2> QED
    BY <1>1, <2>1 DEF Range, Distinct, IsRest
<1> HIDE DEF h
<1>3. h = Head(tasks_) /\ h \notin Executing
  BY <1>1, RunningIsTask DEF h
<1>4. \A v \in Worker : at[v] = "running" => doing[v] \in Executing
  BY DEF Executing
<1>5. OnceRunning'
  <2> SUFFICES ASSUME NEW v \in Worker, at'[v] = "running"
               PROVE  /\ doing'[v] \in Task \ Range(tasks_)'
                      /\ \A u \in Worker : at'[u] = "running" /\ doing'[u] = doing'[v] => u = v
    BY DEF OnceRunning
  <2>1. CASE v = w
    BY <1>1, <1>2, <1>3, <1>4, <2>1
  <2>2. CASE v # w
    BY <1>2, <1>3, <1>4, <2>2 DEF PlaceInv, OnceRunning
  <2> QED
    BY <2>1, <2>2
<1>6. Executing' = (Executing \ (IF at[w] = "running" THEN {t} ELSE {}))
                     \cup (IF at'[w] = "running" THEN {h} ELSE {})
  <2>1. \A v \in Worker \ {w} : at[v] = "running" /\ at[w] = "running" => doing[v] # t
    BY DEF PlaceInv, OnceRunning
  <2> QED
    BY <1>3, <2>1 DEF Executing
<1>7. Known' \subseteq Known
  BY <1>1, <1>2, <1>3, <1>4, <1>6 DEF Known
<1>8. CASE at[w] = "running" /\ at'[w] = "running"
  <2>1. PICK u \in Task : u = t
    BY <1>4, <1>8, RunningIsTask
  <2>2. Pool!FinishAndGoOn(u)
    BY <1>3, <1>4, <1>6, <1>8, <2>1 DEF Pool!FinishAndGoOn, Executing
  <2>3. Pool!Next
    BY <2>2 DEF Pool!Next
  <2> QED
    BY <1>2, <1>5, <1>7, <2>3 DEF PoolStep
<1>9. CASE at[w] = "running" /\ at'[w] # "running"
  <2>1. removed' \cup expired' = (removed \cup expired) \cup {Head(tasks_)}
    BY <1>9
  <2>2. PICK u \in Task : u = t
    BY <1>4, <1>9, RunningIsTask
  <2>3. Pool!FinishAndGoOn(u)
    BY <1>3, <1>4, <1>6, <1>9, <2>1, <2>2 DEF Pool!FinishAndGoOn, Executing
  <2>4. Pool!Next
    BY <2>3 DEF Pool!Next
  <2> QED
    BY <1>2, <1>5, <1>7, <2>4 DEF PoolStep
<1>10. CASE at[w] # "running" /\ at'[w] = "running"
  <2>1. Pool!Begin
    BY <1>3, <1>6, <1>10 DEF Pool!Begin, Executing
  <2> QED
    BY <1>2, <1>5, <1>7, <2>1 DEF PoolStep, Pool!Next
<1>11. CASE at[w] # "running" /\ at'[w] # "running"
  <2>1. removed' \cup expired' = removed \cup expired \cup {h}
    BY <1>3, <1>11
  <2>2. /\ \A v \in Worker : at'[v] = "running" <=> at[v] = "running"
        /\ \A v \in Worker : at[v] = "running" => doing'[v] = doing[v]
    BY <1>11
  <2>3. finished' = finished
    BY <1>11
  <2>4. {h} \subseteq Range(tasks_) /\ IsRest(tasks_', tasks_, {h})
    BY <1>1
  <2> QED
    BY <2>1, <2>2, <2>3, <2>4, TasksDropped
<1> QED
  BY <1>8, <1>9, <1>10, <1>11

-----------------------------------------------------------------------------
\* The steps of the pool.

LEMMA QuietPlaces ==
  ASSUME PlaceInv, UNCHANGED <<tasks_, doing, finished, removed, expired>>,
         at' \in [Worker -> WorkerStates],
         \A w \in Worker : at'[w] = "running" <=> at[w] = "running",
         calling' \in [Thread -> Calls],
         adding' \in [Thread -> [task : Task \cup {NULL}, timed : BOOLEAN]],
         \A x \in Thread : calling'[x] = "add" => calling[x] = "add" /\ adding'[x] = adding[x]
  PROVE  PlaceInv' /\ PoolStep
<1>1. Distinct(tasks_)' /\ OnceRunning' /\ Known' = Known /\ PoolStep
  BY NothingMoves
<1>2. OnceAdded'
  BY <1>1 DEF PlaceInv, OnceAdded
<1>3. InPlaces'
  BY DEF PlaceInv, InPlaces
<1> QED
  BY <1>1, <1>2, <1>3 DEF PlaceInv

LEMMA LoopPlaces ==
  ASSUME PlaceInv, NEW w \in Worker, NEW count, NEW idle, NEW admitted,
         Loop(w, count, idle, admitted),
         finished' = finished \cup (IF at[w] = "running" THEN {doing[w]} ELSE {})
  PROVE  PlaceInv' /\ PoolStep
<1>1. UNCHANGED <<calling, adding, removed>> /\ InPlaces
  BY DEF Loop, callers, PlaceInv
<1>2. CASE Exit(w, count, idle) \/ Sleep(w, count, idle)
  <2>1. PICK x \in {"dead", "waiting"} : at' = [at EXCEPT ![w] = x]
    BY <1>2 DEF Exit, Sleep
  <2>2. doing' = [doing EXCEPT ![w] = NULL] /\ UNCHANGED <<tasks_, expired>>
    BY <1>2 DEF Exit, Sleep
  <2>3. InPlaces'
    BY <1>1, <2>1, <2>2 DEF InPlaces, WorkerStates
  <2>4. /\ at'[w] # "running"
        /\ \A v \in Worker \ {w} : at'[v] = at[v] /\ doing'[v] = doing[v]
    BY <1>1, <2>1, <2>2 DEF InPlaces
  <2>5. Distinct(tasks_)' /\ OnceRunning' /\ Known' \subseteq Known /\ PoolStep
    BY <1>1, <2>2, <2>4, WorkerRests
  <2> QED
    BY <1>1, <2>3, <2>5, SameAddersKeep DEF PlaceInv
<1>3. CASE tasks_ # << >> /\ Take(w, count, idle)
  <2>1. PICK x \in {"running", "expiring", "looping"} :
          /\ at' = [at EXCEPT ![w] = x]
          /\ expired' = expired \cup (IF x = "running" THEN {} ELSE {Head(tasks_)})
    BY <1>3 DEF Take
  <2>2. doing' = [doing EXCEPT ![w] = Head(tasks_)] /\ tasks_' = Tail(tasks_)
    BY <1>3 DEF Take
  <2>3. Head(tasks_) \in Task /\ Tail(tasks_) \in Seq(Task)
    BY <1>1, <1>3 DEF InPlaces
  <2>4. InPlaces'
    BY <1>1, <2>1, <2>2, <2>3 DEF InPlaces, WorkerStates
  <2>5. /\ at'[w] = x /\ doing'[w] = Head(tasks_)
        /\ \A v \in Worker \ {w} : at'[v] = at[v] /\ doing'[v] = doing[v]
    BY <1>1, <2>1, <2>2 DEF InPlaces
  <2>6. Distinct(tasks_)' /\ OnceRunning' /\ Known' \subseteq Known /\ PoolStep
    BY <1>1, <1>3, <2>1, <2>2, <2>5, WorkerTakes
  <2> QED
    BY <1>1, <2>4, <2>6, SameAddersKeep DEF PlaceInv
<1> QED
  BY <1>2, <1>3 DEF Loop

LEMMA WorkerPlaces ==
  ASSUME PlaceInv, NEW w \in Worker, WorkerStep(w)
  PROVE  PlaceInv' /\ PoolStep
<1>1. CASE Start(w)
  <2>1. at[w] # "running" /\ finished' = finished
    BY <1>1 DEF Start
  <2>2. CASE Loop(w, workerCount_ + 1, idleCount_, TRUE)
    BY <2>1, <2>2, LoopPlaces
  <2>3. CASE Exit(w, workerCount_, idleCount_) /\ UNCHANGED <<callers, removed>>
    <3>1. /\ at' = [at EXCEPT ![w] = "dead"] /\ doing' = [doing EXCEPT ![w] = NULL]
          /\ UNCHANGED <<tasks_, expired, calling, adding, removed>> /\ InPlaces
      BY <2>3 DEF Exit, callers, PlaceInv
    <3>2. InPlaces'
      BY <3>1 DEF InPlaces, WorkerStates
    <3>3. /\ at'[w] # "running"
          /\ \A v \in Worker \ {w} : at'[v] = at[v] /\ doing'[v] = doing[v]
      BY <3>1 DEF InPlaces
    <3>4. Distinct(tasks_)' /\ OnceRunning' /\ Known' \subseteq Known /\ PoolStep
      BY <2>1, <3>1, <3>3, WorkerRests
    <3> QED
      BY <3>1, <3>2, <3>4, SameAddersKeep DEF PlaceInv
  <2> QED
    BY <1>1, <2>2, <2>3 DEF Start
<1>2. CASE Wake(w)
  BY <1>2, LoopPlaces DEF Wake
<1>3. CASE FinishTask(w)
  BY <1>3, LoopPlaces DEF FinishTask
<1>4. CASE Expired(w) \/ GoOn(w)
  BY <1>4, LoopPlaces DEF Expired, GoOn
<1> QED
  BY <1>1, <1>2, <1>3, <1>4 DEF WorkerStep

LEMMA AddPlaces ==
  ASSUME PlaceInv, NEW x \in Thread, NEW t \in Task, NEW wait, NEW timed \in BOOLEAN,
         Add(x, t, wait, timed)
  PROVE  PlaceInv' /\ PoolStep
<1>1. /\ InPlaces /\ UNCHANGED <<at, doing, finished, removed>>
      /\ expired' = expired \cup (IF Purges THEN {tasks_[FirstDue]} ELSE {})
  BY DEF Add, workers, PlaceInv
<1>2. t \notin Known /\ \A y \in Thread : adding[y].task # t
  BY DEF Add, New, Known, Executing
<1>3. Purges => /\ tasks_[FirstDue] \in Range(tasks_)
                /\ IsRest(QueuePurged, tasks_, {tasks_[FirstDue]})
  BY PurgedIsRest DEF PlaceInv, InPlaces
<1>4. ~Purges => QueuePurged = tasks_
  BY DEF QueuePurged
<1>5. QueuePurged \in Seq(Task)
  BY <1>1, <1>3, <1>4 DEF IsRest, InPlaces
<1>6. CASE tasks_' = Append(QueuePurged, t) /\ UNCHANGED callers
  <2>1. InPlaces'
    BY <1>1, <1>5, <1>6, AppendProperties DEF InPlaces, callers
  <2>2. Distinct(tasks_)' /\ OnceRunning' /\ Known' \subseteq Known \cup {t} /\ PoolStep
    <3>1. CASE Purges
      BY <1>1, <1>2, <1>3, <1>6, <3>1, TaskReplaces
    <3>2. CASE ~Purges
      <4>1. expired' = expired /\ tasks_' = Append(tasks_, t)
        BY <1>1, <1>4, <1>6, <3>2
      <4> QED
        BY <1>1, <1>2, <4>1, TaskSubmitted
    <3> QED
      BY <3>1, <3>2
  <2>3. OnceAdded'
    BY <1>2, <1>6, <2>2, AddersKeep DEF callers
  <2> QED
    BY <2>1, <2>2, <2>3 DEF PlaceInv
<1>7. CASE /\ calling' = [calling EXCEPT ![x] = "add"]
           /\ adding' = [adding EXCEPT ![x] = [task |-> t, timed |-> timed]]
           /\ tasks_' = QueuePurged
  <2>1. InPlaces'
    BY <1>1, <1>5, <1>7 DEF InPlaces, Calls
  <2>2. Distinct(tasks_)' /\ OnceRunning' /\ Known' \subseteq Known /\ PoolStep
    <3>1. CASE Purges
      <4> DEFINE D == {tasks_[FirstDue]}
      <4>1. D \subseteq Range(tasks_) /\ IsRest(tasks_', tasks_, D)
        BY <1>3, <1>7, <3>1
      <4>2. removed' \cup expired' = removed \cup expired \cup D
        BY <1>1, <3>1
      <4> HIDE DEF D
      <4> QED
        BY <1>1, <4>1, <4>2, TasksDropped
    <3>2. CASE ~Purges
      <4>1. expired' = expired /\ tasks_' = tasks_
        BY <1>1, <1>4, <1>7, <3>2
      <4> QED
        BY <1>1, <4>1, NothingMoves
    <3> QED
      BY <3>1, <3>2
  <2>3. \A y \in Thread : y # x => calling'[y] = calling[y] /\ adding'[y] = adding[y]
    BY <1>1, <1>7 DEF InPlaces
  <2>4. calling'[x] = "add" /\ adding'[x].task = t
    BY <1>1, <1>7 DEF InPlaces
  <2>5. OnceAdded'
    BY <1>2, <2>2, <2>3, <2>4 DEF PlaceInv, OnceAdded
  <2> QED
    BY <2>1, <2>2, <2>5 DEF PlaceInv
<1> QED
  BY <1>6, <1>7 DEF Add, Enqueue

LEMMA ReturnsTyped ==
  ASSUME InPlaces, NEW c \in Thread, Returns(c)
  PROVE  /\ calling' \in [Thread -> Calls]
         /\ adding' \in [Thread -> [task : Task \cup {NULL}, timed : BOOLEAN]]
         /\ calling'[c] = "nothing"
         /\ \A x \in Thread : x # c => calling'[x] = calling[x] /\ adding'[x] = adding[x]
BY DEF InPlaces, Returns, Calls, NoTask

LEMMA ResumePlaces ==
  ASSUME PlaceInv, NEW c \in Thread
  PROVE  /\ AddResumes(c) => PlaceInv' /\ PoolStep
         /\ AddTimesOut(c) => PlaceInv' /\ PoolStep
<1>1. ASSUME AddResumes(c)
      PROVE  PlaceInv' /\ PoolStep
  <2>1. /\ InPlaces /\ calling[c] = "add"
        /\ UNCHANGED <<at, doing, finished, removed, expired>>
    BY <1>1 DEF AddResumes, workers, PlaceInv
  <2>2. CASE UNCHANGED <<tasks_, callers>>
    BY <2>1, <2>2, QuietPlaces DEF callers, InPlaces
  <2>3. CASE Enqueue(tasks_, adding[c].task) /\ Returns(c)
    <3> DEFINE t == adding[c].task
    <3>1. t \in Task /\ t \notin Known /\ \A y \in Thread : calling[y] = "add" /\ y # c => adding[y].task # t
      BY <2>1 DEF PlaceInv, OnceAdded
    <3>2. tasks_' = Append(tasks_, t)
      BY <2>3 DEF Enqueue
    <3> HIDE DEF t
    <3>3. Distinct(tasks_)' /\ OnceRunning' /\ Known' \subseteq Known \cup {t} /\ PoolStep
      BY <2>1, <3>1, <3>2, TaskSubmitted
    <3>4. OnceAdded'
      BY <2>1, <2>3, <3>1, <3>3, ReturnsTyped, AddersKeep
    <3>5. InPlaces'
      BY <2>1, <2>3, <3>1, <3>2, ReturnsTyped, AppendProperties DEF InPlaces
    <3> QED
      BY <3>3, <3>4, <3>5 DEF PlaceInv
  <2> QED
    BY <1>1, <2>2, <2>3 DEF AddResumes
<1>2. ASSUME AddTimesOut(c)
      PROVE  PlaceInv' /\ PoolStep
  <2>1. /\ InPlaces /\ Returns(c)
        /\ UNCHANGED <<at, doing, tasks_, finished, removed, expired>>
    BY <1>2 DEF AddTimesOut, workers, ends, PlaceInv
  <2> QED
    BY <2>1, QuietPlaces, ReturnsTyped DEF InPlaces
<1> QED
  BY <1>1, <1>2

\* Tasks that are taken back, or found expired by a sweep.
LEMMA RemovalPlaces ==
  ASSUME PlaceInv, NEW D \in SUBSET Range(tasks_), tasks_' = Without(tasks_, D),
         removed' \cup expired' = removed \cup expired \cup D,
         UNCHANGED <<at, doing, calling, adding, finished>>
  PROVE  PlaceInv' /\ PoolStep
<1>1. InPlaces /\ IsRest(tasks_', tasks_, D)
  BY WithoutIsRest DEF PlaceInv, InPlaces
<1>2. InPlaces'
  BY <1>1 DEF InPlaces, IsRest
<1>3. Distinct(tasks_)' /\ OnceRunning' /\ Known' \subseteq Known /\ PoolStep
  BY <1>1, TasksDropped
<1> QED
  BY <1>2, <1>3, SameAddersKeep DEF PlaceInv

LEMMA ClientPlaces ==
  ASSUME PlaceInv, NEW c
  PROVE  /\ \A t : remove(c, t) => PlaceInv' /\ PoolStep
         /\ removeNextPending(c) => PlaceInv' /\ PoolStep
         /\ SweepEnds(c) => PlaceInv' /\ PoolStep
         /\ SweepBegins(c) \/ setExpireCallback(c) \/ start(c) => PlaceInv' /\ PoolStep
<1>1. ASSUME NEW t, remove(c, t)
      PROVE  PlaceInv' /\ PoolStep
  <2>1. /\ {t} \in SUBSET Range(tasks_) /\ tasks_' = Without(tasks_, {t})
        /\ removed' \cup expired' = removed \cup expired \cup {t}
        /\ UNCHANGED <<at, doing, calling, adding, finished>>
    BY <1>1 DEF remove, workers, callers
  <2> QED
    BY <2>1, RemovalPlaces
<1>2. ASSUME SweepEnds(c)
      PROVE  PlaceInv' /\ PoolStep
  <2> DEFINE D == Range(tasks_) \cap due
  <2>1. /\ D \in SUBSET Range(tasks_) /\ tasks_' = Without(tasks_, D)
        /\ removed' = removed /\ expired' = expired \cup D
        /\ UNCHANGED <<at, doing, calling, adding, finished>>
    BY <1>2 DEF SweepEnds, workers, callers
  <2> HIDE DEF D
  <2> QED
    BY <2>1, RemovalPlaces
<1>3. ASSUME SweepBegins(c) \/ setExpireCallback(c) \/ start(c)
      PROVE  PlaceInv' /\ PoolStep
  BY <1>3, QuietPlaces DEF SweepBegins, setExpireCallback, start, workers, callers, ends, PlaceInv,
     InPlaces
<1> QED
  BY <1>1, <1>2, <1>3 DEF removeNextPending

LEMMA ControllerPlaces ==
  ASSUME PlaceInv, NEW c \in Thread
  PROVE  /\ \A W \in SUBSET Worker : addWorker(c, W) => PlaceInv' /\ PoolStep
         /\ \A n : removeWorker(c, n) => PlaceInv' /\ PoolStep
         /\ stop(c) => PlaceInv' /\ PoolStep
         /\ ScalingResumes(c) => PlaceInv' /\ PoolStep
<1>0. InPlaces
  BY DEF PlaceInv
<1> DEFINE Same == UNCHANGED <<tasks_, doing, adding, finished, removed, expired>>
           Calm == /\ calling' \in [Thread -> Calls]
                   /\ \A x \in Thread : calling'[x] = "add" => calling[x] = "add"
           Still == /\ at' \in [Worker -> WorkerStates]
                    /\ \A w \in Worker : at'[w] = "running" <=> at[w] = "running"
<1>1. Same /\ Calm /\ Still => PlaceInv' /\ PoolStep
  BY <1>0, QuietPlaces DEF InPlaces
<1>2. UNCHANGED calling => Calm
  BY <1>0 DEF InPlaces
<1>3. \A call \in Calls \ {"add"} : calling' = [calling EXCEPT ![c] = call] => Calm
  BY <1>0 DEF InPlaces, Calls
<1>4. Buried \/ UNCHANGED at => Still
  BY <1>0 DEF Buried, InPlaces, WorkerStates
<1>5. ASSUME NEW W \in SUBSET Worker, addWorker(c, W)
      PROVE  PlaceInv' /\ PoolStep
  <2>1. Same /\ Calm
    BY <1>2, <1>3, <1>5 DEF addWorker, Blocked, Calls, ends
  <2>2. Still
    BY <1>0, <1>5 DEF addWorker, InPlaces, WorkerStates
  <2> QED
    BY <1>1, <2>1, <2>2
<1>6. ASSUME NEW call \in {"removeWorker", "stop"}, NEW n, Shrink(c, call, n)
      PROVE  PlaceInv' /\ PoolStep
  <2>1. Same /\ Calm
    BY <1>2, <1>3, <1>6 DEF Shrink, Blocked, Calls, ends
  <2>2. Still
    BY <1>4, <1>6 DEF Shrink
  <2> QED
    BY <1>1, <2>1, <2>2
<1>7. ASSUME stop(c)
      PROVE  PlaceInv' /\ PoolStep
  <2>1. CASE Shrink(c, "stop", workerCount_)
    BY <1>6, <2>1
  <2>2. CASE UNCHANGED <<tasks_, workers, callers, ends>>
    BY <1>1, <1>2, <1>4, <2>2 DEF workers, callers, ends
  <2> QED
    BY <1>7, <2>1, <2>2 DEF stop
<1>8. ASSUME ScalingResumes(c)
      PROVE  PlaceInv' /\ PoolStep
  <2>1. Same
    BY <1>8 DEF ScalingResumes, ends
  <2>2. Calm /\ Still
    BY <1>2, <1>3, <1>4, <1>8 DEF ScalingResumes, Calls
  <2> QED
    BY <1>1, <2>1, <2>2
<1> QED
  BY <1>5, <1>6, <1>7, <1>8 DEF removeWorker

LEMMA PlacesBegin ==
  ASSUME Init
  PROVE  PlaceInv /\ Pool!Init
<1>1. tasks_ = << >> /\ Range(tasks_) = {} /\ Executing = {}
  BY DEF Init, Range, Executing
<1>2. InPlaces
  BY DEF Init, InPlaces, WorkerStates, Calls, NoTask
<1>3. Distinct(tasks_) /\ OnceRunning /\ OnceAdded
  BY <1>1 DEF Init, Distinct, OnceRunning, OnceAdded
<1>4. Pool!Init
  BY <1>1 DEF Init, Pool!Init, Executing
<1> QED
  BY <1>2, <1>3, <1>4 DEF PlaceInv

LEMMA StepPlaces ==
  ASSUME PlaceInv, [Next]_vars
  PROVE  PlaceInv' /\ PoolStep
<1>1. ASSUME NEW w \in Worker, Working(w)
      PROVE  PlaceInv' /\ PoolStep
  BY <1>1, WorkerPlaces DEF Working
<1>2. ASSUME NEW x \in Thread, Resuming(x)
      PROVE  PlaceInv' /\ PoolStep
  <2>1. CASE AddResumes(x) \/ ScalingResumes(x)
    BY <2>1, ResumePlaces, ControllerPlaces
  <2>2. CASE SweepEnds(x)
    BY <2>2, ClientPlaces
  <2> QED
    BY <1>2, <2>1, <2>2 DEF Resuming
<1>3. ASSUME NEW x \in Thread, NEW t \in Task, NEW wait \in BOOLEAN, NEW timed \in BOOLEAN,
             Add(x, t, wait, timed)
      PROVE  PlaceInv' /\ PoolStep
  BY <1>3, AddPlaces
<1>4. ASSUME NEW x \in Thread, AddTimesOut(x)
      PROVE  PlaceInv' /\ PoolStep
  BY <1>4, ResumePlaces
<1>5. ASSUME NEW c \in Client,
             \/ removeNextPending(c) \/ SweepBegins(c) \/ setExpireCallback(c)
             \/ \E t \in Task : remove(c, t)
             \/ start(c)
      PROVE  PlaceInv' /\ PoolStep
  BY <1>5, ClientPlaces
<1>6. ASSUME NEW c \in Client,
             \/ stop(c)
             \/ \E W \in SUBSET Worker : addWorker(c, W)
             \/ \E n \in 1..Cardinality(Worker) : removeWorker(c, n)
      PROVE  PlaceInv' /\ PoolStep
  <2>1. c \in Thread
    BY DEF Thread
  <2> QED
    BY <1>6, <2>1, ControllerPlaces
<1>7. ASSUME \/ \E t \in Task : FallsDue(t)
             \/ SpuriousWakeUp
             \/ UNCHANGED vars
      PROVE  PlaceInv' /\ PoolStep
  BY <1>7, QuietPlaces
     DEF FallsDue, SpuriousWakeUp, vars, callers, workers, ends, PlaceInv, InPlaces
<1> QED
  BY <1>1, <1>2, <1>3, <1>4, <1>5, <1>6, <1>7 DEF Next

\* The pool does what users of tasks are promised: it accepts each task once, starts tasks in the
\* order it accepted them, each at one worker, and drops only what expired or was removed.
THEOREM PoolRefinesTaskPool == Spec => ImplementsPool
<1>1. Init => PlaceInv /\ Pool!Init
  BY PlacesBegin
<1>2. PlaceInv /\ [Next]_vars => PlaceInv' /\ [Pool!Next]_(Pool!poolVars)
  BY StepPlaces DEF PoolStep
<1> QED
  BY <1>1, <1>2, PTL DEF Spec, ImplementsPool, Pool!Spec

-----------------------------------------------------------------------------
\* Types.

\* What is typed by itself; PoolInv and PlaceInv type the rest.
RestTyped ==
  /\ state_ \in {"UNINITIALIZED", "STARTED", "JOINING", "STOPPED"}
  /\ expiredCount_ \in Nat /\ expireCallback_ \in BOOLEAN
  /\ mutex_ \in Worker \cup {NULL}
  /\ monitor_ \subseteq Worker /\ maxMonitor_ \subseteq Thread /\ workerMonitor_ \subseteq Client
  /\ due \subseteq Task /\ sweeper \in Client \cup {NULL} /\ torn \in BOOLEAN
  /\ UNION {finished, removed, expired, late} \subseteq Task

TypeInv == PoolInv /\ PlaceInv /\ RestTyped

\* A pool has never been asked for more workers than there are.
LEMMA MaxCountFits ==
  ASSUME PoolInv
  PROVE  workerMaxCount_ \in Nat /\ workerMaxCount_ <= Cardinality(Worker)
<1>1. /\ workerMaxCount_ \in Nat /\ workerCount_ = Number(at, Counted)
      /\ ~(Growing /\ Shrinking)
      /\ Shrinking \/ workerCount_ + Number(at, Starting) = workerMaxCount_
      /\ Growing \/ workerCount_ >= workerMaxCount_
  BY DEF PoolInv, Types, CountsRight, OneWay
<1>2. /\ Number(at, Counted) \in Nat /\ Number(at, Counted) <= Cardinality(Worker)
      /\ Cardinality(Worker) \in Nat
  BY FiniteIn
<1>3. CASE Shrinking
  BY <1>1, <1>2, <1>3
<1>4. CASE ~Shrinking
  <2>1. Counted \cap Starting = {}
    BY DEF Counted, Starting
  <2>2. Number(at, Counted \cup Starting) = Number(at, Counted) + Number(at, Starting)
    BY <2>1, NumberOfBoth
  <2>3. Number(at, Counted \cup Starting) <= Cardinality(Worker)
    BY FiniteIn
  <2> QED
    BY <1>1, <1>4, <2>2, <2>3
<1> QED
  BY <1>3, <1>4

LEMMA InvGivesTypes ==
  ASSUME TypeInv
  PROVE  TypeOK
<1>1. {workerCount_, workerMaxCount_, idleCount_} \subseteq 0..(SizeMod - 1)
  <2>1. \A S : Number(at, S) \in Nat /\ Number(at, S) <= Cardinality(Worker) /\ Cardinality(Worker) \in Nat
    BY FiniteIn
  <2>2. /\ workerCount_ \in Nat /\ workerCount_ <= Cardinality(Worker)
        /\ idleCount_ \in Nat /\ idleCount_ <= Cardinality(Worker)
    BY <2>1 DEF TypeInv, PoolInv, CountsRight
  <2>3. workerMaxCount_ \in Nat /\ workerMaxCount_ <= Cardinality(Worker)
    BY MaxCountFits DEF TypeInv
  <2>4. SizeMod \in Nat /\ Cardinality(Worker) < SizeMod
    BY PoolAssumption
  <2> QED
    BY <2>1, <2>2, <2>3, <2>4
<1> QED
  BY <1>1 DEF TypeInv, RestTyped, PlaceInv, InPlaces, TypeOK, WorkerStates, Calls

LEMMA NotifiedAreOfThem ==
  ASSUME NEW S, NEW n, NEW T \in Notified(S, n)
  PROVE  T \subseteq S
BY DEF Notified

LEMMA FiniteQueue ==
  ASSUME NEW q \in Seq(Task), NEW S \in SUBSET Range(q)
  PROVE  IsFiniteSet(S) /\ Cardinality(S) \in Nat
<1>1. Len(q) \in Nat /\ DOMAIN q = 1..Len(q) /\ q \in [1..Len(q) -> Range(q)]
  BY SequenceIsQueue DEF Queue
<1>2. q \in Surjection(1..Len(q), Range(q))
  BY <1>1 DEF Surjection, Range
<1>3. IsFiniteSet(1..Len(q))
  BY <1>1, FS_Interval
<1>4. IsFiniteSet(Range(q))
  BY <1>2, <1>3, FS_Surjection
<1> QED
  BY <1>4, FS_Subset, FS_CardinalityType

LEMMA LoopTypes ==
  ASSUME TypeInv, NEW w \in Worker, NEW count, NEW idle, NEW admitted,
         Loop(w, count, idle, admitted) \/ (Exit(w, count, idle) /\ UNCHANGED <<state_, removed,
         late, misc>>),
         finished' \subseteq Task, expiredCount_' \in Nat, torn' \in BOOLEAN
  PROVE  RestTyped'
<1>1. PlaceInv /\ RestTyped
  BY DEF TypeInv
<1>2. UNCHANGED <<state_, removed, late, expireCallback_, due, sweeper>>
  BY DEF Loop, misc
<1>3. workerMonitor_' \subseteq workerMonitor_
  BY NotifiedAreOfThem DEF Loop, Exit
<1>4. CASE Exit(w, count, idle)
  BY <1>1, <1>2, <1>3, <1>4 DEF Exit, RestTyped
<1>5. CASE Sleep(w, count, idle)
  BY <1>1, <1>2, <1>3, <1>5 DEF Sleep, RestTyped
<1>6. CASE tasks_ # << >> /\ Take(w, count, idle)
  <2>1. Head(tasks_) \in Task
    BY <1>1, <1>6, TailIsRest DEF PlaceInv, InPlaces
  <2>2. maxMonitor_' \subseteq maxMonitor_ /\ monitor_' = monitor_ /\ mutex_' \in {NULL, w}
    BY <1>6, NotifiedAreOfThem DEF Take
  <2>3. expired' \subseteq expired \cup {Head(tasks_)}
    BY <1>6 DEF Take
  <2> QED
    BY <1>1, <1>2, <1>3, <2>1, <2>2, <2>3 DEF RestTyped
<1> QED
  BY <1>4, <1>5, <1>6 DEF Loop

LEMMA WorkerTypes ==
  ASSUME TypeInv, NEW w \in Worker, WorkerStep(w), torn' \in BOOLEAN
  PROVE  RestTyped'
<1>1. expiredCount_ \in Nat /\ finished \subseteq Task /\ (at[w] = "running" => doing[w] \in Task)
  BY DEF TypeInv, RestTyped, PlaceInv, OnceRunning
<1>2. CASE Start(w)
  <2>1. expiredCount_' \in Nat /\ finished' \subseteq Task
    BY <1>1, <1>2 DEF Start
  <2> QED
    BY <1>2, <2>1, LoopTypes DEF Start
<1>3. CASE Wake(w)
  <2>1. expiredCount_' \in Nat /\ finished' \subseteq Task
    BY <1>1, <1>3 DEF Wake
  <2> QED
    BY <1>3, <2>1, LoopTypes DEF Wake
<1>4. CASE FinishTask(w)
  <2>1. expiredCount_' \in Nat /\ finished' \subseteq Task
    BY <1>1, <1>4 DEF FinishTask
  <2> QED
    BY <1>4, <2>1, LoopTypes DEF FinishTask
<1>5. CASE Expired(w)
  <2>1. expiredCount_' \in Nat /\ finished' \subseteq Task
    BY <1>1, <1>5 DEF Expired
  <2> QED
    BY <1>5, <2>1, LoopTypes DEF Expired
<1>6. CASE GoOn(w)
  <2>1. expiredCount_' \in Nat /\ finished' \subseteq Task
    BY <1>1, <1>6 DEF GoOn
  <2> QED
    BY <1>6, <2>1, LoopTypes DEF GoOn
<1> QED
  BY <1>2, <1>3, <1>4, <1>5, <1>6 DEF WorkerStep

LEMMA CallerTypes ==
  ASSUME TypeInv, torn' \in BOOLEAN, NEW x \in Thread
  PROVE  /\ \A t, wait, timed : Add(x, t, wait, timed) => RestTyped'
         /\ AddResumes(x) => RestTyped'
         /\ AddTimesOut(x) => RestTyped'
         /\ SweepEnds(x) => RestTyped'
         /\ ScalingResumes(x) => RestTyped'
<1>1. PlaceInv /\ InPlaces /\ RestTyped
  BY DEF TypeInv, PlaceInv
<1>2. \A q, t : Enqueue(q, t) => monitor_' \subseteq monitor_
  BY NotifiedAreOfThem DEF Enqueue
<1>3. ASSUME NEW t, NEW wait, NEW timed, Add(x, t, wait, timed)
      PROVE  RestTyped'
  <2>1. expired' \subseteq Task
    BY <1>1, <1>3, PurgedIsRest DEF Add, PlaceInv, InPlaces, RestTyped
  <2>2. expiredCount_' \in Nat
    BY <1>1, <1>3 DEF Add, RestTyped
  <2>3. monitor_' \subseteq monitor_ /\ maxMonitor_' \subseteq maxMonitor_ \cup {x}
    BY <1>2, <1>3 DEF Add
  <2> QED
    BY <1>1, <1>3, <2>1, <2>2, <2>3 DEF Add, RestTyped, misc
<1>4. ASSUME AddResumes(x)
      PROVE  RestTyped'
  <2>1. late' \subseteq Task
    BY <1>1, <1>4 DEF AddResumes, PlaceInv, OnceAdded, RestTyped
  <2>2. monitor_' \subseteq monitor_ /\ maxMonitor_' \subseteq maxMonitor_ \cup {x}
    BY <1>2, <1>4 DEF AddResumes
  <2> QED
    BY <1>1, <1>4, <2>1, <2>2 DEF AddResumes, RestTyped, misc
<1>5. ASSUME AddTimesOut(x)
      PROVE  RestTyped'
  BY <1>1, <1>5 DEF AddTimesOut, RestTyped, misc, ends
<1>6. ASSUME SweepEnds(x)
      PROVE  RestTyped'
  <2> DEFINE old == Range(tasks_) \cap due
  <2>1. old \subseteq Task /\ Cardinality(old) \in Nat
    BY <1>1, FiniteQueue, RunningIsTask DEF InPlaces
  <2>2. expired' = expired \cup old /\ expiredCount_' = expiredCount_ + Cardinality(old)
    BY <1>6 DEF SweepEnds
  <2> HIDE DEF old
  <2>3. expired' \subseteq Task /\ expiredCount_' \in Nat
    BY <1>1, <2>1, <2>2 DEF RestTyped
  <2> QED
    BY <1>1, <1>6, <2>3 DEF SweepEnds, RestTyped, monitors
<1>7. ASSUME ScalingResumes(x)
      PROVE  RestTyped'
  <2>1. x \in Client
    BY <1>7, PoolAssumption
       DEF ScalingResumes, TypeInv, PoolInv, OnlyControllersScale, ScalingCalls
  <2>2. workerMonitor_' \subseteq Client /\ state_' \in {state_, "STOPPED"}
    BY <1>1, <1>7, <2>1 DEF ScalingResumes, RestTyped
  <2> QED
    BY <1>1, <1>7, <2>2 DEF ScalingResumes, RestTyped, misc, ends
<1> QED
  BY <1>3, <1>4, <1>5, <1>6, <1>7

LEMMA ClientTypes ==
  ASSUME TypeInv, torn' \in BOOLEAN, NEW c \in Client
  PROVE  /\ \A t : remove(c, t) => RestTyped'
         /\ removeNextPending(c) => RestTyped'
         /\ SweepBegins(c) => RestTyped'
         /\ setExpireCallback(c) => RestTyped'
         /\ start(c) => RestTyped'
         /\ stop(c) => RestTyped'
         /\ \A W : addWorker(c, W) => RestTyped'
         /\ \A n : removeWorker(c, n) => RestTyped'
<1>1. PlaceInv /\ RestTyped
  BY DEF TypeInv
<1>2. ASSUME NEW t, remove(c, t)
      PROVE  RestTyped'
  BY <1>1, <1>2, RunningIsTask DEF remove, RestTyped, monitors, misc
<1>3. ASSUME SweepBegins(c)
      PROVE  RestTyped'
  BY <1>1, <1>3 DEF SweepBegins, RestTyped, monitors, ends
<1>4. ASSUME setExpireCallback(c)
      PROVE  RestTyped'
  BY <1>1, <1>4 DEF setExpireCallback, RestTyped, monitors, ends
<1>5. ASSUME start(c)
      PROVE  RestTyped'
  BY <1>1, <1>5 DEF start, RestTyped, ends, misc
<1>6. ASSUME NEW call, NEW n, Shrink(c, call, n), state_' \in {state_, "JOINING", "STOPPED"}
      PROVE  RestTyped'
  <2>1. monitor_' \subseteq monitor_ /\ workerMonitor_' \subseteq workerMonitor_ \cup {c}
    BY <1>6, NotifiedAreOfThem DEF Shrink
  <2> QED
    BY <1>1, <1>6, <2>1 DEF Shrink, RestTyped, ends, misc
<1>7. ASSUME stop(c)
      PROVE  RestTyped'
  <2>1. CASE Shrink(c, "stop", workerCount_) /\ state_' \in {"JOINING", "STOPPED"}
    BY <1>6, <2>1
  <2>2. CASE state_' \in {"JOINING", "STOPPED"} /\ UNCHANGED <<expiredCount_, mutex_, monitors, ends, misc>>
    BY <1>1, <2>2 DEF RestTyped, monitors, ends, misc
  <2> QED
    BY <1>7, <2>1, <2>2 DEF stop
<1>8. ASSUME NEW W, addWorker(c, W)
      PROVE  RestTyped'
  BY <1>1, <1>8 DEF addWorker, RestTyped, ends, misc
<1>9. ASSUME NEW n, removeWorker(c, n)
      PROVE  RestTyped'
  BY <1>6, <1>9 DEF removeWorker
<1> QED
  BY <1>2, <1>3, <1>4, <1>5, <1>7, <1>8, <1>9 DEF removeNextPending

LEMMA TypesBegin ==
  ASSUME Init
  PROVE  TypeInv
<1>1. RestTyped
  BY DEF Init, RestTyped
<1> QED
  BY <1>1, InitGood, PlacesBegin DEF TypeInv

LEMMA StepTypes ==
  ASSUME TypeInv, OneController, [Next]_vars
  PROVE  TypeInv'
<1>1. PoolInv' /\ PlaceInv'
  BY StepKeeps, StepPlaces DEF TypeInv
<1>2. Unlocked => torn' \in BOOLEAN
  BY DEF Unlocked
<1>3. ASSUME NEW w \in Worker, Working(w)
      PROVE  RestTyped'
  BY <1>2, <1>3, WorkerTypes DEF Working
<1>4. ASSUME NEW x \in Thread, Resuming(x)
      PROVE  RestTyped'
  BY <1>2, <1>4, CallerTypes DEF Resuming
<1>5. ASSUME Unlocked,
             \/ \E x \in Thread, t \in Task, wait, timed \in BOOLEAN : Add(x, t, wait, timed)
             \/ \E x \in Thread : AddTimesOut(x)
      PROVE  RestTyped'
  BY <1>2, <1>5, CallerTypes
<1>6. ASSUME Unlocked, NEW c \in Client,
             \/ removeNextPending(c) \/ SweepBegins(c) \/ setExpireCallback(c)
             \/ \E t \in Task : remove(c, t)
             \/ start(c) \/ stop(c)
             \/ \E W \in SUBSET Worker : addWorker(c, W)
             \/ \E n \in 1..Cardinality(Worker) : removeWorker(c, n)
      PROVE  RestTyped'
  BY <1>2, <1>6, ClientTypes
<1>7. ASSUME Unlocked, NEW t \in Task, FallsDue(t)
      PROVE  RestTyped'
  BY <1>2, <1>7 DEF TypeInv, FallsDue, RestTyped, monitors, ends
<1>8. ASSUME Unlocked, SpuriousWakeUp
      PROVE  RestTyped'
  BY <1>2, <1>8 DEF TypeInv, SpuriousWakeUp, RestTyped, misc, ends
<1>9. ASSUME UNCHANGED vars
      PROVE  RestTyped'
  BY <1>9 DEF TypeInv, vars, RestTyped, monitors, misc, ends
<1>10. RestTyped'
  BY <1>3, <1>4, <1>5, <1>6, <1>7, <1>8, <1>9 DEF Next
<1> QED
  BY <1>1, <1>10 DEF TypeInv

-----------------------------------------------------------------------------
\* stop.

\* As long as a call of stop waits, no workers are wanted; and when the last has
\* left, only tasks that were late are in the queue.
Stopping ==
  \A c \in Client : calling[c] = "stop" =>
    /\ c \in Controller /\ state_ = "JOINING" /\ workerMaxCount_ = 0
    /\ workerCount_ = 0 => Range(tasks_) \subseteq late

DrainInv == TypeInv /\ Stopping

Drained ==
  \A c \in Client : calling[c] = "stop" /\ calling'[c] = "nothing" => Range(tasks_) \subseteq late

\* Steps during which every call of stop goes on waiting.
LEMMA StillStopping ==
  ASSUME DrainInv, UNCHANGED <<state_, workerCount_, workerMaxCount_>>, late \subseteq late',
         Range(tasks_') \subseteq Range(tasks_) \cup late',
         \A c \in Client : calling'[c] # calling[c] => calling[c] # "stop" /\ calling'[c] # "stop"
  PROVE  Stopping' /\ Drained
<1>1. Range(tasks_)' = Range(tasks_')
  BY DEF Range
<1> QED
  BY <1>1 DEF DrainInv, Stopping, Drained

\* Steps at which nobody is in a call of stop.
LEMMA NobodyStopping ==
  ASSUME \A c \in Client : calling[c] # "stop" /\ calling'[c] # "stop"
  PROVE  Stopping' /\ Drained
BY DEF Stopping, Drained

LEMMA NotWhileStarted ==
  ASSUME DrainInv, state_ # "JOINING"
  PROVE  \A c \in Client : calling[c] # "stop"
BY DEF DrainInv, Stopping

LEMMA WorkerDrains ==
  ASSUME DrainInv, NEW w \in Worker, WorkerStep(w)
  PROVE  Stopping' /\ Drained
<1>1. TypeInv /\ PoolInv /\ calling' = calling
  BY DEF DrainInv, TypeInv, WorkerStep, Start, Wake, FinishTask, Expired, GoOn, Loop, callers
<1>2. Drained
  BY <1>1 DEF Drained
<1> SUFFICES ASSUME NEW c \in Client, calling[c] = "stop"
             PROVE  /\ c \in Controller /\ state_' = "JOINING" /\ workerMaxCount_' = 0
                    /\ workerCount_' = 0 => Range(tasks_)' \subseteq late'
  BY <1>1, <1>2 DEF Stopping
<1>3. c \in Controller /\ state_ = "JOINING" /\ workerMaxCount_ = 0
  BY DEF DrainInv, Stopping
<1>4. at[w] \notin Starting
  <2>1. Shrinking
    BY <1>3 DEF Shrinking
  <2>2. Number(at, Starting) = 0
    BY <1>1, <2>1 DEF PoolInv, OneWay
  <2> QED
    BY <2>2, NoneIn
<1>5. ~Start(w)
  BY <1>4 DEF Start, Starting
<1>6. PICK idle : Loop(w, workerCount_, idle, FALSE)
  BY <1>5 DEF WorkerStep, Wake, FinishTask, Expired, GoOn
<1>7. at[w] \in Counted
  BY <1>5 DEF WorkerStep, Wake, FinishTask, Expired, GoOn, Counted
<1>8. workerCount_ \in Nat /\ workerCount_ # 0
  BY <1>1, <1>7, NoneIn, FiniteIn DEF PoolInv, CountsRight
<1>9. UNCHANGED <<state_, workerMaxCount_, late>>
  BY <1>6 DEF Loop
<1>10. ASSUME workerCount_' = 0
       PROVE  tasks_' = << >>
  <2>1. ~Sleep(w, workerCount_, idle) /\ ~Take(w, workerCount_, idle)
    BY <1>8, <1>10 DEF Sleep, Take
  <2>2. ~isActive(workerCount_) /\ Exit(w, workerCount_, idle)
    BY <1>6, <2>1 DEF Loop
  <2>3. tasks_ = << >>
    BY <1>3, <2>2 DEF isActive
  <2> QED
    BY <2>2, <2>3 DEF Exit
<1> QED
  BY <1>3, <1>9, <1>10 DEF Range

LEMMA RestIsOf ==
  ASSUME NEW q \in Seq(Task), NEW D
  PROVE  Range(Without(q, D)) \subseteq Range(q)
<1> DEFINE r == Without(q, D)
<1>1. IsRest(r, q, D)
  BY WithoutIsRest
<1> HIDE DEF r
<1>2. DOMAIN r = 1..Len(r)
  BY <1>1 DEF IsRest
<1>3. PICK f \in [1..Len(r) -> {i \in DOMAIN q : q[i] \notin D}] : \A i \in 1..Len(r) : r[i] = q[f[i]]
  BY <1>1 DEF IsRest
<1>4. Range(r) \subseteq Range(q)
  BY <1>2, <1>3 DEF Range
<1> QED
  BY <1>4 DEF r

LEMMA CallerDrains ==
  ASSUME DrainInv, OneController, NEW x \in Thread
  PROVE  /\ \A t, wait, timed : Add(x, t, wait, timed) => Stopping' /\ Drained
         /\ AddResumes(x) => Stopping' /\ Drained
         /\ AddTimesOut(x) => Stopping' /\ Drained
         /\ SweepEnds(x) => Stopping' /\ Drained
         /\ ScalingResumes(x) => Stopping' /\ Drained
<1>1. PlaceInv /\ InPlaces /\ PoolInv /\ Client \subseteq Thread
  BY DEF DrainInv, TypeInv, PlaceInv, Thread
<1>2. ASSUME NEW t, NEW wait, NEW timed, Add(x, t, wait, timed)
      PROVE  Stopping' /\ Drained
  <2>1. \A c \in Client : calling[c] # "stop"
    BY <1>2, NotWhileStarted DEF Add
  <2>2. \A c \in Client : calling'[c] # "stop"
    BY <1>1, <1>2, <2>1 DEF Add, callers, InPlaces
  <2> QED
    BY <2>1, <2>2, NobodyStopping
<1>3. ASSUME AddResumes(x)
      PROVE  Stopping' /\ Drained
  <2>1. UNCHANGED <<state_, workerCount_, workerMaxCount_>> /\ calling[x] = "add"
    BY <1>3 DEF AddResumes, counts
  <2>2. \A c \in Client : calling'[c] # calling[c] => calling[c] # "stop" /\ calling'[c] # "stop"
    BY <1>1, <1>3, <2>1 DEF AddResumes, Returns, callers, InPlaces
  <2>3. CASE UNCHANGED <<tasks_, late>>
    BY <2>1, <2>2, <2>3, StillStopping
  <2>4. CASE state_ = "STARTED" /\ (calling' = calling \/ Returns(x))
    <3>1. \A c \in Client : calling[c] # "stop" /\ calling'[c] # "stop"
      BY <2>2, <2>4, NotWhileStarted
    <3> QED
      BY <3>1, NobodyStopping
  <2>5. CASE tasks_' = Append(tasks_, adding[x].task) /\ late' = late \cup {adding[x].task}
    <3>1. adding[x].task \in Task
      BY <1>1, <2>1 DEF PlaceInv, OnceAdded
    <3>2. Range(tasks_') \subseteq Range(tasks_) \cup {adding[x].task}
      BY <1>1, <2>5, <3>1, AppendProperties DEF Range, InPlaces
    <3> QED
      BY <2>1, <2>2, <2>5, <3>2, StillStopping
  <2> QED
    BY <1>3, <2>3, <2>4, <2>5 DEF AddResumes, Enqueue
<1>4. ASSUME AddTimesOut(x)
      PROVE  Stopping' /\ Drained
  <2>1. \A c \in Client : calling'[c] # calling[c] => calling[c] # "stop" /\ calling'[c] # "stop"
    BY <1>1, <1>4 DEF AddTimesOut, Returns, InPlaces
  <2> QED
    BY <1>4, <2>1, StillStopping DEF AddTimesOut, counts, ends
<1>5. ASSUME SweepEnds(x)
      PROVE  Stopping' /\ Drained
  <2>1. Range(tasks_') \subseteq Range(tasks_)
    BY <1>1, <1>5, RestIsOf DEF SweepEnds, InPlaces
  <2> QED
    BY <1>5, <2>1, StillStopping DEF SweepEnds, counts, callers
<1>6. ASSUME ScalingResumes(x)
      PROVE  Stopping' /\ Drained
  <2>1. CASE UNCHANGED <<state_, calling>>
    BY <1>6, <2>1, StillStopping DEF ScalingResumes, counts, ends
  <2>2. CASE workerCount_ = workerMaxCount_ /\ calling' = [calling EXCEPT ![x] = "nothing"]
    <3>1. x \in Controller
      BY <1>1, <1>6 DEF ScalingResumes, PoolInv, OnlyControllersScale, ScalingCalls
    <3>2. \A c \in Client : c # x => calling[c] # "stop" /\ calling'[c] = calling[c]
      BY <1>1, <2>2, <3>1 DEF OneController, DrainInv, Stopping, InPlaces
    <3>3. calling'[x] = "nothing"
      BY <1>1, <2>2 DEF InPlaces
    <3>4. calling[x] = "stop" /\ x \in Client => Range(tasks_) \subseteq late
      BY <2>2 DEF DrainInv, Stopping
    <3> QED
      BY <3>2, <3>3, <3>4 DEF Stopping, Drained
  <2> QED
    BY <1>6, <2>1, <2>2 DEF ScalingResumes
<1> QED
  BY <1>2, <1>3, <1>4, <1>5, <1>6

LEMMA ClientDrains ==
  ASSUME DrainInv, OneController, NEW d \in Client
  PROVE  /\ \A t : remove(d, t) => Stopping' /\ Drained
         /\ removeNextPending(d) => Stopping' /\ Drained
         /\ SweepBegins(d) \/ setExpireCallback(d) => Stopping' /\ Drained
         /\ start(d) => Stopping' /\ Drained
         /\ \A W : addWorker(d, W) => Stopping' /\ Drained
         /\ \A n : removeWorker(d, n) => Stopping' /\ Drained
         /\ stop(d) => Stopping' /\ Drained
<1>1. InPlaces /\ PoolInv /\ d \in Thread
  BY DEF DrainInv, TypeInv, PlaceInv, Thread
<1>2. ASSUME d \in Controller, calling[d] = "nothing"
      PROVE  \A c \in Client : calling[c] # "stop"
  BY <1>2 DEF OneController, DrainInv, Stopping
<1>3. ASSUME NEW t, remove(d, t)
      PROVE  Stopping' /\ Drained
  <2>1. \A c \in Client : calling[c] # "stop"
    BY <1>3, NotWhileStarted DEF remove
  <2> QED
    BY <1>3, <2>1, NobodyStopping DEF remove, callers
<1>4. ASSUME SweepBegins(d) \/ setExpireCallback(d)
      PROVE  Stopping' /\ Drained
  BY <1>4, StillStopping DEF SweepBegins, setExpireCallback, counts, callers, ends
<1>5. ASSUME start(d)
      PROVE  Stopping' /\ Drained
  <2>1. \A c \in Client : calling[c] # "stop"
    BY <1>5, NotWhileStarted DEF start
  <2> QED
    BY <1>5, <2>1, NobodyStopping DEF start, callers
<1>6. ASSUME NEW call \in Calls \ {"stop"}, d \in Controller, calling[d] = "nothing",
             calling' = calling \/ calling' = [calling EXCEPT ![d] = call]
      PROVE  Stopping' /\ Drained
  <2>1. \A c \in Client : calling[c] # "stop" /\ calling'[c] # "stop"
    BY <1>1, <1>2, <1>6 DEF InPlaces, Thread
  <2> QED
    BY <2>1, NobodyStopping
<1>7. ASSUME NEW W, addWorker(d, W)
      PROVE  Stopping' /\ Drained
  BY <1>6, <1>7 DEF addWorker, Idle, Blocked, Calls
<1>8. ASSUME NEW n, removeWorker(d, n)
      PROVE  Stopping' /\ Drained
  BY <1>6, <1>8 DEF removeWorker, Idle, Shrink, Blocked, Calls
<1>9. ASSUME stop(d)
      PROVE  Stopping' /\ Drained
  <2>1. d \in Controller /\ calling[d] = "nothing"
    BY <1>9 DEF stop, Idle
  <2>2. CASE calling' = calling
    BY <1>6, <2>1, <2>2 DEF Calls
  <2>3. CASE /\ Shrink(d, "stop", workerCount_) /\ workerCount_ # workerMaxCount_'
             /\ state_' = "JOINING"
    <3>1. workerCount_ = workerMaxCount_ /\ workerMaxCount_ \in Nat
      BY <1>1, <2>1, SettledWhenIdle DEF PoolInv, Types
    <3>2. workerMaxCount_' = 0 /\ workerCount_' = workerCount_ /\ workerCount_ # 0
      BY <2>3, <3>1 DEF Shrink
    <3>3. \A c \in Client : c # d => calling[c] # "stop"
      BY <1>1, <1>2, <2>1
    <3>4. calling' = [calling EXCEPT ![d] = "stop"]
      BY <2>3 DEF Shrink, Blocked
    <3>5. \A c \in Client : c # d => calling'[c] = calling[c]
      BY <1>1, <1>2, <3>4 DEF InPlaces, Thread
    <3> QED
      BY <1>2, <2>1, <2>3, <3>2, <3>3, <3>5 DEF Stopping, Drained
  <2> QED
    BY <1>9, <2>2, <2>3 DEF stop, Shrink, callers
<1> QED
  BY <1>3, <1>4, <1>5, <1>7, <1>8, <1>9 DEF removeNextPending

LEMMA StepDrains ==
  ASSUME DrainInv, OneController, [Next]_vars
  PROVE  DrainInv' /\ Drained
<1>1. TypeInv'
  BY StepTypes DEF DrainInv
<1>2. ASSUME NEW w \in Worker, Working(w)
      PROVE  Stopping' /\ Drained
  BY <1>2, WorkerDrains DEF Working
<1>3. ASSUME NEW x \in Thread, Resuming(x)
      PROVE  Stopping' /\ Drained
  BY <1>3, CallerDrains DEF Resuming
<1>4. ASSUME \/ \E x \in Thread, t \in Task, wait, timed \in BOOLEAN : Add(x, t, wait, timed)
             \/ \E x \in Thread : AddTimesOut(x)
      PROVE  Stopping' /\ Drained
  BY <1>4, CallerDrains
<1>5. ASSUME NEW c \in Client,
             \/ removeNextPending(c) \/ SweepBegins(c) \/ setExpireCallback(c)
             \/ \E t \in Task : remove(c, t)
             \/ start(c) \/ stop(c)
             \/ \E W \in SUBSET Worker : addWorker(c, W)
             \/ \E n \in 1..Cardinality(Worker) : removeWorker(c, n)
      PROVE  Stopping' /\ Drained
  BY <1>5, ClientDrains
<1>6. ASSUME (\E t \in Task : FallsDue(t)) \/ SpuriousWakeUp \/ UNCHANGED vars
      PROVE  Stopping' /\ Drained
  BY <1>6, StillStopping DEF FallsDue, SpuriousWakeUp, vars, counts, callers, ends
<1>7. Stopping' /\ Drained
  BY <1>2, <1>3, <1>4, <1>5, <1>6 DEF Next
<1> QED
  BY <1>1, <1>7 DEF DrainInv

LEMMA DrainingBegins ==
  ASSUME Init
  PROVE  DrainInv
<1>1. Stopping
  BY DEF Init, Stopping, Thread
<1> QED
  BY <1>1, TypesBegin DEF DrainInv

\* The pool keeps its types: no counter leaves the range of size_t.
THEOREM PoolTypeCorrect ==
  ASSUME OneController
  PROVE  Spec => []TypeOK
<1>1. Init => TypeInv
  BY TypesBegin
<1>2. TypeInv /\ [Next]_vars => TypeInv'
  BY StepTypes
<1>3. TypeInv => TypeOK
  BY InvGivesTypes
<1> QED
  BY <1>1, <1>2, <1>3, PTL DEF Spec

\* A call of stop that had workers to wait for returns when they have worked off the queue; what is
\* in it then was put there by calls of add that were blocked when stop was called.
THEOREM StopWorksOffTheQueue ==
  ASSUME OneController
  PROVE  Spec => StopDrains
<1>1. Init => DrainInv
  BY DrainingBegins
<1>2. DrainInv /\ [Next]_vars => DrainInv'
  BY StepDrains
<1>3. DrainInv /\ [Next]_vars =>
        [\A c \in Client :
           calling[c] = "stop" /\ calling'[c] = "nothing" => Range(tasks_) \subseteq late]_vars
  BY StepDrains DEF Drained
<1> QED
  BY <1>1, <1>2, <1>3, PTL DEF Spec, StopDrains
=============================================================================
