-------------------------- MODULE SubmissionThread --------------------------
(***************************************************************************)
(* The one thread that starts the overlapped operations of all pipes       *)
(* (OverlappedSubmissionThread.cpp): the thread that starts a read must    *)
(* outlive it, so the users of pipes push their work items on a list and   *)
(* wait until the submission thread has taken and started them.  The thread*)
(* exists while somebody refers to it: the first user creates it, the last *)
(* one stops and deletes it.                                               *)
(***************************************************************************)
EXTENDS Integers, Sequences, FiniteSets

CONSTANTS
  User,        \* owners of a work item: a pipe's read, a server's connect, a cancel
  MaxItems,    \* bound: items that a user submits
  MaxInstances \* bound: threads that are created

VARIABLES
  instanceGuard_,      \* who is in the critical section, or Unlocked
  instance_,           \* the number of the thread that exists, or Null
  instances,           \* how many there have been
  instanceRefCount_,
  workList_,           \* the stack of work items, the last one pushed first
  workAvailableEvent_, \* an event that resets itself when it wakes the thread
  doneSubmitting,      \* per item: its doneSubmittingEvent
  submissionThread,    \* what the thread does
  inHand,              \* the item it processes
  user,                \* what each user does
  submitted,           \* per user: items it has pushed
  started              \* per user: items of its that have been processed

submissionVars == <<instanceGuard_, instance_, instances, instanceRefCount_, workList_,
                    workAvailableEvent_, doneSubmitting, submissionThread, inHand, user, submitted,
                    started>>
listVars == <<workList_, workAvailableEvent_, doneSubmitting, submissionThread, inHand>>
instanceVars == <<instanceGuard_, instance_, instances, instanceRefCount_>>

Null == 0
Unlocked == "free"
NoItem == "no item"
Stop == "stop item"  \* stopItem_ of the instance
Item == User \cup {Stop}

ASSUME SubmissionAssumption ==
  /\ Unlocked \notin User /\ NoItem \notin Item /\ Stop \notin User
  /\ MaxItems \in Nat /\ MaxInstances \in Nat

SubmissionInit ==
  /\ instanceGuard_ = Unlocked /\ instance_ = Null /\ instances = 0 /\ instanceRefCount_ = 0
  /\ workList_ = << >> /\ workAvailableEvent_ = FALSE /\ doneSubmitting = [i \in Item |-> FALSE]
  /\ submissionThread = "none" /\ inHand = NoItem
  /\ user = [u \in User |-> "outside"]
  /\ submitted = [u \in User |-> 0] /\ started = [u \in User |-> 0]

-----------------------------------------------------------------------------
\* acquire_instance() when nobody has: a new object, with a new list, new events and a new thread.
CreateInstance(u) ==
  /\ user[u] = "outside" /\ instanceGuard_ = Unlocked
  /\ instance_ = Null /\ instances < MaxInstances
  /\ instances' = instances + 1 /\ instance_' = instances + 1
  /\ instanceRefCount_' = instanceRefCount_ + 1
  /\ workList_' = << >> /\ workAvailableEvent_' = FALSE
  /\ doneSubmitting' = [doneSubmitting EXCEPT ![Stop] = FALSE]
  /\ submissionThread' = "waits" /\ inHand' = NoItem
  /\ user' = [user EXCEPT ![u] = "holds"]
  /\ UNCHANGED <<instanceGuard_, submitted, started>>

\* acquire_instance() when there is one.  (If the system gives no thread the constructor throws, and
\* nothing has changed.)
ShareInstance(u) ==
  /\ user[u] = "outside" /\ instanceGuard_ = Unlocked
  /\ instance_ # Null
  /\ instanceRefCount_' = instanceRefCount_ + 1
  /\ user' = [user EXCEPT ![u] = "holds"]
  /\ UNCHANGED <<instanceGuard_, instance_, instances, listVars, submitted, started>>

Push(i) == workList_' = <<i>> \o workList_

\* addWorkItem(): it pushes,
PushItem(u) ==
  /\ user[u] = "holds" /\ submitted[u] < MaxItems
  /\ Push(u)
  /\ submitted' = [submitted EXCEPT ![u] = @ + 1]
  /\ user' = [user EXCEPT ![u] = "pushed"]
  /\ UNCHANGED <<instanceVars, workAvailableEvent_, doneSubmitting, submissionThread, inHand, started>>

\* wakes the thread,
SignalWork(u) ==
  /\ user[u] = "pushed"
  /\ workAvailableEvent_' = TRUE
  /\ user' = [user EXCEPT ![u] = "waits"]
  /\ UNCHANGED <<instanceVars, workList_, doneSubmitting, submissionThread, inHand, submitted, started>>

\* and waits for it.
ItemSubmitted(u) ==
  /\ user[u] = "waits" /\ doneSubmitting[u]
  /\ doneSubmitting' = [doneSubmitting EXCEPT ![u] = FALSE]
  /\ user' = [user EXCEPT ![u] = "holds"]
  /\ UNCHANGED <<instanceVars, workList_, workAvailableEvent_, submissionThread, inHand, submitted,
                 started>>

\* release_instance() of a user who is not the last,
ReleaseShared(u) ==
  /\ user[u] = "holds" /\ instanceGuard_ = Unlocked /\ instanceRefCount_ > 1
  /\ instanceRefCount_' = instanceRefCount_ - 1
  /\ user' = [user EXCEPT ![u] = "outside"]
  /\ UNCHANGED <<instanceGuard_, instance_, instances, listVars, submitted, started>>

\* and of the last one.  It stays in the critical section until the thread has ended: the destructor
\* pushes the item that stops it,
ReleaseLast(u) ==
  /\ user[u] = "holds" /\ instanceGuard_ = Unlocked /\ instanceRefCount_ = 1
  /\ instanceRefCount_' = 0 /\ instanceGuard_' = u
  /\ Push(Stop)
  /\ user' = [user EXCEPT ![u] = "stops"]
  /\ UNCHANGED <<instance_, instances, workAvailableEvent_, doneSubmitting, submissionThread, inHand,
                 submitted, started>>

\* wakes the thread,
SignalStop(u) ==
  /\ user[u] = "stops"
  /\ workAvailableEvent_' = TRUE
  /\ user' = [user EXCEPT ![u] = "joins"]
  /\ UNCHANGED <<instanceVars, workList_, doneSubmitting, submissionThread, inHand, submitted, started>>

\* and waits for the item, then for the thread.
DeleteInstance(u) ==
  /\ user[u] = "joins" /\ doneSubmitting[Stop] /\ submissionThread = "ended"
  /\ doneSubmitting' = [doneSubmitting EXCEPT ![Stop] = FALSE]
  /\ submissionThread' = "none" /\ instance_' = Null /\ instanceGuard_' = Unlocked
  /\ user' = [user EXCEPT ![u] = "outside"]
  /\ UNCHANGED <<instances, instanceRefCount_, workList_, workAvailableEvent_, inHand, submitted, started>>

-----------------------------------------------------------------------------
\* run(): the thread waits for work,
Awake ==
  /\ submissionThread = "waits" /\ workAvailableEvent_
  /\ workAvailableEvent_' = FALSE /\ submissionThread' = "pops"
  /\ UNCHANGED <<instanceVars, workList_, doneSubmitting, inHand, user, submitted, started>>

\* pops items until there are none,
PopItem ==
  /\ submissionThread = "pops" /\ workList_ # << >>
  /\ inHand' = Head(workList_) /\ workList_' = Tail(workList_) /\ submissionThread' = "processes"
  /\ UNCHANGED <<instanceVars, workAvailableEvent_, doneSubmitting, user, submitted, started>>

ListEmpty ==
  /\ submissionThread = "pops" /\ workList_ = << >>
  /\ submissionThread' = "waits"
  /\ UNCHANGED <<instanceVars, workList_, workAvailableEvent_, doneSubmitting, inHand, user, submitted,
                 started>>

\* Faulty variant: one item for each wake-up.
NextWakeUp == "waits"

NextItem == "pops"

\* and processes each: it starts the operation and tells the one who waits for that.
Process ==
  /\ submissionThread = "processes"
  /\ doneSubmitting' = [doneSubmitting EXCEPT ![inHand] = TRUE]
  /\ started' = [u \in User |-> IF u = inHand THEN started[u] + 1 ELSE started[u]]
  /\ submissionThread' = IF inHand = Stop THEN "ended" ELSE NextItem
  /\ inHand' = NoItem
  /\ UNCHANGED <<instanceVars, workList_, workAvailableEvent_, user, submitted>>

SubmissionNext ==
  \/ \E u \in User :
       \/ CreateInstance(u) \/ ShareInstance(u)
       \/ PushItem(u) \/ SignalWork(u) \/ ItemSubmitted(u)
       \/ ReleaseShared(u) \/ ReleaseLast(u) \/ SignalStop(u) \/ DeleteInstance(u)
  \/ Awake \/ PopItem \/ ListEmpty \/ Process

SubmissionSpec == SubmissionInit /\ [][SubmissionNext]_submissionVars

-----------------------------------------------------------------------------
UserStates == {"outside", "holds", "pushed", "waits", "stops", "joins"}

\* The types of all variables.
SubmissionTypeOK ==
  /\ instanceGuard_ \in User \cup {Unlocked} /\ instance_ \in Nat /\ instances \in Nat
  /\ instanceRefCount_ \in Nat
  /\ workList_ \in Seq(Item) /\ workAvailableEvent_ \in BOOLEAN
  /\ doneSubmitting \in [Item -> BOOLEAN]
  /\ submissionThread \in {"none", "waits", "pops", "processes", "ended"}
  /\ inHand \in Item \cup {NoItem}
  /\ user \in [User -> UserStates]
  /\ submitted \in [User -> Nat] /\ started \in [User -> Nat]

References == {u \in User : user[u] \in {"holds", "pushed", "waits"}}

\* Whoever refers to the thread finds it running, it is deleted by the last one only
\* (acquire_instance, release_instance), and a new one is not created before that.
ThreadOutlivesItsUsers ==
  /\ References # {} => instance_ # Null /\ submissionThread \in {"waits", "pops", "processes"}
  /\ instanceRefCount_ = Cardinality(References)

\* When addWorkItem returns, its item has been processed, once: until then it is on the list or in
\* the thread's hand, the thread is awake or about to be woken, and no wake-up gets lost.
ItemsSubmittedOnce ==
  /\ \A u \in User : user[u] \in {"outside", "holds"} => started[u] = submitted[u]
  /\ \A u \in User : started[u] <= submitted[u]
  /\ workList_ # << >> => \/ workAvailableEvent_
                          \/ submissionThread \in {"pops", "processes"}
                          \/ \E u \in User : user[u] \in {"pushed", "stops"}
=============================================================================
