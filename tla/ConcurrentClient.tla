-------------------------- MODULE ConcurrentClient --------------------------
(***************************************************************************)
(* Several threads that share one connection through a generated           *)
(* concurrent client (async/TConcurrentClientSyncInfo.cpp).  Each call has *)
(* a sequence id.  Whoever holds the read mutex reads the next reply; a    *)
(* reply that is not his he leaves as pending, wakes its owner and waits   *)
(* on a monitor of his own.                                                *)
(*                                                                         *)
(* The generated code, which is outside the repository, gets an id, sends  *)
(* under a TConcurrentSendSentry, and receives under a                     *)
(* TConcurrentRecvSentry in a loop of getPending, reading, updatePending   *)
(* and waitForWork.                                                        *)
(***************************************************************************)
EXTENDS Integers, FiniteSetsExt

CONSTANTS
  Thread,
  Calls,      \* bound on the calls made in all
  MinSeqId, MaxSeqId,   \* the range of int32_t
  FirstSeqId, \* a few below the maximum, "to test rollover all the time"
  None

\* What the constants are assumed to be.
IdsAssumption ==
  /\ {MinSeqId, MaxSeqId} \subseteq Int /\ FirstSeqId \in MinSeqId..MaxSeqId /\ Calls \in Nat

VARIABLES
  stop_, nextseqid_,
  seqidToMonitorMap_,   \* the ids in the map, with the thread whose monitor it is, None for null
  recvPending_, pendingMessage_, wakeupSomeone_,
  readMutex_, writeMutex_,
  asleep,       \* the threads asleep on their monitors
  step,         \* where each thread is in its call
  seqid,        \* the id of that call
  made,         \* the number of that call among all calls
  replies,      \* what the server answers to the requests it was sent; replies overtake each other
  received,     \* history: the last reply each thread has returned
  reused        \* history: the ids given out to a second call although not the smallest in use

mutexes == <<readMutex_, writeMutex_>>
pending == <<recvPending_, pendingMessage_>>
calls == <<step, seqid, made, received, reused>>
syncVars == <<stop_, nextseqid_, seqidToMonitorMap_, pending, wakeupSomeone_, mutexes, asleep,
              calls, replies>>

SyncInit ==
  /\ stop_ = FALSE /\ nextseqid_ = FirstSeqId /\ seqidToMonitorMap_ = {}
  /\ recvPending_ = FALSE /\ pendingMessage_ = None /\ wakeupSomeone_ = FALSE
  /\ readMutex_ = None /\ writeMutex_ = None /\ asleep = {}
  /\ step = [t \in Thread |-> "idle"] /\ seqid = [t \in Thread |-> FirstSeqId]
  /\ made = [t \in Thread |-> 0] /\ received = [t \in Thread |-> None]
  /\ replies = {} /\ reused = {}

NobodysId == MinSeqId - 1

Ids(map) == {e.id : e \in map}
OwnerOf(map, id) == {e.owner : e \in {e \in map : e.id = id}}

Goes(t, place) == step' = [step EXCEPT ![t] = place]

\* To notify a null monitor ends the process.
Alive == \A t \in Thread : step[t] # "died"

\* The thread goes on when it has told the owners.  A call that shares its id waits on the monitor of
\* the one that was given it last; which of the two wakes up then, Spurious leaves open.
TellsAndGoes(t, owners, place) ==
  /\ asleep' = asleep \ owners
  /\ Goes(t, IF None \in owners THEN "died" ELSE place)

\* markBad_: the client is of no use any more, and everybody is told.
FailsAndMarksBad(t, map) ==
  /\ stop_' = TRUE /\ wakeupSomeone_' = TRUE
  /\ TellsAndGoes(t, {e.owner : e \in map}, "failed")

-----------------------------------------------------------------------------
\* Sending.

NextSeqId == IF nextseqid_ = MaxSeqId THEN MinSeqId ELSE nextseqid_ + 1

\* Faulty variant: an id that is in use is given out again.
NeverRepeats == FALSE

\* Only the smallest id in use is tested for repetition.
AboutToRepeat == \E e \in seqidToMonitorMap_ :
  e.id = nextseqid_ /\ \A f \in seqidToMonitorMap_ : e.id <= f.id

\* The entry whose id is given out to a second call: the code sees only the smallest.
Overtaken == {e \in seqidToMonitorMap_ :
  e.id = nextseqid_ /\ \E f \in seqidToMonitorMap_ : f.id < e.id}

\* generateSeqId, which refuses a dead connection.
generateSeqId(t) ==
  /\ step[t] = "idle" /\ Calls \notin {made[u] : u \in Thread}
  /\ made' = [made EXCEPT ![t] = Max({made[u] : u \in Thread}) + 1]
  /\ IF stop_ \/ AboutToRepeat
       THEN Goes(t, "failed") /\ UNCHANGED <<seqid, nextseqid_, seqidToMonitorMap_, reused>>
       ELSE /\ Goes(t, "numbered")
            /\ reused' = reused \cup {e.id : e \in Overtaken}
            /\ seqid' = [seqid EXCEPT ![t] = nextseqid_]
            /\ nextseqid_' = NextSeqId
            /\ seqidToMonitorMap_' = {e \in seqidToMonitorMap_ : e.id # nextseqid_}
                                       \cup {[id |-> nextseqid_, owner |-> t]}
  /\ UNCHANGED <<stop_, pending, wakeupSomeone_, mutexes, asleep, received, replies>>

BeginSend(t) ==
  /\ step[t] = "numbered" /\ writeMutex_ = None
  /\ writeMutex_' = t /\ Goes(t, "sending")
  /\ UNCHANGED <<stop_, nextseqid_, seqidToMonitorMap_, pending, wakeupSomeone_, readMutex_, asleep,
                 seqid, made, reused, received, replies>>

\* The server's answer is on its way from now on.  It may be the answer to a call nobody has made.
EndSend(t) ==
  /\ step[t] = "sending" /\ writeMutex_' = None
  /\ Goes(t, "sent")
  /\ \E id \in {seqid[t], NobodysId} :
       replies' = replies \cup {[id |-> id, caller |-> t, nth |-> made[t]]}
  /\ UNCHANGED <<stop_, nextseqid_, seqidToMonitorMap_, pending, wakeupSomeone_, readMutex_, asleep,
                 seqid, made, reused, received>>

\* The send sentry marks the client bad without the read mutex; the id stays in
\* the map.
SendFails(t) ==
  /\ step[t] = "sending" /\ writeMutex_' = None
  /\ FailsAndMarksBad(t, seqidToMonitorMap_)
  /\ UNCHANGED <<nextseqid_, seqidToMonitorMap_, pending, readMutex_, seqid, made, reused, received,
                 replies>>

-----------------------------------------------------------------------------
\* Receiving.

BeginReceive(t) ==
  /\ step[t] = "sent" /\ readMutex_ = None
  /\ readMutex_' = t /\ Goes(t, "receiving")
  /\ UNCHANGED <<stop_, nextseqid_, seqidToMonitorMap_, pending, wakeupSomeone_, writeMutex_, asleep,
                 seqid, made, reused, received, replies>>

MapWithout(t) == {e \in seqidToMonitorMap_ : e.id # seqid[t]}

\* An exception leaves the loop: the receive sentry was not committed.
Throws(t) ==
  /\ readMutex_' = None
  /\ seqidToMonitorMap_' = MapWithout(t)
  /\ FailsAndMarksBad(t, MapWithout(t))
  /\ UNCHANGED <<nextseqid_, writeMutex_, seqid, made, reused, received>>

\* Faulty variant: a finished caller wakes nobody.
WakesNobody(map) == {}

\* The thread with the largest id is woken to read.
WokenOf(map) == {e.owner : e \in {e \in map : \A f \in map : f.id <= e.id}}

\* The sentry after commit: wakeupAnyone_.
Returns(t, message) ==
  /\ readMutex_' = None
  /\ received' = [received EXCEPT ![t] = message]
  /\ seqidToMonitorMap_' = MapWithout(t)
  /\ wakeupSomeone_' = TRUE
  /\ TellsAndGoes(t, WokenOf(MapWithout(t)), "idle")
  /\ UNCHANGED <<stop_, nextseqid_, writeMutex_, seqid, made, reused>>

\* waitForWork looks its monitor up, which enters a null one for an id that another call with it has
\* taken out.
LookedUp(t) ==
  seqidToMonitorMap_ \cup
    (IF seqid[t] \in Ids(seqidToMonitorMap_) THEN {} ELSE {[id |-> seqid[t], owner |-> None]})

\* updatePending, and into waitForWork; a reply nobody waits for throws.
HandOver(t, message) ==
  /\ recvPending_' = TRUE /\ pendingMessage_' = message
  /\ IF message.id \in Ids(seqidToMonitorMap_)
       THEN /\ seqidToMonitorMap_' = LookedUp(t)
            /\ LET place == IF OwnerOf(LookedUp(t), seqid[t]) = {None} THEN "unmonitored"
                            ELSE "checking"
               IN TellsAndGoes(t, OwnerOf(seqidToMonitorMap_, message.id), place)
            /\ UNCHANGED <<stop_, nextseqid_, mutexes, seqid, made, reused, received>>
       ELSE Throws(t)

\* getPending.
getPending(t) ==
  /\ step[t] = "receiving"
  /\ IF stop_ THEN Throws(t) /\ UNCHANGED <<pending, replies>>
     ELSE \/ /\ ~recvPending_
             /\ wakeupSomeone_' = FALSE /\ Goes(t, "reading")
             /\ UNCHANGED <<stop_, nextseqid_, seqidToMonitorMap_, pending, mutexes, asleep, seqid,
                            made, reused, received, replies>>
          \/ /\ recvPending_ /\ pendingMessage_.id = seqid[t]
             /\ Returns(t, pendingMessage_)
             /\ recvPending_' = FALSE /\ UNCHANGED <<pendingMessage_, replies>>
          \/ /\ recvPending_ /\ pendingMessage_.id # seqid[t]
             /\ wakeupSomeone_' = FALSE
             /\ HandOver(t, pendingMessage_)
             /\ UNCHANGED replies

\* The next reply is read from the connection.
ReadReply(t, message) ==
  /\ step[t] = "reading" /\ message \in replies
  /\ replies' = replies \ {message}
  /\ IF message.id = seqid[t]
       THEN Returns(t, message) /\ UNCHANGED pending
       ELSE /\ HandOver(t, message)
            /\ message.id \in Ids(seqidToMonitorMap_) => UNCHANGED wakeupSomeone_

\* Reading fails, or the reply of the call is not what it should be.
ReadFails(t) ==
  /\ step[t] = "reading"
  /\ Throws(t) /\ UNCHANGED <<pending, replies>>

\* The conditions of waitForWork; to wait on a null monitor ends the process.
Check(t) ==
  /\ step[t] \in {"checking", "unmonitored"}
  /\ IF stop_ THEN Throws(t) /\ UNCHANGED <<pending, replies>>
     ELSE /\ Goes(t, IF wakeupSomeone_ \/ (recvPending_ /\ pendingMessage_.id = seqid[t])
                       THEN "receiving"
                     ELSE IF step[t] = "unmonitored" THEN "died" ELSE "dozing")
          /\ UNCHANGED <<stop_, nextseqid_, seqidToMonitorMap_, pending, wakeupSomeone_, mutexes, asleep,
                         seqid, made, reused, received, replies>>

\* Only the read mutex protects the way from the test to the wait.
Sleep(t) ==
  /\ step[t] = "dozing" /\ Goes(t, "waiting")
  /\ asleep' = asleep \cup {t} /\ readMutex_' = None
  /\ UNCHANGED <<stop_, nextseqid_, seqidToMonitorMap_, pending, wakeupSomeone_, writeMutex_, seqid,
                 made, reused, received, replies>>

WakeUp(t) ==
  /\ step[t] = "waiting" /\ t \notin asleep /\ readMutex_ = None
  /\ readMutex_' = t /\ Goes(t, "checking")
  /\ UNCHANGED <<stop_, nextseqid_, seqidToMonitorMap_, pending, wakeupSomeone_, writeMutex_, asleep,
                 seqid, made, reused, received, replies>>

Spurious(t) ==
  /\ t \in asleep /\ asleep' = asleep \ {t}
  /\ UNCHANGED <<stop_, nextseqid_, seqidToMonitorMap_, pending, wakeupSomeone_, mutexes, calls, replies>>

Calling(t) ==
  \/ BeginSend(t) \/ EndSend(t) \/ BeginReceive(t) \/ getPending(t)
  \/ Check(t) \/ Sleep(t) \/ WakeUp(t)
  \/ \E m \in replies : ReadReply(t, m)

SyncNext ==
  /\ Alive
  /\ \E t \in Thread : generateSeqId(t) \/ Calling(t) \/ SendFails(t) \/ ReadFails(t) \/ Spurious(t)

\* Threads run, sends come to an end, and the server's answers arrive; a thread that
\* wants the read mutex gets it at last, though others wake up spuriously.
SyncFairness ==
  \A t \in Thread : /\ WF_syncVars(Alive /\ Calling(t))
                     /\ SF_syncVars(Alive /\ (BeginReceive(t) \/ WakeUp(t)))

SyncSpec == SyncInit /\ [][SyncNext]_syncVars /\ SyncFairness
-----------------------------------------------------------------------------

SyncTypeOK ==
  /\ {stop_, recvPending_, wakeupSomeone_} \subseteq BOOLEAN
  /\ nextseqid_ \in MinSeqId..MaxSeqId
  /\ \A e \in seqidToMonitorMap_ : e.id \in MinSeqId..MaxSeqId /\ e.owner \in Thread \cup {None}
  /\ {readMutex_, writeMutex_} \subseteq Thread \cup {None} /\ asleep \subseteq Thread
  /\ step \in [Thread -> {"idle", "numbered", "sending", "sent", "receiving", "reading", "checking",
                          "unmonitored", "dozing", "waiting", "failed", "died"}]
  /\ seqid \in [Thread -> MinSeqId..MaxSeqId] /\ made \in [Thread -> 0..Calls]

\* A call returns the reply to its own request and to no other, whoever has read it from the
\* connection and however often the ids have rolled over.  Only under an id that generateSeqId has
\* given out although it was in use, and not the smallest in use, two calls may take each other's.
OwnReply ==
  \A t \in Thread : received[t] # None /\ received[t].id \notin reused =>
    received[t].caller = t /\ (step[t] = "idle" => received[t].nth = made[t])

\* All calls end, each with its reply or because the connection is dead: no thread is left asleep when
\* the threads that would have woken it are gone.  It takes a server that answers; a wrong answer ends
\* all calls.  Not so when two calls have had one id: the monitor of one is lost, and it may sleep for
\* ever.
CallsEnd ==
  (\E t \in Thread : step[t] = "numbered") ~>
    (reused # {} \/ \A t \in Thread : step[t] \in {"idle", "failed"})
=============================================================================
