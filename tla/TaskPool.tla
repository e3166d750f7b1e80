------------------------------ MODULE TaskPool ------------------------------
(***************************************************************************)
(* What a ThreadManager promises the users of its tasks: a task it has     *)
(* accepted is executed at most once, tasks start in the order in which    *)
(* they were accepted, and what is not executed was dropped: expired or    *)
(* removed (concurrency/ThreadManager.h).                                  *)
(***************************************************************************)
EXTENDS Naturals, Sequences, FiniteSets

CONSTANTS Task

VARIABLES pending, executing, finished, dropped

poolVars == <<pending, executing, finished, dropped>>

Accepted == {pending[i] : i \in DOMAIN pending} \cup executing \cup finished \cup dropped

Init == pending = << >> /\ executing = {} /\ finished = {} /\ dropped = {}

Submit(t) ==
  /\ t \notin Accepted
  /\ pending' = Append(pending, t)
  /\ UNCHANGED <<executing, finished, dropped>>

Begin ==
  /\ pending # << >>
  /\ pending' = Tail(pending)
  /\ executing' = executing \cup {Head(pending)}
  /\ UNCHANGED <<finished, dropped>>

Finish(t) ==
  /\ t \in executing
  /\ executing' = executing \ {t}
  /\ finished' = finished \cup {t}
  /\ UNCHANGED <<pending, dropped>>

\* The first n tasks of the new queue are those of the old that are not in D, in
\* their order.
Keeps(n, D) ==
  \E f \in [1..n -> {i \in DOMAIN pending : pending[i] \notin D}] :
    /\ \A i, j \in 1..n : i < j => f[i] < f[j]
    /\ \A k \in DOMAIN pending : pending[k] \in D \/ \E i \in 1..n : f[i] = k
    /\ \A i \in 1..n : pending'[i] = pending[f[i]]

\* Any pending tasks may be dropped together, or none; the others keep their order.
Drop(D) ==
  /\ D \subseteq {pending[i] : i \in DOMAIN pending}
  /\ pending' \in Seq(Task) /\ Keeps(Len(pending'), D)
  /\ dropped' = dropped \cup D
  /\ UNCHANGED <<executing, finished>>

\* A worker ends one task and takes the next while it holds the lock; a task
\* may replace one that has expired.
FinishAndGoOn(t) ==
  /\ t \in executing /\ pending # << >>
  /\ finished' = finished \cup {t}
  /\ pending' = Tail(pending)
  /\ \/ executing' = (executing \ {t}) \cup {Head(pending)} /\ dropped' = dropped
     \/ executing' = executing \ {t} /\ dropped' = dropped \cup {Head(pending)}

SubmitForExpired(t, d) ==
  /\ t \notin Accepted /\ d \in {pending[i] : i \in DOMAIN pending}
  /\ pending' \in Seq(Task) \ {<< >>}
  /\ Keeps(Len(pending') - 1, {d}) /\ pending'[Len(pending')] = t
  /\ dropped' = dropped \cup {d}
  /\ UNCHANGED <<executing, finished>>

Next ==
  \/ \E t \in Task : Submit(t) \/ Finish(t) \/ FinishAndGoOn(t)
  \/ \E t, d \in Task : SubmitForExpired(t, d)
  \/ Begin
  \/ \E D \in SUBSET Task : Drop(D)

Spec == Init /\ [][Next]_poolVars
=============================================================================
