----------------------------- MODULE DurableLog -----------------------------
(***************************************************************************)
(* What a file that events are appended to promises: the events in the     *)
(* order they were given, each once, but for those that an error or a      *)
(* crash has spoiled; all that are durable after a crash, those that come  *)
(* later included; and a flush that returns when all events given before   *)
(* it are durable.                                                         *)
(***************************************************************************)
EXTENDS Naturals, Sequences

VARIABLES
  log,        \* what a reader of the file gets
  durable,    \* that part of it which a crash cannot take
  queue,      \* events given and not yet in the file
  flushing,   \* somebody waits for flush
  open,
  broken,     \* the file cannot be written at the moment
  spoilt,     \* the events that will not be found
  doubted     \* the last attempt to make the log durable has failed

logVars == <<log, durable, queue, flushing, open, broken, spoilt, doubted>>

Begins(s, t) == Len(s) <= Len(t) /\ SubSeq(t, 1, Len(s)) = s

LogInit ==
  /\ log = << >> /\ durable = << >> /\ queue = << >>
  /\ flushing = FALSE /\ open = TRUE /\ broken = FALSE /\ spoilt = {} /\ doubted = FALSE

\* The event stands in the queue, or is none that the file takes.
Give ==
  /\ open
  /\ \/ Len(queue') = Len(queue) + 1 /\ Begins(queue, queue')
     \/ queue' = queue
  /\ UNCHANGED <<log, durable, flushing, open, broken, spoilt, doubted>>

\* Only the event itself can be spoilt, none that stands in the log.
Write ==
  /\ queue # << >> /\ queue' = Tail(queue)
  /\ \/ log' = Append(log, Head(queue)) /\ UNCHANGED <<spoilt, broken>>
     \/ spoilt' = spoilt \cup {Head(queue)} /\ UNCHANGED log
  /\ UNCHANGED <<durable, flushing, open, doubted>>

Break == broken' = TRUE /\ UNCHANGED <<log, durable, queue, flushing, open, spoilt, doubted>>

Repair == broken' = FALSE /\ UNCHANGED <<log, durable, queue, flushing, open, spoilt, doubted>>

Sync ==
  /\ durable' = log /\ doubted' = FALSE
  /\ UNCHANGED <<log, queue, flushing, open, broken, spoilt>>

SyncFails == doubted' = TRUE /\ UNCHANGED <<log, durable, queue, flushing, open, broken, spoilt>>

Flush == open /\ flushing' = TRUE /\ UNCHANGED <<log, durable, queue, open, broken, spoilt, doubted>>

Flushed ==
  /\ flushing /\ queue = << >> /\ (durable = log \/ doubted)
  /\ flushing' = FALSE
  /\ UNCHANGED <<log, durable, queue, open, broken, spoilt, doubted>>

\* Closing leaves no event behind, unless the file is broken.
Close ==
  /\ open /\ ~flushing /\ open' = FALSE
  /\ \/ broken /\ UNCHANGED <<durable, doubted>>
     \/ queue = << >> /\ durable' = log /\ doubted' = FALSE
     \/ queue = << >> /\ doubted' = TRUE /\ UNCHANGED durable
  /\ UNCHANGED <<log, queue, flushing, broken, spoilt>>

\* A crash, or the next one that writes.
Reopen ==
  /\ queue' = << >> /\ flushing' = FALSE /\ open' = TRUE /\ broken' = FALSE
  /\ Begins(durable, durable') /\ Begins(durable', log') /\ Begins(log', log)
  /\ open => durable' = log'
  /\ doubted' => doubted
  /\ UNCHANGED spoilt

LogNext ==
  Give \/ Write \/ Break \/ Repair \/ Sync \/ SyncFails \/ Flush \/ Flushed \/ Close \/ Reopen

FlushReturns == flushing ~> (~flushing \/ broken)

LogSpec == LogInit /\ [][LogNext]_logVars /\ FlushReturns
=============================================================================
