------------------------- MODULE NonblockingServer -------------------------
(***************************************************************************)
(* TNonblockingServer: IO threads that run libevent loops, of which the    *)
(* first also accepts, connection objects that are used again and again, a *)
(* pool of workers, and the pipe of each IO thread, over which a pointer   *)
(* to a connection tells it to call transition().                          *)
(*                                                                         *)
(* A handler of an event runs in one piece up to where it may block: at    *)
(* connMutex_, and at the write to a pipe, which waits for room.  The pool *)
(* is the one of ThreadManager with no limit on its queue.                 *)
(***************************************************************************)
EXTENDS Integers, Sequences, FiniteSets

CONSTANTS
  Senders,     \* how many connect, one after the other
  Addresses,   \* how many connection objects there is memory for
  Requests,    \* the frames a peer sends at most
  IOThreads,   \* numIOThreads_
  Worker,
  PipeSize,    \* the pointers a pipe has room for
  StackLimit,  \* connectionStackLimit_
  MaxActive, MaxConns,   \* maxActiveProcessors_, maxConnections_
  None

Sender == 1 .. Senders
Conn == 1 .. Addresses
Thread == 0 .. IOThreads - 1

\* What the constants are assumed to be.
IOThreadsAssumption ==
  /\ IOThreads \in Nat \ {0} /\ {Senders, Addresses, Requests, PipeSize} \subseteq Nat
  /\ Worker \cap Thread = {}
  /\ None \notin Conn \cup Thread \cup Sender

VARIABLES
  threadPoolProcessing_, overloadAction_,
  come,         \* the peers that have connected
  unsent,       \* the frames a peer has yet to send
  appState_, eventFlags_, ioThread_, tSocket_,   \* of a connection
  request,      \* whose request is in its input buffer
  output,       \* whose reply is in its output buffer
  activeConnections_, connectionStack_, numTConnections_, nextIOThread_,
  numActiveProcessors_, overloaded_,
  connMutex_,   \* who holds it while it waits for room in a pipe
  accepted,     \* the peer that IO thread 0 has accepted
  writing,      \* for each thread, the connection whose pointer it is writing
  loop, pipe,   \* of each IO thread
  stops,        \* the IO threads that stop() has told
  tasks_, running, poolStopped

peers == <<come, unsent>>
connections == <<appState_, eventFlags_, ioThread_, tSocket_, request, output>>
objects == <<activeConnections_, connectionStack_, numTConnections_>>
pool == <<tasks_, running, poolStopped>>
nbVars == <<threadPoolProcessing_, overloadAction_, peers, connections, objects, nextIOThread_,
            numActiveProcessors_, overloaded_, connMutex_, accepted, writing, loop, pipe, stops,
            pool>>

Stop == 0   \* the null pointer

NonblockingInit ==
  /\ threadPoolProcessing_ \in BOOLEAN /\ overloadAction_ \in {"none", "close", "drain"}
  /\ come = 0 /\ unsent = [p \in Sender |-> Requests]
  /\ appState_ = [c \in Conn |-> "INIT"] /\ eventFlags_ = [c \in Conn |-> "idle"]
  /\ ioThread_ = [c \in Conn |-> None] /\ tSocket_ = [c \in Conn |-> None]
  /\ request = [c \in Conn |-> None] /\ output = [c \in Conn |-> None]
  /\ activeConnections_ = {} /\ connectionStack_ = << >> /\ numTConnections_ = 0
  /\ nextIOThread_ = 0 /\ numActiveProcessors_ = 0 /\ overloaded_ = FALSE
  /\ connMutex_ = None /\ accepted = None
  /\ writing = [t \in Thread \cup Worker |-> None]
  /\ loop = [i \in Thread |-> "starting"] /\ pipe = [i \in Thread |-> << >>] /\ stops = {}
  /\ tasks_ = << >> /\ running = [w \in Worker |-> None] /\ poolStopped = FALSE

\* IO thread i is between two events.
Looping(i) == loop[i] = "looping" /\ writing[i] = None /\ (i = 0 => accepted = None)
Unlocked == connMutex_ = None

\* Faulty variant: forceClose counts the connection out as well.
DecrementedTwice(n) == IF n > 1 THEN n - 2 ELSE 0

Decremented(n) == IF n > 0 THEN n - 1 ELSE 0

-----------------------------------------------------------------------------
\* What the program does to the server.

\* stop(), which goes through the IO threads; one without a pipe hears nothing.
StopThread(i) ==
  /\ i \notin stops /\ (i > 0 => i - 1 \in stops)
  /\ stops' = stops \cup {i}
  /\ IF loop[i] = "starting" THEN UNCHANGED pipe
     ELSE Len(pipe[i]) < PipeSize /\ pipe' = [pipe EXCEPT ![i] = Append(@, Stop)]
  /\ UNCHANGED <<threadPoolProcessing_, overloadAction_, peers, connections, objects,
                 nextIOThread_, numActiveProcessors_, overloaded_, connMutex_, accepted, writing,
                 loop, pool>>

\* The thread manager is stopped under the server.  (Not where tasks are drained
\* of: there the exception of removeNextPending would leave libevent.)
StopPool ==
  /\ overloadAction_ # "drain" /\ ~poolStopped /\ poolStopped' = TRUE
  /\ UNCHANGED <<threadPoolProcessing_, overloadAction_, peers, connections, objects,
                 nextIOThread_, numActiveProcessors_, overloaded_, connMutex_, accepted, writing,
                 loop, pipe, stops, tasks_, running>>

-----------------------------------------------------------------------------
\* close() and the object's way back.

ReturnConnection(c) ==
  /\ activeConnections_' = activeConnections_ \ {c}
  /\ IF StackLimit > 0 /\ Len(connectionStack_) >= StackLimit
     THEN numTConnections_' = numTConnections_ - 1 /\ UNCHANGED connectionStack_
     ELSE connectionStack_' = <<c>> \o connectionStack_ /\ UNCHANGED numTConnections_

Close(c) ==
  /\ eventFlags_' = [eventFlags_ EXCEPT ![c] = "idle"]
  /\ ioThread_' = [ioThread_ EXCEPT ![c] = None]
  /\ ReturnConnection(c)
  /\ UNCHANGED <<peers, tSocket_, request, output>>

-----------------------------------------------------------------------------
\* IO thread 0 accepts.

Registers(i) ==
  /\ loop[i] = "starting" /\ loop' = [loop EXCEPT ![i] = "looping"]
  /\ UNCHANGED <<threadPoolProcessing_, overloadAction_, peers, connections, objects,
                 nextIOThread_, numActiveProcessors_, overloaded_, connMutex_, accepted, writing,
                 pipe, stops, pool>>

\* An overload lasts until both numbers are below 0.8 of their limits.
ServerOverloaded ==
  LET active == numTConnections_ - Len(connectionStack_)
      over == numActiveProcessors_ > MaxActive \/ active > MaxConns
      stillHigh == \/ 10 * numActiveProcessors_ > 8 * MaxActive
                   \/ 10 * active > 8 * MaxConns
  IN  over \/ (overloaded_ /\ stillHigh)

Overload == overloadAction_ # "none" /\ ServerOverloaded

\* handleEvent, up to createConnection.
Accept(p) ==
  /\ Looping(0) /\ p = come + 1 /\ Unlocked
  /\ come' = p
  /\ overloaded_' = IF overloadAction_ = "none" THEN overloaded_ ELSE ServerOverloaded
  /\ \/ /\ ~Overload /\ accepted' = p
        /\ UNCHANGED <<tasks_, appState_, writing, connMutex_>>
     \/ /\ Overload /\ (overloadAction_ = "close" \/ tasks_ = << >>)
        /\ UNCHANGED <<accepted, tasks_, appState_, writing, connMutex_>>
     \/ /\ Overload /\ overloadAction_ = "drain" /\ tasks_ # << >>
        /\ accepted' = p /\ tasks_' = Tail(tasks_)
        /\ appState_' = [appState_ EXCEPT ![Head(tasks_)] = "CLOSE_CONNECTION"]
        /\ writing' = [writing EXCEPT ![0] = Head(tasks_)]
        /\ connMutex_' = 0
  /\ UNCHANGED <<threadPoolProcessing_, overloadAction_, unsent, eventFlags_, ioThread_,
                 tSocket_, request, output, objects, nextIOThread_, numActiveProcessors_, loop,
                 pipe, stops, running, poolStopped>>

Allocated == activeConnections_ \cup {connectionStack_[k] : k \in DOMAIN connectionStack_}

\* The object for a new connection: the top of the stack, or a new one.
Reused(c) == connectionStack_ # << >> /\ c = Head(connectionStack_)
Fresh(c) ==
  /\ connectionStack_ = << >>
  /\ c \in Conn \ Allocated /\ 1 .. c - 1 \subseteq Allocated

\* createConnection, and the first transition() or what makes its IO thread call
\* it.  An IO thread that has not registered has no pipe: the connection is
\* closed.
CreateConnection(c) ==
  LET p == accepted
      i == nextIOThread_
  IN  /\ p # None /\ writing[0] = None /\ Unlocked
      /\ Reused(c) \/ Fresh(c)
      /\ accepted' = None /\ nextIOThread_' = (i + 1) % IOThreads
      /\ tSocket_' = [tSocket_ EXCEPT ![c] = p]
      /\ IF i > 0 /\ loop[i] = "starting"
         THEN /\ appState_' = [appState_ EXCEPT ![c] = "INIT"]
              /\ connectionStack_' = (IF Reused(c) THEN connectionStack_ ELSE <<c>>)
              /\ UNCHANGED <<activeConnections_, ioThread_, eventFlags_, writing>>
         ELSE /\ activeConnections_' = activeConnections_ \cup {c}
              /\ connectionStack_' = (IF Reused(c) THEN Tail(connectionStack_) ELSE << >>)
              /\ ioThread_' = [ioThread_ EXCEPT ![c] = i]
              /\ IF i = 0
                 THEN /\ appState_' = [appState_ EXCEPT ![c] = "READ_FRAME_SIZE"]
                      /\ eventFlags_' = [eventFlags_ EXCEPT ![c] = "read"]
                      /\ UNCHANGED writing
                 ELSE /\ appState_' = [appState_ EXCEPT ![c] = "INIT"]
                      /\ writing' = [writing EXCEPT ![0] = c]
                      /\ UNCHANGED eventFlags_
      /\ numTConnections_' = IF Fresh(c) THEN numTConnections_ + 1 ELSE numTConnections_
      /\ UNCHANGED <<threadPoolProcessing_, overloadAction_, peers, request, output,
                     numActiveProcessors_, overloaded_, connMutex_, loop, pipe, stops, pool>>

-----------------------------------------------------------------------------
\* The events of a connection.

\* Something to read has come.
Readable(i, c, state) ==
  /\ Looping(i) /\ ioThread_[c] = i /\ eventFlags_[c] = "read" /\ appState_[c] = state
  /\ unsent[tSocket_[c]] > 0

ReadSize(i, c) ==
  /\ Readable(i, c, "READ_FRAME_SIZE")
  /\ appState_' = [appState_ EXCEPT ![c] = "READ_REQUEST"]
  /\ UNCHANGED <<threadPoolProcessing_, overloadAction_, peers, eventFlags_, ioThread_, tSocket_,
                 request, output, objects, nextIOThread_, numActiveProcessors_, overloaded_,
                 connMutex_, accepted, writing, loop, pipe, stops, pool>>

\* Faulty variant: the connection goes on listening.
ListensWhileWaiting == "read"

\* What a connection is registered for while a task has it.
FlagsOfWaiting == "idle"

\* Faulty variant: what the last request wrote stays in it.
KeepsOutput(c) == output

\* The output buffer is emptied before the processor gets it.
OutputReset(c) == [output EXCEPT ![c] = None]

\* transition() with a request, and a pool to give it to.
GiveToPool(i, c) ==
  /\ Readable(i, c, "READ_REQUEST") /\ threadPoolProcessing_ /\ ~poolStopped /\ Unlocked
  /\ unsent' = [unsent EXCEPT ![tSocket_[c]] = @ - 1]
  /\ request' = [request EXCEPT ![c] = tSocket_[c]]
  /\ output' = OutputReset(c)
  /\ numActiveProcessors_' = numActiveProcessors_ + 1
  /\ appState_' = [appState_ EXCEPT ![c] = "WAIT_TASK"]
  /\ eventFlags_' = [eventFlags_ EXCEPT ![c] = FlagsOfWaiting]
  /\ tasks_' = Append(tasks_, c)
  /\ UNCHANGED <<threadPoolProcessing_, overloadAction_, come, ioThread_, tSocket_,
                 objects, nextIOThread_, overloaded_, connMutex_, accepted, writing, loop, pipe,
                 stops, running, poolStopped>>

\* ... and with none: the processor runs here.  It replies or the call is oneway.
Process(i, c) ==
  /\ Readable(i, c, "READ_REQUEST") /\ ~threadPoolProcessing_ /\ Unlocked
  /\ unsent' = [unsent EXCEPT ![tSocket_[c]] = @ - 1]
  /\ request' = [request EXCEPT ![c] = tSocket_[c]]
  /\ \/ /\ output' = [OutputReset(c) EXCEPT ![c] = tSocket_[c]]
        /\ appState_' = [appState_ EXCEPT ![c] = "SEND_RESULT"]
        /\ eventFlags_' = [eventFlags_ EXCEPT ![c] = "write"]
     \/ /\ output' = OutputReset(c)
        /\ appState_' = [appState_ EXCEPT ![c] = "READ_FRAME_SIZE"]
        /\ UNCHANGED eventFlags_
  /\ UNCHANGED <<threadPoolProcessing_, overloadAction_, come, ioThread_, tSocket_,
                 objects, nextIOThread_, numActiveProcessors_, overloaded_, connMutex_, accepted,
                 writing, loop, pipe, stops, pool>>

\* The reply has gone: on to the next request.
Sent(i, c) ==
  /\ Looping(i) /\ ioThread_[c] = i /\ eventFlags_[c] = "write"
  /\ appState_' = [appState_ EXCEPT ![c] = "READ_FRAME_SIZE"]
  /\ eventFlags_' = [eventFlags_ EXCEPT ![c] = "read"]
  /\ UNCHANGED <<threadPoolProcessing_, overloadAction_, peers, ioThread_, tSocket_, request,
                 output, objects, nextIOThread_, numActiveProcessors_, overloaded_, connMutex_,
                 accepted, writing, loop, pipe, stops, pool>>

\* The socket fails, the peer has gone, the frame is too large or too short, the
\* processor throws or the pool refuses: nothing of it stays counted.
Fails(i, c) ==
  /\ Looping(i) /\ ioThread_[c] = i /\ eventFlags_[c] # "idle" /\ Unlocked
  /\ Close(c)
  /\ UNCHANGED <<threadPoolProcessing_, overloadAction_, appState_, nextIOThread_,
                 numActiveProcessors_, overloaded_, connMutex_, accepted, writing, loop, pipe,
                 stops, pool>>

-----------------------------------------------------------------------------
\* The pipes.

\* Faulty variant: the mutex stays locked after a task was drained.
NeverReleased(t) == connMutex_

Released(t) == IF connMutex_ = t THEN None ELSE connMutex_

\* notify: waits for room.
Notify(t) ==
  /\ writing[t] # None
  /\ LET c == writing[t] IN
     /\ Len(pipe[ioThread_[c]]) < PipeSize
     /\ pipe' = [pipe EXCEPT ![ioThread_[c]] = Append(@, c)]
  /\ writing' = [writing EXCEPT ![t] = None]
  /\ connMutex_' = Released(t)
  /\ UNCHANGED <<threadPoolProcessing_, overloadAction_, peers, connections, objects,
                 nextIOThread_, numActiveProcessors_, overloaded_, accepted, loop, stops, pool>>

\* notifyHandler's next pointer.
Notified(i, state) ==
  /\ Looping(i) /\ pipe[i] # << >> /\ Head(pipe[i]) # Stop
  /\ appState_[Head(pipe[i])] = state
  /\ pipe' = [pipe EXCEPT ![i] = Tail(@)]

NotifiedFresh(i) ==
  /\ Notified(i, "INIT")
  /\ appState_' = [appState_ EXCEPT ![Head(pipe[i])] = "READ_FRAME_SIZE"]
  /\ eventFlags_' = [eventFlags_ EXCEPT ![Head(pipe[i])] = "read"]
  /\ UNCHANGED <<threadPoolProcessing_, overloadAction_, peers, ioThread_, tSocket_, request,
                 output, objects, nextIOThread_, numActiveProcessors_, overloaded_, connMutex_,
                 accepted, writing, loop, stops, pool>>

\* The task is done: send what it wrote, if anything.
NotifiedDone(i) ==
  /\ Notified(i, "WAIT_TASK") /\ Unlocked
  /\ numActiveProcessors_' = Decremented(numActiveProcessors_)
  /\ LET c == Head(pipe[i])
         replies == output[c] # None
     IN  /\ appState_' = [appState_ EXCEPT ![c] =
                            IF replies THEN "SEND_RESULT" ELSE "READ_FRAME_SIZE"]
         /\ eventFlags_' = [eventFlags_ EXCEPT ![c] = IF replies THEN "write" ELSE "read"]
  /\ UNCHANGED <<threadPoolProcessing_, overloadAction_, peers, ioThread_, tSocket_, request,
                 output, objects, nextIOThread_, overloaded_, connMutex_, accepted, writing, loop,
                 stops, pool>>

NotifiedClose(i) ==
  /\ Notified(i, "CLOSE_CONNECTION") /\ Unlocked
  /\ numActiveProcessors_' = Decremented(numActiveProcessors_)
  /\ Close(Head(pipe[i]))
  /\ UNCHANGED <<threadPoolProcessing_, overloadAction_, appState_, nextIOThread_, overloaded_,
                 connMutex_, accepted, writing, loop, stops, pool>>

NotifiedStop(i) ==
  /\ Looping(i) /\ pipe[i] # << >> /\ Head(pipe[i]) = Stop
  /\ pipe' = [pipe EXCEPT ![i] = Tail(@)] /\ loop' = [loop EXCEPT ![i] = "ended"]
  /\ UNCHANGED <<threadPoolProcessing_, overloadAction_, peers, connections, objects,
                 nextIOThread_, numActiveProcessors_, overloaded_, connMutex_, accepted, writing,
                 stops, pool>>

-----------------------------------------------------------------------------
\* The workers.

Idle(w) == running[w] = None /\ writing[w] = None

TakeTask(w) ==
  /\ Idle(w) /\ tasks_ # << >>
  /\ running' = [running EXCEPT ![w] = Head(tasks_)] /\ tasks_' = Tail(tasks_)
  /\ UNCHANGED <<threadPoolProcessing_, overloadAction_, peers, connections, objects,
                 nextIOThread_, numActiveProcessors_, overloaded_, connMutex_, accepted, writing,
                 loop, pipe, stops, poolStopped>>

\* A task that waited too long: expireClose instead of run.
Expire(w) ==
  /\ Idle(w) /\ tasks_ # << >>
  /\ tasks_' = Tail(tasks_)
  /\ appState_' = [appState_ EXCEPT ![Head(tasks_)] = "CLOSE_CONNECTION"]
  /\ writing' = [writing EXCEPT ![w] = Head(tasks_)]
  /\ UNCHANGED <<threadPoolProcessing_, overloadAction_, peers, eventFlags_, ioThread_, tSocket_,
                 request, output, objects, nextIOThread_, numActiveProcessors_, overloaded_,
                 connMutex_, accepted, loop, pipe, stops, running, poolStopped>>

\* Task::run: a reply, or none: the call is oneway or an exception was caught.
Finish(w) ==
  /\ running[w] # None
  /\ LET c == running[w] IN
     /\ output' \in {output, [output EXCEPT ![c] = request[c]]}
     /\ writing' = [writing EXCEPT ![w] = c]
  /\ running' = [running EXCEPT ![w] = None]
  /\ UNCHANGED <<threadPoolProcessing_, overloadAction_, peers, appState_, eventFlags_, ioThread_,
                 tSocket_, request, objects, nextIOThread_, numActiveProcessors_, overloaded_,
                 connMutex_, accepted, loop, pipe, stops, tasks_, poolStopped>>

-----------------------------------------------------------------------------
Looks(i) == \E c \in Conn : ReadSize(i, c) \/ GiveToPool(i, c) \/ Process(i, c) \/ Sent(i, c)
Hears(i) == NotifiedFresh(i) \/ NotifiedDone(i) \/ NotifiedClose(i) \/ NotifiedStop(i)
Creates == \E c \in Conn : CreateConnection(c)
Works(w) == TakeTask(w) \/ Finish(w) \/ Notify(w)

NonblockingNext ==
  \/ \E p \in Sender : Accept(p)
  \/ \E i \in Thread : \/ StopThread(i) \/ Registers(i) \/ Looks(i) \/ Notify(i) \/ Hears(i)
                       \/ \E c \in Conn : Fails(i, c)
  \/ \E w \in Worker : Works(w) \/ Expire(w)
  \/ StopPool \/ Creates

\* The threads are scheduled and libevent gets round to every event that is ready.
NonblockingFairness ==
  /\ \A i \in Thread : WF_nbVars(Hears(i)) /\ WF_nbVars(Notify(i))
  /\ \A w \in Worker : WF_nbVars(Works(w))
  /\ WF_nbVars(Creates)

NonblockingSpec == NonblockingInit /\ [][NonblockingNext]_nbVars /\ NonblockingFairness

-----------------------------------------------------------------------------
NonblockingTypeOK ==
  /\ come \in 0 .. Senders /\ unsent \in [Sender -> 0 .. Requests]
  /\ appState_ \in [Conn -> {"INIT", "READ_FRAME_SIZE", "READ_REQUEST", "WAIT_TASK",
                             "SEND_RESULT", "CLOSE_CONNECTION"}]
  /\ eventFlags_ \in [Conn -> {"idle", "read", "write"}]
  /\ ioThread_ \in [Conn -> Thread \cup {None}] /\ tSocket_ \in [Conn -> Sender \cup {None}]
  /\ request \in [Conn -> Sender \cup {None}] /\ output \in [Conn -> Sender \cup {None}]
  /\ numTConnections_ = Cardinality(Allocated)
  /\ Cardinality(Allocated) = Cardinality(activeConnections_) + Len(connectionStack_)
  /\ connMutex_ \in {0, None} /\ accepted \in Sender \cup {None}
  /\ writing \in [Thread \cup Worker -> Conn \cup {None}]
  /\ \A i \in Thread : Len(pipe[i]) <= PipeSize
  /\ running \in [Worker -> Conn \cup {None}]

\* Where the pointer to a connection is: with libevent, in the queue of the
\* pool, with a worker, with a thread that writes it to a pipe, in a pipe.
Holders(c) ==
  {<<"event">> : e \in {c} \ {d \in Conn : eventFlags_[d] = "idle"}}
    \cup {<<"queue", k>> : k \in {k \in DOMAIN tasks_ : tasks_[k] = c}}
    \cup {<<"worker", w>> : w \in {w \in Worker : running[w] = c}}
    \cup {<<"writer", t>> : t \in {t \in DOMAIN writing : writing[t] = c}}
    \cup UNION {{<<"pipe", i, k>> : k \in {k \in DOMAIN pipe[i] : pipe[i][k] = c}} : i \in Thread}

\* A connection in use is in exactly one place, so that no two threads work on
\* it and none forgets it, and one that was closed is in none, so that the next
\* user of the object does not get its predecessor's notification.
OneHolder ==
  \A c \in Conn : Cardinality(Holders(c)) = IF c \in activeConnections_ THEN 1 ELSE 0

\* The count that decides about overload is the number of connections whose
\* request has gone to the pool and has not come back, whichever way it comes back:
\* done, expired or drained.
ProcessorsCounted ==
  numActiveProcessors_ =
    Cardinality({c \in activeConnections_ : appState_[c] \in {"WAIT_TASK", "CLOSE_CONNECTION"}})

\* What a connection sends is the reply to a request of the peer it sends it to,
\* although objects and their buffers go from one peer to the next.
ReplyToAsker ==
  \A c \in Conn : eventFlags_[c] = "write" => output[c] = tSocket_[c]

\* A thread waits for room in a pipe that nobody will empty: its IO thread has ended, or waits for
\* the mutex that the writer holds, or is the writer.
Wedged ==
  \E t \in Thread \cup Worker : writing[t] # None /\
    LET i == ioThread_[writing[t]]
    IN  Len(pipe[i]) = PipeSize /\ (loop[i] = "ended" \/ connMutex_ = t)

\* Where the IO threads go on, all requests that went to the pool come back, unless a thread waits
\* for ever for room in a pipe: handleEvent drains a task with connMutex_ held, and pipes fill up.
RequestsComeBack ==
  (numActiveProcessors_ > 0)
    ~> ([]Wedged \/ \A c \in activeConnections_ :
          appState_[c] \in {"WAIT_TASK", "CLOSE_CONNECTION"} => loop[ioThread_[c]] = "ended")
=============================================================================
