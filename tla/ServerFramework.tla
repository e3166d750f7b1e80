-------------------------- MODULE ServerFramework --------------------------
(***************************************************************************)
(* The blocking servers of the Thrift library: TServerFramework, which     *)
(* accepts clients and limits and counts them, and the three servers made  *)
(* of it: one thread per client, a pool of threads, or the accepting       *)
(* thread itself.  With the TServerSocket they accept from, the interrupt  *)
(* sockets stop() writes to, and the loop of a TConnectedClient.           *)
(*                                                                         *)
(* serve() runs in one thread, each client in one of its own or of the     *)
(* pool's, stop() and setConcurrentClientLimit() in others.  A             *)
(* TConnectedClient belongs to shared pointers; whoever drops the last one *)
(* disposes of it.                                                         *)
(***************************************************************************)
EXTENDS Integers, Sequences, FiniteSets

CONSTANTS
  Peer,       \* those who may connect, once each
  PoolSize,   \* the workers of the thread pool
  PoolQueue,  \* its pendingTaskCountMax
  Limits,     \* the values given to setConcurrentClientLimit
  Nobody

\* setConcurrentClientLimit refuses a limit below one.
ASSUME PeersAssumption == IsFiniteSet(Peer) /\ Limits \subseteq Nat \ {0}

VARIABLES
  kind,             \* which of the servers this is
  serving,          \* where serve() is
  current,          \* the client serve() has a pointer to
  clients_, hwm_, limit_,
  listening_,
  interruptByte,    \* a byte waits for accept
  childByte,        \* a byte, or the end of the stream, waits for all children
  stopping,         \* how far stop() has got
  heeded,           \* stop() found the sockets of both pairs open
  peer,             \* for each peer, its side of the connection
  client,           \* for each, the life of its TConnectedClient
  holders,          \* who holds a pointer to that
  disposer,         \* who is deleting it
  contexts,         \* the contexts that createContext made and nobody deleted
  leaked,           \* those that will never be: an exception went past cleanup()
  activeClientMap_, deadClientMap_,
  queue             \* the clients that wait for a worker

counting == <<clients_, hwm_, limit_>>
sockets == <<listening_, interruptByte, childByte>>
stopper == <<stopping, heeded>>
lives == <<peer, client, holders, disposer, contexts, leaked>>
maps == <<activeClientMap_, deadClientMap_>>
serverVars == <<kind, serving, current, counting, sockets, stopper, lives, maps, queue>>

Kinds == {"simple", "threaded", "pool"}

ServerInit ==
  /\ kind \in Kinds
  /\ serving = "new" /\ current = Nobody
  /\ clients_ = 0 /\ hwm_ = 0 /\ limit_ = (IF kind = "simple" THEN 1 ELSE Cardinality(Peer) + 1)
  /\ listening_ = FALSE /\ interruptByte = FALSE /\ childByte = FALSE
  /\ stopping = "no" /\ heeded = FALSE
  /\ peer = [p \in Peer |-> "away"] /\ client = [p \in Peer |-> "none"]
  /\ holders = [p \in Peer |-> {}] /\ disposer = [p \in Peer |-> Nobody]
  /\ contexts = {} /\ leaked = {}
  /\ activeClientMap_ = {} /\ deadClientMap_ = {} /\ queue = << >>

-----------------------------------------------------------------------------
\* The peers.

Connects(p) ==
  /\ peer[p] = "away" /\ listening_
  /\ peer' = [peer EXCEPT ![p] = "queued"]
  /\ UNCHANGED <<kind, serving, current, counting, sockets, stopper, client, holders, disposer,
                 contexts, leaked, maps, queue>>

Disconnects(p) ==
  /\ peer[p] = "connected"
  /\ peer' = [peer EXCEPT ![p] = "gone"]
  /\ UNCHANGED <<kind, serving, current, counting, sockets, stopper, client, holders, disposer,
                 contexts, leaked, maps, queue>>

-----------------------------------------------------------------------------
\* serve().

Listen ==
  /\ serving = "new" /\ serving' = "gate"
  /\ listening_' = TRUE
  /\ UNCHANGED <<kind, current, counting, interruptByte, childByte, stopper, lives, maps, queue>>

\* The wait for the number of clients to fall below the limit.
Gate ==
  /\ serving = "gate"
  /\ serving' = IF clients_ >= limit_ THEN "asleep" ELSE "accepting"
  /\ UNCHANGED <<kind, current, counting, sockets, stopper, lives, maps, queue>>

\* accept, which looks for an interruption first, and newlyConnectedClient's
\* count.
Accept(p) ==
  /\ serving = "accepting" /\ ~interruptByte /\ peer[p] = "queued"
  /\ serving' = "adding" /\ current' = p
  /\ clients_' = clients_ + 1
  /\ hwm_' = IF clients_ + 1 > hwm_ THEN clients_ + 1 ELSE hwm_
  /\ peer' = [peer EXCEPT ![p] = "connected"]
  /\ client' = [client EXCEPT ![p] = "made"]
  /\ holders' = [holders EXCEPT ![p] = {"server"}]
  /\ UNCHANGED <<kind, limit_, sockets, stopper, disposer, contexts, leaked, maps, queue>>

Interrupted ==
  /\ serving = "accepting" /\ interruptByte
  /\ serving' = "closing" /\ interruptByte' = FALSE
  /\ UNCHANGED <<kind, current, counting, listening_, childByte, stopper, lives, maps, queue>>

\* A time-out of accept is an UNKNOWN exception of the server socket, like any
\* other failure of it: the loop ends.
AcceptFails ==
  /\ serving = "accepting" /\ ~interruptByte
  /\ serving' = "closing"
  /\ UNCHANGED <<kind, current, counting, sockets, stopper, lives, maps, queue>>

\* TThreadedServer: the thread is started under the monitor of the maps; when it
\* cannot be, the map keeps it and with it the client.
AddThreaded(p) ==
  /\ serving = "adding" /\ current = p /\ kind = "threaded"
  /\ activeClientMap_' = activeClientMap_ \cup {p}
  /\ \/ /\ serving' = "releasing"
        /\ client' = [client EXCEPT ![p] = "reading"]
        /\ holders' = [holders EXCEPT ![p] = @ \cup {"runner"}]
        /\ contexts' = contexts \cup {p}
     \/ /\ serving' = "throwing"
        /\ holders' = [holders EXCEPT ![p] = @ \cup {"map"}]
        /\ UNCHANGED <<client, contexts>>
  /\ UNCHANGED <<kind, current, counting, sockets, stopper, peer, disposer, leaked,
                 deadClientMap_, queue>>

\* TThreadPoolServer: add waits for room in the pool's queue ...
AddToPool(p) ==
  /\ serving = "adding" /\ current = p /\ kind = "pool"
  /\ Len(queue) < PoolQueue
  /\ serving' = "releasing"
  /\ queue' = Append(queue, p)
  /\ holders' = [holders EXCEPT ![p] = @ \cup {"runner"}]
  /\ UNCHANGED <<kind, current, counting, sockets, stopper, peer, client, disposer, contexts,
                 leaked, maps>>

\* ... or, with a time-out, throws what serve() lets pass.
PoolRefuses ==
  /\ serving = "adding" /\ kind = "pool" /\ Len(queue) >= PoolQueue
  /\ serving' = "throwing"
  /\ UNCHANGED <<kind, current, counting, sockets, stopper, lives, maps, queue>>

\* TSimpleServer: serve() runs the client.
AddSimple(p) ==
  /\ serving = "adding" /\ current = p /\ kind = "simple" /\ client[p] = "made"
  /\ client' = [client EXCEPT ![p] = "reading"]
  /\ contexts' = contexts \cup {p}
  /\ UNCHANGED <<kind, serving, current, counting, sockets, stopper, peer, holders, disposer,
                 leaked, maps, queue>>

SimpleDone(p) ==
  /\ serving = "adding" /\ current = p /\ kind = "simple" /\ client[p] \in {"done", "escaped"}
  /\ serving' = IF client[p] = "escaped" THEN "throwing" ELSE "releasing"
  /\ UNCHANGED <<kind, current, counting, sockets, stopper, lives, maps, queue>>

-----------------------------------------------------------------------------
\* A client: TConnectedClient::run.

Busy == {p \in Peer : "runner" \in holders[p] /\ client[p] # "made"}

\* The task at the head of the pool's queue is executed, or has expired.
TakeTask ==
  /\ queue # << >> /\ Cardinality(Busy) < PoolSize
  /\ LET p == Head(queue)
     IN  \/ /\ client' = [client EXCEPT ![p] = "reading"]
            /\ contexts' = contexts \cup {p}
         \/ client' = [client EXCEPT ![p] = "expired"] /\ UNCHANGED contexts
  /\ queue' = Tail(queue)
  /\ UNCHANGED <<kind, serving, current, counting, sockets, stopper, peer, holders, disposer,
                 leaked, maps>>

\* A request is read only when no interruption waits.
RequestRead(p) ==
  /\ client[p] = "reading" /\ peer[p] = "connected" /\ ~childByte
  /\ client' = [client EXCEPT ![p] = "handling"]
  /\ UNCHANGED <<kind, serving, current, counting, sockets, stopper, peer, holders, disposer,
                 contexts, leaked, maps, queue>>

\* Faulty variant: the context is left to the destructor, which ignores it.
CleanupWithoutContext(p) ==
  /\ client' = [client EXCEPT ![p] = "done"]
  /\ peer' = [peer EXCEPT ![p] = "gone"]
  /\ UNCHANGED <<kind, serving, current, counting, sockets, stopper, holders, disposer, contexts,
                 leaked, maps, queue>>

\* cleanup(): the context is deleted and the connection closed.
Cleanup(p) ==
  /\ client' = [client EXCEPT ![p] = "done"]
  /\ contexts' = contexts \ {p}
  /\ peer' = [peer EXCEPT ![p] = "gone"]
  /\ UNCHANGED <<kind, serving, current, counting, sockets, stopper, holders, disposer, leaked,
                 maps, queue>>

ReadInterrupted(p) == client[p] = "reading" /\ (childByte \/ peer[p] = "gone") /\ Cleanup(p)

\* A time-out, or bytes that are no request.
ReadFails(p) == client[p] = "reading" /\ Cleanup(p)

\* process returns true, or it returns false or throws a TException.
Handled(p) ==
  /\ client[p] = "handling"
  /\ \/ /\ client' = [client EXCEPT ![p] = "reading"]
        /\ UNCHANGED <<kind, serving, current, counting, sockets, stopper, peer, holders,
                       disposer, contexts, leaked, maps, queue>>
     \/ Cleanup(p)

\* Any other exception passes through run(): it ends the process when the
\* thread is the client's own, and is logged by a worker of the pool.
HandlerEscapes(p) ==
  /\ client[p] = "handling"
  /\ IF kind = "threaded"
       THEN serving' = "terminated" /\ UNCHANGED <<client, leaked>>
       ELSE /\ client' = [client EXCEPT ![p] = "escaped"]
            /\ leaked' = leaked \cup {p}
            /\ UNCHANGED serving
  /\ UNCHANGED <<kind, current, counting, sockets, stopper, peer, holders, disposer, contexts,
                 maps, queue>>

-----------------------------------------------------------------------------
\* The end of a client.

\* A thread in deadClientMap_ that can be joined.
Ended(p) == "runner" \notin holders[p] /\ ~(client[p] = "leaving" /\ disposer[p] = "runner")

\* drainDeadClients: every thread in the map is joined.
Drained == \A q \in deadClientMap_ : Ended(q)

\* onClientDisconnected, and serve() told when the last client has gone.
Disconnected(p) ==
  IF kind = "threaded"
    THEN /\ Drained
         /\ deadClientMap_' = activeClientMap_ \cap {p}
         /\ activeClientMap_' = activeClientMap_ \ {p}
    ELSE UNCHANGED maps

Woken(where, told) == IF told /\ where = "asleep" THEN "gate" ELSE where

NoMoreClients(where) ==
  IF where = "drainAsleep" /\ kind = "threaded" /\ activeClientMap_' = {} THEN "draining" ELSE where

\* A pointer is dropped; with the last one disposeConnectedClient begins.
DropPointer(p, who) ==
  /\ holders' = [holders EXCEPT ![p] = @ \ {who}]
  /\ IF holders[p] = {who}
       THEN /\ client' = [client EXCEPT ![p] = "leaving"]
            /\ disposer' = [disposer EXCEPT ![p] = who]
            /\ peer' = [peer EXCEPT ![p] = "gone"]
            /\ Disconnected(p)
       ELSE UNCHANGED <<client, disposer, peer, maps>>
  /\ UNCHANGED <<kind, counting, sockets, stopper, contexts, leaked, queue>>

ServerDrops(p) ==
  /\ serving \in {"releasing", "throwing"} /\ current = p /\ "server" \in holders[p]
  /\ DropPointer(p, "server")
  /\ UNCHANGED <<serving, current>>

RunnerDrops(p) ==
  /\ client[p] \in {"done", "escaped", "expired"} /\ "runner" \in holders[p]
  /\ DropPointer(p, "runner")
  /\ serving' = NoMoreClients(serving)
  /\ UNCHANGED current

\* serve() has no pointer left and has finished disposing.
GoOn(p) ==
  /\ serving \in {"releasing", "throwing"} /\ current = p /\ "server" \notin holders[p]
  /\ ~(client[p] = "leaving" /\ disposer[p] = "server")
  /\ serving' = IF serving = "throwing" THEN "threw" ELSE "gate"
  /\ current' = Nobody
  /\ UNCHANGED <<kind, counting, sockets, stopper, lives, maps, queue>>

\* Faulty variant: the count is compared before it is decremented.
RoomBefore(count, limit) == limit - (count + 1) > 0

RoomNow(count, limit) == limit - count > 0

\* Faulty variant: the count is lowered by the server and by the client.
DeleteTwice(p) ==
  /\ client[p] = "leaving"
  /\ client' = [client EXCEPT ![p] = "deleted"]
  /\ clients_' = clients_ - 2
  /\ UNCHANGED <<kind, serving, current, hwm_, limit_, sockets, stopper, peer, holders, disposer,
                 contexts, leaked, maps, queue>>

\* The rest of disposeConnectedClient: the object deleted, the count lowered,
\* serve() told that there is room.
Delete(p) ==
  /\ client[p] = "leaving"
  /\ client' = [client EXCEPT ![p] = "deleted"]
  /\ clients_' = clients_ - 1
  /\ serving' = Woken(serving, RoomNow(clients_ - 1, limit_))
  /\ UNCHANGED <<kind, current, hwm_, limit_, sockets, stopper, peer, holders, disposer, contexts,
                 leaked, maps, queue>>

-----------------------------------------------------------------------------
\* The end of serve().

\* The server socket is closed, and with it the writing ends of both pairs: the
\* children read the end of the stream.
Close ==
  /\ serving = "closing"
  /\ serving' = IF kind = "simple" THEN "returned" ELSE "draining"
  /\ listening_' = FALSE /\ interruptByte' = FALSE /\ childByte' = TRUE
  /\ UNCHANGED <<kind, current, counting, stopper, lives, maps, queue>>

\* Faulty variant: serve() of the threaded server returns with the loop.
ReturnsAtOnce == TRUE

\* What serve() waits for: for the threads of the clients to be joined, or for
\* the pool to have stopped, which drains its queue.
Finished ==
  IF kind = "threaded" THEN activeClientMap_ = {} /\ Drained ELSE queue = << >> /\ Busy = {}
                                                    /\ \A p \in Peer : client[p] # "leaving"

Drain ==
  /\ serving = "draining"
  /\ IF kind = "threaded" /\ activeClientMap_ # {} /\ ~Finished
       THEN serving' = "drainAsleep" /\ UNCHANGED deadClientMap_
       ELSE Finished /\ serving' = "returned" /\ deadClientMap_' = {}
  /\ UNCHANGED <<kind, current, counting, sockets, stopper, lives, activeClientMap_, queue>>

-----------------------------------------------------------------------------
\* Other threads.

\* Faulty variant: stop() leaves the children alone.
InterruptNobody ==
  /\ stopping = "no" /\ stopping' = "half"
  /\ heeded' = listening_
  /\ UNCHANGED <<kind, serving, current, counting, sockets, lives, maps, queue>>

\* stop(), first interruptChildren and then interrupt.  Before listen and after
\* close there is nothing to write to.
InterruptChildren ==
  /\ stopping = "no" /\ stopping' = "half"
  /\ childByte' = (childByte \/ listening_)
  /\ heeded' = listening_
  /\ UNCHANGED <<kind, serving, current, counting, listening_, interruptByte, lives, maps, queue>>

Interrupt ==
  /\ stopping = "half" /\ stopping' = "done"
  /\ interruptByte' = (interruptByte \/ listening_)
  /\ UNCHANGED <<kind, serving, current, counting, listening_, childByte, heeded, lives, maps,
                 queue>>

setConcurrentClientLimit(n) ==
  /\ kind # "simple" /\ n # limit_
  /\ limit_' = n
  /\ serving' = Woken(serving, RoomNow(clients_, n))
  /\ UNCHANGED <<kind, current, clients_, hwm_, sockets, stopper, lives, maps, queue>>

-----------------------------------------------------------------------------

Serving ==
  \/ Listen \/ Gate \/ Interrupted \/ Close \/ Drain
  \/ \E p \in Peer : \/ Accept(p) \/ AddThreaded(p) \/ AddToPool(p) \/ AddSimple(p)
                     \/ SimpleDone(p) \/ ServerDrops(p) \/ GoOn(p)

Running(p) == ReadInterrupted(p) \/ Handled(p) \/ RunnerDrops(p) \/ Delete(p)

ServerNext ==
  /\ serving # "terminated"
  /\ \/ Serving \/ AcceptFails \/ PoolRefuses \/ TakeTask
     \/ \E p \in Peer : \/ Connects(p) \/ Disconnects(p) \/ RequestRead(p) \/ ReadFails(p)
                        \/ HandlerEscapes(p) \/ Running(p)
     \/ InterruptChildren \/ Interrupt
     \/ \E n \in Limits : setConcurrentClientLimit(n)

\* The threads run and handlers come to an end; nobody need connect, send a
\* request or disconnect.
ServerFairness ==
  /\ WF_serverVars(serving # "terminated" /\ Serving)
  /\ WF_serverVars(serving # "terminated" /\ TakeTask)
  /\ \A p \in Peer : WF_serverVars(serving # "terminated" /\ Running(p))

ServerSpec == ServerInit /\ [][ServerNext]_serverVars /\ ServerFairness
-----------------------------------------------------------------------------

ServerTypeOK ==
  /\ kind \in Kinds
  /\ serving \in {"new", "gate", "asleep", "accepting", "adding", "releasing", "throwing",
                  "closing", "draining", "drainAsleep", "returned", "threw", "terminated"}
  /\ current \in Peer \cup {Nobody}
  /\ clients_ \in Nat /\ hwm_ \in Nat /\ limit_ \in Nat \ {0}
  /\ {listening_, interruptByte, childByte, heeded} \subseteq BOOLEAN
  /\ stopping \in {"no", "half", "done"}
  /\ peer \in [Peer -> {"away", "queued", "connected", "gone"}]
  /\ client \in [Peer -> {"none", "made", "reading", "handling", "done", "escaped", "expired",
                          "leaving", "deleted"}]
  /\ holders \in [Peer -> SUBSET {"server", "runner", "map"}]
  /\ disposer \in [Peer -> {"server", "runner", Nobody}]
  /\ UNION {contexts, leaked, activeClientMap_, deadClientMap_} \subseteq Peer
  /\ queue \in Seq(Peer)

\* The count that limits the server is that of the client objects there are,
\* whoever disposes of them and whether or not they ever ran; contexts live no
\* longer than their clients but for exceptions that went past cleanup().  And
\* serve() does not stay asleep at the limit when there is room again: a client
\* has gone, wherever it ended, or the limit has been raised.
ClientsCounted ==
  /\ clients_ = Cardinality({p \in Peer : client[p] \notin {"none", "deleted"}})
  /\ hwm_ >= clients_
  /\ \A p \in contexts \ leaked : client[p] \in {"reading", "handling"}
  /\ serving = "asleep" => clients_ >= limit_

\* What TServerFramework.h, TThreadedServer.h and TThreadPoolServer.h guarantee
\* when serve() returns: the server transport is closed and no client is
\* connected; and every thread has been joined and every client deleted.
ReturnsClean ==
  serving = "returned" =>
    /\ ~listening_ /\ clients_ = 0 /\ activeClientMap_ \cup deadClientMap_ = {}
    /\ \A p \in Peer : client[p] \in {"none", "deleted"} /\ peer[p] # "connected"

\* stop() called while the server listens makes serve() end, whatever the
\* clients do, as long as handlers come to an end.
StopEndsServe ==
  (stopping = "done" /\ heeded) ~> serving \in {"returned", "threw", "terminated"}
=============================================================================
