------------------------ MODULE ThriftServersProofs ------------------------
(***************************************************************************)
(* Theorems about the servers and the shared client, for any finite set of *)
(* peers, any limits, and any number of threads and calls.                 *)
(***************************************************************************)
EXTENDS MCThriftServers, TLAPS, FiniteSetTheorems, SequenceTheorems,
        WellFoundedInduction

-----------------------------------------------------------------------------
\* The blocking servers: where a client's object is while it lives.

\* serve() has a pointer to the client; one that was terminated keeps it.
InHand(p) == current = p /\ serving \in {"adding", "releasing", "throwing", "terminated"}

\* The object is there and nobody has begun to delete it.
Alive(p) == client[p] \in {"made", "reading", "handling", "done", "escaped", "expired"}

\* Someone holds a pointer to the object as long as it is not being deleted, and
\* its connection is open no longer than that.
PointersHeld ==
  \A p \in Peer :
    /\ peer[p] \in {"away", "queued"} <=> client[p] = "none"
    /\ peer[p] = "connected" => Alive(p)
    /\ holders[p] # {} <=> Alive(p)
    /\ client[p] \in {"reading", "handling"} =>
         "runner" \in holders[p] \/ (kind = "simple" /\ serving = "adding" /\ current = p)

\* What serve() holds, or is deleting, it has in its hand.
HeldByServer ==
  \A p \in Peer :
    /\ "server" \in holders[p] => InHand(p)
    /\ client[p] = "leaving" => disposer[p] \in {"server", "runner"}
    /\ client[p] = "leaving" /\ disposer[p] = "server" => InHand(p)
    /\ serving = "adding" /\ current = p =>
         /\ "server" \in holders[p]
         /\ kind # "simple" => client[p] = "made" /\ "runner" \notin holders[p]

\* In whose hands the clients of each server are.
OfSimple ==
  kind = "simple" => \A p \in Peer :
    holders[p] \subseteq {"server"} /\ (client[p] = "leaving" => disposer[p] = "server")

OfPool ==
  kind = "pool" => \A p \in Peer :
    /\ "map" \notin holders[p]
    /\ client[p] = "made" /\ "runner" \in holders[p] => \E k \in DOMAIN queue : queue[k] = p

OfThreaded ==
  IF kind = "threaded"
    THEN \A p \in Peer :
           /\ Alive(p) /\ ~(current = p /\ serving \in {"adding", "terminated"}) =>
                p \in activeClientMap_
           /\ p \in deadClientMap_ => client[p] \in {"leaving", "deleted"}
           /\ client[p] = "leaving" /\ disposer[p] = "runner" => p \in deadClientMap_
    ELSE activeClientMap_ = {} /\ deadClientMap_ = {}

\* The queue has each client that waits for a worker once.
Queued ==
  /\ \A k \in DOMAIN queue : client[queue[k]] = "made" /\ "runner" \in holders[queue[k]]
  /\ \A k, l \in DOMAIN queue : queue[k] = queue[l] => k = l

\* serve() closes the server socket before it waits for the clients.
Ending ==
  /\ serving \in {"draining", "drainAsleep", "returned"} => ~listening_
  /\ serving \in {"draining", "drainAsleep"} => kind # "simple"
  /\ serving = "returned" =>
       /\ activeClientMap_ \cup deadClientMap_ = {}
       /\ \A p \in Peer : client[p] \in {"none", "deleted"}

\* The parts that say where the objects are.
Where == PointersHeld /\ HeldByServer /\ OfSimple /\ OfPool /\ OfThreaded /\ Queued /\ Ending

ServerInv == ServerTypeOK /\ Where /\ ClientsCounted

LEMMA ServerBegins == ServerInit => ServerInv
<1> SUFFICES ASSUME ServerInit
             PROVE  ServerInv
  OBVIOUS
<1> DEFINE Objects == {p \in Peer : client[p] \notin {"none", "deleted"}}
<1>1. Objects = {}
  BY DEF ServerInit
<1>2. Cardinality(Objects) = 0
  BY <1>1, FS_EmptySet
<1>3. Cardinality(Peer) \in Nat
  BY PeersAssumption, FS_CardinalityType
<1>4. limit_ \in Nat \ {0}
  <2> DEFINE all == Cardinality(Peer)
  <2>1. all + 1 \in Nat \ {0}
    BY <1>3
  <2>2. limit_ = 1 \/ limit_ = all + 1
    BY DEF ServerInit
  <2> QED
    BY <2>1, <2>2
<1>5. /\ client \in [Peer -> {"none"}] /\ peer \in [Peer -> {"away"}]
      /\ holders \in [Peer -> {{}}] /\ disposer \in [Peer -> {Nobody}]
  BY DEF ServerInit
<1>6. /\ UNION {contexts, leaked, activeClientMap_, deadClientMap_} \subseteq Peer
      /\ {listening_, interruptByte, childByte, heeded} \subseteq BOOLEAN
      /\ kind \in {"simple", "threaded", "pool"} /\ queue = << >> /\ clients_ = 0 /\ hwm_ = 0
      /\ serving = "new" /\ current = Nobody /\ stopping = "no"
  BY DEF ServerInit, Kinds
<1>7. ServerTypeOK
  BY <1>4, <1>5, <1>6 DEF ServerTypeOK, Kinds
<1>8. Where
  BY DEF ServerInit, Where, PointersHeld, HeldByServer, OfSimple, OfPool, OfThreaded, Queued,
         Ending, Alive
<1> HIDE DEF Objects
<1>9. clients_ = Cardinality(Objects)
  BY <1>2 DEF ServerInit
<1>10. ClientsCounted
  BY <1>9 DEF ServerInit, ClientsCounted, Objects
<1> QED
  BY <1>7, <1>8, <1>10 DEF ServerInv

\* The count follows the objects.
LEMMA CountFollows ==
  ASSUME ServerTypeOK, Where, ClientsCounted, ServerNext
  PROVE  /\ clients_' \in Nat
         /\ clients_' = Cardinality({p \in Peer : client[p] \notin {"none", "deleted"}}')
<1> DEFINE Objects == {p \in Peer : client[p] \notin {"none", "deleted"}}
<1>1. /\ IsFiniteSet(Objects) /\ Cardinality(Objects) \in Nat /\ clients_ = Cardinality(Objects)
  BY PeersAssumption, FS_Subset, FS_CardinalityType DEF ClientsCounted
<1>2. CASE \E p \in Peer : Accept(p)
  <2> PICK p \in Peer : Accept(p)
    BY <1>2
  <2>1. client[p] = "none"
    BY DEF Accept, Where, PointersHeld
  <2>2. p \notin Objects /\ Objects' = Objects \cup {p}
    BY <2>1 DEF Accept, ServerTypeOK
  <2> HIDE DEF Objects
  <2>3. Cardinality(Objects') = Cardinality(Objects) + 1 /\ clients_' = clients_ + 1
    BY <1>1, <2>2, FS_AddElement DEF Accept
  <2>4. clients_' = Cardinality(Objects') /\ clients_' \in Nat
    BY <1>1, <2>3
  <2> QED
    BY <2>4 DEF Objects
<1>3. CASE \E p \in Peer : Delete(p)
  <2> PICK p \in Peer : Delete(p)
    BY <1>3
  <2>1. p \in Objects /\ Objects' = Objects \ {p}
    BY DEF Delete, ServerTypeOK
  <2> HIDE DEF Objects
  <2>2. Cardinality(Objects') = Cardinality(Objects) - 1 /\ clients_' = clients_ - 1
    BY <1>1, <2>1, FS_RemoveElement DEF Delete
  <2>3. Cardinality(Objects') \in Nat
    BY <1>1, <2>1, FS_RemoveElement, FS_CardinalityType
  <2>4. clients_' = Cardinality(Objects') /\ clients_' \in Nat
    BY <1>1, <2>2, <2>3
  <2> QED
    BY <2>4 DEF Objects
<1>4. CASE ~(\E p \in Peer : Accept(p) \/ Delete(p))
  <2>1. Objects' = Objects /\ clients_' = clients_
    BY <1>4 DEF ServerNext, Serving, Running, ServerTypeOK, Where, PointersHeld, HeldByServer,
           Queued, Alive, counting, sockets, stopper, lives, maps,
           Connects, Disconnects, Listen, Gate, Interrupted, AcceptFails, AddThreaded, AddToPool,
           PoolRefuses, AddSimple, SimpleDone, TakeTask, RequestRead, ReadInterrupted, ReadFails,
           Handled, Cleanup, HandlerEscapes, ServerDrops, RunnerDrops, DropPointer, Disconnected,
           GoOn, Close, Drain, InterruptChildren, Interrupt, setConcurrentClientLimit
  <2> QED
    BY <1>1, <2>1
<1> QED
  BY <1>2, <1>3, <1>4

LEMMA ServerTypesKept ==
  ASSUME ServerTypeOK, Where, ServerNext, clients_' \in Nat
  PROVE  ServerTypeOK'
<1> USE DEF ServerTypeOK, Kinds, Where, counting, sockets, stopper, lives, maps
<1>1. ASSUME NEW p \in Peer, Connects(p)
      PROVE  ServerTypeOK'
  BY <1>1 DEF Connects
<1>2. ASSUME NEW p \in Peer, Disconnects(p)
      PROVE  ServerTypeOK'
  BY <1>2 DEF Disconnects
<1>3. CASE Listen
  BY <1>3 DEF Listen
<1>4. CASE Gate
  BY <1>4 DEF Gate
<1>5. ASSUME NEW p \in Peer, Accept(p)
      PROVE  ServerTypeOK'
  BY <1>5 DEF Accept
<1>6. CASE Interrupted
  BY <1>6 DEF Interrupted
<1>7. CASE AcceptFails
  BY <1>7 DEF AcceptFails
<1>8. ASSUME NEW p \in Peer, AddThreaded(p)
      PROVE  ServerTypeOK'
  BY <1>8 DEF AddThreaded
<1>9. ASSUME NEW p \in Peer, AddToPool(p)
      PROVE  ServerTypeOK'
  BY <1>9 DEF AddToPool
<1>10. CASE PoolRefuses
  BY <1>10 DEF PoolRefuses
<1>11. ASSUME NEW p \in Peer, AddSimple(p)
      PROVE  ServerTypeOK'
  BY <1>11 DEF AddSimple
<1>12. ASSUME NEW p \in Peer, SimpleDone(p)
      PROVE  ServerTypeOK'
  BY <1>12 DEF SimpleDone
<1>13. CASE TakeTask
  BY <1>13 DEF TakeTask, Busy
<1>14. ASSUME NEW p \in Peer, RequestRead(p)
      PROVE  ServerTypeOK'
  BY <1>14 DEF RequestRead
<1>15. ASSUME NEW p \in Peer, ReadInterrupted(p)
      PROVE  ServerTypeOK'
  BY <1>15 DEF ReadInterrupted, Cleanup
<1>16. ASSUME NEW p \in Peer, ReadFails(p)
      PROVE  ServerTypeOK'
  BY <1>16 DEF ReadFails, Cleanup
<1>17. ASSUME NEW p \in Peer, Handled(p)
      PROVE  ServerTypeOK'
  BY <1>17 DEF Handled, Cleanup
<1>18. ASSUME NEW p \in Peer, HandlerEscapes(p)
      PROVE  ServerTypeOK'
  BY <1>18 DEF HandlerEscapes
<1>19. ASSUME NEW p \in Peer, ServerDrops(p)
      PROVE  ServerTypeOK'
  <2>1. /\ client' \in [Peer -> {"none", "made", "reading", "handling", "done", "escaped",
                                "expired", "leaving", "deleted"}]
        /\ peer' \in [Peer -> {"away", "queued", "connected", "gone"}]
        /\ holders' \in [Peer -> SUBSET {"server", "runner", "map"}]
        /\ disposer' \in [Peer -> {"server", "runner", Nobody}]
    BY <1>19 DEF ServerDrops, DropPointer
  <2>2. UNION {contexts, leaked, activeClientMap_, deadClientMap_}' \subseteq Peer
    BY <1>19 DEF ServerDrops, DropPointer, Disconnected
  <2> QED
    BY <1>19, <2>1, <2>2 DEF ServerDrops, DropPointer
<1>20. ASSUME NEW p \in Peer, RunnerDrops(p)
      PROVE  ServerTypeOK'
  BY <1>20 DEF RunnerDrops, DropPointer, Disconnected, Drained, Ended, NoMoreClients
<1>21. ASSUME NEW p \in Peer, GoOn(p)
      PROVE  ServerTypeOK'
  BY <1>21 DEF GoOn
<1>22. ASSUME NEW p \in Peer, Delete(p)
      PROVE  ServerTypeOK'
  BY <1>22 DEF Delete, Woken, RoomNow
<1>23. CASE Close
  BY <1>23 DEF Close
<1>24. CASE Drain
  BY <1>24 DEF Drain, Finished, Drained, Ended, Busy
<1>25. CASE InterruptChildren
  BY <1>25 DEF InterruptChildren
<1>26. CASE Interrupt
  BY <1>26 DEF Interrupt
<1>27. ASSUME NEW n \in Limits, setConcurrentClientLimit(n)
      PROVE  ServerTypeOK'
  BY <1>27, PeersAssumption DEF setConcurrentClientLimit, Woken, RoomNow
<1> QED
  BY <1>1, <1>2, <1>3, <1>4, <1>5, <1>6, <1>7, <1>8, <1>9, <1>10, <1>11, <1>12, <1>13, <1>14,
     <1>15, <1>16, <1>17, <1>18, <1>19, <1>20, <1>21, <1>22, <1>23, <1>24, <1>25, <1>26, <1>27
     DEF ServerNext, Serving, Running

LEMMA WhereKept ==
  ASSUME ServerTypeOK, Where, ServerNext, ServerTypeOK'
  PROVE  Where'
<1> USE DEF ServerTypeOK, Kinds, Where, PointersHeld, HeldByServer, OfSimple, OfPool, OfThreaded,
            Queued, Ending, InHand, Alive, counting, sockets, stopper, lives, maps
<1>1. ASSUME NEW p \in Peer, Connects(p)
      PROVE  Where'
  BY <1>1 DEF Connects
<1>2. ASSUME NEW p \in Peer, Disconnects(p)
      PROVE  Where'
  BY <1>2 DEF Disconnects
<1>3. CASE Listen
  BY <1>3 DEF Listen
<1>4. CASE Gate
  BY <1>4 DEF Gate
<1>5. ASSUME NEW p \in Peer, Accept(p)
      PROVE  Where'
  BY <1>5 DEF Accept
<1>6. CASE Interrupted
  BY <1>6 DEF Interrupted
<1>7. CASE AcceptFails
  BY <1>7 DEF AcceptFails
<1>8. ASSUME NEW p \in Peer, AddThreaded(p)
      PROVE  Where'
  BY <1>8 DEF AddThreaded
<1>9. ASSUME NEW p \in Peer, AddToPool(p)
      PROVE  Where'
  BY <1>9 DEF AddToPool
<1>10. CASE PoolRefuses
  BY <1>10 DEF PoolRefuses
<1>11. ASSUME NEW p \in Peer, AddSimple(p)
      PROVE  Where'
  BY <1>11 DEF AddSimple
<1>12. ASSUME NEW p \in Peer, SimpleDone(p)
      PROVE  Where'
  BY <1>12 DEF SimpleDone
<1>13. CASE TakeTask
  <2>1. /\ Len(queue) > 0 /\ Len(queue') = Len(queue) - 1
        /\ \A k \in 1 .. Len(queue) - 1 : queue'[k] = queue[k + 1]
    BY <1>13 DEF TakeTask
  <2>2. ASSUME NEW q \in Peer, kind = "pool", client'[q] = "made", "runner" \in holders'[q]
        PROVE  \E k \in DOMAIN queue' : queue'[k] = q
    <3>1. client[q] = "made" /\ "runner" \in holders[q] /\ q # Head(queue)
      BY <1>13, <2>2 DEF TakeTask
    <3>2. PICK k \in DOMAIN queue : queue[k] = q
      BY <2>2, <3>1
    <3>3. k \in 2 .. Len(queue) /\ k - 1 \in 1 .. Len(queue')
      BY <2>1, <3>1, <3>2
    <3>4. queue'[k - 1] = queue[k]
      BY <2>1, <3>3
    <3> QED
      BY <3>2, <3>3, <3>4
  <2>3. OfPool'
    BY <1>13, <2>2 DEF TakeTask
  <2>4. /\ PointersHeld' /\ HeldByServer' /\ OfSimple' /\ OfThreaded' /\ Queued' /\ Ending'
    BY <1>13 DEF TakeTask
  <2> QED
    BY <2>3, <2>4
<1>14. ASSUME NEW p \in Peer, RequestRead(p)
      PROVE  Where'
  BY <1>14 DEF RequestRead
<1>15. ASSUME NEW p \in Peer, ReadInterrupted(p)
      PROVE  Where'
  BY <1>15 DEF ReadInterrupted, Cleanup
<1>16. ASSUME NEW p \in Peer, ReadFails(p)
      PROVE  Where'
  BY <1>16 DEF ReadFails, Cleanup
<1>17. ASSUME NEW p \in Peer, Handled(p)
      PROVE  Where'
  BY <1>17 DEF Handled, Cleanup
<1>18. ASSUME NEW p \in Peer, HandlerEscapes(p)
      PROVE  Where'
  BY <1>18 DEF HandlerEscapes
<1>19. ASSUME NEW p \in Peer, ServerDrops(p)
      PROVE  Where'
  BY <1>19 DEF ServerDrops, DropPointer, Disconnected, Drained, Ended
<1>20. ASSUME NEW p \in Peer, RunnerDrops(p)
      PROVE  Where'
  <2>1. PointersHeld' /\ HeldByServer' /\ OfSimple' /\ OfPool' /\ Queued' /\ Ending'
    BY <1>20 DEF RunnerDrops, DropPointer, Disconnected, Drained, Ended, NoMoreClients
  <2> SUFFICES OfThreaded'
    BY <2>1
  <2>2. CASE kind = "threaded" /\ holders[p] = {"runner"}
    <3>1. /\ Drained /\ deadClientMap_' = activeClientMap_ \cap {p}
          /\ activeClientMap_' = activeClientMap_ \ {p}
          /\ client' = [client EXCEPT ![p] = "leaving"]
          /\ disposer' = [disposer EXCEPT ![p] = "runner"]
      BY <1>20, <2>2 DEF RunnerDrops, DropPointer, Disconnected
    <3>2. kind' = kind /\ current' = current
          /\ (serving' \in {"adding", "terminated"} <=> serving \in {"adding", "terminated"})
      BY <1>20 DEF RunnerDrops, DropPointer, NoMoreClients
    <3>3. p \in activeClientMap_
      BY <1>20, <2>2 DEF RunnerDrops, ServerNext
    <3>4. ASSUME NEW q \in Peer \ {p}
          PROVE  client[q] = "leaving" => disposer[q] # "runner"
      BY <2>2, <3>1, <3>4 DEF Drained, Ended
    <3> QED
      BY <2>2, <3>1, <3>2, <3>3, <3>4
  <2>3. CASE kind = "threaded" /\ holders[p] # {"runner"}
    BY <1>20, <2>3 DEF RunnerDrops, DropPointer, NoMoreClients
  <2>4. CASE kind # "threaded"
    BY <1>20, <2>4 DEF RunnerDrops, DropPointer, Disconnected, NoMoreClients
  <2> QED
    BY <2>2, <2>3, <2>4
<1>21. ASSUME NEW p \in Peer, GoOn(p)
      PROVE  Where'
  BY <1>21 DEF GoOn
<1>22. ASSUME NEW p \in Peer, Delete(p)
      PROVE  Where'
  BY <1>22 DEF Delete, Woken, RoomNow
<1>23. CASE Close
  BY <1>23 DEF Close
<1>24. CASE Drain
  BY <1>24 DEF Drain, Finished, Drained, Ended, Busy
<1>25. CASE InterruptChildren
  BY <1>25 DEF InterruptChildren
<1>26. CASE Interrupt
  BY <1>26 DEF Interrupt
<1>27. ASSUME NEW n \in Limits, setConcurrentClientLimit(n)
      PROVE  Where'
  BY <1>27, PeersAssumption DEF setConcurrentClientLimit, Woken, RoomNow
<1> QED
  BY <1>1, <1>2, <1>3, <1>4, <1>5, <1>6, <1>7, <1>8, <1>9, <1>10, <1>11, <1>12, <1>13, <1>14,
     <1>15, <1>16, <1>17, <1>18, <1>19, <1>20, <1>21, <1>22, <1>23, <1>24, <1>25, <1>26, <1>27
     DEF ServerNext, Serving, Running

\* The rest of what is said about the count.
LEMMA CountKept ==
  ASSUME ServerTypeOK, Where, ClientsCounted, ServerNext
  PROVE  ClientsCounted'
<1>0. clients_' = Cardinality({p \in Peer : client[p] \notin {"none", "deleted"}}')
  BY CountFollows
<1>00. hwm_ >= clients_ /\ (serving = "asleep" => clients_ >= limit_)
       /\ \A p \in contexts \ leaked : client[p] \in {"reading", "handling"}
  BY DEF ClientsCounted
<1> DEFINE Rest == /\ hwm_ >= clients_ /\ (serving = "asleep" => clients_ >= limit_)
                   /\ \A p \in contexts \ leaked : client[p] \in {"reading", "handling"}
<1> SUFFICES Rest'
  BY <1>0 DEF ClientsCounted
<1> USE DEF ServerTypeOK, Where, PointersHeld, HeldByServer, Queued, InHand, Alive,
            counting, sockets, stopper, lives, maps
<1>1. ASSUME NEW p \in Peer, Connects(p)
      PROVE  Rest'
  BY <1>00, <1>1 DEF Connects
<1>2. ASSUME NEW p \in Peer, Disconnects(p)
      PROVE  Rest'
  BY <1>00, <1>2 DEF Disconnects
<1>3. CASE Listen
  BY <1>00, <1>3 DEF Listen
<1>4. CASE Gate
  BY <1>00, <1>4 DEF Gate
<1>5. ASSUME NEW p \in Peer, Accept(p)
      PROVE  Rest'
  BY <1>00, <1>5 DEF Accept
<1>6. CASE Interrupted
  BY <1>00, <1>6 DEF Interrupted
<1>7. CASE AcceptFails
  BY <1>00, <1>7 DEF AcceptFails
<1>8. ASSUME NEW p \in Peer, AddThreaded(p)
      PROVE  Rest'
  BY <1>00, <1>8 DEF AddThreaded
<1>9. ASSUME NEW p \in Peer, AddToPool(p)
      PROVE  Rest'
  BY <1>00, <1>9 DEF AddToPool
<1>10. CASE PoolRefuses
  BY <1>00, <1>10 DEF PoolRefuses
<1>11. ASSUME NEW p \in Peer, AddSimple(p)
      PROVE  Rest'
  BY <1>00, <1>11 DEF AddSimple
<1>12. ASSUME NEW p \in Peer, SimpleDone(p)
      PROVE  Rest'
  BY <1>00, <1>12 DEF SimpleDone
<1>13. CASE TakeTask
  BY <1>00, <1>13 DEF TakeTask, Busy
<1>14. ASSUME NEW p \in Peer, RequestRead(p)
      PROVE  Rest'
  BY <1>00, <1>14 DEF RequestRead
<1>15. ASSUME NEW p \in Peer, ReadInterrupted(p)
      PROVE  Rest'
  BY <1>00, <1>15 DEF ReadInterrupted, Cleanup
<1>16. ASSUME NEW p \in Peer, ReadFails(p)
      PROVE  Rest'
  BY <1>00, <1>16 DEF ReadFails, Cleanup
<1>17. ASSUME NEW p \in Peer, Handled(p)
      PROVE  Rest'
  BY <1>00, <1>17 DEF Handled, Cleanup
<1>18. ASSUME NEW p \in Peer, HandlerEscapes(p)
      PROVE  Rest'
  BY <1>00, <1>18 DEF HandlerEscapes
<1>19. ASSUME NEW p \in Peer, ServerDrops(p)
      PROVE  Rest'
  BY <1>00, <1>19 DEF ServerDrops, DropPointer, Disconnected, Drained, Ended
<1>20. ASSUME NEW p \in Peer, RunnerDrops(p)
      PROVE  Rest'
  BY <1>00, <1>20 DEF RunnerDrops, DropPointer, Disconnected, Drained, Ended, NoMoreClients
<1>21. ASSUME NEW p \in Peer, GoOn(p)
      PROVE  Rest'
  BY <1>00, <1>21 DEF GoOn
<1>22. ASSUME NEW p \in Peer, Delete(p)
      PROVE  Rest'
  BY <1>00, <1>22 DEF Delete, Woken, RoomNow
<1>23. CASE Close
  BY <1>00, <1>23 DEF Close
<1>24. CASE Drain
  BY <1>00, <1>24 DEF Drain, Finished, Drained, Ended, Busy
<1>25. CASE InterruptChildren
  BY <1>00, <1>25 DEF InterruptChildren
<1>26. CASE Interrupt
  BY <1>00, <1>26 DEF Interrupt
<1>27. ASSUME NEW n \in Limits, setConcurrentClientLimit(n)
      PROVE  Rest'
  BY <1>00, <1>27, PeersAssumption DEF setConcurrentClientLimit, Woken, RoomNow
<1> QED
  BY <1>1, <1>2, <1>3, <1>4, <1>5, <1>6, <1>7, <1>8, <1>9, <1>10, <1>11, <1>12, <1>13, <1>14,
     <1>15, <1>16, <1>17, <1>18, <1>19, <1>20, <1>21, <1>22, <1>23, <1>24, <1>25, <1>26, <1>27
     DEF ServerNext, Serving, Running

LEMMA ServerStep ==
  ASSUME ServerInv, [ServerNext]_serverVars
  PROVE  ServerInv'
<1>1. CASE ServerNext
  <2>1. clients_' \in Nat
    BY <1>1, CountFollows DEF ServerInv
  <2>2. ServerTypeOK'
    BY <1>1, <2>1, ServerTypesKept DEF ServerInv
  <2> QED
    BY <1>1, <2>2, WhereKept, CountKept DEF ServerInv
<1>2. CASE UNCHANGED serverVars
  BY <1>2 DEF ServerInv, ServerTypeOK, Where, PointersHeld, HeldByServer, OfSimple, OfPool,
              OfThreaded, Queued, Ending, InHand, Alive, ClientsCounted, serverVars, counting,
              sockets, stopper, lives, maps
<1> QED
  BY <1>1, <1>2

LEMMA ServerInvariant == ServerSpec => []ServerInv
<1>1. ServerInit => ServerInv
  BY ServerBegins
<1>2. ServerInv /\ [ServerNext]_serverVars => ServerInv'
  BY ServerStep
<1> QED
  BY <1>1, <1>2, PTL DEF ServerSpec

\* The count that limits a server is that of the client objects there are, whoever disposes of
\* them, and serve() never sleeps at the limit while there is room.
THEOREM ClientsAreCounted == ServerSpec => []ClientsCounted
<1>1. ServerInv => ClientsCounted
  BY DEF ServerInv
<1> QED
  BY <1>1, ServerInvariant, PTL

\* When serve() returns, the server socket is closed, every client is deleted and none is
\* connected, whatever server it is and however it came to its end.
THEOREM ServeReturnsClean == ServerSpec => []ReturnsClean
<1>1. ASSUME ServerInv, serving = "returned"
      PROVE  clients_ = 0
  <2>1. {p \in Peer : client[p] \notin {"none", "deleted"}} = {}
    BY <1>1 DEF ServerInv, Where, Ending
  <2> QED
    BY <1>1, <2>1, FS_EmptySet DEF ServerInv, ClientsCounted
<1>2. ServerInv => ReturnsClean
  BY <1>1 DEF ServerInv, Where, Ending, PointersHeld, Alive, ReturnsClean
<1> QED
  BY <1>2, ServerInvariant, PTL

-----------------------------------------------------------------------------
\* The shared client.

\* n calls have been made.
Latest(n) == (\E u \in Sharer : made[u] = n) /\ \A u \in Sharer : made[u] <= n

\* The largest number of a call is that of a thread.
LEMMA TopCall ==
  ASSUME Calls \in Nat, made \in [Sharer -> 0..Calls], NEW t \in Sharer
  PROVE  \E n \in 0..Calls : Latest(n) /\ Sync!Max({made[u] : u \in Sharer}) = n
<1> DEFINE S == {made[u] : u \in Sharer}
           T == {Calls - x : x \in S}
<1>1. S \subseteq 0..Calls /\ made[t] \in S
  OBVIOUS
<1>2. T \in SUBSET Nat /\ T # {}
  BY <1>1
<1>3. PICK d \in T : \A e \in T : d <= e
  <2>1. \E d \in T : \A e \in T : ~ (<<e, d>> \in OpToRel(<, Nat))
    BY <1>2, NatLessThanWellFounded, WFMin
  <2>2. PICK d \in T : \A e \in T : ~ (<<e, d>> \in OpToRel(<, Nat))
    BY <2>1
  <2>3. \A e \in T : ~ (e < d)
    BY <1>2, <2>2 DEF OpToRel
  <2> QED
    BY <1>2, <2>3
<1>4. PICK n \in S : d = Calls - n
  BY <1>3
<1>5. \A x \in S : Calls - x \in T
  OBVIOUS
<1>6. n \in 0..Calls /\ \A x \in S : n >= x
  <2>1. n \in 0..Calls
    BY <1>1, <1>4
  <2>2. ASSUME NEW x \in S
        PROVE  n >= x
    <3>1. x \in 0..Calls /\ Calls - x \in T
      BY <1>1, <1>5
    <3>2. d <= Calls - x
      BY <1>3, <3>1
    <3> QED
      BY <1>4, <2>1, <3>1, <3>2
  <2> QED
    BY <2>1, <2>2
<1>7. Sync!Max(S) \in S /\ \A x \in S : Sync!Max(S) >= x
  BY <1>4, <1>6 DEF Sync!Max
<1>8. Sync!Max(S) = n
  <2> DEFINE top == Sync!Max(S)
  <2>1. top \in 0..Calls /\ top >= n /\ n >= top
    BY <1>1, <1>4, <1>6, <1>7
  <2> HIDE DEF top
  <2>2. top = n
    BY <1>6, <2>1
  <2> QED
    BY <2>2 DEF top
<1>9. Latest(n)
  BY <1>4, <1>6 DEF Latest
<1> QED
  BY <1>6, <1>8, <1>9

LEMMA SharedTypesBegin == Sync!SyncInit => Sync!SyncTypeOK
<1> SUFFICES ASSUME Sync!SyncInit
             PROVE  Sync!SyncTypeOK
  OBVIOUS
<1>1. /\ nextseqid_ \in MinSeqId..MaxSeqId /\ seqid \in [Sharer -> MinSeqId..MaxSeqId]
      /\ made \in [Sharer -> 0..Calls] /\ step \in [Sharer -> {"idle"}]
  BY PartsAssumption DEF Sync!IdsAssumption, Sync!SyncInit
<1> QED
  BY <1>1 DEF Sync!SyncInit, Sync!SyncTypeOK

LEMMA NumberFits ==
  ASSUME Sync!SyncTypeOK, NEW t \in Sharer, Sync!generateSeqId(t)
  PROVE  made' \in [Sharer -> 0..Calls]
<1> USE PartsAssumption DEF Sync!IdsAssumption
<1>1. PICK n \in 0..Calls : Latest(n) /\ Sync!Max({made[u] : u \in Sharer}) = n
  BY TopCall DEF Sync!SyncTypeOK
<1>2. n # Calls
  BY <1>1 DEF Latest, Sync!generateSeqId
<1>3. n + 1 \in 0..Calls
  BY <1>2
<1>4. made' = [made EXCEPT ![t] = n + 1]
  BY <1>1 DEF Sync!generateSeqId
<1> QED
  BY <1>3, <1>4 DEF Sync!SyncTypeOK

LEMMA SharedTypesKept ==
  ASSUME Sync!SyncTypeOK, Sync!SyncNext
  PROVE  Sync!SyncTypeOK'
<1> USE DEF Sync!SyncTypeOK, Sync!Goes, Sync!mutexes, Sync!pending, Sync!calls
<1>1. ASSUME NEW t \in Sharer, Sync!generateSeqId(t)
      PROVE  Sync!SyncTypeOK'
  <2>1. made' \in [Sharer -> 0..Calls]
    BY <1>1, NumberFits
  <2>2. Sync!NextSeqId \in MinSeqId..MaxSeqId
    BY PartsAssumption DEF Sync!IdsAssumption, Sync!NextSeqId
  <2> QED
    BY <1>1, <2>1, <2>2 DEF Sync!generateSeqId
<1>2. ASSUME NEW t \in Sharer, Sync!BeginSend(t) \/ Sync!EndSend(t) \/ Sync!BeginReceive(t)
      PROVE  Sync!SyncTypeOK'
  BY <1>2 DEF Sync!BeginSend, Sync!EndSend, Sync!BeginReceive
<1>3. ASSUME NEW t \in Sharer, Sync!Throws(t), recvPending_' \in BOOLEAN
      PROVE  Sync!SyncTypeOK'
  BY <1>3 DEF Sync!Throws, Sync!MapWithout, Sync!FailsAndMarksBad, Sync!TellsAndGoes
<1>4. ASSUME NEW t \in Sharer, NEW m, Sync!Returns(t, m), recvPending_' \in BOOLEAN
      PROVE  Sync!SyncTypeOK'
  BY <1>4 DEF Sync!Returns, Sync!MapWithout, Sync!TellsAndGoes
<1>5. ASSUME NEW t \in Sharer, NEW m, Sync!HandOver(t, m),
             m.id \in Sync!Ids(seqidToMonitorMap_) => wakeupSomeone_' \in BOOLEAN
      PROVE  Sync!SyncTypeOK'
  <2>1. CASE m.id \in Sync!Ids(seqidToMonitorMap_)
    BY <1>5, <2>1 DEF Sync!HandOver, Sync!LookedUp, Sync!TellsAndGoes
  <2>2. CASE m.id \notin Sync!Ids(seqidToMonitorMap_)
    BY <1>3, <1>5, <2>2 DEF Sync!HandOver
  <2> QED
    BY <2>1, <2>2
<1>6. ASSUME NEW t \in Sharer, Sync!getPending(t)
      PROVE  Sync!SyncTypeOK'
  <2>1. CASE stop_
    BY <1>3, <1>6, <2>1 DEF Sync!getPending
  <2>2. CASE ~stop_ /\ ~recvPending_
    BY <1>6, <2>2 DEF Sync!getPending
  <2>3. CASE ~stop_ /\ recvPending_ /\ pendingMessage_.id = seqid[t]
    BY <1>4, <1>6, <2>3 DEF Sync!getPending
  <2>4. CASE ~stop_ /\ recvPending_ /\ pendingMessage_.id # seqid[t]
    BY <1>5, <1>6, <2>4 DEF Sync!getPending
  <2> QED
    BY <2>1, <2>2, <2>3, <2>4
<1>7. ASSUME NEW t \in Sharer, Sync!Check(t)
      PROVE  Sync!SyncTypeOK'
  <2>1. CASE stop_
    BY <1>3, <1>7, <2>1 DEF Sync!Check
  <2>2. CASE ~stop_
    BY <1>7, <2>2 DEF Sync!Check
  <2> QED
    BY <2>1, <2>2
<1>8. ASSUME NEW t \in Sharer, Sync!Sleep(t) \/ Sync!WakeUp(t) \/ Sync!Spurious(t)
      PROVE  Sync!SyncTypeOK'
  BY <1>8 DEF Sync!Sleep, Sync!WakeUp, Sync!Spurious
<1>9. ASSUME NEW t \in Sharer, Sync!SendFails(t)
      PROVE  Sync!SyncTypeOK'
  BY <1>9 DEF Sync!SendFails, Sync!FailsAndMarksBad, Sync!TellsAndGoes
<1>10. ASSUME NEW t \in Sharer, Sync!ReadFails(t)
       PROVE  Sync!SyncTypeOK'
  BY <1>3, <1>10 DEF Sync!ReadFails
<1>11. ASSUME NEW t \in Sharer, NEW m \in replies, Sync!ReadReply(t, m)
       PROVE  Sync!SyncTypeOK'
  <2>1. CASE m.id = seqid[t]
    BY <1>4, <1>11, <2>1 DEF Sync!ReadReply
  <2>2. CASE m.id # seqid[t]
    BY <1>5, <1>11, <2>2 DEF Sync!ReadReply
  <2> QED
    BY <2>1, <2>2
<1> QED
  BY <1>1, <1>2, <1>6, <1>7, <1>8, <1>9, <1>10, <1>11
     DEF Sync!SyncNext, Sync!Calling

UnderWay(t) == step[t] \notin {"idle", "failed", "died"}
Unsent(t) == step[t] \in {"numbered", "sending"}

Messages == replies \cup {m \in {pendingMessage_} : recvPending_}

\* Every thread has a place for what it has received.
SharedTyped ==
  /\ Sync!SyncTypeOK /\ DOMAIN received = Sharer
  /\ Messages \subseteq [id : Int, caller : Sharer, nth : Int]

\* As long as ids are given out, those of calls and of replies under way are in the map.
IdsHeld ==
  ~stop_ => /\ \A t \in Sharer : UnderWay(t) => seqid[t] \in Sync!Ids(seqidToMonitorMap_) \cup reused
            /\ \A m \in Messages :
                 m.id \in Sync!Ids(seqidToMonitorMap_) \cup reused \cup {Sync!NobodysId}

\* The id of a call is no other's.
OneCaller ==
  \A t, u \in Sharer :
    UnderWay(t) /\ UnderWay(u) /\ seqid[t] = seqid[u] => t = u \/ seqid[t] \in reused

\* The reply to a call, whose number tells it from all others, comes once.
OneReply ==
  /\ \A m \in Messages : /\ m.nth <= made[m.caller]
                         /\ m.nth = made[m.caller] => ~Unsent(m.caller)
  /\ \A m, n \in Messages : m.caller = n.caller /\ m.nth = n.nth => m = n
  /\ recvPending_ => pendingMessage_ \notin replies

\* A reply bears the id of its call, which no other call has.
ReplyToCall ==
  \A m \in Messages, t \in Sharer :
    UnderWay(t) /\ m.id = seqid[t] /\ m.id \notin reused => m.caller = t /\ m.nth = made[t]

SharedInv == SharedTyped /\ IdsHeld /\ OneCaller /\ OneReply /\ ReplyToCall /\ Sync!OwnReply

LEMMA SharedBegins == ASSUME Sync!SyncInit PROVE SharedInv
<1>1. /\ \A t \in Sharer : step[t] = "idle" /\ received[t] = None
      /\ Messages = {} /\ DOMAIN received = Sharer /\ ~recvPending_
  BY DEF Sync!SyncInit, Messages
<1>2. \A t \in Sharer : ~UnderWay(t) /\ ~Unsent(t)
  BY <1>1 DEF UnderWay, Unsent
<1> QED
  BY <1>1, <1>2, SharedTypesBegin
     DEF SharedInv, SharedTyped, IdsHeld, OneCaller, OneReply, ReplyToCall, Sync!OwnReply

\* A call begins.
LEMMA CallBegins ==
  ASSUME SharedInv, NEW t \in Sharer, Sync!generateSeqId(t), Sync!SyncNext
  PROVE  SharedInv'
<1> DEFINE map == seqidToMonitorMap_
<1>1. PICK n \in 0..Calls : Latest(n) /\ Sync!Max({made[u] : u \in Sharer}) = n
  BY TopCall, PartsAssumption DEF SharedInv, SharedTyped, Sync!SyncTypeOK, Sync!IdsAssumption
<1>2. /\ made \in [Sharer -> 0..Calls] /\ Calls \in Nat
      /\ seqid \in [Sharer -> Int] /\ DOMAIN step = Sharer
      /\ \A e \in map : e.id \in Int
  BY PartsAssumption DEF SharedInv, SharedTyped, Sync!SyncTypeOK, Sync!IdsAssumption
<1>3. /\ made'[t] = n + 1 /\ \A u \in Sharer : u # t => made'[u] = made[u]
      /\ \A u \in Sharer : made[u] <= n /\ made[u] \in Int
  BY <1>1, <1>2 DEF Latest, Sync!generateSeqId
<1>4. /\ Messages' = Messages /\ stop_' = stop_ /\ received' = received
      /\ replies' = replies /\ pendingMessage_' = pendingMessage_ /\ recvPending_' = recvPending_
  BY DEF Sync!generateSeqId, Messages, Sync!pending
<1>5. SharedTyped'
  BY <1>4, SharedTypesKept DEF SharedInv, SharedTyped
<1>6. /\ \A u \in Sharer : u # t => step'[u] = step[u] /\ seqid'[u] = seqid[u]
      /\ step'[t] \in {"failed", "numbered"} /\ step[t] = "idle"
      /\ reused \subseteq reused'
  BY <1>2 DEF Sync!generateSeqId, Sync!Goes
<1>7. \A m \in Messages : m.caller \in Sharer /\ m.nth \in Int /\ m.id \in Int
  BY DEF SharedInv, SharedTyped
<1>8. OneReply'
  <2>1. ASSUME NEW m \in Messages
        PROVE  /\ m.nth <= made'[m.caller]
               /\ m.nth = made'[m.caller] => ~Unsent(m.caller)'
    <3>1. m.nth <= made[m.caller] /\ (m.nth = made[m.caller] => ~Unsent(m.caller))
      BY DEF SharedInv, OneReply
    <3>2. CASE m.caller = t
      BY <1>3, <1>7, <3>1, <3>2
    <3>3. CASE m.caller # t
      BY <1>3, <1>6, <1>7, <3>1, <3>3 DEF Unsent
    <3> QED
      BY <3>2, <3>3
  <2> QED
    BY <1>4, <2>1 DEF SharedInv, OneReply
<1>9. Sync!OwnReply'
  BY <1>3, <1>4, <1>6 DEF SharedInv, Sync!OwnReply
<1>10. CASE stop_ \/ Sync!AboutToRepeat
  <2>1. step'[t] = "failed" /\ UNCHANGED <<seqid, seqidToMonitorMap_, reused>>
    BY <1>2, <1>10 DEF Sync!generateSeqId, Sync!Goes
  <2>2. \A u \in Sharer : UnderWay(u)' => UnderWay(u) /\ u # t
    BY <1>6, <2>1 DEF UnderWay
  <2>3. IdsHeld' /\ OneCaller'
    BY <1>4, <2>1, <2>2 DEF SharedInv, IdsHeld, OneCaller, Sync!Ids
  <2>4. ReplyToCall'
    BY <1>3, <1>4, <2>1, <2>2 DEF SharedInv, ReplyToCall
  <2> QED
    BY <1>5, <1>8, <1>9, <2>3, <2>4 DEF SharedInv
<1>11. CASE ~stop_ /\ ~Sync!AboutToRepeat
  <2> DEFINE next == nextseqid_
             held == Sync!Ids(map)
  <2>1. /\ step'[t] = "numbered" /\ seqid'[t] = next
        /\ reused' = reused \cup {e.id : e \in Sync!Overtaken}
        /\ map' = {e \in map : e.id # next} \cup {[id |-> next, owner |-> t]}
    BY <1>2, <1>11 DEF Sync!generateSeqId, Sync!Goes
  <2>2. next \in held => next \in reused'
    <3>1. ASSUME NEW e \in map, e.id = next
          PROVE  e \in Sync!Overtaken
      <4>1. PICK f \in map : ~ (e.id <= f.id)
        BY <1>11, <3>1 DEF Sync!AboutToRepeat
      <4>2. f.id < e.id
        BY <1>2, <4>1
      <4> QED
        BY <3>1, <4>2 DEF Sync!Overtaken
    <3> QED
      BY <2>1, <3>1 DEF Sync!Ids
  <2>3. held' = held \cup {next}
    <3>1. held' = {e.id : e \in map'} /\ held = {e.id : e \in map}
      BY DEF Sync!Ids
    <3>2. ASSUME NEW e \in map
          PROVE  e.id = next \/ e.id \in held'
      <4>1. e.id # next => e \in map'
        BY <2>1
      <4> QED
        BY <3>1, <4>1
    <3>4. [id |-> next, owner |-> t] \in map' /\ [id |-> next, owner |-> t].id = next
      BY <2>1
    <3>3. next \in held' /\ \A x \in held' : x = next \/ x \in held
      BY <2>1, <3>1, <3>4
    <3>5. \A x \in held : x = next \/ x \in held'
      BY <3>1, <3>2
    <3> HIDE DEF held, next, map
    <3> QED
      BY <3>3, <3>5
  <2>4. /\ \A u \in Sharer : UnderWay(u) => seqid[u] \in held \cup reused
        /\ \A m \in Messages : m.id \in held \cup reused \cup {Sync!NobodysId}
    BY <1>11 DEF SharedInv, IdsHeld
  <2>5. next # Sync!NobodysId
    BY PartsAssumption DEF Sync!IdsAssumption, Sync!NobodysId, SharedInv, SharedTyped, Sync!SyncTypeOK
  <2>6. \A u \in Sharer : u # t => (UnderWay(u)' <=> UnderWay(u))
    BY <1>6 DEF UnderWay
  <2> HIDE DEF next, held
  <2>7. IdsHeld'
    BY <1>4, <1>6, <2>1, <2>3, <2>4, <2>6 DEF IdsHeld, held
  <2>8. OneCaller'
    <3>1. ASSUME NEW u \in Sharer, u # t, UnderWay(u), seqid[u] = next
          PROVE  next \in reused'
      BY <1>6, <2>2, <2>4, <3>1
    <3> QED
      BY <1>6, <2>1, <2>6, <3>1 DEF SharedInv, OneCaller
  <2>9. ReplyToCall'
    <3>1. ASSUME NEW m \in Messages, m.id = next
          PROVE  next \in reused'
      BY <1>6, <2>2, <2>4, <2>5, <3>1
    <3> QED
      BY <1>3, <1>4, <1>6, <2>1, <2>6, <3>1 DEF SharedInv, ReplyToCall
  <2> QED
    BY <1>5, <1>8, <1>9, <2>7, <2>8, <2>9 DEF SharedInv
<1> QED
  BY <1>10, <1>11

\* What a call does to replies and ids after its first step: it takes an id out of the map only when it
\* ends with the reply that bears it, or when no ids are given out any more.
CallGoesOn ==
  /\ UNCHANGED <<made, seqid, reused>> /\ (stop_ => stop_')
  /\ \A u \in Sharer : (UnderWay(u)' => UnderWay(u)) /\ (Unsent(u)' => Unsent(u))

\* A reply is sent.
Sends(t) ==
  /\ UNCHANGED <<received, seqidToMonitorMap_, pendingMessage_, recvPending_>>
  /\ Unsent(t) /\ ~Unsent(t)' /\ UnderWay(t)
  /\ \A u \in Sharer : step'[u] = "idle" => step[u] = "idle"
  /\ \E id \in {seqid[t], Sync!NobodysId} :
       replies' = replies \cup {[id |-> id, caller |-> t, nth |-> made[t]]}

\* Nobody gets anything.
GoesQuietly ==
  /\ UNCHANGED received /\ Messages' \subseteq Messages
  /\ recvPending_' => pendingMessage_' \notin replies'
  /\ \A u \in Sharer : step'[u] = "idle" => step[u] = "idle"
  /\ stop_' \/ Sync!Ids(seqidToMonitorMap_) \subseteq Sync!Ids(seqidToMonitorMap_)'

\* Thread t gets m.
Gets(t, m) ==
  /\ m \in Messages /\ m.id = seqid[t] /\ UnderWay(t) /\ ~UnderWay(t)'
  /\ Messages' \subseteq Messages \ {m} /\ (recvPending_' => pendingMessage_' \notin replies')
  /\ received' = [received EXCEPT ![t] = m]
  /\ \A u \in Sharer : u # t => (step'[u] = "idle" => step[u] = "idle")
  /\ Sync!Ids(seqidToMonitorMap_)' = Sync!Ids(seqidToMonitorMap_) \ {seqid[t]}

LEMMA CallContinues ==
  ASSUME SharedTyped, OneReply, Sync!SyncNext, \A t \in Sharer : ~Sync!generateSeqId(t)
  PROVE  /\ CallGoesOn
         /\ \/ GoesQuietly \/ \E t \in Sharer : Sends(t)
            \/ \E t \in Sharer, m \in Messages : Gets(t, m)
<1> DEFINE Quiet == CallGoesOn /\ GoesQuietly
<1> USE DEF Sync!pending, Sync!mutexes, Sync!calls
<1>1. /\ DOMAIN step = Sharer /\ DOMAIN received = Sharer
      /\ recvPending_ => pendingMessage_ \notin replies
  BY DEF SharedTyped, Sync!SyncTypeOK, OneReply
\* A step of t that goes to a place further on, with the replies as they are.
<1>2. ASSUME NEW t \in Sharer, NEW place, Sync!Goes(t, place), UnderWay(t),
             place # "idle", place \notin {"numbered", "sending"} \/ Unsent(t),
             UNCHANGED <<made, seqid, reused, received>>, stop_ => stop_',
             \/ stop_'
             \/ Sync!Ids(seqidToMonitorMap_) \subseteq Sync!Ids(seqidToMonitorMap_)',
             Messages' \subseteq Messages, recvPending_' => pendingMessage_' \notin replies'
      PROVE  Quiet
  <2>1. step'[t] = place /\ \A u \in Sharer : u # t => step'[u] = step[u]
    BY <1>1, <1>2 DEF Sync!Goes
  <2>2. \A u \in Sharer : /\ UnderWay(u)' => UnderWay(u)
                          /\ Unsent(u)' => Unsent(u)
                          /\ step'[u] = "idle" => step[u] = "idle"
    BY <1>2, <2>1 DEF UnderWay, Unsent
  <2> QED
    BY <1>2, <2>2 DEF CallGoesOn, GoesQuietly
<1>3. UNCHANGED <<replies, recvPending_, pendingMessage_>> =>
        Messages' \subseteq Messages /\ (recvPending_' => pendingMessage_' \notin replies')
  BY <1>1 DEF Messages
<1>4. UNCHANGED seqidToMonitorMap_ =>
        Sync!Ids(seqidToMonitorMap_) \subseteq Sync!Ids(seqidToMonitorMap_)'
  BY DEF Sync!Ids
<1>5. ASSUME NEW t \in Sharer, Sync!Throws(t), UnderWay(t),
             Messages' \subseteq Messages, recvPending_' => pendingMessage_' \notin replies'
      PROVE  Quiet
  <2>1. PICK place \in {"failed", "died"} : Sync!Goes(t, place)
    BY <1>5 DEF Sync!Throws, Sync!FailsAndMarksBad, Sync!TellsAndGoes
  <2>2. stop_' /\ UNCHANGED <<made, seqid, reused, received>>
    BY <1>5 DEF Sync!Throws, Sync!FailsAndMarksBad
  <2> QED
    BY <1>2, <1>5, <2>1, <2>2
<1>6. ASSUME NEW t \in Sharer, NEW m \in Messages, Sync!Returns(t, m), UnderWay(t), m.id = seqid[t],
             Messages' \subseteq Messages \ {m}, recvPending_' => pendingMessage_' \notin replies'
      PROVE  CallGoesOn /\ Gets(t, m)
  <2>1. PICK place \in {"idle", "died"} : Sync!Goes(t, place)
    BY <1>6 DEF Sync!Returns, Sync!TellsAndGoes
  <2>2. step'[t] = place /\ \A u \in Sharer : u # t => step'[u] = step[u]
    BY <1>1, <2>1 DEF Sync!Goes
  <2>3. /\ ~UnderWay(t)' /\ ~Unsent(t)'
        /\ \A u \in Sharer : u # t => /\ UnderWay(u)' = UnderWay(u) /\ Unsent(u)' = Unsent(u)
    BY <2>2 DEF UnderWay, Unsent
  <2>4. /\ UNCHANGED <<made, seqid, reused, stop_>> /\ received' = [received EXCEPT ![t] = m]
        /\ seqidToMonitorMap_' = {e \in seqidToMonitorMap_ : e.id # seqid[t]}
    BY <1>6 DEF Sync!Returns, Sync!MapWithout
  <2>5. Sync!Ids(seqidToMonitorMap_)' = Sync!Ids(seqidToMonitorMap_) \ {seqid[t]}
    BY <2>4 DEF Sync!Ids
  <2>6. CallGoesOn
    BY <2>3, <2>4 DEF CallGoesOn
  <2> QED
    BY <1>6, <2>2, <2>3, <2>4, <2>5, <2>6 DEF Gets
<1>7. ASSUME NEW t \in Sharer, NEW m \in Messages, Sync!HandOver(t, m), UnderWay(t),
             m \notin replies', replies' \subseteq replies
      PROVE  Quiet
  <2>1. Messages' \subseteq Messages /\ (recvPending_' => pendingMessage_' \notin replies')
    BY <1>7 DEF Sync!HandOver, Messages
  <2>2. CASE m.id \in Sync!Ids(seqidToMonitorMap_)
    <3>1. /\ UNCHANGED <<made, seqid, reused, received, stop_>>
          /\ seqidToMonitorMap_ \subseteq seqidToMonitorMap_'
      BY <1>7, <2>2 DEF Sync!HandOver, Sync!LookedUp
    <3>2. PICK place \in {"unmonitored", "checking", "died"} : Sync!Goes(t, place)
      BY <1>7, <2>2 DEF Sync!HandOver, Sync!TellsAndGoes
    <3>3. Sync!Ids(seqidToMonitorMap_) \subseteq Sync!Ids(seqidToMonitorMap_)'
      BY <3>1 DEF Sync!Ids
    <3> QED
      BY <1>2, <1>7, <2>1, <3>1, <3>2, <3>3
  <2>3. CASE m.id \notin Sync!Ids(seqidToMonitorMap_)
    BY <1>5, <1>7, <2>1, <2>3 DEF Sync!HandOver
  <2> QED
    BY <2>2, <2>3
<1>8. ASSUME NEW t \in Sharer, Sync!BeginSend(t)
      PROVE  Quiet
  <2>1. Sync!Goes(t, "sending") /\ UnderWay(t) /\ Unsent(t)
    BY <1>8 DEF Sync!BeginSend, UnderWay, Unsent
  <2>2. UNCHANGED <<made, seqid, reused, received, stop_, replies, recvPending_, pendingMessage_,
                    seqidToMonitorMap_>>
    BY <1>8 DEF Sync!BeginSend
  <2> QED
    BY <1>2, <1>3, <1>4, <2>1, <2>2
<1>9. ASSUME NEW t \in Sharer, Sync!EndSend(t)
      PROVE  CallGoesOn /\ Sends(t)
  <2>1. step'[t] = "sent" /\ step[t] = "sending" /\ \A u \in Sharer : u # t => step'[u] = step[u]
    BY <1>1, <1>9 DEF Sync!EndSend, Sync!Goes
  <2>2. UNCHANGED <<made, seqid, reused, received, stop_, recvPending_, pendingMessage_,
                    seqidToMonitorMap_>>
    BY <1>9 DEF Sync!EndSend
  <2>3. \E id \in {seqid[t], Sync!NobodysId} :
          replies' = replies \cup {[id |-> id, caller |-> t, nth |-> made[t]]}
    BY <1>9 DEF Sync!EndSend
  <2>4. CallGoesOn
    BY <2>1, <2>2 DEF CallGoesOn, UnderWay, Unsent
  <2>5. Unsent(t) /\ ~Unsent(t)' /\ UnderWay(t) /\ \A u \in Sharer : step'[u] = "idle" => step[u] = "idle"
    BY <2>1 DEF UnderWay, Unsent
  <2> QED
    BY <2>2, <2>3, <2>4, <2>5 DEF Sends
<1>10. ASSUME NEW t \in Sharer,
              Sync!BeginReceive(t) \/ Sync!Sleep(t) \/ Sync!WakeUp(t) \/ (Sync!Check(t) /\ ~stop_)
       PROVE  Quiet
  <2>1. PICK place \in {"receiving", "waiting", "checking", "dozing", "died"} : Sync!Goes(t, place)
    BY <1>10 DEF Sync!BeginReceive, Sync!Sleep, Sync!WakeUp, Sync!Check
  <2>2. UnderWay(t)
    BY <1>10 DEF Sync!BeginReceive, Sync!Sleep, Sync!WakeUp, Sync!Check, UnderWay
  <2>3. UNCHANGED <<made, seqid, reused, received, stop_, replies, recvPending_, pendingMessage_,
                    seqidToMonitorMap_>>
    BY <1>10 DEF Sync!BeginReceive, Sync!Sleep, Sync!WakeUp, Sync!Check
  <2> QED
    BY <1>2, <1>3, <1>4, <2>1, <2>2, <2>3
<1>11. ASSUME NEW t \in Sharer, Sync!ReadFails(t) \/ (stop_ /\ (Sync!Check(t) \/ Sync!getPending(t)))
       PROVE  Quiet
  <2>1. /\ Sync!Throws(t) /\ UNCHANGED <<recvPending_, pendingMessage_, replies>>
    BY <1>11 DEF Sync!ReadFails, Sync!Check, Sync!getPending
  <2>2. UnderWay(t)
    BY <1>11 DEF Sync!ReadFails, Sync!Check, Sync!getPending, UnderWay
  <2> QED
    BY <1>3, <1>5, <2>1, <2>2
<1>12. ASSUME NEW t \in Sharer, Sync!SendFails(t)
       PROVE  Quiet
  <2>1. PICK place \in {"failed", "died"} : Sync!Goes(t, place)
    BY <1>12 DEF Sync!SendFails, Sync!FailsAndMarksBad, Sync!TellsAndGoes
  <2>2. stop_' /\ UnderWay(t) /\ UNCHANGED <<made, seqid, reused, received, replies, recvPending_,
                                             pendingMessage_>>
    BY <1>12 DEF Sync!SendFails, Sync!FailsAndMarksBad, UnderWay
  <2> QED
    BY <1>2, <1>3, <2>1, <2>2
<1>13. ASSUME NEW t \in Sharer, Sync!getPending(t), ~stop_
       PROVE  Quiet \/ (CallGoesOn /\ \E m \in Messages : Gets(t, m))
  <2>1. UnderWay(t)
    BY <1>13 DEF Sync!getPending, UnderWay
  <2>2. CASE ~recvPending_
    <3>1. Sync!Goes(t, "reading")
          /\ UNCHANGED <<made, seqid, reused, received, stop_, replies, recvPending_, pendingMessage_,
                         seqidToMonitorMap_>>
      BY <1>13, <2>2 DEF Sync!getPending
    <3> QED
      BY <1>2, <1>3, <1>4, <2>1, <3>1
  <2>3. CASE recvPending_ /\ pendingMessage_.id = seqid[t]
    <3>1. /\ Sync!Returns(t, pendingMessage_) /\ ~recvPending_' /\ replies' = replies
          /\ pendingMessage_ \in Messages
      BY <1>13, <2>3 DEF Sync!getPending, Messages
    <3>2. Messages' \subseteq Messages \ {pendingMessage_}
      BY <1>1, <2>3, <3>1 DEF Messages
    <3> QED
      BY <1>6, <2>1, <2>3, <3>1, <3>2
  <2>4. CASE recvPending_ /\ pendingMessage_.id # seqid[t]
    <3>1. Sync!HandOver(t, pendingMessage_) /\ replies' = replies /\ pendingMessage_ \in Messages
      BY <1>13, <2>4 DEF Sync!getPending, Messages
    <3> QED
      BY <1>1, <1>7, <2>1, <2>4, <3>1
  <2> QED
    BY <2>2, <2>3, <2>4
<1>14. ASSUME NEW t \in Sharer, NEW m \in replies, Sync!ReadReply(t, m)
       PROVE  Quiet \/ (CallGoesOn /\ Gets(t, m))
  <2>1. UnderWay(t) /\ m \in Messages /\ replies' = replies \ {m}
    BY <1>14 DEF Sync!ReadReply, UnderWay, Messages
  <2>2. CASE m.id = seqid[t]
    <3>1. Sync!Returns(t, m) /\ UNCHANGED <<recvPending_, pendingMessage_>>
      BY <1>14, <2>2 DEF Sync!ReadReply
    <3>2. Messages' \subseteq Messages \ {m} /\ (recvPending_' => pendingMessage_' \notin replies')
      BY <1>1, <1>14, <2>1, <3>1 DEF Messages
    <3> QED
      BY <1>6, <2>1, <2>2, <3>1, <3>2
  <2>3. CASE m.id # seqid[t]
    <3>1. Sync!HandOver(t, m)
      BY <1>14, <2>3 DEF Sync!ReadReply
    <3> QED
      BY <1>7, <2>1, <3>1
  <2> QED
    BY <2>2, <2>3
<1>15. ASSUME NEW t \in Sharer, Sync!Spurious(t)
       PROVE  Quiet
  <2>1. UNCHANGED <<made, seqid, reused, received, stop_, replies, recvPending_, pendingMessage_,
                    seqidToMonitorMap_, step>>
    BY <1>15 DEF Sync!Spurious
  <2> QED
    BY <1>3, <1>4, <2>1 DEF CallGoesOn, GoesQuietly, UnderWay, Unsent
<1>16. PICK t \in Sharer : Sync!Calling(t) \/ Sync!SendFails(t) \/ Sync!ReadFails(t) \/ Sync!Spurious(t)
  BY DEF Sync!SyncNext
<1>17. CASE Sync!Calling(t)
  <2>1. CASE \E m \in replies : Sync!ReadReply(t, m)
    BY <1>14, <2>1 DEF Messages
  <2>2. CASE ~ \E m \in replies : Sync!ReadReply(t, m)
    BY <1>8, <1>9, <1>10, <1>11, <1>13, <1>17, <2>2 DEF Sync!Calling
  <2> QED
    BY <2>1, <2>2
<1> QED
  BY <1>11, <1>12, <1>15, <1>16, <1>17

LEMMA MessagesTyped ==
  ASSUME SharedInv, Sync!SyncNext, \A t \in Sharer : ~Sync!generateSeqId(t)
  PROVE  SharedTyped'
<1> DEFINE State == [id : Int, caller : Sharer, nth : Int]
<1>1. Sync!SyncTypeOK'
  BY SharedTypesKept DEF SharedInv, SharedTyped
<1>2. \/ GoesQuietly \/ \E t \in Sharer : Sends(t)
      \/ \E t \in Sharer, m \in Messages : Gets(t, m)
  BY CallContinues DEF SharedInv
<1>3. Messages \subseteq State /\ DOMAIN received = Sharer
  BY DEF SharedInv, SharedTyped
<1>4. ASSUME NEW t \in Sharer, Sends(t)
      PROVE  Messages' \subseteq State /\ DOMAIN received' = Sharer
  <2>1. seqid[t] \in Int /\ Sync!NobodysId \in Int /\ made[t] \in Int
    BY PartsAssumption
       DEF SharedInv, SharedTyped, Sync!SyncTypeOK, Sync!NobodysId, Sync!IdsAssumption
  <2>2. PICK id \in {seqid[t], Sync!NobodysId} :
          replies' = replies \cup {[id |-> id, caller |-> t, nth |-> made[t]]}
    BY <1>4 DEF Sends
  <2>3. [id |-> id, caller |-> t, nth |-> made[t]] \in State
    BY <2>1
  <2> QED
    BY <1>3, <1>4, <2>2, <2>3 DEF Sends, Messages
<1>5. CASE GoesQuietly
  BY <1>1, <1>3, <1>5 DEF GoesQuietly, SharedTyped
<1>6. CASE \E t \in Sharer, m \in Messages : Gets(t, m)
  BY <1>1, <1>3, <1>6 DEF Gets, SharedTyped
<1> QED
  BY <1>1, <1>2, <1>4, <1>5, <1>6 DEF SharedTyped

LEMMA CallKept ==
  ASSUME SharedInv, SharedTyped', CallGoesOn,
         \/ GoesQuietly \/ \E t \in Sharer : Sends(t)
         \/ \E t \in Sharer, m \in Messages : Gets(t, m)
  PROVE  SharedInv'
<1>1. /\ OneReply /\ ReplyToCall /\ OneCaller /\ Sync!OwnReply /\ IdsHeld
      /\ \A m \in Messages : m.caller \in Sharer /\ m.nth \in Int
      /\ \A u \in Sharer : made[u] \in Int
  BY DEF SharedInv, SharedTyped, Sync!SyncTypeOK
<1>2. OneCaller'
  BY <1>1 DEF OneCaller, CallGoesOn
<1>3. ASSUME Messages' \subseteq Messages, recvPending_' => pendingMessage_' \notin replies'
      PROVE  OneReply' /\ ReplyToCall'
  BY <1>1, <1>3 DEF CallGoesOn, OneReply, ReplyToCall
<1>4. CASE GoesQuietly
  <2>1. IdsHeld'
    BY <1>1, <1>4 DEF GoesQuietly, CallGoesOn, IdsHeld
  <2>2. Sync!OwnReply'
    BY <1>1, <1>4 DEF GoesQuietly, CallGoesOn, Sync!OwnReply
  <2> QED
    BY <1>2, <1>3, <1>4, <2>1, <2>2 DEF SharedInv, GoesQuietly
<1>5. ASSUME NEW t \in Sharer, Sends(t)
      PROVE  SharedInv'
  <2>1. PICK id \in {seqid[t], Sync!NobodysId} :
          replies' = replies \cup {[id |-> id, caller |-> t, nth |-> made[t]]}
    BY <1>5 DEF Sends
  <2> DEFINE w == [id |-> id, caller |-> t, nth |-> made[t]]
  <2>2. w.id = id /\ w.caller = t /\ w.nth = made[t]
    OBVIOUS
  <2>3. /\ UNCHANGED <<pendingMessage_, recvPending_, received, seqidToMonitorMap_>>
        /\ replies' = replies \cup {w} /\ Messages' = Messages \cup {w}
    BY <1>5, <2>1 DEF Sends, Messages
  <2> HIDE DEF w
  <2>4. \A m \in Messages : ~(m.caller = t /\ m.nth = made[t])
    BY <1>1, <1>5 DEF OneReply, Sends
  <2>5. w \notin Messages
    BY <2>2, <2>4
  <2>6. OneReply'
    <3>1. recvPending_' => pendingMessage_' \notin replies'
      BY <1>1, <2>3, <2>5 DEF OneReply, Messages
    <3>2. \A m \in Messages' : /\ m.nth <= made'[m.caller]
                               /\ m.nth = made'[m.caller] => ~Unsent(m.caller)'
      BY <1>1, <1>5, <2>2, <2>3 DEF OneReply, CallGoesOn, Sends
    <3>3. \A m, n \in Messages' : m.caller = n.caller /\ m.nth = n.nth => m = n
      BY <1>1, <2>2, <2>3, <2>4 DEF OneReply
    <3> QED
      BY <3>1, <3>2, <3>3 DEF OneReply
  <2>7. IdsHeld'
    BY <1>1, <1>5, <2>2, <2>3 DEF IdsHeld, CallGoesOn, Sends, Sync!Ids
  <2>8. ReplyToCall'
    <3>1. ASSUME NEW u \in Sharer, UnderWay(u), w.id = seqid[u], w.id \notin reused
          PROVE  u = t
      <4>1. seqid[u] \in Int /\ seqid[u] # Sync!NobodysId
        BY PartsAssumption
           DEF SharedInv, SharedTyped, Sync!SyncTypeOK, Sync!NobodysId, Sync!IdsAssumption
      <4>2. w.id = seqid[t] /\ UnderWay(t)
        BY <1>5, <2>2, <3>1, <4>1 DEF Sends
      <4> QED
        BY <1>1, <3>1, <4>2 DEF OneCaller
    <3> QED
      BY <1>1, <2>2, <2>3, <3>1 DEF ReplyToCall, CallGoesOn
  <2>9. Sync!OwnReply'
    BY <1>1, <1>5 DEF Sends, CallGoesOn, Sync!OwnReply
  <2> QED
    BY <1>2, <2>6, <2>7, <2>8, <2>9 DEF SharedInv
<1>6. ASSUME NEW t \in Sharer, NEW m \in Messages, Gets(t, m)
      PROVE  SharedInv'
  <2> DEFINE held == Sync!Ids(seqidToMonitorMap_)
  <2>1. /\ m.id = seqid[t] /\ UnderWay(t) /\ ~UnderWay(t)'
        /\ Messages' \subseteq Messages \ {m} /\ (recvPending_' => pendingMessage_' \notin replies')
        /\ held' = held \ {seqid[t]} /\ received' = [received EXCEPT ![t] = m]
        /\ \A u \in Sharer : u # t => (step'[u] = "idle" => step[u] = "idle")
    BY <1>6 DEF Gets
  <2>2. OneReply' /\ ReplyToCall'
    BY <1>3, <2>1
  <2>3. m.id \notin reused => m.caller = t /\ m.nth = made[t]
    BY <1>1, <2>1 DEF ReplyToCall
  <2>4. ASSUME NEW n \in Messages', n.id = seqid[t]
        PROVE  n.id \in reused
    <3>1. n \in Messages /\ n # m
      BY <2>1, <2>4
    <3>2. n.id \notin reused => n.caller = t /\ n.nth = made[t]
      BY <1>1, <2>1, <2>4, <3>1 DEF ReplyToCall
    <3> QED
      BY <1>1, <2>1, <2>3, <2>4, <3>1, <3>2 DEF OneReply
  <2>5. ASSUME NEW u \in Sharer, UnderWay(u)', seqid[u] = seqid[t]
        PROVE  seqid[u] \in reused
    BY <1>1, <2>1, <2>5 DEF OneCaller, CallGoesOn
  <2>6. IdsHeld'
    <3> SUFFICES ASSUME ~stop_'
                 PROVE  /\ \A u \in Sharer : UnderWay(u)' => seqid[u] \in held' \cup reused
                        /\ \A n \in Messages' : n.id \in held' \cup reused \cup {Sync!NobodysId}
      BY DEF IdsHeld, CallGoesOn
    <3>1. /\ \A u \in Sharer : UnderWay(u) => seqid[u] \in held \cup reused
          /\ \A n \in Messages : n.id \in held \cup reused \cup {Sync!NobodysId}
      BY <1>1 DEF IdsHeld, CallGoesOn
    <3> HIDE DEF held
    <3>2. \A u \in Sharer : UnderWay(u)' => seqid[u] \in held' \cup reused
      BY <2>1, <2>5, <3>1 DEF CallGoesOn
    <3>3. \A n \in Messages' : n.id \in held' \cup reused \cup {Sync!NobodysId}
      BY <2>1, <2>4, <3>1
    <3> QED
      BY <3>2, <3>3
  <2>7. Sync!OwnReply'
    <3>1. DOMAIN received = Sharer /\ made' = made /\ reused' = reused
      BY DEF SharedInv, SharedTyped, CallGoesOn
    <3>2. \A u \in Sharer : received'[u] = IF u = t THEN m ELSE received[u]
      BY <2>1, <3>1
    <3> QED
      BY <1>1, <2>1, <2>3, <3>1, <3>2 DEF Sync!OwnReply
  <2> QED
    BY <1>2, <2>2, <2>6, <2>7 DEF SharedInv
<1> QED
  BY <1>4, <1>5, <1>6

LEMMA SharedStep ==
  ASSUME SharedInv, [NNext]_<<part, serverVars, syncVars, nbVars, fileVars>>
  PROVE  SharedInv'
<1>1. CASE Sync!SyncNext
  <2>1. CASE \E t \in Sharer : Sync!generateSeqId(t)
    BY <1>1, <2>1, CallBegins
  <2>2. CASE \A t \in Sharer : ~Sync!generateSeqId(t)
    <3>1. SharedTyped'
      BY <1>1, <2>2, MessagesTyped DEF SharedInv
    <3> QED
      BY <1>1, <2>2, <3>1, CallContinues, CallKept DEF SharedInv
  <2> QED
    BY <2>1, <2>2
<1>2. CASE UNCHANGED syncVars
  BY <1>2
     DEF syncVars, SharedInv, SharedTyped, Sync!SyncTypeOK, IdsHeld, OneCaller, OneReply, ReplyToCall,
         UnderWay, Unsent, Messages, Sync!Ids, Sync!OwnReply
<1> QED
  BY <1>1, <1>2 DEF NNext

LEMMA SharedInvariant == NSpec => []SharedInv
<1>1. NInit => SharedInv
  BY SharedBegins DEF NInit
<1>2. SharedInv /\ [NNext]_<<part, serverVars, syncVars, nbVars, fileVars>> => SharedInv'
  BY SharedStep
<1> QED
  BY <1>1, <1>2, PTL DEF NSpec

\* Whatever thread reads a reply from the shared connection, a call returns the reply to its own
\* request, for any number of threads and calls and any range of ids; only where generateSeqId has given
\* an id out a second time, because it was in use but not the smallest in use, it may be another's.
THEOREM CallersGetTheirReplies == NSpec => []OwnReply
<1>1. SharedInv => OwnReply
  BY DEF SharedInv, OwnReply
<1> QED
  BY <1>1, SharedInvariant, PTL

-----------------------------------------------------------------------------
\* Sequences without repetition.

Elements(s) == {s[k] : k \in DOMAIN s}
Once(s) == \A k, l \in DOMAIN s : s[k] = s[l] => k = l

LEMMA NoElements == Elements(<< >>) = {} /\ Once(<< >>)
  BY DEF Elements, Once

LEMMA WithoutFirst ==
  ASSUME NEW X, NEW s \in Seq(X), s # << >>
  PROVE  /\ Tail(s) \in Seq(X) /\ Head(s) \in X /\ Head(s) \in Elements(s)
         /\ Elements(s) \subseteq X /\ Elements(Tail(s)) \subseteq Elements(s)
         /\ Len(Tail(s)) <= Len(s)
         /\ Once(s) => Once(Tail(s)) /\ Elements(Tail(s)) = Elements(s) \ {Head(s)}
<1>1. /\ Len(s) \in Nat /\ Len(s) > 0 /\ Tail(s) \in Seq(X) /\ Head(s) = s[1]
      /\ Len(Tail(s)) = Len(s) - 1 /\ \A k \in 1 .. Len(s) - 1 : Tail(s)[k] = s[k + 1]
  OBVIOUS
<1>2. DOMAIN s = 1 .. Len(s) /\ DOMAIN Tail(s) = 1 .. Len(s) - 1 /\ \A k \in DOMAIN s : s[k] \in X
  BY <1>1
<1> DEFINE r == Tail(s)
<1> HIDE DEF r
<1>3. Head(s) \in X /\ Head(s) \in Elements(s) /\ Elements(s) \subseteq X
  BY <1>1, <1>2 DEF Elements
<1>4. Elements(r) \subseteq Elements(s)
  BY <1>1, <1>2 DEF Elements, r
<1>5. ASSUME Once(s)
      PROVE  Once(r) /\ Head(s) \notin Elements(r)
  BY <1>1, <1>2, <1>5 DEF Once, Elements, r
<1>6. \A x \in Elements(s) : x # Head(s) => x \in Elements(r)
  <2> SUFFICES ASSUME NEW k \in DOMAIN s, s[k] # s[1]
               PROVE  s[k] \in Elements(r)
    BY <1>1 DEF Elements
  <2>1. k - 1 \in DOMAIN r /\ r[k - 1] = s[k]
    BY <1>1, <1>2 DEF r
  <2> QED
    BY <2>1 DEF Elements
<1> QED
  BY <1>1, <1>3, <1>4, <1>5, <1>6 DEF r

LEMMA WithLast ==
  ASSUME NEW X, NEW s \in Seq(X), NEW x \in X
  PROVE  /\ Append(s, x) \in Seq(X) /\ Elements(Append(s, x)) = Elements(s) \cup {x}
         /\ Len(Append(s, x)) = Len(s) + 1
         /\ Once(s) /\ x \notin Elements(s) => Once(Append(s, x))
<1>1. /\ Len(s) \in Nat /\ Append(s, x) \in Seq(X) /\ Len(Append(s, x)) = Len(s) + 1
      /\ \A k \in 1 .. Len(s) : Append(s, x)[k] = s[k]
      /\ Append(s, x)[Len(s) + 1] = x
      /\ DOMAIN s = 1 .. Len(s) /\ DOMAIN Append(s, x) = 1 .. Len(s) + 1
  OBVIOUS
<1> DEFINE r == Append(s, x)
<1> HIDE DEF r
<1>2. Elements(r) \subseteq Elements(s) \cup {x}
  BY <1>1 DEF Elements, r
<1>3. x \in Elements(r) /\ Elements(s) \subseteq Elements(r)
  <2>1. Len(s) + 1 \in DOMAIN r /\ \A k \in DOMAIN s : k \in DOMAIN r /\ r[k] = s[k]
    BY <1>1 DEF r
  <2> QED
    BY <1>1, <2>1 DEF Elements, r
<1>4. Once(s) /\ x \notin Elements(s) => Once(r)
  BY <1>1 DEF Once, Elements, r
<1> QED
  BY <1>1, <1>2, <1>3, <1>4 DEF r

LEMMA WithFirst ==
  ASSUME NEW X, NEW s \in Seq(X), NEW x \in X
  PROVE  /\ <<x>> \o s \in Seq(X) /\ Elements(<<x>> \o s) = Elements(s) \cup {x}
         /\ Len(<<x>> \o s) = Len(s) + 1
         /\ Once(s) /\ x \notin Elements(s) => Once(<<x>> \o s)
<1>1. /\ Len(s) \in Nat /\ <<x>> \o s \in Seq(X) /\ Len(<<x>> \o s) = Len(s) + 1
      /\ \A k \in 1 .. Len(s) : (<<x>> \o s)[k + 1] = s[k]
      /\ (<<x>> \o s)[1] = x
      /\ DOMAIN s = 1 .. Len(s) /\ DOMAIN (<<x>> \o s) = 1 .. Len(s) + 1
  OBVIOUS
<1> DEFINE r == <<x>> \o s
<1> HIDE DEF r
<1>2. ASSUME NEW k \in DOMAIN r
      PROVE  (k = 1 /\ r[k] = x) \/ (k - 1 \in DOMAIN s /\ r[k] = s[k - 1])
  <2>1. CASE k = 1
    <3>1. r[1] = x
      BY <1>1 DEF r
    <3> QED
      BY <2>1, <3>1
  <2>2. CASE k # 1
    <3>1. k - 1 \in 1 .. Len(s) /\ (k - 1) + 1 = k
      BY <1>1, <2>2 DEF r
    <3>2. r[(k - 1) + 1] = s[k - 1]
      BY <1>1, <3>1 DEF r
    <3> QED
      BY <1>1, <3>1, <3>2
  <2> QED
    BY <2>1, <2>2
<1>3. x \in Elements(r) /\ Elements(s) \subseteq Elements(r)
  <2>1. 1 \in DOMAIN r /\ \A k \in DOMAIN s : k + 1 \in DOMAIN r /\ r[k + 1] = s[k]
    BY <1>1 DEF r
  <2> QED
    BY <1>1, <2>1 DEF Elements, r
<1>4. Elements(r) \subseteq Elements(s) \cup {x}
  BY <1>2 DEF Elements
<1>5. Once(s) /\ x \notin Elements(s) => Once(r)
  <2>1. DOMAIN r \subseteq Int /\ DOMAIN s \subseteq Int
    BY <1>1 DEF r
  <2> QED
    BY <1>2, <2>1 DEF Once, Elements
<1> QED
  BY <1>1, <1>3, <1>4, <1>5 DEF r

-----------------------------------------------------------------------------
\* The nonblocking server: where the pointer to a connection is.

AtEvent(c) == eventFlags_[c] # "idle"
InQueue(c) == c \in Elements(tasks_)
AtWorker(c) == \E w \in Worker : running[w] = c
AtWriter(c) == \E t \in NB!Thread \cup Worker : writing[t] = c
InPipe(c) == \E i \in NB!Thread : c \in Elements(pipe[i])

NBTyped ==
  /\ threadPoolProcessing_ \in BOOLEAN
  /\ come \in 0 .. Senders /\ unsent \in [NB!Sender -> 0 .. Requests]
  /\ appState_ \in [NB!Conn -> {"INIT", "READ_FRAME_SIZE", "READ_REQUEST", "WAIT_TASK",
                                "SEND_RESULT", "CLOSE_CONNECTION"}]
  /\ eventFlags_ \in [NB!Conn -> {"idle", "read", "write"}]
  /\ ioThread_ \in [NB!Conn -> NB!Thread \cup {None}]
  /\ {tSocket_, request, output} \subseteq [NB!Conn -> NB!Sender \cup {None}]
  /\ activeConnections_ \subseteq NB!Conn
  /\ connectionStack_ \in Seq(NB!Conn) /\ tasks_ \in Seq(NB!Conn)
  /\ nextIOThread_ \in NB!Thread
  /\ connMutex_ \in {0, None} /\ accepted \in NB!Sender \cup {None}
  /\ writing \in [NB!Thread \cup Worker -> NB!Conn \cup {None}]
  /\ running \in [Worker -> NB!Conn \cup {None}]
  /\ pipe \in [NB!Thread -> Seq(NB!Conn \cup {NB!Stop})]

\* Nothing is twice in a queue, and no connection that is in use on the stack.
NoRepeats ==
  /\ Once(tasks_) /\ Once(connectionStack_)
  /\ \A i \in NB!Thread : Once(pipe[i]) /\ (NB!Stop \in Elements(pipe[i]) => i \in stops)
  /\ \A c \in Elements(connectionStack_) : c \notin activeConnections_

\* No two threads have the same connection, and only its own IO thread hears of it.
OneWorker == \A v, w \in Worker : running[v] = running[w] => v = w \/ running[v] = None
OneWriter ==
  \A t, u \in NB!Thread \cup Worker : writing[t] = writing[u] => t = u \/ writing[t] = None
OneThread == \A i \in NB!Thread : \A c \in NB!Conn : c \in Elements(pipe[i]) => ioThread_[c] = i

\* A worker does one thing at a time.
OneHand == \A w \in Worker : running[w] = None \/ writing[w] = None

Single == OneWorker /\ OneWriter /\ OneThread /\ OneHand

\* A connection that is not in use is nowhere; one that is is in one place, which goes
\* with its state.
InPlace(c) ==
  /\ c \notin activeConnections_ =>
       ~AtEvent(c) /\ ~InQueue(c) /\ ~AtWorker(c) /\ ~AtWriter(c) /\ ~InPipe(c)
  /\ c \in activeConnections_ =>
       /\ ioThread_[c] \in NB!Thread /\ tSocket_[c] \in NB!Sender
       /\ appState_[c] \in {"READ_FRAME_SIZE", "READ_REQUEST"} <=> eventFlags_[c] = "read"
       /\ appState_[c] = "SEND_RESULT" <=> eventFlags_[c] = "write"
       /\ InQueue(c) \/ AtWorker(c) => appState_[c] = "WAIT_TASK"
       /\ AtEvent(c) \/ InQueue(c) \/ AtWorker(c) \/ AtWriter(c) \/ InPipe(c)
       /\ InQueue(c) => ~AtWorker(c) /\ ~AtWriter(c) /\ ~InPipe(c)
       /\ AtWorker(c) => ~AtWriter(c) /\ ~InPipe(c)
       /\ AtWriter(c) => ~InPipe(c)
       /\ AtEvent(c) => ~InQueue(c) /\ ~AtWorker(c) /\ ~AtWriter(c) /\ ~InPipe(c)

Placed == \A c \in NB!Conn : InPlace(c)

\* Its buffers are those of the peer it has.
OfItsPeer ==
  \A c \in activeConnections_ :
    /\ appState_[c] = "WAIT_TASK" => request[c] = tSocket_[c] /\ output[c] \in {None, tSocket_[c]}
    /\ eventFlags_[c] = "write" => output[c] = tSocket_[c]

NBInv == NBTyped /\ NoRepeats /\ Single /\ Placed /\ OfItsPeer

LEMMA OneFewer ==
  ASSUME NEW S, NEW R \in Nat, NEW f \in [S -> 0 .. R], NEW x, f[x] > 0
  PROVE  [f EXCEPT ![x] = f[x] - 1] \in [S -> 0 .. R]
<1>1. CASE x \in S
  <2>1. f[x] - 1 \in 0 .. R
    BY <1>1
  <2> QED
    BY <2>1
<1>2. CASE x \notin S
  <2>1. [f EXCEPT ![x] = f[x] - 1] = f
    BY <1>2
  <2> QED
    BY <2>1
<1> QED
  BY <1>1, <1>2

LEMMA NBTypesKept ==
  ASSUME NBTyped, NB!NonblockingNext
  PROVE  NBTyped'
<1> USE DEF NBTyped, NB!peers, NB!connections, NB!objects, NB!pool
<1>1. ASSUME NEW i \in NB!Thread, NB!StopThread(i)
      PROVE  NBTyped'
  <2>1. Append(pipe[i], NB!Stop) \in Seq(NB!Conn \cup {NB!Stop})
    BY WithLast
  <2>2. pipe' \in [NB!Thread -> Seq(NB!Conn \cup {NB!Stop})]
    BY <1>1, <2>1 DEF NB!StopThread
  <2> QED
    BY <1>1, <2>2 DEF NB!StopThread
<1>2. CASE NB!StopPool
  BY <1>2 DEF NB!StopPool
<1>3. ASSUME NEW i \in NB!Thread, NB!Registers(i)
      PROVE  NBTyped'
  BY <1>3 DEF NB!Registers
<1>4. ASSUME NEW p \in NB!Sender, NB!Accept(p)
      PROVE  NBTyped'
  <2>1. tasks_ # << >> => Tail(tasks_) \in Seq(NB!Conn) /\ Head(tasks_) \in NB!Conn
    BY WithoutFirst
  <2>2. 0 \in NB!Thread
    BY PartsAssumption DEF NB!IOThreadsAssumption, NB!Thread
  <2>3. come' \in 0 .. Senders
    BY <1>4 DEF NB!Accept, NB!Looping, NB!Unlocked, NB!Sender
  <2>4. /\ tasks_' \in Seq(NB!Conn) /\ accepted' \in NB!Sender \cup {None}
    BY <1>4, <2>1 DEF NB!Accept, NB!Looping, NB!Unlocked
  <2>5. /\ connMutex_' \in {0, None}
        /\ writing' \in [NB!Thread \cup Worker -> NB!Conn \cup {None}]
        /\ appState_' \in [NB!Conn -> {"INIT", "READ_FRAME_SIZE", "READ_REQUEST", "WAIT_TASK",
                                       "SEND_RESULT", "CLOSE_CONNECTION"}]
    <3>1. CASE UNCHANGED <<connMutex_, writing, appState_>>
      BY <3>1
    <3>2. CASE /\ tasks_ # << >> /\ connMutex_' = 0
               /\ appState_' = [appState_ EXCEPT ![Head(tasks_)] = "CLOSE_CONNECTION"]
               /\ writing' = [writing EXCEPT ![0] = Head(tasks_)]
      <4>1. /\ writing' \in [NB!Thread \cup Worker -> NB!Conn \cup {None}]
        BY <2>1, <2>2, <3>2
      <4>2. appState_' \in [NB!Conn -> {"INIT", "READ_FRAME_SIZE", "READ_REQUEST", "WAIT_TASK",
                                       "SEND_RESULT", "CLOSE_CONNECTION"}]
        BY <2>1, <3>2
      <4> QED
        BY <3>2, <4>1, <4>2
    <3> QED
      BY <1>4, <3>1, <3>2 DEF NB!Accept
  <2> QED
    BY <1>4, <2>3, <2>4, <2>5 DEF NB!Accept, NB!Looping, NB!Unlocked
<1>5. ASSUME NEW c \in NB!Conn, NB!CreateConnection(c)
      PROVE  NBTyped'
  <2>1. nextIOThread_' \in NB!Thread
    BY <1>5, PartsAssumption DEF NB!IOThreadsAssumption, NB!Thread, NB!CreateConnection
  <2>2. connectionStack_' \in Seq(NB!Conn)
    <3>1. <<c>> \in Seq(NB!Conn)
      OBVIOUS
    <3>2. << >> \in Seq(NB!Conn)
      OBVIOUS
    <3>3. connectionStack_ # << >> => Tail(connectionStack_) \in Seq(NB!Conn)
      BY WithoutFirst
    <3> QED
      BY <1>5, <3>1, <3>2, <3>3 DEF NB!CreateConnection, NB!Reused, NB!Fresh
  <2>3. /\ activeConnections_' \subseteq NB!Conn
        /\ ioThread_' \in [NB!Conn -> NB!Thread \cup {None}]
    BY <1>5 DEF NB!CreateConnection
  <2>6. /\ appState_' \in [NB!Conn -> {"INIT", "READ_FRAME_SIZE", "READ_REQUEST", "WAIT_TASK",
                                       "SEND_RESULT", "CLOSE_CONNECTION"}]
        /\ eventFlags_' \in [NB!Conn -> {"idle", "read", "write"}]
    BY <1>5 DEF NB!CreateConnection
  <2>4. /\ writing' \in [NB!Thread \cup Worker -> NB!Conn \cup {None}]
        /\ tSocket_' \in [NB!Conn -> NB!Sender \cup {None}]
    BY <1>5 DEF NB!CreateConnection
  <2>5. /\ UNCHANGED <<threadPoolProcessing_, come, unsent, request, output, tasks_, running, pipe>>
        /\ accepted' = None /\ connMutex_' = connMutex_
    BY <1>5 DEF NB!CreateConnection
  <2> QED
    BY <2>1, <2>2, <2>3, <2>4, <2>5, <2>6
<1>6. ASSUME NEW i \in NB!Thread, NEW c \in NB!Conn, NB!ReadSize(i, c)
      PROVE  NBTyped'
  BY <1>6 DEF NB!ReadSize, NB!Readable, NB!Looping
<1>7. ASSUME NEW i \in NB!Thread, NEW c \in NB!Conn, NB!GiveToPool(i, c)
      PROVE  NBTyped'
  <2>1. Append(tasks_, c) \in Seq(NB!Conn)
    BY WithLast
  <2>2. unsent' \in [NB!Sender -> 0 .. Requests]
    <3>1. /\ unsent' = [unsent EXCEPT ![tSocket_[c]] = unsent[tSocket_[c]] - 1]
          /\ unsent[tSocket_[c]] > 0
      BY <1>7 DEF NB!GiveToPool, NB!Readable
    <3> QED
      BY <3>1, PartsAssumption, OneFewer DEF NB!IOThreadsAssumption
  <2>3. /\ appState_' \in [NB!Conn -> {"INIT", "READ_FRAME_SIZE", "READ_REQUEST", "WAIT_TASK",
                                       "SEND_RESULT", "CLOSE_CONNECTION"}]
        /\ eventFlags_' \in [NB!Conn -> {"idle", "read", "write"}]
        /\ request' \in [NB!Conn -> NB!Sender \cup {None}]
        /\ output' \in [NB!Conn -> NB!Sender \cup {None}]
    BY <1>7 DEF NB!GiveToPool, NB!OutputReset, NB!FlagsOfWaiting
  <2> QED
    BY <1>7, <2>1, <2>2, <2>3 DEF NB!GiveToPool
<1>8. ASSUME NEW i \in NB!Thread, NEW c \in NB!Conn, NB!Process(i, c)
      PROVE  NBTyped'
  <2>1. unsent' \in [NB!Sender -> 0 .. Requests]
    <3>1. /\ unsent' = [unsent EXCEPT ![tSocket_[c]] = unsent[tSocket_[c]] - 1]
          /\ unsent[tSocket_[c]] > 0
      BY <1>8 DEF NB!Process, NB!Readable
    <3> QED
      BY <3>1, PartsAssumption, OneFewer DEF NB!IOThreadsAssumption
  <2>2. /\ appState_' \in [NB!Conn -> {"INIT", "READ_FRAME_SIZE", "READ_REQUEST", "WAIT_TASK",
                                       "SEND_RESULT", "CLOSE_CONNECTION"}]
        /\ eventFlags_' \in [NB!Conn -> {"idle", "read", "write"}]
        /\ request' \in [NB!Conn -> NB!Sender \cup {None}]
    BY <1>8 DEF NB!Process
  <2>3. output' \in [NB!Conn -> NB!Sender \cup {None}]
    <3>1. [output EXCEPT ![c] = None] \in [NB!Conn -> NB!Sender \cup {None}]
      OBVIOUS
    <3>2. [[output EXCEPT ![c] = None] EXCEPT ![c] = tSocket_[c]]
            \in [NB!Conn -> NB!Sender \cup {None}]
      BY <3>1
    <3> QED
      BY <1>8, <3>1, <3>2 DEF NB!Process, NB!OutputReset
  <2> QED
    BY <1>8, <2>1, <2>2, <2>3 DEF NB!Process
<1>9. ASSUME NEW i \in NB!Thread, NEW c \in NB!Conn, NB!Sent(i, c)
      PROVE  NBTyped'
  BY <1>9 DEF NB!Sent, NB!Looping
<1>10. ASSUME NEW i \in NB!Thread, NEW c \in NB!Conn, NB!Fails(i, c)
       PROVE  NBTyped'
  <2>1. connectionStack_' \in Seq(NB!Conn)
    <3>1. <<c>> \o connectionStack_ \in Seq(NB!Conn)
      BY WithFirst
    <3> QED
      BY <1>10, <3>1 DEF NB!Fails, NB!Close, NB!ReturnConnection
  <2>2. /\ activeConnections_' \subseteq NB!Conn
        /\ ioThread_' \in [NB!Conn -> NB!Thread \cup {None}]
        /\ eventFlags_' \in [NB!Conn -> {"idle", "read", "write"}]
    BY <1>10 DEF NB!Fails, NB!Close, NB!ReturnConnection
  <2> QED
    BY <1>10, <2>1, <2>2 DEF NB!Fails, NB!Close
<1>11. ASSUME NEW t \in NB!Thread \cup Worker, NB!Notify(t)
       PROVE  NBTyped'
  <2>1. pipe' \in [NB!Thread -> Seq(NB!Conn \cup {NB!Stop})]
    <3>1. ASSUME NEW i \in NB!Thread
          PROVE  pipe'[i] \in Seq(NB!Conn \cup {NB!Stop})
      <4>1. writing[t] \in NB!Conn
        BY <1>11 DEF NB!Notify
      <4>2. Append(pipe[i], writing[t]) \in Seq(NB!Conn \cup {NB!Stop})
        BY <4>1, WithLast
      <4> QED
        BY <1>11, <4>2 DEF NB!Notify
    <3>2. pipe' = [i \in NB!Thread |-> pipe'[i]]
      BY <1>11 DEF NB!Notify
    <3> QED
      BY <3>1, <3>2
  <2> QED
    BY <1>11, <2>1 DEF NB!Notify, NB!Released
<1>12. ASSUME NEW i \in NB!Thread, NB!NotifiedFresh(i)
       PROVE  NBTyped'
  BY <1>12 DEF NB!NotifiedFresh, NB!Notified, NB!Looping
<1>13. ASSUME NEW i \in NB!Thread, NB!NotifiedDone(i)
       PROVE  NBTyped'
  BY <1>13 DEF NB!NotifiedDone, NB!Notified, NB!Looping
<1>14. ASSUME NEW i \in NB!Thread, NB!NotifiedClose(i)
       PROVE  NBTyped'
  <2> DEFINE c == Head(pipe[i])
  <2>1. c \in NB!Conn /\ Tail(pipe[i]) \in Seq(NB!Conn \cup {NB!Stop})
    BY <1>14, WithoutFirst DEF NB!NotifiedClose, NB!Notified
  <2>2. NB!Close(c)
    BY <1>14 DEF NB!NotifiedClose
  <2>3. pipe' \in [NB!Thread -> Seq(NB!Conn \cup {NB!Stop})]
    BY <1>14, <2>1 DEF NB!NotifiedClose, NB!Notified
  <2> HIDE DEF c
  <2>4. connectionStack_' \in Seq(NB!Conn)
    <3>1. <<c>> \o connectionStack_ \in Seq(NB!Conn)
      BY <2>1, WithFirst
    <3> QED
      BY <2>1, <2>2, <3>1 DEF NB!Close, NB!ReturnConnection
  <2>5. /\ activeConnections_' \subseteq NB!Conn
        /\ ioThread_' \in [NB!Conn -> NB!Thread \cup {None}]
        /\ eventFlags_' \in [NB!Conn -> {"idle", "read", "write"}]
    BY <2>1, <2>2 DEF NB!Close, NB!ReturnConnection
  <2> QED
    BY <1>14, <2>2, <2>3, <2>4, <2>5 DEF NB!NotifiedClose, NB!Close
<1>15. ASSUME NEW i \in NB!Thread, NB!NotifiedStop(i)
       PROVE  NBTyped'
  BY <1>15 DEF NB!NotifiedStop, NB!Looping
<1>16. ASSUME NEW w \in Worker, NB!TakeTask(w)
       PROVE  NBTyped'
  BY <1>16 DEF NB!TakeTask, NB!Idle
<1>17. ASSUME NEW w \in Worker, NB!Expire(w)
       PROVE  NBTyped'
  BY <1>17 DEF NB!Expire, NB!Idle
<1>18. ASSUME NEW w \in Worker, NB!Finish(w)
       PROVE  NBTyped'
  <2>1. /\ running[w] \in NB!Conn /\ request[running[w]] \in NB!Sender \cup {None}
        /\ output' \in {output, [output EXCEPT ![running[w]] = request[running[w]]]}
    BY <1>18 DEF NB!Finish
  <2>2. output' \in [NB!Conn -> NB!Sender \cup {None}]
    BY <2>1
  <2>3. /\ writing' \in [NB!Thread \cup Worker -> NB!Conn \cup {None}]
        /\ running' \in [Worker -> NB!Conn \cup {None}]
    BY <1>18, <2>1 DEF NB!Finish
  <2> QED
    BY <1>18, <2>2, <2>3 DEF NB!Finish
<1> QED
  BY <1>1, <1>2, <1>3, <1>4, <1>5, <1>6, <1>7, <1>8, <1>9,
     <1>10, <1>11, <1>12, <1>13, <1>14, <1>15, <1>16, <1>17, <1>18
     DEF NB!NonblockingNext, NB!Looks, NB!Hears, NB!Creates, NB!Works

\* What the steps do to a pipe.
LEMMA PipeLoses ==
  ASSUME NBTyped, NoRepeats, NEW i \in NB!Thread, pipe[i] # << >>,
         pipe' = [pipe EXCEPT ![i] = Tail(@)]
  PROVE  /\ Head(pipe[i]) \in NB!Conn \cup {NB!Stop} /\ Head(pipe[i]) \in Elements(pipe[i])
         /\ \A j \in NB!Thread : /\ Once(pipe'[j])
                                /\ Elements(pipe'[j]) = Elements(pipe[j]) \
                                                           (IF j = i THEN {Head(pipe[i])} ELSE {})
<1>1. pipe[i] \in Seq(NB!Conn \cup {NB!Stop}) /\ Once(pipe[i])
  BY DEF NBTyped, NoRepeats
<1>2. pipe'[i] = Tail(pipe[i]) /\ \A j \in NB!Thread : j # i => pipe'[j] = pipe[j]
  BY DEF NBTyped
<1> QED
  BY <1>1, <1>2, WithoutFirst DEF NoRepeats

LEMMA PipeGains ==
  ASSUME NBTyped, NoRepeats, NEW i \in NB!Thread, NEW x \in NB!Conn \cup {NB!Stop},
         x \notin Elements(pipe[i]), pipe' = [pipe EXCEPT ![i] = Append(@, x)]
  PROVE  \A j \in NB!Thread : /\ Once(pipe'[j])
                             /\ Elements(pipe'[j]) = Elements(pipe[j])
                                                        \cup (IF j = i THEN {x} ELSE {})
<1>1. pipe[i] \in Seq(NB!Conn \cup {NB!Stop}) /\ Once(pipe[i])
  BY DEF NBTyped, NoRepeats
<1>2. pipe'[i] = Append(pipe[i], x) /\ \A j \in NB!Thread : j # i => pipe'[j] = pipe[j]
  BY DEF NBTyped
<1> QED
  BY <1>1, <1>2, WithLast DEF NoRepeats

LEMMA StackGrows ==
  ASSUME NBTyped, NoRepeats, NEW c \in activeConnections_, NB!ReturnConnection(c)
  PROVE  /\ Once(connectionStack_') /\ activeConnections_' = activeConnections_ \ {c}
         /\ \A d \in Elements(connectionStack_') : d \notin activeConnections_'
<1>1. connectionStack_ \in Seq(NB!Conn) /\ c \in NB!Conn
  BY DEF NBTyped
<1>2. c \notin Elements(connectionStack_)
  BY DEF NoRepeats
<1>3. connectionStack_' = connectionStack_ \/ connectionStack_' = <<c>> \o connectionStack_
  BY DEF NB!ReturnConnection
<1>4. Once(connectionStack_') /\ Elements(connectionStack_') \subseteq Elements(connectionStack_) \cup {c}
  <2>1. /\ Once(<<c>> \o connectionStack_)
        /\ Elements(<<c>> \o connectionStack_) = Elements(connectionStack_) \cup {c}
    BY <1>1, <1>2, WithFirst DEF NoRepeats
  <2> QED
    BY <1>3, <2>1 DEF NoRepeats
<1> QED
  BY <1>4 DEF NoRepeats, NB!ReturnConnection

LEMMA NoRepeatsKept ==
  ASSUME NBTyped, NoRepeats, Placed, NB!NonblockingNext
  PROVE  NoRepeats'
<1> USE DEF NoRepeats, NB!peers, NB!connections, NB!objects, NB!pool
<1>1. ASSUME NEW i \in NB!Thread, NB!StopThread(i)
      PROVE  NoRepeats'
  <2>1. CASE loop[i] = "starting"
    BY <1>1, <2>1 DEF NB!StopThread
  <2>2. CASE loop[i] # "starting"
    <3>1. NB!Stop \notin Elements(pipe[i])
      BY <1>1 DEF NB!StopThread
    <3>2. pipe' = [pipe EXCEPT ![i] = Append(@, NB!Stop)]
      BY <1>1, <2>2 DEF NB!StopThread
    <3>3. \A j \in NB!Thread :
            /\ Once(pipe'[j])
            /\ Elements(pipe'[j]) = Elements(pipe[j]) \cup (IF j = i THEN {NB!Stop} ELSE {})
      BY <1>1, <3>1, <3>2, PipeGains
    <3>4. UNCHANGED <<tasks_, connectionStack_, activeConnections_>> /\ stops' = stops \cup {i}
      BY <1>1 DEF NB!StopThread
    <3> QED
      BY <3>3, <3>4
  <2> QED
    BY <2>1, <2>2
<1>2. CASE NB!StopPool
  BY <1>2 DEF NB!StopPool
<1>3. ASSUME NEW i \in NB!Thread, NB!Registers(i)
      PROVE  NoRepeats'
  BY <1>3 DEF NB!Registers
<1>4. ASSUME NEW p \in NB!Sender, NB!Accept(p)
      PROVE  NoRepeats'
  <2>1. tasks_' = tasks_ \/ (tasks_ # << >> /\ tasks_' = Tail(tasks_))
    BY <1>4 DEF NB!Accept, NB!Looping, NB!Unlocked
  <2>2. tasks_ \in Seq(NB!Conn)
    BY DEF NBTyped
  <2>3. Once(tasks_')
    <3>1. tasks_ # << >> => Once(Tail(tasks_))
      BY <2>2, WithoutFirst
    <3> QED
      BY <2>1, <3>1
  <2> QED
    BY <1>4, <2>3 DEF NB!Accept, NB!Looping, NB!Unlocked
<1>5. ASSUME NEW c \in NB!Conn, NB!CreateConnection(c)
      PROVE  NoRepeats'
  <2>1. CASE connectionStack_' = connectionStack_ /\ activeConnections_' = activeConnections_
    BY <1>5, <2>1 DEF NB!CreateConnection
  <2>2. CASE connectionStack_ # << >> /\ connectionStack_' = Tail(connectionStack_)
               /\ activeConnections_' = activeConnections_ \cup {Head(connectionStack_)}
    BY <1>5, <2>2, WithoutFirst DEF NB!CreateConnection, NBTyped
  <2>3. CASE c \notin activeConnections_ /\ connectionStack_' = <<c>>
               /\ activeConnections_' = activeConnections_
    <3>1. Elements(connectionStack_') = {c} /\ Once(connectionStack_')
      BY <2>3 DEF Elements, Once
    <3> QED
      BY <1>5, <2>3, <3>1 DEF NB!CreateConnection
  <2>4. CASE connectionStack_' = << >>
    BY <1>5, <2>4, NoElements DEF NB!CreateConnection
  <2> QED
    BY <1>5, <2>1, <2>2, <2>3, <2>4
       DEF NB!CreateConnection, NB!Reused, NB!Fresh, NB!Allocated, NB!Unlocked
<1>6. ASSUME NEW i \in NB!Thread, NEW c \in NB!Conn, NB!ReadSize(i, c)
      PROVE  NoRepeats'
  BY <1>6 DEF NB!ReadSize, NB!Readable, NB!Looping
<1>7. ASSUME NEW i \in NB!Thread, NEW c \in NB!Conn, NB!GiveToPool(i, c)
      PROVE  NoRepeats'
  <2>1. c \notin Elements(tasks_)
    BY <1>7 DEF NB!GiveToPool, NB!Readable, Placed, InPlace, AtEvent, InQueue
  <2>2. Once(tasks_')
    BY <1>7, <2>1, WithLast DEF NB!GiveToPool, NBTyped
  <2> QED
    BY <1>7, <2>2 DEF NB!GiveToPool
<1>8. ASSUME NEW i \in NB!Thread, NEW c \in NB!Conn, NB!Process(i, c)
      PROVE  NoRepeats'
  BY <1>8 DEF NB!Process, NB!Readable, NB!Looping, NB!OutputReset
<1>9. ASSUME NEW i \in NB!Thread, NEW c \in NB!Conn, NB!Sent(i, c)
      PROVE  NoRepeats'
  BY <1>9 DEF NB!Sent, NB!Looping
<1>10. ASSUME NEW i \in NB!Thread, NEW c \in NB!Conn, NB!Fails(i, c)
       PROVE  NoRepeats'
  <2>1. c \in activeConnections_
    BY <1>10 DEF NB!Fails, Placed, InPlace, AtEvent
  <2> QED
    BY <1>10, <2>1, StackGrows DEF NB!Fails, NB!Close
<1>11. ASSUME NEW t \in NB!Thread \cup Worker, NB!Notify(t)
       PROVE  NoRepeats'
  <2> DEFINE c == writing[t]
             i == ioThread_[c]
  <2>1. c \in NB!Conn /\ c \in activeConnections_ /\ i \in NB!Thread /\ ~InPipe(c)
    BY <1>11 DEF NB!Notify, NBTyped, Placed, InPlace, AtWriter
  <2>2. c \notin Elements(pipe[i])
    BY <2>1 DEF InPipe
  <2>3. pipe' = [pipe EXCEPT ![i] = Append(@, c)]
    BY <1>11 DEF NB!Notify
  <2>4. c # NB!Stop
    BY <2>1 DEF NB!Conn, NB!Stop
  <2> HIDE DEF c, i
  <2>5. \A j \in NB!Thread :
          /\ Once(pipe'[j])
          /\ Elements(pipe'[j]) = Elements(pipe[j]) \cup (IF j = i THEN {c} ELSE {})
    BY <2>1, <2>2, <2>3, PipeGains
  <2>6. UNCHANGED <<tasks_, connectionStack_, activeConnections_, stops>>
    BY <1>11 DEF NB!Notify
  <2> QED
    BY <2>4, <2>5, <2>6
<1>12. ASSUME NEW i \in NB!Thread, NB!NotifiedFresh(i)
       PROVE  NoRepeats'
  <2>1. pipe[i] # << >> /\ pipe' = [pipe EXCEPT ![i] = Tail(@)]
    BY <1>12 DEF NB!NotifiedFresh, NB!Notified
  <2> QED
    BY <1>12, <2>1, PipeLoses DEF NB!NotifiedFresh
<1>13. ASSUME NEW i \in NB!Thread, NB!NotifiedDone(i)
       PROVE  NoRepeats'
  <2>1. pipe[i] # << >> /\ pipe' = [pipe EXCEPT ![i] = Tail(@)]
    BY <1>13 DEF NB!NotifiedDone, NB!Notified
  <2> QED
    BY <1>13, <2>1, PipeLoses DEF NB!NotifiedDone
<1>14. ASSUME NEW i \in NB!Thread, NB!NotifiedClose(i)
       PROVE  NoRepeats'
  <2> DEFINE c == Head(pipe[i])
  <2>1. /\ pipe[i] # << >> /\ pipe' = [pipe EXCEPT ![i] = Tail(@)] /\ c # NB!Stop
        /\ NB!Close(c)
    BY <1>14 DEF NB!NotifiedClose, NB!Notified
  <2>2. c \in Elements(pipe[i]) /\ c \in NB!Conn
    BY <2>1, PipeLoses
  <2>3. c \in activeConnections_
    BY <2>2 DEF Placed, InPlace, InPipe
  <2> HIDE DEF c
  <2>4. NB!ReturnConnection(c)
    BY <2>1 DEF NB!Close
  <2>5. UNCHANGED <<tasks_, stops>>
    BY <1>14 DEF NB!NotifiedClose
  <2> QED
    BY <2>1, <2>3, <2>4, <2>5, StackGrows, PipeLoses
<1>15. ASSUME NEW i \in NB!Thread, NB!NotifiedStop(i)
       PROVE  NoRepeats'
  <2>1. pipe[i] # << >> /\ pipe' = [pipe EXCEPT ![i] = Tail(@)]
    BY <1>15 DEF NB!NotifiedStop
  <2> QED
    BY <1>15, <2>1, PipeLoses DEF NB!NotifiedStop
<1>16. ASSUME NEW w \in Worker, NB!TakeTask(w)
       PROVE  NoRepeats'
  <2>1. Once(tasks_')
    BY <1>16, WithoutFirst DEF NB!TakeTask, NBTyped
  <2> QED
    BY <1>16, <2>1 DEF NB!TakeTask
<1>17. ASSUME NEW w \in Worker, NB!Expire(w)
       PROVE  NoRepeats'
  <2>1. Once(tasks_')
    BY <1>17, WithoutFirst DEF NB!Expire, NBTyped
  <2> QED
    BY <1>17, <2>1 DEF NB!Expire
<1>18. ASSUME NEW w \in Worker, NB!Finish(w)
       PROVE  NoRepeats'
  BY <1>18 DEF NB!Finish
<1> QED
  BY <1>1, <1>2, <1>3, <1>4, <1>5, <1>6, <1>7, <1>8, <1>9,
     <1>10, <1>11, <1>12, <1>13, <1>14, <1>15, <1>16, <1>17, <1>18
     DEF NB!NonblockingNext, NB!Looks, NB!Hears, NB!Creates, NB!Works

\* How a connection gets into the hands of a thread, a pipe and the queue, and out of them.
LEMMA WriterGains ==
  ASSUME NBTyped, OneWriter, NEW t \in NB!Thread \cup Worker, writing[t] = None,
         NEW c \in NB!Conn, ~AtWriter(c), writing' = [writing EXCEPT ![t] = c]
  PROVE  (\A d \in NB!Conn : AtWriter(d)' <=> AtWriter(d) \/ d = c) /\ OneWriter'
<1>1. None \notin NB!Conn
  BY PartsAssumption DEF NB!IOThreadsAssumption
<1>2. /\ writing'[t] = c
      /\ \A u \in NB!Thread \cup Worker : u # t => writing'[u] = writing[u]
  BY DEF NBTyped
<1> QED
  BY <1>1, <1>2 DEF AtWriter, OneWriter

LEMMA WriterLoses ==
  ASSUME NBTyped, OneWriter, NEW t \in NB!Thread \cup Worker, writing[t] \in NB!Conn,
         writing' = [writing EXCEPT ![t] = None]
  PROVE  (\A d \in NB!Conn : AtWriter(d)' <=> AtWriter(d) /\ d # writing[t]) /\ OneWriter'
<1>1. None \notin NB!Conn
  BY PartsAssumption DEF NB!IOThreadsAssumption
<1>2. /\ writing'[t] = None
      /\ \A u \in NB!Thread \cup Worker : u # t => writing'[u] = writing[u]
  BY DEF NBTyped
<1> QED
  BY <1>1, <1>2 DEF AtWriter, OneWriter

LEMMA WorkerGains ==
  ASSUME NBTyped, OneWorker, NEW w \in Worker, running[w] = None,
         NEW c \in NB!Conn, ~AtWorker(c), running' = [running EXCEPT ![w] = c]
  PROVE  (\A d \in NB!Conn : AtWorker(d)' <=> AtWorker(d) \/ d = c) /\ OneWorker'
<1>1. None \notin NB!Conn
  BY PartsAssumption DEF NB!IOThreadsAssumption
<1>2. running'[w] = c /\ \A v \in Worker : v # w => running'[v] = running[v]
  BY DEF NBTyped
<1> QED
  BY <1>1, <1>2 DEF AtWorker, OneWorker

LEMMA WorkerLoses ==
  ASSUME NBTyped, OneWorker, NEW w \in Worker, running[w] \in NB!Conn,
         running' = [running EXCEPT ![w] = None]
  PROVE  (\A d \in NB!Conn : AtWorker(d)' <=> AtWorker(d) /\ d # running[w]) /\ OneWorker'
<1>1. None \notin NB!Conn
  BY PartsAssumption DEF NB!IOThreadsAssumption
<1>2. running'[w] = None /\ \A v \in Worker : v # w => running'[v] = running[v]
  BY DEF NBTyped
<1> QED
  BY <1>1, <1>2 DEF AtWorker, OneWorker

LEMMA StopIsNoConnection == NB!Stop \notin NB!Conn
  BY DEF NB!Stop, NB!Conn

LEMMA PipeIsTold ==
  ASSUME NBTyped, NoRepeats, OneThread, NEW c \in NB!Conn, ~InPipe(c), ioThread_[c] \in NB!Thread,
         pipe' = [pipe EXCEPT ![ioThread_[c]] = Append(@, c)], ioThread_' = ioThread_
  PROVE  (\A d \in NB!Conn : InPipe(d)' <=> InPipe(d) \/ d = c) /\ OneThread'
<1> DEFINE i == ioThread_[c]
<1>1. i \in NB!Thread /\ c \notin Elements(pipe[i])
  BY DEF InPipe
<1>2. \A j \in NB!Thread :
        Elements(pipe'[j]) = Elements(pipe[j]) \cup (IF j = i THEN {c} ELSE {})
  BY <1>1, PipeGains
<1> HIDE DEF i
<1>3. \A d \in NB!Conn : InPipe(d)' <=> InPipe(d) \/ d = c
  BY <1>1, <1>2 DEF InPipe
<1> QED
  BY <1>2, <1>3 DEF OneThread, i

LEMMA PipeIsHeard ==
  ASSUME NBTyped, NoRepeats, OneThread, NEW i \in NB!Thread, pipe[i] # << >>,
         Head(pipe[i]) # NB!Stop, pipe' = [pipe EXCEPT ![i] = Tail(@)]
  PROVE  /\ Head(pipe[i]) \in NB!Conn /\ InPipe(Head(pipe[i])) /\ ioThread_[Head(pipe[i])] = i
         /\ \A d \in NB!Conn : InPipe(d)' <=> InPipe(d) /\ d # Head(pipe[i])
         /\ ioThread_' \in {ioThread_, [ioThread_ EXCEPT ![Head(pipe[i])] = None]} => OneThread'
<1> DEFINE c == Head(pipe[i])
<1>1. /\ c \in NB!Conn /\ c \in Elements(pipe[i])
      /\ \A j \in NB!Thread : Elements(pipe'[j]) = Elements(pipe[j]) \ (IF j = i THEN {c} ELSE {})
  BY PipeLoses
<1> HIDE DEF c
<1>2. InPipe(c) /\ ioThread_[c] = i
  BY <1>1 DEF InPipe, OneThread
<1>3. ASSUME NEW j \in NB!Thread
      PROVE  c \notin Elements(pipe'[j])
  <2>1. c \in Elements(pipe[j]) => j = i
    BY <1>1, <1>2 DEF OneThread
  <2> QED
    BY <1>1, <2>1
<1>4. ASSUME NEW d \in NB!Conn, d # c, NEW j \in NB!Thread
      PROVE  d \in Elements(pipe'[j]) <=> d \in Elements(pipe[j])
  BY <1>1, <1>4
<1>5. ~(\E j \in NB!Thread : c \in Elements(pipe'[j]))
  BY <1>3
<1>6. ASSUME NEW d \in NB!Conn
      PROVE  InPipe(d)' <=> InPipe(d) /\ d # c
  BY <1>5, <1>4 DEF InPipe
<1>7. ASSUME ioThread_' \in {ioThread_, [ioThread_ EXCEPT ![c] = None]}
      PROVE  OneThread'
  <2>1. \A d \in NB!Conn : d # c => ioThread_'[d] = ioThread_[d]
    BY <1>7 DEF NBTyped
  <2> QED
    BY <1>1, <1>5, <2>1 DEF OneThread, InPipe
<1> QED
  BY <1>1, <1>2, <1>6, <1>7 DEF c

LEMMA PipeStops ==
  ASSUME NBTyped, NoRepeats, OneThread, NEW i \in NB!Thread, ioThread_' = ioThread_,
         \/ NB!Stop \notin Elements(pipe[i]) /\ pipe' = [pipe EXCEPT ![i] = Append(@, NB!Stop)]
         \/ pipe[i] # << >> /\ Head(pipe[i]) = NB!Stop /\ pipe' = [pipe EXCEPT ![i] = Tail(@)]
  PROVE  (\A d \in NB!Conn : InPipe(d)' <=> InPipe(d)) /\ OneThread'
<1>1. \A j \in NB!Thread : \A d \in NB!Conn : d \in Elements(pipe'[j]) <=> d \in Elements(pipe[j])
  <2>1. CASE NB!Stop \notin Elements(pipe[i]) /\ pipe' = [pipe EXCEPT ![i] = Append(@, NB!Stop)]
    <3>1. \A j \in NB!Thread :
            Elements(pipe'[j]) = Elements(pipe[j]) \cup (IF j = i THEN {NB!Stop} ELSE {})
      BY <2>1, PipeGains
    <3> QED
      BY <3>1, StopIsNoConnection
  <2>2. CASE pipe[i] # << >> /\ Head(pipe[i]) = NB!Stop /\ pipe' = [pipe EXCEPT ![i] = Tail(@)]
    <3>1. \A j \in NB!Thread :
            Elements(pipe'[j]) = Elements(pipe[j]) \ (IF j = i THEN {Head(pipe[i])} ELSE {})
      BY <2>2, PipeLoses
    <3> QED
      BY <2>2, <3>1, StopIsNoConnection
  <2> QED
    BY <2>1, <2>2
<1> QED
  BY <1>1 DEF InPipe, OneThread

LEMMA QueueLoses ==
  ASSUME NBTyped, NoRepeats, tasks_ # << >>, tasks_' = Tail(tasks_)
  PROVE  /\ Head(tasks_) \in NB!Conn /\ InQueue(Head(tasks_))
         /\ \A d \in NB!Conn : InQueue(d)' <=> InQueue(d) /\ d # Head(tasks_)
<1>1. tasks_ \in Seq(NB!Conn) /\ Once(tasks_)
  BY DEF NBTyped, NoRepeats
<1>2. /\ Head(tasks_) \in NB!Conn /\ Head(tasks_) \in Elements(tasks_)
      /\ Elements(Tail(tasks_)) = Elements(tasks_) \ {Head(tasks_)}
  BY <1>1, WithoutFirst
<1> QED
  BY <1>2 DEF InQueue

LEMMA QueueGains ==
  ASSUME NBTyped, NEW c \in NB!Conn, tasks_' = Append(tasks_, c)
  PROVE  \A d \in NB!Conn : InQueue(d)' <=> InQueue(d) \/ d = c
<1>1. tasks_ \in Seq(NB!Conn)
  BY DEF NBTyped
<1>2. Elements(Append(tasks_, c)) = Elements(tasks_) \cup {c}
  BY <1>1, WithLast
<1> QED
  BY <1>2 DEF InQueue

\* A step that leaves a connection where it is.
Same(d) ==
  /\ d \in activeConnections_' <=> d \in activeConnections_
  /\ appState_'[d] = appState_[d] /\ eventFlags_'[d] = eventFlags_[d]
  /\ ioThread_'[d] = ioThread_[d] /\ tSocket_'[d] = tSocket_[d]
  /\ InQueue(d)' <=> InQueue(d)
  /\ AtWorker(d)' <=> AtWorker(d)
  /\ AtWriter(d)' <=> AtWriter(d)
  /\ InPipe(d)' <=> InPipe(d)

LEMMA StaysInPlace ==
  ASSUME NEW c \in NB!Conn, InPlace(c), Same(c)
  PROVE  InPlace(c)'
  BY DEF InPlace, Same, AtEvent

LEMMA OneMoves ==
  ASSUME Placed, NEW c \in NB!Conn, \A d \in NB!Conn : d # c => Same(d), InPlace(c)'
  PROVE  Placed'
  BY StaysInPlace DEF Placed

LEMMA NobodyMoves ==
  ASSUME Placed, \A d \in NB!Conn : Same(d)
  PROVE  Placed'
  BY StaysInPlace DEF Placed

LEMMA PlacesKept ==
  ASSUME NBTyped, NoRepeats, Single, Placed, NB!NonblockingNext
  PROVE  Single' /\ Placed'
<1> USE DEF NB!peers, NB!connections, NB!objects, NB!pool
<1>1. ASSUME NEW i \in NB!Thread, NB!StopThread(i)
      PROVE  Single' /\ Placed'
  <2>1. CASE loop[i] = "starting"
    <3>1. (\A d \in NB!Conn : Same(d)) /\ Single'
      BY <1>1, <2>1 DEF NB!StopThread, Same, Single, OneWorker, OneWriter, OneThread, OneHand,
         InQueue, AtWorker, AtWriter, InPipe
    <3> QED
      BY <3>1, NobodyMoves
  <2>2. CASE loop[i] # "starting"
    <3>1. NB!Stop \notin Elements(pipe[i]) /\ pipe' = [pipe EXCEPT ![i] = Append(@, NB!Stop)]
            /\ ioThread_' = ioThread_
      BY <1>1, <2>2 DEF NB!StopThread, NoRepeats
    <3>2. (\A d \in NB!Conn : InPipe(d)' <=> InPipe(d)) /\ OneThread'
      BY <3>1, PipeStops DEF Single
    <3>3. (\A d \in NB!Conn : Same(d)) /\ Single'
      BY <1>1, <3>2 DEF NB!StopThread, Same, Single, OneWorker, OneWriter, OneHand, InQueue,
         AtWorker, AtWriter
    <3> QED
      BY <3>3, NobodyMoves
  <2> QED
    BY <2>1, <2>2
<1>2. CASE NB!StopPool
  <2>1. (\A d \in NB!Conn : Same(d)) /\ Single'
    BY <1>2 DEF NB!StopPool, Same, Single, OneWorker, OneWriter, OneThread, OneHand, InQueue,
       AtWorker, AtWriter, InPipe
  <2> QED
    BY <2>1, NobodyMoves
<1>3. ASSUME NEW i \in NB!Thread, NB!Registers(i)
      PROVE  Single' /\ Placed'
  <2>1. (\A d \in NB!Conn : Same(d)) /\ Single'
    BY <1>3 DEF NB!Registers, Same, Single, OneWorker, OneWriter, OneThread, OneHand, InQueue,
       AtWorker, AtWriter, InPipe
  <2> QED
    BY <2>1, NobodyMoves
<1>4. ASSUME NEW p \in NB!Sender, NB!Accept(p)
      PROVE  Single' /\ Placed'
  <2>1. CASE UNCHANGED <<tasks_, appState_, writing>>
    <3>1. (\A d \in NB!Conn : Same(d)) /\ Single'
      BY <1>4, <2>1 DEF NB!Accept, Same, Single, OneWorker, OneWriter, OneThread, OneHand,
         InQueue, AtWorker, AtWriter, InPipe
    <3> QED
      BY <3>1, NobodyMoves
  <2>2. CASE /\ tasks_ # << >> /\ tasks_' = Tail(tasks_)
             /\ appState_' = [appState_ EXCEPT ![Head(tasks_)] = "CLOSE_CONNECTION"]
             /\ writing' = [writing EXCEPT ![0] = Head(tasks_)]
    <3>1. PICK c \in NB!Conn : c = Head(tasks_)
      BY <2>2, QueueLoses
    <3>2. /\ c \in NB!Conn /\ InQueue(c)
          /\ \A d \in NB!Conn : InQueue(d)' <=> InQueue(d) /\ d # c
      BY <2>2, <3>1, QueueLoses
    <3>3. ~AtWriter(c)
      BY <3>2 DEF Placed, InPlace
    <3>4. writing[0] = None /\ UNCHANGED <<activeConnections_, eventFlags_, ioThread_, tSocket_,
                                          running, pipe>>
      BY <1>4 DEF NB!Accept, NB!Looping
    <3>5. 0 \in NB!Thread
      BY PartsAssumption DEF NB!IOThreadsAssumption, NB!Thread
    <3>6. (\A d \in NB!Conn : AtWriter(d)' <=> AtWriter(d) \/ d = c) /\ OneWriter'
      BY <2>2, <3>1, <3>2, <3>3, <3>4, <3>5, WriterGains DEF Single
    <3>7. /\ appState_' = [appState_ EXCEPT ![c] = "CLOSE_CONNECTION"] /\ c \in NB!Conn
          /\ InQueue(c) /\ (\A d \in NB!Conn : AtWriter(d)' <=> AtWriter(d) \/ d = c)
          /\ \A d \in NB!Conn : InQueue(d)' <=> InQueue(d) /\ d # c
      BY <2>2, <3>1, <3>2, <3>6
    <3>8. \A d \in NB!Conn : d # c => Same(d)
      BY <3>7, <3>4 DEF NBTyped, Same, AtWorker, InPipe
    <3>9. InPlace(c)'
      BY <3>7, <3>4 DEF NBTyped, Placed, InPlace, AtEvent, AtWorker, InPipe
    <3>10. Single'
      <4>1. OneHand'
        BY <2>2, <3>4, <3>5, PartsAssumption DEF Single, OneHand, NBTyped, NB!IOThreadsAssumption
      <4> QED
        BY <3>4, <3>6, <4>1 DEF Single, OneWorker, OneThread
    <3> QED
      BY <3>7, <3>8, <3>9, <3>10, OneMoves
  <2> QED
    BY <1>4, <2>1, <2>2 DEF NB!Accept
<1>5. ASSUME NEW c \in NB!Conn, NB!CreateConnection(c)
      PROVE  Single' /\ Placed'
  <2>1. c \notin activeConnections_
    <3>1. connectionStack_ # << >> => Head(connectionStack_) \in Elements(connectionStack_)
      BY WithoutFirst DEF NBTyped
    <3> QED
      BY <1>5, <3>1 DEF NB!CreateConnection, NB!Reused, NB!Fresh, NB!Allocated, NoRepeats
  <2> DEFINE i == nextIOThread_
  <2>2. i \in NB!Thread /\ 0 \in NB!Thread /\ accepted \in NB!Sender /\ writing[0] = None
    BY <1>5, PartsAssumption DEF NB!IOThreadsAssumption, NB!Thread, NB!CreateConnection, NBTyped
  <2>3. /\ UNCHANGED <<tasks_, running, pipe>>
        /\ tSocket_' = [tSocket_ EXCEPT ![c] = accepted]
    BY <1>5 DEF NB!CreateConnection
  <2>4. ~AtEvent(c) /\ ~InQueue(c) /\ ~AtWorker(c) /\ ~AtWriter(c) /\ ~InPipe(c)
    BY <2>1 DEF Placed, InPlace
  <2>5. ASSUME ioThread_' \in {ioThread_, [ioThread_ EXCEPT ![c] = i]}
        PROVE  OneThread'
    <3>1. \A d \in NB!Conn : d # c => ioThread_'[d] = ioThread_[d]
      BY <2>5 DEF NBTyped
    <3> QED
      BY <2>3, <2>4, <3>1 DEF OneThread, InPipe, Single
  <2>6. CASE i > 0 /\ loop[i] = "starting"
    <3>1. /\ UNCHANGED <<activeConnections_, ioThread_, eventFlags_, writing>>
          /\ appState_' = [appState_ EXCEPT ![c] = "INIT"]
      BY <1>5, <2>6 DEF NB!CreateConnection
    <3>2. \A d \in NB!Conn : d # c => Same(d)
      BY <2>3, <3>1 DEF NBTyped, Same, InQueue, AtWorker, AtWriter, InPipe
    <3>3. InPlace(c)'
      BY <2>1, <2>3, <2>4, <3>1 DEF InPlace, AtEvent, InQueue, AtWorker, AtWriter, InPipe
    <3>4. Single'
      BY <2>3, <2>5, <3>1 DEF Single, OneWorker, OneWriter, OneHand
    <3> QED
      BY <3>2, <3>3, <3>4, OneMoves
  <2>7. CASE i = 0
    <3>1. /\ activeConnections_' = activeConnections_ \cup {c}
          /\ ioThread_' = [ioThread_ EXCEPT ![c] = i]
          /\ appState_' = [appState_ EXCEPT ![c] = "READ_FRAME_SIZE"]
          /\ eventFlags_' = [eventFlags_ EXCEPT ![c] = "read"]
          /\ writing' = writing
      BY <1>5, <2>7 DEF NB!CreateConnection
    <3>2. \A d \in NB!Conn : d # c => Same(d)
      BY <2>3, <3>1 DEF NBTyped, Same, InQueue, AtWorker, AtWriter, InPipe
    <3>3. InPlace(c)'
      <4>1. /\ ioThread_'[c] = i /\ appState_'[c] = "READ_FRAME_SIZE" /\ eventFlags_'[c] = "read"
            /\ tSocket_'[c] = accepted /\ c \in activeConnections_'
        BY <2>3, <3>1 DEF NBTyped
      <4>2. ~InQueue(c)' /\ ~AtWorker(c)' /\ ~AtWriter(c)' /\ ~InPipe(c)'
        BY <2>3, <2>4, <3>1 DEF InQueue, AtWorker, AtWriter, InPipe
      <4> QED
        BY <2>2, <4>1, <4>2 DEF InPlace, AtEvent
    <3>4. Single'
      BY <2>3, <2>5, <3>1 DEF Single, OneWorker, OneWriter, OneHand
    <3> QED
      BY <3>2, <3>3, <3>4, OneMoves
  <2>8. CASE i # 0 /\ ~(i > 0 /\ loop[i] = "starting")
    <3>1. /\ activeConnections_' = activeConnections_ \cup {c}
          /\ ioThread_' = [ioThread_ EXCEPT ![c] = i]
          /\ appState_' = [appState_ EXCEPT ![c] = "INIT"]
          /\ eventFlags_' = eventFlags_
          /\ writing' = [writing EXCEPT ![0] = c]
      BY <1>5, <2>8 DEF NB!CreateConnection
    <3>2. (\A d \in NB!Conn : AtWriter(d)' <=> AtWriter(d) \/ d = c) /\ OneWriter'
      BY <2>2, <2>4, <3>1, WriterGains DEF Single
    <3>3. \A d \in NB!Conn : d # c => Same(d)
      BY <2>3, <3>1, <3>2 DEF NBTyped, Same, InQueue, AtWorker, InPipe
    <3>4. InPlace(c)'
      <4>1. /\ ioThread_'[c] = i /\ appState_'[c] = "INIT" /\ eventFlags_'[c] = "idle"
            /\ tSocket_'[c] = accepted /\ c \in activeConnections_'
        BY <2>3, <2>4, <3>1 DEF NBTyped, AtEvent
      <4>2. ~InQueue(c)' /\ ~AtWorker(c)' /\ AtWriter(c)' /\ ~InPipe(c)'
        BY <2>3, <2>4, <3>2 DEF InQueue, AtWorker, InPipe
      <4> QED
        BY <2>2, <4>1, <4>2 DEF InPlace, AtEvent
    <3>5. Single'
      BY <2>2, <2>3, <2>5, <3>1, <3>2, PartsAssumption DEF Single, OneWorker, OneHand, NBTyped,
         NB!IOThreadsAssumption
    <3> QED
      BY <3>3, <3>4, <3>5, OneMoves
  <2> QED
    BY <2>6, <2>7, <2>8
<1>6. ASSUME NEW i \in NB!Thread, NEW c \in NB!Conn, NB!ReadSize(i, c)
      PROVE  Single' /\ Placed'
  <2>1. /\ UNCHANGED <<activeConnections_, ioThread_, tSocket_>>
        /\ appState_' = [appState_ EXCEPT ![c] = "READ_REQUEST"]
        /\ eventFlags_' = eventFlags_
        /\ eventFlags_[c] = "read"
        /\ UNCHANGED <<tasks_, running, writing, pipe>>
    BY <1>6 DEF NB!ReadSize, NB!Readable
  <2>2. \A d \in NB!Conn : d # c => Same(d)
    BY <2>1 DEF NBTyped, Same, InQueue, AtWorker, AtWriter, InPipe
  <2>3. InPlace(c)'
    BY <2>1 DEF NBTyped, Placed, InPlace, AtEvent, InQueue, AtWorker, AtWriter, InPipe
  <2>4. Single'
    BY <2>1 DEF Single, OneWorker, OneWriter, OneThread, OneHand, NBTyped
  <2> QED
    BY <2>2, <2>3, <2>4, OneMoves
<1>7. ASSUME NEW i \in NB!Thread, NEW c \in NB!Conn, NB!GiveToPool(i, c)
      PROVE  Single' /\ Placed'
  <2>1. /\ UNCHANGED <<activeConnections_, ioThread_, tSocket_>>
        /\ appState_' = [appState_ EXCEPT ![c] = "WAIT_TASK"]
        /\ eventFlags_' = [eventFlags_ EXCEPT ![c] = "idle"]
        /\ eventFlags_[c] = "read"
        /\ tasks_' = Append(tasks_, c)
        /\ UNCHANGED <<running, writing, pipe>>
    BY <1>7 DEF NB!GiveToPool, NB!Readable, NB!FlagsOfWaiting
  <2>2. \A d \in NB!Conn : InQueue(d)' <=> InQueue(d) \/ d = c
    BY <2>1, QueueGains
  <2>3. \A d \in NB!Conn : d # c => Same(d)
    BY <2>1, <2>2 DEF NBTyped, Same, AtWorker, AtWriter, InPipe
  <2>4. InPlace(c)'
    BY <2>1, <2>2 DEF NBTyped, Placed, InPlace, AtEvent, AtWorker, AtWriter, InPipe
  <2>5. Single'
    BY <2>1, <2>2 DEF Single, OneWorker, OneWriter, OneThread, OneHand, NBTyped
  <2> QED
    BY <2>3, <2>4, <2>5, OneMoves
<1>8. ASSUME NEW i \in NB!Thread, NEW c \in NB!Conn, NB!Process(i, c)
      PROVE  Single' /\ Placed'
  <2>1. /\ UNCHANGED <<activeConnections_, ioThread_, tSocket_>>
        /\ eventFlags_[c] = "read"
        /\ \/ /\ appState_' = [appState_ EXCEPT ![c] = "SEND_RESULT"]
              /\ eventFlags_' = [eventFlags_ EXCEPT ![c] = "write"]
           \/ /\ appState_' = [appState_ EXCEPT ![c] = "READ_FRAME_SIZE"]
              /\ eventFlags_' = eventFlags_
        /\ UNCHANGED <<tasks_, running, writing, pipe>>
    BY <1>8 DEF NB!Process, NB!Readable
  <2>2. \A d \in NB!Conn : d # c => Same(d)
    BY <2>1 DEF NBTyped, Same, InQueue, AtWorker, AtWriter, InPipe
  <2>3. InPlace(c)'
    BY <2>1 DEF NBTyped, Placed, InPlace, AtEvent, InQueue, AtWorker, AtWriter, InPipe
  <2>4. Single'
    BY <2>1 DEF Single, OneWorker, OneWriter, OneThread, OneHand, NBTyped
  <2> QED
    BY <2>2, <2>3, <2>4, OneMoves
<1>9. ASSUME NEW i \in NB!Thread, NEW c \in NB!Conn, NB!Sent(i, c)
      PROVE  Single' /\ Placed'
  <2>1. /\ UNCHANGED <<activeConnections_, ioThread_, tSocket_>>
        /\ eventFlags_[c] = "write"
        /\ appState_' = [appState_ EXCEPT ![c] = "READ_FRAME_SIZE"]
        /\ eventFlags_' = [eventFlags_ EXCEPT ![c] = "read"]
        /\ UNCHANGED <<tasks_, running, writing, pipe>>
    BY <1>9 DEF NB!Sent
  <2>2. \A d \in NB!Conn : d # c => Same(d)
    BY <2>1 DEF NBTyped, Same, InQueue, AtWorker, AtWriter, InPipe
  <2>3. InPlace(c)'
    BY <2>1 DEF NBTyped, Placed, InPlace, AtEvent, InQueue, AtWorker, AtWriter, InPipe
  <2>4. Single'
    BY <2>1 DEF Single, OneWorker, OneWriter, OneThread, OneHand, NBTyped
  <2> QED
    BY <2>2, <2>3, <2>4, OneMoves
<1>10. ASSUME NEW i \in NB!Thread, NEW c \in NB!Conn, NB!Fails(i, c)
       PROVE  Single' /\ Placed'
  <2>1. /\ UNCHANGED <<appState_, tSocket_>>
        /\ eventFlags_[c] # "idle"
        /\ eventFlags_' = [eventFlags_ EXCEPT ![c] = "idle"]
        /\ ioThread_' = [ioThread_ EXCEPT ![c] = None]
        /\ activeConnections_' = activeConnections_ \ {c}
        /\ UNCHANGED <<tasks_, running, writing, pipe>>
    BY <1>10 DEF NB!Fails, NB!Close, NB!ReturnConnection
  <2>2. ~InPipe(c)
    BY <2>1 DEF Placed, InPlace, AtEvent
  <2>3. \A d \in NB!Conn : d # c => Same(d)
    BY <2>1 DEF NBTyped, Same, InQueue, AtWorker, AtWriter, InPipe
  <2>4. InPlace(c)'
    BY <2>1 DEF NBTyped, Placed, InPlace, AtEvent, InQueue, AtWorker, AtWriter, InPipe
  <2>5. Single'
    BY <2>1, <2>2 DEF InPipe,  Single, OneWorker, OneWriter, OneThread, OneHand, NBTyped
  <2> QED
    BY <2>3, <2>4, <2>5, OneMoves
<1>11. ASSUME NEW t \in NB!Thread \cup Worker, NB!Notify(t)
       PROVE  Single' /\ Placed'
  <2>1. writing[t] \in NB!Conn
    BY <1>11 DEF NB!Notify, NBTyped
  <2>2. PICK c \in NB!Conn : c = writing[t]
    BY <2>1
  <2>3. c \in NB!Conn /\ AtWriter(c) /\ writing[t] = c
    BY <2>2 DEF AtWriter
  <2>4. ~InPipe(c) /\ ioThread_[c] \in NB!Thread
    BY <2>3 DEF Placed, InPlace
  <2>5. /\ UNCHANGED <<activeConnections_, ioThread_, tSocket_, appState_, eventFlags_>>
        /\ writing' = [writing EXCEPT ![t] = None]
        /\ pipe' = [pipe EXCEPT ![ioThread_[c]] = Append(@, c)]
        /\ UNCHANGED <<tasks_, running>>
    BY <1>11, <2>3 DEF NB!Notify
  <2>6. (\A d \in NB!Conn : AtWriter(d)' <=> AtWriter(d) /\ d # c) /\ OneWriter'
    BY <2>3, <2>5, WriterLoses DEF Single
  <2>7. (\A d \in NB!Conn : InPipe(d)' <=> InPipe(d) \/ d = c) /\ OneThread'
    BY <2>3, <2>4, <2>5, PipeIsTold DEF Single
  <2>8. \A d \in NB!Conn : d # c => Same(d)
    BY <2>5, <2>6, <2>7, <2>3 DEF NBTyped, Same, InQueue, AtWorker
  <2>9. InPlace(c)'
    BY <2>5, <2>6, <2>7, <2>3 DEF NBTyped, Placed, InPlace, AtEvent, InQueue, AtWorker
  <2>10. Single'
    BY <2>5, <2>6, <2>7, <2>3, <1>11
       DEF NB!Idle, NB!Notify,  Single, OneWorker, OneWriter, OneThread, OneHand, NBTyped
  <2> QED
    BY <2>8, <2>9, <2>10, <2>3, OneMoves
<1>12. ASSUME NEW i \in NB!Thread, NB!NotifiedFresh(i)
       PROVE  Single' /\ Placed'
  <2>1. /\ pipe[i] # << >> /\ pipe' = [pipe EXCEPT ![i] = Tail(@)]
        /\ Head(pipe[i]) # NB!Stop
    BY <1>12 DEF NB!NotifiedFresh, NB!Notified
  <2>2. PICK c \in NB!Conn : c = Head(pipe[i])
    BY <2>1, PipeIsHeard DEF Single
  <2>3. /\ c = Head(pipe[i]) /\ c \in NB!Conn /\ InPipe(c) /\ ioThread_[c] = i
        /\ \A d \in NB!Conn : InPipe(d)' <=> InPipe(d) /\ d # c
        /\ ioThread_' \in {ioThread_, [ioThread_ EXCEPT ![c] = None]} => OneThread'
    BY <2>1, <2>2, PipeIsHeard DEF Single
  <2>4. /\ UNCHANGED <<activeConnections_, ioThread_, tSocket_>>
        /\ appState_' = [appState_ EXCEPT ![c] = "READ_FRAME_SIZE"]
        /\ eventFlags_' = [eventFlags_ EXCEPT ![c] = "read"]
        /\ UNCHANGED <<tasks_, running, writing>>
    BY <1>12, <2>3 DEF NB!NotifiedFresh
  <2>5. (\A d \in NB!Conn : InPipe(d)' <=> InPipe(d) /\ d # c) /\ OneThread'
    BY <2>3, <2>4
  <2>6. \A d \in NB!Conn : d # c => Same(d)
    BY <2>4, <2>5, <2>3 DEF NBTyped, Same, InQueue, AtWorker, AtWriter
  <2>7. InPlace(c)'
    BY <2>4, <2>5, <2>3 DEF NBTyped, Placed, InPlace, AtEvent, InQueue, AtWorker, AtWriter
  <2>8. Single'
    BY <2>4, <2>5, <2>3 DEF Single, OneWorker, OneWriter, OneThread, OneHand, NBTyped
  <2> QED
    BY <2>6, <2>7, <2>8, <2>3, OneMoves
<1>13. ASSUME NEW i \in NB!Thread, NB!NotifiedDone(i)
       PROVE  Single' /\ Placed'
  <2>1. /\ pipe[i] # << >> /\ pipe' = [pipe EXCEPT ![i] = Tail(@)]
        /\ Head(pipe[i]) # NB!Stop
    BY <1>13 DEF NB!NotifiedDone, NB!Notified
  <2>2. PICK c \in NB!Conn : c = Head(pipe[i])
    BY <2>1, PipeIsHeard DEF Single
  <2>3. /\ c = Head(pipe[i]) /\ c \in NB!Conn /\ InPipe(c) /\ ioThread_[c] = i
        /\ \A d \in NB!Conn : InPipe(d)' <=> InPipe(d) /\ d # c
        /\ ioThread_' \in {ioThread_, [ioThread_ EXCEPT ![c] = None]} => OneThread'
    BY <2>1, <2>2, PipeIsHeard DEF Single
  <2>4. /\ UNCHANGED <<activeConnections_, ioThread_, tSocket_>>
        /\ \/ /\ appState_' = [appState_ EXCEPT ![c] = "SEND_RESULT"]
              /\ eventFlags_' = [eventFlags_ EXCEPT ![c] = "write"]
           \/ /\ appState_' = [appState_ EXCEPT ![c] = "READ_FRAME_SIZE"]
              /\ eventFlags_' = [eventFlags_ EXCEPT ![c] = "read"]
        /\ UNCHANGED <<tasks_, running, writing>>
    BY <1>13, <2>3 DEF NB!NotifiedDone
  <2>5. (\A d \in NB!Conn : InPipe(d)' <=> InPipe(d) /\ d # c) /\ OneThread'
    BY <2>3, <2>4
  <2>6. \A d \in NB!Conn : d # c => Same(d)
    BY <2>4, <2>5, <2>3 DEF NBTyped, Same, InQueue, AtWorker, AtWriter
  <2>7. InPlace(c)'
    BY <2>4, <2>5, <2>3 DEF NBTyped, Placed, InPlace, AtEvent, InQueue, AtWorker, AtWriter
  <2>8. Single'
    BY <2>4, <2>5, <2>3 DEF Single, OneWorker, OneWriter, OneThread, OneHand, NBTyped
  <2> QED
    BY <2>6, <2>7, <2>8, <2>3, OneMoves
<1>14. ASSUME NEW i \in NB!Thread, NB!NotifiedClose(i)
       PROVE  Single' /\ Placed'
  <2>1. /\ pipe[i] # << >> /\ pipe' = [pipe EXCEPT ![i] = Tail(@)]
        /\ Head(pipe[i]) # NB!Stop
    BY <1>14 DEF NB!NotifiedClose, NB!Notified
  <2>2. PICK c \in NB!Conn : c = Head(pipe[i])
    BY <2>1, PipeIsHeard DEF Single
  <2>3. /\ c = Head(pipe[i]) /\ c \in NB!Conn /\ InPipe(c) /\ ioThread_[c] = i
        /\ \A d \in NB!Conn : InPipe(d)' <=> InPipe(d) /\ d # c
        /\ ioThread_' \in {ioThread_, [ioThread_ EXCEPT ![c] = None]} => OneThread'
    BY <2>1, <2>2, PipeIsHeard DEF Single
  <2>4. /\ UNCHANGED <<appState_, tSocket_>>
        /\ eventFlags_' = [eventFlags_ EXCEPT ![c] = "idle"]
        /\ ioThread_' = [ioThread_ EXCEPT ![c] = None]
        /\ activeConnections_' = activeConnections_ \ {c}
        /\ UNCHANGED <<tasks_, running, writing>>
    BY <1>14, <2>3 DEF NB!NotifiedClose, NB!Close, NB!ReturnConnection
  <2>5. (\A d \in NB!Conn : InPipe(d)' <=> InPipe(d) /\ d # c) /\ OneThread'
    BY <2>3, <2>4
  <2>6. \A d \in NB!Conn : d # c => Same(d)
    BY <2>4, <2>5, <2>3 DEF NBTyped, Same, InQueue, AtWorker, AtWriter
  <2>7. InPlace(c)'
    BY <2>4, <2>5, <2>3 DEF NBTyped, Placed, InPlace, AtEvent, InQueue, AtWorker, AtWriter
  <2>8. Single'
    BY <2>4, <2>5, <2>3 DEF Single, OneWorker, OneWriter, OneThread, OneHand, NBTyped
  <2> QED
    BY <2>6, <2>7, <2>8, <2>3, OneMoves
<1>15. ASSUME NEW i \in NB!Thread, NB!NotifiedStop(i)
       PROVE  Single' /\ Placed'
  <2>1. pipe[i] # << >> /\ pipe' = [pipe EXCEPT ![i] = Tail(@)] /\ Head(pipe[i]) = NB!Stop
          /\ ioThread_' = ioThread_
    BY <1>15 DEF NB!NotifiedStop
  <2>2. (\A d \in NB!Conn : InPipe(d)' <=> InPipe(d)) /\ OneThread'
    BY <2>1, PipeStops DEF Single
  <2>3. (\A d \in NB!Conn : Same(d)) /\ Single'
    BY <1>15, <2>2 DEF NB!NotifiedStop, Same, Single, OneWorker, OneWriter, OneHand, InQueue,
       AtWorker, AtWriter
  <2> QED
    BY <2>3, NobodyMoves
<1>16. ASSUME NEW w \in Worker, NB!TakeTask(w)
       PROVE  Single' /\ Placed'
  <2>1. tasks_ # << >> /\ tasks_' = Tail(tasks_)
    BY <1>16 DEF NB!TakeTask
  <2>2. PICK c \in NB!Conn : c = Head(tasks_)
    BY <2>1, QueueLoses
  <2>3. /\ c = Head(tasks_) /\ c \in NB!Conn /\ InQueue(c)
        /\ \A d \in NB!Conn : InQueue(d)' <=> InQueue(d) /\ d # c
    BY <2>1, <2>2, QueueLoses
  <2>4. ~AtWorker(c) /\ ~AtWriter(c)
    BY <2>3 DEF Placed, InPlace
  <2>5. /\ UNCHANGED <<activeConnections_, ioThread_, tSocket_, appState_, eventFlags_>>
        /\ running' = [running EXCEPT ![w] = c] /\ running[w] = None
        /\ UNCHANGED <<writing, pipe>>
    BY <1>16, <2>3 DEF NB!TakeTask, NB!Idle
  <2>6. \A d \in NB!Conn : InQueue(d)' <=> InQueue(d) /\ d # c
    BY <2>3
  <2>7. (\A d \in NB!Conn : AtWorker(d)' <=> AtWorker(d) \/ d = c) /\ OneWorker'
    BY <2>3, <2>4, <2>5, WorkerGains DEF Single
  <2>8. \A d \in NB!Conn : d # c => Same(d)
    BY <2>5, <2>6, <2>7, <2>3 DEF NBTyped, Same, AtWriter, InPipe
  <2>9. InPlace(c)'
    BY <2>5, <2>6, <2>7, <2>3 DEF NBTyped, Placed, InPlace, AtEvent, AtWriter, InPipe
  <2>10. Single'
    BY <2>5, <2>6, <2>7, <2>3, <1>16
       DEF NB!Idle, NB!TakeTask,  Single, OneWorker, OneWriter, OneThread, OneHand, NBTyped
  <2> QED
    BY <2>8, <2>9, <2>10, <2>3, OneMoves
<1>17. ASSUME NEW w \in Worker, NB!Expire(w)
       PROVE  Single' /\ Placed'
  <2>1. tasks_ # << >> /\ tasks_' = Tail(tasks_)
    BY <1>17 DEF NB!Expire
  <2>2. PICK c \in NB!Conn : c = Head(tasks_)
    BY <2>1, QueueLoses
  <2>3. /\ c = Head(tasks_) /\ c \in NB!Conn /\ InQueue(c)
        /\ \A d \in NB!Conn : InQueue(d)' <=> InQueue(d) /\ d # c
    BY <2>1, <2>2, QueueLoses
  <2>4. ~AtWorker(c) /\ ~AtWriter(c)
    BY <2>3 DEF Placed, InPlace
  <2>5. /\ UNCHANGED <<activeConnections_, ioThread_, tSocket_>>
        /\ appState_' = [appState_ EXCEPT ![c] = "CLOSE_CONNECTION"]
        /\ eventFlags_' = eventFlags_
        /\ writing' = [writing EXCEPT ![w] = c] /\ writing[w] = None
        /\ UNCHANGED <<running, pipe>>
    BY <1>17, <2>3 DEF NB!Expire, NB!Idle
  <2>6. \A d \in NB!Conn : InQueue(d)' <=> InQueue(d) /\ d # c
    BY <2>3
  <2>7. (\A d \in NB!Conn : AtWriter(d)' <=> AtWriter(d) \/ d = c) /\ OneWriter'
    BY <2>3, <2>4, <2>5, WriterGains DEF Single
  <2>8. \A d \in NB!Conn : d # c => Same(d)
    BY <2>5, <2>6, <2>7, <2>3 DEF NBTyped, Same, AtWorker, InPipe
  <2>9. InPlace(c)'
    BY <2>5, <2>6, <2>7, <2>3 DEF NBTyped, Placed, InPlace, AtEvent, AtWorker, InPipe
  <2>10. Single'
    BY <2>5, <2>6, <2>7, <2>3, <1>17
       DEF NB!Idle, NB!Expire,  Single, OneWorker, OneWriter, OneThread, OneHand, NBTyped
  <2> QED
    BY <2>8, <2>9, <2>10, <2>3, OneMoves
<1>18. ASSUME NEW w \in Worker, NB!Finish(w)
       PROVE  Single' /\ Placed'
  <2>1. running[w] \in NB!Conn
    BY <1>18 DEF NB!Finish, NBTyped
  <2>2. PICK c \in NB!Conn : c = running[w]
    BY <2>1
  <2>3. c \in NB!Conn /\ AtWorker(c) /\ running[w] = c
    BY <2>2 DEF AtWorker
  <2>4. ~AtWriter(c) /\ writing[w] = None
    BY <1>18, <2>3 DEF Placed, InPlace, Single, OneHand, NB!Finish
  <2>5. /\ UNCHANGED <<activeConnections_, ioThread_, tSocket_, appState_, eventFlags_>>
        /\ running' = [running EXCEPT ![w] = None]
        /\ writing' = [writing EXCEPT ![w] = c]
        /\ UNCHANGED <<tasks_, pipe>>
    BY <1>18, <2>3 DEF NB!Finish
  <2>6. (\A d \in NB!Conn : AtWorker(d)' <=> AtWorker(d) /\ d # c) /\ OneWorker'
    BY <2>3, <2>5, WorkerLoses DEF Single
  <2>7. (\A d \in NB!Conn : AtWriter(d)' <=> AtWriter(d) \/ d = c) /\ OneWriter'
    BY <2>3, <2>4, <2>5, WriterGains DEF Single
  <2>8. \A d \in NB!Conn : d # c => Same(d)
    BY <2>5, <2>6, <2>7, <2>3 DEF NBTyped, Same, InQueue, InPipe
  <2>9. InPlace(c)'
    BY <2>5, <2>6, <2>7, <2>3 DEF NBTyped, Placed, InPlace, AtEvent, InQueue, InPipe
  <2>10. Single'
    BY <2>5, <2>6, <2>7, <2>3, <1>18
       DEF NB!Idle, NB!Finish,  Single, OneWorker, OneWriter, OneThread, OneHand, NBTyped
  <2> QED
    BY <2>8, <2>9, <2>10, <2>3, OneMoves
<1> QED
  BY <1>1, <1>2, <1>3, <1>4, <1>5, <1>6, <1>7, <1>8, <1>9,
     <1>10, <1>11, <1>12, <1>13, <1>14, <1>15, <1>16, <1>17, <1>18
     DEF NB!NonblockingNext, NB!Looks, NB!Hears, NB!Creates, NB!Works

LEMMA OfItsPeerKept ==
  ASSUME NBTyped, NoRepeats, Single, Placed, OfItsPeer, NB!NonblockingNext
  PROVE  OfItsPeer'
<1> USE DEF OfItsPeer, NB!peers, NB!connections, NB!objects, NB!pool
<1>1. ASSUME NEW i \in NB!Thread, NB!StopThread(i)
      PROVE  OfItsPeer'
  BY <1>1 DEF NB!StopThread
<1>2. CASE NB!StopPool
  BY <1>2 DEF NB!StopPool
<1>3. ASSUME NEW i \in NB!Thread, NB!Registers(i)
      PROVE  OfItsPeer'
  BY <1>3 DEF NB!Registers
<1>4. ASSUME NEW p \in NB!Sender, NB!Accept(p)
      PROVE  OfItsPeer'
  <2>1. CASE UNCHANGED appState_
    BY <1>4, <2>1 DEF NB!Accept
  <2>2. CASE tasks_ # << >> /\ appState_' = [appState_ EXCEPT ![Head(tasks_)] = "CLOSE_CONNECTION"]
    <3>1. Head(tasks_) \in NB!Conn
      BY <2>2, WithoutFirst DEF NBTyped
    <3> QED
      BY <1>4, <2>2, <3>1 DEF NB!Accept, NBTyped
  <2> QED
    BY <1>4, <2>1, <2>2 DEF NB!Accept
<1>5. ASSUME NEW c \in NB!Conn, NB!CreateConnection(c)
      PROVE  OfItsPeer'
  <2>1. CASE activeConnections_' = activeConnections_ /\ UNCHANGED eventFlags_
    <3>1. c \notin activeConnections_
      <4>1. connectionStack_ # << >> => Head(connectionStack_) \in Elements(connectionStack_)
        BY WithoutFirst DEF NBTyped
      <4> QED
        BY <1>5, <4>1 DEF NB!CreateConnection, NB!Reused, NB!Fresh, NB!Allocated, NoRepeats
    <3> QED
      BY <1>5, <2>1, <3>1 DEF NB!CreateConnection, NBTyped
  <2>2. CASE /\ activeConnections_' = activeConnections_ \cup {c}
             /\ \/ /\ appState_' = [appState_ EXCEPT ![c] = "READ_FRAME_SIZE"]
                   /\ eventFlags_' = [eventFlags_ EXCEPT ![c] = "read"]
                \/ /\ appState_' = [appState_ EXCEPT ![c] = "INIT"] /\ UNCHANGED eventFlags_
    <3>1. c \in activeConnections_ \/ eventFlags_[c] = "idle"
      BY DEF Placed, InPlace, AtEvent
    <3>2. c \notin activeConnections_
      <4>1. connectionStack_ # << >> => Head(connectionStack_) \in Elements(connectionStack_)
        BY WithoutFirst DEF NBTyped
      <4> QED
        BY <1>5, <4>1 DEF NB!CreateConnection, NB!Reused, NB!Fresh, NB!Allocated, NoRepeats
    <3>3. UNCHANGED <<request, output>> /\ tSocket_' = [tSocket_ EXCEPT ![c] = accepted]
      BY <1>5 DEF NB!CreateConnection
    <3> QED
      BY <2>2, <3>1, <3>2, <3>3 DEF NBTyped
  <2> QED
    BY <1>5, <2>1, <2>2 DEF NB!CreateConnection
<1>6. ASSUME NEW i \in NB!Thread, NEW c \in NB!Conn, NB!ReadSize(i, c)
      PROVE  OfItsPeer'
  BY <1>6 DEF NB!ReadSize, NB!Readable, NB!Looping, NBTyped, Placed, InPlace, AtEvent
<1>7. ASSUME NEW i \in NB!Thread, NEW c \in NB!Conn, NB!GiveToPool(i, c)
      PROVE  OfItsPeer'
  BY <1>7 DEF NB!GiveToPool, NB!Readable, NB!Looping, NB!OutputReset, NB!FlagsOfWaiting, NBTyped,
     Placed, InPlace, AtEvent
<1>8. ASSUME NEW i \in NB!Thread, NEW c \in NB!Conn, NB!Process(i, c)
      PROVE  OfItsPeer'
  BY <1>8
     DEF NB!Process, NB!Readable, NB!Looping, NB!OutputReset, NBTyped, Placed, InPlace, AtEvent
<1>9. ASSUME NEW i \in NB!Thread, NEW c \in NB!Conn, NB!Sent(i, c)
      PROVE  OfItsPeer'
  BY <1>9 DEF NB!Sent, NB!Looping, NBTyped, Placed, InPlace, AtEvent
<1>10. ASSUME NEW i \in NB!Thread, NEW c \in NB!Conn, NB!Fails(i, c)
       PROVE  OfItsPeer'
  BY <1>10 DEF NB!Fails, NB!Looping, NB!Close, NB!ReturnConnection, NBTyped
<1>11. ASSUME NEW t \in NB!Thread \cup Worker, NB!Notify(t)
       PROVE  OfItsPeer'
  BY <1>11 DEF NB!Notify, NB!Released
<1>12. ASSUME NEW i \in NB!Thread, NB!NotifiedFresh(i)
       PROVE  OfItsPeer'
  <2>1. /\ pipe[i] # << >> /\ pipe' = [pipe EXCEPT ![i] = Tail(@)]
        /\ Head(pipe[i]) # NB!Stop
    BY <1>12 DEF NB!NotifiedFresh, NB!Notified
  <2>2. PICK c \in NB!Conn : c = Head(pipe[i]) /\ InPipe(c)
    BY <2>1, PipeIsHeard DEF Single
  <2>3. /\ UNCHANGED <<activeConnections_, request, output, tSocket_>>
        /\ appState_' = [appState_ EXCEPT ![c] = "READ_FRAME_SIZE"]
        /\ eventFlags_' = [eventFlags_ EXCEPT ![c] = "read"]
    BY <1>12, <2>2 DEF NB!NotifiedFresh
  <2> QED
    BY <2>3 DEF NBTyped
<1>13. ASSUME NEW i \in NB!Thread, NB!NotifiedDone(i)
       PROVE  OfItsPeer'
  <2>1. /\ pipe[i] # << >> /\ pipe' = [pipe EXCEPT ![i] = Tail(@)]
        /\ Head(pipe[i]) # NB!Stop
    BY <1>13 DEF NB!NotifiedDone, NB!Notified
  <2>2. PICK c \in NB!Conn : c = Head(pipe[i]) /\ InPipe(c)
    BY <2>1, PipeIsHeard DEF Single
  <2>3. UNCHANGED <<activeConnections_, request, output, tSocket_>> /\ appState_[c] = "WAIT_TASK"
    BY <1>13, <2>2 DEF NB!NotifiedDone, NB!Notified
  <2>4. CASE /\ output[c] # None
             /\ appState_' = [appState_ EXCEPT ![c] = "SEND_RESULT"]
             /\ eventFlags_' = [eventFlags_ EXCEPT ![c] = "write"]
    BY <2>3, <2>4 DEF NBTyped
  <2>5. CASE /\ appState_' = [appState_ EXCEPT ![c] = "READ_FRAME_SIZE"]
             /\ eventFlags_' = [eventFlags_ EXCEPT ![c] = "read"]
    BY <2>3, <2>5 DEF NBTyped
  <2> QED
    BY <1>13, <2>2, <2>4, <2>5 DEF NB!NotifiedDone
<1>14. ASSUME NEW i \in NB!Thread, NB!NotifiedClose(i)
       PROVE  OfItsPeer'
  <2>1. /\ pipe[i] # << >> /\ pipe' = [pipe EXCEPT ![i] = Tail(@)]
        /\ Head(pipe[i]) # NB!Stop
    BY <1>14 DEF NB!NotifiedClose, NB!Notified
  <2>2. PICK c \in NB!Conn : c = Head(pipe[i]) /\ InPipe(c)
    BY <2>1, PipeIsHeard DEF Single
  <2>3. /\ UNCHANGED <<appState_, request, output, tSocket_>>
        /\ activeConnections_' = activeConnections_ \ {c}
        /\ eventFlags_' = [eventFlags_ EXCEPT ![c] = "idle"]
    BY <1>14, <2>2 DEF NB!NotifiedClose, NB!Close, NB!ReturnConnection
  <2> QED
    BY <2>3 DEF NBTyped
<1>15. ASSUME NEW i \in NB!Thread, NB!NotifiedStop(i)
       PROVE  OfItsPeer'
  BY <1>15 DEF NB!NotifiedStop, NB!Looping
<1>16. ASSUME NEW w \in Worker, NB!TakeTask(w)
       PROVE  OfItsPeer'
  BY <1>16 DEF NB!TakeTask, NB!Idle
<1>17. ASSUME NEW w \in Worker, NB!Expire(w)
       PROVE  OfItsPeer'
  <2>1. Head(tasks_) \in NB!Conn
    BY <1>17, WithoutFirst DEF NB!Expire, NBTyped
  <2> QED
    BY <1>17, <2>1 DEF NB!Expire, NBTyped
<1>18. ASSUME NEW w \in Worker, NB!Finish(w)
       PROVE  OfItsPeer'
  <2>1. running[w] \in NB!Conn /\ AtWorker(running[w])
    BY <1>18 DEF NB!Finish, NBTyped, AtWorker
  <2>2. PICK c \in NB!Conn : c = running[w] /\ AtWorker(c)
    BY <2>1
  <2>3. /\ appState_[c] = "WAIT_TASK" /\ ~AtEvent(c)
        /\ request[c] = tSocket_[c] /\ output[c] \in {None, tSocket_[c]}
    BY <2>2 DEF Placed, InPlace
  <2>4. /\ output' \in {output, [output EXCEPT ![c] = request[c]]}
        /\ UNCHANGED <<activeConnections_, appState_, eventFlags_, request, tSocket_>>
    BY <1>18, <2>2 DEF NB!Finish
  <2> QED
    BY <2>3, <2>4 DEF NBTyped, AtEvent
<1> QED
  BY <1>1, <1>2, <1>3, <1>4, <1>5, <1>6, <1>7, <1>8, <1>9,
     <1>10, <1>11, <1>12, <1>13, <1>14, <1>15, <1>16, <1>17, <1>18
     DEF NB!NonblockingNext, NB!Looks, NB!Hears, NB!Creates, NB!Works

LEMMA NBBegins == NB!NonblockingInit => NBInv
<1> SUFFICES ASSUME NB!NonblockingInit
             PROVE  NBInv
  OBVIOUS
<1> USE DEF NB!NonblockingInit
<1>1. NBTyped
  <2>1. << >> \in Seq(NB!Conn) /\ << >> \in Seq(NB!Conn \cup {NB!Stop})
    OBVIOUS
  <2>2. /\ come \in 0 .. Senders /\ unsent \in [NB!Sender -> 0 .. Requests]
        /\ nextIOThread_ \in NB!Thread
    BY PartsAssumption DEF NB!IOThreadsAssumption, NB!Thread
  <2>3. pipe \in [NB!Thread -> Seq(NB!Conn \cup {NB!Stop})]
    BY <2>1
  <2> QED
    BY <2>1, <2>2, <2>3 DEF NBTyped
<1>2. NoRepeats
  BY NoElements DEF NoRepeats
<1>3. Single
  BY NoElements DEF Single, OneWorker, OneWriter, OneThread, OneHand
<1>4. Placed
  BY NoElements, PartsAssumption
     DEF Placed, InPlace, AtEvent, InQueue, AtWorker, AtWriter, InPipe, NB!IOThreadsAssumption
<1>5. OfItsPeer
  BY DEF OfItsPeer
<1> QED
  BY <1>1, <1>2, <1>3, <1>4, <1>5 DEF NBInv

LEMMA NBStep ==
  ASSUME NBInv, [NNext]_<<part, serverVars, syncVars, nbVars, fileVars>>
  PROVE  NBInv'
<1>1. CASE NB!NonblockingNext
  BY <1>1, NBTypesKept, NoRepeatsKept, PlacesKept, OfItsPeerKept DEF NBInv
<1>2. CASE UNCHANGED nbVars
  <2>1. NBTyped' /\ NoRepeats' /\ Single' /\ OfItsPeer'
    BY <1>2
       DEF nbVars, NBInv, NBTyped, NoRepeats, Single, OneWorker, OneWriter, OneThread, OneHand,
                OfItsPeer
  <2>2. \A d \in NB!Conn : Same(d)
    BY <1>2 DEF nbVars, Same, InQueue, AtWorker, AtWriter, InPipe
  <2> QED
    BY <2>1, <2>2, NobodyMoves DEF NBInv
<1> QED
  BY <1>1, <1>2 DEF NNext

LEMMA NBInvariant == NSpec => []NBInv
<1>1. NInit => NBInv
  BY NBBegins DEF NInit
<1>2. NBInv /\ [NNext]_<<part, serverVars, syncVars, nbVars, fileVars>> => NBInv'
  BY NBStep
<1> QED
  BY <1>1, <1>2, PTL DEF NSpec

\* What the nonblocking server sends on a connection is the reply to a request of the peer that
\* has it, although objects and buffers go from peer to peer and requests through the pool.
THEOREM RepliesGoToTheAsker == NSpec => []ReplyToAsker
<1>1. NBInv => ReplyToAsker
  <2> SUFFICES ASSUME NBInv, NEW c \in NB!Conn, eventFlags_[c] = "write"
               PROVE  output[c] = tSocket_[c]
    BY DEF ReplyToAsker, NB!ReplyToAsker
  <2>1. c \in activeConnections_
    BY DEF NBInv, Placed, InPlace, AtEvent
  <2> QED
    BY <2>1 DEF NBInv, OfItsPeer
<1> QED
  BY <1>1, NBInvariant, PTL

\* A connection that is in use is in one place, counted as the run counts.
LEMMA HeldOnce ==
  ASSUME NBInv, NEW c \in NB!Conn
  PROVE  Cardinality(NB!Holders(c)) = IF c \in activeConnections_ THEN 1 ELSE 0
<1> DEFINE E == {<<"event">> : e \in {c} \ {d \in NB!Conn : eventFlags_[d] = "idle"}}
           Q == {<<"queue", k>> : k \in {k \in DOMAIN tasks_ : tasks_[k] = c}}
           R == {<<"worker", w>> : w \in {w \in Worker : running[w] = c}}
           W == {<<"writer", t>> : t \in {t \in DOMAIN writing : writing[t] = c}}
           P == UNION {{<<"pipe", i, k>> : k \in {k \in DOMAIN pipe[i] : pipe[i][k] = c}} :
                         i \in NB!Thread}
<1>1. NB!Holders(c) = E \cup Q \cup R \cup W \cup P
  BY DEF NB!Holders
<1>2. /\ ~AtEvent(c) => E = {}
      /\ AtEvent(c) => E = {<<"event">>}
  BY DEF AtEvent
<1>3. ~InQueue(c) => Q = {}
  BY DEF InQueue, Elements
<1>4. ASSUME InQueue(c)
      PROVE  \E h : Q = {h}
  <2>1. PICK k \in DOMAIN tasks_ : tasks_[k] = c
    BY <1>4 DEF InQueue, Elements
  <2>2. \A l \in DOMAIN tasks_ : tasks_[l] = c => l = k
    BY <2>1 DEF NBInv, NoRepeats, Once
  <2>3. {l \in DOMAIN tasks_ : tasks_[l] = c} = {k}
    BY <2>1, <2>2
  <2>4. Q = {<<"queue", k>>}
    BY <2>3
  <2> QED
    BY <2>4
<1>5. ~AtWorker(c) => R = {}
  BY DEF AtWorker
<1>6. ASSUME AtWorker(c)
      PROVE  \E h : R = {h}
  <2>1. PICK w \in Worker : running[w] = c
    BY <1>6 DEF AtWorker
  <2>2. c # None
    BY PartsAssumption DEF NB!IOThreadsAssumption
  <2>3. {v \in Worker : running[v] = c} = {w}
    BY <2>1, <2>2 DEF NBInv, Single, OneWorker
  <2>4. R = {<<"worker", w>>}
    BY <2>3
  <2> QED
    BY <2>4
<1>7. DOMAIN writing = NB!Thread \cup Worker
  BY DEF NBInv, NBTyped
<1>8. ~AtWriter(c) => W = {}
  BY <1>7 DEF AtWriter
<1>9. ASSUME AtWriter(c)
      PROVE  \E h : W = {h}
  <2>1. PICK t \in NB!Thread \cup Worker : writing[t] = c
    BY <1>9 DEF AtWriter
  <2>2. c # None
    BY PartsAssumption DEF NB!IOThreadsAssumption
  <2>3. {u \in DOMAIN writing : writing[u] = c} = {t}
    BY <1>7, <2>1, <2>2 DEF NBInv, Single, OneWriter
  <2>4. W = {<<"writer", t>>}
    BY <2>3
  <2> QED
    BY <2>4
<1>10. ~InPipe(c) => P = {}
  BY DEF InPipe, Elements
<1>11. ASSUME InPipe(c)
      PROVE  \E h : P = {h}
  <2>1. PICK i \in NB!Thread : c \in Elements(pipe[i])
    BY <1>11 DEF InPipe
  <2>2. PICK k \in DOMAIN pipe[i] : pipe[i][k] = c
    BY <2>1 DEF Elements
  <2>3. \A j \in NB!Thread : c \in Elements(pipe[j]) => j = i
    BY <2>1 DEF NBInv, Single, OneThread
  <2>4. \A j \in NB!Thread : \A l \in DOMAIN pipe[j] : pipe[j][l] = c => j = i /\ l = k
    BY <2>1, <2>2, <2>3 DEF NBInv, NoRepeats, Once, Elements
  <2>5. P = {<<"pipe", i, k>>}
    BY <2>2, <2>4
  <2> QED
    BY <2>5
<1> HIDE DEF E, Q, R, W, P
<1>12. CASE c \notin activeConnections_
  <2>1. NB!Holders(c) = {}
    BY <1>1, <1>2, <1>3, <1>5, <1>8, <1>10, <1>12 DEF NBInv, Placed, InPlace
  <2> QED
    BY <1>12, <2>1, FS_EmptySet
<1>13. CASE c \in activeConnections_
  <2>0. InPlace(c)
    BY DEF NBInv, Placed
  <2>1. \E h : NB!Holders(c) = {h}
    <3>1. CASE AtEvent(c)
      BY <1>1, <1>2, <1>3, <1>5, <1>8, <1>10, <1>13, <2>0, <3>1 DEF InPlace
    <3>2. CASE InQueue(c)
      BY <1>1, <1>2, <1>4, <1>5, <1>8, <1>10, <1>13, <2>0, <3>2 DEF InPlace
    <3>3. CASE AtWorker(c)
      BY <1>1, <1>2, <1>3, <1>6, <1>8, <1>10, <1>13, <2>0, <3>3 DEF InPlace
    <3>4. CASE AtWriter(c)
      BY <1>1, <1>2, <1>3, <1>5, <1>9, <1>10, <1>13, <2>0, <3>4 DEF InPlace
    <3>5. CASE InPipe(c)
      BY <1>1, <1>2, <1>3, <1>5, <1>8, <1>11, <1>13, <2>0, <3>5 DEF InPlace
    <3> QED
      BY <1>13, <2>0, <3>1, <3>2, <3>3, <3>4, <3>5 DEF InPlace
  <2>2. PICK h : NB!Holders(c) = {h}
    BY <2>1
  <2>3. Cardinality({h}) = 1
    BY FS_Singleton
  <2> QED
    BY <1>13, <2>2, <2>3
<1> QED
  BY <1>12, <1>13

\* The connections whose request has gone to the pool and has not come back.
WithThePool == {c \in activeConnections_ : appState_[c] \in {"WAIT_TASK", "CLOSE_CONNECTION"}}

LEMMA PoolCount ==
  ASSUME NEW S, IsFiniteSet(S), NEW c
  PROVE  /\ Cardinality(S) \in Nat
         /\ c \notin S => Cardinality(S \cup {c}) = Cardinality(S) + 1
         /\ c \in S => Cardinality(S) > 0 /\ Cardinality(S \ {c}) = Cardinality(S) - 1
<1>1. /\ Cardinality(S) \in Nat /\ IsFiniteSet(S \ {c})
      /\ (c \notin S => Cardinality(S \cup {c}) = Cardinality(S) + 1)
  BY FS_CardinalityType, FS_AddElement, FS_Subset
<1>2. Cardinality(S \ {c}) \in Nat
  BY <1>1, FS_CardinalityType
<1>3. Cardinality(S \ {c}) = IF c \in S THEN Cardinality(S) - 1 ELSE Cardinality(S)
  BY FS_RemoveElement
<1> QED
  BY <1>1, <1>2, <1>3

Counted == numActiveProcessors_ = Cardinality(WithThePool)

LEMMA PoolCounted ==
  ASSUME NBTyped, NoRepeats, Single, Placed, IsFiniteSet(WithThePool), Counted, NB!NonblockingNext
  PROVE  Counted'
<1> USE DEF Counted, NB!peers, NB!connections, NB!objects, NB!pool
<1>1. ASSUME NEW i \in NB!Thread, NB!StopThread(i)
      PROVE  Counted'
  BY <1>1 DEF NB!StopThread, WithThePool
<1>2. CASE NB!StopPool
  BY <1>2 DEF NB!StopPool, WithThePool
<1>3. ASSUME NEW i \in NB!Thread, NB!Registers(i)
      PROVE  Counted'
  BY <1>3 DEF NB!Registers, WithThePool
<1>4. ASSUME NEW p \in NB!Sender, NB!Accept(p)
      PROVE  Counted'
  <2>1. CASE UNCHANGED appState_
    BY <1>4, <2>1 DEF NB!Accept, WithThePool
  <2>2. CASE tasks_ # << >> /\ appState_' = [appState_ EXCEPT ![Head(tasks_)] = "CLOSE_CONNECTION"]
    <3>1. Head(tasks_) \in NB!Conn /\ InQueue(Head(tasks_))
      BY <2>2, WithoutFirst DEF NBTyped, InQueue
    <3>2. PICK c \in NB!Conn : c = Head(tasks_) /\ InQueue(c)
      BY <3>1
    <3>3. appState_[c] = "WAIT_TASK"
      BY <3>2 DEF Placed, InPlace
    <3>4. /\ appState_' = [appState_ EXCEPT ![c] = "CLOSE_CONNECTION"]
          /\ UNCHANGED <<activeConnections_, numActiveProcessors_>>
      BY <1>4, <2>2, <3>2 DEF NB!Accept
    <3>5. WithThePool' = WithThePool
      BY <3>3, <3>4 DEF NBTyped, WithThePool
    <3> QED
      BY <3>4, <3>5
  <2> QED
    BY <1>4, <2>1, <2>2 DEF NB!Accept
<1>5. ASSUME NEW c \in NB!Conn, NB!CreateConnection(c)
      PROVE  Counted'
  <2>1. c \notin activeConnections_
    <3>1. connectionStack_ # << >> => Head(connectionStack_) \in Elements(connectionStack_)
      BY WithoutFirst DEF NBTyped
    <3> QED
      BY <1>5, <3>1 DEF NB!CreateConnection, NB!Reused, NB!Fresh, NB!Allocated, NoRepeats
  <2>2. /\ activeConnections_' \in {activeConnections_, activeConnections_ \cup {c}}
        /\ \/ appState_' = [appState_ EXCEPT ![c] = "READ_FRAME_SIZE"]
           \/ appState_' = [appState_ EXCEPT ![c] = "INIT"]
        /\ UNCHANGED numActiveProcessors_
    BY <1>5 DEF NB!CreateConnection
  <2>3. WithThePool' = WithThePool
    BY <2>1, <2>2 DEF NBTyped, WithThePool
  <2> QED
    BY <2>2, <2>3
<1>6. ASSUME NEW i \in NB!Thread, NEW c \in NB!Conn, NB!ReadSize(i, c)
      PROVE  Counted'
  <2>1. WithThePool' = WithThePool
    BY <1>6
       DEF NB!ReadSize, NB!Readable, NB!Looping, NBTyped, Placed, InPlace, AtEvent, WithThePool
  <2> QED
    BY <1>6, <2>1 DEF NB!ReadSize
<1>7. ASSUME NEW i \in NB!Thread, NEW c \in NB!Conn, NB!GiveToPool(i, c)
      PROVE  Counted'
  <2>1. eventFlags_[c] = "read" /\ appState_[c] = "READ_REQUEST"
    BY <1>7 DEF NB!GiveToPool, NB!Readable
  <2>2. c \in activeConnections_ /\ c \notin WithThePool
    BY <2>1 DEF Placed, InPlace, AtEvent, WithThePool
  <2>3. /\ appState_' = [appState_ EXCEPT ![c] = "WAIT_TASK"]
        /\ UNCHANGED activeConnections_ /\ numActiveProcessors_' = numActiveProcessors_ + 1
    BY <1>7 DEF NB!GiveToPool
  <2>4. WithThePool' = WithThePool \cup {c}
    BY <2>2, <2>3 DEF NBTyped, WithThePool
  <2> QED
    BY <2>2, <2>3, <2>4, PoolCount
<1>8. ASSUME NEW i \in NB!Thread, NEW c \in NB!Conn, NB!Process(i, c)
      PROVE  Counted'
  <2>1. WithThePool' = WithThePool
    BY <1>8 DEF NB!Process, NB!Readable, NB!Looping, NB!OutputReset, NBTyped, Placed, InPlace,
       AtEvent, WithThePool
  <2> QED
    BY <1>8, <2>1 DEF NB!Process
<1>9. ASSUME NEW i \in NB!Thread, NEW c \in NB!Conn, NB!Sent(i, c)
      PROVE  Counted'
  <2>1. WithThePool' = WithThePool
    BY <1>9 DEF NB!Sent, NB!Looping, NBTyped, Placed, InPlace, AtEvent, WithThePool
  <2> QED
    BY <1>9, <2>1 DEF NB!Sent
<1>10. ASSUME NEW i \in NB!Thread, NEW c \in NB!Conn, NB!Fails(i, c)
       PROVE  Counted'
  <2>1. WithThePool' = WithThePool
    <3>1. eventFlags_[c] \in {"read", "write"} /\ c \in activeConnections_
      BY <1>10 DEF NB!Fails, NBTyped, Placed, InPlace, AtEvent
    <3>2. appState_[c] \notin {"WAIT_TASK", "CLOSE_CONNECTION"}
      BY <3>1 DEF NBTyped, Placed, InPlace
    <3>3. appState_' = appState_ /\ activeConnections_' = activeConnections_ \ {c}
      BY <1>10 DEF NB!Fails, NB!Close, NB!ReturnConnection
    <3> QED
      BY <3>2, <3>3 DEF WithThePool
  <2> QED
    BY <1>10, <2>1 DEF NB!Fails
<1>11. ASSUME NEW t \in NB!Thread \cup Worker, NB!Notify(t)
       PROVE  Counted'
  BY <1>11 DEF NB!Notify, WithThePool
<1>12. ASSUME NEW i \in NB!Thread, NB!NotifiedFresh(i)
       PROVE  Counted'
  <2>1. /\ pipe[i] # << >> /\ pipe' = [pipe EXCEPT ![i] = Tail(@)]
        /\ Head(pipe[i]) # NB!Stop
    BY <1>12 DEF NB!NotifiedFresh, NB!Notified
  <2>2. PICK c \in NB!Conn : c = Head(pipe[i]) /\ InPipe(c)
    BY <2>1, PipeIsHeard DEF Single
  <2>3. c \in activeConnections_
    BY <2>2 DEF Placed, InPlace
  <2>4. /\ UNCHANGED <<activeConnections_, numActiveProcessors_>> /\ appState_[c] = "INIT"
        /\ appState_' = [appState_ EXCEPT ![c] = "READ_FRAME_SIZE"]
    BY <1>12, <2>2 DEF NB!NotifiedFresh, NB!Notified
  <2>5. WithThePool' = WithThePool
    BY <2>4 DEF NBTyped, WithThePool
  <2> QED
    BY <2>4, <2>5
<1>13. ASSUME NEW i \in NB!Thread, NB!NotifiedDone(i)
       PROVE  Counted'
  <2>1. /\ pipe[i] # << >> /\ pipe' = [pipe EXCEPT ![i] = Tail(@)]
        /\ Head(pipe[i]) # NB!Stop
    BY <1>13 DEF NB!NotifiedDone, NB!Notified
  <2>2. PICK c \in NB!Conn : c = Head(pipe[i]) /\ InPipe(c)
    BY <2>1, PipeIsHeard DEF Single
  <2>3. c \in activeConnections_
    BY <2>2 DEF Placed, InPlace
  <2>4. /\ UNCHANGED activeConnections_ /\ appState_[c] = "WAIT_TASK"
        /\ numActiveProcessors_' = NB!Decremented(numActiveProcessors_)
        /\ \/ appState_' = [appState_ EXCEPT ![c] = "SEND_RESULT"]
           \/ appState_' = [appState_ EXCEPT ![c] = "READ_FRAME_SIZE"]
    BY <1>13, <2>2 DEF NB!NotifiedDone, NB!Notified
  <2>5. c \in WithThePool /\ WithThePool' = WithThePool \ {c}
    BY <2>3, <2>4 DEF NBTyped, WithThePool
  <2> QED
    BY <2>4, <2>5, PoolCount DEF NB!Decremented
<1>14. ASSUME NEW i \in NB!Thread, NB!NotifiedClose(i)
       PROVE  Counted'
  <2>1. /\ pipe[i] # << >> /\ pipe' = [pipe EXCEPT ![i] = Tail(@)]
        /\ Head(pipe[i]) # NB!Stop
    BY <1>14 DEF NB!NotifiedClose, NB!Notified
  <2>2. PICK c \in NB!Conn : c = Head(pipe[i]) /\ InPipe(c)
    BY <2>1, PipeIsHeard DEF Single
  <2>3. c \in activeConnections_
    BY <2>2 DEF Placed, InPlace
  <2>4. /\ activeConnections_' = activeConnections_ \ {c} /\ appState_[c] = "CLOSE_CONNECTION"
        /\ numActiveProcessors_' = NB!Decremented(numActiveProcessors_)
        /\ UNCHANGED appState_
    BY <1>14, <2>2 DEF NB!NotifiedClose, NB!Notified, NB!Close, NB!ReturnConnection
  <2>5. c \in WithThePool /\ WithThePool' = WithThePool \ {c}
    BY <2>3, <2>4 DEF NBTyped, WithThePool
  <2> QED
    BY <2>4, <2>5, PoolCount DEF NB!Decremented
<1>15. ASSUME NEW i \in NB!Thread, NB!NotifiedStop(i)
       PROVE  Counted'
  BY <1>15 DEF NB!NotifiedStop, WithThePool
<1>16. ASSUME NEW w \in Worker, NB!TakeTask(w)
       PROVE  Counted'
  BY <1>16 DEF NB!TakeTask, WithThePool
<1>17. ASSUME NEW w \in Worker, NB!Expire(w)
       PROVE  Counted'
  <2>1. Head(tasks_) \in NB!Conn /\ InQueue(Head(tasks_))
    BY <1>17, WithoutFirst DEF NB!Expire, NBTyped, InQueue
  <2>2. PICK c \in NB!Conn : c = Head(tasks_) /\ InQueue(c)
    BY <2>1
  <2>3. appState_[c] = "WAIT_TASK"
    BY <2>2 DEF Placed, InPlace
  <2>4. /\ appState_' = [appState_ EXCEPT ![c] = "CLOSE_CONNECTION"]
        /\ UNCHANGED <<activeConnections_, numActiveProcessors_>>
    BY <1>17, <2>2 DEF NB!Expire
  <2>5. WithThePool' = WithThePool
    BY <2>3, <2>4 DEF NBTyped, WithThePool
  <2> QED
    BY <2>4, <2>5
<1>18. ASSUME NEW w \in Worker, NB!Finish(w)
       PROVE  Counted'
  BY <1>18 DEF NB!Finish, WithThePool
<1> QED
  BY <1>1, <1>2, <1>3, <1>4, <1>5, <1>6, <1>7, <1>8, <1>9,
     <1>10, <1>11, <1>12, <1>13, <1>14, <1>15, <1>16, <1>17, <1>18
     DEF NB!NonblockingNext, NB!Looks, NB!Hears, NB!Creates, NB!Works

\* A connection of the nonblocking server is in one place, so that no two threads work on it, none
\* forgets it and the next user of the object gets none of its notifications; and the number of
\* requests under way, which decides about overload, is right whichever way they come back.
THEOREM ConnectionsAreHeld == NSpec => []ConnectionsHeld
<1>1. NInit => Counted
  <2> SUFFICES ASSUME NInit
               PROVE  Counted
    OBVIOUS
  <2>1. WithThePool = {} /\ numActiveProcessors_ = 0
    BY DEF NInit, NB!NonblockingInit, WithThePool
  <2> QED
    BY <2>1, FS_EmptySet DEF Counted
<1>2. NBInv /\ Counted /\ [NNext]_<<part, serverVars, syncVars, nbVars, fileVars>> => Counted'
  <2> SUFFICES ASSUME NBInv, Counted, [NNext]_<<part, serverVars, syncVars, nbVars, fileVars>>
               PROVE  Counted'
    OBVIOUS
  <2>1. IsFiniteSet(WithThePool)
    <3>1. IsFiniteSet(NB!Conn)
      BY PartsAssumption, FS_Interval DEF NB!IOThreadsAssumption, NB!Conn
    <3> QED
      BY <3>1, FS_Subset DEF NBInv, NBTyped, WithThePool
  <2>2. CASE NB!NonblockingNext
    BY <2>1, <2>2, PoolCounted DEF NBInv
  <2>3. CASE UNCHANGED nbVars
    BY <2>3 DEF nbVars, Counted, WithThePool
  <2> QED
    BY <2>2, <2>3 DEF NNext
<1>3. NBInv /\ Counted => ConnectionsHeld
  <2>1. NBInv => NB!OneHolder
    BY HeldOnce DEF NB!OneHolder, NB!Cardinality, Cardinality
  <2>2. Counted => NB!ProcessorsCounted
    BY DEF NB!ProcessorsCounted, Counted, WithThePool, NB!Cardinality, Cardinality
  <2> QED
    BY <2>1, <2>2 DEF ConnectionsHeld
<1> QED
  BY <1>1, <1>2, <1>3, NBInvariant, PTL DEF NSpec

-----------------------------------------------------------------------------
\* The types of the file transport.

Cell == Nat \X Nat

\* What the transport has taken, and where its threads are.
Positions ==
  /\ given \in Seq(Sizes) /\ Len(given) <= MaxEvents
  /\ caller \in {"idle", "blocked", "flushing", "joining"}
  /\ writer \in {"none", "opening", "top", "swapping", "waiting", "writing", "checking", "syncing",
                 "telling", "ended"}
  /\ faults \in 0 .. MaxFaults

\* A buffer holds numbers of events, no more than it has room for.
BufferTyped(b) == b \in Seq(Nat) /\ Len(b) <= BufferSize /\ Elements(b) \subseteq 1 .. Len(given)

BuffersTyped ==
  /\ BufferTyped(enqueueBuffer_) /\ BufferTyped(dequeueBuffer_)
  /\ caller = "blocked" => Len(given) > 0

DiskTyped == file \in Seq(Cell) /\ onDisk \in 0 .. Len(file) /\ offset_ \in Nat

HistoriesTyped == damaged \subseteq Nat /\ lost \subseteq 1 .. Len(given) /\ unsynced \in BOOLEAN

FileTyped == Positions /\ BuffersTyped /\ DiskTyped /\ HistoriesTyped

LEMMA EmptyBuffer == ASSUME PartsAssumption, Positions PROVE BufferTyped(<< >>)
BY NoElements DEF File!SizesAssumption, Positions, BufferTyped

LEMMA FileTypesBegin == File!FileInit => FileTyped
<1> SUFFICES ASSUME File!FileInit
             PROVE  FileTyped
  OBVIOUS
<1>1. Positions
  BY PartsAssumption DEF File!SizesAssumption, File!FileInit, Positions
<1>2. BuffersTyped /\ DiskTyped
  BY <1>1, EmptyBuffer, PartsAssumption DEF File!FileInit, BuffersTyped, DiskTyped
<1>3. HistoriesTyped
  BY DEF File!FileInit, HistoriesTyped
<1> QED
  BY <1>1, <1>2, <1>3 DEF FileTyped

LEMMA PositionsKept ==
  ASSUME Positions, File!FileNext
  PROVE  Positions'
<1> USE PartsAssumption DEF File!SizesAssumption, Positions, File!callers, File!Idle, File!Goes
<1>1. ASSUME NEW n \in Sizes, File!Enqueue(n)
      PROVE  Positions'
  <2>1. given' = Append(given, n) /\ Len(given) < MaxEvents /\ UNCHANGED faults
        /\ caller' \in {"idle", "blocked"} /\ writer' \in {"opening", writer}
    BY <1>1 DEF File!Enqueue
  <2>2. given' \in Seq(Sizes) /\ Len(given') <= MaxEvents
    BY <2>1
  <2> QED
    BY <2>1, <2>2
<1>2. CASE File!Unblocked \/ File!flush \/ File!FlushEnds \/ File!Destroy \/ File!Joined
  BY <1>2 DEF File!Unblocked, File!flush, File!FlushEnds, File!Destroy, File!Joined
<1>3. CASE File!Crash
  BY <1>3 DEF File!Crash
<1> USE DEF File!Syncs, File!Completes, File!CutShort
<1>4. CASE File!Open \/ File!OpenFails \/ File!Top \/ File!Ends \/ File!Swap \/ File!Waits
  BY <1>4 DEF File!Open, File!OpenFails, File!Top, File!Ends, File!Swap, File!Waits
<1>5. CASE File!Wakes \/ File!Recover \/ File!SkipEvent
  BY <1>5 DEF File!Wakes, File!Recover, File!SkipEvent
<1>8. CASE File!Pad \/ File!WriteEvent
  BY <1>8 DEF File!Pad, File!WriteEvent
<1>6. CASE File!WriteFails \/ File!Written \/ File!Check \/ File!SyncInBetween
  BY <1>6 DEF File!WriteFails, File!Written, File!Check, File!SyncInBetween
<1>7. CASE File!ForcedSync \/ File!Tell
  BY <1>7 DEF File!ForcedSync, File!Tell
<1> QED
  BY <1>1, <1>2, <1>3, <1>4, <1>5, <1>6, <1>7, <1>8 DEF File!FileNext, File!Caller, File!Writer

LEMMA BuffersKept ==
  ASSUME Positions, BuffersTyped, File!FileNext
  PROVE  BuffersTyped'
<1> USE DEF File!callers, File!buffers, File!Idle
<1>1. ASSUME NEW n \in Sizes, File!Enqueue(n)
      PROVE  BuffersTyped'
  <2>1. /\ given' = Append(given, n) /\ UNCHANGED dequeueBuffer_ /\ caller = "idle"
        /\ Len(given) \in Nat /\ Len(given') = Len(given) + 1
    BY <1>1 DEF File!Enqueue, Positions
  <2>2. \A b : BufferTyped(b) => b \in Seq(Nat) /\ Len(b) <= BufferSize
                                 /\ Elements(b) \subseteq 1 .. Len(given')
    BY <2>1 DEF BufferTyped
  <2>3. CASE Len(enqueueBuffer_) = BufferSize
    BY <1>1, <2>1, <2>2, <2>3 DEF File!Enqueue, BuffersTyped, BufferTyped
  <2>4. CASE Len(enqueueBuffer_) # BufferSize
    <3>1. enqueueBuffer_' = Append(enqueueBuffer_, Len(given) + 1) /\ UNCHANGED caller
      BY <1>1, <2>4 DEF File!Enqueue
    <3>2. enqueueBuffer_ \in Seq(Nat) /\ Len(enqueueBuffer_) <= BufferSize /\ BufferSize \in Nat
      BY PartsAssumption DEF BuffersTyped, BufferTyped, File!SizesAssumption
    <3>3. /\ enqueueBuffer_' \in Seq(Nat) /\ Len(enqueueBuffer_') = Len(enqueueBuffer_) + 1
          /\ Elements(enqueueBuffer_') = Elements(enqueueBuffer_) \cup {Len(given) + 1}
      BY <2>1, <3>1, <3>2, WithLast
    <3>4. BufferTyped(enqueueBuffer_)'
      BY <2>1, <2>2, <2>4, <3>2, <3>3 DEF BuffersTyped, BufferTyped
    <3> QED
      BY <2>1, <2>2, <3>1, <3>4 DEF BuffersTyped, BufferTyped
  <2> QED
    BY <2>3, <2>4
<1>2. CASE File!Unblocked
  <2>1. Len(given) \in Nat /\ Len(given) > 0 /\ UNCHANGED <<given, dequeueBuffer_>> /\ caller' = "idle"
    BY <1>2 DEF File!Unblocked, Positions, BuffersTyped
  <2>2. /\ enqueueBuffer_ \in Seq(Nat) /\ Len(enqueueBuffer_) < BufferSize /\ BufferSize \in Nat
        /\ enqueueBuffer_' = Append(enqueueBuffer_, Len(given))
    BY <1>2, PartsAssumption DEF File!Unblocked, BuffersTyped, BufferTyped, File!SizesAssumption
  <2>3. /\ enqueueBuffer_' \in Seq(Nat) /\ Len(enqueueBuffer_') = Len(enqueueBuffer_) + 1
        /\ Elements(enqueueBuffer_') = Elements(enqueueBuffer_) \cup {Len(given)}
    BY <2>1, <2>2, WithLast
  <2>4. BufferTyped(enqueueBuffer_)'
    BY <2>1, <2>2, <2>3 DEF BuffersTyped, BufferTyped
  <2> QED
    BY <2>1, <2>4 DEF BuffersTyped, BufferTyped
<1>3. CASE File!Joined \/ File!Crash
  <2>1. /\ enqueueBuffer_' = << >> /\ dequeueBuffer_' = << >> /\ caller' = "idle"
        /\ UNCHANGED given
    BY <1>3 DEF File!Joined, File!Crash
  <2>2. BufferTyped(<< >>)
    BY PartsAssumption, EmptyBuffer
  <2> QED
    BY <2>1, <2>2 DEF BuffersTyped, BufferTyped
<1>5. CASE File!flush \/ File!FlushEnds \/ File!Destroy
  BY <1>5 DEF File!flush, File!FlushEnds, File!Destroy, BuffersTyped, BufferTyped
<1>6. CASE File!Swap
  <2>1. /\ enqueueBuffer_' = << >> /\ dequeueBuffer_' = enqueueBuffer_
        /\ UNCHANGED <<given, caller>>
    BY <1>6 DEF File!Swap
  <2>2. BufferTyped(<< >>)
    BY PartsAssumption, EmptyBuffer
  <2> QED
    BY <2>1, <2>2 DEF BuffersTyped, BufferTyped
<1>7. CASE File!SkipEvent \/ File!WriteEvent \/ File!WriteFails
  <2>1. /\ dequeueBuffer_ # << >> /\ dequeueBuffer_' = Tail(dequeueBuffer_)
        /\ UNCHANGED <<given, caller, enqueueBuffer_>>
    BY <1>7 DEF File!SkipEvent, File!WriteEvent, File!WriteFails, File!MayWrite, File!HasEvent, File!Taken
  <2>2. dequeueBuffer_ \in Seq(Nat) /\ Len(dequeueBuffer_) <= BufferSize /\ BufferSize \in Nat
    BY PartsAssumption DEF BuffersTyped, BufferTyped, File!SizesAssumption
  <2>3. /\ dequeueBuffer_' \in Seq(Nat) /\ Elements(dequeueBuffer_') \subseteq Elements(dequeueBuffer_)
        /\ Len(dequeueBuffer_') <= Len(dequeueBuffer_)
    BY <2>1, <2>2, WithoutFirst
  <2>4. Len(dequeueBuffer_') \in Nat /\ Len(dequeueBuffer_) \in Nat
    BY <2>2, <2>3
  <2>5. BufferTyped(dequeueBuffer_)'
    BY <2>1, <2>2, <2>3, <2>4 DEF BuffersTyped, BufferTyped
  <2> QED
    BY <2>1, <2>5 DEF BuffersTyped, BufferTyped
<1>8. CASE \/ File!Open \/ File!OpenFails \/ File!Top \/ File!Ends \/ File!Waits \/ File!Wakes
           \/ File!Recover \/ File!Pad
  BY <1>8 DEF File!Open, File!OpenFails, File!Top, File!Ends, File!Waits, File!Wakes, File!Recover,
              File!Pad, BuffersTyped, BufferTyped
<1>9. CASE File!Written \/ File!Check \/ File!SyncInBetween \/ File!ForcedSync \/ File!Tell
  BY <1>9 DEF File!Written, File!Check, File!SyncInBetween, File!ForcedSync, File!Tell,
              BuffersTyped, BufferTyped
<1> QED
  BY <1>1, <1>2, <1>3, <1>5, <1>6, <1>7, <1>8, <1>9 DEF File!FileNext, File!Caller, File!Writer

LEMMA Extended ==
  ASSUME NEW s \in Seq(Cell), NEW n \in Nat, NEW f \in [1 .. n -> Cell]
  PROVE  s \o f \in Seq(Cell) /\ Len(s \o f) = Len(s) + n /\ Len(s) \in Nat
<1>1. f \in Seq(Cell) /\ Len(f) = n
  OBVIOUS
<1> QED
  BY <1>1

LEMMA NextChunk ==
  ASSUME NEW n \in Nat, NEW c \in Nat, c > 0
  PROVE  (n \div c) * c \in Nat /\ (n \div c + 1) * c - n \in Nat
<1>1. n \div c \in Nat /\ n <= (n \div c + 1) * c
  OBVIOUS
<1>2. (n \div c) * c \in Nat /\ (n \div c + 1) * c \in Nat
  BY <1>1
<1> QED
  BY <1>1, <1>2

LEMMA DiskKept ==
  ASSUME FileTyped, File!FileNext
  PROVE  DiskTyped'
<1> USE DEF File!disk, File!callers, File!buffers, File!flags
<1>1. /\ file \in Seq(Cell) /\ onDisk \in 0 .. Len(file) /\ offset_ \in Nat /\ Len(file) \in Nat
      /\ Chunk \in Nat /\ Chunk > 0
  BY PartsAssumption DEF File!SizesAssumption, FileTyped, DiskTyped
<1>2. File!HasEvent => /\ File!Event \in 1 .. Len(given) /\ File!Size(File!Event) \in Nat
  <2> SUFFICES ASSUME File!HasEvent
               PROVE  File!Event \in 1 .. Len(given) /\ File!Size(File!Event) \in Nat
    OBVIOUS
  <2>1. dequeueBuffer_ \in Seq(Nat) /\ dequeueBuffer_ # << >> /\ Elements(dequeueBuffer_) \subseteq 1 .. Len(given)
    BY DEF File!HasEvent, FileTyped, BuffersTyped, BufferTyped
  <2>2. File!Event \in 1 .. Len(given)
    BY <2>1, WithoutFirst DEF File!Event
  <2>3. given[File!Event] \in Sizes /\ Sizes \subseteq Nat
    BY <2>2, PartsAssumption DEF FileTyped, Positions, File!SizesAssumption
  <2> QED
    BY <2>2, <2>3 DEF File!Size
<1>3. CASE /\ UNCHANGED <<file, offset_>>
           /\ onDisk' \in {onDisk, Len(file)}
  BY <1>1, <1>3 DEF DiskTyped
<1>4. CASE File!Crash
  <2>1. PICK k \in onDisk .. Len(file) : file' = SubSeq(file, 1, k) /\ onDisk' = k
    BY <1>4 DEF File!Crash
  <2>2. UNCHANGED offset_ /\ k \in 0 .. Len(file)
    BY <1>1, <1>4 DEF File!Crash
  <2>3. SubSeq(file, 1, k) \in Seq(Cell) /\ Len(SubSeq(file, 1, k)) = k
    BY <1>1, <2>2
  <2> QED
    BY <1>1, <2>1, <2>2, <2>3 DEF DiskTyped
<1>5. CASE File!Open
  BY <1>1, <1>5 DEF File!Open, DiskTyped
<1>6. CASE File!Recover
  <2>1. offset_' \in {offset_} \cup File!SeekToEnd /\ UNCHANGED <<file, onDisk>>
    BY <1>6 DEF File!Recover
  <2>2. File!SeekToEnd \subseteq Nat
    <3>1. (Len(file) \div Chunk) * Chunk \in Nat /\ Len(file) \in Nat
      BY <1>1, NextChunk
    <3> QED
      BY <3>1 DEF File!SeekToEnd, File!ChunkOf
  <2> QED
    BY <1>1, <2>1, <2>2 DEF DiskTyped
<1>7. CASE File!Pad
  <2> DEFINE padding == (File!ChunkOf(Len(file)) + 1) * Chunk - Len(file)
  <2>1. padding \in Nat
    BY <1>1, NextChunk DEF File!ChunkOf
  <2>2. PICK k \in 1 .. padding : file' = file \o File!Zeros(k) /\ offset_' = Len(file) + padding
    BY <1>7 DEF File!Pad
  <2>3. UNCHANGED onDisk
    BY <1>7 DEF File!Pad
  <2> HIDE DEF padding
  <2>4. k \in Nat /\ File!Zeros(k) \in [1 .. k -> Cell]
    BY <2>1 DEF File!Zeros, File!Zero, Cell
  <2>5. file' \in Seq(Cell) /\ Len(file') = Len(file) + k
    BY <1>1, <2>2, <2>4, Extended
  <2> QED
    BY <1>1, <2>1, <2>2, <2>3, <2>4, <2>5 DEF DiskTyped
<1>8. CASE File!WriteEvent
  <2> DEFINE e == File!Event
             n == File!Size(e)
  <2>1. e \in Nat /\ n \in Nat
    BY <1>2, <1>8 DEF File!WriteEvent, File!MayWrite, FileTyped, Positions
  <2>2. PICK k \in 1 .. n : file' = file \o SubSeq(File!Cells(e), 1, k) /\ offset_' = offset_ + n
    BY <1>8 DEF File!WriteEvent
  <2>3. UNCHANGED onDisk
    BY <1>8 DEF File!WriteEvent
  <2>4. File!Cells(e) = [j \in 1 .. n |-> <<e, j>>]
    BY DEF File!Cells
  <2> HIDE DEF e, n
  <2>5. File!Cells(e) \in Seq(Cell) /\ Len(File!Cells(e)) = n
    BY <2>1, <2>4 DEF Cell
  <2>6. /\ k \in Nat /\ SubSeq(File!Cells(e), 1, k) \in Seq(Cell)
        /\ Len(SubSeq(File!Cells(e), 1, k)) = k
    BY <2>1, <2>5
  <2>7. file' \in Seq(Cell) /\ Len(file') = Len(file) + k
    BY <1>1, <2>2, <2>6
  <2> QED
    BY <1>1, <2>1, <2>2, <2>3, <2>6, <2>7 DEF DiskTyped
<1>9. CASE File!WriteFails
  BY <1>1, <1>9 DEF File!WriteFails, DiskTyped
<1>10. CASE File!Caller
  BY <1>3, <1>10 DEF File!Caller, File!Enqueue, File!Unblocked, File!flush, File!FlushEnds,
                     File!Destroy, File!Joined
<1>11. CASE File!OpenFails \/ File!Top \/ File!Ends \/ File!Swap \/ File!Waits \/ File!Wakes
  BY <1>3, <1>11 DEF File!Syncs, File!OpenFails, File!Top, File!Ends, File!Swap, File!Waits, File!Wakes
<1>12. CASE File!SkipEvent \/ File!Written \/ File!Check \/ File!SyncInBetween
  BY <1>3, <1>12 DEF File!SkipEvent, File!Written, File!Check, File!SyncInBetween
<1>13. CASE File!ForcedSync \/ File!Tell
  BY <1>3, <1>13 DEF File!Syncs, File!ForcedSync, File!Tell
<1> QED
  BY <1>4, <1>5, <1>6, <1>7, <1>8, <1>9, <1>10, <1>11, <1>12, <1>13 DEF File!FileNext, File!Writer

LEMMA HistoriesKept ==
  ASSUME FileTyped, File!FileNext
  PROVE  HistoriesTyped'
<1> USE DEF File!disk, File!damages, File!callers, HistoriesTyped
<1>1. damaged \subseteq Nat /\ lost \subseteq 1 .. Len(given) /\ unsynced \in BOOLEAN /\ Len(given) \in Nat
  BY DEF FileTyped, Positions
<1>2. ASSUME NEW n \in Sizes, File!Enqueue(n)
      PROVE  HistoriesTyped'
  <2>1. Len(given') = Len(given) + 1 /\ UNCHANGED <<damaged, lost, unsynced>>
    BY <1>2 DEF File!Enqueue, FileTyped, Positions
  <2> QED
    BY <1>1, <2>1
<1>3. File!HasEvent => File!Event \in 1 .. Len(given)
  BY WithoutFirst DEF File!HasEvent, File!Event, FileTyped, BuffersTyped, BufferTyped
<1>4. CASE File!WriteEvent
  <2>1. File!Touched(File!Size(File!Event)) \subseteq Nat
    <3>1. Len(file) \in Nat /\ Chunk \in Nat /\ Chunk > 0
      BY PartsAssumption DEF File!SizesAssumption, FileTyped, DiskTyped
    <3>2. File!Event \in 1 .. Len(given)
      BY <1>3, <1>4 DEF File!WriteEvent, File!MayWrite
    <3>3. File!Size(File!Event) \in Nat /\ File!Size(File!Event) > 0
      <4>1. given[File!Event] \in Sizes
        BY <3>2 DEF FileTyped, Positions
      <4>2. \A m \in Sizes : m \in Nat /\ m > Header
        BY PartsAssumption DEF File!SizesAssumption
      <4>3. Header \in Nat
        BY PartsAssumption DEF File!SizesAssumption
      <4> QED
        BY <4>1, <4>2, <4>3 DEF File!Size
    <3> DEFINE n == File!Size(File!Event)
    <3>4. Len(file) + n - 1 \in Nat
      BY <3>1, <3>3
    <3> HIDE DEF n
    <3>5. Len(file) \div Chunk \in Nat /\ (Len(file) + n - 1) \div Chunk \in Nat
      BY <3>1, <3>4
    <3>6. File!Touched(n) \subseteq Nat
      BY <3>5 DEF File!Touched, File!ChunkOf
    <3> QED
      BY <3>6 DEF n
  <2>2. damaged' \in {damaged, damaged \cup File!Touched(File!Size(File!Event))}
    BY <1>4 DEF File!WriteEvent
  <2>3. lost' \in {lost, lost \cup {File!Event}}
    BY <1>4 DEF File!WriteEvent
  <2>4. UNCHANGED <<unsynced, given>>
    BY <1>4 DEF File!WriteEvent
  <2> QED
    BY <1>1, <1>3, <1>4, <2>1, <2>2, <2>3, <2>4 DEF File!WriteEvent, File!MayWrite
<1>5. CASE File!WriteFails
  BY <1>1, <1>3, <1>5 DEF File!WriteFails, File!MayWrite
<1>6. CASE File!Unblocked \/ File!flush \/ File!FlushEnds \/ File!Destroy \/ File!Joined \/ File!Crash
  BY <1>1, <1>6 DEF File!Unblocked, File!flush, File!FlushEnds, File!Destroy, File!Joined, File!Crash
<1>7. CASE File!Ends \/ File!ForcedSync \/ File!SyncInBetween
  BY <1>1, <1>7 DEF File!Ends, File!ForcedSync, File!SyncInBetween, File!Syncs
<1>8. CASE \/ File!Open \/ File!OpenFails \/ File!Top \/ File!Swap \/ File!Waits \/ File!Wakes
           \/ File!Recover
  BY <1>1, <1>8 DEF File!Open, File!OpenFails, File!Top, File!Swap, File!Waits, File!Wakes, File!Recover
<1>9. CASE File!SkipEvent \/ File!Pad \/ File!Written \/ File!Check \/ File!Tell
  BY <1>1, <1>9 DEF File!SkipEvent, File!Pad, File!Written, File!Check, File!Tell
<1> QED
  BY <1>2, <1>4, <1>5, <1>6, <1>7, <1>8, <1>9 DEF File!FileNext, File!Caller, File!Writer

LEMMA FileTypesKept ==
  ASSUME FileTyped, [File!FileNext]_fileVars
  PROVE  FileTyped'
<1>1. CASE File!FileNext
  BY <1>1, PositionsKept, BuffersKept, DiskKept, HistoriesKept DEF FileTyped
<1>2. CASE UNCHANGED fileVars
  BY <1>2 DEF fileVars, FileTyped, Positions, BuffersTyped, BufferTyped, DiskTyped, HistoriesTyped
<1> QED
  BY <1>1, <1>2

-----------------------------------------------------------------------------
\* The types of the nonblocking server, and how many connection objects there are.

PipesFit == \A i \in NB!Thread : Len(pipe[i]) <= PipeSize

\* Every object is in use or on the stack.
ObjectsCounted == numTConnections_ = Cardinality(activeConnections_) + Len(connectionStack_)

LEMMA PipesFitStill ==
  ASSUME NBTyped, PipesFit, NB!NonblockingNext
  PROVE  PipesFit'
<1> USE DEF NB!peers, NB!connections, NB!objects, NB!pool
<1>1. /\ PipeSize \in Nat
      /\ \A i \in NB!Thread : /\ pipe[i] \in Seq(NB!Conn \cup {NB!Stop})
                             /\ Len(pipe[i]) \in Nat /\ Len(pipe[i]) <= PipeSize
  BY PartsAssumption DEF NB!IOThreadsAssumption, NBTyped, PipesFit
<1>2. ASSUME NEW i, NEW x, Len(pipe[i]) < PipeSize, pipe' = [pipe EXCEPT ![i] = Append(@, x)],
             x \in NB!Conn \cup {NB!Stop}
      PROVE  PipesFit'
  <2> SUFFICES ASSUME NEW j \in NB!Thread
               PROVE  Len(pipe'[j]) <= PipeSize
    BY DEF PipesFit
  <2>1. CASE j = i
    <3>1. pipe'[j] = Append(pipe[j], x)
      BY <1>2, <2>1 DEF NBTyped
    <3>2. Len(pipe'[j]) = Len(pipe[j]) + 1
      BY <1>1, <1>2, <3>1
    <3> QED
      BY <1>1, <1>2, <2>1, <3>2
  <2>2. CASE j # i
    <3>1. pipe'[j] = pipe[j]
      BY <1>2, <2>2 DEF NBTyped
    <3> QED
      BY <1>1, <3>1
  <2> QED
    BY <2>1, <2>2
<1>3. ASSUME NEW i \in NB!Thread, pipe[i] # << >>, pipe' = [pipe EXCEPT ![i] = Tail(@)]
      PROVE  PipesFit'
  <2> SUFFICES ASSUME NEW j \in NB!Thread
               PROVE  Len(pipe'[j]) <= PipeSize
    BY DEF PipesFit
  <2>1. Len(Tail(pipe[i])) <= PipeSize
    BY <1>1, <1>3
  <2>2. pipe'[j] = IF j = i THEN Tail(pipe[i]) ELSE pipe[j]
    BY <1>3 DEF NBTyped
  <2> QED
    BY <1>1, <2>1, <2>2
<1>4. CASE UNCHANGED pipe
  BY <1>4 DEF PipesFit
<1>5. ASSUME NEW i \in NB!Thread, NB!StopThread(i)
      PROVE  PipesFit'
  BY <1>2, <1>4, <1>5 DEF NB!StopThread
<1>6. ASSUME NEW t \in NB!Thread \cup Worker, NB!Notify(t)
      PROVE  PipesFit'
  <2>1. writing[t] \in NB!Conn
    BY <1>6 DEF NB!Notify, NBTyped
  <2> QED
    BY <1>2, <1>6, <2>1 DEF NB!Notify
<1>7. ASSUME NEW i \in NB!Thread, NB!Hears(i)
      PROVE  PipesFit'
  BY <1>3, <1>7 DEF NB!Hears, NB!NotifiedFresh, NB!NotifiedDone, NB!NotifiedClose, NB!NotifiedStop,
                    NB!Notified
<1>8. ASSUME NEW i \in NB!Thread, NB!Looks(i)
      PROVE  PipesFit'
  BY <1>4, <1>8 DEF NB!Looks, NB!ReadSize, NB!GiveToPool, NB!Process, NB!Sent
<1>9. ASSUME NEW i \in NB!Thread, NEW c \in NB!Conn, NB!Fails(i, c)
      PROVE  PipesFit'
  BY <1>4, <1>9 DEF NB!Fails
<1>10. ASSUME NEW w \in Worker, NB!TakeTask(w) \/ NB!Finish(w) \/ NB!Expire(w)
       PROVE  PipesFit'
  BY <1>4, <1>10 DEF NB!TakeTask, NB!Finish, NB!Expire
<1>11. ASSUME NEW p \in NB!Sender, NB!Accept(p)
       PROVE  PipesFit'
  BY <1>4, <1>11 DEF NB!Accept
<1>12. CASE NB!StopPool
  BY <1>4, <1>12 DEF NB!StopPool
<1>13. ASSUME NEW i \in NB!Thread, NB!Registers(i)
       PROVE  PipesFit'
  BY <1>4, <1>13 DEF NB!Registers
<1>14. ASSUME NEW c \in NB!Conn, NB!CreateConnection(c)
       PROVE  PipesFit'
  BY <1>4, <1>14 DEF NB!CreateConnection
<1> QED
  BY <1>5, <1>6, <1>7, <1>8, <1>9, <1>10, <1>11, <1>12, <1>13, <1>14
     DEF NB!NonblockingNext, NB!Creates, NB!Works

LEMMA FinitelyMany == NBTyped => IsFiniteSet(activeConnections_)
<1>1. IsFiniteSet(NB!Conn)
  BY PartsAssumption, FS_Interval DEF NB!IOThreadsAssumption, NB!Conn
<1> QED
  BY <1>1, FS_Subset DEF NBTyped

\* close() puts the object on the stack or deletes it.
LEMMA ObjectReturned ==
  ASSUME NBTyped, ObjectsCounted, IsFiniteSet(activeConnections_), NEW c \in activeConnections_,
         NB!ReturnConnection(c)
  PROVE  ObjectsCounted'
<1>1. /\ activeConnections_' = activeConnections_ \ {c} /\ Cardinality(activeConnections_) \in Nat
      /\ Cardinality(activeConnections_ \ {c}) = Cardinality(activeConnections_) - 1
  BY PoolCount DEF NB!ReturnConnection
<1>2. connectionStack_ \in Seq(NB!Conn) /\ c \in NB!Conn /\ Len(connectionStack_) \in Nat
  BY DEF NBTyped
<1>3. CASE numTConnections_' = numTConnections_ - 1 /\ UNCHANGED connectionStack_
  BY <1>1, <1>2, <1>3 DEF ObjectsCounted
<1>4. CASE connectionStack_' = <<c>> \o connectionStack_ /\ UNCHANGED numTConnections_
  <2>1. Len(connectionStack_') = Len(connectionStack_) + 1
    BY <1>2, <1>4, WithFirst
  <2> QED
    BY <1>1, <1>2, <1>4, <2>1 DEF ObjectsCounted
<1> QED
  BY <1>3, <1>4 DEF NB!ReturnConnection

LEMMA ObjectTaken ==
  ASSUME NBTyped, NoRepeats, ObjectsCounted, IsFiniteSet(activeConnections_), NEW c \in NB!Conn,
         NB!CreateConnection(c)
  PROVE  ObjectsCounted'
<1>1. connectionStack_ \in Seq(NB!Conn) /\ Len(connectionStack_) \in Nat
  BY DEF NBTyped
<1> Cardinality(activeConnections_) \in Nat
  BY FS_CardinalityType
<1>2. CASE connectionStack_ # << >>
  <2>1. NB!Reused(c) /\ ~NB!Fresh(c) /\ c = Head(connectionStack_)
    BY <1>2 DEF NB!CreateConnection, NB!Reused, NB!Fresh
  <2>2. c \notin activeConnections_
    BY <1>1, <1>2, <2>1, WithoutFirst DEF NoRepeats
  <2>3. numTConnections_' = numTConnections_
    BY <2>1 DEF NB!CreateConnection
  <2>4. CASE UNCHANGED <<activeConnections_, connectionStack_>>
    BY <2>3, <2>4 DEF ObjectsCounted
  <2>5. CASE /\ activeConnections_' = activeConnections_ \cup {c}
             /\ connectionStack_' = Tail(connectionStack_)
    <3>1. Len(connectionStack_') = Len(connectionStack_) - 1
      BY <1>1, <1>2, <2>5
    <3>2. Cardinality(activeConnections_') = Cardinality(activeConnections_) + 1
      BY <2>2, <2>5, PoolCount
    <3> QED
      BY <1>1, <2>3, <3>1, <3>2 DEF ObjectsCounted
  <2> QED
    BY <2>1, <2>4, <2>5 DEF NB!CreateConnection
<1>3. CASE connectionStack_ = << >>
  <2>1. ~NB!Reused(c) /\ NB!Fresh(c) /\ Len(connectionStack_) = 0
    BY <1>3 DEF NB!CreateConnection, NB!Reused
  <2>2. c \notin activeConnections_
    BY <2>1 DEF NB!Fresh, NB!Allocated
  <2>3. numTConnections_' = numTConnections_ + 1
    BY <2>1 DEF NB!CreateConnection
  <2>4. CASE connectionStack_' = <<c>> /\ UNCHANGED activeConnections_
    <3>1. Len(connectionStack_') = 1
      BY <2>4
    <3> QED
      BY <1>1, <2>1, <2>3, <2>4, <3>1 DEF ObjectsCounted
  <2>5. CASE connectionStack_' = << >> /\ activeConnections_' = activeConnections_ \cup {c}
    <3>1. /\ Cardinality(activeConnections_') = Cardinality(activeConnections_) + 1
          /\ Len(connectionStack_') = 0
      BY <2>2, <2>5, PoolCount
    <3> QED
      BY <1>1, <2>1, <2>3, <3>1 DEF ObjectsCounted
  <2> QED
    BY <2>1, <2>4, <2>5 DEF NB!CreateConnection
<1> QED
  BY <1>2, <1>3

LEMMA ObjectsCountedStill ==
  ASSUME NBTyped, NoRepeats, Single, Placed, ObjectsCounted, IsFiniteSet(activeConnections_),
         NB!NonblockingNext
  PROVE  ObjectsCounted'
<1> USE DEF NB!peers, NB!connections, NB!pool
<1>1. CASE UNCHANGED NB!objects
  BY <1>1 DEF NB!objects, ObjectsCounted
<1>2. ASSUME NEW i \in NB!Thread, NEW c \in NB!Conn, NB!Fails(i, c)
      PROVE  ObjectsCounted'
  <2>1. c \in activeConnections_
    BY <1>2 DEF NB!Fails, NBTyped, Placed, InPlace, AtEvent
  <2> QED
    BY <1>2, <2>1, ObjectReturned DEF NB!Fails, NB!Close
<1>3. ASSUME NEW i \in NB!Thread, NB!NotifiedClose(i)
      PROVE  ObjectsCounted'
  <2>1. /\ pipe[i] # << >> /\ pipe' = [pipe EXCEPT ![i] = Tail(@)]
        /\ Head(pipe[i]) # NB!Stop
    BY <1>3 DEF NB!NotifiedClose, NB!Notified
  <2>2. PICK c \in NB!Conn : c = Head(pipe[i]) /\ InPipe(c)
    BY <2>1, PipeIsHeard DEF Single
  <2>3. c \in activeConnections_
    BY <2>2 DEF Placed, InPlace
  <2> QED
    BY <1>3, <2>2, <2>3, ObjectReturned DEF NB!NotifiedClose, NB!Close
<1>4. ASSUME NEW c \in NB!Conn, NB!CreateConnection(c)
      PROVE  ObjectsCounted'
  BY <1>4, ObjectTaken
<1>5. ASSUME NEW i \in NB!Thread,
             \/ NB!StopThread(i) \/ NB!Registers(i) \/ NB!Looks(i)
             \/ NB!NotifiedFresh(i) \/ NB!NotifiedDone(i) \/ NB!NotifiedStop(i)
      PROVE  UNCHANGED NB!objects
  BY <1>5
     DEF NB!StopThread, NB!Registers, NB!Looks, NB!ReadSize, NB!GiveToPool, NB!Process, NB!Sent,
              NB!NotifiedFresh, NB!NotifiedDone, NB!NotifiedStop
<1>6. ASSUME NEW t \in NB!Thread \cup Worker, NB!Notify(t)
      PROVE  UNCHANGED NB!objects
  BY <1>6 DEF NB!Notify
<1>7. ASSUME NEW w \in Worker, NB!TakeTask(w) \/ NB!Finish(w) \/ NB!Expire(w)
      PROVE  UNCHANGED NB!objects
  BY <1>7 DEF NB!TakeTask, NB!Finish, NB!Expire
<1>8. ASSUME NEW p \in NB!Sender, NB!Accept(p)
      PROVE  UNCHANGED NB!objects
  BY <1>8 DEF NB!Accept
<1>9. NB!StopPool => UNCHANGED NB!objects
  BY DEF NB!StopPool
<1> QED
  BY <1>1, <1>2, <1>3, <1>4, <1>5, <1>6, <1>7, <1>8, <1>9
     DEF NB!NonblockingNext, NB!Hears, NB!Creates, NB!Works

\* A sequence without repetition has as many elements as it is long.
LEMMA OnceCounted ==
  ASSUME NEW X, NEW s \in Seq(X), Once(s)
  PROVE  IsFiniteSet(Elements(s)) /\ Cardinality(Elements(s)) = Len(s) /\ Len(s) \in Nat
<1>1. Len(s) \in Nat /\ DOMAIN s = 1 .. Len(s) /\ s \in [1 .. Len(s) -> Elements(s)]
  BY DEF Elements
<1>2. s \in Bijection(1 .. Len(s), Elements(s))
  <2>1. s \in Injection(1 .. Len(s), Elements(s))
    <3>1. \A a, b \in 1 .. Len(s) : s[a] = s[b] => a = b
      BY <1>1 DEF Once
    <3> QED
      BY <1>1, <3>1 DEF Injection, IsInjective
  <2>2. s \in Surjection(1 .. Len(s), Elements(s))
    BY <1>1 DEF Elements, Surjection
  <2> QED
    BY <2>1, <2>2 DEF Bijection
<1>3. IsFiniteSet(1 .. Len(s)) /\ Cardinality(1 .. Len(s)) = Len(s)
  BY <1>1, FS_Interval
<1> QED
  BY <1>1, <1>2, <1>3, FS_Bijection DEF ExistsBijection

LEMMA NBTypesCounted ==
  ASSUME NBInv, PipesFit, ObjectsCounted
  PROVE  NB!NonblockingTypeOK
<1>1. NB!Allocated = activeConnections_ \cup Elements(connectionStack_)
  BY DEF NB!Allocated, Elements
<1>2. activeConnections_ \cap Elements(connectionStack_) = {}
  BY DEF NBInv, NoRepeats
<1>3. IsFiniteSet(activeConnections_)
  BY FinitelyMany DEF NBInv
<1>4. /\ IsFiniteSet(Elements(connectionStack_)) /\ Len(connectionStack_) \in Nat
      /\ Cardinality(Elements(connectionStack_)) = Len(connectionStack_)
  BY OnceCounted DEF NBInv, NoRepeats, NBTyped
<1>5. Cardinality(NB!Allocated) = Cardinality(activeConnections_) + Len(connectionStack_)
  <2>1. Cardinality(activeConnections_ \cap Elements(connectionStack_)) = 0
    BY <1>2, FS_EmptySet
  <2>2. Cardinality(activeConnections_) \in Nat
    BY <1>3, FS_CardinalityType
  <2>3. Cardinality(NB!Allocated) =
          Cardinality(activeConnections_) + Cardinality(Elements(connectionStack_))
            - Cardinality(activeConnections_ \cap Elements(connectionStack_))
    BY <1>1, <1>3, <1>4, FS_Union
  <2> QED
    BY <1>4, <2>1, <2>2, <2>3
<1>6. /\ NB!Cardinality(NB!Allocated) = Cardinality(NB!Allocated)
      /\ NB!Cardinality(activeConnections_) = Cardinality(activeConnections_)
  BY DEF NB!Cardinality, Cardinality
<1> QED
  BY <1>5, <1>6 DEF NBInv, NBTyped, PipesFit, ObjectsCounted, NB!NonblockingTypeOK

\* All parts keep their types: the counts of the nonblocking server are those of its objects, and
\* no buffer or pipe takes more than it has room for.
THEOREM ServersTypeCorrect == NSpec => []NTypeOK
<1> DEFINE Types == ServerInv /\ Sync!SyncTypeOK /\ FileTyped /\ PipesFit /\ ObjectsCounted
<1>1. NInit => Types
  <2> SUFFICES ASSUME NInit
               PROVE  Types
    OBVIOUS
  <2>1. ServerInv /\ Sync!SyncTypeOK /\ FileTyped
    BY ServerBegins, SharedTypesBegin, FileTypesBegin DEF NInit
  <2>2. PipesFit
    BY PartsAssumption DEF NInit, NB!NonblockingInit, NB!IOThreadsAssumption, PipesFit
  <2>3. ObjectsCounted
    BY FS_EmptySet DEF NInit, NB!NonblockingInit, ObjectsCounted
  <2> QED
    BY <2>1, <2>2, <2>3
<1>2. Types /\ NBInv /\ [NNext]_<<part, serverVars, syncVars, nbVars, fileVars>> => Types'
  <2> SUFFICES ASSUME Types, NBInv, [NNext]_<<part, serverVars, syncVars, nbVars, fileVars>>
               PROVE  Types'
    OBVIOUS
  <2>1. /\ [ServerNext]_serverVars /\ [Sync!SyncNext]_syncVars
        /\ [NB!NonblockingNext]_nbVars /\ [File!FileNext]_fileVars
    BY DEF NNext
  <2>2. ServerInv' /\ FileTyped'
    BY <2>1, ServerStep, FileTypesKept
  <2>3. Sync!SyncTypeOK'
    BY <2>1, SharedTypesKept DEF syncVars, Sync!SyncTypeOK
  <2>4. PipesFit' /\ ObjectsCounted'
    <3>1. IsFiniteSet(activeConnections_)
      BY FinitelyMany DEF NBInv
    <3>2. CASE NB!NonblockingNext
      BY <3>1, <3>2, PipesFitStill, ObjectsCountedStill DEF NBInv
    <3>3. CASE UNCHANGED nbVars
      BY <3>3 DEF nbVars, PipesFit, ObjectsCounted
    <3> QED
      BY <2>1, <3>2, <3>3
  <2> QED
    BY <2>2, <2>3, <2>4
<1>3. Types /\ NBInv => NTypeOK
  <2> SUFFICES ASSUME Types, NBInv
               PROVE  NTypeOK
    OBVIOUS
  <2>1. File!FileTypeOK
    BY DEF FileTyped, Positions, BuffersTyped, BufferTyped, DiskTyped, HistoriesTyped,
        File!FileTypeOK
  <2>2. ServerTypeOK
    BY DEF ServerInv
  <2> QED
    BY <2>1, <2>2, NBTypesCounted DEF NTypeOK
<1> QED
  BY <1>1, <1>2, <1>3, NBInvariant, PTL DEF NSpec
=============================================================================
