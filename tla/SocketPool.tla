----------------------------- MODULE SocketPool -----------------------------
(***************************************************************************)
(* Sockets that connect to one of several servers (TSocketPool.cpp, open   *)
(* and close of TSocket.cpp).  The entries of servers are objects of their *)
(* own, which keep the descriptor of a connection and what is known of     *)
(* failures; addServer lets pools have the same ones.  Pools are used one  *)
(* call at a time, and their lists of entries only grow.                   *)
(***************************************************************************)
EXTENDS Descriptors, FiniteSets, SequencesExt

CONSTANTS
  PoolObject, Entry,  \* TSocketPool and TSocketPoolServer objects
  PoolDescriptor,  \* what the process may have open
  NumRetries, RetryInterval, MaxConsecutiveFailures, AlwaysTryLast,
  LastClock        \* bound: the time

ASSUME SocketPoolAssumption == IsFiniteSet(Entry) /\ PoolDescriptor \subseteq Nat \ {0}

VARIABLES
  poolTable,       \* the descriptors
  servers_, currentServer_, socket_,
  entry,           \* the fields of the entries
  now,
  shared           \* history: two pools have had one entry

socketPoolVars == <<poolTable, servers_, currentServer_, socket_, entry, now, shared>>

Nowhere == "nowhere"
IsOpen(fd) == fd # THRIFT_INVALID_SOCKET

SocketPoolInit ==
  /\ poolTable = [fd \in PoolDescriptor |-> Free]
  /\ servers_ = [p \in PoolObject |-> {}] /\ currentServer_ = [p \in PoolObject |-> Nowhere]
  /\ socket_ = [p \in PoolObject |-> THRIFT_INVALID_SOCKET]
  /\ entry = [e \in Entry |-> [socket_ |-> THRIFT_INVALID_SOCKET, lastFailTime_ |-> 0,
                               consecutiveFailures_ |-> 0]]
  /\ now = 1 /\ shared = FALSE

AddServer(p, e) ==
  /\ e \notin servers_[p]
  /\ servers_' = [servers_ EXCEPT ![p] = @ \cup {e}]
  /\ shared' = (shared \/ \E q \in PoolObject \ {p} : e \in servers_[q])
  /\ UNCHANGED <<poolTable, currentServer_, socket_, entry, now>>

-----------------------------------------------------------------------------
\* A failure of all tries with an entry.
Failed(e) ==
  IF e.consecutiveFailures_ + 1 > MaxConsecutiveFailures
  THEN [e EXCEPT !.consecutiveFailures_ = 0, !.lastFailTime_ = now]
  ELSE [e EXCEPT !.consecutiveFailures_ = @ + 1]

\* open() passes over an entry that is marked down.
Tries(order, i) ==
  LET e == entry[order[i]]
  IN \/ e.lastFailTime_ = 0 \/ now - e.lastFailTime_ > RetryInterval
     \/ AlwaysTryLast /\ i = Len(order)

\* TSocket::open: local_open connects to an address of the server, or closes what it has opened and throws.
Connects(order, i, reachable) ==
  Tries(order, i) /\ NumRetries > 0 /\ order[i] \in reachable /\ IsOpen(Lowest(poolTable))

\* The entries from the i-th of an order on have not been looked at.
AfterFailures(order, i) ==
  [e \in Entry |-> IF \E j \in 1 .. i - 1 : order[j] = e /\ Tries(order, j) THEN Failed(entry[e])
                   ELSE entry[e]]

\* The entries, shuffled.
Orders(p) == SetToSeqs(servers_[p])

\* The i-th entry has a connection, which is used.
OpenFinds(p, order, i) ==
  /\ IsOpen(entry[order[i]].socket_)
  /\ currentServer_' = [currentServer_ EXCEPT ![p] = order[i]]
  /\ socket_' = [socket_ EXCEPT ![p] = entry[order[i]].socket_]
  /\ entry' = AfterFailures(order, i)
  /\ UNCHANGED poolTable

OpenConnects(p, order, i) ==
  LET fd == Lowest(poolTable)
  IN /\ poolTable' = Opened(poolTable, fd, <<"connection", order[i]>>)
     /\ currentServer_' = [currentServer_ EXCEPT ![p] = order[i]]
     /\ socket_' = [socket_ EXCEPT ![p] = fd]
     /\ entry' = [AfterFailures(order, i) EXCEPT ![order[i]].socket_ = fd,
                                                 ![order[i]].lastFailTime_ = 0]

\* It throws; the last entry has become the current one.
OpenThrows(p, order) ==
  /\ currentServer_' = [currentServer_ EXCEPT ![p] = Last(order)]
  /\ entry' = AfterFailures(order, Len(order) + 1)
  /\ UNCHANGED <<poolTable, socket_>>

OpenPool(p) ==
  /\ servers_[p] # {} /\ ~IsOpen(socket_[p])
  /\ \E order \in Orders(p), reachable \in SUBSET servers_[p] :
       LET Ends(i) == IsOpen(entry[order[i]].socket_) \/ Connects(order, i, reachable)
           first == {i \in DOMAIN order : Ends(i) /\ \A j \in 1 .. i - 1 : ~Ends(j)}
       IN \/ first = {} /\ OpenThrows(p, order)
          \/ \E i \in first : IF IsOpen(entry[order[i]].socket_) THEN OpenFinds(p, order, i)
                              ELSE OpenConnects(p, order, i)
  /\ UNCHANGED <<servers_, now, shared>>

\* Without servers it forgets its socket.
OpenWithoutServers(p) ==
  /\ servers_[p] = {}
  /\ socket_' = [socket_ EXCEPT ![p] = THRIFT_INVALID_SOCKET]
  /\ UNCHANGED <<poolTable, servers_, currentServer_, entry, now, shared>>

\* Faulty variant: the entry keeps the descriptor.
EntryKeeps(e) == entry

EntryForgets(e) == [entry EXCEPT ![e].socket_ = THRIFT_INVALID_SOCKET]

ClosePool(p) ==
  /\ currentServer_[p] # Nowhere
  /\ poolTable' = Closed(poolTable, {socket_[p]})
  /\ socket_' = [socket_ EXCEPT ![p] = THRIFT_INVALID_SOCKET]
  /\ entry' = EntryForgets(currentServer_[p])
  /\ UNCHANGED <<servers_, currentServer_, now, shared>>

\* The destructor closes the connections of all its entries; another pool takes its place.
Destroy(p) ==
  /\ poolTable' = Closed(poolTable, {entry[e].socket_ : e \in servers_[p]})
  /\ entry' = [e \in Entry |-> IF e \in servers_[p] THEN [entry[e] EXCEPT !.socket_ = THRIFT_INVALID_SOCKET]
                               ELSE entry[e]]
  /\ servers_' = [servers_ EXCEPT ![p] = {}]
  /\ currentServer_' = [currentServer_ EXCEPT ![p] = Nowhere]
  /\ socket_' = [socket_ EXCEPT ![p] = THRIFT_INVALID_SOCKET]
  /\ UNCHANGED <<now, shared>>

Tick == now < LastClock /\ now' = now + 1
        /\ UNCHANGED <<poolTable, servers_, currentServer_, socket_, entry, shared>>

SocketPoolNext ==
  \/ \E p \in PoolObject : \/ \E e \in Entry : AddServer(p, e)
                     \/ OpenPool(p) \/ OpenWithoutServers(p) \/ ClosePool(p) \/ Destroy(p)
  \/ Tick

SocketPoolSpec == SocketPoolInit /\ [][SocketPoolNext]_socketPoolVars

-----------------------------------------------------------------------------
SocketPoolTypeOK ==
  /\ \A p \in PoolObject : /\ servers_[p] \subseteq Entry
                     /\ currentServer_[p] \in Entry \cup {Nowhere}
                     /\ socket_[p] \in PoolDescriptor \cup {THRIFT_INVALID_SOCKET}
  /\ \A e \in Entry : /\ entry[e].socket_ \in PoolDescriptor \cup {THRIFT_INVALID_SOCKET}
                      /\ entry[e].lastFailTime_ \in 0..now
                      /\ entry[e].consecutiveFailures_ \in 0..MaxConsecutiveFailures
  /\ now \in 1..LastClock /\ shared \in BOOLEAN

\* While no two pools have one entry, an open pool is connected to its current server, over a socket it alone
\* has: connections that are kept and taken up again are the entry's own and still open.
ConnectedToCurrent ==
  ~shared => \A p \in PoolObject :
    IsOpen(socket_[p]) =>
      /\ poolTable[socket_[p]] = <<"connection", currentServer_[p]>>
      /\ \A q \in PoolObject \ {p} : socket_[q] # socket_[p]
=============================================================================
