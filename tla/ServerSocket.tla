---------------------------- MODULE ServerSocket ----------------------------
(***************************************************************************)
(* The listening sockets of the Thrift library (TServerSocket.cpp,         *)
(* TNonblockingServerSocket.cpp) and the sockets they accept (reading in   *)
(* TSocket.cpp), by the descriptors they hold: the pair of sockets that    *)
(* interrupts accept, and the pair that interrupts the readers of all      *)
(* accepted sockets, which share its reading end with the listening one.   *)
(*                                                                         *)
(* interrupt, interruptChildren and close are called from any thread and   *)
(* exclude each other.  Calls of the system fail as they may.  Time-outs   *)
(* of poll and signals change nothing and are left out, as are ports that  *)
(* are no ports.                                                           *)
(***************************************************************************)
EXTENDS Descriptors, FiniteSets

CONSTANTS
  Descriptor,   \* what the process may have open
  Peer,         \* connections peers make
  RetryLimit,   \* retryLimit_
  MaxListens    \* bound: calls of listen

ASSUME ServerSocketAssumption == Descriptor \subseteq Nat \ {0} /\ RetryLimit \in Nat

VARIABLES
  style,        \* nonblocking or not, a path or a port, interruptableChildren_
  table,
  listener,     \* the fields of the server socket
  listens,      \* how often listen has been called: numbers the pairs
  interrupts,   \* bytes in the pair that interrupts accept
  told,         \* the calls of listen whose children have been interrupted
  conn,         \* how far each connection has got
  child         \* the TSocket of each

serverSocketVars == <<style, table, listener, listens, interrupts, told, conn, child>>

NoSocket == THRIFT_INVALID_SOCKET
NoListener == [serverSocket_ |-> NoSocket, interruptSockReader_ |-> NoSocket,
               interruptSockWriter_ |-> NoSocket, childInterruptSockWriter_ |-> NoSocket,
               pChildInterruptSockReader_ |-> NoSocket, listening_ |-> FALSE]
NoChild == [socket_ |-> NoSocket, interruptListener_ |-> NoSocket, of |-> 0, deaf |-> FALSE]

ServerSocketInit ==
  /\ style \in [nonblocking : BOOLEAN, unix : BOOLEAN, interruptableChildren_ : BOOLEAN]
  /\ style.nonblocking => ~style.interruptableChildren_
  /\ table = [fd \in Descriptor |-> Free]
  /\ listener = NoListener /\ listens = 0 /\ interrupts = 0 /\ told = {}
  /\ conn = [c \in Peer |-> "none"] /\ child = [c \in Peer |-> NoChild]

\* Faulty variant: close() closes the end the accepted sockets share.
ToCloseShared(o, children) ==
  {o.serverSocket_, o.interruptSockReader_, o.interruptSockWriter_, o.childInterruptSockWriter_,
   o.pChildInterruptSockReader_}

\* What close() closes: the shared end goes with the last who has it.
ToClose(o, children) ==
  {o.serverSocket_, o.interruptSockReader_, o.interruptSockWriter_, o.childInterruptSockWriter_}
  \cup ({o.pChildInterruptSockReader_} \ {children[c].interruptListener_ : c \in Peer})

-----------------------------------------------------------------------------
\* listen.  A pair of sockets, for two fields; there may be no room for it.
WithPair(s, reader, writer, use, writerUse) ==
  LET r == Lowest(s.table)
      one == Opened(s.table, r, <<use, listens>>)
      w == Lowest(one)
  IN IF w = NoSocket THEN s
     ELSE [table |-> Opened(one, w, <<writerUse, listens>>),
           object |-> [s.object EXCEPT ![reader] = r, ![writer] = w]]

Paired ==
  LET s == [table |-> table, object |-> listener]
  IN IF style.nonblocking THEN s
     ELSE WithPair(WithPair(s, "interruptSockReader_", "interruptSockWriter_",
                            "interrupt", "interruptWriter"),
                   "pChildInterruptSockReader_", "childInterruptSockWriter_",
                   "children", "childrenWriter")

\* After i calls of bind: with a port, each is for a new socket, and the last socket is forgotten.
Tried[i \in 0 .. RetryLimit + 1] ==
  IF i = 0 THEN Paired
  ELSE LET s == Tried[i - 1]
           fd == Lowest(s.table)
       IN IF style.unix /\ i > 1 THEN s
          ELSE [table |-> Opened(s.table, fd, <<"listener", listens>>),
                object |-> [s.object EXCEPT !.serverSocket_ = fd]]

CanListen == ~listener.listening_ /\ listens < MaxListens

\* What a failed listen leaves, when the i-th socket is the last.
Abandoned(i) ==
  /\ table' = Closed(Tried[i].table, ToClose(Tried[i].object, child))
  /\ listener' = NoListener
  /\ listens' = listens + 1
  /\ UNCHANGED <<style, interrupts, told, conn, child>>

\* The i-th bind succeeds, and ::listen.
Listens(i) ==
  /\ CanListen /\ Tried[i].object.serverSocket_ # NoSocket
  /\ table' = Tried[i].table
  /\ listener' = [Tried[i].object EXCEPT !.listening_ = TRUE]
  /\ listens' = listens + 1 /\ interrupts' = 0
  /\ UNCHANGED <<style, told, conn, child>>

\* An option cannot be set for the i-th socket.
SetupFails(i) == CanListen /\ Tried[i].object.serverSocket_ # NoSocket /\ Abandoned(i)

\* No bind succeeds, or ::listen does not; a path is given up at once when no descriptor is left.
ListenFails(i) ==
  /\ CanListen
  /\ Tried[i].object.serverSocket_ = NoSocket => style.unix \/ i = RetryLimit + 1
  /\ Abandoned(i)

Listen(i) == ~style.nonblocking /\ (Listens(i) \/ SetupFails(i) \/ ListenFails(i))
NonblockingListen(i) == style.nonblocking /\ (Listens(i) \/ SetupFails(i) \/ ListenFails(i))

-----------------------------------------------------------------------------
\* The peers.
Connect(c) ==
  /\ listener.listening_ /\ conn[c] = "none"
  /\ conn' = [conn EXCEPT ![c] = "queued"]
  /\ UNCHANGED <<style, table, listener, listens, interrupts, told, child>>

PeerMoves(c) ==
  /\ conn[c] \in {"open", "data"}
  /\ \E how \in {"data", "shut"} \ {conn[c]} : conn' = [conn EXCEPT ![c] = how]
  /\ UNCHANGED <<style, table, listener, listens, interrupts, told, child>>

\* A byte in the pair is looked at before a connection.
AcceptInterrupted ==
  /\ listener.listening_ /\ listener.interruptSockReader_ # NoSocket /\ interrupts > 0
  /\ interrupts' = interrupts - 1
  /\ UNCHANGED <<style, table, listener, listens, told, conn, child>>

MayAccept(c) == listener.listening_ /\ conn[c] = "queued" /\ Lowest(table) # NoSocket

\* The new socket, and what it polls beside it.
Accepted(c, interruptListener) ==
  /\ table' = Opened(table, Lowest(table), <<"connection", c>>)
  /\ child' = [child EXCEPT ![c] = [socket_ |-> Lowest(table), interruptListener_ |-> interruptListener,
                                    of |-> listens - 1, deaf |-> FALSE]]
  /\ conn' = [conn EXCEPT ![c] = "open"]
  /\ UNCHANGED <<style, listener, listens, interrupts, told>>

Accept(c) ==
  /\ ~style.nonblocking /\ MayAccept(c)
  /\ listener.interruptSockReader_ # NoSocket => interrupts = 0
  /\ Accepted(c, IF style.interruptableChildren_ THEN listener.pChildInterruptSockReader_ ELSE NoSocket)

NonblockingAccept(c) == style.nonblocking /\ MayAccept(c) /\ Accepted(c, NoSocket)

\* fcntl fails for the new socket, which is closed.
AcceptFails(c) ==
  /\ MayAccept(c)
  /\ listener.interruptSockReader_ # NoSocket => interrupts = 0
  /\ conn' = [conn EXCEPT ![c] = "gone"]
  /\ UNCHANGED <<style, table, listener, listens, interrupts, told, child>>

\* The end a child polls beside its socket can be read once a byte is in the pair, or its other end closed.
Interrupted(c) ==
  LET fd == child[c].interruptListener_
  IN /\ fd # NoSocket
     /\ \/ table[fd][1] = "children" /\ table[fd][2] \in told
        \/ table[fd][1] = "children" /\ \A d \in Descriptor : table[d] # <<"childrenWriter", table[fd][2]>>

\* interruptChildren has been called for this socket, or the listening one is closed.
Stopped(c) == child[c].of \in told \/ ~listener.listening_ \/ child[c].of # listens - 1

\* TSocket::read, which looks at the pair first and then throws; of what it gets otherwise, the model keeps whether
\* it should have been interrupted.  A connection that was reset reads like one that was shut.
ReadChild(c) ==
  /\ child[c].socket_ # NoSocket /\ ~Interrupted(c) /\ conn[c] = "data"
  /\ conn' = [conn EXCEPT ![c] = "open"]
  /\ child' = [child EXCEPT ![c].deaf = @ \/ Stopped(c)]
  /\ UNCHANGED <<style, table, listener, listens, interrupts, told>>

\* TSocket::peek, which looks at the pair first and then gives FALSE.
PeekChild(c) ==
  /\ child[c].socket_ # NoSocket /\ ~Interrupted(c) /\ conn[c] \in {"data", "shut"}
  /\ child' = [child EXCEPT ![c].deaf = @ \/ (conn[c] = "data" /\ Stopped(c))]
  /\ UNCHANGED <<style, table, listener, listens, interrupts, told, conn>>

\* The TSocket is deleted: its socket is closed, the shared end if nobody else has it.
DeleteChild(c) ==
  /\ child[c].socket_ # NoSocket
  /\ table' = Closed(table, {child[c].socket_} \cup
                            ({child[c].interruptListener_} \
                               ({listener.pChildInterruptSockReader_} \cup
                                {child[d].interruptListener_ : d \in Peer \ {c}})))
  /\ child' = [child EXCEPT ![c] = NoChild]
  /\ conn' = [conn EXCEPT ![c] = "gone"]
  /\ UNCHANGED <<style, listener, listens, interrupts, told>>

-----------------------------------------------------------------------------
\* From any thread.
Interrupt ==
  /\ listener.interruptSockWriter_ # NoSocket /\ interrupts = 0   \* bound: one byte at a time
  /\ interrupts' = 1
  /\ UNCHANGED <<style, table, listener, listens, told, conn, child>>

InterruptChildren ==
  /\ listener.childInterruptSockWriter_ # NoSocket
  /\ told' = told \cup {table[listener.childInterruptSockWriter_][2]}
  /\ UNCHANGED <<style, table, listener, listens, interrupts, conn, child>>

\* Connections nobody has accepted are reset.
CloseListener ==
  /\ listener # NoListener
  /\ table' = Closed(table, ToClose(listener, child))
  /\ listener' = NoListener
  /\ conn' = [c \in Peer |-> IF conn[c] = "queued" THEN "gone" ELSE conn[c]]
  /\ UNCHANGED <<style, listens, interrupts, told, child>>

ServerSocketNext ==
  \/ \E i \in 1 .. RetryLimit + 1 : Listen(i) \/ NonblockingListen(i)
  \/ AcceptInterrupted \/ Interrupt \/ InterruptChildren \/ CloseListener
  \/ \E c \in Peer : \/ Connect(c) \/ PeerMoves(c) \/ ReadChild(c) \/ PeekChild(c) \/ DeleteChild(c)
                     \/ Accept(c) \/ NonblockingAccept(c) \/ AcceptFails(c)

ServerSocketSpec == ServerSocketInit /\ [][ServerSocketNext]_serverSocketVars

-----------------------------------------------------------------------------
ServerSocketTypeOK ==
  /\ DOMAIN table = Descriptor
  /\ \A f \in DOMAIN NoListener \ {"listening_"} : listener[f] \in Descriptor \cup {NoSocket}
  /\ listener.listening_ \in BOOLEAN
  /\ listens \in 0..MaxListens /\ interrupts \in 0..1 /\ told \subseteq 0..MaxListens
  /\ \A c \in Peer :
       /\ {child[c].socket_, child[c].interruptListener_} \subseteq Descriptor \cup {NoSocket}
       /\ child[c].of \in 0..MaxListens /\ child[c].deaf \in BOOLEAN
       /\ conn[c] \in {"none", "queued", "open", "data", "shut", "gone"}

Held == {listener[f] : f \in DOMAIN NoListener \ {"listening_"}}
        \cup {child[c].socket_ : c \in Peer} \cup {child[c].interruptListener_ : c \in Peer}

\* Whatever objects live longest, a descriptor that is held is open and what its holder opened it as, so
\* that nobody polls, reads or closes what meanwhile belongs to somebody else; and what is open is
\* held, but for the sockets that listen() with a port made and could not bind.
DescriptorsExact ==
  /\ listener.listening_ => table[listener.serverSocket_] = <<"listener", listens - 1>>
  /\ listener.interruptSockReader_ # NoSocket =>
       /\ table[listener.interruptSockReader_] = <<"interrupt", listens - 1>>
       /\ table[listener.interruptSockWriter_] = <<"interruptWriter", listens - 1>>
  /\ listener.pChildInterruptSockReader_ # NoSocket =>
       /\ table[listener.pChildInterruptSockReader_] = <<"children", listens - 1>>
       /\ table[listener.childInterruptSockWriter_] = <<"childrenWriter", listens - 1>>
  /\ \A c \in Peer :
       /\ child[c].socket_ # NoSocket => table[child[c].socket_] = <<"connection", c>>
       /\ child[c].interruptListener_ # NoSocket => table[child[c].interruptListener_][1] = "children"
  /\ \A fd \in Descriptor :
       table[fd] = Free \/ fd \in Held \/ (~style.unix /\ table[fd][1] = "listener")

\* A socket that shares the pair reads nothing more, and peek() says so, once interruptChildren() or close() of the socket that
\* accepted it has returned, whatever has been opened and closed since.
ChildrenInterrupted == \A c \in Peer : child[c].deaf => child[c].interruptListener_ = NoSocket
=============================================================================
