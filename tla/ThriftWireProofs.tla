-------------------------- MODULE ThriftWireProofs --------------------------
(***************************************************************************)
(* Theorems about the sockets, pipes, clients and servers of ThriftWire,   *)
(* part by part, for any numbers of them: who owns which descriptor and    *)
(* handle, whose answer is whose, and to whom data pass over SSL.          *)
(***************************************************************************)
EXTENDS ThriftWire, SequenceTheorems, FiniteSetTheorems, WellFoundedInduction, TLAPS

-----------------------------------------------------------------------------
\* Sequences, sets of numbers, and what the system hands out.

LEMMA AppendFacts ==
  ASSUME NEW S, NEW s \in Seq(S), NEW x \in S
  PROVE  /\ Append(s, x) \in Seq(S) /\ Len(Append(s, x)) = Len(s) + 1
         /\ DOMAIN s = 1..Len(s) /\ DOMAIN Append(s, x) = 1 .. Len(s) + 1 /\ Len(s) \in Nat
         /\ \A i \in 1..Len(s) : Append(s, x)[i] = s[i]
         /\ Append(s, x)[Len(s) + 1] = x
         /\ \A i \in DOMAIN Append(s, x) : i \in DOMAIN s \/ i = Len(s) + 1
         /\ \A i \in DOMAIN s : i \in DOMAIN Append(s, x) /\ i # Len(s) + 1
OBVIOUS

LEMMA TailFacts ==
  ASSUME NEW S, NEW s \in Seq(S), s # << >>
  PROVE  /\ Tail(s) \in Seq(S) /\ Len(Tail(s)) = Len(s) - 1 /\ Head(s) = s[1] /\ Head(s) \in S
         /\ DOMAIN s = 1..Len(s) /\ DOMAIN Tail(s) = 1 .. Len(s) - 1 /\ Len(s) \in Nat \ {0}
         /\ \A i \in DOMAIN Tail(s) : i + 1 \in DOMAIN s /\ Tail(s)[i] = s[i + 1] /\ i + 1 # 1
         /\ 1 \in DOMAIN s
OBVIOUS

LEMMA LeastIndex ==
  ASSUME NEW I \in SUBSET Nat, I # {}
  PROVE  \E i \in I : \A j \in I : i =< j
<1>1. PICK i \in I : \A j \in I : ~ (<<j, i>> \in OpToRel(<, Nat))
  BY NatLessThanWellFounded, WFMin
<1>2. \A j \in I : ~ (j < i)
  BY <1>1 DEF OpToRel
<1> QED
  BY <1>2

\* What the system hands out was free.
LEMMA LowestIsFree ==
  ASSUME NEW t, DOMAIN t \subseteq Nat \ {0}, Lowest(t) # THRIFT_INVALID_SOCKET
  PROVE  Lowest(t) \in DOMAIN t /\ t[Lowest(t)] = Free
<1>1. FreeIn(t) # {} /\ Lowest(t) = Min(FreeIn(t))
  BY DEF Lowest
<1>2. FreeIn(t) \in SUBSET Nat
  BY DEF FreeIn
<1>3. \E x \in FreeIn(t) : \A y \in FreeIn(t) : x =< y
  BY <1>1, <1>2, LeastIndex
<1>4. Min(FreeIn(t)) \in FreeIn(t)
  BY <1>3 DEF Min
<1> QED
  BY <1>1, <1>4 DEF FreeIn

-----------------------------------------------------------------------------
\* Listening sockets and those they accept: the inductive invariant.

SockFd == Descriptor \cup {NoSocket}
\* What the fields of a listening socket are ends of.
UseOf == [serverSocket_ |-> "listener", interruptSockReader_ |-> "interrupt",
          interruptSockWriter_ |-> "interruptWriter", childInterruptSockWriter_ |-> "childrenWriter",
          pChildInterruptSockReader_ |-> "children"]
ListenerField == DOMAIN UseOf
ListenerState == [serverSocket_ : SockFd, interruptSockReader_ : SockFd, interruptSockWriter_ : SockFd,
                  childInterruptSockWriter_ : SockFd, pChildInterruptSockReader_ : SockFd,
                  listening_ : BOOLEAN]
ChildState == [socket_ : SockFd, interruptListener_ : SockFd, of : Int, deaf : BOOLEAN]

\* What the n-th listening socket holds is what it opened.
OwnEnds(t, o, n) == \A f \in ListenerField : o[f] # NoSocket => t[o[f]] = <<UseOf[f], n>>

PairsWhole(o) ==
  /\ o.interruptSockReader_ # NoSocket => o.interruptSockWriter_ # NoSocket
  /\ o.pChildInterruptSockReader_ # NoSocket => o.childInterruptSockWriter_ # NoSocket

ChildEnds(t) ==
  \A c \in Peer :
    /\ child[c].socket_ # NoSocket => t[child[c].socket_] = <<"connection", c>>
    /\ child[c].interruptListener_ # NoSocket =>
         t[child[c].interruptListener_] = <<"children", child[c].of>>

\* What is open is held, but for the sockets that could not be bound.
Accounted(t, o) ==
  \A fd \in Descriptor :
    t[fd] # Free => \/ \E f \in ListenerField : o[f] = fd
                    \/ \E c \in Peer : fd \in {child[c].socket_, child[c].interruptListener_}
                    \/ ~style.unix /\ t[fd][1] = "listener"

\* A connection nobody has accepted has no socket yet.
Unaccepted == \A c \in Peer : conn[c] \in {"none", "queued"} => child[c] = NoChild

ListensOrNot ==
  /\ listener.listening_ => listener.serverSocket_ # NoSocket
  /\ ~listener.listening_ => listener = NoListener

SocketsInv ==
  /\ DOMAIN table = Descriptor /\ listens \in Nat /\ listener \in ListenerState
  /\ child \in [Peer -> ChildState] /\ DOMAIN conn = Peer /\ Unaccepted
  /\ OwnEnds(table, listener, listens - 1) /\ PairsWhole(listener) /\ ChildEnds(table)
  /\ Accounted(table, listener) /\ ListensOrNot /\ ChildrenInterrupted

LEMMA NoSocketIsNone == NoSocket \notin Descriptor
BY ServerSocketAssumption DEF NoSocket, THRIFT_INVALID_SOCKET

LEMMA NoListenerHolds ==
  /\ NoListener \in ListenerState /\ ~NoListener.listening_ /\ PairsWhole(NoListener)
  /\ \A f \in ListenerField : NoListener[f] = NoSocket
BY DEF NoListener, ListenerState, SockFd, PairsWhole, ListenerField, UseOf

LEMMA UsesDiffer ==
  /\ \A f \in ListenerField : UseOf[f] \notin {"free", "connection"}
  /\ \A f \in ListenerField : UseOf[f] = "children" => f = "pChildInterruptSockReader_"
  /\ \A f \in ListenerField : UseOf[f] = "childrenWriter" => f = "childInterruptSockWriter_"
<1>1. ListenerField = {"serverSocket_", "interruptSockReader_", "interruptSockWriter_",
                       "childInterruptSockWriter_", "pChildInterruptSockReader_"}
  BY DEF ListenerField, UseOf
<1>2. /\ UseOf["serverSocket_"] = "listener" /\ UseOf["interruptSockReader_"] = "interrupt"
      /\ UseOf["interruptSockWriter_"] = "interruptWriter"
      /\ UseOf["childInterruptSockWriter_"] = "childrenWriter"
      /\ UseOf["pChildInterruptSockReader_"] = "children"
  BY DEF UseOf
<1> QED
  BY <1>1, <1>2

LEMMA ListenerFields ==
  ASSUME NEW o \in ListenerState, NEW f \in ListenerField, NEW fd \in SockFd
  PROVE  /\ [o EXCEPT ![f] = fd] \in ListenerState /\ [o EXCEPT ![f] = fd].listening_ = o.listening_
         /\ \A g \in ListenerField : [o EXCEPT ![f] = fd][g] = IF g = f THEN fd ELSE o[g]
BY DEF ListenerState, ListenerField, UseOf

LEMMA FieldsHoldFds ==
  ASSUME NEW o \in ListenerState, NEW f \in ListenerField
  PROVE  o[f] \in SockFd
BY DEF ListenerState, ListenerField, UseOf

\* A descriptor is opened for a field of the listening socket, which had none or forgets the one it had.
LEMMA OneOpened ==
  ASSUME NEW t, DOMAIN t = Descriptor, NEW o \in ListenerState, NEW n, OwnEnds(t, o, n), ChildEnds(t),
         Accounted(t, o), child \in [Peer -> ChildState], NEW f \in ListenerField,
         o[f] = NoSocket \/ (f = "serverSocket_" /\ ~style.unix)
  PROVE  LET u == Opened(t, Lowest(t), <<UseOf[f], n>>)
             p == [o EXCEPT ![f] = Lowest(t)]
         IN /\ DOMAIN u = Descriptor /\ p \in ListenerState /\ p.listening_ = o.listening_
            /\ OwnEnds(u, p, n) /\ ChildEnds(u) /\ Accounted(u, p)
            /\ \A g \in ListenerField : p[g] = IF g = f THEN Lowest(t) ELSE o[g]
<1> DEFINE fd == Lowest(t)
           u == Opened(t, fd, <<UseOf[f], n>>)
           p == [o EXCEPT ![f] = fd]
<1>1. fd # NoSocket => fd \in Descriptor /\ t[fd] = Free
  BY LowestIsFree, ServerSocketAssumption DEF NoSocket
<1>2. fd \in SockFd
  BY <1>1 DEF SockFd
<1> HIDE DEF fd
<1>3. /\ p \in ListenerState /\ p.listening_ = o.listening_
      /\ \A g \in ListenerField : p[g] = IF g = f THEN fd ELSE o[g]
  BY <1>2, ListenerFields
<1>4. /\ DOMAIN u = Descriptor
      /\ \A d \in Descriptor : u[d] = IF d = fd THEN <<UseOf[f], n>> ELSE t[d]
  BY DEF Opened
<1> HIDE DEF u, p
<1>5. \A d \in Descriptor : t[d] # Free => u[d] = t[d]
  BY <1>1, <1>4, NoSocketIsNone
<1>6. \A g \in ListenerField : <<UseOf[g], n>> # Free
  BY UsesDiffer DEF Free
<1>7. OwnEnds(u, p, n)
  <2> SUFFICES ASSUME NEW g \in ListenerField, p[g] # NoSocket
               PROVE  u[p[g]] = <<UseOf[g], n>>
    BY DEF OwnEnds
  <2>1. CASE g = f
    BY <1>1, <1>3, <1>4, <2>1
  <2>2. CASE g # f
    <3>1. p[g] = o[g] /\ o[g] \in Descriptor /\ t[o[g]] = <<UseOf[g], n>>
      BY <1>3, <2>2, FieldsHoldFds DEF OwnEnds, SockFd
    <3> QED
      BY <3>1, <1>5, <1>6
  <2> QED
    BY <2>1, <2>2
<1>8. ChildEnds(u)
  <2> SUFFICES ASSUME NEW c \in Peer
               PROVE  /\ child[c].socket_ # NoSocket => u[child[c].socket_] = <<"connection", c>>
                      /\ child[c].interruptListener_ # NoSocket =>
                           u[child[c].interruptListener_] = <<"children", child[c].of>>
    BY DEF ChildEnds
  <2>1. child[c].socket_ \in SockFd /\ child[c].interruptListener_ \in SockFd
    BY DEF ChildState
  <2>2. <<"connection", c>> # Free /\ <<"children", child[c].of>> # Free
    BY DEF Free
  <2> QED
    BY <1>5, <2>1, <2>2 DEF ChildEnds, SockFd
<1>9. Accounted(u, p)
  <2> SUFFICES ASSUME NEW d \in Descriptor, u[d] # Free
               PROVE  \/ \E g \in ListenerField : p[g] = d
                      \/ \E c \in Peer : d \in {child[c].socket_, child[c].interruptListener_}
                      \/ ~style.unix /\ u[d][1] = "listener"
    BY DEF Accounted
  <2>1. CASE d = fd
    BY <1>3, <2>1
  <2>2. CASE d # fd
    <3>1. u[d] = t[d]
      BY <1>4, <2>2
    <3>2. CASE \E g \in ListenerField : o[g] = d
      <4>1. PICK g \in ListenerField : o[g] = d
        BY <3>2
      <4>2. CASE g = f
        <5>1. f = "serverSocket_" /\ ~style.unix /\ t[d] = <<UseOf[f], n>>
          BY <4>1, <4>2, NoSocketIsNone DEF OwnEnds
        <5>2. t[d][1] = "listener"
          BY <5>1 DEF UseOf
        <5> QED
          BY <5>1, <5>2, <3>1
      <4>3. CASE g # f
        BY <1>3, <4>1, <4>3
      <4> QED
        BY <4>2, <4>3
    <3> QED
      BY <2>2, <3>1, <3>2 DEF Accounted
  <2> QED
    BY <2>1, <2>2
<1> QED
  BY <1>3, <1>4, <1>7, <1>8, <1>9 DEF u, p, fd

\* A state of listen(), before the listening socket listens.
Attempt(s) ==
  /\ DOMAIN s.table = Descriptor /\ s.object \in ListenerState /\ ~s.object.listening_
  /\ OwnEnds(s.table, s.object, listens) /\ PairsWhole(s.object) /\ ChildEnds(s.table)
  /\ Accounted(s.table, s.object)

\* The pairs.
LEMMA PairOpened ==
  ASSUME child \in [Peer -> ChildState], NEW s, Attempt(s),
         NEW reader \in ListenerField, NEW writer \in ListenerField, reader # writer,
         <<reader, writer>> \in {<<"interruptSockReader_", "interruptSockWriter_">>,
                                 <<"pChildInterruptSockReader_", "childInterruptSockWriter_">>},
         s.object[reader] = NoSocket, s.object[writer] = NoSocket
  PROVE  LET p == WithPair(s, reader, writer, UseOf[reader], UseOf[writer])
         IN /\ Attempt(p)
            /\ \A g \in ListenerField : g \notin {reader, writer} => p.object[g] = s.object[g]
<1> DEFINE t == s.table
           o == s.object
           r == Lowest(t)
           one == Opened(t, r, <<UseOf[reader], listens>>)
           oOne == [o EXCEPT ![reader] = r]
           w == Lowest(one)
           two == Opened(one, w, <<UseOf[writer], listens>>)
           oTwo == [oOne EXCEPT ![writer] = w]
           p == WithPair(s, reader, writer, UseOf[reader], UseOf[writer])
<1>1. /\ DOMAIN t = Descriptor /\ o \in ListenerState /\ ~o.listening_
      /\ OwnEnds(t, o, listens) /\ PairsWhole(o) /\ ChildEnds(t) /\ Accounted(t, o)
  BY DEF Attempt
<1>2. /\ DOMAIN one = Descriptor /\ oOne \in ListenerState /\ oOne.listening_ = o.listening_
      /\ OwnEnds(one, oOne, listens) /\ ChildEnds(one) /\ Accounted(one, oOne)
      /\ \A g \in ListenerField : oOne[g] = IF g = reader THEN r ELSE o[g]
  BY <1>1, OneOpened
<1> HIDE DEF one, oOne
<1>3. oOne[writer] = NoSocket
  BY <1>2
<1>4. /\ DOMAIN two = Descriptor /\ oTwo \in ListenerState /\ oTwo.listening_ = oOne.listening_
      /\ OwnEnds(two, oTwo, listens) /\ ChildEnds(two) /\ Accounted(two, oTwo)
      /\ \A g \in ListenerField : oTwo[g] = IF g = writer THEN w ELSE oOne[g]
  BY <1>2, <1>3, OneOpened
<1>5. oTwo = [o EXCEPT ![reader] = r, ![writer] = w]
  BY DEF oOne
<1>6. p = IF w = NoSocket THEN s ELSE [table |-> two, object |-> oTwo]
  BY <1>5 DEF WithPair, one
<1> HIDE DEF two, oTwo, w
<1>7. CASE w = NoSocket
  BY <1>6, <1>7
<1>8. CASE w # NoSocket
  <2>1. p.table = two /\ p.object = oTwo
    BY <1>6, <1>8
  <2>2. {"interruptSockReader_", "interruptSockWriter_", "pChildInterruptSockReader_",
         "childInterruptSockWriter_"} \subseteq ListenerField
    BY DEF ListenerField, UseOf
  <2>3. PairsWhole(oTwo)
    <3>1. oTwo[writer] # NoSocket /\ \A g \in ListenerField : g \notin {reader, writer} => oTwo[g] = o[g]
      BY <1>2, <1>4, <1>8
    <3>2. CASE reader = "interruptSockReader_" /\ writer = "interruptSockWriter_"
      BY <1>1, <2>2, <3>1, <3>2 DEF PairsWhole
    <3>3. CASE reader = "pChildInterruptSockReader_" /\ writer = "childInterruptSockWriter_"
      BY <1>1, <2>2, <3>1, <3>3 DEF PairsWhole
    <3> QED
      BY <3>2, <3>3
  <2> HIDE DEF p
  <2>4. Attempt(p)
    BY <1>1, <1>2, <1>4, <2>1, <2>3 DEF Attempt
  <2>5. \A g \in ListenerField : g \notin {reader, writer} => p.object[g] = s.object[g]
    BY <1>2, <1>4, <2>1
  <2> QED
    BY <2>4, <2>5 DEF p
<1> QED
  BY <1>7, <1>8

LEMMA PairedAttempt ==
  ASSUME SocketsInv, ~listener.listening_
  PROVE  Attempt(Paired) /\ Paired.object.serverSocket_ = NoSocket
<1> DEFINE s == [table |-> table, object |-> listener]
           one == WithPair(s, "interruptSockReader_", "interruptSockWriter_", "interrupt", "interruptWriter")
           two == WithPair(one, "pChildInterruptSockReader_", "childInterruptSockWriter_",
                           "children", "childrenWriter")
<1>1. /\ listener = NoListener /\ child \in [Peer -> ChildState] /\ DOMAIN table = Descriptor
      /\ ChildEnds(table) /\ Accounted(table, listener)
  BY DEF SocketsInv, ListensOrNot
<1>2. s.table = table /\ s.object = listener
  OBVIOUS
<1>3. Attempt(s)
  BY <1>1, <1>2, NoListenerHolds DEF Attempt, OwnEnds
<1>4. /\ {"serverSocket_", "interruptSockReader_", "interruptSockWriter_", "pChildInterruptSockReader_",
          "childInterruptSockWriter_"} \subseteq ListenerField
      /\ UseOf["interruptSockReader_"] = "interrupt" /\ UseOf["interruptSockWriter_"] = "interruptWriter"
      /\ UseOf["pChildInterruptSockReader_"] = "children"
      /\ UseOf["childInterruptSockWriter_"] = "childrenWriter"
  BY DEF ListenerField, UseOf
<1>5. \A f \in ListenerField : s.object[f] = NoSocket
  BY <1>1, <1>2, NoListenerHolds
<1> HIDE DEF s
<1>6. /\ Attempt(one)
      /\ \A g \in ListenerField : g \notin {"interruptSockReader_", "interruptSockWriter_"} =>
                                    one.object[g] = s.object[g]
  <2> DEFINE R == "interruptSockReader_"
             W == "interruptSockWriter_"
  <2>1. /\ R \in ListenerField /\ W \in ListenerField /\ R # W
        /\ <<R, W>> \in {<<"interruptSockReader_", "interruptSockWriter_">>,
                         <<"pChildInterruptSockReader_", "childInterruptSockWriter_">>}
    BY <1>4
  <2>2. s.object[R] = NoSocket /\ s.object[W] = NoSocket
    BY <1>5, <2>1
  <2> HIDE DEF R, W
  <2>3. LET p == WithPair(s, R, W, UseOf[R], UseOf[W])
        IN /\ Attempt(p)
           /\ \A g \in ListenerField : g \notin {R, W} => p.object[g] = s.object[g]
    BY <1>1, <1>3, <2>1, <2>2, PairOpened
  <2>4. one = WithPair(s, R, W, UseOf[R], UseOf[W])
    BY <1>4 DEF R, W
  <2> HIDE DEF one
  <2> QED
    BY <2>3, <2>4 DEF R, W
<1>7. one.object["pChildInterruptSockReader_"] = NoSocket /\ one.object["childInterruptSockWriter_"] = NoSocket
  BY <1>4, <1>5, <1>6
<1> HIDE DEF one
<1>8. /\ Attempt(two)
      /\ \A g \in ListenerField : g \notin {"pChildInterruptSockReader_", "childInterruptSockWriter_"} =>
                                    two.object[g] = one.object[g]
  <2> DEFINE R == "pChildInterruptSockReader_"
             W == "childInterruptSockWriter_"
  <2>1. /\ R \in ListenerField /\ W \in ListenerField /\ R # W
        /\ <<R, W>> \in {<<"interruptSockReader_", "interruptSockWriter_">>,
                         <<"pChildInterruptSockReader_", "childInterruptSockWriter_">>}
    BY <1>4
  <2>2. one.object[R] = NoSocket /\ one.object[W] = NoSocket
    BY <1>7
  <2> HIDE DEF R, W
  <2>3. LET p == WithPair(one, R, W, UseOf[R], UseOf[W])
        IN /\ Attempt(p)
           /\ \A g \in ListenerField : g \notin {R, W} => p.object[g] = one.object[g]
    BY <1>1, <1>6, <2>1, <2>2, PairOpened
  <2>4. two = WithPair(one, R, W, UseOf[R], UseOf[W])
    BY <1>4 DEF R, W
  <2> HIDE DEF two
  <2> QED
    BY <2>3, <2>4 DEF R, W
<1>9. two.object["serverSocket_"] = NoSocket /\ s.object["serverSocket_"] = NoSocket
  BY <1>4, <1>5, <1>6, <1>8
<1>10. Paired = IF style.nonblocking THEN s ELSE two
  BY DEF Paired, s, one
<1> QED
  BY <1>3, <1>8, <1>9, <1>10

\* One more socket, for the i-th bind.
NextTry(i, s) ==
  IF style.unix /\ i > 1 THEN s
  ELSE [table |-> Opened(s.table, Lowest(s.table), <<"listener", listens>>),
        object |-> [s.object EXCEPT !.serverSocket_ = Lowest(s.table)]]

\* The recursion is one.
LEMMA TriedExists ==
  ASSUME NEW n \in Nat
  PROVE  \E g : g = [i \in 0 .. n |-> IF i = 0 THEN Paired ELSE NextTry(i, g[i - 1])]
<1> DEFINE Is(g, m) == g = [i \in 0 .. m |-> IF i = 0 THEN Paired ELSE NextTry(i, g[i - 1])]
           Bad == {m \in Nat : ~ \E g : Is(g, m)}
<1>1. SUFFICES Bad = {}
  OBVIOUS
<1>2. SUFFICES ASSUME Bad # {} PROVE FALSE
  OBVIOUS
<1>3. PICK m \in Bad : \A k \in Bad : m =< k
  BY <1>2, LeastIndex
<1>4. CASE m = 0
  <2> DEFINE g == [i \in 0 .. 0 |-> Paired]
  <2>1. Is(g, 0)
    OBVIOUS
  <2> QED
    BY <1>3, <1>4, <2>1
<1>5. CASE m # 0
  <2>1. m - 1 \in Nat /\ m - 1 \notin Bad
    BY <1>3, <1>5
  <2>2. PICK g : Is(g, m - 1)
    BY <2>1
  <2> DEFINE h == [i \in 0 .. m |-> IF i = m THEN NextTry(m, g[m - 1]) ELSE g[i]]
  <2>3. \A i \in 0 .. m - 1 : h[i] = g[i]
    BY <2>1
  <2>4. \A i \in 0 .. m - 1 : g[i] = IF i = 0 THEN Paired ELSE NextTry(i, g[i - 1])
    BY <2>2
  <2>5. \A i \in 0 .. m : h[i] = IF i = 0 THEN Paired ELSE NextTry(i, h[i - 1])
    <3> TAKE i \in 0 .. m
    <3>1. CASE i = m
      BY <1>5, <2>1, <2>3, <3>1
    <3>2. CASE i # m
      <4>1. i \in 0 .. m - 1 /\ (i # 0 => i - 1 \in 0 .. m - 1)
        BY <2>1, <3>2
      <4> QED
        BY <2>3, <2>4, <4>1
    <3> QED
      BY <3>1, <3>2
  <2>6. Is(h, m)
    BY <2>5
  <2> QED
    BY <1>3, <2>6
<1> QED
  BY <1>4, <1>5

LEMMA TriedStep ==
  ASSUME NEW i \in 0 .. RetryLimit + 1
  PROVE  Tried[i] = IF i = 0 THEN Paired ELSE NextTry(i, Tried[i - 1])
<1> DEFINE n == RetryLimit + 1
<1>1. n \in Nat
  BY ServerSocketAssumption
<1>2. \E g : g = [j \in 0 .. n |-> IF j = 0 THEN Paired ELSE NextTry(j, g[j - 1])]
  BY <1>1, TriedExists
<1>3. Tried = CHOOSE g : g = [j \in 0 .. n |-> IF j = 0 THEN Paired ELSE NextTry(j, g[j - 1])]
  BY DEF Tried, NextTry
<1>4. Tried = [j \in 0 .. n |-> IF j = 0 THEN Paired ELSE NextTry(j, Tried[j - 1])]
  BY <1>2, <1>3
<1> QED
  BY <1>4

\* However many binds fail, what is open is accounted for.
LEMMA TriedAttempt ==
  ASSUME SocketsInv, ~listener.listening_
  PROVE  \A i \in 0 .. RetryLimit + 1 : Attempt(Tried[i])
<1> DEFINE Right(i) == Attempt(Tried[i]) /\ (i = 0 => Tried[i].object.serverSocket_ = NoSocket)
           Bad == {i \in 0 .. RetryLimit + 1 : ~Right(i)}
<1>1. SUFFICES ASSUME Bad # {} PROVE FALSE
  OBVIOUS
<1>2. PICK i \in Bad : \A k \in Bad : i =< k
  <2>1. Bad \in SUBSET Nat
    BY ServerSocketAssumption
  <2> HIDE DEF Bad
  <2> QED
    BY <1>1, <2>1, LeastIndex
<1>3. CASE i = 0
  BY <1>2, <1>3, TriedStep, PairedAttempt
<1>4. CASE i # 0
  <2>1. i \in 0 .. RetryLimit + 1 /\ i - 1 \in 0 .. RetryLimit + 1 /\ i - 1 \notin Bad
    BY <1>2, <1>4, ServerSocketAssumption
  <2> DEFINE s == Tried[i - 1]
             t == s.table
             o == s.object
             p == [o EXCEPT !["serverSocket_"] = Lowest(t)]
             u == Opened(t, Lowest(t), <<UseOf["serverSocket_"], listens>>)
  <2>2. /\ DOMAIN t = Descriptor /\ o \in ListenerState /\ ~o.listening_
        /\ OwnEnds(t, o, listens) /\ PairsWhole(o) /\ ChildEnds(t) /\ Accounted(t, o)
        /\ i = 1 => o["serverSocket_"] = NoSocket
        /\ child \in [Peer -> ChildState]
    BY <2>1 DEF Attempt, SocketsInv
  <2>3. Tried[i] = NextTry(i, s)
    BY <1>4, <2>1, TriedStep
  <2>4. CASE style.unix /\ i > 1
    BY <1>2, <1>4, <2>1, <2>3, <2>4 DEF NextTry
  <2>5. CASE ~(style.unix /\ i > 1)
    <3>1. "serverSocket_" \in ListenerField /\ UseOf["serverSocket_"] = "listener"
      BY DEF ListenerField, UseOf
    <3>2. Tried[i] = [table |-> u, object |-> p]
      BY <2>3, <2>5, <3>1 DEF NextTry
    <3>3. o["serverSocket_"] = NoSocket \/ ~style.unix
      BY <1>4, <2>1, <2>2, <2>5
    <3>4. /\ DOMAIN u = Descriptor /\ p \in ListenerState /\ p.listening_ = o.listening_
          /\ OwnEnds(u, p, listens) /\ ChildEnds(u) /\ Accounted(u, p)
          /\ \A g \in ListenerField : p[g] = IF g = "serverSocket_" THEN Lowest(t) ELSE o[g]
      BY <2>2, <3>1, <3>3, OneOpened
    <3> HIDE DEF u, p, s
    <3>5. PairsWhole(p)
      BY <2>2, <3>4 DEF PairsWhole, ListenerField, UseOf
    <3>6. Attempt(Tried[i])
      BY <2>2, <3>2, <3>4, <3>5 DEF Attempt
    <3> QED
      BY <1>2, <1>4, <3>6
  <2> QED
    BY <2>4, <2>5
<1> QED
  BY <1>3, <1>4

\* close() closes what the listening socket holds and nothing else.
LEMMA ClosedKept ==
  ASSUME NEW t, DOMAIN t = Descriptor, NEW o \in ListenerState, NEW n, OwnEnds(t, o, n), ChildEnds(t),
         Accounted(t, o), child \in [Peer -> ChildState]
  PROVE  LET u == Closed(t, ToClose(o, child))
         IN DOMAIN u = Descriptor /\ ChildEnds(u) /\ Accounted(u, NoListener)
<1> DEFINE gone == ToClose(o, child)
           u == Closed(t, gone)
           own == {o["serverSocket_"], o["interruptSockReader_"], o["interruptSockWriter_"],
                   o["childInterruptSockWriter_"]}
           readEnd == o["pChildInterruptSockReader_"]
           theirs == {child[c].interruptListener_ : c \in Peer}
<1>1. gone = own \cup ({readEnd} \ theirs)
  BY DEF ToClose
<1>2. DOMAIN u = Descriptor /\ \A d \in Descriptor : u[d] = IF d \in gone THEN Free ELSE t[d]
  BY DEF Closed
<1>3. /\ ListenerField = {"serverSocket_", "interruptSockReader_", "interruptSockWriter_",
                          "childInterruptSockWriter_", "pChildInterruptSockReader_"}
      /\ \A f \in ListenerField : UseOf[f] # "connection" /\ UseOf[f] # "free"
      /\ \A f \in ListenerField : UseOf[f] = "children" => f = "pChildInterruptSockReader_"
  <2>1. ListenerField = {"serverSocket_", "interruptSockReader_", "interruptSockWriter_",
                         "childInterruptSockWriter_", "pChildInterruptSockReader_"}
    BY DEF ListenerField, UseOf
  <2> QED
    BY <2>1, UsesDiffer
<1> HIDE DEF gone, u
<1>4. ASSUME NEW c \in Peer
      PROVE  /\ child[c].socket_ # NoSocket => child[c].socket_ \in Descriptor \ gone
             /\ child[c].interruptListener_ # NoSocket => child[c].interruptListener_ \in Descriptor \ gone
  <2>1. child[c].socket_ \in SockFd /\ child[c].interruptListener_ \in SockFd
    BY DEF ChildState
  <2>2. child[c].socket_ # NoSocket => child[c].socket_ \notin gone
    <3> SUFFICES ASSUME child[c].socket_ # NoSocket, child[c].socket_ \in gone PROVE FALSE
      OBVIOUS
    <3>1. t[child[c].socket_] = <<"connection", c>>
      BY DEF ChildEnds
    <3>2. PICK f \in ListenerField : o[f] = child[c].socket_
      BY <1>1, <1>3
    <3>3. t[child[c].socket_] = <<UseOf[f], n>>
      BY <3>2 DEF OwnEnds
    <3> QED
      BY <1>3, <3>1, <3>3
  <2>3. child[c].interruptListener_ # NoSocket => child[c].interruptListener_ \notin gone
    <3> SUFFICES ASSUME child[c].interruptListener_ # NoSocket, child[c].interruptListener_ \in gone PROVE FALSE
      OBVIOUS
    <3>1. t[child[c].interruptListener_] = <<"children", child[c].of>>
      BY DEF ChildEnds
    <3>2. child[c].interruptListener_ \in own
      BY <1>1
    <3>3. PICK f \in ListenerField \ {"pChildInterruptSockReader_"} : o[f] = child[c].interruptListener_
      BY <1>3, <3>2
    <3>4. t[child[c].interruptListener_] = <<UseOf[f], n>>
      BY <3>3 DEF OwnEnds
    <3> QED
      BY <1>3, <3>1, <3>3, <3>4
  <2> QED
    BY <2>1, <2>2, <2>3 DEF SockFd
<1>5. ChildEnds(u)
  BY <1>2, <1>4 DEF ChildEnds
<1>6. Accounted(u, NoListener)
  <2> SUFFICES ASSUME NEW d \in Descriptor, u[d] # Free
               PROVE  \/ \E c \in Peer : d \in {child[c].socket_, child[c].interruptListener_}
                      \/ ~style.unix /\ u[d][1] = "listener"
    BY DEF Accounted
  <2>1. d \notin gone /\ u[d] = t[d]
    BY <1>2
  <2>2. CASE \E f \in ListenerField : o[f] = d
    <3>1. d \in theirs
      BY <1>1, <1>3, <2>1, <2>2
    <3> QED
      BY <3>1
  <2> QED
    BY <2>1, <2>2 DEF Accounted
<1> QED
  BY <1>2, <1>5, <1>6 DEF u, gone

LEMMA SocketsInvStarts == ServerSocketInit => SocketsInv
<1> SUFFICES ASSUME ServerSocketInit PROVE SocketsInv
  OBVIOUS
<1>1. /\ table = [fd \in Descriptor |-> Free] /\ listener = NoListener /\ listens = 0
      /\ child = [c \in Peer |-> NoChild]
  BY DEF ServerSocketInit
<1>2. NoChild \in ChildState /\ NoChild.socket_ = NoSocket /\ NoChild.interruptListener_ = NoSocket
  BY DEF NoChild, ChildState, SockFd
<1>3. child \in [Peer -> ChildState] /\ ChildEnds(table)
  BY <1>1, <1>2 DEF ChildEnds
<1>4. Accounted(table, listener)
  BY <1>1 DEF Accounted
<1>5. OwnEnds(table, listener, listens - 1) /\ PairsWhole(listener) /\ ListensOrNot /\ listener \in ListenerState
  BY <1>1, NoListenerHolds DEF OwnEnds, ListensOrNot
<1>6. ChildrenInterrupted /\ DOMAIN conn = Peer /\ Unaccepted
  BY <1>1 DEF ServerSocketInit, ChildrenInterrupted, Unaccepted, NoChild
<1> QED
  BY <1>1, <1>3, <1>4, <1>5, <1>6 DEF SocketsInv

LEMMA ListenKept ==
  ASSUME SocketsInv, NEW i \in 1 .. RetryLimit + 1, Listen(i) \/ NonblockingListen(i)
  PROVE  SocketsInv'
<1> DEFINE t == Tried[i].table
           o == Tried[i].object
<1>1. /\ ~listener.listening_ /\ i \in 0 .. RetryLimit + 1
      /\ listens' = listens + 1 /\ UNCHANGED <<style, told, conn, child>>
  BY DEF Listen, NonblockingListen, Listens, SetupFails, ListenFails, Abandoned, CanListen
<1>2. /\ DOMAIN t = Descriptor /\ o \in ListenerState /\ ~o.listening_
      /\ OwnEnds(t, o, listens) /\ PairsWhole(o) /\ ChildEnds(t) /\ Accounted(t, o)
  BY <1>1, TriedAttempt DEF Attempt
<1>3. child \in [Peer -> ChildState] /\ listens \in Nat /\ (listens + 1) - 1 = listens
  BY DEF SocketsInv
<1>4. CASE Listens(i)
  <2> DEFINE p == [o EXCEPT !.listening_ = TRUE]
  <2>1. table' = t /\ listener' = p /\ o.serverSocket_ # NoSocket
    BY <1>4 DEF Listens
  <2> HIDE DEF t, o
  <2>2. /\ p \in ListenerState /\ p.listening_ = TRUE
        /\ \A f \in ListenerField : p[f] = o[f]
    BY <1>2 DEF ListenerState, ListenerField, UseOf
  <2>3. PairsWhole(p) /\ p.serverSocket_ # NoSocket
    BY <1>2, <2>1, <2>2 DEF PairsWhole, ListenerField, UseOf
  <2> HIDE DEF p
  <2>4. OwnEnds(t, p, listens) /\ Accounted(t, p)
    BY <1>2, <2>2 DEF OwnEnds, Accounted
  <2>5. OwnEnds(table, listener, listens - 1)'
    BY <1>1, <1>3, <2>1, <2>4 DEF OwnEnds
  <2>6. ChildEnds(table)' /\ Accounted(table, listener)' /\ ChildrenInterrupted' /\ Unaccepted'
    BY <1>1, <1>2, <2>1, <2>4 DEF ChildEnds, Accounted, SocketsInv, ChildrenInterrupted, Unaccepted
  <2>7. PairsWhole(listener)' /\ ListensOrNot'
    BY <2>1, <2>2, <2>3 DEF PairsWhole, ListensOrNot
  <2> QED
    BY <1>1, <1>2, <1>3, <2>1, <2>2, <2>5, <2>6, <2>7 DEF SocketsInv
<1>5. CASE Abandoned(i)
  <2> DEFINE u == Closed(t, ToClose(o, child))
  <2>1. table' = u /\ listener' = NoListener
    BY <1>5 DEF Abandoned
  <2> HIDE DEF t, o
  <2>2. DOMAIN u = Descriptor /\ ChildEnds(u) /\ Accounted(u, NoListener)
    BY <1>2, <1>3, ClosedKept
  <2> HIDE DEF u
  <2>3. ChildEnds(table)' /\ Accounted(table, listener)' /\ ChildrenInterrupted' /\ Unaccepted'
    BY <1>1, <2>1, <2>2 DEF ChildEnds, Accounted, SocketsInv, ChildrenInterrupted, Unaccepted
  <2>4. OwnEnds(table, listener, listens - 1)' /\ PairsWhole(listener)' /\ ListensOrNot'
    BY <2>1, NoListenerHolds DEF OwnEnds, PairsWhole, ListensOrNot
  <2> QED
    BY <1>1, <1>3, <2>1, <2>2, <2>3, <2>4, NoListenerHolds DEF SocketsInv
<1> QED
  BY <1>4, <1>5 DEF Listen, NonblockingListen, SetupFails, ListenFails

LEMMA CloseListenerKept == ASSUME SocketsInv, CloseListener PROVE SocketsInv'
<1> DEFINE u == Closed(table, ToClose(listener, child))
<1>1. table' = u /\ listener' = NoListener /\ UNCHANGED <<style, listens, child>>
  BY DEF CloseListener
<1>2. DOMAIN u = Descriptor /\ ChildEnds(u) /\ Accounted(u, NoListener)
  BY ClosedKept DEF SocketsInv
<1> HIDE DEF u
<1>3. ChildEnds(table)' /\ Accounted(table, listener)' /\ ChildrenInterrupted'
  BY <1>1, <1>2 DEF ChildEnds, Accounted, SocketsInv, ChildrenInterrupted
<1>3a. DOMAIN conn' = Peer /\ Unaccepted'
  BY <1>1 DEF SocketsInv, CloseListener, Unaccepted
<1>4. OwnEnds(table, listener, listens - 1)' /\ PairsWhole(listener)' /\ ListensOrNot'
  BY <1>1, NoListenerHolds DEF OwnEnds, PairsWhole, ListensOrNot
<1> QED
  BY <1>1, <1>2, <1>3, <1>3a, <1>4, NoListenerHolds DEF SocketsInv

\* A socket for a connection, which polls the end the listening socket shares, or none.
LEMMA AcceptKept ==
  ASSUME SocketsInv, NEW c \in Peer, Accept(c) \/ NonblockingAccept(c)
  PROVE  SocketsInv'
<1> DEFINE fd == Lowest(table)
           readEnd == listener.pChildInterruptSockReader_
<1>1. PICK il \in {readEnd, NoSocket} : Accepted(c, il)
  BY DEF Accept, NonblockingAccept
<1> DEFINE k == [socket_ |-> fd, interruptListener_ |-> il, of |-> listens - 1, deaf |-> FALSE]
           u == Opened(table, fd, <<"connection", c>>)
<1>2. /\ table' = u /\ child' = [child EXCEPT ![c] = k]
      /\ UNCHANGED <<style, listener, listens, interrupts, told>>
  BY <1>1 DEF Accepted
<1>3. fd # NoSocket
  BY DEF Accept, NonblockingAccept, MayAccept, NoSocket
<1>4. fd \in Descriptor /\ table[fd] = Free
  BY <1>3, LowestIsFree, ServerSocketAssumption DEF NoSocket, SocketsInv
<1>5. DOMAIN u = Descriptor /\ \A d \in Descriptor : u[d] = IF d = fd THEN <<"connection", c>> ELSE table[d]
  BY DEF Opened, SocketsInv
<1>6. /\ listens \in Nat /\ listener \in ListenerState /\ child \in [Peer -> ChildState]
      /\ readEnd \in SockFd
      /\ OwnEnds(table, listener, listens - 1) /\ ChildEnds(table) /\ Accounted(table, listener)
  BY DEF SocketsInv, ListenerState
<1>7. k \in ChildState /\ k.socket_ = fd /\ k.interruptListener_ = il /\ k.of = listens - 1 /\ ~k.deaf
  BY <1>1, <1>4, <1>6 DEF ChildState, SockFd
<1> HIDE DEF k, u, fd
<1>8. child' \in [Peer -> ChildState] /\ \A d \in Peer : child'[d] = IF d = c THEN k ELSE child[d]
  BY <1>2, <1>6, <1>7
<1>9. \A d \in Descriptor : table[d] # Free => u[d] = table[d]
  BY <1>4, <1>5
<1>10. il # NoSocket => u[il] = <<"children", listens - 1>>
  <2> SUFFICES ASSUME il # NoSocket PROVE u[il] = <<"children", listens - 1>>
    OBVIOUS
  <2>1. "pChildInterruptSockReader_" \in ListenerField /\ UseOf["pChildInterruptSockReader_"] = "children"
    BY DEF ListenerField, UseOf
  <2>2. il = listener["pChildInterruptSockReader_"] /\ il \in Descriptor
    BY <1>1, <1>6 DEF SockFd
  <2>3. table[il] = <<"children", listens - 1>>
    BY <1>6, <2>1, <2>2 DEF OwnEnds
  <2> QED
    BY <1>9, <2>2, <2>3 DEF Free
<1>11. ChildEnds(table)'
  <2> SUFFICES ASSUME NEW d \in Peer
               PROVE  /\ child'[d].socket_ # NoSocket => u[child'[d].socket_] = <<"connection", d>>
                      /\ child'[d].interruptListener_ # NoSocket =>
                           u[child'[d].interruptListener_] = <<"children", child'[d].of>>
    BY <1>2 DEF ChildEnds
  <2>1. CASE d = c
    BY <1>4, <1>5, <1>7, <1>8, <1>10, <2>1
  <2>2. CASE d # c
    <3>1. child'[d] = child[d] /\ child[d].socket_ \in SockFd /\ child[d].interruptListener_ \in SockFd
      BY <1>6, <1>8, <2>2 DEF ChildState
    <3>2. <<"connection", d>> # Free /\ <<"children", child[d].of>> # Free
      BY DEF Free
    <3> QED
      BY <1>6, <1>9, <3>1, <3>2 DEF ChildEnds, SockFd
  <2> QED
    BY <2>1, <2>2
<1>12. OwnEnds(table, listener, listens - 1)'
  <2> SUFFICES ASSUME NEW f \in ListenerField, listener[f] # NoSocket
               PROVE  u[listener[f]] = <<UseOf[f], listens - 1>>
    BY <1>2 DEF OwnEnds
  <2>1. listener[f] \in Descriptor /\ table[listener[f]] = <<UseOf[f], listens - 1>>
    BY <1>6, FieldsHoldFds DEF OwnEnds, SockFd
  <2>2. <<UseOf[f], listens - 1>> # Free
    BY UsesDiffer DEF Free
  <2> QED
    BY <1>9, <2>1, <2>2
<1>13. Accounted(table, listener)'
  <2> SUFFICES ASSUME NEW d \in Descriptor, u[d] # Free
               PROVE  \/ \E f \in ListenerField : listener[f] = d
                      \/ \E e \in Peer : d \in {child'[e].socket_, child'[e].interruptListener_}
                      \/ ~style.unix /\ u[d][1] = "listener"
    BY <1>2 DEF Accounted
  <2>1. CASE d = fd
    BY <1>7, <1>8, <2>1
  <2>2. CASE d # fd
    <3>1. u[d] = table[d]
      BY <1>5, <2>2
    <3>2. ASSUME NEW e \in Peer, d \in {child[e].socket_, child[e].interruptListener_}
          PROVE  \/ \E f \in ListenerField : listener[f] = d
                 \/ d \in {child'[e].socket_, child'[e].interruptListener_}
      <4>1. CASE e # c
        BY <1>8, <3>2, <4>1
      <4>2. CASE e = c
        <5>1. child[e] = NoChild
          BY <4>2 DEF Accept, NonblockingAccept, MayAccept, SocketsInv, Unaccepted
        <5> QED
          BY <3>2, <5>1, NoSocketIsNone DEF NoChild
      <4> QED
        BY <4>1, <4>2
    <3> QED
      BY <1>6, <3>1, <3>2 DEF Accounted
  <2> QED
    BY <2>1, <2>2
<1>14. ChildrenInterrupted'
  BY <1>7, <1>8 DEF SocketsInv, ChildrenInterrupted
<1>15. PairsWhole(listener)' /\ ListensOrNot'
  BY <1>2 DEF SocketsInv, PairsWhole, ListensOrNot
<1>16. DOMAIN conn' = Peer /\ Unaccepted'
  BY <1>1, <1>8 DEF Accepted, SocketsInv, Unaccepted
<1> QED
  BY <1>2, <1>5, <1>6, <1>8, <1>11, <1>12, <1>13, <1>14, <1>15, <1>16 DEF SocketsInv

LEMMA DeleteChildKept == ASSUME SocketsInv, NEW c \in Peer, DeleteChild(c) PROVE SocketsInv'
<1> DEFINE fd == child[c].socket_
           il == child[c].interruptListener_
           others == {child[d].interruptListener_ : d \in Peer \ {c}}
           gone == {fd} \cup ({il} \ ({listener.pChildInterruptSockReader_} \cup others))
           u == Closed(table, gone)
<1>1. /\ table' = u /\ child' = [child EXCEPT ![c] = NoChild] /\ conn' = [conn EXCEPT ![c] = "gone"]
      /\ UNCHANGED <<style, listener, listens, interrupts, told>> /\ fd # NoSocket
  BY DEF DeleteChild
<1>2. /\ DOMAIN table = Descriptor /\ child \in [Peer -> ChildState] /\ listener \in ListenerState
      /\ OwnEnds(table, listener, listens - 1) /\ ChildEnds(table) /\ Accounted(table, listener)
  BY DEF SocketsInv
<1>3. /\ DOMAIN u = Descriptor /\ \A d \in Descriptor : u[d] = IF d \in gone THEN Free ELSE table[d]
  BY <1>2 DEF Closed
<1>4. /\ fd \in Descriptor /\ il \in SockFd /\ table[fd] = <<"connection", c>>
      /\ il # NoSocket => table[il] = <<"children", child[c].of>>
  BY <1>1, <1>2 DEF ChildState, SockFd, ChildEnds
<1> HIDE DEF u
<1>5. NoChild \in ChildState /\ NoChild.socket_ = NoSocket /\ NoChild.interruptListener_ = NoSocket
      /\ ~NoChild.deaf
  BY DEF NoChild, ChildState, SockFd
<1>6. /\ child' \in [Peer -> ChildState] /\ child'[c] = NoChild
      /\ \A d \in Peer : d # c => child'[d] = child[d]
  BY <1>1, <1>2, <1>5
<1>7. OwnEnds(table, listener, listens - 1)'
  <2> SUFFICES ASSUME NEW f \in ListenerField, listener[f] # NoSocket
               PROVE  u[listener[f]] = <<UseOf[f], listens - 1>>
    BY <1>1 DEF OwnEnds
  <2>1. listener[f] \in Descriptor /\ table[listener[f]] = <<UseOf[f], listens - 1>>
    BY <1>2, FieldsHoldFds DEF OwnEnds, SockFd
  <2>2. listener[f] # fd
    BY <1>4, <2>1, UsesDiffer
  <2>3. listener[f] = il => UseOf[f] = "children"
    BY <1>4, <2>1
  <2>4. listener[f] = il => il = listener.pChildInterruptSockReader_
    BY <2>3, UsesDiffer
  <2>5. listener[f] \notin gone
    BY <2>2, <2>4
  <2> QED
    BY <1>3, <2>1, <2>5
<1>8. ChildEnds(table)'
  <2> SUFFICES ASSUME NEW d \in Peer, d # c
               PROVE  /\ child[d].socket_ # NoSocket => u[child[d].socket_] = <<"connection", d>>
                      /\ child[d].interruptListener_ # NoSocket =>
                           u[child[d].interruptListener_] = <<"children", child[d].of>>
    BY <1>1, <1>5, <1>6 DEF ChildEnds
  <2>1. child[d].socket_ \in SockFd /\ child[d].interruptListener_ \in SockFd
    BY <1>2 DEF ChildState
  <2>2. child[d].socket_ # NoSocket => child[d].socket_ \in Descriptor /\ child[d].socket_ \notin gone
    <3> SUFFICES ASSUME child[d].socket_ # NoSocket
                 PROVE  child[d].socket_ \in Descriptor /\ child[d].socket_ \notin gone
      OBVIOUS
    <3>1. child[d].socket_ \in Descriptor /\ table[child[d].socket_] = <<"connection", d>>
      BY <1>2, <2>1 DEF ChildEnds, SockFd
    <3>2. child[d].socket_ # fd
      BY <1>4, <3>1
    <3>3. child[d].socket_ # il
      BY <1>4, <3>1
    <3> QED
      BY <3>1, <3>2, <3>3
  <2>3. child[d].interruptListener_ # NoSocket =>
          child[d].interruptListener_ \in Descriptor /\ child[d].interruptListener_ \notin gone
    <3> SUFFICES ASSUME child[d].interruptListener_ # NoSocket
                 PROVE  child[d].interruptListener_ \in Descriptor /\ child[d].interruptListener_ \notin gone
      OBVIOUS
    <3>1. /\ child[d].interruptListener_ \in Descriptor
          /\ table[child[d].interruptListener_] = <<"children", child[d].of>>
      BY <1>2, <2>1 DEF ChildEnds, SockFd
    <3>2. child[d].interruptListener_ # fd
      BY <1>4, <3>1
    <3> QED
      BY <3>1, <3>2
  <2> QED
    BY <1>2, <1>3, <2>2, <2>3 DEF ChildEnds
<1>9. Accounted(table, listener)'
  <2> SUFFICES ASSUME NEW d \in Descriptor, u[d] # Free
               PROVE  \/ \E f \in ListenerField : listener[f] = d
                      \/ \E e \in Peer : d \in {child'[e].socket_, child'[e].interruptListener_}
                      \/ ~style.unix /\ u[d][1] = "listener"
    BY <1>1 DEF Accounted
  <2>1. d \notin gone /\ u[d] = table[d]
    BY <1>3
  <2>2. CASE \E e \in Peer : d \in {child[e].socket_, child[e].interruptListener_}
    <3>1. PICK e \in Peer : d \in {child[e].socket_, child[e].interruptListener_}
      BY <2>2
    <3>2. CASE e # c
      BY <1>6, <3>1, <3>2
    <3>3. CASE e = c
      <4>1. d = il /\ (d = listener.pChildInterruptSockReader_ \/ d \in others)
        BY <2>1, <3>1, <3>3
      <4>2. CASE d = listener.pChildInterruptSockReader_
        <5>1. "pChildInterruptSockReader_" \in ListenerField
          BY DEF ListenerField, UseOf
        <5> QED
          BY <4>2, <5>1
      <4>3. CASE d \in others
        BY <1>6, <4>3
      <4> QED
        BY <4>1, <4>2, <4>3
    <3> QED
      BY <3>2, <3>3
  <2> QED
    BY <1>2, <2>1, <2>2 DEF Accounted
<1>10. ChildrenInterrupted' /\ DOMAIN conn' = Peer /\ Unaccepted'
  BY <1>1, <1>5, <1>6 DEF SocketsInv, ChildrenInterrupted, Unaccepted
<1>11. PairsWhole(listener)' /\ ListensOrNot'
  BY <1>1 DEF SocketsInv, PairsWhole, ListensOrNot
<1> QED
  BY <1>1, <1>2, <1>3, <1>6, <1>7, <1>8, <1>9, <1>10, <1>11 DEF SocketsInv

\* While it listens, the other end of the shared pair is there, and it alone.
LEMMA WriterIsCurrent ==
  ASSUME SocketsInv, NEW d \in Descriptor, NEW n, table[d] = <<"childrenWriter", n>>
  PROVE  listener.listening_ /\ n = listens - 1
<1>1. \A c \in Peer : d \notin {child[c].socket_, child[c].interruptListener_}
  BY NoSocketIsNone DEF SocketsInv, ChildEnds
<1>2. table[d] # Free /\ table[d][1] # "listener"
  BY DEF Free
<1>3. PICK f \in ListenerField : listener[f] = d
  BY <1>1, <1>2 DEF SocketsInv, Accounted
<1>4. table[d] = <<UseOf[f], listens - 1>>
  BY <1>3, NoSocketIsNone DEF SocketsInv, OwnEnds
<1>5. listener.listening_
  BY <1>3, NoSocketIsNone, NoListenerHolds DEF SocketsInv, ListensOrNot
<1> QED
  BY <1>4, <1>5

\* A socket that shares the pair and has been stopped finds that out before it looks at its data.
LEMMA StoppedNotices ==
  ASSUME SocketsInv, NEW c \in Peer, ~Interrupted(c), Stopped(c)
  PROVE  child[c].interruptListener_ = NoSocket
<1> DEFINE fd == child[c].interruptListener_
<1> SUFFICES ASSUME fd # NoSocket PROVE FALSE
  OBVIOUS
<1>1. table[fd] = <<"children", child[c].of>>
  BY DEF SocketsInv, ChildEnds
<1>2. child[c].of \notin told
  BY <1>1 DEF Interrupted
<1>3. PICK d \in Descriptor : table[d] = <<"childrenWriter", child[c].of>>
  BY <1>1 DEF Interrupted
<1>4. listener.listening_ /\ child[c].of = listens - 1
  BY <1>3, WriterIsCurrent
<1> QED
  BY <1>2, <1>4 DEF Stopped

\* A socket is used and closed by nobody.
LEMMA UsedKept ==
  ASSUME SocketsInv, NEW c \in Peer, ReadChild(c) \/ PeekChild(c)
  PROVE  SocketsInv'
<1> DEFINE k == [child[c] EXCEPT !.deaf = child'[c].deaf]
<1>1. child \in [Peer -> ChildState] /\ child[c] \in ChildState /\ child[c].deaf \in BOOLEAN
  BY DEF SocketsInv, ChildState
<1>2. PICK b \in BOOLEAN : /\ child' = [child EXCEPT ![c].deaf = b]
                           /\ b => child[c].deaf \/ Stopped(c)
  <2>1. Stopped(c) \in BOOLEAN
    BY DEF Stopped
  <2>2. CASE ReadChild(c)
    <3>1. child' = [child EXCEPT ![c].deaf = child[c].deaf \/ Stopped(c)]
      BY <1>1, <2>2 DEF ReadChild
    <3>2. (child[c].deaf \/ Stopped(c)) \in BOOLEAN
      OBVIOUS
    <3> QED
      BY <3>1, <3>2
  <2>3. CASE PeekChild(c)
    <3>1. child' = [child EXCEPT ![c].deaf = child[c].deaf \/ (conn[c] = "data" /\ Stopped(c))]
      BY <1>1, <2>3 DEF PeekChild
    <3>2. (child[c].deaf \/ (conn[c] = "data" /\ Stopped(c))) \in BOOLEAN
      OBVIOUS
    <3> QED
      BY <3>1, <3>2
  <2> QED
    BY <2>2, <2>3
<1>3. /\ child' \in [Peer -> ChildState]
      /\ \A d \in Peer : /\ child'[d].socket_ = child[d].socket_
                         /\ child'[d].interruptListener_ = child[d].interruptListener_
                         /\ child'[d].of = child[d].of
                         /\ child'[d].deaf = IF d = c THEN b ELSE child[d].deaf
                         /\ d # c => child'[d] = child[d]
  BY <1>1, <1>2 DEF ChildState
<1>4. /\ UNCHANGED <<style, table, listener, listens, interrupts, told>> /\ ~Interrupted(c)
      /\ child[c].socket_ # NoSocket
  BY DEF ReadChild, PeekChild
<1>5. ChildrenInterrupted'
  BY <1>2, <1>3, <1>4, StoppedNotices DEF SocketsInv, ChildrenInterrupted
<1>6. DOMAIN conn' = Peer /\ conn[c] \notin {"none", "queued"} /\ Unaccepted'
  <2>1. conn[c] \in {"data", "shut"} /\ DOMAIN conn = Peer
    BY DEF ReadChild, PeekChild, SocketsInv
  <2>2. DOMAIN conn' = Peer /\ \A d \in Peer : d # c => conn'[d] = conn[d]
    BY <2>1 DEF ReadChild, PeekChild
  <2>3. conn'[c] \in {"open", "data", "shut"}
    BY <2>1 DEF ReadChild, PeekChild
  <2> QED
    BY <1>3, <2>1, <2>2, <2>3 DEF SocketsInv, Unaccepted
<1>7. ChildEnds(table)'
  <2>1. ChildEnds(table) /\ table' = table
    BY <1>4 DEF SocketsInv
  <2>2. ASSUME NEW d \in Peer
        PROVE  /\ child'[d].socket_ # NoSocket => table'[child'[d].socket_] = <<"connection", d>>
               /\ child'[d].interruptListener_ # NoSocket =>
                    table'[child'[d].interruptListener_] = <<"children", child'[d].of>>
    <3>1. /\ child'[d].socket_ = child[d].socket_ /\ child'[d].of = child[d].of
          /\ child'[d].interruptListener_ = child[d].interruptListener_
      BY <1>3
    <3> QED
      BY <2>1, <3>1 DEF ChildEnds
  <2> QED
    BY <2>2 DEF ChildEnds
<1>8. Accounted(table, listener)'
  BY <1>3, <1>4 DEF SocketsInv, Accounted
<1>9. OwnEnds(table, listener, listens - 1)' /\ PairsWhole(listener)' /\ ListensOrNot'
  <2>1. OwnEnds(table, listener, listens - 1)'
    BY <1>4 DEF SocketsInv, OwnEnds
  <2>2. PairsWhole(listener)'
    BY <1>4 DEF SocketsInv, PairsWhole
  <2>3. ListensOrNot'
    BY <1>4 DEF SocketsInv, ListensOrNot
  <2> QED
    BY <2>1, <2>2, <2>3
<1> QED
  BY <1>3, <1>4, <1>5, <1>6, <1>7, <1>8, <1>9 DEF SocketsInv

\* The peers, and interrupts: no descriptor is opened or closed.
LEMMA OthersKept ==
  ASSUME SocketsInv,
         \/ AcceptInterrupted \/ Interrupt \/ InterruptChildren \/ UNCHANGED serverSocketVars
         \/ \E c \in Peer : Connect(c) \/ PeerMoves(c) \/ AcceptFails(c)
  PROVE  SocketsInv'
<1>1. UNCHANGED <<style, table, listener, listens, child>>
  BY DEF AcceptInterrupted, Interrupt, InterruptChildren, Connect, PeerMoves, AcceptFails, serverSocketVars
<1>2. DOMAIN conn' = Peer /\ Unaccepted'
  <2>1. CASE UNCHANGED conn
    BY <1>1, <2>1 DEF SocketsInv, Unaccepted
  <2>2. ASSUME NEW c \in Peer, Connect(c) \/ PeerMoves(c) \/ AcceptFails(c)
        PROVE  DOMAIN conn' = Peer /\ Unaccepted'
    BY <1>1, <2>2 DEF SocketsInv, Unaccepted, Connect, PeerMoves, AcceptFails, MayAccept
  <2> QED
    BY <2>1, <2>2 DEF AcceptInterrupted, Interrupt, InterruptChildren, serverSocketVars
<1> QED
  BY <1>1, <1>2 DEF SocketsInv, OwnEnds, PairsWhole, ChildEnds, Accounted, ListensOrNot, ChildrenInterrupted

LEMMA SocketsInvKept == SocketsInv /\ [ServerSocketNext]_serverSocketVars => SocketsInv'
<1> SUFFICES ASSUME SocketsInv, [ServerSocketNext]_serverSocketVars PROVE SocketsInv'
  OBVIOUS
<1>1. CASE \E i \in 1 .. RetryLimit + 1 : Listen(i) \/ NonblockingListen(i)
  BY <1>1, ListenKept
<1>2. CASE \E c \in Peer : \/ ReadChild(c) \/ PeekChild(c) \/ DeleteChild(c)
                           \/ Accept(c) \/ NonblockingAccept(c)
  BY <1>2, UsedKept, DeleteChildKept, AcceptKept
<1>3. CASE \/ AcceptInterrupted \/ Interrupt \/ InterruptChildren \/ UNCHANGED serverSocketVars
           \/ \E c \in Peer : Connect(c) \/ PeerMoves(c) \/ AcceptFails(c)
  BY <1>3, OthersKept
<1> QED
  BY <1>1, <1>2, <1>3, CloseListenerKept DEF ServerSocketNext

\* The invariant says what the descriptors are.
LEMMA SocketsExact == SocketsInv => DescriptorsExact /\ ChildrenInterrupted
<1> SUFFICES ASSUME SocketsInv PROVE DescriptorsExact
  BY DEF SocketsInv
<1>1. /\ {"serverSocket_", "interruptSockReader_", "interruptSockWriter_", "pChildInterruptSockReader_",
          "childInterruptSockWriter_"} = ListenerField
      /\ UseOf["serverSocket_"] = "listener"
      /\ UseOf["interruptSockReader_"] = "interrupt" /\ UseOf["interruptSockWriter_"] = "interruptWriter"
      /\ UseOf["pChildInterruptSockReader_"] = "children"
      /\ UseOf["childInterruptSockWriter_"] = "childrenWriter"
  BY DEF ListenerField, UseOf
<1>2. listener.listening_ => table[listener.serverSocket_] = <<"listener", listens - 1>>
  BY <1>1 DEF SocketsInv, OwnEnds, ListensOrNot
<1>3. listener.interruptSockReader_ # NoSocket =>
        /\ table[listener.interruptSockReader_] = <<"interrupt", listens - 1>>
        /\ table[listener.interruptSockWriter_] = <<"interruptWriter", listens - 1>>
  BY <1>1 DEF SocketsInv, OwnEnds, PairsWhole
<1>4. listener.pChildInterruptSockReader_ # NoSocket =>
        /\ table[listener.pChildInterruptSockReader_] = <<"children", listens - 1>>
        /\ table[listener.childInterruptSockWriter_] = <<"childrenWriter", listens - 1>>
  BY <1>1 DEF SocketsInv, OwnEnds, PairsWhole
<1>5. ASSUME NEW c \in Peer
      PROVE  /\ child[c].socket_ # NoSocket => table[child[c].socket_] = <<"connection", c>>
             /\ child[c].interruptListener_ # NoSocket => table[child[c].interruptListener_][1] = "children"
  <2>1. /\ child[c].socket_ # NoSocket => table[child[c].socket_] = <<"connection", c>>
        /\ child[c].interruptListener_ # NoSocket =>
             table[child[c].interruptListener_] = <<"children", child[c].of>>
    BY DEF SocketsInv, ChildEnds
  <2>2. <<"children", child[c].of>>[1] = "children"
    OBVIOUS
  <2> QED
    BY <2>1, <2>2
<1>6. ASSUME NEW fd \in Descriptor, table[fd] # Free, fd \notin Held
      PROVE  ~style.unix /\ table[fd][1] = "listener"
  <2>1. \A f \in ListenerField : listener[f] # fd
    BY <1>1, <1>6 DEF Held, NoListener
  <2>2. \A c \in Peer : fd \notin {child[c].socket_, child[c].interruptListener_}
    BY <1>6 DEF Held
  <2> QED
    BY <1>6, <2>1, <2>2 DEF SocketsInv, Accounted
<1> QED
  BY <1>2, <1>3, <1>4, <1>5, <1>6 DEF DescriptorsExact

\* Whoever holds a descriptor holds what it opened, and nobody reads on after an interrupt.
LEMMA DescriptorsStayExact == ServerSocketSpec => [](DescriptorsExact /\ ChildrenInterrupted)
BY SocketsInvStarts, SocketsInvKept, SocketsExact, PTL DEF ServerSocketSpec

-----------------------------------------------------------------------------
\* Socket pools: the inductive invariant.

PoolFd == PoolDescriptor \cup {THRIFT_INVALID_SOCKET}
EntryState == [socket_ : PoolFd, lastFailTime_ : Nat, consecutiveFailures_ : Int]

PoolTyped ==
  /\ DOMAIN poolTable = PoolDescriptor /\ now \in Nat /\ shared \in BOOLEAN
  /\ servers_ \in [PoolObject -> SUBSET Entry] /\ socket_ \in [PoolObject -> PoolFd]
  /\ currentServer_ \in [PoolObject -> Entry \cup {Nowhere}]
  /\ entry \in [Entry -> EntryState]

\* The current server of a pool is one of its entries.
CurrentIsOwn == \A p \in PoolObject : currentServer_[p] \in servers_[p] \cup {Nowhere}

EntriesApart == \A p, q \in PoolObject : p # q => servers_[p] \cap servers_[q] = {}

\* The connection an entry keeps is open, and to its server.
ConnectionsKept ==
  \A e \in Entry : IsOpen(entry[e].socket_) => poolTable[entry[e].socket_] = <<"connection", e>>

\* An open pool uses the connection of its current entry.
SocketOfCurrent ==
  \A p \in PoolObject : IsOpen(socket_[p]) => /\ currentServer_[p] \in servers_[p]
                                              /\ entry[currentServer_[p]].socket_ = socket_[p]

SocketPoolInv ==
  /\ PoolTyped /\ CurrentIsOwn
  /\ ~shared => EntriesApart /\ ConnectionsKept /\ SocketOfCurrent

LEMMA SocketPoolStarts == SocketPoolInit => SocketPoolInv
<1> SUFFICES ASSUME SocketPoolInit
             PROVE  SocketPoolInv
  OBVIOUS
<1>1. entry \in [Entry -> EntryState]
  <2>1. [socket_ |-> THRIFT_INVALID_SOCKET, lastFailTime_ |-> 0, consecutiveFailures_ |-> 0] \in EntryState
    BY DEF EntryState, PoolFd
  <2> QED
    BY <2>1 DEF SocketPoolInit
<1>2. PoolTyped
  BY <1>1 DEF SocketPoolInit, PoolTyped, PoolFd
<1> QED
  BY <1>2 DEF SocketPoolInit, SocketPoolInv, CurrentIsOwn, EntriesApart, ConnectionsKept, SocketOfCurrent,
              IsOpen

LEMMA InvalidIsNone ==
  /\ THRIFT_INVALID_SOCKET \notin PoolDescriptor
  /\ \A fd \in PoolFd : IsOpen(fd) <=> fd \in PoolDescriptor
BY SocketPoolAssumption DEF THRIFT_INVALID_SOCKET, IsOpen, PoolFd

\* What is counted against entries leaves their connections.
LEMMA FailuresCounted ==
  ASSUME SocketPoolInv, NEW order, NEW i
  PROVE  /\ AfterFailures(order, i) \in [Entry -> EntryState]
         /\ \A e \in Entry : AfterFailures(order, i)[e].socket_ = entry[e].socket_
<1>1. entry \in [Entry -> EntryState] /\ now \in Nat
  BY DEF SocketPoolInv, PoolTyped
<1>2. ASSUME NEW e \in Entry
      PROVE  Failed(entry[e]) \in EntryState /\ Failed(entry[e]).socket_ = entry[e].socket_
  <2>1. entry[e] \in EntryState
    BY <1>1
  <2>2. /\ [entry[e] EXCEPT !.consecutiveFailures_ = 0, !.lastFailTime_ = now] \in EntryState
        /\ [entry[e] EXCEPT !.consecutiveFailures_ = 0, !.lastFailTime_ = now].socket_ = entry[e].socket_
    <3> DEFINE r == [entry[e] EXCEPT !.consecutiveFailures_ = 0]
    <3>1. r \in EntryState /\ r.socket_ = entry[e].socket_
      BY <2>1 DEF EntryState
    <3>2. [entry[e] EXCEPT !.consecutiveFailures_ = 0, !.lastFailTime_ = now] = [r EXCEPT !.lastFailTime_ = now]
      OBVIOUS
    <3> HIDE DEF r
    <3>3. /\ [r EXCEPT !.lastFailTime_ = now] \in EntryState
          /\ [r EXCEPT !.lastFailTime_ = now].socket_ = r.socket_
      BY <1>1, <3>1 DEF EntryState
    <3> QED
      BY <3>1, <3>2, <3>3
  <2>3. LET r == [entry[e] EXCEPT !.consecutiveFailures_ = @ + 1]
        IN r \in EntryState /\ r.socket_ = entry[e].socket_
    BY <2>1 DEF EntryState
  <2> QED
    BY <1>1, <2>2, <2>3 DEF Failed
<1> QED
  BY <1>1, <1>2 DEF AfterFailures

LEMMA AddServerKept ==
  ASSUME SocketPoolInv, NEW p \in PoolObject, NEW e \in Entry, AddServer(p, e)
  PROVE  SocketPoolInv'
<1>1. /\ servers_' = [servers_ EXCEPT ![p] = @ \cup {e}]
      /\ shared' = (shared \/ \E q \in PoolObject \ {p} : e \in servers_[q])
      /\ UNCHANGED <<poolTable, currentServer_, socket_, entry, now>>
  BY DEF AddServer
<1>2. /\ servers_' \in [PoolObject -> SUBSET Entry] /\ servers_'[p] = servers_[p] \cup {e}
      /\ \A q \in PoolObject : q # p => servers_'[q] = servers_[q]
  BY <1>1 DEF SocketPoolInv, PoolTyped
<1>3. PoolTyped' /\ CurrentIsOwn'
  BY <1>1, <1>2 DEF SocketPoolInv, PoolTyped, CurrentIsOwn
<1>4. ASSUME ~shared'
      PROVE  EntriesApart' /\ ConnectionsKept' /\ SocketOfCurrent'
  <2>1. ~shared /\ \A q \in PoolObject : q # p => e \notin servers_[q]
    BY <1>1, <1>4
  <2> QED
    BY <1>1, <1>2, <2>1 DEF SocketPoolInv, EntriesApart, ConnectionsKept, SocketOfCurrent
<1> QED
  BY <1>3, <1>4 DEF SocketPoolInv

\* A pool takes up the connection one of its entries has, or makes a new one.
LEMMA OpenKept ==
  ASSUME SocketPoolInv, NEW p \in PoolObject, NEW order \in Orders(p), NEW i \in DOMAIN order,
         \/ OpenFinds(p, order, i)
         \/ IsOpen(Lowest(poolTable)) /\ ~IsOpen(entry[order[i]].socket_) /\ OpenConnects(p, order, i),
         UNCHANGED <<servers_, now, shared>>
  PROVE  SocketPoolInv'
<1>1. order[i] \in servers_[p] /\ servers_[p] \subseteq Entry /\ order[i] \in Entry
  BY DEF Orders, SetToSeqs, SocketPoolInv, PoolTyped
<1>2. PICK fd \in PoolDescriptor :
        /\ socket_' = [socket_ EXCEPT ![p] = fd] /\ currentServer_' = [currentServer_ EXCEPT ![p] = order[i]]
        /\ DOMAIN poolTable' = PoolDescriptor /\ entry' \in [Entry -> EntryState]
        /\ entry'[order[i]].socket_ = fd
        /\ \A e \in Entry : e # order[i] => entry'[e].socket_ = entry[e].socket_
        /\ ~shared => /\ poolTable'[fd] = <<"connection", order[i]>>
                      /\ \A e \in Entry : IsOpen(entry[e].socket_) =>
                           poolTable'[entry[e].socket_] = poolTable[entry[e].socket_]
  <2>1. CASE OpenFinds(p, order, i)
    <3>1. /\ IsOpen(entry[order[i]].socket_) /\ entry[order[i]].socket_ \in PoolFd
          /\ socket_' = [socket_ EXCEPT ![p] = entry[order[i]].socket_]
          /\ currentServer_' = [currentServer_ EXCEPT ![p] = order[i]]
          /\ entry' = AfterFailures(order, i) /\ poolTable' = poolTable
      BY <1>1, <2>1 DEF OpenFinds, SocketPoolInv, PoolTyped, EntryState
    <3>2. entry[order[i]].socket_ \in PoolDescriptor
      BY <3>1, InvalidIsNone
    <3>3. entry' \in [Entry -> EntryState] /\ \A e \in Entry : entry'[e].socket_ = entry[e].socket_
      BY <3>1, FailuresCounted
    <3>4. DOMAIN poolTable' = PoolDescriptor
      BY <3>1 DEF SocketPoolInv, PoolTyped
    <3>5. ~shared => poolTable[entry[order[i]].socket_] = <<"connection", order[i]>>
      BY <1>1, <3>1 DEF SocketPoolInv, ConnectionsKept
    <3> QED
      BY <1>1, <3>1, <3>2, <3>3, <3>4, <3>5
  <2>2. CASE IsOpen(Lowest(poolTable)) /\ ~IsOpen(entry[order[i]].socket_) /\ OpenConnects(p, order, i)
    <3> DEFINE new == Lowest(poolTable)
               use == <<"connection", order[i]>>
    <3>1. /\ poolTable' = Opened(poolTable, new, use) /\ socket_' = [socket_ EXCEPT ![p] = new]
          /\ currentServer_' = [currentServer_ EXCEPT ![p] = order[i]]
          /\ entry' = [AfterFailures(order, i) EXCEPT ![order[i]].socket_ = new, ![order[i]].lastFailTime_ = 0]
      BY <2>2 DEF OpenConnects
    <3>2. DOMAIN poolTable = PoolDescriptor /\ new \in PoolDescriptor /\ poolTable[new] = Free
      BY <2>2, SocketPoolAssumption, LowestIsFree DEF SocketPoolInv, PoolTyped, IsOpen
    <3> HIDE DEF new, use
    <3>3. /\ entry' \in [Entry -> EntryState] /\ entry'[order[i]].socket_ = new
          /\ \A e \in Entry : e # order[i] => entry'[e].socket_ = entry[e].socket_
      <4> DEFINE F == AfterFailures(order, i)
      <4>1. F \in [Entry -> EntryState] /\ \A e \in Entry : F[e].socket_ = entry[e].socket_
        BY FailuresCounted
      <4> HIDE DEF F
      <4>2. entry' = [F EXCEPT ![order[i]].socket_ = new, ![order[i]].lastFailTime_ = 0]
        BY <3>1 DEF F
      <4>3. new \in PoolFd
        BY <3>2 DEF PoolFd
      <4> DEFINE G == [F EXCEPT ![order[i]].socket_ = new]
      <4>4. /\ G \in [Entry -> EntryState] /\ G[order[i]].socket_ = new
            /\ \A e \in Entry : e # order[i] => G[e].socket_ = entry[e].socket_
        <5>1. F[order[i]] \in EntryState
          BY <1>1, <4>1
        <5>2. /\ [F[order[i]] EXCEPT !.socket_ = new] \in EntryState
              /\ [F[order[i]] EXCEPT !.socket_ = new].socket_ = new
          BY <4>3, <5>1 DEF EntryState
        <5> QED
          BY <1>1, <4>1, <5>2
      <4>5. entry' = [G EXCEPT ![order[i]].lastFailTime_ = 0]
        BY <4>2
      <4> HIDE DEF G
      <4>6. /\ [G[order[i]] EXCEPT !.lastFailTime_ = 0] \in EntryState
            /\ [G[order[i]] EXCEPT !.lastFailTime_ = 0].socket_ = new
        <5>1. G[order[i]] \in EntryState
          BY <1>1, <4>4
        <5> QED
          BY <4>4, <5>1 DEF EntryState
      <4> QED
        BY <1>1, <4>4, <4>5, <4>6
    <3>4. DOMAIN poolTable' = PoolDescriptor /\ poolTable'[new] = use
          /\ \A d \in PoolDescriptor : d # new => poolTable'[d] = poolTable[d]
      BY <3>1, <3>2 DEF Opened
    <3>5. ASSUME ~shared, NEW e \in Entry, IsOpen(entry[e].socket_)
          PROVE  poolTable'[entry[e].socket_] = poolTable[entry[e].socket_]
      <4>1. poolTable[entry[e].socket_] = <<"connection", e>> /\ entry[e].socket_ \in PoolDescriptor
        BY <3>5, InvalidIsNone DEF SocketPoolInv, ConnectionsKept, PoolTyped, EntryState
      <4>2. <<"connection", e>> # Free
        BY DEF Free
      <4> QED
        BY <3>2, <3>4, <4>1, <4>2
    <3> QED
      BY <3>1, <3>2, <3>3, <3>4, <3>5 DEF use
  <2> QED
    BY <2>1, <2>2
<1>3. /\ socket_' \in [PoolObject -> PoolFd] /\ currentServer_' \in [PoolObject -> Entry \cup {Nowhere}]
      /\ socket_'[p] = fd /\ currentServer_'[p] = order[i] /\ IsOpen(fd)
      /\ \A q \in PoolObject : q # p => socket_'[q] = socket_[q] /\ currentServer_'[q] = currentServer_[q]
  BY <1>1, <1>2, InvalidIsNone DEF SocketPoolInv, PoolTyped, PoolFd
<1>4. PoolTyped' /\ CurrentIsOwn'
  BY <1>1, <1>2, <1>3 DEF SocketPoolInv, PoolTyped, CurrentIsOwn
<1>5. ASSUME ~shared
      PROVE  EntriesApart' /\ ConnectionsKept' /\ SocketOfCurrent'
  <2>1. EntriesApart /\ ConnectionsKept /\ SocketOfCurrent
    BY <1>5 DEF SocketPoolInv
  <2>2. EntriesApart'
    BY <2>1 DEF EntriesApart
  <2>3. ConnectionsKept'
    BY <1>1, <1>2, <1>5, <2>1 DEF ConnectionsKept
  <2>4. ASSUME NEW q \in PoolObject, q # p, IsOpen(socket_'[q])
        PROVE  currentServer_'[q] \in servers_[q] /\ entry'[currentServer_'[q]].socket_ = socket_'[q]
    <3>1. /\ currentServer_[q] \in servers_[q] /\ entry[currentServer_[q]].socket_ = socket_[q]
          /\ currentServer_[q] # order[i] /\ currentServer_[q] \in Entry
      BY <1>1, <1>3, <2>1, <2>4 DEF SocketOfCurrent, EntriesApart, SocketPoolInv, PoolTyped
    <3> QED
      BY <1>2, <1>3, <2>4, <3>1
  <2> QED
    BY <1>1, <1>2, <1>3, <2>2, <2>3, <2>4 DEF SocketOfCurrent
<1> QED
  BY <1>4, <1>5 DEF SocketPoolInv

LEMMA OpenThrowsKept ==
  ASSUME SocketPoolInv, NEW p \in PoolObject, servers_[p] # {}, ~IsOpen(socket_[p]), NEW order \in Orders(p),
         OpenThrows(p, order), UNCHANGED <<servers_, now, shared>>
  PROVE  SocketPoolInv'
<1>1. servers_[p] \subseteq Entry /\ IsFiniteSet(servers_[p])
  BY SocketPoolAssumption, FS_Subset DEF SocketPoolInv, PoolTyped
<1>2. Cardinality(servers_[p]) \in Nat /\ Cardinality(servers_[p]) # 0
  BY <1>1, FS_CardinalityType, FS_EmptySet
<1>3. order \in [1..Cardinality(servers_[p]) -> servers_[p]]
  BY DEF Orders, SetToSeqs
<1>4. Last(order) \in servers_[p]
  <2>1. order \in Seq(servers_[p]) /\ Len(order) = Cardinality(servers_[p])
    BY <1>2, <1>3
  <2> QED
    BY <1>2, <1>3, <2>1 DEF Last
<1>5. /\ currentServer_' = [currentServer_ EXCEPT ![p] = Last(order)]
      /\ entry' \in [Entry -> EntryState] /\ \A e \in Entry : entry'[e].socket_ = entry[e].socket_
      /\ UNCHANGED <<poolTable, socket_>>
  BY FailuresCounted DEF OpenThrows
<1>6. /\ currentServer_' \in [PoolObject -> Entry \cup {Nowhere}] /\ currentServer_'[p] = Last(order)
      /\ \A q \in PoolObject : q # p => currentServer_'[q] = currentServer_[q]
  BY <1>1, <1>4, <1>5 DEF SocketPoolInv, PoolTyped
<1>7. PoolTyped' /\ CurrentIsOwn'
  BY <1>4, <1>5, <1>6 DEF SocketPoolInv, PoolTyped, CurrentIsOwn
<1>8. ASSUME ~shared
      PROVE  EntriesApart' /\ ConnectionsKept' /\ SocketOfCurrent'
  <2>1. SocketOfCurrent'
    <3>1. ASSUME NEW q \in PoolObject, IsOpen(socket_[q])
          PROVE  q # p /\ currentServer_[q] \in servers_[q] /\ currentServer_[q] \in Entry
                 /\ entry[currentServer_[q]].socket_ = socket_[q]
      BY <1>8, <3>1 DEF SocketPoolInv, SocketOfCurrent, PoolTyped
    <3> QED
      BY <1>5, <1>6, <3>1 DEF SocketOfCurrent
  <2> QED
    BY <1>5, <1>8, <2>1 DEF SocketPoolInv, EntriesApart, ConnectionsKept
<1> QED
  BY <1>7, <1>8 DEF SocketPoolInv

LEMMA OpenPoolKept ==
  ASSUME SocketPoolInv, NEW p \in PoolObject, OpenPool(p)
  PROVE  SocketPoolInv'
<1>1. servers_[p] # {} /\ ~IsOpen(socket_[p]) /\ UNCHANGED <<servers_, now, shared>>
  BY DEF OpenPool
<1>2. \E order \in Orders(p) :
        \/ OpenThrows(p, order)
        \/ \E i \in DOMAIN order :
             \/ OpenFinds(p, order, i)
             \/ IsOpen(Lowest(poolTable)) /\ ~IsOpen(entry[order[i]].socket_) /\ OpenConnects(p, order, i)
  BY DEF OpenPool, Connects
<1> QED
  BY <1>1, <1>2, OpenKept, OpenThrowsKept

\* What is closed are connections of the pool's own entries.
LEMMA PoolClosedKept ==
  ASSUME SocketPoolInv, NEW p \in PoolObject, NEW E \in SUBSET servers_[p], NEW fds \in SUBSET PoolFd,
         poolTable' = Closed(poolTable, fds),
         ~shared => \A fd \in fds : IsOpen(fd) => \E e \in E : fd = entry[e].socket_,
         entry' \in [Entry -> EntryState],
         \A e \in Entry : entry'[e].socket_ = IF e \in E THEN THRIFT_INVALID_SOCKET ELSE entry[e].socket_,
         socket_' = [socket_ EXCEPT ![p] = THRIFT_INVALID_SOCKET],
         \/ UNCHANGED <<servers_, currentServer_>>
         \/ /\ servers_' = [servers_ EXCEPT ![p] = {}]
            /\ currentServer_' = [currentServer_ EXCEPT ![p] = Nowhere],
         UNCHANGED <<now, shared>>
  PROVE  SocketPoolInv'
<1>1. /\ socket_' \in [PoolObject -> PoolFd] /\ socket_'[p] = THRIFT_INVALID_SOCKET
      /\ servers_' \in [PoolObject -> SUBSET Entry] /\ currentServer_' \in [PoolObject -> Entry \cup {Nowhere}]
      /\ \A q \in PoolObject : q # p => /\ socket_'[q] = socket_[q] /\ servers_'[q] = servers_[q]
                                        /\ currentServer_'[q] = currentServer_[q]
      /\ servers_'[p] \subseteq servers_[p] /\ currentServer_'[p] \in servers_'[p] \cup {Nowhere}
  BY DEF SocketPoolInv, PoolTyped, CurrentIsOwn, PoolFd
<1>2. /\ DOMAIN poolTable = PoolDescriptor /\ DOMAIN poolTable' = PoolDescriptor
      /\ \A d \in PoolDescriptor : d \notin fds => poolTable'[d] = poolTable[d]
  BY DEF Closed, SocketPoolInv, PoolTyped
<1>3. PoolTyped' /\ CurrentIsOwn'
  BY <1>1, <1>2 DEF SocketPoolInv, PoolTyped, CurrentIsOwn
<1>4. ASSUME ~shared
      PROVE  EntriesApart' /\ ConnectionsKept' /\ SocketOfCurrent'
  <2>1. EntriesApart /\ ConnectionsKept /\ SocketOfCurrent
    BY <1>4 DEF SocketPoolInv
  <2>2. EntriesApart'
    BY <1>1, <2>1 DEF EntriesApart
  <2>3. ASSUME NEW e \in Entry, IsOpen(entry'[e].socket_)
        PROVE  poolTable'[entry'[e].socket_] = <<"connection", e>>
    <3>1. e \notin E /\ entry'[e].socket_ = entry[e].socket_
      BY <2>3 DEF IsOpen
    <3>2. poolTable[entry[e].socket_] = <<"connection", e>> /\ entry[e].socket_ \in PoolDescriptor
      BY <2>1, <2>3, <3>1, InvalidIsNone DEF ConnectionsKept, SocketPoolInv, PoolTyped, EntryState
    <3>3. ASSUME NEW x \in E, entry[e].socket_ = entry[x].socket_
          PROVE  FALSE
      <4>1. x \in Entry /\ poolTable[entry[x].socket_] = <<"connection", x>>
        BY <2>1, <2>3, <3>1, <3>3 DEF ConnectionsKept, SocketPoolInv, PoolTyped
      <4> QED
        BY <3>1, <3>2, <3>3, <4>1
    <3>4. entry[e].socket_ \notin fds
      BY <1>4, <2>3, <3>1, <3>3
    <3> QED
      BY <1>2, <3>1, <3>2, <3>4
  <2>4. ASSUME NEW q \in PoolObject, IsOpen(socket_'[q])
        PROVE  currentServer_'[q] \in servers_'[q] /\ entry'[currentServer_'[q]].socket_ = socket_'[q]
    <3>1. q # p /\ socket_'[q] = socket_[q]
      BY <1>1, <2>4 DEF IsOpen
    <3>2. /\ currentServer_[q] \in servers_[q] /\ entry[currentServer_[q]].socket_ = socket_[q]
          /\ currentServer_[q] \in Entry /\ currentServer_[q] \notin servers_[p]
      BY <2>1, <2>4, <3>1 DEF SocketOfCurrent, EntriesApart, SocketPoolInv, PoolTyped
    <3> QED
      BY <1>1, <3>1, <3>2
  <2> QED
    BY <2>2, <2>3, <2>4 DEF ConnectionsKept, SocketOfCurrent
<1> QED
  BY <1>3, <1>4 DEF SocketPoolInv

LEMMA ClosePoolKept ==
  ASSUME SocketPoolInv, NEW p \in PoolObject, ClosePool(p)
  PROVE  SocketPoolInv'
<1>1. /\ currentServer_[p] \in servers_[p] /\ currentServer_[p] \in Entry
      /\ poolTable' = Closed(poolTable, {socket_[p]})
      /\ socket_' = [socket_ EXCEPT ![p] = THRIFT_INVALID_SOCKET]
      /\ entry' = [entry EXCEPT ![currentServer_[p]].socket_ = THRIFT_INVALID_SOCKET]
      /\ UNCHANGED <<servers_, currentServer_, now, shared>>
  BY DEF ClosePool, EntryForgets, SocketPoolInv, CurrentIsOwn, PoolTyped
<1>2. /\ entry' \in [Entry -> EntryState]
      /\ \A e \in Entry : entry'[e].socket_ = IF e \in {currentServer_[p]} THEN THRIFT_INVALID_SOCKET
                                              ELSE entry[e].socket_
  BY <1>1 DEF SocketPoolInv, PoolTyped, EntryState, PoolFd
<1>3. {socket_[p]} \in SUBSET PoolFd /\ {currentServer_[p]} \in SUBSET servers_[p]
  BY <1>1 DEF SocketPoolInv, PoolTyped
<1>4. ~shared => \A fd \in {socket_[p]} :
                   IsOpen(fd) => \E e \in {currentServer_[p]} : fd = entry[e].socket_
  BY DEF SocketPoolInv, SocketOfCurrent
<1> QED
  BY <1>1, <1>2, <1>3, <1>4, PoolClosedKept

LEMMA DestroyKept ==
  ASSUME SocketPoolInv, NEW p \in PoolObject, Destroy(p)
  PROVE  SocketPoolInv'
<1> DEFINE fds == {entry[e].socket_ : e \in servers_[p]}
<1>1. /\ poolTable' = Closed(poolTable, fds)
      /\ entry' = [e \in Entry |-> IF e \in servers_[p]
                                   THEN [entry[e] EXCEPT !.socket_ = THRIFT_INVALID_SOCKET] ELSE entry[e]]
      /\ servers_' = [servers_ EXCEPT ![p] = {}]
      /\ currentServer_' = [currentServer_ EXCEPT ![p] = Nowhere]
      /\ socket_' = [socket_ EXCEPT ![p] = THRIFT_INVALID_SOCKET]
      /\ UNCHANGED <<now, shared>>
  BY DEF Destroy
<1>2. servers_[p] \in SUBSET Entry /\ entry \in [Entry -> EntryState]
  BY DEF SocketPoolInv, PoolTyped
<1>3. /\ entry' \in [Entry -> EntryState]
      /\ \A e \in Entry : entry'[e].socket_ = IF e \in servers_[p] THEN THRIFT_INVALID_SOCKET
                                              ELSE entry[e].socket_
  BY <1>1, <1>2 DEF EntryState, PoolFd
<1>4. fds \in SUBSET PoolFd /\ \A fd \in fds : \E e \in servers_[p] : fd = entry[e].socket_
  BY <1>2 DEF EntryState
<1>5. servers_[p] \in SUBSET servers_[p]
  OBVIOUS
<1> HIDE DEF fds
<1> QED
  BY <1>1, <1>3, <1>4, <1>5, PoolClosedKept

LEMMA SocketPoolInvKept == SocketPoolInv /\ [SocketPoolNext]_socketPoolVars => SocketPoolInv'
<1> SUFFICES ASSUME SocketPoolInv, [SocketPoolNext]_socketPoolVars
             PROVE  SocketPoolInv'
  OBVIOUS
<1>1. CASE Tick \/ UNCHANGED socketPoolVars
  <2>1. /\ UNCHANGED <<poolTable, servers_, currentServer_, socket_, entry, shared>>
        /\ now' = now \/ now' = now + 1
    BY <1>1 DEF Tick, socketPoolVars
  <2> QED
    BY <2>1 DEF SocketPoolInv, PoolTyped, CurrentIsOwn, EntriesApart, ConnectionsKept, SocketOfCurrent
<1>2. ASSUME NEW p \in PoolObject, OpenWithoutServers(p)
      PROVE  SocketPoolInv'
  <2>1. /\ socket_' = [socket_ EXCEPT ![p] = THRIFT_INVALID_SOCKET]
        /\ UNCHANGED <<poolTable, servers_, currentServer_, entry, now, shared>>
    BY <1>2 DEF OpenWithoutServers
  <2>2. /\ socket_' \in [PoolObject -> PoolFd] /\ ~IsOpen(socket_'[p])
        /\ \A q \in PoolObject : q # p => socket_'[q] = socket_[q]
    BY <2>1 DEF SocketPoolInv, PoolTyped, PoolFd, IsOpen
  <2> QED
    BY <2>1, <2>2 DEF SocketPoolInv, PoolTyped, CurrentIsOwn, EntriesApart, ConnectionsKept, SocketOfCurrent
<1> QED
  BY <1>1, <1>2, AddServerKept, OpenPoolKept, ClosePoolKept, DestroyKept DEF SocketPoolNext

LEMMA SocketPoolInvConnects == SocketPoolInv => ConnectedToCurrent
<1> SUFFICES ASSUME SocketPoolInv, ~shared, NEW p \in PoolObject, IsOpen(socket_[p])
             PROVE  /\ poolTable[socket_[p]] = <<"connection", currentServer_[p]>>
                    /\ \A q \in PoolObject \ {p} : socket_[q] # socket_[p]
  BY DEF ConnectedToCurrent
<1>1. ASSUME NEW q \in PoolObject, IsOpen(socket_[q])
      PROVE  /\ currentServer_[q] \in servers_[q]
             /\ poolTable[socket_[q]] = <<"connection", currentServer_[q]>>
  BY <1>1 DEF SocketPoolInv, PoolTyped, ConnectionsKept, SocketOfCurrent
<1>2. ASSUME NEW q \in PoolObject \ {p}, socket_[q] = socket_[p]
      PROVE  FALSE
  <2>1. currentServer_[q] = currentServer_[p]
    BY <1>1, <1>2
  <2> QED
    BY <1>1, <1>2, <2>1 DEF SocketPoolInv, EntriesApart
<1> QED
  BY <1>1, <1>2

LEMMA PoolsStayConnected == SocketPoolSpec => []ConnectedToCurrent
BY SocketPoolStarts, SocketPoolInvKept, SocketPoolInvConnects, PTL DEF SocketPoolSpec

-----------------------------------------------------------------------------
\* Named and anonymous pipes: the inductive invariant.

PipeEnds == [Pipe -> [handle : {"unused", "open", "closed"}, client : {"none", "open", "closed"}]]
ObjectState == [alive : BOOLEAN, read : {"none", "pending", "done", "failed", "refused"},
                buffer : Seq(Nat), begin : Nat, end : Nat]
PipeObjects == [Pipe -> ObjectState]

PipesTyped ==
  /\ instance \in PipeEnds /\ object \in PipeObjects
  /\ inPipe \in [Pipe -> Seq(Nat)] /\ spoken \in [Pipe -> Nat]
  /\ Pipe_ \in Pipe \cup {Invalid} /\ cached_client_ \in Pipe \cup {Invalid}
  /\ accepting \in {"closed", "idle", "waits", "connected", "aborted", "ends"}
  /\ impl_ \in {"none", "named"} /\ stopping_ \in BOOLEAN /\ listen_event_ \in BOOLEAN /\ late \in {-1, 0, 1}

\* The open handles are the next instance's and the transports', and only these read.
HandlesOwned(ends, objects, next) ==
  \A p \in Pipe :
    /\ ends[p].handle = "open" <=> next = p \/ objects[p].alive
    /\ ~(next = p /\ objects[p].alive)
    /\ objects[p].read = "pending" => objects[p].alive /\ UnderWay(objects[p])

CachedWaits(objects, cached) == cached = Invalid \/ objects[cached].alive

\* The server is there while it accepts; while it waits for a client no other one has been kept.
ServerStates ==
  /\ impl_ = "none" <=> accepting = "closed"
  /\ accepting = "closed" => Pipe_ = Invalid /\ cached_client_ = Invalid
  /\ accepting \in {"waits", "connected"} => Pipe_ # Invalid
  /\ accepting \in {"waits", "connected", "aborted"} => cached_client_ = Invalid
  /\ interrupter = "inside" => impl_ = "named" /\ accepting # "ends" /\ connectOverlap_ # "undefined"

\* After an interrupt no client is kept, and the server is stopping unless it waits for none.
InterruptSeen ==
  late # -1 /\ impl_ = "named" =>
    /\ cached_client_ = Invalid /\ (Pipe_ = Invalid \/ stopping_)
    /\ late = 1 => Pipe_ = Invalid

AnonOwned == ~anonServer => \A h \in DOMAIN anonHandle : anonHandle[h] # "open"

PipesInv ==
  /\ PipesTyped /\ HandlesOwned(instance, object, Pipe_) /\ CachedWaits(object, cached_client_)
  /\ ServerStates /\ InterruptSeen /\ ListenEventTells /\ AnonOwned

LEMMA NoPipe == Invalid \notin Pipe
BY PipesAssumption DEF Pipe, Invalid

LEMMA NoObjectTyped ==
  /\ NoObject \in ObjectState /\ NoObject.begin = NoObject.end /\ NoObject.read = "none" /\ ~NoObject.alive
  /\ \A r \in {"none", "pending", "done", "failed", "refused"} :
       LET o == [NoObject EXCEPT !.read = r]
       IN o \in ObjectState /\ o.begin = o.end /\ o.read = r /\ ~o.alive
<1>1. << >> \in Seq(Nat)
  OBVIOUS
<1> QED
  BY <1>1 DEF NoObject, ObjectState

LEMMA ReadingTyped ==
  ASSUME NEW r \in {"pending", "refused"}
  PROVE  LET o == [NoObject EXCEPT !.alive = TRUE, !.read = r]
         IN o \in ObjectState /\ o.begin = o.end /\ o.read = r /\ o.alive
<1> DEFINE q == [NoObject EXCEPT !.alive = TRUE]
           o == [NoObject EXCEPT !.alive = TRUE, !.read = r]
<1>1. << >> \in Seq(Nat)
  OBVIOUS
<1>2. q \in ObjectState /\ q.begin = q.end /\ q.alive
  BY <1>1 DEF NoObject, ObjectState
<1>3. o = [q EXCEPT !.read = r]
  OBVIOUS
<1> HIDE DEF q, o
<1>4. o \in ObjectState /\ o.begin = o.end /\ o.read = r /\ o.alive
  BY <1>2, <1>3 DEF ObjectState
<1> QED
  BY <1>4 DEF o

\* What closing and destroying do to the two ends of an instance and to its object.
LEMMA ClosedFacts ==
  ASSUME NEW ends \in PipeEnds, NEW p \in Pipe \cup {Invalid}
  PROVE  /\ HandleClosed(ends, p) \in PipeEnds
         /\ \A q \in Pipe : /\ HandleClosed(ends, p)[q].handle = IF q = p THEN "closed" ELSE ends[q].handle
                            /\ HandleClosed(ends, p)[q].client = ends[q].client
BY NoPipe DEF HandleClosed, PipeEnds

LEMMA DestroyedFacts ==
  ASSUME NEW objects \in PipeObjects, NEW p \in Pipe \cup {Invalid},
         p # Invalid /\ objects[p].read = "pending" => UnderWay(objects[p])
  PROVE  /\ Destroyed(objects, p) \in PipeObjects
         /\ \A q \in Pipe : q # p => Destroyed(objects, p)[q] = objects[q]
         /\ p # Invalid => /\ ~Destroyed(objects, p)[p].alive
                           /\ Destroyed(objects, p)[p].read # "pending"
<1>1. CASE p = Invalid
  BY <1>1, NoPipe DEF Destroyed
<1>2. CASE p # Invalid
  <2>1. p \in Pipe /\ objects[p] \in ObjectState
    BY <1>2 DEF PipeObjects
  <2> DEFINE r == IF UnderWay(objects[p]) THEN "none" ELSE objects[p].read
             o == [NoObject EXCEPT !.read = r]
  <2>2. r \in {"none", "pending", "done", "failed", "refused"} /\ r # "pending"
    BY <1>2, <2>1 DEF ObjectState
  <2>3. o \in ObjectState /\ o.read = r /\ ~o.alive
    BY <2>2, NoObjectTyped
  <2>4. Destroyed(objects, p) = [objects EXCEPT ![p] = o]
    BY <1>2 DEF Destroyed
  <2> HIDE DEF o
  <2> QED
    BY <2>1, <2>2, <2>3, <2>4 DEF PipeObjects
<1> QED
  BY <1>1, <1>2

LEMMA ConstructedFacts ==
  ASSUME NEW objects \in PipeObjects, NEW p \in Pipe
  PROVE  /\ TransportConstructed(objects, p) \in PipeObjects
         /\ \A q \in Pipe : q # p => TransportConstructed(objects, p)[q] = objects[q]
         /\ TransportConstructed(objects, p)[p].alive
         /\ UnderWay(TransportConstructed(objects, p)[p])
<1> DEFINE o == [NoObject EXCEPT !.alive = TRUE, !.read = "pending"]
<1>1. o \in ObjectState /\ o.begin = o.end /\ o.alive
  BY ReadingTyped
<1>2. TransportConstructed(objects, p) = [objects EXCEPT ![p] = o]
  BY DEF TransportConstructed
<1> HIDE DEF o
<1> QED
  BY <1>1, <1>2 DEF PipeObjects, UnderWay

\* The client that has been kept is let go, with its handle.
LEMMA LetGo ==
  ASSUME NEW ends \in PipeEnds, NEW objects \in PipeObjects, NEW next \in Pipe \cup {Invalid},
         NEW cached \in Pipe \cup {Invalid}, HandlesOwned(ends, objects, next), CachedWaits(objects, cached)
  PROVE  /\ HandleClosed(ends, cached) \in PipeEnds /\ Destroyed(objects, cached) \in PipeObjects
         /\ HandlesOwned(HandleClosed(ends, cached), Destroyed(objects, cached), next)
<1>1. cached # Invalid => cached \in Pipe /\ objects[cached].alive /\ next # cached
  BY DEF HandlesOwned, CachedWaits
<1>2. /\ HandleClosed(ends, cached) \in PipeEnds
      /\ \A q \in Pipe : HandleClosed(ends, cached)[q].handle = IF q = cached THEN "closed" ELSE ends[q].handle
  BY ClosedFacts
<1>3. cached # Invalid /\ objects[cached].read = "pending" => UnderWay(objects[cached])
  BY <1>1 DEF HandlesOwned
<1>4. /\ Destroyed(objects, cached) \in PipeObjects
      /\ \A q \in Pipe : q # cached => Destroyed(objects, cached)[q] = objects[q]
      /\ cached # Invalid => /\ ~Destroyed(objects, cached)[cached].alive
                             /\ Destroyed(objects, cached)[cached].read # "pending"
  BY <1>3, DestroyedFacts
<1>5. ASSUME NEW p \in Pipe
      PROVE  LET e == HandleClosed(ends, cached)[p]
                 o == Destroyed(objects, cached)[p]
             IN /\ e.handle = "open" <=> next = p \/ o.alive
                /\ ~(next = p /\ o.alive)
                /\ o.read = "pending" => o.alive /\ UnderWay(o)
  <2>1. CASE p = cached
    BY <2>1, <1>1, <1>2, <1>4, NoPipe
  <2>2. CASE p # cached
    BY <2>2, <1>2, <1>4 DEF HandlesOwned
  <2> QED
    BY <2>1, <2>2
<1> QED
  BY <1>2, <1>4, <1>5 DEF HandlesOwned

\* The next instance.
LEMMA InitiateKept ==
  ASSUME NEW old \in Pipe \cup {Invalid}, NEW cached \in Pipe \cup {Invalid}, NEW ends \in PipeEnds,
         NEW objects \in PipeObjects, NEW threw \in BOOLEAN, HandlesOwned(ends, objects, old), CachedWaits(objects, cached),
         InitiateNamedConnect(old, cached, ends, objects, threw)
  PROVE  /\ instance' \in PipeEnds /\ object' \in PipeObjects /\ Pipe_' \in Pipe \cup {Invalid}
         /\ cached_client_' \in Pipe \cup {Invalid}
         /\ HandlesOwned(instance', object', Pipe_') /\ CachedWaits(object', cached_client_')
         /\ \/ UNCHANGED <<connectOverlap_, listen_event_>> /\ cached_client_' = cached
            \/ /\ ~stopping_ /\ listen_event_' = TRUE /\ connectOverlap_' = "none"
            \/ /\ ~stopping_ /\ listen_event_' = FALSE /\ cached_client_' = cached
         /\ stopping_ => Pipe_' = old /\ cached_client_' = cached
<1>1. CASE NoMore /\ ~threw
  <2>1. /\ Pipe_' = old /\ cached_client_' = cached /\ instance' = ends /\ object' = objects
        /\ UNCHANGED <<connectOverlap_, listen_event_>>
    BY <1>1 DEF InitiateNamedConnect
  <2> QED
    BY <2>1
<1>2. CASE /\ ~NoMore /\ threw /\ CreateFails(old, ends) /\ cached_client_' = cached /\ object' = objects
           /\ UNCHANGED <<connectOverlap_, listen_event_>>
  <2>1. CASE Pipe_' = old /\ instance' = ends
    BY <1>2, <2>1 DEF NoMore
  <2>2. CASE Pipe_' = Invalid /\ instance' = HandleClosed(ends, old)
    <3>1. /\ instance' \in PipeEnds
          /\ \A q \in Pipe : instance'[q].handle = IF q = old THEN "closed" ELSE ends[q].handle
      BY <2>2, ClosedFacts
    <3>2. HandlesOwned(instance', objects, Invalid)
      BY <3>1, NoPipe DEF HandlesOwned
    <3> QED
      BY <1>2, <2>2, <3>1, <3>2 DEF NoMore
  <2> QED
    BY <1>2, <2>1, <2>2 DEF CreateFails
<1>3. ASSUME ~NoMore, NEW p \in Pipe, NEW found \in {"none", "open", "closed"},
             CreateNamedPipe(old, ends, p, found), listen_event_' = (found = "open"),
             IF found = "open"
             THEN /\ cached_client_' = p /\ Pipe_' = Invalid
                  /\ object' = TransportConstructed(objects, p) /\ connectOverlap_' = "none"
             ELSE /\ cached_client_' = cached /\ Pipe_' = p /\ object' = objects
                  /\ connectOverlap_' = IF found = "none" THEN "pending" ELSE "undefined"
      PROVE  /\ instance' \in PipeEnds /\ object' \in PipeObjects /\ Pipe_' \in Pipe \cup {Invalid}
             /\ cached_client_' \in Pipe \cup {Invalid}
             /\ HandlesOwned(instance', object', Pipe_') /\ CachedWaits(object', cached_client_')
             /\ \/ /\ ~stopping_ /\ listen_event_' = TRUE /\ connectOverlap_' = "none"
                \/ /\ ~stopping_ /\ listen_event_' = FALSE /\ cached_client_' = cached
             /\ ~stopping_
  <2>1. /\ ends[p].handle = "unused" /\ p # old /\ p # Invalid /\ ~objects[p].alive
        /\ objects[p].read # "pending"
    BY <1>3, NoPipe DEF CreateNamedPipe, HandlesOwned
  <2>2. /\ HandleClosed(ends, old) \in PipeEnds
        /\ \A q \in Pipe : HandleClosed(ends, old)[q].handle = IF q = old THEN "closed" ELSE ends[q].handle
    BY ClosedFacts
  <2> DEFINE new == [handle |-> "open", client |-> found]
  <2>3. new \in [handle : {"unused", "open", "closed"}, client : {"none", "open", "closed"}] /\ new.handle = "open"
    OBVIOUS
  <2>4. instance' = [HandleClosed(ends, old) EXCEPT ![p] = new]
    BY <1>3 DEF CreateNamedPipe
  <2> HIDE DEF new
  <2>5. /\ instance' \in PipeEnds
        /\ \A q \in Pipe : instance'[q].handle = IF q = p THEN "open"
                                                 ELSE IF q = old THEN "closed" ELSE ends[q].handle
    BY <2>2, <2>3, <2>4 DEF PipeEnds
  <2>6. CASE found = "open"
    <3>1. /\ object' \in PipeObjects /\ object'[p].alive /\ UnderWay(object'[p])
          /\ \A q \in Pipe : q # p => object'[q] = objects[q]
      BY <1>3, <2>6, ConstructedFacts, SMTT(60)
    <3>2. HandlesOwned(instance', object', Invalid)
      <4> SUFFICES ASSUME NEW q \in Pipe
                   PROVE  /\ instance'[q].handle = "open" <=> Invalid = q \/ object'[q].alive
                          /\ ~(Invalid = q /\ object'[q].alive)
                          /\ object'[q].read = "pending" => object'[q].alive /\ UnderWay(object'[q])
        BY DEF HandlesOwned
      <4>1. CASE q = p
        BY <4>1, <2>1, <2>5, <3>1
      <4>2. CASE q # p
        <5>1. object'[q] = objects[q] /\ Invalid # q
          BY <4>2, <3>1, NoPipe
        <5> QED
          BY <4>2, <5>1, <2>5 DEF HandlesOwned
      <4> QED
        BY <4>1, <4>2
    <3> QED
      BY <1>3, <2>5, <2>6, <3>1, <3>2 DEF CachedWaits, NoMore
  <2>7. CASE found # "open"
    <3>1. HandlesOwned(instance', objects, p)
      <4> SUFFICES ASSUME NEW q \in Pipe
                   PROVE  /\ instance'[q].handle = "open" <=> p = q \/ objects[q].alive
                          /\ ~(p = q /\ objects[q].alive)
                          /\ objects[q].read = "pending" => objects[q].alive /\ UnderWay(objects[q])
        BY DEF HandlesOwned
      <4> QED
        BY <2>1, <2>5 DEF HandlesOwned
    <3> QED
      BY <1>3, <2>5, <2>7, <3>1 DEF NoMore
  <2> QED
    BY <2>6, <2>7
<1> QED
  BY <1>1, <1>2, <1>3 DEF InitiateNamedConnect, NoMore

\* Nothing changes but a client's end, or an object that keeps who owns it.
LEMMA OwnersStay ==
  ASSUME NEW ends, NEW objects, NEW endsNew, NEW objectsNew, NEW next, HandlesOwned(ends, objects, next),
         \A q \in Pipe : endsNew[q].handle = ends[q].handle,
         \A q \in Pipe : /\ objectsNew[q].alive = objects[q].alive
                         /\ objectsNew[q].read = "pending" => objectsNew[q].alive /\ UnderWay(objectsNew[q])
  PROVE  HandlesOwned(endsNew, objectsNew, next)
BY DEF HandlesOwned

LEMMA PipesInvInit == PipesInit => PipesInv
<1> SUFFICES ASSUME PipesInit PROVE PipesInv
  OBVIOUS
<1> DEFINE r == [handle |-> "unused", client |-> "none"]
<1>1. r \in [handle : {"unused", "open", "closed"}, client : {"none", "open", "closed"}] /\ r.handle = "unused"
  OBVIOUS
<1>2. instance = [p \in Pipe |-> r] /\ object = [p \in Pipe |-> NoObject]
  BY DEF PipesInit
<1> HIDE DEF r
<1>3. << >> \in Seq(Nat)
  OBVIOUS
<1>4. PipesTyped
  BY <1>1, <1>2, <1>3, NoObjectTyped DEF PipesInit, PipesTyped, PipeEnds, PipeObjects
<1>5. HandlesOwned(instance, object, Pipe_)
  BY <1>1, <1>2, NoObjectTyped, NoPipe DEF PipesInit, HandlesOwned
<1>6. ServerStates /\ InterruptSeen /\ ListenEventTells /\ CachedWaits(object, cached_client_) /\ AnonOwned
  BY DEF PipesInit, ServerStates, InterruptSeen, ListenEventTells, CachedWaits, AnonOwned, Invalid
<1> QED
  BY <1>4, <1>5, <1>6 DEF PipesInv

\* The server goes on with its next instance, and has kept no other client.
LEMMA GoesOn ==
  ASSUME PipesInv, LockFree, NEW old \in Pipe \cup {Invalid}, NEW ends \in PipeEnds, NEW objects \in PipeObjects,
         NEW threw \in BOOLEAN, HandlesOwned(ends, objects, old),
         InitiateNamedConnect(old, Invalid, ends, objects, threw),
         cached_client_ # Invalid => listen_event_,
         impl_' = "named", accepting' \in {"idle", "ends"}, late' \in {-1, 0, 1},
         late' # -1 => stopping_ /\ (late' = 1 => old = Invalid),
         UNCHANGED <<stopping_, interrupter, interruptCalls, streamVars, anonVars>>
  PROVE  PipesInv'
<1>1. CachedWaits(objects, Invalid) /\ Invalid \in Pipe \cup {Invalid}
  BY DEF CachedWaits
<1>2. /\ instance' \in PipeEnds /\ object' \in PipeObjects /\ Pipe_' \in Pipe \cup {Invalid}
      /\ cached_client_' \in Pipe \cup {Invalid}
      /\ HandlesOwned(instance', object', Pipe_') /\ CachedWaits(object', cached_client_')
      /\ \/ UNCHANGED <<connectOverlap_, listen_event_>> /\ cached_client_' = Invalid
         \/ /\ ~stopping_ /\ listen_event_' = TRUE /\ connectOverlap_' = "none"
         \/ /\ ~stopping_ /\ listen_event_' = FALSE /\ cached_client_' = Invalid
      /\ stopping_ => Pipe_' = old /\ cached_client_' = Invalid
  BY <1>1, InitiateKept
<1>3. PipesTyped'
  BY <1>2 DEF PipesInv, PipesTyped, streamVars
<1>4. HandlesOwned(instance, object, Pipe_)' /\ CachedWaits(object, cached_client_)'
  BY <1>2 DEF HandlesOwned, CachedWaits, UnderWay
<1>5. ServerStates'
  BY DEF LockFree, ServerStates
<1>6. InterruptSeen'
  BY <1>2 DEF InterruptSeen
<1>7. ListenEventTells'
  BY <1>2 DEF PipesInv, ListenEventTells
<1>8. AnonOwned'
  BY DEF PipesInv, AnonOwned, anonVars
<1> QED
  BY <1>3, <1>4, <1>5, <1>6, <1>7, <1>8 DEF PipesInv

LEMMA ListenPipeKept == PipesInv /\ ListenPipe => PipesInv'
<1> SUFFICES ASSUME PipesInv, ListenPipe PROVE PipesInv'
  OBVIOUS
<1>1. Pipe_ = Invalid /\ cached_client_ = Invalid
  BY DEF ListenPipe, PipesInv, ServerStates
<1>2. HandlesOwned(instance, object, Invalid)
  BY <1>1 DEF PipesInv
<1>3. instance \in PipeEnds /\ object \in PipeObjects /\ Invalid \in Pipe \cup {Invalid} /\ FALSE \in BOOLEAN
  BY DEF PipesInv, PipesTyped
<1>4. /\ LockFree /\ InitiateNamedConnect(Invalid, Invalid, instance, object, FALSE)
      /\ impl_' = "named" /\ accepting' \in {"idle", "ends"} /\ late' = -1
      /\ UNCHANGED <<stopping_, interrupter, interruptCalls, streamVars, anonVars>>
  BY DEF ListenPipe
<1> QED
  BY <1>1, <1>2, <1>3, <1>4, GoesOn

LEMMA AcceptCachedKept == PipesInv /\ AcceptCached => PipesInv'
<1> SUFFICES ASSUME PipesInv, AcceptCached PROVE PipesInv'
  OBVIOUS
<1>1. /\ LockFree /\ cached_client_ # Invalid /\ listen_event_ /\ impl_ = "named" /\ late = -1
      /\ impl_' = "named"
      /\ UNCHANGED <<stopping_, interrupter, interruptCalls, streamVars, anonVars>>
  BY DEF AcceptCached, PipesInv, ListenEventTells, InterruptSeen
<1>2. /\ instance \in PipeEnds /\ object \in PipeObjects /\ Pipe_ \in Pipe \cup {Invalid}
      /\ cached_client_ \in Pipe \cup {Invalid}
      /\ HandlesOwned(instance, object, Pipe_) /\ CachedWaits(object, cached_client_)
  BY DEF PipesInv, PipesTyped
<1>3. CASE /\ InitiateNamedConnect(Pipe_, Invalid, instance, object, FALSE)
           /\ CountAccepted /\ accepting' = "idle"
  <2>1. late' = -1
    BY <1>1, <1>3 DEF CountAccepted
  <2> QED
    BY <1>1, <1>2, <1>3, <2>1, GoesOn
<1>4. CASE /\ InitiateNamedConnect(Pipe_, Invalid, HandleClosed(instance, cached_client_),
                                   Destroyed(object, cached_client_), TRUE)
           /\ accepting' = "ends" /\ UNCHANGED late
  <2>1. /\ HandleClosed(instance, cached_client_) \in PipeEnds /\ Destroyed(object, cached_client_) \in PipeObjects
        /\ HandlesOwned(HandleClosed(instance, cached_client_), Destroyed(object, cached_client_), Pipe_)
    BY <1>2, LetGo
  <2> QED
    BY <1>1, <1>2, <1>4, <2>1, GoesOn
<1> QED
  BY <1>3, <1>4 DEF AcceptCached

LEMMA AcceptConnectedKept == PipesInv /\ AcceptConnected => PipesInv'
<1> SUFFICES ASSUME PipesInv, AcceptConnected PROVE PipesInv'
  OBVIOUS
<1>1. /\ LockFree /\ cached_client_ = Invalid /\ Pipe_ # Invalid /\ impl_ = "named" /\ impl_' = "named"
      /\ UNCHANGED <<stopping_, interrupter, interruptCalls, streamVars, anonVars>>
      /\ late \in {-1, 0} /\ (late = 0 => stopping_)
  BY DEF AcceptConnected, PipesInv, ServerStates, InterruptSeen, PipesTyped
<1>2. /\ instance \in PipeEnds /\ object \in PipeObjects /\ Pipe_ \in Pipe /\ HandlesOwned(instance, object, Pipe_)
  BY <1>1 DEF PipesInv, PipesTyped
<1> DEFINE ours == TransportConstructed(object, Pipe_)
<1>3. /\ ours \in PipeObjects /\ \A q \in Pipe : q # Pipe_ => ours[q] = object[q]
      /\ ours[Pipe_].alive /\ UnderWay(ours[Pipe_])
  BY <1>2, ConstructedFacts
<1> HIDE DEF ours
<1>4. HandlesOwned(instance, ours, Invalid) /\ Invalid \in Pipe \cup {Invalid}
  <2>1. ASSUME NEW q \in Pipe
        PROVE  /\ instance[q].handle = "open" <=> Invalid = q \/ ours[q].alive
               /\ ~(Invalid = q /\ ours[q].alive)
               /\ ours[q].read = "pending" => ours[q].alive /\ UnderWay(ours[q])
    <3>1. CASE q = Pipe_
      BY <1>2, <1>3, <3>1, NoPipe DEF HandlesOwned
    <3>2. CASE q # Pipe_
      BY <1>2, <1>3, <3>2, NoPipe DEF HandlesOwned
    <3> QED
      BY <3>1, <3>2
  <2> QED
    BY <2>1 DEF HandlesOwned
<1>5. CASE InitiateNamedConnect(Invalid, Invalid, instance, ours, FALSE) /\ CountAccepted /\ accepting' = "idle"
  <2>1. late' \in {-1, 0, 1} /\ (late' # -1 => stopping_)
    BY <1>1, <1>5 DEF CountAccepted
  <2> QED
    BY <1>1, <1>2, <1>3, <1>4, <1>5, <2>1, GoesOn
<1>6. CASE /\ InitiateNamedConnect(Invalid, Invalid, HandleClosed(instance, Pipe_), Destroyed(ours, Pipe_), TRUE)
           /\ accepting' = "ends" /\ UNCHANGED late
  <2>1. CachedWaits(ours, Pipe_)
    BY <1>3 DEF CachedWaits
  <2>2. /\ HandleClosed(instance, Pipe_) \in PipeEnds /\ Destroyed(ours, Pipe_) \in PipeObjects
        /\ HandlesOwned(HandleClosed(instance, Pipe_), Destroyed(ours, Pipe_), Invalid)
    BY <1>2, <1>3, <1>4, <2>1, LetGo
  <2> QED
    BY <1>1, <1>4, <1>6, <2>2, GoesOn
<1>7. CASE \E threw \in BOOLEAN :
             /\ InitiateNamedConnect(Pipe_, Invalid, instance, object, threw)
             /\ accepting' = IF threw THEN "ends" ELSE "idle"
             /\ UNCHANGED late
  BY <1>1, <1>2, <1>7, GoesOn
<1> QED
  BY <1>1, <1>5, <1>6, <1>7 DEF AcceptConnected, ours

\* Only the thread that accepts takes a step of its own.
LEMMA AcceptingKept ==
  PipesInv /\ (AcceptWaits \/ ConnectEnds \/ AcceptAborted \/ InterruptReturns) => PipesInv'
<1> SUFFICES ASSUME PipesInv, AcceptWaits \/ ConnectEnds \/ AcceptAborted \/ InterruptReturns PROVE PipesInv'
  OBVIOUS
<1>1. UNCHANGED <<impl_, stopping_, Pipe_, cached_client_, connectOverlap_, listen_event_, interruptCalls, late,
                  instance, object, streamVars, anonVars>>
  BY DEF AcceptWaits, ConnectEnds, AcceptAborted, InterruptReturns, interruptVars, serverVars
<1>2. /\ PipesTyped' /\ HandlesOwned(instance, object, Pipe_)' /\ CachedWaits(object, cached_client_)'
      /\ InterruptSeen' /\ ListenEventTells' /\ AnonOwned'
  <2>1. accepting' \in {"closed", "idle", "waits", "connected", "aborted", "ends"}
    BY DEF PipesInv, PipesTyped, AcceptWaits, ConnectEnds, AcceptAborted, InterruptReturns, serverVars
  <2>2. PipesTyped'
    BY <1>1, <2>1 DEF PipesInv, PipesTyped, streamVars
  <2>3. HandlesOwned(instance, object, Pipe_)' /\ CachedWaits(object, cached_client_)'
    BY <1>1 DEF PipesInv, HandlesOwned, CachedWaits, UnderWay
  <2> QED
    BY <1>1, <2>2, <2>3 DEF PipesInv, InterruptSeen, ListenEventTells, AnonOwned, anonVars
<1>3. ServerStates'
  <2>1. CASE AcceptWaits
    BY <1>1, <2>1 DEF PipesInv, ServerStates, AcceptWaits, LockFree, interruptVars
  <2>2. CASE ConnectEnds
    BY <1>1, <2>2 DEF PipesInv, ServerStates, ConnectEnds, interruptVars
  <2>3. CASE AcceptAborted
    BY <1>1, <2>3 DEF PipesInv, ServerStates, AcceptAborted, Lets, LockFree, interruptVars
  <2>4. CASE InterruptReturns
    BY <1>1, <2>4 DEF PipesInv, ServerStates, InterruptReturns, serverVars
  <2> QED
    BY <2>1, <2>2, <2>3, <2>4
<1> QED
  BY <1>2, <1>3 DEF PipesInv

LEMMA ClosePipeServerKept == PipesInv /\ ClosePipeServer => PipesInv'
<1> SUFFICES ASSUME PipesInv, ClosePipeServer PROVE PipesInv'
  OBVIOUS
<1>1. /\ instance \in PipeEnds /\ object \in PipeObjects /\ Pipe_ \in Pipe \cup {Invalid}
      /\ cached_client_ \in Pipe \cup {Invalid}
      /\ HandlesOwned(instance, object, Pipe_) /\ CachedWaits(object, cached_client_)
  BY DEF PipesInv, PipesTyped
<1>2. /\ HandleClosed(instance, Pipe_) \in PipeEnds
      /\ \A q \in Pipe : HandleClosed(instance, Pipe_)[q].handle =
                           IF q = Pipe_ THEN "closed" ELSE instance[q].handle
  BY <1>1, ClosedFacts
<1>3. HandlesOwned(HandleClosed(instance, Pipe_), object, Invalid)
  BY <1>1, <1>2, NoPipe DEF HandlesOwned
<1>4. /\ instance' \in PipeEnds /\ object' \in PipeObjects /\ HandlesOwned(instance', object', Invalid)
  BY <1>1, <1>2, <1>3, LetGo DEF ClosePipeServer
<1>5. PipesTyped'
  BY <1>4 DEF PipesInv, PipesTyped, ClosePipeServer, streamVars, interruptVars
<1>6. HandlesOwned(instance, object, Pipe_)'
  BY <1>4 DEF ClosePipeServer, HandlesOwned, UnderWay, Invalid
<1>7. CachedWaits(object, cached_client_)' /\ InterruptSeen' /\ ListenEventTells'
  BY DEF ClosePipeServer, CachedWaits, InterruptSeen, ListenEventTells, Invalid
<1>8. ServerStates'
  BY DEF PipesInv, ServerStates, ClosePipeServer, interruptVars, Invalid
<1>9. AnonOwned'
  BY DEF PipesInv, ClosePipeServer, AnonOwned, anonVars
<1> QED
  BY <1>5, <1>6, <1>7, <1>8, <1>9 DEF PipesInv

LEMMA InterruptPipeKept == PipesInv /\ InterruptPipe => PipesInv'
<1> SUFFICES ASSUME PipesInv, InterruptPipe PROVE PipesInv'
  OBVIOUS
<1>1. /\ instance \in PipeEnds /\ object \in PipeObjects /\ Pipe_ \in Pipe \cup {Invalid}
      /\ cached_client_ \in Pipe \cup {Invalid}
      /\ HandlesOwned(instance, object, Pipe_) /\ CachedWaits(object, cached_client_)
  BY DEF PipesInv, PipesTyped
<1>2. /\ instance' \in PipeEnds /\ object' \in PipeObjects /\ HandlesOwned(instance', object', Pipe_)
  BY <1>1, LetGo DEF InterruptPipe
<1>3. PipesTyped'
  BY <1>2 DEF PipesInv, PipesTyped, InterruptPipe, streamVars, Invalid
<1>4. HandlesOwned(instance, object, Pipe_)'
  BY <1>2 DEF InterruptPipe, HandlesOwned, UnderWay
<1>5. CachedWaits(object, cached_client_)'
  BY DEF InterruptPipe, CachedWaits, Invalid
<1>6. ServerStates'
  BY DEF PipesInv, ServerStates, InterruptPipe
<1>7. InterruptSeen'
  <2>1. impl_ = "named" /\ cached_client_' = Invalid /\ Pipe_' = Pipe_
    BY DEF InterruptPipe
  <2>2. Pipe_ # Invalid => stopping_'
    BY DEF InterruptPipe
  <2>3. late' = 1 => late = 1
    BY DEF InterruptPipe
  <2>4. late = 1 => Pipe_ = Invalid
    BY <2>1 DEF PipesInv, InterruptSeen
  <2> QED
    BY <2>1, <2>2, <2>3, <2>4 DEF InterruptSeen
<1>8. ListenEventTells'
  BY DEF PipesInv, ListenEventTells, InterruptPipe
<1>9. AnonOwned'
  BY DEF PipesInv, InterruptPipe, AnonOwned, anonVars
<1> QED
  BY <1>3, <1>4, <1>5, <1>6, <1>7, <1>8, <1>9 DEF PipesInv

\* What clients and transports do leaves the server alone.
LEMMA ServerAlone ==
  ASSUME PipesInv, instance' \in PipeEnds, object' \in PipeObjects, HandlesOwned(instance', object', Pipe_),
         inPipe' \in [Pipe -> Seq(Nat)], spoken' \in [Pipe -> Nat],
         cached_client_ # Invalid => object'[cached_client_].alive,
         UNCHANGED <<impl_, stopping_, Pipe_, cached_client_, accepting, interruptVars, anonVars>>,
         \/ UNCHANGED <<connectOverlap_, listen_event_>>
         \/ connectOverlap_' = "done" /\ listen_event_' = TRUE
  PROVE  PipesInv'
<1>1. PipesTyped'
  BY DEF PipesInv, PipesTyped, interruptVars
<1>2. HandlesOwned(instance, object, Pipe_)'
  BY DEF HandlesOwned, UnderWay
<1>3. CachedWaits(object, cached_client_)'
  BY DEF CachedWaits
<1>4. ServerStates' /\ InterruptSeen'
  BY DEF PipesInv, ServerStates, InterruptSeen, interruptVars
<1>5. ListenEventTells'
  BY DEF PipesInv, ListenEventTells
<1>6. AnonOwned'
  BY DEF PipesInv, AnonOwned, anonVars
<1> QED
  BY <1>1, <1>2, <1>3, <1>4, <1>5, <1>6 DEF PipesInv

LEMMA PipeClientsKept ==
  ASSUME PipesInv, NEW p \in Pipe,
         \/ ClientOpens(p) \/ ClientWrites(p) \/ ClientReads(p) \/ ClientCloses(p) \/ WritePipe(p)
  PROVE  PipesInv'
<1>1. /\ object' = object /\ object \in PipeObjects /\ instance \in PipeEnds /\ HandlesOwned(instance, object, Pipe_)
      /\ cached_client_ # Invalid => object[cached_client_].alive
  BY DEF PipesInv, PipesTyped, CachedWaits, ClientOpens, ClientWrites, ClientReads, ClientCloses, WritePipe
<1>2. instance' \in PipeEnds /\ \A q \in Pipe : instance'[q].handle = instance[q].handle
  <2>1. CASE UNCHANGED instance
    BY <1>1, <2>1
  <2>2. CASE \E c \in {"open", "closed"} : instance' = [instance EXCEPT ![p].client = c]
    BY <1>1, <2>2 DEF PipeEnds
  <2> QED
    BY <2>1, <2>2 DEF ClientOpens, ClientWrites, ClientReads, ClientCloses, WritePipe
<1>3. HandlesOwned(instance', object', Pipe_)
  BY <1>1, <1>2, OwnersStay DEF HandlesOwned
<1>4. inPipe' \in [Pipe -> Seq(Nat)] /\ spoken' \in [Pipe -> Nat]
  <2>1. inPipe \in [Pipe -> Seq(Nat)] /\ spoken \in [Pipe -> Nat]
    BY DEF PipesInv, PipesTyped
  <2>2. CASE ClientWrites(p)
    <3>1. spoken[p] \in Nat /\ inPipe[p] \in Seq(Nat)
      BY <2>1
    <3>2. Append(inPipe[p], spoken[p] + 1) \in Seq(Nat)
      BY <3>1
    <3> QED
      BY <2>1, <2>2, <3>1, <3>2 DEF ClientWrites
  <2> QED
    BY <2>1, <2>2 DEF ClientOpens, ClientReads, ClientCloses, WritePipe, streamVars
<1>5. /\ UNCHANGED <<impl_, stopping_, Pipe_, cached_client_, accepting, interruptVars, anonVars>>
      /\ \/ UNCHANGED <<connectOverlap_, listen_event_>>
         \/ connectOverlap_' = "done" /\ listen_event_' = TRUE
  BY DEF ClientOpens, ClientWrites, ClientReads, ClientCloses, WritePipe, serverVars
<1> QED
  BY <1>1, <1>2, <1>3, <1>4, <1>5, ServerAlone

\* An object gets another value, and stays whose it is.
LEMMA ObjectGets ==
  ASSUME PipesInv, NEW p \in Pipe, NEW o \in ObjectState, o.alive = object[p].alive,
         o.read = "pending" => o.alive /\ UnderWay(o), object' = [object EXCEPT ![p] = o],
         inPipe' \in [Pipe -> Seq(Nat)], UNCHANGED <<serverVars, interruptVars, instance, spoken, anonVars>>
  PROVE  PipesInv'
<1>1. /\ object \in PipeObjects /\ instance \in PipeEnds /\ HandlesOwned(instance, object, Pipe_)
      /\ cached_client_ \in Pipe \cup {Invalid} /\ spoken \in [Pipe -> Nat]
      /\ cached_client_ # Invalid => object[cached_client_].alive
  BY DEF PipesInv, PipesTyped, CachedWaits
<1>2. object' \in PipeObjects /\ \A q \in Pipe : object'[q] = IF q = p THEN o ELSE object[q]
  BY <1>1 DEF PipeObjects
<1>3. \A q \in Pipe : /\ object'[q].alive = object[q].alive
                      /\ object'[q].read = "pending" => object'[q].alive /\ UnderWay(object'[q])
  BY <1>1, <1>2 DEF HandlesOwned
<1>4. HandlesOwned(instance', object', Pipe_)
  BY <1>1, <1>3, OwnersStay
<1>5. cached_client_ # Invalid => object'[cached_client_].alive
  BY <1>1, <1>3
<1>6. /\ UNCHANGED <<impl_, stopping_, Pipe_, cached_client_, accepting, interruptVars, anonVars>>
      /\ UNCHANGED <<connectOverlap_, listen_event_>> /\ instance' \in PipeEnds /\ spoken' \in [Pipe -> Nat]
  BY <1>1 DEF serverVars
<1> QED
  BY <1>2, <1>4, <1>5, <1>6, ServerAlone

LEMMA ReadEndsKept == ASSUME PipesInv, NEW p \in Pipe, ReadEnds(p) PROVE PipesInv'
<1>1. /\ object \in PipeObjects /\ object[p] \in ObjectState /\ object[p].read = "pending"
      /\ inPipe \in [Pipe -> Seq(Nat)] /\ inPipe[p] \in Seq(Nat)
      /\ UNCHANGED <<serverVars, interruptVars, instance, spoken, anonVars>>
  BY DEF ReadEnds, PipesInv, PipesTyped, PipeObjects
<1>2. CASE \E n \in 1..Fewer(BufferSize, Len(inPipe[p])) :
             /\ object' = [object EXCEPT ![p].read = "done", ![p].buffer = SubSeq(inPipe[p], 1, n)]
             /\ inPipe' = [inPipe EXCEPT ![p] = SubSeq(@, n + 1, Len(@))]
  <2>1. PICK n \in 1..Fewer(BufferSize, Len(inPipe[p])) :
             /\ object' = [object EXCEPT ![p].read = "done", ![p].buffer = SubSeq(inPipe[p], 1, n)]
             /\ inPipe' = [inPipe EXCEPT ![p] = SubSeq(@, n + 1, Len(@))]
    BY <1>2
  <2>2. n \in 1..Len(inPipe[p])
    BY <1>1, PipesAssumption DEF Fewer
  <2> DEFINE bytes == SubSeq(inPipe[p], 1, n)
             left == SubSeq(inPipe[p], n + 1, Len(inPipe[p]))
             q == [object[p] EXCEPT !.read = "done"]
             o == [q EXCEPT !.buffer = bytes]
  <2>3. bytes \in Seq(Nat) /\ left \in Seq(Nat)
    BY <1>1, <2>2
  <2>4. object' = [object EXCEPT ![p] = o] /\ inPipe' = [inPipe EXCEPT ![p] = left]
    BY <1>1, <2>1 DEF PipeObjects
  <2>5. q \in ObjectState /\ q.read = "done" /\ q.alive = object[p].alive
    BY <1>1 DEF ObjectState
  <2> HIDE DEF bytes, left, q
  <2>6. o \in ObjectState /\ o.read = "done" /\ o.alive = object[p].alive
    BY <2>3, <2>5 DEF ObjectState
  <2>7. inPipe' \in [Pipe -> Seq(Nat)]
    BY <1>1, <2>3, <2>4
  <2> HIDE DEF o
  <2> QED
    BY <1>1, <2>4, <2>6, <2>7, ObjectGets
<1>3. CASE object' = [object EXCEPT ![p].read = "failed"] /\ UNCHANGED inPipe
  <2> DEFINE o == [object[p] EXCEPT !.read = "failed"]
  <2>1. o \in ObjectState /\ o.read = "failed" /\ o.alive = object[p].alive
    BY <1>1 DEF ObjectState
  <2>2. object' = [object EXCEPT ![p] = o]
    BY <1>1, <1>3 DEF PipeObjects
  <2> HIDE DEF o
  <2> QED
    BY <1>1, <1>3, <2>1, <2>2, ObjectGets
<1> QED
  BY <1>2, <1>3 DEF ReadEnds

LEMMA ReadPipeKept == ASSUME PipesInv, NEW p \in Pipe, ReadPipe(p) PROVE PipesInv'
<1> DEFINE o == object[p]
           end == IF UnderWay(o) THEN Len(o.buffer) ELSE o.end
<1>1. /\ object \in PipeObjects /\ o \in ObjectState /\ o.read = "done" /\ o.alive
      /\ inPipe \in [Pipe -> Seq(Nat)]
      /\ UNCHANGED <<serverVars, interruptVars, instance, spoken, inPipe, anonVars>>
  BY DEF ReadPipe, InUse, PipesInv, PipesTyped, PipeObjects
<1>1a. end \in Nat
  <2>1. Len(o.buffer) \in Nat /\ o.end \in Nat
    BY <1>1 DEF ObjectState
  <2> QED
    BY <2>1
<1>2. PICK n \in 1 .. end - o.begin :
        object' = [object EXCEPT ![p] =
                     IF o.begin + n # end THEN [o EXCEPT !.begin = @ + n, !.end = end]
                     ELSE [NoObject EXCEPT !.alive = TRUE,
                                           !.read = IF o.begin + n = end /\ ~CanRead(instance, p)
                                                    THEN "refused" ELSE "pending"]]
  BY DEF ReadPipe
<1> HIDE DEF end
<1>3. CASE o.begin + n # end
  <2> DEFINE q == [o EXCEPT !.begin = o.begin + n]
             r == [q EXCEPT !.end = end]
  <2>1. o.begin \in Nat /\ o.begin + n \in Nat
    BY <1>1 DEF ObjectState
  <2>2. q \in ObjectState /\ q.read = "done" /\ q.alive
    BY <1>1, <2>1 DEF ObjectState
  <2>3. object' = [object EXCEPT ![p] = r]
    BY <1>1, <1>2, <1>3
  <2> HIDE DEF q
  <2>4. r \in ObjectState /\ r.read = "done" /\ r.alive
    BY <1>1a, <2>2 DEF ObjectState
  <2> HIDE DEF r
  <2> QED
    BY <1>1, <2>3, <2>4, ObjectGets
<1>4. CASE o.begin + n = end
  <2> DEFINE r == IF o.begin + n = end /\ ~CanRead(instance, p) THEN "refused" ELSE "pending"
             q == [NoObject EXCEPT !.alive = TRUE, !.read = r]
  <2>1. r \in {"pending", "refused"}
    OBVIOUS
  <2>2. object' = [object EXCEPT ![p] = q]
    BY <1>2, <1>4
  <2> HIDE DEF r
  <2>3. q \in ObjectState /\ q.begin = q.end /\ q.alive
    BY <2>1, ReadingTyped
  <2> HIDE DEF q
  <2> QED
    BY <1>1, <2>2, <2>3, ObjectGets DEF UnderWay
<1> QED
  BY <1>3, <1>4

LEMMA CloseTransportKept == ASSUME PipesInv, NEW p \in Pipe, CloseTransport(p) PROVE PipesInv'
<1>1. /\ instance \in PipeEnds /\ object \in PipeObjects /\ Pipe_ \in Pipe \cup {Invalid}
      /\ HandlesOwned(instance, object, Pipe_) /\ CachedWaits(object, p) /\ object[p].alive /\ p # cached_client_
      /\ cached_client_ \in Pipe \cup {Invalid} /\ CachedWaits(object, cached_client_)
  BY DEF PipesInv, PipesTyped, CloseTransport, InUse, CachedWaits
<1>2. /\ instance' \in PipeEnds /\ object' \in PipeObjects /\ HandlesOwned(instance', object', Pipe_)
  BY <1>1, LetGo DEF CloseTransport
<1>3. \A q \in Pipe : q # p => object'[q] = object[q]
  BY <1>1, NoPipe, DestroyedFacts DEF CloseTransport, HandlesOwned
<1>4. cached_client_ # Invalid => object'[cached_client_].alive
  BY <1>1, <1>3 DEF CachedWaits
<1>5. /\ inPipe' \in [Pipe -> Seq(Nat)] /\ spoken' \in [Pipe -> Nat]
      /\ UNCHANGED <<impl_, stopping_, Pipe_, cached_client_, accepting, interruptVars, anonVars>>
      /\ UNCHANGED <<connectOverlap_, listen_event_>>
  BY DEF PipesInv, PipesTyped, CloseTransport, serverVars, streamVars
<1> QED
  BY <1>2, <1>4, <1>5, ServerAlone

LEMMA AnonKept == PipesInv /\ AnonPipesNext => PipesInv'
<1> SUFFICES ASSUME PipesInv, AnonPipesNext PROVE PipesInv'
  OBVIOUS
<1>1. UNCHANGED namedVars
  BY DEF AnonPipesNext, CreateAnonPipe, AnonAccept, AnonTransportCloses, AnonServerCloses
<1>2. /\ PipesTyped' /\ HandlesOwned(instance, object, Pipe_)' /\ CachedWaits(object, cached_client_)'
      /\ ServerStates' /\ InterruptSeen' /\ ListenEventTells'
  BY <1>1 DEF PipesInv, PipesTyped, HandlesOwned, CachedWaits, ServerStates, InterruptSeen, ListenEventTells, UnderWay,
              namedVars, serverVars, interruptVars, streamVars
<1>3. AnonOwned'
  BY DEF PipesInv, AnonOwned, AnonPipesNext, CreateAnonPipe, AnonAccept, AnonTransportCloses,
         AnonServerCloses, FirstPair, AllHandles, CloseAll
<1> QED
  BY <1>2, <1>3 DEF PipesInv

\* Every step of the pipes keeps the invariant.
LEMMA PipesInvKept == PipesInv /\ [PipesNext \/ AnonPipesNext]_pipesVars => PipesInv'
<1> SUFFICES ASSUME PipesInv, [PipesNext \/ AnonPipesNext]_pipesVars PROVE PipesInv'
  OBVIOUS
<1>1. CASE PipesNext
  BY <1>1, ListenPipeKept, AcceptCachedKept, AcceptConnectedKept, AcceptingKept, ClosePipeServerKept,
     InterruptPipeKept, PipeClientsKept, ReadEndsKept, ReadPipeKept, CloseTransportKept DEF PipesNext
<1>2. CASE UNCHANGED pipesVars
  BY <1>2 DEF PipesInv, PipesTyped, HandlesOwned, CachedWaits, ServerStates, InterruptSeen, ListenEventTells, AnonOwned,
              UnderWay, pipesVars, namedVars, serverVars, interruptVars, streamVars, anonVars
<1> QED
  BY <1>1, <1>2, AnonKept

\* Every handle has one owner, interrupt() is safe and final, and the event can be relied on.
LEMMA PipesStayOwned == PipesSpec => [](PipeHandlesOwned /\ InterruptHolds /\ ListenEventTells)
<1>1. PipesInv => PipeHandlesOwned /\ InterruptHolds /\ ListenEventTells
  <2> SUFFICES ASSUME PipesInv PROVE PipeHandlesOwned /\ InterruptHolds /\ ListenEventTells
    OBVIOUS
  <2>1. InterruptHolds /\ ListenEventTells
    BY DEF PipesInv, PipesTyped, ServerStates, InterruptHolds
  <2> QED
    BY <2>1 DEF PipesInv, HandlesOwned, ServerStates, AnonOwned, PipeHandlesOwned
<1> QED
  BY <1>1, PipesInvInit, PipesInvKept, PTL DEF PipesSpec

-----------------------------------------------------------------------------
\* The submission thread: the inductive invariant.

Pushed(x, s) == <<x>> \o s
Distinct(s) == \A m, n \in DOMAIN s : m # n => s[m] # s[n]
ElementsOf(s) == {s[n] : n \in DOMAIN s}
Listed == ElementsOf(workList_)
Leaving == {"stops", "joins"}

\* The list holds no item twice, and none that is in the thread's hand.
ItemsApart ==
  /\ \A m, n \in DOMAIN workList_ : m # n => workList_[m] # workList_[n]
  /\ inHand \notin Listed
  /\ submissionThread = "processes" <=> inHand # NoItem

\* The thread exists as long as it is referred to; whoever holds the guard is the last user, and stops it.
OneLastUser ==
  /\ IsFiniteSet(References) /\ instanceRefCount_ = Cardinality(References)
  /\ instance_ = Null <=> submissionThread = "none"
  /\ submissionThread = "none" => /\ instanceGuard_ = Unlocked /\ References = {}
                                  /\ workList_ = << >> /\ inHand = NoItem
  /\ instanceGuard_ # Unlocked => References = {}
  /\ \A u \in User : user[u] \in Leaving <=> instanceGuard_ = u
  /\ submissionThread = "ended" => workList_ = << >> /\ inHand = NoItem

\* Where the item of a user is: waited for, it is on the list or in hand, or done; otherwise it is nowhere.
ItemOfUser(u) ==
  IF user[u] \in {"pushed", "waits"}
  THEN IF u \in Listed \/ u = inHand
       THEN ~doneSubmitting[u] /\ submitted[u] = started[u] + 1
       ELSE doneSubmitting[u] /\ submitted[u] = started[u]
  ELSE u \notin Listed /\ u # inHand /\ ~doneSubmitting[u] /\ submitted[u] = started[u]

\* The item that stops the thread is pushed by the last user, after all others.
ItemOfThread ==
  /\ instanceGuard_ = Unlocked => Stop \notin Listed /\ Stop # inHand /\ ~doneSubmitting[Stop]
  /\ instanceGuard_ # Unlocked =>
       IF Stop \in Listed \/ Stop = inHand THEN ~doneSubmitting[Stop] /\ submissionThread # "ended"
       ELSE doneSubmitting[Stop] /\ submissionThread = "ended"
  /\ submissionThread = "ended" => instanceGuard_ # Unlocked

NoWakeUpLost ==
  workList_ # << >> => \/ workAvailableEvent_ \/ submissionThread \in {"pops", "processes"}
                       \/ \E u \in User : user[u] \in {"pushed", "stops"}

SubmissionInv ==
  /\ SubmissionTypeOK /\ ItemsApart /\ OneLastUser /\ \A u \in User : ItemOfUser(u)
  /\ ItemOfThread /\ NoWakeUpLost

LEMMA PushFacts ==
  ASSUME NEW S, NEW s \in Seq(S), NEW x \in S, Distinct(s), x \notin ElementsOf(s)
  PROVE  /\ Pushed(x, s) \in Seq(S) /\ Pushed(x, s) # << >>
         /\ ElementsOf(Pushed(x, s)) = ElementsOf(s) \cup {x}
         /\ Distinct(Pushed(x, s))
<1> DEFINE t == Pushed(x, s)
<1>1. <<x>> \in Seq(S) /\ Len(<<x>>) = 1 /\ <<x>>[1] = x
  OBVIOUS
<1>2. /\ t \in Seq(S) /\ Len(t) = Len(s) + 1 /\ Len(s) \in Nat /\ t[1] = x
      /\ \A n \in 1..Len(s) : t[n + 1] = s[n]
  BY <1>1, ConcatProperties DEF Pushed
<1> HIDE DEF t
<1>3. DOMAIN s = 1..Len(s) /\ DOMAIN t = 1 .. Len(s) + 1
  BY <1>2
<1>4. \A n \in DOMAIN t : n = 1 \/ (n - 1 \in DOMAIN s /\ t[n] = s[n - 1])
  BY <1>2, <1>3
<1>5. \A n \in DOMAIN s : n + 1 \in DOMAIN t /\ t[n + 1] = s[n]
  BY <1>2, <1>3
<1>6. t # << >>
  BY <1>2
<1>7. ElementsOf(t) = ElementsOf(s) \cup {x}
  <2>1. \A n \in DOMAIN t : t[n] \in ElementsOf(s) \cup {x}
    BY <1>2, <1>4 DEF ElementsOf
  <2>2. \A n \in DOMAIN s : s[n] \in ElementsOf(t)
    BY <1>5 DEF ElementsOf
  <2>3. x \in ElementsOf(t)
    BY <1>2, <1>3 DEF ElementsOf
  <2> QED
    BY <2>1, <2>2, <2>3 DEF ElementsOf
<1>8. ASSUME NEW m \in DOMAIN t, NEW n \in DOMAIN t, m # n
      PROVE  t[m] # t[n]
  <2>1. CASE m = 1 \/ n = 1
    BY <2>1, <1>2, <1>4, <1>8 DEF ElementsOf, Distinct
  <2>2. CASE m # 1 /\ n # 1
    <3>1. m - 1 # n - 1
      BY <1>3, <1>8
    <3> QED
      BY <2>2, <3>1, <1>4, <1>8 DEF Distinct
  <2> QED
    BY <2>1, <2>2
<1> QED
  BY <1>2, <1>6, <1>7, <1>8 DEF t, Distinct

LEMMA PopFacts ==
  ASSUME NEW S, NEW s \in Seq(S), s # << >>, \A m, n \in DOMAIN s : m # n => s[m] # s[n]
  PROVE  /\ Head(s) \in S /\ Tail(s) \in Seq(S) /\ Head(s) \in ElementsOf(s)
         /\ ElementsOf(Tail(s)) = ElementsOf(s) \ {Head(s)}
         /\ \A m, n \in DOMAIN Tail(s) : m # n => Tail(s)[m] # Tail(s)[n]
<1> DEFINE t == Tail(s)
<1>1. /\ t \in Seq(S) /\ Len(t) = Len(s) - 1 /\ Len(s) \in Nat \ {0} /\ Head(s) = s[1] /\ Head(s) \in S
      /\ DOMAIN s = 1..Len(s) /\ DOMAIN t = 1 .. Len(s) - 1 /\ 1 \in DOMAIN s
      /\ \A n \in DOMAIN t : n + 1 \in DOMAIN s /\ t[n] = s[n + 1] /\ n + 1 # 1
  OBVIOUS
<1>2. \A n \in DOMAIN s : n # 1 => n - 1 \in DOMAIN t /\ t[n - 1] = s[n]
  BY <1>1
<1> HIDE DEF t
<1>3. ElementsOf(t) = ElementsOf(s) \ {Head(s)}
  <2>1. \A n \in DOMAIN s : n # 1 <=> s[n] # s[1]
    BY <1>1
  <2>2. \A n \in DOMAIN t : t[n] # s[1]
    BY <1>1, <2>1
  <2> QED
    BY <1>1, <1>2, <2>2 DEF ElementsOf
<1>4. ASSUME NEW m \in DOMAIN t, NEW n \in DOMAIN t, m # n
      PROVE  t[m] # t[n]
  <2>1. m + 1 # n + 1
    BY <1>1, <1>4
  <2> QED
    BY <2>1, <1>1
<1> QED
  BY <1>1, <1>3, <1>4 DEF t, ElementsOf

LEMMA NothingListed ==
  ASSUME NEW S, NEW s \in Seq(S)
  PROVE  s = << >> <=> ElementsOf(s) = {}
<1>1. s # << >> => 1 \in DOMAIN s
  OBVIOUS
<1> QED
  BY <1>1 DEF ElementsOf

\* A user that changes its state, and what that does to the references.
LEMMA ReferencesFollow ==
  ASSUME SubmissionInv, NEW u \in User, NEW state \in UserStates, user' = [user EXCEPT ![u] = state]
  PROVE  /\ user' \in [User -> UserStates] /\ user'[u] = state
         /\ \A v \in User : v # u => user'[v] = user[v]
         /\ References' = IF state \in {"holds", "pushed", "waits"} THEN References \cup {u}
                          ELSE References \ {u}
<1>1. user \in [User -> UserStates]
  BY DEF SubmissionInv, SubmissionTypeOK
<1>2. /\ user' \in [User -> UserStates] /\ user'[u] = state
      /\ \A v \in User : v # u => user'[v] = user[v]
  BY <1>1
<1> QED
  BY <1>2 DEF References

LEMMA SubmissionStarts == SubmissionInit => SubmissionInv
<1> SUFFICES ASSUME SubmissionInit
             PROVE  SubmissionInv
  OBVIOUS
<1> USE DEF SubmissionInit, Null
<1>1. << >> \in Seq(Item) /\ DOMAIN << >> = {} /\ Listed = {}
  BY DEF Listed, ElementsOf
<1>2. References = {}
  BY DEF References
<1>3. Cardinality({}) = 0 /\ IsFiniteSet({})
  BY FS_EmptySet
<1>4. \A u \in User : u \in Item /\ u # Unlocked /\ u # NoItem
  BY SubmissionAssumption DEF Item
<1>5. SubmissionTypeOK
  BY <1>1 DEF SubmissionTypeOK, UserStates
<1>6. ItemsApart
  BY <1>1 DEF ItemsApart
<1>7. OneLastUser
  BY <1>2, <1>3, <1>4 DEF OneLastUser, Leaving
<1>8. (\A u \in User : ItemOfUser(u)) /\ ItemOfThread
  BY <1>1, <1>4 DEF ItemOfUser, ItemOfThread, Item, Stop, NoItem
<1> QED
  BY <1>5, <1>6, <1>7, <1>8 DEF SubmissionInv, NoWakeUpLost

\* A user comes: the first one creates the thread.
LEMMA AcquireKept ==
  ASSUME SubmissionInv, NEW u \in User, CreateInstance(u) \/ ShareInstance(u)
  PROVE  SubmissionInv'
<1>1. /\ user' = [user EXCEPT ![u] = "holds"] /\ user[u] = "outside" /\ instanceGuard_ = Unlocked
      /\ instanceRefCount_' = instanceRefCount_ + 1 /\ UNCHANGED <<instanceGuard_, submitted, started>>
  BY DEF CreateInstance, ShareInstance
<1>2. /\ user' \in [User -> UserStates] /\ user'[u] = "holds"
      /\ \A v \in User : v # u => user'[v] = user[v]
      /\ References' = References \cup {u} /\ u \notin References
  <2>1. "holds" \in UserStates
    BY DEF UserStates
  <2> QED
    BY <1>1, <2>1, ReferencesFollow DEF References
<1>3. IsFiniteSet(References') /\ instanceRefCount_' = Cardinality(References') /\ instanceRefCount_' \in Nat
  BY <1>1, <1>2, FS_AddElement, FS_CardinalityType DEF SubmissionInv, OneLastUser
<1>4. /\ workList_' = workList_ /\ Listed' = Listed /\ inHand' = inHand
      /\ doneSubmitting' = doneSubmitting
      /\ instance_' # Null /\ instance_' \in Nat /\ instances' \in Nat /\ workAvailableEvent_' \in BOOLEAN
      /\ submissionThread' \in {"waits", "pops", "processes"}
      /\ submissionThread' = "processes" <=> submissionThread = "processes"
      /\ workList_ # << >> => UNCHANGED <<workAvailableEvent_, submissionThread>>
  <2>1. CASE CreateInstance(u)
    <3>1. submissionThread = "none" /\ workList_ = << >> /\ inHand = NoItem /\ ~doneSubmitting[Stop]
      BY <1>1, <2>1 DEF CreateInstance, SubmissionInv, OneLastUser, ItemOfThread
    <3>2. doneSubmitting \in [Item -> BOOLEAN] /\ Stop \in Item
      BY DEF SubmissionInv, SubmissionTypeOK, Item
    <3>3. doneSubmitting' = doneSubmitting
      BY <2>1, <3>1, <3>2 DEF CreateInstance
    <3>4. instances' = instances + 1 /\ instance_' = instances + 1 /\ instances \in Nat
      BY <2>1 DEF CreateInstance, SubmissionInv, SubmissionTypeOK
    <3>5. workList_' = << >> /\ inHand' = NoItem /\ workAvailableEvent_' = FALSE /\ submissionThread' = "waits"
      BY <2>1 DEF CreateInstance
    <3>6. Listed' = Listed
      BY <3>1, <3>5 DEF Listed
    <3>7. instance_' # Null /\ instance_' \in Nat /\ instances' \in Nat
      BY <3>4 DEF Null
    <3> QED
      BY <3>1, <3>3, <3>5, <3>6, <3>7
  <2>2. CASE ShareInstance(u)
    <3>1. UNCHANGED <<instance_, instances, workList_, workAvailableEvent_, doneSubmitting, submissionThread,
                      inHand>>
      BY <2>2 DEF ShareInstance, listVars
    <3>2. submissionThread \in {"waits", "pops", "processes"}
      BY <1>1, <2>2 DEF ShareInstance, SubmissionInv, SubmissionTypeOK, OneLastUser, ItemOfThread
    <3> QED
      BY <2>2, <3>1, <3>2 DEF ShareInstance, SubmissionInv, SubmissionTypeOK, Listed
  <2> QED
    BY <2>1, <2>2
<1>5. SubmissionTypeOK'
  BY <1>1, <1>2, <1>3, <1>4 DEF SubmissionInv, SubmissionTypeOK
<1>6. ItemsApart'
  BY <1>4 DEF SubmissionInv, ItemsApart
<1>7. OneLastUser'
  <2>1. \A v \in User : v # Unlocked
    BY SubmissionAssumption
  <2> QED
    BY <1>1, <1>2, <1>3, <1>4, <2>1 DEF SubmissionInv, OneLastUser, Leaving
<1>8. ASSUME NEW v \in User
      PROVE  ItemOfUser(v)'
  BY <1>1, <1>2, <1>4 DEF SubmissionInv, ItemOfUser
<1>9. ItemOfThread'
  BY <1>1, <1>4 DEF SubmissionInv, ItemOfThread
<1>10. NoWakeUpLost'
  BY <1>1, <1>2, <1>4 DEF SubmissionInv, NoWakeUpLost
<1> QED
  BY <1>5, <1>6, <1>7, <1>8, <1>9, <1>10 DEF SubmissionInv

\* A user pushes its item, wakes the thread, and goes on when it is done.
LEMMA WorkKept ==
  ASSUME SubmissionInv, NEW u \in User, PushItem(u) \/ SignalWork(u) \/ ItemSubmitted(u)
  PROVE  SubmissionInv'
<1>1. UNCHANGED <<instanceGuard_, instance_, instances, instanceRefCount_, submissionThread, inHand, started>>
  BY DEF PushItem, SignalWork, ItemSubmitted, instanceVars
<1>2. /\ user[u] \in {"holds", "pushed", "waits"} /\ u \in References
      /\ user' \in [User -> UserStates] /\ user'[u] \in {"holds", "pushed", "waits"}
      /\ \A v \in User : v # u => user'[v] = user[v]
      /\ References' = References
  <2>1. {"holds", "pushed", "waits"} \subseteq UserStates
    BY DEF UserStates
  <2>2. user[u] \in {"holds", "pushed", "waits"} /\ u \in References
    BY DEF PushItem, SignalWork, ItemSubmitted, References
  <2>3. PICK state \in {"holds", "pushed", "waits"} : user' = [user EXCEPT ![u] = state]
    BY DEF PushItem, SignalWork, ItemSubmitted
  <2>4. /\ user' \in [User -> UserStates] /\ user'[u] = state
        /\ \A v \in User : v # u => user'[v] = user[v]
        /\ References' = References \cup {u}
    BY <2>1, <2>3, ReferencesFollow
  <2> QED
    BY <2>2, <2>3, <2>4
<1>3. /\ instanceGuard_ = Unlocked /\ submissionThread \in {"waits", "pops", "processes"}
      /\ u \in Item /\ u # Stop /\ u # NoItem /\ \A v \in User : v # Unlocked
  BY <1>2, SubmissionAssumption
     DEF SubmissionInv, OneLastUser, ItemOfThread, SubmissionTypeOK, Item
<1>4. OneLastUser'
  BY <1>1, <1>2, <1>3 DEF SubmissionInv, OneLastUser, Leaving
<1>5. CASE PushItem(u)
  <2>1. /\ workList_' = <<u>> \o workList_ /\ user[u] = "holds" /\ user'[u] = "pushed"
        /\ submitted' = [submitted EXCEPT ![u] = @ + 1]
        /\ UNCHANGED <<workAvailableEvent_, doneSubmitting>>
    BY <1>2, <1>5 DEF PushItem, Push, SubmissionInv, SubmissionTypeOK
  <2>2. /\ workList_ \in Seq(Item) /\ u \notin Listed /\ u # inHand /\ ~doneSubmitting[u]
        /\ submitted[u] = started[u]
        /\ \A m, n \in DOMAIN workList_ : m # n => workList_[m] # workList_[n]
    BY <2>1 DEF SubmissionInv, SubmissionTypeOK, ItemOfUser, ItemsApart
  <2>3. /\ workList_' \in Seq(Item) /\ Listed' = Listed \cup {u}
        /\ \A m, n \in DOMAIN workList_' : m # n => workList_'[m] # workList_'[n]
    <3>1. u \notin ElementsOf(workList_)
      BY <2>2 DEF Listed
    <3>2. workList_ \in Seq(Item) /\ u \in Item /\ workList_' = Pushed(u, workList_) /\ Distinct(workList_)
      BY <1>3, <2>1, <2>2 DEF Pushed, Distinct
    <3>3. /\ workList_' \in Seq(Item) /\ ElementsOf(workList_') = ElementsOf(workList_) \cup {u}
          /\ Distinct(workList_')
      BY <3>1, <3>2, PushFacts
    <3> QED
      BY <3>3 DEF Listed, Distinct
  <2>4. /\ submitted' \in [User -> Nat] /\ submitted'[u] = submitted[u] + 1
        /\ \A v \in User : v # u => submitted'[v] = submitted[v]
    BY <2>1 DEF SubmissionInv, SubmissionTypeOK
  <2>5. SubmissionTypeOK'
    BY <1>1, <1>2, <2>1, <2>3, <2>4 DEF SubmissionInv, SubmissionTypeOK
  <2>6. ItemsApart'
    BY <1>1, <2>2, <2>3 DEF SubmissionInv, ItemsApart
  <2>7. ASSUME NEW v \in User
        PROVE  ItemOfUser(v)'
    <3>1. CASE v = u
      BY <3>1, <1>1, <1>2, <2>1, <2>2, <2>3, <2>4 DEF ItemOfUser
    <3>2. CASE v # u
      BY <3>2, <1>1, <1>2, <2>1, <2>3, <2>4 DEF SubmissionInv, ItemOfUser
    <3> QED
      BY <3>1, <3>2
  <2>8. ItemOfThread'
    BY <1>1, <1>3, <2>1, <2>3 DEF SubmissionInv, ItemOfThread
  <2>9. NoWakeUpLost'
    BY <2>1 DEF NoWakeUpLost
  <2> QED
    BY <1>4, <2>5, <2>6, <2>7, <2>8, <2>9 DEF SubmissionInv
<1>6. CASE SignalWork(u)
  <2>1. /\ workAvailableEvent_' = TRUE /\ user[u] = "pushed" /\ user'[u] = "waits"
        /\ UNCHANGED <<workList_, doneSubmitting, submitted>>
    BY <1>2, <1>6 DEF SignalWork, SubmissionInv, SubmissionTypeOK
  <2>2. SubmissionTypeOK' /\ ItemsApart'
    BY <1>1, <1>2, <2>1 DEF SubmissionInv, SubmissionTypeOK, ItemsApart, Listed
  <2>3. ASSUME NEW v \in User
        PROVE  ItemOfUser(v)'
    BY <1>1, <1>2, <2>1 DEF SubmissionInv, ItemOfUser, Listed
  <2>4. ItemOfThread' /\ NoWakeUpLost'
    BY <1>1, <2>1 DEF SubmissionInv, ItemOfThread, NoWakeUpLost, Listed
  <2> QED
    BY <1>4, <2>2, <2>3, <2>4 DEF SubmissionInv
<1>7. CASE ItemSubmitted(u)
  <2>1. /\ user[u] = "waits" /\ doneSubmitting[u] /\ user'[u] = "holds"
        /\ doneSubmitting' = [doneSubmitting EXCEPT ![u] = FALSE]
        /\ UNCHANGED <<workList_, workAvailableEvent_, submitted>>
    BY <1>2, <1>7 DEF ItemSubmitted, SubmissionInv, SubmissionTypeOK
  <2>2. /\ doneSubmitting' \in [Item -> BOOLEAN] /\ ~doneSubmitting'[u]
        /\ \A i \in Item : i # u => doneSubmitting'[i] = doneSubmitting[i]
    BY <1>3, <2>1 DEF SubmissionInv, SubmissionTypeOK
  <2>3. SubmissionTypeOK' /\ ItemsApart'
    BY <1>1, <1>2, <2>1, <2>2 DEF SubmissionInv, SubmissionTypeOK, ItemsApart, Listed
  <2>4. ASSUME NEW v \in User
        PROVE  ItemOfUser(v)'
    <3>1. CASE v = u
      BY <3>1, <1>1, <2>1, <2>2 DEF SubmissionInv, ItemOfUser, Listed
    <3>2. CASE v # u
      <4>1. doneSubmitting'[v] = doneSubmitting[v] /\ user'[v] = user[v]
        BY <3>2, <1>2, <2>2 DEF Item
      <4> QED
        BY <4>1, <1>1, <2>1 DEF SubmissionInv, ItemOfUser, Listed
    <3> QED
      BY <3>1, <3>2
  <2>5. doneSubmitting'[Stop] = doneSubmitting[Stop]
    BY <1>3, <2>2 DEF Item
  <2>6. ItemOfThread'
    BY <1>1, <2>1, <2>5 DEF SubmissionInv, ItemOfThread, Listed
  <2>7. NoWakeUpLost'
    BY <1>1, <1>2, <2>1 DEF SubmissionInv, NoWakeUpLost
  <2> QED
    BY <1>4, <2>3, <2>4, <2>6, <2>7 DEF SubmissionInv
<1> QED
  BY <1>5, <1>6, <1>7

\* A user goes; the last one pushes the item that stops the thread, and deletes it.
LEMMA ReleaseSharedKept ==
  ASSUME SubmissionInv, NEW u \in User, ReleaseShared(u)
  PROVE  SubmissionInv'
<1>1. /\ user' = [user EXCEPT ![u] = "outside"] /\ user[u] = "holds" /\ instanceGuard_ = Unlocked
      /\ instanceRefCount_' = instanceRefCount_ - 1 /\ instanceRefCount_ > 1
      /\ UNCHANGED <<instanceGuard_, instance_, instances, workList_, workAvailableEvent_, doneSubmitting,
                     submissionThread, inHand, submitted, started>>
  BY DEF ReleaseShared, listVars
<1>2. /\ user' \in [User -> UserStates] /\ user'[u] = "outside"
      /\ \A v \in User : v # u => user'[v] = user[v]
      /\ References' = References \ {u} /\ u \in References
  <2>1. "outside" \in UserStates
    BY DEF UserStates
  <2> QED
    BY <1>1, <2>1, ReferencesFollow DEF References
<1>3. IsFiniteSet(References') /\ instanceRefCount_' = Cardinality(References') /\ instanceRefCount_' \in Nat
  BY <1>1, <1>2, FS_RemoveElement, FS_CardinalityType DEF SubmissionInv, OneLastUser
<1>4. SubmissionTypeOK' /\ ItemsApart' /\ ItemOfThread'
  BY <1>1, <1>2, <1>3 DEF SubmissionInv, SubmissionTypeOK, ItemsApart, ItemOfThread, Listed
<1>5. OneLastUser'
  <2>1. \A v \in User : v # Unlocked
    BY SubmissionAssumption
  <2> QED
    BY <1>1, <1>2, <1>3, <2>1 DEF SubmissionInv, OneLastUser, Leaving
<1>6. ASSUME NEW v \in User
      PROVE  ItemOfUser(v)'
  BY <1>1, <1>2 DEF SubmissionInv, ItemOfUser, Listed
<1>7. NoWakeUpLost'
  BY <1>1, <1>2 DEF SubmissionInv, NoWakeUpLost
<1> QED
  BY <1>4, <1>5, <1>6, <1>7 DEF SubmissionInv

LEMMA ReleaseLastKept ==
  ASSUME SubmissionInv, NEW u \in User, ReleaseLast(u)
  PROVE  SubmissionInv'
<1>1. /\ user' = [user EXCEPT ![u] = "stops"] /\ user[u] = "holds" /\ instanceGuard_ = Unlocked
      /\ instanceRefCount_' = 0 /\ instanceRefCount_ = 1 /\ instanceGuard_' = u
      /\ workList_' = <<Stop>> \o workList_
      /\ UNCHANGED <<instance_, instances, workAvailableEvent_, doneSubmitting, submissionThread, inHand,
                     submitted, started>>
  BY DEF ReleaseLast, Push
<1>2. /\ user' \in [User -> UserStates] /\ user'[u] = "stops"
      /\ \A v \in User : v # u => user'[v] = user[v]
      /\ References' = References \ {u} /\ u \in References
  <2>1. "stops" \in UserStates
    BY DEF UserStates
  <2> QED
    BY <1>1, <2>1, ReferencesFollow DEF References
<1>3. References' = {} /\ IsFiniteSet({}) /\ Cardinality({}) = 0
  <2>1. Cardinality(References) = 1 /\ IsFiniteSet(References)
    BY <1>1 DEF SubmissionInv, OneLastUser
  <2>2. PICK x : References = {x}
    BY <2>1, FS_Singleton
  <2> QED
    BY <1>2, <2>2, FS_EmptySet
<1>4. Stop \notin Listed /\ Stop # inHand /\ ~doneSubmitting[Stop] /\ Stop \in Item /\ u # Unlocked
      /\ submissionThread \in {"waits", "pops", "processes"} /\ \A v \in User : v # Stop /\ v # Unlocked
      /\ Stop # NoItem
  BY <1>1, <1>2, SubmissionAssumption
     DEF SubmissionInv, OneLastUser, ItemOfThread, SubmissionTypeOK, Item
<1>5. /\ workList_' \in Seq(Item) /\ Listed' = Listed \cup {Stop}
      /\ \A m, n \in DOMAIN workList_' : m # n => workList_'[m] # workList_'[n]
  <2>1. workList_ \in Seq(Item) /\ \A m, n \in DOMAIN workList_ : m # n => workList_[m] # workList_[n]
    BY DEF SubmissionInv, SubmissionTypeOK, ItemsApart
  <2> QED
    <3>1. Stop \notin ElementsOf(workList_)
      BY <1>4 DEF Listed
    <3>2. workList_ \in Seq(Item) /\ Stop \in Item /\ workList_' = Pushed(Stop, workList_) /\ Distinct(workList_)
      BY <1>1, <1>4, <2>1 DEF Pushed, Distinct
    <3>3. /\ workList_' \in Seq(Item) /\ ElementsOf(workList_') = ElementsOf(workList_) \cup {Stop}
          /\ Distinct(workList_')
      BY <3>1, <3>2, PushFacts
    <3> QED
      BY <3>3 DEF Listed, Distinct
<1>6. SubmissionTypeOK'
  BY <1>1, <1>2, <1>5 DEF SubmissionInv, SubmissionTypeOK
<1>7. ItemsApart'
  BY <1>1, <1>4, <1>5 DEF SubmissionInv, ItemsApart
<1>8. OneLastUser'
  <2>1. \A v \in User : user'[v] \in Leaving <=> instanceGuard_' = v
    BY <1>1, <1>2, <1>4 DEF SubmissionInv, OneLastUser, Leaving
  <2> QED
    BY <1>1, <1>3, <1>4, <2>1 DEF SubmissionInv, OneLastUser
<1>9. ASSUME NEW v \in User
      PROVE  ItemOfUser(v)'
  BY <1>1, <1>2, <1>4, <1>5 DEF SubmissionInv, ItemOfUser
<1>10. ItemOfThread'
  BY <1>1, <1>4, <1>5 DEF ItemOfThread
<1>11. NoWakeUpLost'
  BY <1>2 DEF NoWakeUpLost
<1> QED
  BY <1>6, <1>7, <1>8, <1>9, <1>10, <1>11 DEF SubmissionInv

LEMMA StopKept ==
  ASSUME SubmissionInv, NEW u \in User, SignalStop(u) \/ DeleteInstance(u)
  PROVE  SubmissionInv'
<1>1. /\ user[u] \in Leaving /\ instanceGuard_ = u
      /\ UNCHANGED <<instances, instanceRefCount_, workList_, inHand, submitted, started>>
  BY DEF SignalStop, DeleteInstance, Leaving, SubmissionInv, OneLastUser, instanceVars
<1>2. /\ u # Unlocked /\ Stop \in Item /\ \A v \in User : v # Stop /\ v # Unlocked /\ v \in Item
      /\ References = {}
  BY <1>1, SubmissionAssumption DEF Item, SubmissionInv, OneLastUser
<1>3. CASE SignalStop(u)
  <2>1. /\ user' = [user EXCEPT ![u] = "joins"] /\ workAvailableEvent_' = TRUE
        /\ UNCHANGED <<instanceGuard_, instance_, doneSubmitting, submissionThread>>
    BY <1>3 DEF SignalStop, instanceVars
  <2>2. /\ user' \in [User -> UserStates] /\ user'[u] = "joins"
        /\ \A v \in User : v # u => user'[v] = user[v]
        /\ References' = {}
    <3>1. "joins" \in UserStates
      BY DEF UserStates
    <3> QED
      BY <1>2, <2>1, <3>1, ReferencesFollow
  <2>3. SubmissionTypeOK' /\ ItemsApart' /\ ItemOfThread'
    BY <1>1, <2>1, <2>2 DEF SubmissionInv, SubmissionTypeOK, ItemsApart, ItemOfThread, Listed
  <2>4. OneLastUser'
    BY <1>1, <1>2, <2>1, <2>2 DEF SubmissionInv, OneLastUser, Leaving
  <2>5. ASSUME NEW v \in User
        PROVE  ItemOfUser(v)'
    BY <1>1, <2>1, <2>2 DEF SubmissionInv, ItemOfUser, Listed, Leaving
  <2>6. NoWakeUpLost'
    BY <2>1 DEF NoWakeUpLost
  <2> QED
    BY <2>3, <2>4, <2>5, <2>6 DEF SubmissionInv
<1>4. CASE DeleteInstance(u)
  <2>1. /\ user' = [user EXCEPT ![u] = "outside"] /\ submissionThread = "ended"
        /\ doneSubmitting' = [doneSubmitting EXCEPT ![Stop] = FALSE]
        /\ submissionThread' = "none" /\ instance_' = Null /\ instanceGuard_' = Unlocked
        /\ UNCHANGED workAvailableEvent_
    BY <1>4 DEF DeleteInstance
  <2>2. /\ user' \in [User -> UserStates] /\ user'[u] = "outside"
        /\ \A v \in User : v # u => user'[v] = user[v]
        /\ References' = {}
    <3>1. "outside" \in UserStates
      BY DEF UserStates
    <3> QED
      BY <1>2, <2>1, <3>1, ReferencesFollow
  <2>3. /\ doneSubmitting' \in [Item -> BOOLEAN] /\ ~doneSubmitting'[Stop]
        /\ \A i \in User : doneSubmitting'[i] = doneSubmitting[i]
    BY <1>2, <2>1 DEF SubmissionInv, SubmissionTypeOK
  <2>4. workList_ = << >> /\ inHand = NoItem /\ Stop # NoItem /\ Stop \notin Listed
    BY <1>1, <1>2, <2>1, SubmissionAssumption DEF SubmissionInv, OneLastUser, ItemOfThread
  <2>5. SubmissionTypeOK'
    BY <1>1, <2>1, <2>2, <2>3 DEF SubmissionInv, SubmissionTypeOK, Null
  <2>6. ItemsApart'
    BY <1>1, <2>1, <2>4 DEF SubmissionInv, ItemsApart, Listed
  <2>7. OneLastUser'
    <3>1. \A v \in User : user'[v] \notin Leaving
      BY <1>1, <1>2, <2>2 DEF SubmissionInv, OneLastUser, Leaving
    <3> QED
      BY <1>1, <1>2, <2>1, <2>2, <2>4, <3>1 DEF SubmissionInv, OneLastUser
  <2>8. ASSUME NEW v \in User
        PROVE  ItemOfUser(v)'
    <3>1. user'[v] \notin {"pushed", "waits"} /\ user[v] \notin {"pushed", "waits"}
      BY <1>2, <2>2 DEF References
    <3> QED
      BY <3>1, <1>1, <2>3 DEF SubmissionInv, ItemOfUser, Listed
  <2>9. ItemOfThread'
    BY <1>1, <2>1, <2>3, <2>4 DEF ItemOfThread, Listed
  <2>10. NoWakeUpLost'
    BY <1>1, <2>4 DEF NoWakeUpLost
  <2> QED
    BY <2>5, <2>6, <2>7, <2>8, <2>9, <2>10 DEF SubmissionInv
<1> QED
  BY <1>3, <1>4

\* The thread: what it has taken from the list is in its hand until it is done.
LEMMA ThreadKept ==
  ASSUME SubmissionInv, Awake \/ PopItem \/ ListEmpty
  PROVE  SubmissionInv'
<1>1. UNCHANGED <<instanceGuard_, instance_, instances, instanceRefCount_, doneSubmitting, user, submitted,
                  started>>
  BY DEF Awake, PopItem, ListEmpty, instanceVars
<1>2. References' = References
  BY <1>1 DEF References
<1>3. submissionThread \in {"waits", "pops"} /\ inHand = NoItem
  BY DEF Awake, PopItem, ListEmpty, SubmissionInv, ItemsApart
<1>4. CASE Awake \/ ListEmpty
  <2>1. /\ submissionThread' \in {"waits", "pops"} /\ UNCHANGED <<workList_, inHand>>
        /\ workAvailableEvent_' \in BOOLEAN
        /\ workList_ # << >> => submissionThread' = "pops"
    BY <1>4 DEF Awake, ListEmpty, SubmissionInv, SubmissionTypeOK
  <2> QED
    BY <1>1, <1>2, <1>3, <2>1 DEF SubmissionInv, SubmissionTypeOK, ItemsApart, OneLastUser, ItemOfUser,
                                  ItemOfThread, NoWakeUpLost, Listed
<1>5. CASE PopItem
  <2>1. /\ workList_ # << >> /\ inHand' = Head(workList_) /\ workList_' = Tail(workList_)
        /\ submissionThread' = "processes" /\ UNCHANGED workAvailableEvent_
    BY <1>5 DEF PopItem
  <2>2. workList_ \in Seq(Item) /\ \A m, n \in DOMAIN workList_ : m # n => workList_[m] # workList_[n]
    BY DEF SubmissionInv, SubmissionTypeOK, ItemsApart
  <2>3. /\ inHand' \in Item /\ workList_' \in Seq(Item) /\ inHand' \in Listed
        /\ Listed' = Listed \ {inHand'}
        /\ \A m, n \in DOMAIN workList_' : m # n => workList_'[m] # workList_'[n]
    BY <2>1, <2>2, PopFacts DEF Listed
  <2>4. inHand' # NoItem /\ \A i \in Item : i # NoItem
    BY <2>3, SubmissionAssumption
  <2>5. SubmissionTypeOK' /\ NoWakeUpLost'
    BY <1>1, <2>1, <2>3 DEF SubmissionInv, SubmissionTypeOK, NoWakeUpLost
  <2>6. ItemsApart'
    BY <2>1, <2>3, <2>4 DEF ItemsApart
  <2>7. OneLastUser'
    BY <1>1, <1>2, <1>3, <2>1 DEF SubmissionInv, OneLastUser
  <2>8. ASSUME NEW i \in Item
        PROVE  (i \in Listed \/ i = inHand) <=> (i \in Listed' \/ i = inHand')
    BY <1>3, <2>3, <2>4
  <2>9. ASSUME NEW v \in User
        PROVE  ItemOfUser(v)'
    BY <1>1, <2>8 DEF SubmissionInv, ItemOfUser, Item
  <2>10. ItemOfThread'
    <3>1. (Stop \in Listed \/ Stop = inHand) <=> (Stop \in Listed' \/ Stop = inHand')
      BY <2>8 DEF Item
    <3>2. submissionThread # "ended" /\ submissionThread' # "ended"
      BY <1>3, <2>1
    <3> QED
      BY <1>1, <3>1, <3>2 DEF SubmissionInv, ItemOfThread
  <2> QED
    BY <2>5, <2>6, <2>7, <2>9, <2>10 DEF SubmissionInv
<1> QED
  BY <1>4, <1>5

LEMMA ProcessKept ==
  ASSUME SubmissionInv, Process
  PROVE  SubmissionInv'
<1>1. /\ submissionThread = "processes"
      /\ doneSubmitting' = [doneSubmitting EXCEPT ![inHand] = TRUE]
      /\ started' = [u \in User |-> IF u = inHand THEN started[u] + 1 ELSE started[u]]
      /\ submissionThread' = (IF inHand = Stop THEN "ended" ELSE "pops")
      /\ inHand' = NoItem
      /\ UNCHANGED <<instanceGuard_, instance_, instances, instanceRefCount_, workList_, workAvailableEvent_,
                     user, submitted>>
  BY DEF Process, NextItem, instanceVars
<1>2. /\ inHand \in Item /\ inHand \notin Listed /\ NoItem \notin Item
      /\ \A v \in User : v # Stop /\ v \in Item /\ v # NoItem
      /\ Stop \in Item /\ Stop # NoItem
  BY <1>1, SubmissionAssumption DEF SubmissionInv, SubmissionTypeOK, ItemsApart, Item
<1>3. References' = References /\ Listed' = Listed
  BY <1>1 DEF References, Listed
<1>4. /\ doneSubmitting' \in [Item -> BOOLEAN] /\ doneSubmitting'[inHand]
      /\ \A i \in Item : i # inHand => doneSubmitting'[i] = doneSubmitting[i]
  BY <1>1, <1>2 DEF SubmissionInv, SubmissionTypeOK
<1>5. /\ started' \in [User -> Nat]
      /\ \A v \in User : started'[v] = IF v = inHand THEN started[v] + 1 ELSE started[v]
  BY <1>1 DEF SubmissionInv, SubmissionTypeOK
<1>6. ASSUME inHand = Stop
      PROVE  workList_ = << >> /\ instanceGuard_ # Unlocked /\ submissionThread' = "ended"
  <2>1. instanceGuard_ # Unlocked /\ References = {}
    BY <1>6 DEF SubmissionInv, ItemOfThread, OneLastUser
  <2>2. \A v \in User : v \notin Listed
    BY <2>1 DEF SubmissionInv, ItemOfUser, References
  <2>3. workList_ \in Seq(Item) /\ Listed \subseteq Item
    BY DEF SubmissionInv, SubmissionTypeOK, Listed, ElementsOf
  <2>4. Listed = {}
    BY <1>2, <1>6, <2>2, <2>3 DEF Item
  <2> QED
    BY <1>1, <1>6, <2>1, <2>3, <2>4, NothingListed DEF Listed
<1>7. SubmissionTypeOK'
  BY <1>1, <1>4, <1>5 DEF SubmissionInv, SubmissionTypeOK
<1>8. ItemsApart'
  <2>1. NoItem \notin Listed
    BY <1>2 DEF SubmissionInv, SubmissionTypeOK, Listed, ElementsOf
  <2> QED
    BY <1>1, <1>3, <2>1 DEF SubmissionInv, ItemsApart
<1>9. OneLastUser'
  BY <1>1, <1>3, <1>6 DEF SubmissionInv, OneLastUser
<1>10. ASSUME NEW v \in User
       PROVE  ItemOfUser(v)'
  <2>1. CASE v = inHand
    <3>1. user[v] \in {"pushed", "waits"} /\ submitted[v] = started[v] + 1
      BY <2>1 DEF SubmissionInv, ItemOfUser
    <3> QED
      BY <2>1, <3>1, <1>1, <1>2, <1>3, <1>4, <1>5 DEF ItemOfUser
  <2>2. CASE v # inHand
    <3>1. doneSubmitting'[v] = doneSubmitting[v] /\ started'[v] = started[v] /\ v # NoItem
      BY <2>2, <1>2, <1>4, <1>5
    <3> QED
      BY <2>2, <3>1, <1>1, <1>3 DEF SubmissionInv, ItemOfUser
  <2> QED
    BY <2>1, <2>2
<1>11. ItemOfThread'
  <2>1. CASE inHand = Stop
    BY <2>1, <1>1, <1>2, <1>3, <1>4, <1>6 DEF ItemOfThread
  <2>2. CASE inHand # Stop
    <3>1. doneSubmitting'[Stop] = doneSubmitting[Stop] /\ submissionThread' = "pops"
      BY <2>2, <1>1, <1>2, <1>4
    <3> QED
      BY <2>2, <3>1, <1>1, <1>2, <1>3 DEF SubmissionInv, ItemOfThread
  <2> QED
    BY <2>1, <2>2
<1>12. NoWakeUpLost'
  BY <1>1, <1>6 DEF NoWakeUpLost
<1> QED
  BY <1>7, <1>8, <1>9, <1>10, <1>11, <1>12 DEF SubmissionInv

LEMMA SubmissionInvKept == SubmissionInv /\ [SubmissionNext]_submissionVars => SubmissionInv'
<1> SUFFICES ASSUME SubmissionInv, [SubmissionNext]_submissionVars
             PROVE  SubmissionInv'
  OBVIOUS
<1>1. CASE UNCHANGED submissionVars
  BY <1>1 DEF submissionVars, SubmissionInv, SubmissionTypeOK, ItemsApart, OneLastUser, ItemOfUser, ItemOfThread,
              NoWakeUpLost, Listed, References
<1> QED
  BY <1>1, AcquireKept, WorkKept, ReleaseSharedKept, ReleaseLastKept, StopKept, ThreadKept, ProcessKept
     DEF SubmissionNext

LEMMA SubmissionInvShows == SubmissionInv => ThreadOutlivesItsUsers /\ ItemsSubmittedOnce
<1> SUFFICES ASSUME SubmissionInv
             PROVE  ThreadOutlivesItsUsers /\ ItemsSubmittedOnce
  OBVIOUS
<1>1. ThreadOutlivesItsUsers
  BY DEF SubmissionInv, SubmissionTypeOK, OneLastUser, ItemOfThread, ThreadOutlivesItsUsers
<1>2. ItemsSubmittedOnce
  <2>1. ASSUME NEW u \in User
        PROVE  /\ user[u] \in {"outside", "holds"} => started[u] = submitted[u]
               /\ started[u] =< submitted[u]
    <3>1. submitted[u] \in Nat /\ started[u] \in Nat
      BY DEF SubmissionInv, SubmissionTypeOK
    <3> QED
      BY <3>1 DEF SubmissionInv, ItemOfUser
  <2> QED
    BY <2>1 DEF SubmissionInv, NoWakeUpLost, ItemsSubmittedOnce
<1> QED
  BY <1>1, <1>2

LEMMA SubmissionThreadOwned == SubmissionSpec => [](ThreadOutlivesItsUsers /\ ItemsSubmittedOnce)
BY SubmissionStarts, SubmissionInvKept, SubmissionInvShows, PTL DEF SubmissionSpec

\* Whatever is opened, accepted, connected, interrupted and closed, in whatever order, every descriptor
\* and handle is its holder's own and none is lost, and the submission thread outlives its users: for
\* any numbers of sockets, pools, pipes and users (TServerSocket.cpp, TSocketPool.cpp, TPipeServer.cpp,
\* TPipe.cpp, TOverlappedSubmissionThread.cpp).
THEOREM DescriptorsStayOwned ==
  ServerSocketSpec /\ SocketPoolSpec /\ PipesSpec /\ SubmissionSpec => []SocketsOwned
<1>1. DescriptorsExact /\ ChildrenInterrupted /\ ConnectedToCurrent /\ (PipeHandlesOwned /\ InterruptHolds /\ ListenEventTells)
        /\ (ThreadOutlivesItsUsers /\ ItemsSubmittedOnce) => SocketsOwned
  BY DEF SocketsOwned
<1> QED
  BY <1>1, DescriptorsStayExact, PoolsStayConnected, PipesStayOwned, SubmissionThreadOwned, PTL

-----------------------------------------------------------------------------
\* Asynchronous calls over HTTP: the inductive invariant.

Requests == Stub \X Nat

\* A request libevent has is the last of its client, and its completion is in the same place of the queue;
\* a call that is under way has not ended, and no call is lost.
RequestsQueued ==
  /\ connRequests \in Seq(Requests) /\ completionQueue_ = connRequests
  /\ calls \in [Stub -> Nat]
  /\ \A i \in DOMAIN connRequests : /\ connRequests[i][2] = calls[connRequests[i][1]]
                                    /\ connRequests[i][2] > 0
  /\ \A i, j \in DOMAIN connRequests : i # j => connRequests[i][1] # connRequests[j][1]
  /\ callback # Nobody => /\ callback \in Requests /\ callback[2] = calls[callback[1]]
                          /\ callback[2] > 0
                          /\ \A i \in DOMAIN connRequests : connRequests[i][1] # callback[1]

EndedOnce ==
  /\ results \in Seq(Stub \X Nat \X (Requests \cup {Nobody}))
  /\ \A i \in DOMAIN results :
       /\ results[i][2] =< calls[results[i][1]] /\ results[i][2] > 0
       /\ callback # Nobody /\ callback[1] = results[i][1] => results[i][2] < calls[results[i][1]]
       /\ \A j \in DOMAIN connRequests :
            connRequests[j][1] = results[i][1] => results[i][2] < calls[results[i][1]]
  /\ \A i, j \in DOMAIN results :
       i # j => results[i][1] # results[j][1] \/ results[i][2] # results[j][2]

OwnBuffers ==
  /\ recvBuf \in [Stub -> Requests \cup {Nobody}]
  /\ \A k \in Stub : k \notin brokenOff /\ recvBuf[k] # Nobody => callback = recvBuf[k] /\ callback[1] = k
  /\ \A i \in DOMAIN results :
       results[i][1] \notin brokenOff => results[i][3] \in {Nobody, <<results[i][1], results[i][2]>>}

ContextsHeld ==
  /\ leaked \subseteq contexts /\ contexts \subseteq Requests
  /\ \A r \in contexts : r[2] =< calls[r[1]]
  /\ accepted \in BOOLEAN
  /\ accepted => connRequests # << >>
  /\ \A r \in contexts, i \in DOMAIN connRequests : connRequests[i] = r => accepted /\ i = 1
  /\ accepted /\ reply = "none" => Under \in contexts \ leaked

\* NotLost, with its state as parameters.
KnownCall(c, queue, running, over, lost) ==
  \/ \E i \in DOMAIN queue : queue[i] = c
  \/ running = c
  \/ \E i \in DOMAIN over : <<over[i][1], over[i][2]>> = c
  \/ lost = c

NoneLost ==
  \A k \in Stub : \A n \in 1..calls[k] : KnownCall(<<k, n>>, completionQueue_, callback, results, aborted)

EvhttpInv == RequestsQueued /\ EndedOnce /\ OwnBuffers /\ ContextsHeld /\ NoneLost

LEMMA EvhttpStarts == EvhttpInit => EvhttpInv
<1> SUFFICES ASSUME EvhttpInit
             PROVE  EvhttpInv
  OBVIOUS
<1> USE DEF EvhttpInit, Requests
<1>1. << >> \in Seq(Requests) /\ << >> \in Seq(Stub \X Nat \X (Requests \cup {Nobody})) /\ DOMAIN << >> = {}
  OBVIOUS
<1>2. RequestsQueued
  BY <1>1 DEF RequestsQueued
<1>3. EndedOnce
  BY <1>1 DEF EndedOnce
<1>4. OwnBuffers
  BY <1>1 DEF OwnBuffers
<1>5. ContextsHeld
  BY <1>1 DEF ContextsHeld
<1>6. NoneLost
  BY DEF NoneLost
<1> QED
  BY <1>2, <1>3, <1>4, <1>5, <1>6 DEF EvhttpInv

\* What is in the queue and in the history are calls.
LEMMA ElementsTyped ==
  ASSUME EvhttpInv
  PROVE  /\ \A i \in DOMAIN connRequests :
              /\ connRequests[i] \in Stub \X Nat
              /\ connRequests[i] = <<connRequests[i][1], connRequests[i][2]>>
              /\ connRequests[i][1] \in Stub /\ connRequests[i][2] \in Nat
         /\ \A i \in DOMAIN results :
              /\ results[i][1] \in Stub /\ results[i][2] \in Nat
              /\ results[i] = <<results[i][1], results[i][2], results[i][3]>>
         /\ \A k \in Stub : calls[k] \in Nat
<1>1. /\ connRequests \in Seq(Stub \X Nat) /\ results \in Seq(Stub \X Nat \X (Requests \cup {Nobody}))
      /\ calls \in [Stub -> Nat]
  BY DEF EvhttpInv, RequestsQueued, EndedOnce, Requests
<1>2. \A i \in DOMAIN connRequests : connRequests[i] \in Stub \X Nat
  BY <1>1
<1>3. \A i \in DOMAIN results : results[i] \in Stub \X Nat \X (Requests \cup {Nobody})
  BY <1>1
<1> QED
  BY <1>1, <1>2, <1>3

\* A new call of a client that has none under way.
LEMMA NewCall ==
  ASSUME EvhttpInv, NEW k \in Stub, MayCall(k), calls' = [calls EXCEPT ![k] = @ + 1]
  PROVE  /\ calls' \in [Stub -> Nat] /\ calls'[k] = calls[k] + 1 /\ calls[k] \in Nat
         /\ \A j \in Stub : j # k => calls'[j] = calls[j]
         /\ \A i \in DOMAIN connRequests : connRequests[i][1] # k
         /\ callback[1] # k
         /\ <<k, calls[k] + 1>> \in Requests
BY DEF EvhttpInv, RequestsQueued, MayCall, Requests

\* What has become of the calls made before, and of the new one, is known.
LEMMA NewCallAccounted ==
  ASSUME NEW k \in Stub, calls[k] \in Nat, calls'[k] = calls[k] + 1,
         \A j \in Stub : j # k => calls'[j] = calls[j],
         \A j \in Stub : \A n \in 1..calls[j] : KnownCall(<<j, n>>, completionQueue_', callback', results', aborted'),
         KnownCall(<<k, calls[k] + 1>>, completionQueue_', callback', results', aborted')
  PROVE  NoneLost'
<1>1. ASSUME NEW j \in Stub, NEW n \in 1..calls'[j]
      PROVE  KnownCall(<<j, n>>, completionQueue_', callback', results', aborted')
  <2>1. CASE j = k /\ n = calls[k] + 1
    BY <2>1
  <2>2. CASE ~(j = k /\ n = calls[k] + 1)
    <3>1. n \in 1..calls[j]
      BY <2>2
    <3> QED
      BY <3>1
  <2> QED
    BY <2>1, <2>2
<1> QED
  BY <1>1 DEF NoneLost, KnownCall

LEMMA CallsKept ==
  ASSUME EvhttpInv, NEW k \in Stub,
         sendAndRecvMessage(k) \/ SendThrows(k) \/ SendAnsweredAtOnce(k)
  PROVE  EvhttpInv'
<1>1. CASE sendAndRecvMessage(k)
  <2> DEFINE new == <<k, calls[k] + 1>>
  <2>1. /\ calls' \in [Stub -> Nat] /\ calls'[k] = calls[k] + 1 /\ calls[k] \in Nat
        /\ \A j \in Stub : j # k => calls'[j] = calls[j]
        /\ \A i \in DOMAIN connRequests : connRequests[i][1] # k
        /\ callback[1] # k /\ new \in Requests /\ new[1] = k /\ new[2] = calls[k] + 1
    BY <1>1, NewCall DEF sendAndRecvMessage
  <2>2. /\ connRequests' = Append(connRequests, new) /\ completionQueue_' = Append(completionQueue_, new)
        /\ connRequests \in Seq(Requests) /\ completionQueue_ = connRequests
    BY <1>1 DEF sendAndRecvMessage, EvhttpInv, RequestsQueued
  <2> HIDE DEF new
  <2>3. /\ connRequests' \in Seq(Requests) /\ completionQueue_' = connRequests'
        /\ DOMAIN connRequests = 1..Len(connRequests) /\ DOMAIN connRequests' = 1 .. Len(connRequests) + 1
        /\ Len(connRequests) \in Nat
        /\ \A i \in 1..Len(connRequests) : connRequests'[i] = connRequests[i]
        /\ connRequests'[Len(connRequests) + 1] = new
        /\ \A i \in DOMAIN connRequests' : i \in DOMAIN connRequests \/ i = Len(connRequests) + 1
    BY <2>1, <2>2, AppendFacts
  <2>4. UNCHANGED <<recvBuf, accepted, reply, contexts, leaked, callback, results, brokenOff>>
    BY <1>1 DEF sendAndRecvMessage, serverSide
  <2>5. RequestsQueued'
    <3>1. ASSUME NEW i \in DOMAIN connRequests'
          PROVE  connRequests'[i][2] = calls'[connRequests'[i][1]] /\ connRequests'[i][2] > 0
      <4>1. CASE i \in DOMAIN connRequests
        <5>1. connRequests'[i] = connRequests[i] /\ connRequests[i][1] \in Stub /\ connRequests[i][1] # k
          BY <4>1, <2>1, <2>3, ElementsTyped
        <5>2. connRequests[i][2] = calls[connRequests[i][1]] /\ connRequests[i][2] > 0
          BY <4>1 DEF EvhttpInv, RequestsQueued
        <5> QED
          BY <5>1, <5>2, <2>1
      <4>2. CASE i = Len(connRequests) + 1
        BY <4>2, <2>1, <2>3
      <4> QED
        BY <4>1, <4>2, <2>3
    <3>2. ASSUME NEW i \in DOMAIN connRequests', NEW j \in DOMAIN connRequests', i # j
          PROVE  connRequests'[i][1] # connRequests'[j][1]
      <4>1. CASE i \in DOMAIN connRequests /\ j \in DOMAIN connRequests
        BY <4>1, <3>2, <2>3 DEF EvhttpInv, RequestsQueued
      <4>2. CASE i = Len(connRequests) + 1 \/ j = Len(connRequests) + 1
        BY <4>2, <3>2, <2>1, <2>3
      <4> QED
        BY <4>1, <4>2, <2>3
    <3>3. callback' # Nobody =>
            /\ callback' \in Requests /\ callback'[2] = calls'[callback'[1]] /\ callback'[2] > 0
            /\ \A i \in DOMAIN connRequests' : connRequests'[i][1] # callback'[1]
      <4> SUFFICES ASSUME callback # Nobody
                   PROVE  /\ callback \in Requests /\ callback[2] = calls'[callback[1]] /\ callback[2] > 0
                          /\ \A i \in DOMAIN connRequests' : connRequests'[i][1] # callback[1]
        BY <2>4
      <4>1. /\ callback \in Requests /\ callback[2] = calls[callback[1]] /\ callback[2] > 0
            /\ \A i \in DOMAIN connRequests : connRequests[i][1] # callback[1]
        BY DEF EvhttpInv, RequestsQueued
      <4>2. callback[1] \in Stub
        BY <4>1 DEF Requests
      <4> QED
        BY <4>1, <4>2, <2>1, <2>3
    <3> QED
      BY <3>1, <3>2, <3>3, <2>1, <2>3 DEF RequestsQueued
  <2>6. EndedOnce'
    <3>1. ASSUME NEW i \in DOMAIN results
          PROVE  /\ results[i][2] =< calls'[results[i][1]] /\ results[i][2] > 0
                 /\ callback # Nobody /\ callback[1] = results[i][1] => results[i][2] < calls'[results[i][1]]
                 /\ \A j \in DOMAIN connRequests' :
                      connRequests'[j][1] = results[i][1] => results[i][2] < calls'[results[i][1]]
      <4>1. /\ results[i][1] \in Stub /\ results[i][2] \in Nat /\ calls[results[i][1]] \in Nat
            /\ results[i][2] =< calls[results[i][1]] /\ results[i][2] > 0
            /\ callback # Nobody /\ callback[1] = results[i][1] => results[i][2] < calls[results[i][1]]
            /\ \A j \in DOMAIN connRequests :
                 connRequests[j][1] = results[i][1] => results[i][2] < calls[results[i][1]]
        BY ElementsTyped DEF EvhttpInv, EndedOnce
      <4>2. CASE results[i][1] = k
        BY <4>1, <4>2, <2>1
      <4>3. CASE results[i][1] # k
        BY <4>1, <4>3, <2>1, <2>3
      <4> QED
        BY <4>2, <4>3
    <3> QED
      BY <3>1, <2>4 DEF EvhttpInv, EndedOnce
  <2>7. OwnBuffers'
    BY <2>4 DEF EvhttpInv, OwnBuffers
  <2>8. ContextsHeld'
    <3>1. \A r \in contexts : r[1] \in Stub /\ r[2] \in Nat /\ r[2] =< calls'[r[1]] /\ new # r
      BY <2>1 DEF EvhttpInv, ContextsHeld, Requests
    <3>2. accepted => Under' = Under /\ connRequests' # << >>
      BY <2>3, <2>4 DEF EvhttpInv, ContextsHeld, Under
    <3>3. \A r \in contexts, i \in DOMAIN connRequests' : connRequests'[i] = r => accepted /\ i = 1
      BY <2>3, <3>1 DEF EvhttpInv, ContextsHeld
    <3> QED
      BY <3>1, <3>2, <3>3, <2>4 DEF EvhttpInv, ContextsHeld
  <2>9. NoneLost'
    <3>1. callback' = callback /\ results' = results /\ aborted' = aborted
      BY <1>1 DEF sendAndRecvMessage
    <3>2. ASSUME NEW c, KnownCall(c, completionQueue_, callback, results, aborted)
          PROVE  KnownCall(c, completionQueue_', callback', results', aborted')
      <4>1. (\E i \in DOMAIN completionQueue_ : completionQueue_[i] = c)
              => \E i \in DOMAIN completionQueue_' : completionQueue_'[i] = c
        BY <2>2, <2>3
      <4> QED
        BY <3>1, <3>2, <4>1, Zenon DEF KnownCall
    <3>3. \E i \in DOMAIN completionQueue_' : completionQueue_'[i] = new
      BY <2>2, <2>3
    <3>4. KnownCall(<<k, calls[k] + 1>>, completionQueue_', callback', results', aborted')
      BY <3>3, Zenon DEF KnownCall, new
    <3>5. \A j \in Stub : \A n \in 1..calls[j] : KnownCall(<<j, n>>, completionQueue_', callback', results', aborted')
      BY <3>2, Zenon DEF EvhttpInv, NoneLost
    <3> QED
      BY <2>1, <3>4, <3>5, NewCallAccounted
  <2> QED
    BY <2>5, <2>6, <2>7, <2>8, <2>9 DEF EvhttpInv
<1>2. CASE SendThrows(k)
  <2> DEFINE new == <<k, calls[k] + 1, Nobody>>
             R == Stub \X Nat \X (Requests \cup {Nobody})
  <2>1. /\ calls' \in [Stub -> Nat] /\ calls'[k] = calls[k] + 1 /\ calls[k] \in Nat
        /\ \A j \in Stub : j # k => calls'[j] = calls[j]
        /\ \A i \in DOMAIN connRequests : connRequests[i][1] # k
        /\ callback[1] # k
    BY <1>2, NewCall DEF SendThrows
  <2>2. /\ results' = Append(results, new) /\ results \in Seq(R)
        /\ new \in R /\ new[1] = k /\ new[2] = calls[k] + 1 /\ new[3] = Nobody
    BY <1>2, <2>1 DEF SendThrows, EvhttpInv, EndedOnce
  <2> HIDE DEF new, R
  <2>3. /\ results' \in Seq(R)
        /\ DOMAIN results = 1..Len(results) /\ DOMAIN results' = 1 .. Len(results) + 1
        /\ Len(results) \in Nat
        /\ \A i \in 1..Len(results) : results'[i] = results[i]
        /\ results'[Len(results) + 1] = new
        /\ \A i \in DOMAIN results' : i \in DOMAIN results \/ i = Len(results) + 1
    BY <2>2, AppendFacts
  <2>4. UNCHANGED <<recvBuf, completionQueue_, connRequests, accepted, reply, contexts, leaked, callback,
                    brokenOff>>
    BY <1>2 DEF SendThrows, serverSide
  <2>5. RequestsQueued'
    BY <2>1, <2>4, ElementsTyped DEF EvhttpInv, RequestsQueued, Requests
  <2>6. EndedOnce'
    <3>1. \A i \in DOMAIN results : calls[results[i][1]] =< calls'[results[i][1]]
      BY <2>1, ElementsTyped
    <3>2. results' \in Seq(Stub \X Nat \X (Requests \cup {Nobody}))
      BY <2>3 DEF R
    <3>3. \A i \in DOMAIN results' :
            /\ results'[i][2] =< calls'[results'[i][1]] /\ results'[i][2] > 0
            /\ callback # Nobody /\ callback[1] = results'[i][1] => results'[i][2] < calls'[results'[i][1]]
            /\ \A j \in DOMAIN connRequests :
                 connRequests[j][1] = results'[i][1] => results'[i][2] < calls'[results'[i][1]]
      BY <3>1, <2>1, <2>2, <2>3, ElementsTyped DEF EvhttpInv, RequestsQueued, EndedOnce
    <3>4. ASSUME NEW i \in DOMAIN results', NEW j \in DOMAIN results', i # j
          PROVE  results'[i][1] # results'[j][1] \/ results'[i][2] # results'[j][2]
      <4>1. CASE i \in DOMAIN results /\ j \in DOMAIN results
        BY <4>1, <3>4, <2>3 DEF EvhttpInv, EndedOnce
      <4>2. \A l \in DOMAIN results : results[l][1] # k \/ results[l][2] < calls[k] + 1
        BY <2>1, ElementsTyped DEF EvhttpInv, EndedOnce
      <4>3. \A l \in DOMAIN results : results'[l][1] # k \/ results'[l][2] # calls[k] + 1
        BY <4>2, <2>1, <2>3, ElementsTyped
      <4>4. CASE i = Len(results) + 1 \/ j = Len(results) + 1
        BY <4>3, <4>4, <3>4, <2>2, <2>3
      <4> QED
        BY <4>1, <4>4, <2>3
    <3> QED
      BY <3>2, <3>3, <3>4, <2>4 DEF EndedOnce
  <2>7. OwnBuffers'
    BY <2>2, <2>3, <2>4 DEF EvhttpInv, OwnBuffers
  <2>8. ContextsHeld'
    <3>1. \A r \in contexts : r[1] \in Stub /\ r[2] \in Nat /\ r[2] =< calls'[r[1]]
      BY <2>1 DEF EvhttpInv, ContextsHeld, Requests
    <3> QED
      BY <3>1, <2>4 DEF EvhttpInv, ContextsHeld, Under
  <2>9. NoneLost'
    <3>1. aborted' = aborted /\ callback' = callback /\ completionQueue_' = completionQueue_
      BY <1>2, <2>4 DEF SendThrows
    <3>2. ASSUME NEW c, KnownCall(c, completionQueue_, callback, results, aborted)
          PROVE  KnownCall(c, completionQueue_', callback', results', aborted')
      <4>1. (\E i \in DOMAIN results : <<results[i][1], results[i][2]>> = c)
              => \E i \in DOMAIN results' : <<results'[i][1], results'[i][2]>> = c
        BY <2>3
      <4> QED
        BY <3>1, <3>2, <4>1, Zenon DEF KnownCall
    <3>3. <<new[1], new[2]>> = <<k, calls[k] + 1>> /\ Len(results) + 1 \in DOMAIN results'
      BY <2>2, <2>3
    <3>4. KnownCall(<<k, calls[k] + 1>>, completionQueue_', callback', results', aborted')
      BY <2>3, <3>3, Zenon DEF KnownCall
    <3>5. \A j \in Stub : \A n \in 1..calls[j] : KnownCall(<<j, n>>, completionQueue_', callback', results', aborted')
      BY <3>2, Zenon DEF EvhttpInv, NoneLost
    <3> QED
      BY <2>1, <3>4, <3>5, NewCallAccounted
  <2> QED
    BY <2>5, <2>6, <2>7, <2>8, <2>9 DEF EvhttpInv
<1>3. CASE SendAnsweredAtOnce(k)
  <2>1. /\ calls' \in [Stub -> Nat] /\ calls'[k] = calls[k] + 1 /\ calls[k] \in Nat
        /\ \A j \in Stub : j # k => calls'[j] = calls[j]
        /\ \A i \in DOMAIN connRequests : connRequests[i][1] # k
        /\ callback[1] # k
    BY <1>3, NewCall DEF SendAnsweredAtOnce
  <2>2. UNCHANGED <<recvBuf, completionQueue_, connRequests, accepted, reply, contexts, leaked, callback,
                    results, brokenOff>> /\ aborted = Nobody /\ aborted' = <<k, calls[k] + 1>>
    BY <1>3 DEF SendAnsweredAtOnce, MayCall, serverSide
  <2>3. RequestsQueued'
    BY <2>1, <2>2, ElementsTyped DEF EvhttpInv, RequestsQueued, Requests
  <2>4. EndedOnce'
    <3>1. \A i \in DOMAIN results : calls[results[i][1]] =< calls'[results[i][1]]
      BY <2>1, ElementsTyped
    <3>2. \A i \in DOMAIN results :
            /\ results[i][2] =< calls'[results[i][1]] /\ results[i][2] > 0
            /\ callback # Nobody /\ callback[1] = results[i][1] => results[i][2] < calls'[results[i][1]]
            /\ \A j \in DOMAIN connRequests :
                 connRequests[j][1] = results[i][1] => results[i][2] < calls'[results[i][1]]
      <4> SUFFICES ASSUME NEW i \in DOMAIN results
                   PROVE  /\ results[i][2] =< calls'[results[i][1]] /\ results[i][2] > 0
                          /\ callback # Nobody /\ callback[1] = results[i][1] =>
                               results[i][2] < calls'[results[i][1]]
                          /\ \A j \in DOMAIN connRequests :
                               connRequests[j][1] = results[i][1] => results[i][2] < calls'[results[i][1]]
        OBVIOUS
      <4>1. /\ results[i][1] \in Stub /\ results[i][2] \in Nat
            /\ calls[results[i][1]] \in Nat /\ calls'[results[i][1]] \in Nat
            /\ calls[results[i][1]] =< calls'[results[i][1]]
        BY <2>1, <3>1, ElementsTyped
      <4>2. /\ results[i][2] =< calls[results[i][1]] /\ results[i][2] > 0
            /\ callback # Nobody /\ callback[1] = results[i][1] => results[i][2] < calls[results[i][1]]
            /\ \A j \in DOMAIN connRequests :
                 connRequests[j][1] = results[i][1] => results[i][2] < calls[results[i][1]]
        BY DEF EvhttpInv, EndedOnce
      <4> QED
        BY <4>1, <4>2
    <3> QED
      BY <3>2, <2>2 DEF EvhttpInv, EndedOnce
  <2>5. OwnBuffers'
    BY <2>2 DEF EvhttpInv, OwnBuffers
  <2>6. ContextsHeld'
    <3>1. \A r \in contexts : r[1] \in Stub /\ r[2] \in Nat /\ r[2] =< calls'[r[1]]
      BY <2>1 DEF EvhttpInv, ContextsHeld, Requests
    <3> QED
      BY <3>1, <2>2 DEF EvhttpInv, ContextsHeld, Under
  <2>7. NoneLost'
    <3>1. ASSUME NEW j \in Stub, NEW n \in 1..calls[j]
          PROVE  KnownCall(<<j, n>>, completionQueue_', callback', results', aborted')
      <4>1. <<j, n>> # Nobody /\ n \in Nat
        BY <2>1, ElementsTyped DEF Nobody
      <4>2. KnownCall(<<j, n>>, completionQueue_, callback, results, aborted)
        BY Zenon DEF EvhttpInv, NoneLost
      <4> QED
        BY <4>1, <4>2, <2>2, Zenon DEF KnownCall
    <3>2. KnownCall(<<k, calls[k] + 1>>, completionQueue_', callback', results', aborted')
      BY <2>2, Zenon DEF KnownCall
    <3> QED
      BY <2>1, <3>1, <3>2, NewCallAccounted
  <2> QED
    BY <2>3, <2>4, <2>5, <2>6, <2>7 DEF EvhttpInv
<1> QED
  BY <1>1, <1>2, <1>3

LEMMA FinishKept ==
  ASSUME EvhttpInv, NEW status, Finish(status)
  PROVE  EvhttpInv'
<1>1. /\ connRequests # << >> /\ connRequests \in Seq(Requests)
      /\ callback = Nobody /\ callback' = Head(connRequests)
      /\ connRequests' = Tail(connRequests) /\ completionQueue_' = Tail(connRequests)
  BY DEF EvhttpInv, RequestsQueued, Finish, Pop
<1>2. /\ DOMAIN connRequests = 1..Len(connRequests) /\ DOMAIN connRequests' = 1 .. Len(connRequests) - 1
      /\ Len(connRequests) \in Nat \ {0}
      /\ \A i \in DOMAIN connRequests' : /\ i + 1 \in DOMAIN connRequests /\ i + 1 # 1
                                         /\ connRequests'[i] = connRequests[i + 1]
      /\ 1 \in DOMAIN connRequests /\ connRequests[1] = callback' /\ callback' = Under
      /\ callback' \in Requests /\ callback'[1] \in Stub /\ callback'[2] \in Nat
      /\ connRequests' \in Seq(Requests)
  BY <1>1, TailFacts DEF Under, Requests
<1>3. UNCHANGED <<calls, contexts, leaked, results, brokenOff>> /\ accepted' = FALSE /\ reply' = "none"
  BY DEF Finish, serverSide
<1>4. RequestsQueued'
  <2>1. \A i, j \in DOMAIN connRequests : i # j => connRequests[i][1] # connRequests[j][1]
    BY DEF EvhttpInv, RequestsQueued
  <2>2. ASSUME NEW i \in DOMAIN connRequests', NEW j \in DOMAIN connRequests', i # j
        PROVE  connRequests'[i][1] # connRequests'[j][1]
    <3>1. i + 1 # j + 1
      BY <2>2, <1>2
    <3> QED
      BY <3>1, <2>1, <1>2
  <2>3. \A i \in DOMAIN connRequests' : /\ connRequests'[i][2] = calls[connRequests'[i][1]]
                                         /\ connRequests'[i][2] > 0
    BY <1>2 DEF EvhttpInv, RequestsQueued
  <2>4. callback'[2] = calls[callback'[1]] /\ callback'[2] > 0
    BY <1>2 DEF EvhttpInv, RequestsQueued
  <2>5. \A i \in DOMAIN connRequests' : connRequests'[i][1] # callback'[1]
    BY <2>1, <1>2
  <2> QED
    BY <2>2, <2>3, <2>4, <2>5, <1>1, <1>2, <1>3 DEF EvhttpInv, RequestsQueued
<1>5. EndedOnce'
  <2>1. ASSUME NEW i \in DOMAIN results
        PROVE  /\ callback'[1] = results[i][1] => results[i][2] < calls[results[i][1]]
               /\ \A j \in DOMAIN connRequests' :
                    connRequests'[j][1] = results[i][1] => results[i][2] < calls[results[i][1]]
    <3>1. \A j \in DOMAIN connRequests :
            connRequests[j][1] = results[i][1] => results[i][2] < calls[results[i][1]]
      BY DEF EvhttpInv, EndedOnce
    <3> QED
      BY <3>1, <1>2
  <2> QED
    BY <1>3, <2>1 DEF EvhttpInv, EndedOnce
<1>6. OwnBuffers'
  <2>1. recvBuf \in [Stub -> Requests \cup {Nobody}]
        /\ \A j \in Stub : j \notin brokenOff => recvBuf[j] = Nobody
    BY <1>1 DEF EvhttpInv, OwnBuffers
  <2>2. recvBuf' = IF status = "200" THEN [recvBuf EXCEPT ![callback'[1]] = callback'] ELSE recvBuf
    BY <1>2 DEF Finish
  <2>3. /\ recvBuf' \in [Stub -> Requests \cup {Nobody}]
        /\ \A j \in Stub : j \notin brokenOff /\ recvBuf'[j] # Nobody =>
                             callback' = recvBuf'[j] /\ callback'[1] = j
    BY <2>1, <2>2, <1>2
  <2> QED
    BY <2>3, <1>3 DEF EvhttpInv, OwnBuffers
<1>7. ContextsHeld'
  BY <1>1, <1>2, <1>3 DEF EvhttpInv, RequestsQueued, ContextsHeld
<1>8. NoneLost'
  <2>1. aborted' = aborted
    BY DEF Finish
  <2>2. completionQueue_ = connRequests /\ completionQueue_' = connRequests'
    BY <1>1 DEF EvhttpInv, RequestsQueued
  <2>3. ASSUME NEW c, \E i \in DOMAIN completionQueue_ : completionQueue_[i] = c
        PROVE  callback' = c \/ \E i \in DOMAIN completionQueue_' : completionQueue_'[i] = c
    <3>1. PICK i \in DOMAIN connRequests : connRequests[i] = c
      BY <2>2, <2>3
    <3>2. CASE i = 1
      BY <3>1, <3>2, <1>2
    <3>3. CASE i # 1
      <4>1. i - 1 \in DOMAIN connRequests' /\ connRequests'[i - 1] = connRequests[(i - 1) + 1]
            /\ (i - 1) + 1 = i
        BY <3>3, <1>2
      <4> QED
        BY <4>1, <3>1, <2>2
    <3> QED
      BY <3>2, <3>3
  <2>4. ASSUME NEW j \in Stub, NEW n \in 1..calls[j]
        PROVE  KnownCall(<<j, n>>, completionQueue_', callback', results', aborted')
    <3>1. <<j, n>> # Nobody
      BY DEF Nobody
    <3>2. KnownCall(<<j, n>>, completionQueue_, callback, results, aborted)
      BY Zenon DEF EvhttpInv, NoneLost
    <3> QED
      BY <3>1, <3>2, <1>1, <1>3, <2>1, <2>3, Zenon DEF KnownCall
  <2> QED
    BY <1>3, <2>4, Zenon DEF NoneLost
<1> QED
  BY <1>4, <1>5, <1>6, <1>7, <1>8 DEF EvhttpInv

LEMMA CompletionsKept ==
  ASSUME EvhttpInv, CompletionReads \/ CompletionBreaksOff
  PROVE  EvhttpInv'
<1> DEFINE R == Stub \X Nat \X (Requests \cup {Nobody})
<1>1. callback # Nobody /\ callback \in Requests /\ callback' = Nobody
  BY DEF CompletionReads, CompletionBreaksOff, EvhttpInv, RequestsQueued
<1>2. callback[1] \in Stub /\ callback[2] \in Nat /\ callback = <<callback[1], callback[2]>>
  BY <1>1 DEF Requests
<1>3. PICK read \in Requests \cup {Nobody} :
        /\ results' = Append(results, <<callback[1], callback[2], read>>)
        /\ callback[1] \notin brokenOff' => read \in {Nobody, <<callback[1], callback[2]>>}
  <2>1. CASE CompletionReads
    <3>1. recvBuf[callback[1]] \in Requests \cup {Nobody}
      BY <1>2 DEF EvhttpInv, OwnBuffers
    <3>2. callback[1] \notin brokenOff => recvBuf[callback[1]] \in {Nobody, callback}
      BY <1>1, <1>2 DEF EvhttpInv, OwnBuffers
    <3> QED
      BY <1>2, <2>1, <3>1, <3>2 DEF CompletionReads
  <2>2. CASE CompletionBreaksOff
    BY <2>2 DEF CompletionBreaksOff
  <2> QED
    BY <2>1, <2>2
<1> DEFINE new == <<callback[1], callback[2], read>>
<1>4. results' = Append(results, new) /\ results \in Seq(R)
      /\ new \in R /\ new[1] = callback[1] /\ new[2] = callback[2] /\ new[3] = read
  BY <1>2, <1>3 DEF EvhttpInv, EndedOnce
<1> HIDE DEF new, R
<1>5. /\ results' \in Seq(R)
      /\ DOMAIN results = 1..Len(results) /\ DOMAIN results' = 1 .. Len(results) + 1
      /\ Len(results) \in Nat
      /\ \A i \in 1..Len(results) : results'[i] = results[i]
      /\ results'[Len(results) + 1] = new
      /\ \A i \in DOMAIN results' : i \in DOMAIN results \/ i = Len(results) + 1
  BY <1>4, AppendFacts
<1>6. /\ brokenOff \subseteq brokenOff'
      /\ UNCHANGED <<calls, completionQueue_, connRequests, accepted, reply, contexts, leaked>>
  BY DEF CompletionReads, CompletionBreaksOff, serverSide
<1>7. RequestsQueued'
  BY <1>1, <1>6 DEF EvhttpInv, RequestsQueued
<1>8. EndedOnce'
  <2>1. results' \in Seq(Stub \X Nat \X (Requests \cup {Nobody}))
    BY <1>5 DEF R
  <2>2. callback[2] = calls[callback[1]] /\ callback[2] > 0
        /\ \A i \in DOMAIN connRequests : connRequests[i][1] # callback[1]
    BY <1>1 DEF EvhttpInv, RequestsQueued
  <2>3. \A i \in DOMAIN results :
          callback[1] = results[i][1] => results[i][2] < callback[2]
    BY <1>1, <2>2 DEF EvhttpInv, EndedOnce
  <2>4. \A i \in DOMAIN results' :
          /\ results'[i][2] =< calls[results'[i][1]] /\ results'[i][2] > 0
          /\ \A j \in DOMAIN connRequests :
               connRequests[j][1] = results'[i][1] => results'[i][2] < calls[results'[i][1]]
    BY <1>2, <1>4, <1>5, <2>2, ElementsTyped DEF EvhttpInv, EndedOnce
  <2>5. ASSUME NEW i \in DOMAIN results', NEW j \in DOMAIN results', i # j
        PROVE  results'[i][1] # results'[j][1] \/ results'[i][2] # results'[j][2]
    <3>1. CASE i \in DOMAIN results /\ j \in DOMAIN results
      BY <3>1, <2>5, <1>5 DEF EvhttpInv, EndedOnce
    <3>2. \A l \in DOMAIN results : results'[l][1] # callback[1] \/ results'[l][2] # callback[2]
      BY <2>3, <1>2, <1>5, ElementsTyped
    <3>3. CASE i = Len(results) + 1 \/ j = Len(results) + 1
      BY <3>2, <3>3, <2>5, <1>4, <1>5
    <3> QED
      BY <3>1, <3>3, <1>5
  <2> QED
    BY <1>1, <1>6, <2>1, <2>4, <2>5 DEF EndedOnce
<1>9. OwnBuffers'
  <2>1. recvBuf' \in [Stub -> Requests \cup {Nobody}]
    BY DEF CompletionReads, CompletionBreaksOff, EvhttpInv, OwnBuffers
  <2>2. \A k \in Stub : k \notin brokenOff' => recvBuf'[k] = Nobody
    BY <1>1, <1>2 DEF CompletionReads, CompletionBreaksOff, EvhttpInv, OwnBuffers
  <2>3. \A i \in DOMAIN results' :
          results'[i][1] \notin brokenOff' => results'[i][3] \in {Nobody, <<results'[i][1], results'[i][2]>>}
    BY <1>3, <1>4, <1>5, <1>6 DEF EvhttpInv, OwnBuffers
  <2> QED
    BY <2>1, <2>2, <2>3 DEF OwnBuffers
<1>10. ContextsHeld'
  BY <1>6 DEF EvhttpInv, ContextsHeld, Under
<1>11. NoneLost'
  <2>1. aborted' = aborted
    BY DEF CompletionReads, CompletionBreaksOff
  <2>2. ASSUME NEW j \in Stub, NEW n \in 1..calls[j]
        PROVE  KnownCall(<<j, n>>, completionQueue_', callback', results', aborted')
    <3>1. KnownCall(<<j, n>>, completionQueue_, callback, results, aborted)
      BY Zenon DEF EvhttpInv, NoneLost
    <3>2. (\E i \in DOMAIN results : <<results[i][1], results[i][2]>> = <<j, n>>)
            => \E i \in DOMAIN results' : <<results'[i][1], results'[i][2]>> = <<j, n>>
      BY <1>5
    <3>3. callback = <<j, n>> => \E i \in DOMAIN results' : <<results'[i][1], results'[i][2]>> = <<j, n>>
      <4>1. <<new[1], new[2]>> = callback /\ Len(results) + 1 \in DOMAIN results'
        BY <1>2, <1>4, <1>5
      <4> QED
        BY <4>1, <1>5, Zenon
    <3> QED
      BY <1>6, <2>1, <3>1, <3>2, <3>3, Zenon DEF KnownCall
  <2> QED
    BY <1>6, <2>2, Zenon DEF NoneLost
<1> QED
  BY <1>7, <1>8, <1>9, <1>10, <1>11 DEF EvhttpInv

LEMMA ServerKept ==
  ASSUME EvhttpInv,
         ServerRequest \/ \E r \in contexts : ProcessThrows(r) \/ CompleteRequest(r)
  PROVE  EvhttpInv'
<1>1. UNCHANGED <<calls, recvBuf, completionQueue_, connRequests, callback, results, brokenOff, aborted>>
  BY DEF ServerRequest, ProcessThrows, CompleteRequest
<1>2. RequestsQueued' /\ EndedOnce' /\ OwnBuffers' /\ NoneLost'
  BY <1>1 DEF EvhttpInv, RequestsQueued, EndedOnce, OwnBuffers, NoneLost, KnownCall
<1>3. ContextsHeld'
  <2>1. CASE ServerRequest
    <3>1. /\ connRequests # << >> /\ ~accepted /\ accepted' = TRUE /\ contexts' = contexts \cup {Under}
          /\ UNCHANGED <<leaked, reply>>
      BY <2>1 DEF ServerRequest
    <3>2. 1 \in DOMAIN connRequests /\ Under = connRequests[1] /\ Under \in Requests
          /\ Under[2] =< calls[Under[1]]
      BY <3>1, ElementsTyped, TailFacts DEF EvhttpInv, RequestsQueued, Under, Requests
    <3>3. Under \notin contexts
      BY <3>1, <3>2 DEF EvhttpInv, ContextsHeld
    <3>4. \A i \in DOMAIN connRequests : connRequests[i] = Under => i = 1
      BY <3>2 DEF EvhttpInv, RequestsQueued
    <3> QED
      BY <1>1, <3>1, <3>2, <3>3, <3>4 DEF EvhttpInv, ContextsHeld, Under
  <2>2. ASSUME NEW r \in contexts, ProcessThrows(r)
        PROVE  ContextsHeld'
    BY <2>2, <1>1 DEF EvhttpInv, RequestsQueued, ContextsHeld, ProcessThrows, SendReply, Under
  <2>3. ASSUME NEW r \in contexts, CompleteRequest(r)
        PROVE  ContextsHeld'
    BY <2>3, <1>1 DEF EvhttpInv, RequestsQueued, ContextsHeld, CompleteRequest, SendReply, Under
  <2> QED
    BY <2>1, <2>2, <2>3
<1> QED
  BY <1>2, <1>3 DEF EvhttpInv

LEMMA EvhttpInvKept == EvhttpInv /\ [EvhttpNext]_evhttpVars => EvhttpInv'
<1> SUFFICES ASSUME EvhttpInv, [EvhttpNext]_evhttpVars
             PROVE  EvhttpInv'
  OBVIOUS
<1>1. CASE Answered \/ ConnectionFails
  BY <1>1, FinishKept DEF Answered, ConnectionFails
<1>2. CASE UNCHANGED evhttpVars
  BY <1>2 DEF evhttpVars, EvhttpInv, RequestsQueued, EndedOnce, OwnBuffers, ContextsHeld, Under,
              NoneLost, KnownCall
<1> QED
  BY <1>1, <1>2, CallsKept, CompletionsKept, ServerKept DEF EvhttpNext

LEMMA EvhttpInvAnswers == EvhttpInv => OwnReplies
<1> SUFFICES ASSUME EvhttpInv
             PROVE  OwnReplies
  OBVIOUS
<1>1. \A i \in DOMAIN results :
        results[i][1] \in Stub /\ results[i][2] \in Nat /\ calls[results[i][1]] \in Nat
  BY ElementsTyped
<1>2. ASSUME NEW i \in DOMAIN results
      PROVE  EndedCall(i) # callback /\ ~InQueue(EndedCall(i))
  <2>1. CASE EndedCall(i) = callback
    <3>1. callback[1] = results[i][1] /\ callback[2] = results[i][2] /\ results[i][2] > 0
      BY <2>1 DEF EndedCall, EvhttpInv, EndedOnce
    <3>2. callback # Nobody
      BY <3>1, <1>1 DEF Nobody
    <3> QED
      BY <3>1, <3>2, <1>1 DEF EvhttpInv, EndedOnce, RequestsQueued
  <2>2. CASE InQueue(EndedCall(i))
    <3>1. PICK j \in DOMAIN connRequests : connRequests[j] = EndedCall(i)
      BY <2>2 DEF InQueue, EvhttpInv, RequestsQueued
    <3>2. connRequests[j][1] = results[i][1] /\ connRequests[j][2] = results[i][2]
      BY <3>1 DEF EndedCall
    <3>3. results[i][2] < calls[results[i][1]] /\ connRequests[j][2] = calls[connRequests[j][1]]
      BY <3>2 DEF EvhttpInv, EndedOnce, RequestsQueued
    <3> QED
      BY <3>2, <3>3, <1>1
  <2> QED
    BY <2>1, <2>2
<1>3. \A i, j \in DOMAIN results : i # j => EndedCall(i) # EndedCall(j)
  BY DEF EvhttpInv, EndedOnce, EndedCall
<1>4. \A i \in DOMAIN results : results[i][1] \notin brokenOff => results[i][3] \in {Nobody, EndedCall(i)}
  BY DEF EvhttpInv, OwnBuffers, EndedCall
<1>5. /\ completionQueue_ = connRequests
      /\ accepted /\ connRequests # << >> /\ reply = "none" => Under \in contexts \ leaked
      /\ \A k \in Stub : \A n \in 1..calls[k] : NotLost(<<k, n>>)
  BY DEF EvhttpInv, RequestsQueued, ContextsHeld, NoneLost, KnownCall, NotLost, InQueue, Ended, EndedCall
<1> QED
  BY <1>2, <1>3, <1>4, <1>5 DEF OwnReplies

LEMMA RepliesStayOwn == EvhttpSpec => []OwnReplies
BY EvhttpStarts, EvhttpInvKept, EvhttpInvAnswers, PTL DEF EvhttpSpec

-----------------------------------------------------------------------------
\* Several services on one connection: the inductive invariant.

CallsMade == [service : ServiceName \cup {Plain}, type : Types]
NameParts == STRING \cup {CalledMethod, "a client without TMultiplexedProtocol"}
InboundMessages == [name : Seq(NameParts), type : Types, seqid : Nat]
AnswersSeen == {"none", "result", "exception", "end of file"} \X Nat

\* The client has at most one call without an outcome, its last one, and waits for that one only.
TurnsTaken ==
  /\ called \in Seq(CallsMade) /\ outcomes \in Seq(AnswersSeen)
  /\ Len(outcomes) =< Len(called) /\ Len(called) =< Len(outcomes) + 1
  /\ Pending => called[Len(called)].type = "call"

\* The messages on their way are calls that have not been handed on, in their order, and no other is left.
MessagesRight ==
  /\ inbound \in Seq(InboundMessages)
  /\ \A i \in DOMAIN inbound :
       /\ inbound[i].seqid \in DOMAIN called /\ inbound[i].type = called[inbound[i].seqid].type
       /\ inbound[i].name = Prefixed(called[inbound[i].seqid].service, inbound[i].type)
       /\ inbound[i].type = "call" => Pending /\ inbound[i].seqid = Len(called)
  /\ disconnected => inbound = << >>

DispatchedOnce ==
  /\ dispatched \in Seq(Nat \X Seq(NameParts)) /\ Len(dispatched) =< Len(called)
  /\ RightProcessor

\* An answer stands alone: it is for the call the client waits for, or for a message nobody waits for, after
\* which no call has been answered; and then it is the last thing the server has said.
RepliesRight ==
  /\ replied \in Seq(AnswersSeen)
  /\ replied # << >> =>
       /\ inbound = << >> /\ Len(replied) = 1 /\ replied[1][2] \in DOMAIN called
       /\ replied[1][1] = "result" => Len(called) \in DOMAIN dispatched
       /\ \/ replied[1][1] \in {"result", "exception"} /\ Pending /\ replied[1][2] = Len(called)
          \/ /\ replied[1][1] = "exception" /\ disconnected
             /\ \A j \in replied[1][2] .. Len(outcomes) : called[j].type # "call"
  /\ \A i \in DOMAIN outcomes : outcomes[i][1] = "exception" => outcomes[i][2] > 0
  /\ OwnResults

MultiplexedInv == TurnsTaken /\ MessagesRight /\ DispatchedOnce /\ RepliesRight

LEMMA OneTuple ==
  ASSUME NEW S, NEW x \in S
  PROVE  <<x>> \in Seq(S) /\ Len(<<x>>) = 1 /\ <<x>>[1] = x /\ <<x>> # << >>
OBVIOUS

LEMMA NamesTyped ==
  ASSUME NEW service \in ServiceName \cup {Plain}, NEW type
  PROVE  /\ service \in Seq(NameParts) /\ <<CalledMethod>> \in Seq(NameParts)
         /\ Prefixed(service, type) \in Seq(NameParts)
<1>1. service \in ServiceName => service \in Seq(NameParts)
  BY MultiplexedAssumption, SeqMonotonic DEF NameParts
<1>2. Plain \in Seq(NameParts)
  <2>1. "a client without TMultiplexedProtocol" \in NameParts
    BY DEF NameParts
  <2> QED
    BY <2>1, OneTuple DEF Plain
<1>3. <<CalledMethod>> \in Seq(NameParts)
  BY DEF NameParts
<1>4. service \o <<CalledMethod>> \in Seq(NameParts)
  BY <1>1, <1>2, <1>3, ConcatProperties
<1> QED
  BY <1>1, <1>2, <1>3, <1>4 DEF Prefixed

\* What is put in front of the name is what is taken off it.
LEMMA NamesReadBack ==
  ASSUME NEW service \in ServiceName \cup {Plain}, NEW type \in {"call", "oneway"},
         NEW target \in ServiceOf(Prefixed(service, type))
  PROVE  /\ target \in Seq(NameParts)
         /\ IF target = << >> THEN service \in {Plain, << >>} ELSE service = target
<1>1. service \in Seq(NameParts) /\ <<CalledMethod>> \in Seq(NameParts)
  BY NamesTyped
<1>2. CASE service = Plain
  <2>1. Len(<<CalledMethod>>) = 1
    OBVIOUS
  <2>2. target = << >>
    BY <1>2, <2>1 DEF Prefixed, ServiceOf
  <2> QED
    BY <1>2, <2>2
<1>3. CASE service # Plain
  <2>1. Prefixed(service, type) = service \o <<CalledMethod>>
    BY <1>3 DEF Prefixed
  <2>2. /\ Len(<<CalledMethod>>) = 1 /\ Len(service) \in Nat
        /\ Len(service \o <<CalledMethod>>) = Len(service) + 1
        /\ Len(service) >= 1 => (service \o <<CalledMethod>>)[1] = service[1]
    BY <1>1, ConcatProperties
  <2>3. CASE Len(service) = 1
    <3>1. target = <<service[1]>>
      BY <2>1, <2>2, <2>3 DEF ServiceOf
    <3>2. service = <<service[1]>>
      BY <1>1, <2>3, SeqEqual
    <3>3. <<service[1]>> # << >>
      OBVIOUS
    <3> QED
      BY <1>1, <3>1, <3>2, <3>3
  <2>4. CASE Len(service) # 1
    <3>1. Len(service) = 0 /\ target = << >>
      BY <2>1, <2>2, <2>4 DEF ServiceOf
    <3>2. service = << >>
      BY <1>1, <3>1, EmptySeq
    <3> QED
      BY <3>1, <3>2
  <2> QED
    BY <2>3, <2>4
<1> QED
  BY <1>2, <1>3

LEMMA MultiplexedStarts == MultiplexedInit => MultiplexedInv
<1> SUFFICES ASSUME MultiplexedInit
             PROVE  MultiplexedInv
  OBVIOUS
<1>1. /\ << >> \in Seq(CallsMade) /\ << >> \in Seq(AnswersSeen) /\ << >> \in Seq(InboundMessages)
      /\ DOMAIN << >> = {} /\ Len(<< >>) = 0 /\ << >> \in Seq(Nat \X Seq(NameParts))
  OBVIOUS
<1> QED
  BY <1>1 DEF MultiplexedInit, MultiplexedInv, TurnsTaken, MessagesRight, DispatchedOnce, RepliesRight,
              RightProcessor, OwnResults, Pending

\* A message that is sent is the last there is, and the only one that is waited for.
LEMMA SendKept ==
  ASSUME MultiplexedInv, NEW service \in ServiceName \cup {Plain}, NEW type \in Types, Send(service, type)
  PROVE  MultiplexedInv'
<1> DEFINE new == [service |-> service, type |-> type]
           N == Len(called) + 1
           message == [name |-> Prefixed(service, type), type |-> type, seqid |-> N]
           none == <<"none", 0>>
<1>1. /\ called \in Seq(CallsMade) /\ outcomes \in Seq(AnswersSeen) /\ inbound \in Seq(InboundMessages)
      /\ called' = Append(called, new) /\ ~Pending /\ Len(outcomes) = Len(called)
      /\ Len(called) \in Nat
  BY DEF MultiplexedInv, TurnsTaken, MessagesRight, Send, Pending
<1>2. /\ new \in CallsMade /\ message \in InboundMessages /\ none \in AnswersSeen
  <2>1. Prefixed(service, type) \in Seq(NameParts)
    BY NamesTyped
  <2>2. N \in Nat
    BY <1>1
  <2>3. new \in CallsMade
    BY DEF CallsMade
  <2>4. message \in InboundMessages
    BY <2>1, <2>2 DEF InboundMessages
  <2>5. none \in AnswersSeen
    BY DEF AnswersSeen
  <2> QED
    BY <2>3, <2>4, <2>5
<1>3. /\ called' \in Seq(CallsMade) /\ Len(called') = N /\ DOMAIN called = 1..Len(called)
      /\ DOMAIN called' = 1..N /\ called'[N] = new /\ N \in Nat \ {0}
      /\ \A i \in DOMAIN called : i \in DOMAIN called' /\ called'[i] = called[i] /\ i < N
  BY <1>1, <1>2, AppendFacts
<1>5. /\ outcomes' \in Seq(AnswersSeen)
      /\ (type = "call" /\ outcomes' = outcomes /\ Pending') \/ (type # "call" /\ ~Pending')
      /\ Len(outcomes') =< N /\ N =< Len(outcomes') + 1
      /\ \A i \in DOMAIN outcomes' : (i \in DOMAIN outcomes /\ outcomes'[i] = outcomes[i]) \/ outcomes'[i] = none
  <2>1. CASE type = "call"
    <3>1. outcomes' = outcomes
      BY <2>1 DEF Send
    <3> QED
      BY <2>1, <3>1, <1>1, <1>3 DEF Pending
  <2>2. CASE type # "call"
    <3>1. outcomes' = Append(outcomes, none)
      BY <2>2 DEF Send
    <3>2. /\ outcomes' \in Seq(AnswersSeen) /\ Len(outcomes') = Len(outcomes) + 1
          /\ \A i \in DOMAIN outcomes' : (i \in DOMAIN outcomes /\ outcomes'[i] = outcomes[i]) \/ outcomes'[i] = none
      BY <1>1, <1>2, <3>1, AppendFacts
    <3> QED
      BY <2>2, <3>2, <1>1, <1>3 DEF Pending
  <2> QED
    BY <2>1, <2>2
<1>6. UNCHANGED <<replied, disconnected, dispatched>>
  BY DEF Send
<1>7. /\ inbound' \in Seq(InboundMessages) /\ (disconnected => inbound' = << >>)
      /\ \A i \in DOMAIN inbound' : \/ i \in DOMAIN inbound /\ inbound'[i] = inbound[i]
                                    \/ inbound'[i] = message /\ \A j \in DOMAIN inbound' : j =< i
      /\ replied # << >> => inbound' = << >>
      /\ ~disconnected => /\ Len(called) + 1 = Len(dispatched) + Len(inbound')
                          /\ \A i \in DOMAIN inbound' : inbound'[i].seqid = Len(dispatched) + i
                          /\ \E i \in DOMAIN inbound' : inbound'[i].seqid = N
  <2>1. CASE disconnected
    <3>1. inbound = << >> /\ inbound' = inbound /\ DOMAIN << >> = {}
      BY <1>1, <2>1 DEF MultiplexedInv, MessagesRight, Send
    <3> QED
      BY <1>1, <2>1, <3>1
  <2>2. CASE ~disconnected
    <3>1. inbound' = Append(inbound, message)
      BY <2>2 DEF Send
    <3>2. /\ inbound' \in Seq(InboundMessages) /\ DOMAIN inbound' = 1 .. Len(inbound) + 1 /\ Len(inbound) \in Nat
          /\ inbound'[Len(inbound) + 1] = message /\ DOMAIN inbound = 1..Len(inbound)
          /\ \A i \in DOMAIN inbound : inbound'[i] = inbound[i]
      BY <1>1, <1>2, <3>1, AppendFacts
    <3>3. replied = << >>
      BY <2>2, <1>1 DEF MultiplexedInv, RepliesRight
    <3>4. /\ Len(called) = Len(dispatched) + Len(inbound) /\ Len(dispatched) \in Nat
          /\ \A i \in DOMAIN inbound : inbound[i].seqid = Len(dispatched) + i
      <4>1. dispatched \in Seq(Nat \X Seq(NameParts)) /\ RightProcessor
        BY DEF MultiplexedInv, DispatchedOnce
      <4>2. Len(dispatched) \in Nat
        BY <4>1
      <4> QED
        BY <4>1, <4>2, <2>2 DEF RightProcessor
    <3>5. Len(inbound') = Len(inbound) + 1 /\ message.seqid = Len(dispatched) + (Len(inbound) + 1)
      BY <3>2, <3>4, <1>1
    <3>6. \A i \in DOMAIN inbound' : inbound'[i].seqid = Len(dispatched) + i
      <4> SUFFICES ASSUME NEW i \in DOMAIN inbound'
                   PROVE  inbound'[i].seqid = Len(dispatched) + i
        OBVIOUS
      <4>1. i \in DOMAIN inbound \/ i = Len(inbound) + 1
        BY <3>2
      <4> QED
        BY <4>1, <3>2, <3>4, <3>5
    <3>7. message.seqid = N /\ Len(inbound) + 1 \in DOMAIN inbound'
      BY <3>2
    <3> QED
      BY <2>2, <3>2, <3>3, <3>4, <3>5, <3>6, <3>7
  <2> QED
    BY <2>1, <2>2
<1> HIDE DEF new, N, message, none
<1>8. new.type = type /\ new.service = service /\ message.type = type /\ message.seqid = N
      /\ message.name = Prefixed(service, type) /\ none[1] = "none"
  BY DEF new, message, none
<1>9. TurnsTaken'
  BY <1>3, <1>5, <1>8 DEF TurnsTaken
<1>10. MessagesRight'
  <2>1. ASSUME NEW i \in DOMAIN inbound'
        PROVE  /\ inbound'[i].seqid \in DOMAIN called' /\ inbound'[i].type = called'[inbound'[i].seqid].type
               /\ inbound'[i].name = Prefixed(called'[inbound'[i].seqid].service, inbound'[i].type)
               /\ inbound'[i].type = "call" => Pending' /\ inbound'[i].seqid = Len(called')
    <3>1. CASE i \in DOMAIN inbound /\ inbound'[i] = inbound[i]
      BY <3>1, <1>1, <1>3 DEF MultiplexedInv, MessagesRight
    <3>2. CASE inbound'[i] = message
      BY <3>2, <1>3, <1>5, <1>8
    <3> QED
      BY <3>1, <3>2, <1>7
  <2> QED
    BY <2>1, <1>6, <1>7 DEF MessagesRight
<1>11. DispatchedOnce'
  <2>1. /\ dispatched \in Seq(Nat \X Seq(NameParts)) /\ Len(dispatched) =< Len(called)
        /\ DOMAIN dispatched = 1..Len(dispatched) /\ Len(dispatched) \in Nat
        /\ \A n \in DOMAIN dispatched :
             /\ dispatched[n][1] = n
             /\ IF dispatched[n][2] = << >> THEN called[n].service \in {Plain, << >>}
                ELSE called[n].service = dispatched[n][2]
    BY DEF MultiplexedInv, DispatchedOnce, RightProcessor
  <2>2. \A n \in DOMAIN dispatched : n \in DOMAIN called /\ called'[n] = called[n]
    BY <2>1, <1>1, <1>3
  <2>3. \A n \in DOMAIN dispatched :
          /\ dispatched[n][1] = n
          /\ IF dispatched[n][2] = << >> THEN called'[n].service \in {Plain, << >>}
             ELSE called'[n].service = dispatched[n][2]
    BY <2>1, <2>2
  <2>4. ~disconnected => /\ Len(called') = Len(dispatched) + Len(inbound')
                         /\ \A n \in DOMAIN inbound' : inbound'[n].seqid = Len(dispatched) + n
    BY <1>3, <1>7
  <2>5. dispatched' = dispatched /\ disconnected' = disconnected /\ Len(dispatched) =< Len(called')
    BY <1>1, <1>3, <1>6, <2>1
  <2> QED
    BY <2>1, <2>3, <2>4, <2>5 DEF DispatchedOnce, RightProcessor
<1>12. RepliesRight'
  <2>1. ASSUME replied # << >>
        PROVE  /\ inbound' = << >> /\ Len(replied) = 1 /\ replied[1][2] \in DOMAIN called'
               /\ replied[1][1] = "exception" /\ disconnected
               /\ \A j \in replied[1][2] .. Len(outcomes') : called'[j].type # "call"
    <3>1. /\ inbound' = << >> /\ Len(replied) = 1 /\ replied[1][2] \in DOMAIN called
          /\ replied[1][1] = "exception" /\ disconnected
          /\ \A j \in replied[1][2] .. Len(outcomes) : called[j].type # "call"
      BY <2>1, <1>1, <1>7 DEF MultiplexedInv, RepliesRight
    <3>2. replied[1][2] \in Nat /\ replied[1][2] > 0 /\ Len(outcomes') \in Nat
      BY <3>1, <1>1, <1>3, <1>5
    <3>3. ASSUME NEW j \in replied[1][2] .. Len(outcomes')
          PROVE  called'[j].type # "call"
      <4>1. CASE j \in DOMAIN called
        <5>1. Len(outcomes) = Len(called) /\ Len(called) \in Nat /\ j \in 1..Len(called)
          BY <4>1, <1>1, <1>3
        <5>2. replied[1][2] =< j
          BY <3>2
        <5>3. j \in replied[1][2] .. Len(outcomes)
          BY <3>2, <5>1, <5>2
        <5> QED
          BY <4>1, <5>3, <3>1, <1>3
      <4>2. CASE j \notin DOMAIN called
        <5>0. /\ j \in Int /\ j > 0 /\ j =< Len(outcomes') /\ Len(outcomes') =< N /\ N = Len(called) + 1
              /\ Len(called) \in Nat /\ DOMAIN called = 1..Len(called) /\ Len(outcomes') \in Nat
          BY <3>2, <1>1, <1>3, <1>5 DEF N
        <5>1. j = N /\ Len(outcomes') = N
          BY <4>2, <5>0
        <5>2. type # "call"
          BY <5>1, <1>1, <1>3, <1>5
        <5> QED
          BY <5>1, <5>2, <1>3, <1>8
      <4> QED
        BY <4>1, <4>2
    <3> QED
      BY <3>1, <3>3, <1>3
  <2>2. ASSUME NEW i \in DOMAIN outcomes'
        PROVE  /\ outcomes'[i][1] = "result" => outcomes'[i][2] = i /\ i \in DOMAIN dispatched
               /\ outcomes'[i][1] = "exception" =>
                    /\ outcomes'[i][2] =< i /\ outcomes'[i][2] > 0
                    /\ \A j \in outcomes'[i][2] .. i - 1 : called'[j].type # "call"
    <3>1. CASE outcomes'[i] = none
      BY <3>1, <1>8
    <3>2. CASE i \in DOMAIN outcomes /\ outcomes'[i] = outcomes[i]
      <4>1. /\ outcomes[i][1] = "result" => outcomes[i][2] = i /\ i \in DOMAIN dispatched
            /\ outcomes[i][1] = "exception" =>
                 /\ outcomes[i][2] =< i /\ outcomes[i][2] > 0
                 /\ \A j \in outcomes[i][2] .. i - 1 : called[j].type # "call"
            /\ i \in 1..Len(called) /\ outcomes[i][2] \in Nat
        <5>1. OwnResults /\ (outcomes[i][1] = "exception" => outcomes[i][2] > 0)
          BY <3>2, Zenon DEF MultiplexedInv, RepliesRight
        <5>2. i \in 1..Len(called) /\ outcomes[i] \in AnswersSeen
          BY <3>2, <1>1
        <5>3. outcomes[i][2] \in Nat
          BY <5>2 DEF AnswersSeen
        <5> QED
          BY <3>2, <5>1, <5>2, <5>3 DEF OwnResults
      <4>2. outcomes[i][2] > 0 => \A j \in outcomes[i][2] .. i - 1 : called'[j] = called[j]
        BY <4>1, <1>1, <1>3
      <4> QED
        BY <3>2, <4>1, <4>2
    <3> QED
      BY <3>1, <3>2, <1>5
  <2>3. Pending' /\ ~disconnected =>
          (\E n \in DOMAIN inbound' : inbound'[n].seqid = Len(called'))
    BY <1>3, <1>7
  <2>4. replied' = replied /\ disconnected' = disconnected /\ dispatched' = dispatched
    BY <1>6
  <2>5. OwnResults'
    BY <2>2, <2>3, <2>4 DEF OwnResults
  <2>6. replied \in Seq(AnswersSeen)
    BY DEF MultiplexedInv, RepliesRight
  <2> QED
    BY <2>1, <2>2, <2>4, <2>5, <2>6 DEF RepliesRight
<1> QED
  BY <1>9, <1>10, <1>11, <1>12 DEF MultiplexedInv

\* The processor takes the first message.
LEMMA FirstMessage ==
  ASSUME MultiplexedInv, inbound # << >>
  PROVE  /\ inbound \in Seq(InboundMessages) /\ Message = inbound[1] /\ 1 \in DOMAIN inbound
         /\ Message \in InboundMessages /\ Message.seqid \in DOMAIN called /\ Message.seqid \in Nat
         /\ Message.type = called[Message.seqid].type
         /\ Message.name = Prefixed(called[Message.seqid].service, Message.type)
         /\ Message.type = "call" => Pending /\ Message.seqid = Len(called) /\ Tail(inbound) = << >>
         /\ Message.seqid = Len(dispatched) + 1 /\ Len(dispatched) \in Nat
         /\ Tail(inbound) \in Seq(InboundMessages)
         /\ DOMAIN inbound = 1..Len(inbound) /\ Len(inbound) \in Nat \ {0}
         /\ DOMAIN Tail(inbound) = 1 .. Len(inbound) - 1 /\ Len(Tail(inbound)) = Len(inbound) - 1
         /\ \A i \in DOMAIN Tail(inbound) : i + 1 \in DOMAIN inbound /\ Tail(inbound)[i] = inbound[i + 1]
         /\ Len(called) = Len(dispatched) + Len(inbound) /\ Len(called) \in Nat
         /\ \A i \in DOMAIN inbound : inbound[i].seqid = Len(dispatched) + i
         /\ replied = << >> /\ ~disconnected
<1>1. /\ inbound \in Seq(InboundMessages) /\ called \in Seq(CallsMade)
      /\ dispatched \in Seq(Nat \X Seq(NameParts)) /\ ~disconnected
  BY DEF MultiplexedInv, MessagesRight, TurnsTaken, DispatchedOnce
<1>2. /\ Message = inbound[1] /\ 1 \in DOMAIN inbound /\ Message \in InboundMessages
      /\ Tail(inbound) \in Seq(InboundMessages) /\ DOMAIN Tail(inbound) = 1 .. Len(inbound) - 1
      /\ DOMAIN inbound = 1..Len(inbound) /\ Len(inbound) \in Nat \ {0} /\ Len(Tail(inbound)) = Len(inbound) - 1
      /\ \A i \in DOMAIN Tail(inbound) : i + 1 \in DOMAIN inbound /\ Tail(inbound)[i] = inbound[i + 1]
  BY <1>1, TailFacts DEF Message
<1>3. /\ Message.seqid \in DOMAIN called /\ Message.type = called[Message.seqid].type
      /\ Message.name = Prefixed(called[Message.seqid].service, Message.type)
      /\ Message.type = "call" => Pending /\ Message.seqid = Len(called)
  BY <1>2 DEF MultiplexedInv, MessagesRight
<1>4. /\ Len(called) = Len(dispatched) + Len(inbound) /\ Len(called) \in Nat /\ Len(dispatched) \in Nat
      /\ \A i \in DOMAIN inbound : inbound[i].seqid = Len(dispatched) + i
  BY <1>1 DEF MultiplexedInv, DispatchedOnce, RightProcessor
<1>5. Message.seqid = Len(dispatched) + 1 /\ Message.seqid \in Nat
  BY <1>2, <1>4
<1>6. ASSUME Message.type = "call"
      PROVE  Tail(inbound) = << >>
  <2>1. Len(Tail(inbound)) = 0
    BY <1>2, <1>3, <1>4, <1>5, <1>6
  <2> QED
    BY <1>2, <2>1, EmptySeq, Zenon
<1>7. replied = << >>
  BY DEF MultiplexedInv, RepliesRight
<1> QED
  BY <1>1, <1>2, <1>3, <1>4, <1>5, <1>6, <1>7

\* While it waits, the client waits for a call; and the messages on their way that are not its are not calls.
LEMMA NobodyWaits ==
  ASSUME MultiplexedInv, inbound # << >>, NEW j \in Message.seqid .. Len(outcomes)
  PROVE  called[j].type # "call"
<1>1. /\ Message.seqid = Len(dispatched) + 1 /\ Len(dispatched) \in Nat
      /\ DOMAIN inbound = 1..Len(inbound) /\ Len(inbound) \in Nat
      /\ Len(called) = Len(dispatched) + Len(inbound) /\ Len(called) \in Nat
      /\ \A i \in DOMAIN inbound : inbound[i].seqid = Len(dispatched) + i
  BY FirstMessage
<1>2. outcomes \in Seq(AnswersSeen) /\ Len(outcomes) \in Nat /\ Len(outcomes) =< Len(called)
  BY DEF MultiplexedInv, TurnsTaken
<1>3. j - Len(dispatched) \in DOMAIN inbound /\ inbound[j - Len(dispatched)].seqid = j
  BY <1>1, <1>2
<1>4. /\ inbound[j - Len(dispatched)].type = called[j].type
      /\ inbound[j - Len(dispatched)].type = "call" => Pending /\ j = Len(called)
  BY <1>3 DEF MultiplexedInv, MessagesRight
<1> QED
  BY <1>1, <1>2, <1>4 DEF Pending

LEMMA RefuseKept ==
  ASSUME MultiplexedInv, inbound # << >>, Refuse, UNCHANGED <<services, hasDefault, called, outcomes>>
  PROVE  MultiplexedInv'
<1> DEFINE new == <<"exception", Message.seqid>>
<1>1. /\ Message.seqid \in DOMAIN called /\ Message.seqid \in Nat
      /\ Message.type = called[Message.seqid].type /\ replied = << >>
      /\ Message.type = "call" => Pending /\ Message.seqid = Len(called)
  BY FirstMessage
<1>2. new \in AnswersSeen /\ replied \in Seq(AnswersSeen)
  BY <1>1 DEF AnswersSeen, MultiplexedInv, RepliesRight
<1>3. replied' \in Seq(AnswersSeen) /\ Len(replied') = 1 /\ replied'[1] = new
  BY <1>1, <1>2, AppendFacts DEF Refuse
<1>4. new[1] = "exception" /\ new[2] = Message.seqid
  OBVIOUS
<1> HIDE DEF new
<1>5. inbound' = << >> /\ disconnected' = TRUE /\ dispatched' = dispatched /\ UNCHANGED <<called, outcomes>>
  BY DEF Refuse
<1>6. TurnsTaken' /\ (Pending' <=> Pending)
  BY <1>5 DEF MultiplexedInv, TurnsTaken, Pending
<1>7. MessagesRight'
  <2>1. << >> \in Seq(InboundMessages) /\ DOMAIN << >> = {}
    OBVIOUS
  <2> QED
    BY <2>1, <1>5 DEF MessagesRight
<1>8. DispatchedOnce'
  BY <1>5 DEF MultiplexedInv, DispatchedOnce, RightProcessor
<1>9. RepliesRight'
  <2>1. OwnResults'
    BY <1>5 DEF MultiplexedInv, RepliesRight, OwnResults
  <2>2. \A j \in new[2] .. Len(outcomes) : called[j].type # "call"
    BY <1>4, NobodyWaits
  <2> QED
    BY <1>1, <1>3, <1>4, <1>5, <2>1, <2>2 DEF MultiplexedInv, RepliesRight
<1> QED
  BY <1>6, <1>7, <1>8, <1>9 DEF MultiplexedInv

LEMMA HandOnKept ==
  ASSUME MultiplexedInv, inbound # << >>, Message.type \in {"call", "oneway"},
         NEW processor \in Targets, HandOn(processor), UNCHANGED <<services, hasDefault, called, outcomes>>
  PROVE  MultiplexedInv'
<1> DEFINE new == <<"result", Message.seqid>>
           d0 == <<Message.seqid, processor>>
<1>1. /\ Message.seqid \in DOMAIN called /\ Message.seqid \in Nat
      /\ Message.type = called[Message.seqid].type /\ replied = << >> /\ ~disconnected
      /\ Message.name = Prefixed(called[Message.seqid].service, Message.type)
      /\ Message.type = "call" => Pending /\ Message.seqid = Len(called) /\ Tail(inbound) = << >>
      /\ Message.seqid = Len(dispatched) + 1 /\ Len(dispatched) \in Nat
      /\ Tail(inbound) \in Seq(InboundMessages)
      /\ DOMAIN inbound = 1..Len(inbound) /\ Len(inbound) \in Nat \ {0}
      /\ DOMAIN Tail(inbound) = 1 .. Len(inbound) - 1 /\ Len(Tail(inbound)) = Len(inbound) - 1
      /\ \A i \in DOMAIN Tail(inbound) : i + 1 \in DOMAIN inbound /\ Tail(inbound)[i] = inbound[i + 1]
      /\ Len(called) = Len(dispatched) + Len(inbound) /\ Len(called) \in Nat
      /\ \A i \in DOMAIN inbound : inbound[i].seqid = Len(dispatched) + i
      /\ Message = inbound[1]
  BY FirstMessage
<1>2. new \in AnswersSeen /\ replied \in Seq(AnswersSeen) /\ new[1] = "result" /\ new[2] = Message.seqid
  BY <1>1 DEF AnswersSeen, MultiplexedInv, RepliesRight
<1>3. called[Message.seqid].service \in ServiceName \cup {Plain}
  <2>1. called \in Seq(CallsMade)
    BY DEF MultiplexedInv, TurnsTaken
  <2>2. called[Message.seqid] \in CallsMade
    BY <1>1, <2>1
  <2> QED
    BY <2>2 DEF CallsMade
<1>4. /\ processor \in Seq(NameParts)
      /\ IF processor = << >> THEN called[Message.seqid].service \in {Plain, << >>}
         ELSE called[Message.seqid].service = processor
  <2>1. processor \in ServiceOf(Prefixed(called[Message.seqid].service, Message.type))
    BY <1>1 DEF Targets
  <2> QED
    BY <1>3, <2>1, NamesReadBack
<1>5. /\ inbound' = Tail(inbound) /\ disconnected' = disconnected /\ UNCHANGED <<called, outcomes>>
      /\ dispatched' = Append(dispatched, d0)
  BY DEF HandOn
<1>6. /\ replied' \in Seq(AnswersSeen)
      /\ replied' # << >> => Message.type = "call" /\ Len(replied') = 1 /\ replied'[1] = new
  <2>1. CASE Message.type = "call"
    BY <1>1, <1>2, <2>1, AppendFacts DEF HandOn
  <2>2. CASE Message.type # "call"
    BY <1>1, <1>2, <2>2 DEF HandOn
  <2> QED
    BY <2>1, <2>2
<1>7. d0[1] = Message.seqid /\ d0[2] = processor /\ d0 \in Nat \X Seq(NameParts)
  BY <1>1, <1>4
<1> HIDE DEF new, d0
<1>71. /\ dispatched \in Seq(Nat \X Seq(NameParts))
       /\ dispatched' \in Seq(Nat \X Seq(NameParts)) /\ Len(dispatched') = Len(dispatched) + 1
       /\ DOMAIN dispatched = 1..Len(dispatched) /\ DOMAIN dispatched' = 1 .. Len(dispatched) + 1
       /\ \A n \in DOMAIN dispatched : dispatched'[n] = dispatched[n]
       /\ dispatched'[Len(dispatched) + 1] = d0
  <2>1. dispatched \in Seq(Nat \X Seq(NameParts))
    BY DEF MultiplexedInv, DispatchedOnce
  <2> QED
    BY <2>1, <1>5, <1>7, AppendFacts
<1>8. TurnsTaken' /\ (Pending' <=> Pending)
  BY <1>5 DEF MultiplexedInv, TurnsTaken, Pending
<1>9. MessagesRight'
  <2>1. ASSUME NEW i \in DOMAIN inbound'
        PROVE  /\ inbound'[i].seqid \in DOMAIN called /\ inbound'[i].type = called[inbound'[i].seqid].type
               /\ inbound'[i].name = Prefixed(called[inbound'[i].seqid].service, inbound'[i].type)
               /\ inbound'[i].type = "call" => Pending /\ inbound'[i].seqid = Len(called)
    <3>1. inbound'[i] = inbound[i + 1] /\ i + 1 \in DOMAIN inbound
      BY <1>1, <1>5
    <3> QED
      BY <1>5, <3>1 DEF MultiplexedInv, MessagesRight
  <2> QED
    BY <2>1, <1>1, <1>5, <1>8 DEF MessagesRight
<1>10. DispatchedOnce'
  <2>1. \A n \in DOMAIN dispatched :
          /\ dispatched[n][1] = n
          /\ IF dispatched[n][2] = << >> THEN called[n].service \in {Plain, << >>}
             ELSE called[n].service = dispatched[n][2]
    BY DEF MultiplexedInv, DispatchedOnce, RightProcessor
  <2>2. \A n \in DOMAIN dispatched' : n \in DOMAIN dispatched \/ n = Len(dispatched) + 1
    BY <1>1, <1>71
  <2>3. ASSUME NEW n \in DOMAIN dispatched'
        PROVE  /\ dispatched'[n][1] = n
               /\ IF dispatched'[n][2] = << >> THEN called[n].service \in {Plain, << >>}
                  ELSE called[n].service = dispatched'[n][2]
    <3>1. CASE n \in DOMAIN dispatched
      BY <3>1, <2>1, <1>71
    <3>2. CASE n = Len(dispatched) + 1
      BY <3>2, <1>1, <1>4, <1>7, <1>71
    <3> QED
      BY <3>1, <3>2, <2>2
  <2>4. Len(called) = Len(dispatched') + Len(inbound') /\ Len(dispatched') =< Len(called)
    BY <1>1, <1>5, <1>71
  <2>5. \A n \in DOMAIN inbound' : inbound'[n].seqid = Len(dispatched') + n
    <3>1. \A n \in DOMAIN Tail(inbound) : inbound[n + 1].seqid = Len(dispatched) + (n + 1)
      BY <1>1
    <3> QED
      BY <3>1, <1>1, <1>5, <1>71
  <2> QED
    BY <2>3, <2>4, <2>5, <1>5, <1>71 DEF DispatchedOnce, RightProcessor
<1>11. RepliesRight'
  <2>1. ASSUME replied' # << >>
        PROVE  /\ inbound' = << >> /\ Len(replied') = 1 /\ replied'[1][2] \in DOMAIN called
               /\ Len(called) \in DOMAIN dispatched'
               /\ replied'[1][1] = "result" /\ Pending /\ replied'[1][2] = Len(called)
    <3>1. Message.type = "call" /\ Len(replied') = 1 /\ replied'[1] = new
      BY <2>1, <1>6
    <3>2. Message.seqid \in DOMAIN dispatched'
      BY <1>1, <1>71
    <3> QED
      BY <3>1, <3>2, <1>1, <1>2, <1>5
  <2>2. ASSUME NEW i \in DOMAIN outcomes
        PROVE  outcomes[i][1] = "result" => i \in DOMAIN dispatched'
    <3>1. outcomes[i][1] = "result" => i \in DOMAIN dispatched
      BY DEF MultiplexedInv, RepliesRight, OwnResults
    <3> QED
      BY <3>1, <1>1, <1>71
  <2>3. ASSUME Pending
        PROVE  \/ \E n \in DOMAIN inbound' : inbound'[n].seqid = Len(called)
               \/ \E n \in DOMAIN replied' : replied'[n][2] = Len(called)
    <3>2. CASE Message.type = "call"
      <4>1. replied' = Append(replied, new) /\ Message.seqid = Len(called)
        BY <2>3, <3>2, <1>1 DEF HandOn, new
      <4>2. 1 \in DOMAIN replied' /\ replied'[1] = new
        BY <4>1, <1>1, <1>2, AppendFacts
      <4> QED
        BY <4>1, <4>2, <1>2
    <3>3. CASE Message.type # "call"
      <4>1. called[Len(called)].type = "call"
        BY <2>3 DEF MultiplexedInv, TurnsTaken
      <4>2. Len(inbound) \in DOMAIN inbound /\ inbound[Len(inbound)].seqid = Len(called)
        BY <1>1
      <4>3. Len(inbound) # 1
        BY <4>1, <4>2, <3>3, <1>1
      <4>4. /\ Len(inbound) - 1 \in DOMAIN Tail(inbound) /\ (Len(inbound) - 1) + 1 = Len(inbound)
            /\ Tail(inbound)[Len(inbound) - 1] = inbound[(Len(inbound) - 1) + 1]
        BY <4>3, <1>1
      <4> QED
        BY <4>2, <4>4, <1>5
    <3> QED
      BY <3>2, <3>3
  <2>4. OwnResults'
    BY <2>2, <2>3, <1>5, <1>8 DEF MultiplexedInv, RepliesRight, OwnResults
  <2>5. \A i \in DOMAIN outcomes : outcomes[i][1] = "exception" => outcomes[i][2] > 0
    BY DEF MultiplexedInv, RepliesRight
  <2> QED
    BY <2>1, <2>4, <2>5, <1>5, <1>6, <1>8 DEF RepliesRight
<1> QED
  BY <1>8, <1>9, <1>10, <1>11 DEF MultiplexedInv

\* The client takes the answer, or the end of the stream.
LEMMA OutcomesKept ==
  ASSUME MultiplexedInv, Receive \/ EndOfStream
  PROVE  MultiplexedInv'
<1>1. Pending /\ UNCHANGED <<called, inbound, disconnected, dispatched>>
  BY DEF Receive, EndOfStream
<1>2. /\ called \in Seq(CallsMade) /\ outcomes \in Seq(AnswersSeen) /\ replied \in Seq(AnswersSeen)
      /\ Len(called) = Len(outcomes) + 1 /\ Len(outcomes) \in Nat /\ Len(called) \in Nat
      /\ called[Len(called)].type = "call"
  BY <1>1 DEF MultiplexedInv, TurnsTaken, RepliesRight, Pending
<1>3. PICK new \in AnswersSeen :
        /\ outcomes' = Append(outcomes, new)
        /\ new[1] = "result" => new[2] = Len(called) /\ Len(called) \in DOMAIN dispatched
        /\ new[1] = "exception" => /\ new[2] \in DOMAIN called
                                   /\ \A j \in new[2] .. Len(outcomes) : called[j].type # "call"
        /\ replied' = << >> /\ (replied = << >> => disconnected) /\ inbound = << >>
  <2>1. CASE Receive
    <3>1. /\ replied # << >> /\ replied[1] = Head(replied) /\ replied[1] \in AnswersSeen
          /\ Len(Tail(replied)) = Len(replied) - 1 /\ Tail(replied) \in Seq(AnswersSeen)
      BY <1>2, <2>1, TailFacts DEF Receive
    <3>2. Len(replied) = 1
      BY <3>1 DEF MultiplexedInv, RepliesRight
    <3>3. Tail(replied) = << >>
      <4>1. Len(Tail(replied)) = 0
        BY <3>1, <3>2
      <4> QED
        BY <3>1, <4>1, EmptySeq, Zenon
    <3>4. /\ outcomes' = Append(outcomes, replied[1]) /\ replied' = << >> /\ inbound = << >>
          /\ replied # << >>
      BY <2>1, <3>1, <3>3 DEF Receive, MultiplexedInv, RepliesRight
    <3>5. /\ replied[1][2] \in DOMAIN called
          /\ replied[1][1] = "result" => replied[1][2] = Len(called) /\ Len(called) \in DOMAIN dispatched
          /\ \/ replied[1][2] = Len(called)
             \/ \A j \in replied[1][2] .. Len(outcomes) : called[j].type # "call"
      BY <3>1 DEF MultiplexedInv, RepliesRight
    <3>6. \A j \in Len(called) .. Len(outcomes) : called[j].type # "call"
      BY <1>2
    <3> QED
      BY <3>1, <3>4, <3>5, <3>6
  <2>2. CASE EndOfStream
    <3>1. <<"end of file", 0>> \in AnswersSeen /\ <<"end of file", 0>>[1] = "end of file"
      BY DEF AnswersSeen
    <3> QED
      BY <2>2, <3>1 DEF EndOfStream, MultiplexedInv, MessagesRight
  <2> QED
    BY <2>1, <2>2
<1>4. /\ outcomes' \in Seq(AnswersSeen) /\ Len(outcomes') = Len(outcomes) + 1
      /\ \A i \in DOMAIN outcomes' : \/ i \in DOMAIN outcomes /\ outcomes'[i] = outcomes[i]
                                     \/ i = Len(outcomes) + 1 /\ outcomes'[i] = new
  BY <1>2, <1>3, AppendFacts
<1>5. TurnsTaken' /\ ~Pending'
  BY <1>1, <1>2, <1>4 DEF TurnsTaken, Pending
<1>6. MessagesRight'
  <2>1. << >> \in Seq(InboundMessages) /\ DOMAIN << >> = {}
    OBVIOUS
  <2> QED
    BY <1>1, <1>3, <2>1 DEF MessagesRight
<1>7. DispatchedOnce'
  BY <1>1 DEF MultiplexedInv, DispatchedOnce, RightProcessor
<1>8. RepliesRight'
  <2>1. << >> \in Seq(AnswersSeen)
    OBVIOUS
  <2>2. ASSUME NEW i \in DOMAIN outcomes'
        PROVE  /\ outcomes'[i][1] = "result" => outcomes'[i][2] = i /\ i \in DOMAIN dispatched
               /\ outcomes'[i][1] = "exception" =>
                    /\ outcomes'[i][2] =< i /\ outcomes'[i][2] > 0
                    /\ \A j \in outcomes'[i][2] .. i - 1 : called[j].type # "call"
    <3>1. CASE i \in DOMAIN outcomes /\ outcomes'[i] = outcomes[i]
      BY <3>1 DEF MultiplexedInv, RepliesRight, OwnResults
    <3>2. CASE i = Len(outcomes) + 1 /\ outcomes'[i] = new
      <4>1. i = Len(called) /\ i - 1 = Len(outcomes) /\ DOMAIN called = 1..Len(called)
        BY <3>2, <1>2
      <4> QED
        BY <3>2, <4>1, <1>2, <1>3
    <3> QED
      BY <3>1, <3>2, <1>4
  <2>3. OwnResults'
    BY <2>2, <1>1, <1>5 DEF OwnResults
  <2> QED
    BY <1>1, <1>3, <2>1, <2>2, <2>3 DEF RepliesRight
<1> QED
  BY <1>5, <1>6, <1>7, <1>8 DEF MultiplexedInv

LEMMA MultiplexedInvKept == MultiplexedInv /\ [MultiplexedNext]_multiplexedVars => MultiplexedInv'
<1> SUFFICES ASSUME MultiplexedInv, [MultiplexedNext]_multiplexedVars
             PROVE  MultiplexedInv'
  OBVIOUS
<1>1. CASE RegisterDefault \/ (\E name \in ServiceName : RegisterProcessor(name)) \/ UNCHANGED multiplexedVars
  <2>1. UNCHANGED <<called, inbound, replied, disconnected, dispatched, outcomes>>
    BY <1>1 DEF RegisterDefault, RegisterProcessor, multiplexedVars
  <2> QED
    BY <2>1 DEF MultiplexedInv, TurnsTaken, MessagesRight, DispatchedOnce, RepliesRight, RightProcessor,
                OwnResults, Pending
<1>2. CASE Processes
  <2>1. CASE Message.type \in {"call", "oneway"} /\ Targets # {}
    <3>1. PICK service \in Targets : HandOn(service)
      BY <1>2, <2>1 DEF Processes
    <3> QED
      BY <1>2, <2>1, <3>1, HandOnKept DEF Processes
  <2>2. CASE ~(Message.type \in {"call", "oneway"} /\ Targets # {})
    BY <1>2, <2>2, RefuseKept DEF Processes
  <2> QED
    BY <2>1, <2>2
<1> QED
  BY <1>1, <1>2, SendKept, OutcomesKept DEF MultiplexedNext

LEMMA EachToItsProcessor == MultiplexedSpec => [](RightProcessor /\ OwnResults)
<1>1. MultiplexedInv => RightProcessor /\ OwnResults
  BY DEF MultiplexedInv, DispatchedOnce, RepliesRight
<1> QED
  BY <1>1, MultiplexedStarts, MultiplexedInvKept, PTL DEF MultiplexedSpec

\* No asynchronous call over HTTP is lost: each waits for its request, is under way, has ended, or has
\* failed the assertion of finish() (110); it ends at most once, with the reply to it or an exception unless
\* its client has broken off a reply before.  Multiplexed messages reach the processors of their services
\* once and in their order, none left out; a result is the call's own, and an exception too, or that of a
\* message before it that nobody waits for: for any numbers of clients, services and calls
\* (TEvhttpClientChannel.cpp, TEvhttpServer.cpp, TMultiplexedProtocol.cpp, TMultiplexedProcessor.h).
THEOREM AnswersStayOwn == EvhttpSpec /\ MultiplexedSpec => []OwnAnswers
<1>1. OwnReplies /\ (RightProcessor /\ OwnResults) => OwnAnswers
  BY DEF OwnAnswers
<1> QED
  BY <1>1, RepliesStayOwn, EachToItsProcessor, PTL

-----------------------------------------------------------------------------
\* The inductive invariant of an SSL socket and of its factories.

CallOps == {"none", "read", "write", "flush", "peek", "hasPendingDataToRead", "close"}
CallPlaces == {"none", "handshake", "handshake waits", "works", "waits", "died"}
PeerState == [credential : Credentials, flight : BOOLEAN, pieces : Nat, records : Nat,
              end : {"no", "close_notify", "gone"}, fresh : BOOLEAN]
CallState == [op : CallOps, at : CallPlaces, written : Int]

SocketTyped ==
  /\ peer \in PeerState
  /\ call \in CallState
  /\ connection \in Int /\ ssl_ \in Nat /\ opened \in Nat
  /\ handshakeCompleted_ \in BOOLEAN /\ setbacks \in Nat

\* The SSL object is for the connection the socket has, which is the last that was
\* opened; a call is past the handshake when the handshake is complete.
OneConnection ==
  /\ connection \in {ClosedNumber, 0, opened} /\ ssl_ \in {0, connection} /\ passed \subseteq 1..opened
  /\ call.op = "none" \/ call.at = "none" => call = Idle
  /\ call.at \in {"handshake", "handshake waits"} => call.op # "close" /\ ssl_ = connection /\ ssl_ # 0
  /\ call.at \in {"works", "waits"} /\ call.op # "close" => handshakeCompleted_

\* What read() has counted are the setbacks, and the attempt under way.
RetriesCounted ==
  /\ Counted => readRetryCount_ = setbacks + 1
  /\ ~Counted => readRetryCount_ = setbacks
  /\ call # Idle => ended = <<"none", "none">>

SocketInv == SocketTyped /\ OneConnection /\ PeerAuthorized /\ RetriesCounted /\ RetriesExact

\* Every constructor that has not thrown, and the one that has, is counted.
FactoriesCounted ==
  /\ IsFiniteSet(factories) /\ factoryFailed \in BOOLEAN /\ meddled \in BOOLEAN
  /\ count_ = Cardinality(factories) + (IF factoryFailed THEN 1 ELSE 0)
  /\ ~meddled => /\ ~manualOpenSSLInitialization_
                 /\ (openSSLInitialized <=> count_ > 0) /\ (didWeInitializeOpenSSL_ <=> count_ > 0)

SSLInv == SocketInv /\ FactoriesCounted

-----------------------------------------------------------------------------

\* What authorize() lets in is what it promises to let in.
LEMMA FirstDecides ==
  ASSUME NEW s \in Seq(STRING)
  PROVE  \/ /\ FirstDecision(s) = "SKIP"
            /\ \A i \in 1..Len(s) : s[i] = "SKIP"
         \/ \E i \in 1..Len(s) : /\ s[i] = FirstDecision(s)
                                 /\ s[i] # "SKIP"
                                 /\ \A j \in 1 .. i - 1 : s[j] = "SKIP"
<1> DEFINE I == {i \in 1..Len(s) : s[i] # "SKIP"}
<1>1. FirstDecision(s) = LET i == IF I # {} THEN Min(I) ELSE 0
                             IN IF i = 0 THEN "SKIP" ELSE s[i]
  BY DEF FirstDecision, SelectInSeq
<1>2. CASE I = {}
  BY <1>1, <1>2
<1>3. CASE I # {}
  <2>1. I \subseteq Nat
    OBVIOUS
  <2>2. \E i \in I : \A j \in I : i =< j
    BY <1>3, <2>1, LeastIndex
  <2>3. Min(I) \in I /\ \A j \in I : Min(I) =< j
    BY <2>2 DEF Min
  <2> DEFINE m == Min(I)
  <2>4. m \in 1..Len(s) /\ s[m] # "SKIP" /\ \A j \in 1..Len(s) : s[j] # "SKIP" => m =< j
    BY <2>3
  <2>5. FirstDecision(s) = s[m]
    BY <1>1, <1>3, <2>4
  <2> HIDE DEF m
  <2>6. Len(s) \in Nat
    OBVIOUS
  <2>7. \A j \in 1 .. m - 1 : s[j] = "SKIP"
    BY <2>4, <2>6
  <2> QED
    BY <2>4, <2>5, <2>7
<1> QED
  BY <1>2, <1>3

\* The first decision of all that are made one after the other.
FirstIs(s, d) ==
  \E i \in DOMAIN s : s[i] = d /\ \A j \in 1 .. i - 1 : s[j] = "SKIP"

LEMMA FirstOfTwo ==
  ASSUME NEW s \in Seq(STRING), NEW t \in Seq(STRING), NEW d,
         \/ FirstIs(s, d)
         \/ (\A i \in 1..Len(s) : s[i] = "SKIP") /\ FirstIs(t, d)
  PROVE  FirstIs(s \o t, d)
<1>1. /\ Len(s) \in Nat /\ Len(t) \in Nat /\ DOMAIN (s \o t) = 1 .. Len(s) + Len(t)
      /\ DOMAIN s = 1..Len(s) /\ DOMAIN t = 1..Len(t)
      /\ \A i \in 1..Len(s) : (s \o t)[i] = s[i]
      /\ \A i \in 1..Len(t) : (s \o t)[Len(s) + i] = t[i]
  OBVIOUS
<1>2. CASE FirstIs(s, d)
  <2>1. PICK i \in 1..Len(s) : s[i] = d /\ \A j \in 1 .. i - 1 : s[j] = "SKIP"
    BY <1>1, <1>2 DEF FirstIs
  <2>2. i \in DOMAIN (s \o t) /\ (s \o t)[i] = d /\ \A j \in 1 .. i - 1 : (s \o t)[j] = "SKIP"
    BY <1>1, <2>1
  <2> QED
    BY <2>2 DEF FirstIs
<1>3. CASE (\A i \in 1..Len(s) : s[i] = "SKIP") /\ FirstIs(t, d)
  <2>1. PICK i \in 1..Len(t) : t[i] = d /\ \A j \in 1 .. i - 1 : t[j] = "SKIP"
    BY <1>1, <1>3 DEF FirstIs
  <2> DEFINE k == Len(s) + i
  <2>2. k \in DOMAIN (s \o t) /\ (s \o t)[k] = d
    BY <1>1, <2>1
  <2>3. ASSUME NEW j \in 1 .. k - 1
        PROVE  (s \o t)[j] = "SKIP"
    <3>1. CASE j =< Len(s)
      BY <1>1, <1>3, <3>1
    <3>2. CASE ~ (j =< Len(s))
      <4>1. j - Len(s) \in 1 .. i - 1 /\ j - Len(s) \in 1..Len(t) /\ j = Len(s) + (j - Len(s))
        BY <1>1, <3>2
      <4> QED
        BY <1>1, <2>1, <4>1
    <3> QED
      BY <3>1, <3>2
  <2> QED
    BY <2>2, <2>3 DEF FirstIs
<1> QED
  BY <1>2, <1>3

LEMMA LetsInTheTrusted ==
  ASSUME NEW c \in Credentials, Authorize(c)
  PROVE  Trusted(c)
<1> DEFINE a == <<c.address>>
           s == c.alternatives
           t == c.common
<1>1. c.address \in STRING /\ s \in Seq(STRING) /\ t \in Seq(STRING)
  BY SSLAssumption DEF SSLAssumption
<1>2. CASE c.cert /\ c.access
  <2>1. Decision(c) = "ALLOW"
    BY <1>2 DEF Authorize
  <2>2. a \in Seq(STRING) /\ a \o s \in Seq(STRING) /\ Len(a) = 1 /\ a[1] = c.address
    BY <1>1
  <2>3. FirstIs((a \o s) \o t, "ALLOW")
    <3>1. CASE c.address # "SKIP"
      <4>1. FirstIs(a, "ALLOW")
        BY <2>1, <2>2, <3>1 DEF Decision, FirstIs
      <4> QED
        BY <1>1, <2>2, <4>1, FirstOfTwo
    <3>2. CASE c.address = "SKIP" /\ FirstDecision(s) # "SKIP"
      <4>1. FirstDecision(s) = "ALLOW"
        BY <2>1, <3>2 DEF Decision
      <4>2. FirstIs(s, "ALLOW")
        BY <1>1, <3>2, <4>1, FirstDecides DEF FirstIs
      <4>3. \A i \in 1..Len(a) : a[i] = "SKIP"
        BY <2>2, <3>2
      <4>4. FirstIs(a \o s, "ALLOW")
        BY <1>1, <2>2, <4>2, <4>3, FirstOfTwo
      <4> QED
        BY <1>1, <2>2, <4>4, FirstOfTwo
    <3>3. CASE c.address = "SKIP" /\ FirstDecision(s) = "SKIP"
      <4>1. FirstDecision(t) = "ALLOW"
        BY <2>1, <3>3 DEF Decision
      <4>2. FirstIs(t, "ALLOW") /\ \A i \in 1..Len(s) : s[i] = "SKIP"
        BY <1>1, <3>3, <4>1, FirstDecides DEF FirstIs
      <4>3. Len(s) \in Nat /\ Len(a \o s) = 1 + Len(s) /\ (a \o s)[1] = c.address
            /\ \A i \in 2 .. 1 + Len(s) : (a \o s)[i] = s[i - 1]
        BY <1>1, <2>2
      <4>4. \A i \in 1..Len(a \o s) : (a \o s)[i] = "SKIP"
        BY <3>3, <4>2, <4>3
      <4> QED
        BY <1>1, <2>2, <4>2, <4>4, FirstOfTwo
    <3> QED
      BY <3>1, <3>2, <3>3
  <2> QED
    BY <1>2, <2>3 DEF Authorize, Trusted, FirstIs
<1>3. CASE ~(c.cert /\ c.access)
  BY <1>3 DEF Authorize, Trusted
<1> QED
  BY <1>2, <1>3

-----------------------------------------------------------------------------
\* The socket.
LEMMA ClosedIsNone == ClosedNumber \in Int /\ ClosedNumber \notin Nat
BY DEF ClosedNumber

LEMMA SocketStarts ==
  ASSUME SSLInit
  PROVE  SSLInv
<1>1. peer \in PeerState
  BY DEF SSLInit, NewPeer, PeerState
<1>2. call \in CallState
  BY DEF SSLInit, Idle, CallState, CallOps, CallPlaces
<1>9. connection \in {0, 1} /\ opened = connection /\ ssl_ = 0 /\ setbacks = 0
  BY DEF SSLInit
<1>10. handshakeCompleted_ \in BOOLEAN
  BY DEF SSLInit
<1>11. connection \in Int /\ ssl_ \in Nat /\ opened \in Nat /\ setbacks \in Nat
  BY <1>9
<1>3. SocketTyped
  BY <1>1, <1>2, <1>10, <1>11, Zenon DEF SocketTyped
<1>4. OneConnection
  BY DEF OneConnection, SSLInit, Idle, ClosedNumber
<1>5. PeerAuthorized
  BY DEF PeerAuthorized, SSLInit
<1>6. RetriesCounted /\ RetriesExact
  BY DEF RetriesCounted, RetriesExact, Counted, SSLInit, Idle
<1>7. /\ IsFiniteSet(factories) /\ Cardinality(factories) = 0
      /\ count_ = 0 /\ ~factoryFailed /\ factoryFailed \in BOOLEAN /\ meddled \in BOOLEAN
      /\ ~manualOpenSSLInitialization_ /\ ~openSSLInitialized /\ ~didWeInitializeOpenSSL_
  BY FS_EmptySet DEF SSLInit
<1>8. FactoriesCounted
  BY <1>7 DEF FactoriesCounted
<1> QED
  BY <1>3, <1>4, <1>5, <1>6, <1>8 DEF SSLInv, SocketInv

LEMMA PeerStateKept ==
  ASSUME SocketTyped, SocketNext
  PROVE  peer' \in PeerState
<1>1. peer' = peer \/ Seen \/ PeerActs \/ Open \/ ReadBytes
  BY DEF SocketNext, OpenFails, Begin, HandshakeParamsFail, HandshakeDone, HandshakeFails,
     HandshakeWaits, Event, Signal, WaitThrows, ReadWaits, ReadFails,
     ReadExhausted, WriteSome, WriteWaits, WriteFails, Flush, Peek,
     HasPendingDataToRead, Close, ShutdownWaits, CloseEnds, Same, Waits
<1>2. peer \in PeerState
  BY DEF SocketTyped
<1>3. CASE Seen
  BY <1>2, <1>3 DEF Seen, PeerState
<1>4. CASE PeerActs
  <2>1. CASE peer' = [peer EXCEPT !.flight = TRUE, !.fresh = TRUE]
    BY <1>2, <2>1 DEF PeerState
  <2>2. CASE peer' = [peer EXCEPT !.pieces = @ + 1, !.fresh = TRUE,
                                  !.records = IF peer.pieces = 0 THEN @ + 1 ELSE @]
    <3>1. peer.pieces + 1 \in Nat /\ (IF peer.pieces = 0 THEN peer.records + 1 ELSE peer.records) \in Nat
      BY <1>2 DEF PeerState
    <3> QED
      BY <1>2, <2>2, <3>1 DEF PeerState
  <2>3. ASSUME NEW e \in {"close_notify", "gone"}, peer' = [peer EXCEPT !.end = e, !.fresh = TRUE]
        PROVE  peer' \in PeerState
    BY <1>2, <2>3 DEF PeerState
  <2> QED
    BY <1>4, <2>1, <2>2, <2>3 DEF PeerActs
<1>5. CASE Open
  BY <1>5 DEF Open, NewPeer, PeerState
<1>6. CASE ReadBytes
  BY <1>2, <1>6 DEF ReadBytes, PeerState
<1> QED
  BY <1>1, <1>2, <1>3, <1>4, <1>5, <1>6

LEMMA CallStateKept ==
  ASSUME SocketTyped, SocketNext
  PROVE  call' \in CallState
<1>1. call \in CallState
  BY DEF SocketTyped
<1>2. Idle \in CallState
  BY DEF Idle, CallState, CallOps, CallPlaces
<1>3. \A p \in CallPlaces : [call EXCEPT !.at = p] \in CallState
  BY <1>1 DEF CallState
<1>4. \A op \in CallOps, p \in CallPlaces : [op |-> op, at |-> p, written |-> 0] \in CallState
  BY DEF CallState
<1>5. \A n \in Int : [call EXCEPT !.written = @ + n] \in CallState
  BY <1>1 DEF CallState
<1>6. {"read", "write", "flush", "peek", "hasPendingDataToRead", "close"} \subseteq CallOps
      /\ {"handshake", "handshake waits", "works", "waits"} \subseteq CallPlaces
  BY DEF CallOps, CallPlaces
<1>7. ASSUME NEW r, Ends(r) PROVE call' \in CallState
  BY <1>2, <1>7 DEF Ends
<1>8. ASSUME NEW p \in CallPlaces, Waits(p) PROVE call' \in CallState
  BY <1>3, <1>8 DEF Waits
<1>9. ASSUME NEW op \in {"read", "write", "flush", "peek", "hasPendingDataToRead"}, Begin(op)
      PROVE  call' \in CallState
  BY <1>1, <1>4, <1>6, <1>9 DEF Begin
<1>21. ASSUME NEW op \in {"read", "write", "flush", "peek", "hasPendingDataToRead"},
              HandshakeParamsFail(op)
       PROVE  call' \in CallState
  <2>1. op \in CallOps /\ "died" \in CallPlaces
    BY DEF CallOps, CallPlaces
  <2>2. call' = call \/ call' = [op |-> op, at |-> "died", written |-> 0]
    BY <1>21 DEF HandshakeParamsFail
  <2> QED
    BY <1>1, <1>4, <2>1, <2>2
<1>10. CASE HandshakeDone
  BY <1>3, <1>6, <1>10 DEF HandshakeDone
<1>11. CASE HandshakeFails \/ HandshakeWaits
  BY <1>6, <1>7, <1>8, <1>11 DEF HandshakeFails, HandshakeWaits
<1>12. CASE Event
  BY <1>3, <1>6, <1>12 DEF Event
<1>13. CASE Signal \/ WaitThrows
  BY <1>3, <1>6, <1>7, <1>13 DEF Signal, WaitThrows
<1>14. CASE ReadBytes \/ ReadWaits \/ ReadFails \/ ReadExhausted
  BY <1>6, <1>7, <1>8, <1>14 DEF ReadBytes, ReadWaits, ReadFails, ReadExhausted
<1>15. CASE WriteSome
  BY <1>5, <1>7, <1>15 DEF WriteSome
<1>16. CASE WriteWaits \/ WriteFails
  BY <1>6, <1>7, <1>8, <1>16 DEF WriteWaits, WriteFails
<1>17. CASE Flush \/ Peek \/ HasPendingDataToRead
  BY <1>6, <1>7, <1>8, <1>17 DEF Flush, Peek, HasPendingDataToRead
<1>18. CASE Close
  BY <1>4, <1>6, <1>18 DEF Close
<1>19. CASE ShutdownWaits \/ CloseEnds
  BY <1>6, <1>7, <1>8, <1>19 DEF ShutdownWaits, CloseEnds
<1>20. CASE PeerActs \/ Open \/ OpenFails
  BY <1>1, <1>20 DEF PeerActs, Open, OpenFails
<1> QED
  BY <1>9, <1>10, <1>11, <1>12, <1>13, <1>14, <1>15, <1>16, <1>17, <1>18, <1>19, <1>20,
     <1>21 DEF SocketNext

LEMMA SocketStepsTyped ==
  ASSUME SocketTyped, OneConnection, SocketNext
  PROVE  SocketTyped'
<1>4. ASSUME NEW op, Begin(op)
      PROVE  ssl_' = ssl_ \/ (ssl_' = connection /\ connection # ClosedNumber)
  BY <1>4 DEF Begin
<1>5. ssl_' = ssl_ \/ (ssl_' = connection /\ connection # ClosedNumber) \/ ssl_' = 0
  BY <1>4 DEF SocketNext, PeerActs, Open, ReadBytes, OpenFails, HandshakeParamsFail,
     HandshakeDone, HandshakeFails,
     HandshakeWaits, Event, Signal, WaitThrows, ReadWaits, ReadFails,
     ReadExhausted, WriteSome, WriteWaits, WriteFails, Flush, Peek,
     HasPendingDataToRead, Close, ShutdownWaits, CloseEnds, Same, Waits, Ends
<1>1. /\ \/ connection' = connection \/ connection' = opened + 1 \/ connection' = 0
         \/ connection' = ClosedNumber
      /\ opened' = opened \/ opened' = opened + 1
      /\ setbacks' = setbacks \/ setbacks' = setbacks + 1 \/ setbacks' = 0
  BY DEF SocketNext, PeerActs, Open, ReadBytes, OpenFails, Begin, HandshakeParamsFail,
     HandshakeDone, HandshakeFails,
     HandshakeWaits, Event, Signal, WaitThrows, ReadWaits, ReadFails,
     ReadExhausted, WriteSome, WriteWaits, WriteFails, Flush, Peek,
     HasPendingDataToRead, Close, ShutdownWaits, CloseEnds, Same, Waits, Ends
<1>2. handshakeCompleted_' \in BOOLEAN
  BY DEF SocketTyped, SocketNext, PeerActs, Open, ReadBytes, OpenFails, Begin, HandshakeParamsFail,
     HandshakeDone, HandshakeFails,
     HandshakeWaits, Event, Signal, WaitThrows, ReadWaits, ReadFails,
     ReadExhausted, WriteSome, WriteWaits, WriteFails, Flush, Peek,
     HasPendingDataToRead, Close, ShutdownWaits, CloseEnds, Same, Waits,
     CompletedAfterClose
<1>3. connection' \in Int /\ ssl_' \in Nat /\ opened' \in Nat /\ setbacks' \in Nat
  <2>1. connection \in {ClosedNumber, 0, opened}
    BY DEF OneConnection
  <2>2. connection \in Int /\ ssl_ \in Nat /\ opened \in Nat /\ setbacks \in Nat
    BY DEF SocketTyped
  <2>3. connection # ClosedNumber => connection \in Nat
    BY <2>1, <2>2
  <2>4. ssl_' \in Nat
    BY <1>5, <2>2, <2>3
  <2>5. connection' \in Int
    BY <1>1, <2>2, ClosedIsNone
  <2> QED
    BY <1>1, <2>2, <2>4, <2>5
<1> QED
  BY <1>2, <1>3, PeerStateKept, CallStateKept DEF SocketTyped

LEMMA NoCall == Idle.op = "none" /\ Idle.at = "none"
BY DEF Idle

\* The connection, the handshake, and what has passed.
Channel == OneConnection /\ PeerAuthorized
channelVars == <<setting, connection, ssl_, handshakeCompleted_, opened, passed, peer.credential>>

LEMMA TrustStays ==
  ASSUME UNCHANGED channelVars
  PROVE  Trusted(peer.credential)' <=> Trusted(peer.credential)
BY DEF channelVars, Trusted

\* All that changes is where the call is.
LEMMA CallEnds ==
  ASSUME Channel, UNCHANGED channelVars, call' = Idle
  PROVE  Channel'
<1>1. OneConnection'
  BY DEF Channel, channelVars, OneConnection, Idle
<1>2. PeerAuthorized'
  BY TrustStays DEF Channel, channelVars, PeerAuthorized
<1> QED
  BY <1>1, <1>2 DEF Channel

LEMMA CallMoves ==
  ASSUME SocketTyped, Channel, UNCHANGED channelVars, NEW p \in CallPlaces \ {"none"},
         call' = [call EXCEPT !.at = p], call.at # "none",
         \/ p \in {"handshake", "handshake waits"} /\ call.at \in {"handshake", "handshake waits"}
         \/ p \in {"works", "waits"} /\ call.at \in {"works", "waits"}
  PROVE  Channel'
<1>1. call'.at = p /\ call'.op = call.op
  BY DEF SocketTyped, CallState
<1>2. call.op # "none"
  <2>1. call.op = "none" => call = Idle
    BY DEF Channel, OneConnection
  <2>2. call # Idle
    BY NoCall
  <2> QED
    BY <2>1, <2>2
<1>3. OneConnection'
  BY <1>1, <1>2 DEF Channel, channelVars, OneConnection
<1>4. PeerAuthorized'
  BY TrustStays DEF Channel, channelVars, PeerAuthorized
<1> QED
  BY <1>3, <1>4 DEF Channel

LEMMA ChannelKept ==
  ASSUME SocketTyped, Channel, SocketNext
  PROVE  Channel'
<1>1. call \in CallState /\ peer \in PeerState
  BY DEF SocketTyped
<1>2. Seen => UNCHANGED peer.credential
  BY <1>1 DEF Seen, PeerState
<1>3. ASSUME NEW r, Ends(r), Same
      PROVE  Channel'
  BY <1>3, CallEnds DEF Ends, Same, channelVars
<1>4. CASE PeerActs
  <2>1. UNCHANGED channelVars /\ UNCHANGED call
    BY <1>1, <1>4 DEF PeerActs, PeerState, channelVars
  <2>2. OneConnection'
    BY <2>1 DEF channelVars, Channel, OneConnection
  <2>3. PeerAuthorized'
    BY <2>1, TrustStays DEF channelVars, Channel, PeerAuthorized
  <2> QED
    BY <2>2, <2>3 DEF Channel
<1>5. CASE Open
  <2>1. /\ connection' = opened + 1 /\ opened' = opened + 1 /\ call' = call /\ call = Idle
        /\ ssl_' = ssl_ /\ passed' = passed /\ handshakeCompleted_' = handshakeCompleted_
        /\ ssl_ = 0 \/ connection = 0
    BY <1>5 DEF Open, isOpen
  <2>2. ssl_ = 0 /\ ~handshakeCompleted_
    BY <2>1 DEF Channel, OneConnection, PeerAuthorized, SocketTyped
  <2>3. opened \in Nat /\ passed \subseteq 1..opened
    BY DEF Channel, OneConnection, SocketTyped
  <2>4. opened' \notin passed' /\ passed' \subseteq 1..opened'
    BY <2>1, <2>3
  <2>5. OneConnection'
    BY <2>1, <2>2, <2>4 DEF OneConnection, Idle
  <2>6. PeerAuthorized'
    BY <2>1, <2>2, <2>4 DEF PeerAuthorized
  <2> QED
    BY <2>5, <2>6 DEF Channel
<1>6. CASE OpenFails
  <2>1. /\ connection' = 0 /\ ssl_' = 0 /\ ~handshakeCompleted_' /\ call' = call /\ call = Idle
        /\ UNCHANGED <<setting, peer, opened, passed>>
    BY <1>6 DEF OpenFails
  <2>2. OneConnection'
    BY <2>1 DEF Channel, OneConnection, Idle
  <2>3. PeerAuthorized'
    BY <2>1 DEF Channel, PeerAuthorized, Trusted
  <2> QED
    BY <2>2, <2>3 DEF Channel
<1>7. ASSUME NEW op \in {"read", "write", "flush", "peek", "hasPendingDataToRead"}, Begin(op)
      PROVE  Channel'
  <2>1. /\ call = Idle
        /\ UNCHANGED <<setting, connection, handshakeCompleted_, peer, opened, passed>>
    BY <1>7 DEF Begin
  <2>2. CASE GivesUp(op)
    <3>1. call' = Idle /\ ssl_' = ssl_
      BY <1>7, <2>1, <2>2 DEF Begin
    <3> QED
      BY <2>1, <3>1, CallEnds DEF channelVars
  <2>3. CASE ~GivesUp(op)
    <3>1. /\ connection # 0 /\ connection # ClosedNumber
          /\ call'.op = op /\ call'.at = (IF handshakeCompleted_ THEN "works" ELSE "handshake")
          /\ ssl_' = (IF ssl_ = 0 THEN connection ELSE ssl_)
      BY <1>7, <2>3 DEF Begin, GivesUp
    <3>2. ssl_' = connection
      BY <3>1 DEF Channel, OneConnection
    <3>3. OneConnection'
      BY <2>1, <3>1, <3>2 DEF Channel, OneConnection
    <3>4. PeerAuthorized'
      BY <2>1, <3>1, <3>2 DEF Channel, PeerAuthorized, Trusted
    <3> QED
      BY <3>3, <3>4 DEF Channel
  <2> QED
    BY <2>2, <2>3
<1>25. ASSUME NEW op \in {"read", "write", "flush", "peek", "hasPendingDataToRead"},
              HandshakeParamsFail(op)
       PROVE  Channel'
  <2>1. /\ call = Idle /\ connection' = ClosedNumber /\ ssl_ = 0
        /\ call' = Idle \/ call' = [op |-> op, at |-> "died", written |-> 0]
        /\ UNCHANGED <<setting, ssl_, handshakeCompleted_, peer, opened, passed>>
    BY <1>25 DEF HandshakeParamsFail
  <2>2. ~handshakeCompleted_
    BY <2>1 DEF Channel, PeerAuthorized
  <2>5. \/ call' = Idle
        \/ call' # Idle /\ call'.op # "none" /\ call'.at = "died"
    BY <2>1 DEF Idle
  <2>3. OneConnection'
    BY <2>1, <2>5 DEF Channel, OneConnection, Idle
  <2>4. PeerAuthorized'
    BY <2>1, <2>2 DEF Channel, PeerAuthorized, Trusted
  <2> QED
    BY <2>3, <2>4 DEF Channel
<1>8. CASE HandshakeDone
  <2>1. /\ call.at = "handshake" /\ handshakeCompleted_' /\ Authorize(peer.credential)
        /\ call' = [call EXCEPT !.at = "works"]
        /\ UNCHANGED <<setting, connection, ssl_, peer, opened, passed>>
    BY <1>8 DEF HandshakeDone
  <2>2. call'.at = "works" /\ call'.op = call.op /\ call.op # "none" /\ call.op # "close"
    BY <1>1, <2>1 DEF CallState, Channel, OneConnection, Idle
  <2>3. peer.credential \in Credentials
    BY <1>1 DEF PeerState
  <2>4. Trusted(peer.credential)'
    BY <2>1, <2>3, LetsInTheTrusted DEF Trusted
  <2>5. OneConnection'
    BY <2>1, <2>2 DEF Channel, OneConnection
  <2>6. PeerAuthorized'
    BY <2>1, <2>4 DEF Channel, OneConnection, PeerAuthorized
  <2> QED
    BY <2>5, <2>6 DEF Channel
<1>9. CASE HandshakeFails
  BY <1>3, <1>9 DEF HandshakeFails
<1>10. CASE HandshakeWaits
  <2>1. CASE setting.eventSafe_
    BY <1>3, <1>10, <2>1 DEF HandshakeWaits
  <2>2. CASE ~setting.eventSafe_
    <3>1. UNCHANGED channelVars /\ call.at = "handshake" /\ call' = [call EXCEPT !.at = "handshake waits"]
      BY <1>2, <1>10, <2>2 DEF HandshakeWaits, Waits, channelVars
    <3> QED
      BY <3>1, CallMoves DEF CallPlaces
  <2> QED
    BY <2>1, <2>2
<1>11. ASSUME UNCHANGED <<setting, connection, ssl_, handshakeCompleted_, peer, opened, passed>>,
              call.at \in {"handshake waits", "waits"},
              call' = [call EXCEPT !.at = IF @ = "waits" THEN "works" ELSE "handshake"]
       PROVE  Channel'
  <2>1. UNCHANGED channelVars
    BY <1>11 DEF channelVars
  <2>2. CASE call.at = "waits"
    <3>1. call' = [call EXCEPT !.at = "works"]
      BY <1>11, <2>2
    <3> QED
      BY <2>1, <2>2, <3>1, CallMoves DEF CallPlaces
  <2>3. CASE call.at = "handshake waits"
    <3>1. call' = [call EXCEPT !.at = "handshake"]
      BY <1>11, <2>3
    <3> QED
      BY <2>1, <2>3, <3>1, CallMoves DEF CallPlaces
  <2> QED
    BY <1>11, <2>2, <2>3
<1>12. CASE Event
  BY <1>11, <1>12 DEF Event
<1>13. CASE Signal \/ WaitThrows
  <2>1. CASE Ends("threw")
    BY <1>13, <2>1, CallEnds DEF Signal, WaitThrows, Ends, channelVars
  <2>2. CASE ~Ends("threw")
    BY <1>11, <1>13, <2>2 DEF Signal, WaitThrows
  <2> QED
    BY <2>1, <2>2
<1>14. ASSUME ssl_ = connection, ssl_ # 0, handshakeCompleted_, passed' = passed \cup {ssl_},
              UNCHANGED <<setting, connection, ssl_, handshakeCompleted_, opened, peer.credential>>
       PROVE  PeerAuthorized' /\ passed' \subseteq 1..opened'
  <2>1. Trusted(peer.credential)'
    BY <1>14 DEF Channel, PeerAuthorized, Trusted
  <2>2. ssl_ = opened /\ opened \in Nat /\ passed \subseteq 1..opened
    <3>1. connection \in {ClosedNumber, 0, opened} /\ passed \subseteq 1..opened
      BY DEF Channel, OneConnection
    <3>2. ssl_ \in Nat /\ opened \in Nat
      BY DEF SocketTyped
    <3> QED
      BY <1>14, <3>1, <3>2, ClosedIsNone
  <2>3. passed' \subseteq 1..opened'
    BY <1>14, <2>2
  <2> QED
    BY <1>14, <2>1, <2>3 DEF PeerAuthorized
<1>15. CASE ReadBytes
  <2>1. /\ call.at = "works" /\ call.op = "read" /\ call' = Idle /\ passed' = passed \cup {ssl_}
        /\ UNCHANGED <<setting, connection, ssl_, handshakeCompleted_, opened, peer.credential>>
    BY <1>1, <1>15 DEF ReadBytes, Ends, PeerState
  <2>2. handshakeCompleted_ /\ ssl_ = connection /\ ssl_ # 0
    BY <2>1 DEF Channel, OneConnection, PeerAuthorized
  <2>3. PeerAuthorized' /\ passed' \subseteq 1..opened'
    BY <1>14, <2>1, <2>2
  <2>4. OneConnection'
    BY <2>1, <2>2, <2>3 DEF Channel, OneConnection, Idle
  <2> QED
    BY <2>3, <2>4 DEF Channel
<1>16. CASE ReadWaits
  <2>1. CASE setting.eventSafe_
    BY <1>16, <2>1, CallEnds DEF ReadWaits, Ends, channelVars
  <2>2. CASE ~setting.eventSafe_
    <3>1. UNCHANGED channelVars /\ call.at = "works" /\ call' = [call EXCEPT !.at = "waits"]
      BY <1>2, <1>16, <2>2 DEF ReadWaits, Waits, channelVars
    <3> QED
      BY <3>1, CallMoves DEF CallPlaces
  <2> QED
    BY <2>1, <2>2
<1>17. CASE ReadFails
  BY <1>17, CallEnds DEF ReadFails, Ends, channelVars
<1>18. CASE ReadExhausted
  BY <1>3, <1>18 DEF ReadExhausted
<1>19. CASE WriteSome
  <2>1. /\ call.at = "works" /\ call.op = "write" /\ passed' = passed \cup {ssl_}
        /\ UNCHANGED <<setting, connection, ssl_, handshakeCompleted_, opened, peer.credential>>
    BY <1>19 DEF WriteSome, Ends
  <2>2. handshakeCompleted_ /\ ssl_ = connection /\ ssl_ # 0
    BY <2>1 DEF Channel, OneConnection, PeerAuthorized
  <2>3. PeerAuthorized' /\ passed' \subseteq 1..opened'
    BY <1>14, <2>1, <2>2
  <2>4. call' = Idle \/ (call'.at = "works" /\ call'.op = "write")
    BY <1>1, <1>19, <2>1 DEF WriteSome, Ends, CallState
  <2>5. CASE call' = Idle
    BY <2>1, <2>3, <2>5 DEF Channel, OneConnection, Idle
  <2>6. CASE call'.at = "works" /\ call'.op = "write"
    BY <2>1, <2>2, <2>3, <2>6 DEF Channel, OneConnection
  <2> QED
    BY <2>3, <2>4, <2>5, <2>6 DEF Channel
<1>20. CASE WriteWaits \/ WriteFails \/ Peek
  <2>1. CASE Same /\ \E r : Ends(r)
    BY <1>3, <2>1
  <2>2. CASE ~(Same /\ \E r : Ends(r))
    <3>1. UNCHANGED channelVars /\ call.at = "works" /\ call' = [call EXCEPT !.at = "waits"]
      BY <1>2, <1>20, <2>2 DEF WriteWaits, WriteFails, Peek, Waits, channelVars
    <3> QED
      BY <3>1, CallMoves DEF CallPlaces
  <2> QED
    BY <2>1, <2>2
<1>21. CASE Flush \/ HasPendingDataToRead
  BY <1>3, <1>21 DEF Flush, HasPendingDataToRead
<1>22. CASE Close
  <2>1. /\ call'.op = "close" /\ call'.at = "works"
        /\ UNCHANGED <<setting, connection, ssl_, handshakeCompleted_, peer, opened, passed>>
    BY <1>22 DEF Close
  <2>2. OneConnection'
    BY <2>1 DEF Channel, OneConnection
  <2>3. PeerAuthorized'
    BY <2>1 DEF Channel, PeerAuthorized, Trusted
  <2> QED
    BY <2>2, <2>3 DEF Channel
<1>23. CASE ShutdownWaits
  <2>1. UNCHANGED channelVars /\ call.at = "works" /\ call' = [call EXCEPT !.at = "waits"]
    BY <1>2, <1>23 DEF ShutdownWaits, Waits, channelVars
  <2> QED
    BY <2>1, CallMoves DEF CallPlaces
<1>24. CASE CloseEnds
  <2>1. /\ connection' = 0 /\ ssl_' = 0 /\ call' = Idle
        /\ handshakeCompleted_' = (IF ssl_ = 0 THEN handshakeCompleted_ ELSE FALSE)
        /\ UNCHANGED <<setting, peer, opened, passed>>
    BY <1>24 DEF CloseEnds, Ends, CompletedAfterClose
  <2>2. ~handshakeCompleted_'
    BY <2>1 DEF Channel, PeerAuthorized
  <2>3. OneConnection'
    BY <2>1 DEF Channel, OneConnection, Idle
  <2>4. PeerAuthorized'
    BY <2>1, <2>2 DEF Channel, PeerAuthorized, Trusted
  <2> QED
    BY <2>3, <2>4 DEF Channel
<1> QED
  BY <1>4, <1>5, <1>6, <1>7, <1>8, <1>9, <1>10, <1>12, <1>13, <1>15, <1>16, <1>17, <1>18, <1>19,
     <1>20, <1>21, <1>22, <1>23, <1>24, <1>25 DEF SocketNext

-----------------------------------------------------------------------------
\* The retries.
Retries == RetriesCounted /\ RetriesExact

LEMMA RetriesKept ==
  ASSUME SocketTyped, Channel, Retries, SocketNext
  PROVE  Retries'
<1> DEFINE exhausted == ended = <<"read", "no bytes">> => peer.end = "gone" \/ setbacks >= MaxRecvRetries
<1>1. /\ call \in CallState /\ peer \in PeerState /\ setbacks \in Nat /\ MaxRecvRetries \in Nat
      /\ readRetryCount_ \in Nat
  BY SSLAssumption DEF SocketTyped, Retries, RetriesCounted, SSLAssumption
<1>2. Counted => readRetryCount_ = setbacks + 1
  BY DEF Retries, RetriesCounted
<1>3. ~Counted => readRetryCount_ = setbacks
  BY DEF Retries, RetriesCounted
<1>4. Counted <=> call.op = "read" /\ call.at = "waits"
  BY DEF Counted
<1>5. call # Idle => ended = <<"none", "none">>
  BY DEF Retries, RetriesCounted
\* A call ends, otherwise than a read at the end of the stream.
<1>6. ASSUME NEW o, NEW r, call' = Idle, ended' = <<o, r>>, readRetryCount_' = setbacks',
             o = "read" /\ r = "no bytes" => peer'.end = "gone" \/ setbacks' >= MaxRecvRetries
      PROVE  Retries'
  <2>1. ~Counted' /\ call'.op # "read"
    BY <1>6 DEF Counted, Idle
  <2>2. RetriesCounted'
    BY <1>6, <2>1 DEF RetriesCounted
  <2>3. ended' = <<"read", "no bytes">> => o = "read" /\ r = "no bytes"
    BY <1>6
  <2>4. RetriesExact'
    BY <1>6, <2>1, <2>3 DEF RetriesExact
  <2> QED
    BY <2>2, <2>4 DEF Retries
\* A call goes on.
<1>7. ASSUME ended' = <<"none", "none">>,
             call'.op = "read" /\ call'.at = "waits" => readRetryCount_' = setbacks' + 1,
             ~(call'.op = "read" /\ call'.at = "waits") => readRetryCount_' = setbacks',
             setbacks' \in Nat
      PROVE  Retries'
  <2>1. RetriesCounted'
    BY <1>7 DEF RetriesCounted, Counted
  <2>2. RetriesExact'
    BY <1>7 DEF RetriesExact
  <2> QED
    BY <2>1, <2>2 DEF Retries
<1>8. ASSUME NEW r, Ends(r), Same, call.at # "waits" \/ call.op # "read",
             call.op = "read" /\ r = "no bytes" => setbacks >= MaxRecvRetries
      PROVE  Retries'
  BY <1>3, <1>4, <1>6, <1>8 DEF Ends, Same
<1>9. ASSUME NEW p \in CallPlaces, Waits(p), call # Idle,
             call.op = "read" /\ p = "waits" => readRetryCount_' = setbacks' + 1,
             ~(call.op = "read" /\ p = "waits") => readRetryCount_' = setbacks',
             setbacks' \in Nat
      PROVE  Retries'
  <2>1. call'.op = call.op /\ call'.at = p /\ ended' = <<"none", "none">>
    BY <1>1, <1>5, <1>9 DEF Waits, CallState
  <2> QED
    BY <1>7, <1>9, <2>1
<1>10. CASE PeerActs
  <2>1. /\ peer.end = "no" /\ UNCHANGED <<call, ended, readRetryCount_, setbacks>>
    BY <1>10 DEF PeerActs
  <2> QED
    BY <2>1 DEF Retries, RetriesCounted, RetriesExact, Counted, Idle
<1>11. CASE Open \/ OpenFails
  <2>1. /\ call' = Idle /\ call = Idle /\ UNCHANGED <<readRetryCount_, setbacks>>
        /\ \E r : ended' = <<"open", r>>
    BY <1>11 DEF Open, OpenFails
  <2>2. call.op # "read"
    BY <2>1 DEF Idle
  <2> QED
    BY <1>3, <1>4, <1>6, <2>1, <2>2
<1>12. ASSUME NEW op \in {"read", "write", "flush", "peek", "hasPendingDataToRead"}, Begin(op)
       PROVE  Retries'
  <2>1. call = Idle /\ UNCHANGED <<readRetryCount_, setbacks>> /\ readRetryCount_ = setbacks
    BY <1>3, <1>4, <1>12 DEF Begin, Idle
  <2>2. CASE GivesUp(op)
    <3>1. call' = Idle /\ ended' = <<op, "nothing done">>
      BY <1>12, <2>1, <2>2 DEF Begin
    <3> QED
      BY <1>6, <2>1, <3>1
  <2>3. CASE ~GivesUp(op)
    <3>1. call'.at # "waits" /\ ended' = <<"none", "none">>
      BY <1>12, <2>3 DEF Begin
    <3> QED
      BY <1>1, <1>7, <2>1, <3>1
  <2> QED
    BY <2>2, <2>3
<1>28. ASSUME NEW op \in {"read", "write", "flush", "peek", "hasPendingDataToRead"},
              HandshakeParamsFail(op)
       PROVE  Retries'
  <2>1. call = Idle /\ UNCHANGED <<readRetryCount_, setbacks>> /\ readRetryCount_ = setbacks
    BY <1>3, <1>4, <1>28 DEF HandshakeParamsFail, Idle
  <2>2. CASE call' = call
    <3>1. call' = Idle /\ ended' = <<op, "threw">>
      BY <1>5, <1>28, <2>1, <2>2 DEF HandshakeParamsFail, Idle
    <3> QED
      BY <1>6, <2>1, <3>1
  <2>3. CASE call' # call
    <3>1. call'.at # "waits" /\ ended' = <<"none", "none">>
      BY <1>28, <2>3 DEF HandshakeParamsFail
    <3> QED
      BY <1>1, <1>7, <2>1, <3>1
  <2> QED
    BY <2>2, <2>3
<1>13. CASE HandshakeDone
  <2>1. /\ call.at = "handshake" /\ call'.at = "works" /\ UNCHANGED <<ended, readRetryCount_, setbacks>>
        /\ call # Idle
    BY <1>1, <1>13 DEF HandshakeDone, CallState, Idle
  <2> QED
    BY <1>1, <1>3, <1>4, <1>5, <1>7, <2>1
<1>14. CASE HandshakeFails
  BY <1>8, <1>14 DEF HandshakeFails
<1>15. CASE HandshakeWaits
  <2>1. CASE setting.eventSafe_
    BY <1>8, <1>15, <2>1 DEF HandshakeWaits
  <2>2. CASE ~setting.eventSafe_
    <3>1. /\ Waits("handshake waits") /\ UNCHANGED <<readRetryCount_, setbacks>>
          /\ call.at = "handshake"
      BY <1>15, <2>2 DEF HandshakeWaits
    <3>2. call # Idle /\ readRetryCount_ = setbacks
      BY <1>3, <1>4, <3>1, NoCall
    <3> QED
      BY <1>1, <1>9, <3>1, <3>2 DEF CallPlaces
  <2> QED
    BY <2>1, <2>2
<1>16. ASSUME call' = [call EXCEPT !.at = IF @ = "waits" THEN "works" ELSE "handshake"],
              call.at \in {"handshake waits", "waits"}, ended' = ended,
              readRetryCount_' = setbacks', setbacks' \in Nat
       PROVE  Retries'
  <2>1. call # Idle
    BY <1>16, NoCall
  <2>2. call'.at # "waits"
    BY <1>1, <1>16 DEF CallState
  <2> QED
    BY <1>5, <1>7, <1>16, <2>1, <2>2
<1>17. CASE Event
  <2>1. setbacks' = setbacks /\ readRetryCount_' = (IF Counted THEN readRetryCount_ - 1 ELSE readRetryCount_)
    BY <1>17 DEF Event, TakenBack
  <2>2. readRetryCount_' = setbacks' /\ setbacks' \in Nat
    BY <1>1, <1>2, <1>3, <2>1
  <2> QED
    BY <1>16, <1>17, <2>2 DEF Event
<1>18. CASE Signal \/ WaitThrows
  <2>1. readRetryCount_' = setbacks' /\ setbacks' \in Nat
    BY <1>1, <1>2, <1>3, <1>18 DEF Signal, WaitThrows
  <2>2. CASE Ends("threw")
    BY <1>6, <2>1, <2>2 DEF Ends
  <2>3. CASE ~Ends("threw")
    BY <1>16, <1>18, <2>1, <2>3 DEF Signal, WaitThrows
  <2> QED
    BY <2>2, <2>3
<1>19. CASE ReadBytes
  <2>1. call' = Idle /\ ended' = <<call.op, "bytes">> /\ readRetryCount_' = 0 /\ setbacks' = 0
    BY <1>19 DEF ReadBytes, Ends
  <2> QED
    BY <1>6, <2>1
<1>20. CASE ReadWaits
  <2>1. /\ call.op = "read" /\ call.at = "works" /\ readRetryCount_' = setbacks + 1
        /\ call # Idle
    BY <1>3, <1>4, <1>20 DEF ReadWaits, Idle
  <2>2. CASE setting.eventSafe_
    <3>1. call' = Idle /\ ended' = <<call.op, "retry">> /\ setbacks' = setbacks + 1
      BY <1>20, <2>2 DEF ReadWaits, Ends
    <3> QED
      BY <1>6, <2>1, <3>1
  <2>3. CASE ~setting.eventSafe_
    <3>1. Waits("waits") /\ setbacks' = setbacks
      BY <1>20, <2>3 DEF ReadWaits
    <3> QED
      BY <1>1, <1>9, <2>1, <3>1 DEF CallPlaces
  <2> QED
    BY <2>2, <2>3
<1>21. CASE ReadFails
  <2>1. PICK r \in {"threw", "no bytes"} : (peer.end = "close_notify" => r = "threw") /\ Ends(r)
    BY <1>21 DEF ReadFails
  <2>2. /\ readRetryCount_' = setbacks' /\ peer.end # "no" /\ peer' = peer
    BY <1>3, <1>4, <1>21 DEF ReadFails
  <2>3. r = "no bytes" => peer'.end = "gone"
    BY <1>1, <2>1, <2>2 DEF PeerState
  <2> QED
    BY <1>6, <2>1, <2>2, <2>3 DEF Ends
<1>22. CASE ReadExhausted
  <2>1. call.at = "works" /\ setbacks >= MaxRecvRetries
    BY <1>3, <1>4, <1>22 DEF ReadExhausted
  <2> QED
    BY <1>8, <1>22, <2>1 DEF ReadExhausted
<1>23. CASE WriteSome
  <2>1. call.op = "write" /\ UNCHANGED <<readRetryCount_, setbacks>> /\ readRetryCount_ = setbacks
        /\ call # Idle
    BY <1>3, <1>4, <1>23 DEF WriteSome, Idle
  <2>2. CASE Ends("bytes")
    BY <1>6, <2>1, <2>2 DEF Ends
  <2>3. CASE ~Ends("bytes")
    <3>1. PICK n : call' = [call EXCEPT !.written = @ + n] /\ ended' = ended
      BY <1>23, <2>3 DEF WriteSome
    <3>2. call'.op = "write"
      BY <1>1, <2>1, <3>1 DEF CallState
    <3> QED
      BY <1>1, <1>5, <1>7, <2>1, <3>1, <3>2
  <2> QED
    BY <2>2, <2>3
<1>24. CASE WriteWaits \/ WriteFails \/ Peek \/ ShutdownWaits
  <2>1. call.op \in {"write", "peek", "close"} /\ call.at = "works"
    BY <1>24 DEF WriteWaits, WriteFails, Peek, ShutdownWaits
  <2>2. call # Idle /\ readRetryCount_ = setbacks
    BY <1>3, <1>4, <2>1 DEF Idle
  <2>3. ASSUME NEW r, Ends(r), Same
        PROVE  Retries'
    BY <1>8, <2>1, <2>3
  <2>4. ASSUME Waits("waits"), UNCHANGED <<readRetryCount_, setbacks>>
        PROVE  Retries'
    BY <1>1, <1>9, <2>1, <2>2, <2>4 DEF CallPlaces
  <2> QED
    BY <1>24, <2>3, <2>4 DEF WriteWaits, WriteFails, Peek, ShutdownWaits
<1>25. CASE Flush \/ HasPendingDataToRead
  BY <1>8, <1>25 DEF Flush, HasPendingDataToRead
<1>26. CASE Close
  <2>1. /\ call = Idle /\ call'.op = "close" /\ ended' = <<"none", "none">>
        /\ UNCHANGED <<readRetryCount_, setbacks>>
    BY <1>26 DEF Close
  <2>2. readRetryCount_ = setbacks
    BY <1>3, <1>4, <2>1 DEF Idle
  <2> QED
    BY <1>1, <1>7, <2>1, <2>2
<1>27. CASE CloseEnds
  <2>1. /\ call.op = "close" /\ call' = Idle /\ ended' = <<call.op, "done">>
        /\ UNCHANGED <<readRetryCount_, setbacks>>
    BY <1>27 DEF CloseEnds, Ends
  <2> QED
    BY <1>3, <1>4, <1>6, <2>1
<1> QED
  BY <1>10, <1>11, <1>12, <1>13, <1>14, <1>15, <1>17, <1>18, <1>19, <1>20, <1>21, <1>22, <1>23,
     <1>24, <1>25, <1>26, <1>27, <1>28 DEF SocketNext

-----------------------------------------------------------------------------
\* The factories.
LEMMA FactoriesKept ==
  ASSUME FactoriesCounted, FactoryNext
  PROVE  FactoriesCounted'
<1>1. IsFiniteSet(factories) /\ Cardinality(factories) \in Nat
  BY FS_CardinalityType DEF FactoriesCounted
<1>2. ASSUME NEW f \in Factory, MakeFactory(f)
      PROVE  FactoriesCounted'
  <2>1. /\ f \notin factories /\ count_' = count_ + 1
        /\ UNCHANGED <<manualOpenSSLInitialization_, meddled>>
    BY <1>2 DEF MakeFactory
  <2>2. count_ \in Nat
    BY <1>1 DEF FactoriesCounted
  <2>3. ~meddled => openSSLInitialized' /\ didWeInitializeOpenSSL_'
    <3>1. ~meddled => \/ count_ = 0 /\ ~manualOpenSSLInitialization_
                      \/ openSSLInitialized /\ didWeInitializeOpenSSL_
      BY <2>2 DEF FactoriesCounted
    <3>2. (didWeInitializeOpenSSL_' <=> didWeInitializeOpenSSL_ \/ (count_ = 0 /\ ~manualOpenSSLInitialization_))
          /\ (openSSLInitialized' <=> openSSLInitialized \/ (count_ = 0 /\ ~manualOpenSSLInitialization_))
      BY <1>2 DEF MakeFactory
    <3> QED
      BY <3>1, <3>2
  <2>4. CASE factories' = factories \cup {f} /\ UNCHANGED factoryFailed
    <3>1. IsFiniteSet(factories') /\ Cardinality(factories') = Cardinality(factories) + 1
      BY <1>1, <2>1, <2>4, FS_AddElement
    <3> QED
      BY <1>1, <2>1, <2>2, <2>3, <2>4, <3>1 DEF FactoriesCounted
  <2>5. CASE factoryFailed' = TRUE /\ ~factoryFailed /\ UNCHANGED factories
    BY <1>1, <2>1, <2>2, <2>3, <2>5 DEF FactoriesCounted
  <2> QED
    BY <1>2, <2>4, <2>5 DEF MakeFactory
<1>3. ASSUME NEW f \in Factory, DeleteFactory(f)
      PROVE  FactoriesCounted'
  <2>1. /\ f \in factories /\ factories' = factories \ {f} /\ count_' = count_ - 1
        /\ UNCHANGED <<manualOpenSSLInitialization_, factoryFailed, meddled>>
        /\ (openSSLInitialized' <=> openSSLInitialized /\ ~(count_ = 1 /\ didWeInitializeOpenSSL_))
        /\ (didWeInitializeOpenSSL_' <=> didWeInitializeOpenSSL_ /\ ~(count_ = 1 /\ didWeInitializeOpenSSL_))
    BY <1>3 DEF DeleteFactory, CleansUp
  <2>2. IsFiniteSet(factories') /\ Cardinality(factories') = Cardinality(factories) - 1
    BY <1>1, <2>1, FS_RemoveElement
  <2>3. Cardinality(factories') \in Nat
    BY <2>2, FS_CardinalityType
  <2>4. count_ \in Nat /\ count_ > 0 /\ count_' \in Nat
    BY <1>1, <2>1, <2>2, <2>3 DEF FactoriesCounted
  <2>5. ~meddled => (openSSLInitialized' <=> count_' > 0) /\ (didWeInitializeOpenSSL_' <=> count_' > 0)
    BY <2>1, <2>4 DEF FactoriesCounted
  <2> QED
    BY <1>1, <2>1, <2>2, <2>5 DEF FactoriesCounted
<1>4. CASE ProgramInitializes
  BY <1>4 DEF ProgramInitializes, FactoriesCounted
<1> QED
  BY <1>2, <1>3, <1>4 DEF FactoryNext

\* As long as the program has not meddled the library is initialized as long as it is needed.
LEMMA CountedFactoriesKeepTheLibrary ==
  ASSUME FactoriesCounted
  PROVE  LibraryStays
<1>1. Cardinality(factories) \in Nat /\ (factories = {} <=> Cardinality(factories) = 0)
  BY FS_CardinalityType, FS_EmptySet DEF FactoriesCounted
<1> QED
  BY <1>1 DEF FactoriesCounted, LibraryStays

-----------------------------------------------------------------------------
LEMMA SSLInvKept ==
  ASSUME SSLInv, [SocketNext \/ FactoryNext]_sslVars
  PROVE  SSLInv'
<1>1. SocketTyped /\ Channel /\ Retries /\ FactoriesCounted
  BY DEF SSLInv, SocketInv, Channel, Retries
<1>2. CASE SocketNext
  <2>1. UNCHANGED factoryPart
    BY <1>2
       DEF SocketNext, PeerActs, Open, ReadBytes, OpenFails, Begin, HandshakeParamsFail,
       HandshakeDone, HandshakeFails, HandshakeWaits, Event, Signal, WaitThrows, ReadWaits, ReadFails, ReadExhausted, WriteSome,
       WriteWaits, WriteFails, Flush, Peek, HasPendingDataToRead, Close, ShutdownWaits, CloseEnds,
       Waits, Ends
  <2>2. FactoriesCounted'
    BY <1>1, <2>1 DEF factoryPart, FactoriesCounted
  <2>3. SocketTyped' /\ Channel' /\ Retries'
    BY <1>1, <1>2, SocketStepsTyped, ChannelKept, RetriesKept DEF Channel
  <2> QED
    BY <2>2, <2>3 DEF SSLInv, SocketInv, Channel, Retries
<1>3. ASSUME UNCHANGED socketPart
      PROVE  SocketInv'
  <2>1. SocketTyped' /\ OneConnection'
    BY <1>1, <1>3 DEF socketPart, SocketTyped, Channel, OneConnection
  <2>2. PeerAuthorized' /\ RetriesCounted' /\ RetriesExact'
    BY <1>1, <1>3 DEF socketPart, Channel, Retries, PeerAuthorized, Trusted, RetriesCounted,
       RetriesExact, Counted
  <2> QED
    BY <2>1, <2>2 DEF SocketInv
<1>4. CASE FactoryNext
  <2>1. UNCHANGED socketPart
    BY <1>4 DEF FactoryNext, MakeFactory, DeleteFactory, ProgramInitializes
  <2> QED
    BY <1>1, <1>3, <1>4, <2>1, FactoriesKept DEF SSLInv
<1>5. CASE UNCHANGED sslVars
  <2>1. UNCHANGED socketPart /\ UNCHANGED factoryPart
    BY <1>5 DEF sslVars
  <2>2. FactoriesCounted'
    BY <1>1, <2>1 DEF factoryPart, FactoriesCounted
  <2> QED
    BY <1>3, <2>1, <2>2 DEF SSLInv
<1> QED
  BY <1>2, <1>4, <1>5

\* Data pass over SSL only when the peer has been authorized; the retries of
\* read() are what they say; and the library is initialized as long as a factory
\* needs it: for any peers and any number of connections, calls and factories
\* (TSSLSocket::initializeHandshake, authorize, read and close, TSSLSocketFactory).
THEOREM DataPassOnlyToTrustedPeers == SSLSpec => []SecureChannel
<1>1. SSLInit => SSLInv
  BY SocketStarts
<1>2. SSLInv /\ [SocketNext \/ FactoryNext]_sslVars => SSLInv'
  BY SSLInvKept
<1>3. SSLInv => SecureChannel
  BY CountedFactoriesKeepTheLibrary DEF SSLInv, SocketInv, SecureChannel
<1> QED
  BY <1>1, <1>2, <1>3, PTL DEF SSLSpec
=============================================================================
