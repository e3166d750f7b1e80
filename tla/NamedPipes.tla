----------------------------- MODULE NamedPipes -----------------------------
(***************************************************************************)
(* The pipes of Windows: a server with one pipe instance after the other   *)
(* (TPipeServer.cpp), its transports with one read under way at any time   *)
(* (TPipe.cpp), their clients, and the thread of TServerFramework that     *)
(* accepts, with another one that interrupts it.  Work items are started   *)
(* before addWorkItem returns: SubmissionThread is about that.             *)
(***************************************************************************)
EXTENDS Integers, SequencesExt

CONSTANTS
  MaxPipes,          \* bound: pipe instances that are created
  BufferSize,        \* bytes of a transport's buffer_
  Talkers,           \* bound: the instances whose clients write
  MaxBytesInPipe,    \* bound: bytes each of them writes
  MaxInterruptCalls  \* bound: calls of interrupt()

ASSUME PipesAssumption == {MaxPipes, BufferSize} \subseteq Nat

VARIABLES
  impl_,            \* the server's impl_: "none" or "named"
  stopping_,
  Pipe_,            \* the instance for the next client, or Invalid
  cached_client_,   \* a client that was there at once, or Invalid
  connectOverlap_,  \* what became of ConnectNamedPipe
  listen_event_,    \* for those who wait for several things at a time
  accepting,        \* what the thread that accepts does
  interrupter,      \* "inside" pipe_protect_, "raced" if the server was ending by itself, or "outside"
  interruptCalls,   \* calls of interrupt() so far
  late,             \* history: clients accepted since an interrupt, or -1 without one
  instance,         \* per instance: its two ends
  object,           \* per instance: the TPipe the server has for it
  spoken, inPipe,   \* per client: bytes it has written, and those nobody has read
  readOut,          \* per client: what read() has returned
  spilled,          \* per client: what read() has copied before it threw
  back, echoed,     \* per client: what the server has written, what the client has read
  anonHandle,       \* the handles of an anonymous pipe server
  anonServer, anonTransports

serverVars == <<impl_, stopping_, Pipe_, cached_client_, connectOverlap_, listen_event_, accepting>>
streamVars == <<spoken, inPipe, readOut, spilled, back, echoed>>
interruptVars == <<interrupter, interruptCalls, late>>
anonVars == <<anonHandle, anonServer, anonTransports>>
namedVars == <<serverVars, interruptVars, instance, object, streamVars>>
pipesVars == <<namedVars, anonVars>>

Pipe == 1..MaxPipes
Invalid == 0  \* INVALID_HANDLE_VALUE
Fewer(a, b) == IF a < b THEN a ELSE b

NoObject == [alive |-> FALSE, read |-> "none", buffer |-> << >>, begin |-> 0, end |-> 0]

PipesInit ==
  /\ impl_ = "none" /\ stopping_ = FALSE /\ Pipe_ = Invalid /\ cached_client_ = Invalid
  /\ connectOverlap_ = "none" /\ listen_event_ = FALSE /\ accepting = "closed"
  /\ interrupter = "outside" /\ interruptCalls = 0 /\ late = -1
  /\ instance = [p \in Pipe |-> [handle |-> "unused", client |-> "none"]]
  /\ object = [p \in Pipe |-> NoObject]
  /\ spoken = [p \in Pipe |-> 0] /\ inPipe = [p \in Pipe |-> << >>]
  /\ readOut = [p \in Pipe |-> << >>] /\ spilled = [p \in Pipe |-> << >>]
  /\ back = [p \in Pipe |-> << >>] /\ echoed = [p \in Pipe |-> << >>]
  /\ anonHandle = [h \in {"PipeR_", "PipeW_", "ClientAnonRead_", "ClientAnonWrite_"} |-> "unused"]
  /\ anonServer = FALSE /\ anonTransports = 0

-----------------------------------------------------------------------------
\* CloseHandle on the server's end of an instance.
HandleClosed(ends, p) == IF p = Invalid THEN ends ELSE [ends EXCEPT ![p].handle = "closed"]

\* ReadFile starts unless the client has left and there is nothing left to read.
CanRead(ends, p) == ends[p].client = "open" \/ inPipe[p] # << >>

\* A TPipe for an instance whose ReadFile has started: it owns the handle now.
TransportConstructed(objects, p) == [objects EXCEPT ![p] = [NoObject EXCEPT !.alive = TRUE, !.read = "pending"]]

\* Faulty variant: it looks for bytes instead of for a read.
BytesLeft(o) == o.begin # o.end

\* The destructor cancels a read that is under way, and waits for it to end.
UnderWay(o) == o.begin = o.end

Destroyed(objects, p) ==
  IF p = Invalid THEN objects
  ELSE LET o == objects[p]
       IN [objects EXCEPT ![p] = [NoObject EXCEPT !.read = IF UnderWay(o) THEN "none" ELSE o.read]]

\* Faulty variant: a server that is being stopped waits for one more client.
OneMore == FALSE

NoMore == stopping_

\* createNamedPipe(): the next instance takes the place of the old one in Pipe_, or there is none,
\* before or after that one has been closed.
CreateNamedPipe(old, ends, p, found) ==
  /\ ends[p].handle = "unused" /\ \A q \in Pipe : q < p => ends[q].handle # "unused"
  /\ instance' = [HandleClosed(ends, old) EXCEPT ![p] = [handle |-> "open", client |-> found]]
CreateFails(old, ends) ==
  \/ Pipe_' = old /\ instance' = ends
  \/ Pipe_' = Invalid /\ instance' = HandleClosed(ends, old)

\* initiateNamedConnect(), under pipe_protect_, when Pipe_ is `old' and cached_client_ is `cached': a new
\* instance, and the operation that waits for its client.  The client may be there already; it may
\* have left again, and then TPipe cannot be constructed or the connect itself fails.
InitiateNamedConnect(old, cached, ends, objects, threw) ==
  \/ /\ NoMore /\ ~threw
     /\ Pipe_' = old /\ cached_client_' = cached /\ instance' = ends /\ object' = objects
     /\ UNCHANGED <<connectOverlap_, listen_event_>>
  \/ /\ ~NoMore /\ threw
     /\ CreateFails(old, ends)
     /\ cached_client_' = cached /\ object' = objects
     /\ UNCHANGED <<connectOverlap_, listen_event_>>
  \/ /\ ~NoMore
     /\ \E p \in Pipe, found \in {"none", "open", "closed"} :
          /\ CreateNamedPipe(old, ends, p, found)
          /\ threw = (found = "closed") /\ listen_event_' = (found = "open")
          /\ IF found = "open"
             THEN /\ cached_client_' = p /\ Pipe_' = Invalid
                  /\ object' = TransportConstructed(objects, p) /\ connectOverlap_' = "none"
             ELSE /\ cached_client_' = cached /\ Pipe_' = p /\ object' = objects
                  /\ connectOverlap_' = IF found = "none" THEN "pending" ELSE "undefined"

LockFree == interrupter = "outside"

\* listen(): a new TNamedPipeServer.  If its constructor throws, there is none.
ListenPipe ==
  /\ impl_ = "none" /\ accepting = "closed" /\ LockFree
  /\ InitiateNamedConnect(Invalid, Invalid, instance, object, FALSE)
  /\ impl_' = "named" /\ accepting' = "idle" /\ late' = -1
  /\ UNCHANGED <<stopping_, interrupter, interruptCalls, streamVars, anonVars>>

CountAccepted == late' = IF late = -1 THEN -1 ELSE late + 1

\* acceptImpl() when a client is waiting already.  If the next connection cannot be initiated it
\* throws, and the client is gone.
AcceptCached ==
  /\ impl_ = "named" /\ accepting = "idle" /\ LockFree /\ cached_client_ # Invalid
  /\ \/ /\ InitiateNamedConnect(Pipe_, Invalid, instance, object, FALSE)
        /\ CountAccepted /\ accepting' = "idle"
     \/ /\ InitiateNamedConnect(Pipe_, Invalid, HandleClosed(instance, cached_client_),
                                Destroyed(object, cached_client_), TRUE)
        /\ accepting' = "ends" /\ UNCHANGED late
  /\ UNCHANGED <<impl_, stopping_, interrupter, interruptCalls, streamVars, anonVars>>

\* When there is none it waits for the one who connects to Pipe_.
AcceptWaits ==
  /\ impl_ = "named" /\ accepting = "idle" /\ LockFree /\ cached_client_ = Invalid
  /\ accepting' = IF Pipe_ = Invalid THEN "ends" ELSE "waits"
  /\ UNCHANGED <<impl_, stopping_, Pipe_, cached_client_, connectOverlap_, listen_event_, interruptVars,
                 instance, object, streamVars, anonVars>>

\* GetOverlappedResult.  Of an operation that never began it says nothing, if it returns.
ConnectEnds ==
  /\ accepting = "waits"
  /\ \/ connectOverlap_ = "done" /\ accepting' = "connected"
     \/ connectOverlap_ = "aborted" /\ accepting' = "aborted"
     \/ connectOverlap_ = "undefined" /\ accepting' \in {"connected", "aborted", "ends"}
  /\ UNCHANGED <<impl_, stopping_, Pipe_, cached_client_, connectOverlap_, listen_event_, interruptVars,
                 instance, object, streamVars, anonVars>>

\* The client gets its transport and the server its next instance, or one of the two cannot be had:
\* then accept throws, and TServerFramework::serve goes on after CLIENT_DISCONNECT only.
AcceptConnected ==
  /\ accepting = "connected" /\ LockFree
  /\ LET ours == TransportConstructed(object, Pipe_)
     IN IF CanRead(instance, Pipe_)
        THEN \/ /\ InitiateNamedConnect(Invalid, cached_client_, instance, ours, FALSE)
                /\ CountAccepted /\ accepting' = "idle"
             \/ /\ InitiateNamedConnect(Invalid, cached_client_, HandleClosed(instance, Pipe_),
                                        Destroyed(ours, Pipe_), TRUE)
                /\ accepting' = "ends" /\ UNCHANGED late
        ELSE \E threw \in BOOLEAN :
               /\ InitiateNamedConnect(Pipe_, cached_client_, instance, object, threw)
               /\ accepting' = IF threw THEN "ends" ELSE "idle"
               /\ UNCHANGED late
  /\ UNCHANGED <<impl_, stopping_, interrupter, interruptCalls, streamVars, anonVars>>

\* Faulty variant: the thread that accepts does not wait.
DoesNotWait == TRUE

\* Before it throws INTERRUPTED it waits until the one that interrupts it is out.
Lets == LockFree

AcceptAborted ==
  /\ accepting = "aborted" /\ Lets
  /\ accepting' = "ends"
  /\ UNCHANGED <<impl_, stopping_, Pipe_, cached_client_, connectOverlap_, listen_event_, interruptVars,
                 instance, object, streamVars, anonVars>>

\* serve() is over and closes the server.
ClosePipeServer ==
  /\ accepting = "ends"
  /\ impl_' = "none" /\ stopping_' = FALSE /\ Pipe_' = Invalid /\ cached_client_' = Invalid
  /\ connectOverlap_' = "none" /\ listen_event_' = FALSE /\ accepting' = "closed"
  /\ instance' = HandleClosed(HandleClosed(instance, Pipe_), cached_client_)
  /\ object' = Destroyed(object, cached_client_)
  /\ UNCHANGED <<interruptVars, streamVars, anonVars>>

\* interrupt() by another thread.
InterruptPipe ==
  /\ impl_ = "named" /\ LockFree /\ interruptCalls < MaxInterruptCalls
  /\ interrupter' = IF accepting = "ends" \/ connectOverlap_ = "undefined" THEN "raced" ELSE "inside"
  /\ interruptCalls' = interruptCalls + 1
  /\ late' = IF late = -1 THEN 0 ELSE late
  /\ instance' = HandleClosed(instance, cached_client_) /\ object' = Destroyed(object, cached_client_)
  /\ cached_client_' = Invalid
  /\ stopping_' = (stopping_ \/ Pipe_ # Invalid)
  /\ IF Pipe_ # Invalid /\ connectOverlap_ = "pending"
     THEN connectOverlap_' = "aborted" /\ listen_event_' = TRUE
     ELSE UNCHANGED <<connectOverlap_, listen_event_>>
  /\ UNCHANGED <<impl_, Pipe_, accepting, streamVars, anonVars>>

InterruptReturns ==
  /\ interrupter # "outside" /\ interrupter' = "outside"
  /\ UNCHANGED <<serverVars, interruptCalls, late, instance, object, streamVars, anonVars>>

-----------------------------------------------------------------------------
\* TPipe::open() in a client: it waits while all instances are busy.
ClientOpens(p) ==
  /\ instance[p] = [handle |-> "open", client |-> "none"]
  /\ instance' = [instance EXCEPT ![p].client = "open"]
  /\ IF p = Pipe_ /\ connectOverlap_ = "pending"
     THEN connectOverlap_' = "done" /\ listen_event_' = TRUE
     ELSE UNCHANGED <<connectOverlap_, listen_event_>>
  /\ UNCHANGED <<impl_, stopping_, Pipe_, cached_client_, accepting, interruptVars, object, streamVars,
                 anonVars>>

\* pseudo_sync_write(): piece by piece, until all is written or the other end is closed.
ClientWrites(p) ==
  /\ instance[p] = [handle |-> "open", client |-> "open"]
  /\ p \in Talkers /\ spoken[p] < MaxBytesInPipe
  /\ spoken' = [spoken EXCEPT ![p] = @ + 1]
  /\ inPipe' = [inPipe EXCEPT ![p] = Append(@, spoken[p] + 1)]
  /\ UNCHANGED <<serverVars, interruptVars, instance, object, readOut, spilled, back, echoed, anonVars>>

\* pseudo_sync_read(): it waits until there is something.
ClientReads(p) ==
  /\ instance[p].client = "open"
  /\ \E n \in 1..Len(back[p]) :
       /\ echoed' = [echoed EXCEPT ![p] = @ \o SubSeq(back[p], 1, n)]
       /\ back' = [back EXCEPT ![p] = SubSeq(@, n + 1, Len(@))]
  /\ UNCHANGED <<serverVars, interruptVars, instance, object, spoken, inPipe, readOut, spilled, anonVars>>

ClientCloses(p) ==
  /\ instance[p].client = "open"
  /\ instance' = [instance EXCEPT ![p].client = "closed"]
  /\ UNCHANGED <<serverVars, interruptVars, object, streamVars, anonVars>>

-----------------------------------------------------------------------------
\* The read that is under way ends.
ReadEnds(p) ==
  /\ object[p].read = "pending"
  /\ \/ \E n \in 1..Fewer(BufferSize, Len(inPipe[p])) :
          /\ object' = [object EXCEPT ![p].read = "done", ![p].buffer = SubSeq(inPipe[p], 1, n)]
          /\ inPipe' = [inPipe EXCEPT ![p] = SubSeq(@, n + 1, Len(@))]
     \/ /\ ~CanRead(instance, p)
        /\ object' = [object EXCEPT ![p].read = "failed"]
        /\ UNCHANGED inPipe
  /\ UNCHANGED <<serverVars, interruptVars, instance, spoken, readOut, spilled, back, echoed, anonVars>>

InUse(p) == object[p].alive /\ p # cached_client_

\* TWaitableNamedPipeImpl::read(): what is in the buffer, or what the read has brought; when the buffer
\* is used up the next read starts.  If that fails the call throws, with what it has copied.  (It throws
\* also, and changes nothing, when the last read has failed.)
ReadPipe(p) ==
  /\ InUse(p) /\ object[p].read = "done"
  /\ LET o == object[p]
         end == IF UnderWay(o) THEN Len(o.buffer) ELSE o.end
     IN \E n \in 1 .. end - o.begin :
          LET bytes == SubSeq(o.buffer, o.begin + 1, o.begin + n)
              refused == o.begin + n = end /\ ~CanRead(instance, p)
          IN /\ object' = [object EXCEPT ![p] =
                             IF o.begin + n # end THEN [o EXCEPT !.begin = @ + n, !.end = end]
                             ELSE [NoObject EXCEPT !.alive = TRUE,
                                                   !.read = IF refused THEN "refused" ELSE "pending"]]
             /\ readOut' = IF refused THEN readOut ELSE [readOut EXCEPT ![p] = @ \o bytes]
             /\ spilled' = IF refused THEN [spilled EXCEPT ![p] = bytes] ELSE spilled
  /\ UNCHANGED <<serverVars, interruptVars, instance, spoken, inPipe, back, echoed, anonVars>>

\* The server writes back what it has read.
WritePipe(p) ==
  /\ InUse(p) /\ instance[p].client = "open"
  /\ Len(back[p]) + Len(echoed[p]) < Len(readOut[p])
  /\ back' = [back EXCEPT ![p] = Append(@, readOut[p][Len(@) + Len(echoed[p]) + 1])]
  /\ UNCHANGED <<serverVars, interruptVars, instance, object, spoken, inPipe, readOut, spilled, echoed,
                 anonVars>>

\* The transport of a client is closed or destroyed.
CloseTransport(p) ==
  /\ InUse(p)
  /\ object' = Destroyed(object, p) /\ instance' = HandleClosed(instance, p)
  /\ UNCHANGED <<serverVars, interruptVars, streamVars, anonVars>>

-----------------------------------------------------------------------------
AllHandles(state) == anonHandle' = [h \in DOMAIN anonHandle |-> state]

\* Faulty variant: it stays.
FirstPairStays ==
  anonHandle' = [h \in DOMAIN anonHandle |->
                   IF h \in {"PipeW_", "ClientAnonRead_"} THEN "open" ELSE "unused"]

\* When the second pair cannot be created the first is closed.
FirstPair == AllHandles("unused")

\* A TPipeServer without a name has its two pipes from the start.
CreateAnonPipe ==
  /\ ~anonServer /\ \A h \in DOMAIN anonHandle : anonHandle[h] = "unused"
  /\ \/ AllHandles("open") /\ anonServer' = TRUE
     \/ FirstPair /\ UNCHANGED anonServer
  /\ UNCHANGED <<namedVars, anonTransports>>

\* acceptImpl(): when its client has written, a transport with the same handles.
AnonAccept ==
  /\ anonServer /\ anonHandle["PipeR_"] = "open" /\ anonTransports = 0
  /\ anonTransports' = 1
  /\ UNCHANGED <<namedVars, anonHandle, anonServer>>

CloseAll(handles) ==
  anonHandle' = [h \in DOMAIN anonHandle |-> IF h \in handles THEN "closed" ELSE anonHandle[h]]

\* Both the transport and the server close them.
AnonTransportCloses ==
  /\ anonTransports > 0 /\ anonTransports' = anonTransports - 1
  /\ CloseAll({"PipeR_", "PipeW_"})
  /\ UNCHANGED <<namedVars, anonServer>>

AnonServerCloses ==
  /\ anonServer /\ anonServer' = FALSE
  /\ CloseAll(DOMAIN anonHandle)
  /\ UNCHANGED <<namedVars, anonTransports>>

PipesNext ==
  \/ ListenPipe \/ AcceptCached \/ AcceptWaits \/ ConnectEnds \/ AcceptConnected \/ AcceptAborted
  \/ ClosePipeServer \/ InterruptPipe \/ InterruptReturns
  \/ \E p \in Pipe :
       \/ ClientOpens(p) \/ ClientWrites(p) \/ ClientReads(p) \/ ClientCloses(p)
       \/ ReadEnds(p) \/ ReadPipe(p) \/ WritePipe(p) \/ CloseTransport(p)

\* An anonymous pipe server has nothing in common with a named one.
AnonPipesNext == CreateAnonPipe \/ AnonAccept \/ AnonTransportCloses \/ AnonServerCloses

PipesSpec == PipesInit /\ [][PipesNext \/ AnonPipesNext]_pipesVars

-----------------------------------------------------------------------------
\* The types of all variables.
PipesTypeOK ==
  /\ impl_ \in {"none", "named"} /\ stopping_ \in BOOLEAN
  /\ Pipe_ \in Pipe \cup {Invalid} /\ cached_client_ \in Pipe \cup {Invalid}
  /\ connectOverlap_ \in {"none", "pending", "done", "aborted", "undefined"}
  /\ listen_event_ \in BOOLEAN
  /\ accepting \in {"closed", "idle", "waits", "connected", "aborted", "ends"}
  /\ interrupter \in {"outside", "inside", "raced"} /\ interruptCalls \in Nat /\ late \in Int
  /\ instance \in [Pipe -> [handle : {"unused", "open", "closed"}, client : {"none", "open", "closed"}]]
  /\ object \in [Pipe -> [alive : BOOLEAN, read : {"none", "pending", "done", "failed", "refused"},
                          buffer : Seq(Nat), begin : Nat, end : Nat]]
  /\ spoken \in [Pipe -> Nat]
  /\ \A bytes \in {inPipe, readOut, spilled, back, echoed} : bytes \in [Pipe -> Seq(Nat)]
  /\ anonHandle \in [{"PipeR_", "PipeW_", "ClientAnonRead_", "ClientAnonWrite_"} ->
                       {"unused", "open", "closed"}]
  /\ anonServer \in BOOLEAN /\ anonTransports \in 0..1

\* Every open handle has one owner, the server or a transport, none is used after it was closed, and
\* none is left open; the operating system never reads into a transport that is gone.
PipeHandlesOwned ==
  /\ \A p \in Pipe :
       /\ (instance[p].handle = "open") <=> (Pipe_ = p \/ object[p].alive)
       /\ ~(Pipe_ = p /\ object[p].alive)
       /\ object[p].read = "pending" => object[p].alive
  /\ accepting \in {"waits", "connected"} => Pipe_ # Invalid
  /\ ~anonServer /\ anonTransports = 0 => \A h \in DOMAIN anonHandle : anonHandle[h] # "open"

\* interrupt() finds its server alive until it returns, unless serve() was about to end without it,
\* and after it the server accepts one more client at most, the one that was faster.
InterruptHolds ==
  /\ interrupter = "inside" => impl_ = "named"
  /\ late <= 1

\* The event says when accept does not have to wait, and a client that was there at once sets it.
ListenEventTells ==
  /\ listen_event_ => connectOverlap_ \notin {"pending", "undefined"}
  /\ cached_client_ # Invalid => listen_event_

\* What a client writes is read in order and once, and what it gets is what has been read.  Bytes are
\* lost only with a call that throws because the client has left, and they are its last.
PipeInOrder ==
  \A p \in Pipe :
    LET o == object[p]
        unread == IF o.read # "done" THEN << >>
                  ELSE SubSeq(o.buffer, o.begin + 1, Len(o.buffer))
        all == [i \in 1..spoken[p] |-> i]
    IN /\ o.alive => all = readOut[p] \o spilled[p] \o unread \o inPipe[p]
       /\ IsPrefix(readOut[p], all) /\ IsPrefix(echoed[p] \o back[p], readOut[p])
       /\ spilled[p] # << >> => instance[p].client = "closed" /\ inPipe[p] = << >>
=============================================================================
