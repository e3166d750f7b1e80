----------------------------- MODULE SSLSocket -----------------------------
(***************************************************************************)
(* A TSSLSocket and the factories of such sockets (TSSLSocket.cpp).  One   *)
(* thread uses the socket; it makes the handshake in the first call that   *)
(* needs it, and authorizes the peer before any data pass.  OpenSSL is     *)
(* external: what an SSL_ function answers depends on what has arrived.    *)
(***************************************************************************)
EXTENDS Integers, Sequences, SequencesExt

CONSTANTS
  Settings,        \* sockets: [server_, eventSafe_, timeouts, interruptListener_]
  Credentials,     \* what a peer shows, and what is asked of it: see Authorize
  Pieces,          \* in how many pieces a record arrives
  WriteLength,     \* bytes of a write
  MaxRecvRetries,
  Factory,         \* TSSLSocketFactory objects
  MaxConnections, MaxRecords  \* bounds: connections; records of a peer

ASSUME SSLAssumption ==
  /\ MaxRecvRetries \in Nat /\ WriteLength \in Nat
  /\ \A c \in Credentials : c.address \in STRING /\ {c.alternatives, c.common} \subseteq Seq(STRING)

VARIABLES
  setting,
  connection,      \* socket_: the number of a connection, 0, or the number of a closed descriptor
  ssl_,            \* the connection the SSL object is for, or 0
  handshakeCompleted_, readRetryCount_,
  peer,            \* the other end of the connection that was opened last
  opened,          \* how many have been
  call,            \* the call under way
  ended,           \* history: how the last call ended
  setbacks,        \* history: exceptions from reads and signals during them, since bytes came
  passed,          \* history: connections application data have passed over
  factories, count_, manualOpenSSLInitialization_, didWeInitializeOpenSSL_, openSSLInitialized,
  factoryFailed, meddled  \* history: a constructor has thrown; the program has used the manual controls

socketPart == <<setting, connection, ssl_, handshakeCompleted_, readRetryCount_, peer, opened, call,
                ended, setbacks, passed>>
factoryPart == <<factories, count_, manualOpenSSLInitialization_, didWeInitializeOpenSSL_,
                 openSSLInitialized, factoryFailed, meddled>>
sslVars == <<socketPart, factoryPart>>

Idle == [op |-> "none", at |-> "none", written |-> 0]
ClosedNumber == 0 - 1
NewPeer(c) == [credential |-> c, flight |-> FALSE, pieces |-> 0, records |-> 0, end |-> "no",
               fresh |-> FALSE]

SSLInit ==
  /\ setting \in Settings
  /\ connection = (IF setting.server_ THEN 1 ELSE 0)  \* a server's socket has been accepted
  /\ opened = connection
  /\ \E c \in Credentials : peer = NewPeer(c)
  /\ ssl_ = 0 /\ handshakeCompleted_ = FALSE /\ readRetryCount_ = 0
  /\ call = Idle /\ ended = <<"none", "none">> /\ setbacks = 0 /\ passed = {}
  /\ factories = {} /\ count_ = 0 /\ manualOpenSSLInitialization_ = FALSE
  /\ didWeInitializeOpenSSL_ = FALSE /\ openSSLInitialized = FALSE
  /\ factoryFailed = FALSE /\ meddled = FALSE

-----------------------------------------------------------------------------
\* The peer: its side of the handshake, records in pieces, the end of the connection.
PeerActs ==
  /\ connection > 0 /\ peer.end = "no"
  /\ \/ ~peer.flight /\ peer' = [peer EXCEPT !.flight = TRUE, !.fresh = TRUE]
     \/ /\ peer.flight /\ peer.pieces < Pieces
        /\ peer.pieces > 0 \/ peer.records < MaxRecords
        /\ peer' = [peer EXCEPT !.pieces = @ + 1, !.fresh = TRUE,
                                !.records = IF peer.pieces = 0 THEN @ + 1 ELSE @]
     \/ \E e \in {"close_notify", "gone"} :
          (e = "close_notify" => peer.flight) /\ peer' = [peer EXCEPT !.end = e, !.fresh = TRUE]
  /\ UNCHANGED <<setting, connection, ssl_, handshakeCompleted_, readRetryCount_, opened, call, ended,
                 setbacks, passed, factoryPart>>

\* The first decision that is one.
FirstDecision(decisions) ==
  LET i == SelectInSeq(decisions, LAMBDA d : d # "SKIP")
  IN IF i = 0 THEN "SKIP" ELSE decisions[i]

\* The decision by the address, else by the alternative names, else by the common names.
Decision(c) ==
  IF c.address # "SKIP" THEN c.address
  ELSE IF FirstDecision(c.alternatives) # "SKIP" THEN FirstDecision(c.alternatives)
  ELSE FirstDecision(c.common)

Authorize(c) ==
  /\ c.verified
  /\ IF c.cert THEN c.access => Decision(c) = "ALLOW"
     ELSE ~c.required /\ ~(setting.server_ /\ c.access)

\* SSL_SENT_SHUTDOWN is set by close() only, which then drops the SSL object.
isOpen == ssl_ # 0 /\ connection # 0

-----------------------------------------------------------------------------
Ends(result) ==
  /\ call' = Idle /\ ended' = <<call.op, result>>
  /\ UNCHANGED <<setting, opened, factoryPart>>

Same == UNCHANGED <<connection, ssl_, handshakeCompleted_, readRetryCount_, peer, setbacks, passed>>

\* A socket that was opened and not used yet is not open to this test: it is opened again, and what
\* it had is lost.
Open ==
  /\ call = Idle /\ ~isOpen /\ ~setting.server_ /\ opened < MaxConnections
  /\ opened' = opened + 1 /\ connection' = opened + 1
  /\ \E c \in Credentials : peer' = NewPeer(c)
  /\ ended' = <<"open", "done">>
  /\ UNCHANGED <<setting, ssl_, handshakeCompleted_, readRetryCount_, call, setbacks, passed,
                 factoryPart>>

\* local_open calls close() when no address connects.
OpenFails ==
  /\ call = Idle /\ ~isOpen /\ ~setting.server_
  /\ connection' = 0 /\ ssl_' = 0 /\ handshakeCompleted_' = FALSE /\ ended' = <<"open", "threw">>
  /\ UNCHANGED <<setting, readRetryCount_, peer, opened, call, setbacks, passed, factoryPart>>

\* What a call finds out before it looks at the handshake.
GivesUp(op) ==
  \/ op \in {"peek", "hasPendingDataToRead"} /\ ~isOpen
  \/ op = "flush" /\ ssl_ = 0
  \/ connection = 0

Begin(op) ==
  /\ call = Idle
  /\ IF GivesUp(op)
     THEN ended' = <<op, "nothing done">> /\ UNCHANGED <<ssl_, call>>
     ELSE /\ connection # ClosedNumber
          /\ call' = [op |-> op, at |-> IF handshakeCompleted_ THEN "works" ELSE "handshake",
                      written |-> 0]
          /\ ssl_' = (IF ssl_ = 0 THEN connection ELSE ssl_)  \* initializeHandshakeParams
          /\ ended' = <<"none", "none">>
  /\ UNCHANGED <<setting, connection, handshakeCompleted_, readRetryCount_, peer, opened, setbacks,
                 passed, factoryPart>>

\* initializeHandshakeParams, when fcntl fails: the descriptor is closed, socket_ keeps its number, and
\* the handshake goes on with no SSL object, which ends the process or fails.  The number stays a closed
\* one: that it becomes another file's is left out.
HandshakeParamsFail(op) ==
  /\ call = Idle /\ ~GivesUp(op) /\ ssl_ = 0
  /\ connection' = ClosedNumber
  /\ \/ ended' = <<op, "threw">> /\ UNCHANGED call
     \/ ended' = <<"none", "none">> /\ call' = [op |-> op, at |-> "died", written |-> 0]
  /\ UNCHANGED <<setting, ssl_, handshakeCompleted_, readRetryCount_, peer, opened, setbacks, passed,
                 factoryPart>>

\* SSL_ functions have seen all that has arrived.
Seen == peer' = [peer EXCEPT !.fresh = FALSE]

Waits(for) ==
  /\ call' = [call EXCEPT !.at = for] /\ Seen
  /\ UNCHANGED <<setting, connection, ssl_, handshakeCompleted_, opened, ended, passed, factoryPart>>

HandshakeDone ==
  /\ call.at = "handshake" /\ peer.flight /\ Authorize(peer.credential)
  /\ handshakeCompleted_' = TRUE /\ call' = [call EXCEPT !.at = "works"]
  /\ UNCHANGED <<setting, connection, ssl_, readRetryCount_, peer, opened, ended, setbacks, passed,
                 factoryPart>>

HandshakeFails ==
  /\ call.at = "handshake"
  /\ \/ peer.flight /\ ~Authorize(peer.credential)
     \/ ~peer.flight /\ peer.end # "no"
  /\ Ends("threw") /\ Same

\* What has arrived is not enough: a libevent-safe call returns; only write() does not say so.
HandshakeWaits ==
  /\ call.at = "handshake" /\ ~peer.flight /\ peer.end = "no"
  /\ IF setting.eventSafe_
     THEN Ends(IF call.op = "write" THEN "nothing done" ELSE "retry") /\ Same
     ELSE Waits("handshake waits") /\ UNCHANGED <<readRetryCount_, setbacks>>

\* waitForEvent.  Only read() keeps count: an event takes back what the attempt has added.
Counted == call.op = "read" /\ call.at = "waits"

\* Faulty variant: each piece of a record counts as a retry.
NotTakenBack == readRetryCount_

\* What the attempt has counted is taken back when more has arrived.
TakenBack == IF Counted THEN readRetryCount_ - 1 ELSE readRetryCount_

Event ==
  /\ call.at \in {"handshake waits", "waits"} /\ (peer.fresh \/ call.op = "write")
  /\ call' = [call EXCEPT !.at = IF @ = "waits" THEN "works" ELSE "handshake"]
  /\ readRetryCount_' = TakenBack
  /\ UNCHANGED <<setting, connection, ssl_, handshakeCompleted_, peer, opened, ended, setbacks, passed,
                 factoryPart>>

\* A signal: all but read() try again for ever.
Signal ==
  /\ call.at \in {"handshake waits", "waits"}
  /\ setbacks' = (IF Counted THEN setbacks + 1 ELSE setbacks)
  /\ IF Counted /\ readRetryCount_ >= MaxRecvRetries THEN Ends("threw")
     ELSE /\ call' = [call EXCEPT !.at = IF @ = "waits" THEN "works" ELSE "handshake"]
          /\ UNCHANGED <<setting, opened, ended, factoryPart>>
  /\ UNCHANGED <<connection, ssl_, handshakeCompleted_, readRetryCount_, peer, passed>>

\* A time-out or the interrupt listener; in close() the exception is caught.
WaitThrows ==
  /\ call.at \in {"handshake waits", "waits"} /\ call.op # "close"
  /\ setting.timeouts \/ setting.interruptListener_
  /\ setbacks' = (IF Counted THEN setbacks + 1 ELSE setbacks)
  /\ Ends("threw")
  /\ UNCHANGED <<connection, ssl_, handshakeCompleted_, readRetryCount_, peer, passed>>

-----------------------------------------------------------------------------
\* read(), once the handshake is complete.
Complete == peer.pieces = Pieces

ReadBytes ==
  /\ call.op = "read" /\ call.at = "works" /\ readRetryCount_ < MaxRecvRetries /\ Complete
  /\ peer' = [peer EXCEPT !.pieces = 0, !.fresh = FALSE]
  /\ readRetryCount_' = 0 /\ setbacks' = 0 /\ passed' = passed \cup {ssl_}
  /\ Ends("bytes")
  /\ UNCHANGED <<connection, ssl_, handshakeCompleted_>>

\* The attempt is counted, then more must arrive.
ReadWaits ==
  /\ call.op = "read" /\ call.at = "works" /\ readRetryCount_ < MaxRecvRetries
  /\ ~Complete /\ peer.end = "no"
  /\ readRetryCount_' = readRetryCount_ + 1
  /\ IF setting.eventSafe_
     THEN /\ setbacks' = setbacks + 1 /\ Ends("retry")
          /\ UNCHANGED <<connection, ssl_, handshakeCompleted_, peer, passed>>
     ELSE Waits("waits") /\ UNCHANGED setbacks

\* close_notify throws END_OF_FILE; without it the connection ends in an error or as if at its end.
ReadFails ==
  /\ call.op = "read" /\ call.at = "works" /\ readRetryCount_ < MaxRecvRetries
  /\ ~Complete /\ peer.end # "no"
  /\ readRetryCount_' = readRetryCount_ + 1 /\ setbacks' = setbacks + 1
  /\ \E r \in {"threw", "no bytes"} : (peer.end = "close_notify" => r = "threw") /\ Ends(r)
  /\ UNCHANGED <<connection, ssl_, handshakeCompleted_, peer, passed>>

\* The loop is not entered: no bytes, as at the end of the stream.
ReadExhausted ==
  /\ call.op = "read" /\ call.at = "works" /\ readRetryCount_ >= MaxRecvRetries
  /\ Ends("no bytes") /\ Same

-----------------------------------------------------------------------------
\* write(), write_partial(): what SSL_write takes of the rest.
WriteSome ==
  /\ call.op = "write" /\ call.at = "works" /\ peer.end # "gone"
  /\ \E n \in 1 .. WriteLength - call.written :
       IF call.written + n = WriteLength THEN Ends("bytes")
       ELSE /\ call' = [call EXCEPT !.written = @ + n]
            /\ UNCHANGED <<setting, opened, ended, factoryPart>>
  /\ passed' = passed \cup {ssl_}
  /\ UNCHANGED <<connection, ssl_, handshakeCompleted_, readRetryCount_, peer, setbacks>>

\* There is no room, or the peer wants to negotiate: a libevent-safe write drops the rest.
WriteWaits ==
  /\ call.op = "write" /\ call.at = "works" /\ peer.end # "gone"
  /\ IF setting.eventSafe_ THEN Ends("dropped") /\ Same
     ELSE Waits("waits") /\ UNCHANGED <<readRetryCount_, setbacks>>

WriteFails == call.op = "write" /\ call.at = "works" /\ peer.end = "gone" /\ Ends("threw") /\ Same

\* flush(), peek(), hasPendingDataToRead().
Flush == call.op = "flush" /\ call.at = "works" /\ Same /\ \E r \in {"done", "threw"} : Ends(r)

Peek ==
  /\ call.op = "peek" /\ call.at = "works"
  /\ IF Complete \/ peer.end # "no" THEN Ends(IF Complete THEN "bytes" ELSE "no bytes") /\ Same
     ELSE Waits("waits") /\ UNCHANGED <<readRetryCount_, setbacks>>

HasPendingDataToRead ==
  /\ call.op = "hasPendingDataToRead" /\ call.at = "works"
  /\ Ends(IF peer.pieces > 0 THEN "bytes" ELSE "no bytes") /\ Same

\* close(): SSL_shutdown, which may have to wait, and TSocket::close.
Close ==
  /\ call = Idle
  /\ call' = [op |-> "close", at |-> "works", written |-> 0] /\ ended' = <<"none", "none">>
  /\ UNCHANGED <<setting, connection, ssl_, handshakeCompleted_, readRetryCount_, peer, opened, setbacks,
                 passed, factoryPart>>

ShutdownWaits ==
  /\ call.op = "close" /\ call.at = "works" /\ handshakeCompleted_ /\ peer.end = "no"
  /\ Waits("waits") /\ UNCHANGED <<readRetryCount_, setbacks>>

\* Faulty variant: the flag is not reset with the SSL object.
CompletedStays == handshakeCompleted_

CompletedAfterClose == FALSE

CloseEnds ==
  /\ call.op = "close"
  /\ call.at = "waits" => setting.timeouts \/ setting.interruptListener_
  /\ ssl_' = 0 /\ handshakeCompleted_' = (IF ssl_ = 0 THEN handshakeCompleted_ ELSE CompletedAfterClose)
  /\ connection' = 0
  /\ Ends("done")
  /\ UNCHANGED <<readRetryCount_, peer, setbacks, passed>>

-----------------------------------------------------------------------------
\* The factories: the first initializes OpenSSL, the last one cleans up.
MakeFactory(f) ==
  /\ f \notin factories
  /\ LET we == count_ = 0 /\ ~manualOpenSSLInitialization_
     IN /\ didWeInitializeOpenSSL_' = (didWeInitializeOpenSSL_ \/ we)
        /\ openSSLInitialized' = (openSSLInitialized \/ we)
  /\ count_' = count_ + 1
  /\ \/ factories' = factories \cup {f} /\ UNCHANGED factoryFailed
     \/ factoryFailed' = TRUE /\ ~factoryFailed /\ UNCHANGED factories  \* SSL_CTX_new fails
  /\ UNCHANGED <<manualOpenSSLInitialization_, meddled, socketPart>>

\* Faulty variant: each destructor cleans up.
CleansUpEachTime == didWeInitializeOpenSSL_

CleansUp == count_ = 1 /\ didWeInitializeOpenSSL_

DeleteFactory(f) ==
  /\ f \in factories
  /\ factories' = factories \ {f} /\ count_' = count_ - 1
  /\ openSSLInitialized' = (openSSLInitialized /\ ~CleansUp)
  /\ didWeInitializeOpenSSL_' = (didWeInitializeOpenSSL_ /\ ~CleansUp)
  /\ UNCHANGED <<manualOpenSSLInitialization_, factoryFailed, meddled, socketPart>>

\* setManualOpenSSLInitialization, initializeOpenSSL, cleanupOpenSSL, called by the program.
ProgramInitializes ==
  /\ manualOpenSSLInitialization_' \in BOOLEAN /\ openSSLInitialized' \in BOOLEAN
  /\ meddled' = TRUE
  /\ UNCHANGED <<factories, count_, didWeInitializeOpenSSL_, factoryFailed, socketPart>>

-----------------------------------------------------------------------------
SocketNext ==
  \/ PeerActs \/ Open \/ OpenFails
  \/ \E op \in {"read", "write", "flush", "peek", "hasPendingDataToRead"} : Begin(op) \/ HandshakeParamsFail(op)
  \/ HandshakeDone \/ HandshakeFails \/ HandshakeWaits \/ Event \/ Signal \/ WaitThrows
  \/ ReadBytes \/ ReadWaits \/ ReadFails \/ ReadExhausted
  \/ WriteSome \/ WriteWaits \/ WriteFails \/ Flush \/ Peek \/ HasPendingDataToRead
  \/ Close \/ ShutdownWaits \/ CloseEnds

FactoryNext ==
  \/ \E f \in Factory : MakeFactory(f) \/ DeleteFactory(f)
  \/ ProgramInitializes

\* The socket and the factories share no state.
SSLSpec == SSLInit /\ [][SocketNext \/ FactoryNext]_sslVars

-----------------------------------------------------------------------------
\* The types.
SSLTypeOK ==
  /\ setting \in Settings /\ connection \in ClosedNumber..MaxConnections /\ ssl_ \in 0..MaxConnections
  /\ handshakeCompleted_ \in BOOLEAN /\ readRetryCount_ \in 0..MaxRecvRetries
  /\ peer.pieces \in 0..Pieces /\ peer.end \in {"no", "close_notify", "gone"}
  /\ call.written \in 0..WriteLength /\ passed \subseteq 1..MaxConnections
  /\ factories \subseteq Factory /\ count_ \in Nat /\ didWeInitializeOpenSSL_ \in BOOLEAN

\* What authorize() promises: the certificate was verified; a peer that shows
\* one is let in by the first decision anybody makes on its address or names,
\* and one that shows none only if nobody asked for it.
Trusted(c) ==
  LET decisions == <<c.address>> \o c.alternatives \o c.common
  IN /\ c.verified
     /\ IF c.cert
        THEN c.access => \E i \in DOMAIN decisions : /\ decisions[i] = "ALLOW"
                                                   /\ \A j \in 1 .. i - 1 : decisions[j] = "SKIP"
        ELSE ~c.required /\ (setting.server_ => ~c.access)

\* No application data pass before the peer they pass to has been authorized,
\* however often the handshake is interrupted, fails or is tried again and the
\* socket is closed and opened again; and they pass over the connection the
\* socket has.
PeerAuthorized ==
  /\ handshakeCompleted_ => Trusted(peer.credential) /\ ssl_ = connection /\ ssl_ # 0
  /\ opened \in passed => Trusted(peer.credential)

\* A record that comes in many pieces uses no retries up: what read() has
\* counted are the exceptions and signals since bytes came last.  Only the end
\* of the peer, or a count that is used up, looks like the end of the stream.
RetriesExact ==
  /\ call.op # "read" \/ call.at \notin {"waits"} => readRetryCount_ = setbacks
  /\ ended = <<"read", "no bytes">> => peer.end = "gone" \/ setbacks >= MaxRecvRetries

\* As long as the program leaves it to the factories, OpenSSL is initialized
\* while there is one, and cleaned up behind the last unless a constructor has failed.
LibraryStays ==
  ~meddled => /\ factories # {} => openSSLInitialized
              /\ factories = {} /\ ~factoryFailed => ~openSSLInitialized
\* Data pass over SSL only when the peer has been authorized; the retries of
\* read() are what they say; and the library is initialized as long as a factory
\* needs it.
SecureChannel == PeerAuthorized /\ RetriesExact /\ LibraryStays
=============================================================================
