---------------------------- MODULE RpcSession ----------------------------
(***************************************************************************)
(* A PHP script that makes calls, one after another, through a generated   *)
(* Thrift client over one ThriftBridgeTransport (test/test.php).           *)
(*                                                                         *)
(* The client writes a request in one or more pieces, flushes, and unless  *)
(* the call is oneway reads until it holds a whole reply.  It does not     *)
(* compare the sequence number of a reply with that of its call, nor check *)
(* that the required fields of its arguments are set.  An exception of     *)
(* flush or read ends the call, and the script goes on with the next one.  *)
(* The script may also drop a call half way: serialising an argument       *)
(* throws, or it never reads the reply.                                    *)
(***************************************************************************)
EXTENDS BridgeTransport

CONSTANTS
  Made,       \* the kinds of call the script makes
  MaxCalls,   \* bound: the number of calls the script makes
  ReadSize    \* the lengths the client asks read() for

ASSUME CallAssumption == Made \subseteq Kind /\ MaxCalls \in Nat /\ Call = 1..MaxCalls
ASSUME ReadSizeAssumption == ReadSize \subseteq 1..(SignBit - 1)

VARIABLES
  phase,    \* what the client is doing: idle, sending or receiving
  request,  \* the request of the latest call, NULL before the first
  sent,     \* how many of its bytes it has written
  got,      \* the reply bytes it has read
  answer,   \* for each call, the message whose reply it returned, or NULL
  log,      \* history: the handler calls made, in order
  suspect,  \* history: since the last flush that succeeded, or __construct, a
            \* flush failed or a call was dropped after its first byte
  tainted,  \* history: the calls begun while that was so
  late      \* history: the calls whose handler ran in a flush that failed

session == <<phase, request, sent, got, answer, log, suspect, tainted, late>>
allVars == <<vars, session>>

MadeCalls == IF request = NULL THEN 0 ELSE request.call

SInit ==
  /\ Init
  /\ phase = "idle" /\ request = NULL /\ sent = 0 /\ got = << >>
  /\ answer = [c \in Call |-> NULL]
  /\ log = << >> /\ suspect = FALSE /\ tainted = {} /\ late = {}

-----------------------------------------------------------------------------

\* The script creates the transport object, or constructs it once more.
NewTransport(s) ==
  /\ phase = "idle"
  /\ Construct(s)
  /\ suspect' = FALSE
  /\ UNCHANGED <<phase, request, sent, got, answer, log, tainted, late>>

\* The script closes or opens the transport between two calls.
Reopen(method) ==
  /\ phase = "idle" /\ Constructed
  /\ NoOp(method)
  /\ UNCHANGED session

Begin(kind) ==
  /\ phase = "idle" /\ Constructed /\ ~crashed
  /\ MadeCalls < MaxCalls
  /\ LET c == MadeCalls + 1
     IN  /\ request' = [call |-> c, kind |-> kind]
         /\ tainted' = IF suspect THEN tainted \cup {c} ELSE tainted
  /\ phase' = "sending" /\ sent' = 0 /\ got' = << >>
  /\ UNCHANGED <<vars, answer, log, suspect, late>>

SendPiece(n) ==
  /\ phase = "sending" /\ sent + n <= ReqLen
  /\ Write(SubSeq(RequestBytes(request), sent + 1, sent + n))
  /\ sent' = sent + n
  /\ UNCHANGED <<phase, request, got, answer, log, suspect, tainted, late>>

SendFlush ==
  /\ phase = "sending" /\ sent = ReqLen
  /\ Flush
  /\ log' = log \o result'.ran
  /\ phase' = IF result'.outcome = "ok" /\ request.kind # "oneway"
              THEN "receiving" ELSE "idle"
  /\ suspect' = (result'.outcome # "ok")
  /\ late' = IF result'.outcome = "ok" THEN late
             ELSE late \cup {result'.ran[i].call : i \in DOMAIN result'.ran}
  /\ UNCHANGED <<request, sent, got, answer, tainted>>

\* One read() while receiving.  RepLen bytes are a whole message: the client
\* returns if they are a reply and throws if they are not.
Receive(n) ==
  /\ phase = "receiving"
  /\ Read(n)
  /\ got' = got \o result'.data
  /\ IF Len(got') < RepLen
     THEN UNCHANGED <<phase, answer>>
     ELSE /\ phase' = "idle"
          /\ answer' = [answer EXCEPT ![request.call] =
               IF got' = ReplyBytes(got'[1].msg) THEN got'[1].msg ELSE NULL]
  /\ UNCHANGED <<request, sent, log, suspect, tainted, late>>

\* read() throws: so does the call.
ReceiveFails(n) ==
  /\ phase = "receiving"
  /\ ReadExhausted(n)
  /\ phase' = "idle"
  /\ UNCHANGED <<request, sent, got, answer, log, suspect, tainted, late>>

\* The script gives the call up.
Drop ==
  /\ phase # "idle" /\ ~crashed
  /\ phase' = "idle"
  /\ suspect' = (suspect \/ (phase = "sending" /\ sent > 0))
  /\ UNCHANGED <<vars, request, sent, got, answer, log, tainted, late>>

-----------------------------------------------------------------------------

Proceed ==
  \/ \E n \in 1..ReqLen : SendPiece(n)
  \/ SendFlush
  \/ \E n \in ReadSize : Receive(n) \/ ReceiveFails(n)

SNext ==
  \/ \E s \in Service : NewTransport(s)
  \/ \E method \in {"isOpen", "open", "close"} : Reopen(method)
  \/ \E kind \in Made : Begin(kind)
  \/ Proceed
  \/ Drop

\* A client that has begun a call executes straight-line code.
SSpec == SInit /\ [][SNext]_allVars /\ WF_allVars(Proceed)

-----------------------------------------------------------------------------

STypeOK ==
  /\ TypeOK
  /\ phase \in {"idle", "sending", "receiving"}
  /\ request \in Message \cup {NULL}
  /\ sent \in 0..ReqLen
  /\ got \in Seq(Byte)
  /\ answer \in [Call -> Message \cup {NULL}]
  /\ log \in Seq(Message)
  /\ suspect \in BOOLEAN
  /\ tainted \subseteq Call /\ late \subseteq Call

\* A call gets the answer to itself, and its handler has run, whatever calls
\* before it were dropped while their replies were read, and however the bytes
\* were cut; only a failed flush or a request left half way can spoil it.
AnswersOwnCall ==
  \A c \in Call \ tainted :
    answer[c] # NULL =>
      /\ answer[c].call = c
      /\ answer[c].kind = "unknown" \/ \E i \in DOMAIN log : log[i] = answer[c]

\* Handlers run in the order of the calls, and the same request runs twice
\* only if its flush failed after the handler had run.
HandledInOrder ==
  \A i, j \in DOMAIN log : i < j =>
    \/ log[i].call < log[j].call
    \/ log[i] = log[j] /\ log[i].call \in late

\* A call that has begun ends, unless the process dies: read() never hands an
\* empty string to a client that waits for more bytes.
CallsEnd == (phase # "idle") ~> (phase = "idle" \/ crashed)

\* The last flush was that of the latest call: all of its request is written,
\* and nothing has been done with the transport since.
CallFlushed == phase = "idle" /\ sent = ReqLen /\ result.method = "flush"

\* What the comment above the calls of test.php says, that they behave as
\* standard Thrift calls: a well-formed call to a registered service, whose flush
\* is the last thing done, fails only if a handler has run in it, whatever became of
\* earlier calls.
WellFormedCallReachesHandler ==
  ( /\ CallFlushed /\ result.outcome = "rpc failed"
    /\ serviceName \in Registered
    /\ request.kind \in {"call", "throws", "oneway"} ) => result.ran # << >>

\* The script of that comment: it gives up no call.
StandardSpec ==
  /\ SInit
  /\ [][ \/ \E s \in Service : NewTransport(s)
         \/ \E kind \in Made : Begin(kind)
         \/ Proceed ]_allVars
=============================================================================
