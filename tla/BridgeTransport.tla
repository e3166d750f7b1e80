-------------------------- MODULE BridgeTransport --------------------------
(***************************************************************************)
(* The PHP class ThriftBridgeTransport and the core call behind its        *)
(* flush(), process_thrift_data_generic (thrift_bridge.c).                 *)
(*                                                                         *)
(* PHP code may call any method with any argument, in any order, on an     *)
(* object whose constructor has or has not run.  A method called with      *)
(* arguments PHP rejects changes nothing and is left out.  Scripts run     *)
(* after RINIT, so core_initialized holds; PluginHost checks that.         *)
(***************************************************************************)
EXTENDS ThriftProcessor

CONSTANTS
  Service,     \* service names a script may give to __construct
  Registered,  \* those for which global_factory has a processor
  Chunk,       \* byte strings a script may give to write
  NULL,        \* the C null pointer
  SignBit,     \* 2^63: a zend_long is in -SignBit..SignBit-1, a size_t below 2*SignBit
  Uint32Mod,   \* 2^32: TMemoryBuffer takes its length as a uint32_t
  MaxBuf       \* bound: the longest write buffer explored

ASSUME RegistryAssumption == Registered \subseteq Service

ASSUME ChunkAssumption == Chunk \subseteq Seq(Byte)

\* No PHP string is as long as the sign bit.
ASSUME WidthAssumption ==
  /\ SignBit \in Nat /\ Uint32Mod \in Nat \ {0} /\ MaxBuf \in Nat
  /\ RepLen < SignBit /\ MaxBuf < SignBit

ASSUME NullAssumption ==
  NULL \notin Service /\ NULL \notin Seq(Byte) /\ NULL \notin Message

VARIABLES
  serviceName, wBuf, rBuf, rBufPos,  \* the fields of the object
  crashed,    \* the PHP process died in a method
  flushed,    \* history: a flush of this object has succeeded since __construct
  delivered,  \* history: the bytes read() returned since rBuf was last set
  result      \* what the last method call did for its caller

fields == <<serviceName, wBuf, rBuf, rBufPos>>
vars == <<serviceName, wBuf, rBuf, rBufPos, crashed, flushed, delivered, result>>

Long == (-SignBit) .. (SignBit - 1)   \* the values of a zend_long

Method == {"new", "__construct", "isOpen", "open", "close", "write", "read", "flush"}

\* outcome and exn are how the call ended and the class it threw, data what it
\* returned, ran the handler calls made on its behalf.
Result == [method : Method,
           outcome : {"ok", "closed", "cannot read", "rpc failed", "died"},
           exn : {"", "Exception", "TTransportException"},
           data : Seq(Byte), ran : Seq(Message)]

Returned(method, data, ran) ==
  [method |-> method, outcome |-> "ok", exn |-> "", data |-> data, ran |-> ran]

\* zend_throw_exception_ex with a NULL class entry throws a plain Exception.
Threw(method, outcome, ran) ==
  [method |-> method, outcome |-> outcome, exn |-> "Exception", data |-> << >>, ran |-> ran]

Died(method, ran) ==
  [method |-> method, outcome |-> "died", exn |-> "", data |-> << >>, ran |-> ran]

Constructed == wBuf # NULL

\* create_object: every field null, position 0.
Init ==
  /\ serviceName = NULL /\ wBuf = NULL /\ rBuf = NULL /\ rBufPos = 0
  /\ crashed = FALSE /\ flushed = FALSE /\ delivered = << >>
  /\ result = Returned("new", << >>, << >>)

-----------------------------------------------------------------------------

\* Faulty variants of an operator stand before it: they show which property
\* would notice.  Here, the position is not rewound; unread bytes are kept.
StoreReplyKeepingPosition(bytes) ==
  /\ rBuf' = bytes
  /\ rBufPos' = rBufPos
  /\ delivered' = << >>

StoreReplyBehindUnread(bytes) ==
  /\ rBuf' = IF rBuf = NULL THEN bytes
             ELSE SubSeq(rBuf, rBufPos + 1, Len(rBuf)) \o bytes
  /\ rBufPos' = 0
  /\ delivered' = << >>

\* Pointing rBuf at new contents rewinds the position.
StoreReply(bytes) ==
  /\ rBuf' = bytes
  /\ rBufPos' = 0
  /\ delivered' = << >>

\* Faulty variant: there is no reply to read yet, so rBuf stays null.
ConstructLeavingReplyNull(s) ==
  /\ ~crashed
  /\ serviceName' = s
  /\ wBuf' = << >>
  /\ rBuf' = NULL /\ rBufPos' = 0 /\ delivered' = << >>
  /\ flushed' = FALSE
  /\ result' = Returned("__construct", << >>, << >>)
  /\ UNCHANGED crashed

\* __construct: a second call on the same object starts it afresh.
Construct(s) ==
  /\ ~crashed
  /\ serviceName' = s
  /\ wBuf' = << >>
  /\ StoreReply(<< >>)
  /\ flushed' = FALSE
  /\ result' = Returned("__construct", << >>, << >>)
  /\ UNCHANGED crashed

\* isOpen, open and close touch no field.
NoOp(method) ==
  /\ ~crashed
  /\ result' = Returned(method, << >>, << >>)
  /\ UNCHANGED <<fields, crashed, flushed, delivered>>

\* Faulty variant: write replaces what was there.
JoinedReplacing(old, buf) == buf

\* write: the new buffer is the old one followed by buf.
Joined(old, buf) == old \o buf

Write(buf) ==
  /\ ~crashed /\ Constructed
  /\ Len(wBuf) + Len(buf) <= MaxBuf
  /\ wBuf' = Joined(wBuf, buf)
  /\ result' = Returned("write", << >>, << >>)
  /\ UNCHANGED <<serviceName, rBuf, rBufPos, crashed, flushed, delivered>>

\* write and flush do not test their buffers: on an object whose constructor
\* never ran they dereference a null zend_string.
DereferenceNull(method) ==
  /\ ~crashed /\ ~Constructed
  /\ crashed' = TRUE
  /\ result' = Died(method, << >>)
  /\ UNCHANGED <<fields, flushed, delivered>>

-----------------------------------------------------------------------------

\* Conversions between zend_long and size_t.
AsSize(n) == IF n < 0 THEN n + 2 * SignBit ELSE n
AsLong(n) == IF n < SignBit THEN n ELSE n - 2 * SignBit

\* The number of bytes read(len) takes: a negative len is a huge size_t.
ReadLen(len) ==
  LET remaining_len == AsSize(Len(rBuf) - rBufPos)
  IN  IF AsSize(len) > remaining_len THEN remaining_len ELSE AsSize(len)

ReadClosed ==
  /\ ~crashed /\ rBuf = NULL
  /\ result' = Threw("read", "closed", << >>)
  /\ UNCHANGED <<fields, crashed, flushed, delivered>>

\* Faulty variant: at the end of the reply read returns an empty string.
NeverExhausted(len) == FALSE

\* The caller asked for bytes and there is none left.
Exhausted(len) == ReadLen(len) = 0 /\ len > 0

ReadExhausted(len) ==
  /\ ~crashed /\ rBuf # NULL /\ Exhausted(len)
  /\ result' = Threw("read", "cannot read", << >>)
  /\ UNCHANGED <<fields, crashed, flushed, delivered>>

Read(len) ==
  /\ ~crashed /\ rBuf # NULL /\ ~Exhausted(len)
  /\ LET data == SubSeq(rBuf, rBufPos + 1, rBufPos + ReadLen(len))
     IN  /\ result' = Returned("read", data, << >>)
         /\ delivered' = delivered \o data
  /\ rBufPos' = AsLong(rBufPos + ReadLen(len))
  /\ UNCHANGED <<serviceName, wBuf, rBuf, crashed, flushed>>

-----------------------------------------------------------------------------

\* The part of the request the input TMemoryBuffer observes: its length is
\* passed as a uint32_t.
Observed(buf) == SubSeq(buf, 1, Len(buf) % Uint32Mod)

\* malloc of the result may fail after process returned true.
MallocFailures(outcomes) == {Failed(o.ran) : o \in {p \in outcomes : p.end = "true"}}

process_thrift_data_generic(name, buf) ==
  IF name \in Registered
  THEN LET outcomes == process(Observed(buf))
       IN  outcomes \cup MallocFailures(outcomes)
  ELSE {Failed(<< >>)}

\* Faulty variant: the request stays in the write buffer.
FlushAnsweredKeepingRequest(o) ==
  /\ o.end = "true"
  /\ StoreReply(o.out)
  /\ flushed' = TRUE
  /\ result' = Returned("flush", << >>, o.ran)
  /\ UNCHANGED <<serviceName, wBuf, crashed>>

\* The reply becomes readable and the request buffer is emptied.
FlushAnswered(o) ==
  /\ o.end = "true"
  /\ StoreReply(o.out)
  /\ wBuf' = << >>
  /\ flushed' = TRUE
  /\ result' = Returned("flush", << >>, o.ran)
  /\ UNCHANGED <<serviceName, crashed>>

\* Faulty variant: a request that failed is forgotten.
FlushFailedEmptyingBuffer(o) ==
  /\ o.end = "failed"
  /\ wBuf' = << >>
  /\ result' = Threw("flush", "rpc failed", o.ran)
  /\ UNCHANGED <<serviceName, rBuf, rBufPos, crashed, flushed, delivered>>

\* A null result: flush throws and returns, every field as it was.
FlushFailed(o) ==
  /\ o.end = "failed"
  /\ result' = Threw("flush", "rpc failed", o.ran)
  /\ UNCHANGED <<fields, crashed, flushed, delivered>>

\* Only TException is caught: any other exception ends the process.
FlushEscaped(o) ==
  /\ o.end = "escaped"
  /\ crashed' = TRUE
  /\ result' = Died("flush", o.ran)
  /\ UNCHANGED <<fields, flushed, delivered>>

Flush ==
  /\ ~crashed /\ Constructed
  /\ \E o \in process_thrift_data_generic(serviceName, wBuf) :
       FlushAnswered(o) \/ FlushFailed(o) \/ FlushEscaped(o)

-----------------------------------------------------------------------------

Next ==
  \/ \E s \in Service : Construct(s)
  \/ \E method \in {"isOpen", "open", "close"} : NoOp(method)
  \/ \E buf \in Chunk : Write(buf)
  \/ \E method \in {"write", "flush"} : DereferenceNull(method)
  \/ ReadClosed
  \/ \E len \in Long : ReadExhausted(len) \/ Read(len)
  \/ Flush

Spec == Init /\ [][Next]_vars

-----------------------------------------------------------------------------

TypeOK ==
  /\ \/ /\ serviceName = NULL /\ wBuf = NULL /\ rBuf = NULL
     \/ /\ serviceName \in Service
        /\ wBuf \in Seq(Byte) /\ Len(wBuf) <= MaxBuf
        /\ rBuf \in Seq(Byte) /\ Len(rBuf) <= RepLen
  /\ rBufPos \in Long
  /\ crashed \in BOOLEAN /\ flushed \in BOOLEAN
  /\ delivered \in Seq(Byte)
  /\ result \in Result

\* What read() has returned since the last flush or __construct is a prefix of
\* the reply, ending where the position says: no byte is skipped, repeated or
\* taken from an older reply, and the position never leaves the buffer.
ReadsArePrefix ==
  IF rBuf = NULL
  THEN rBufPos = 0 /\ delivered = << >>
  ELSE rBufPos \in 0..Len(rBuf) /\ delivered = SubSeq(rBuf, 1, rBufPos)

\* The buffer starts with something the processor refuses.
Poisoned == Constructed /\ Len(wBuf) >= ReqLen /\ ~Dispatches(wBuf)

\* Once the write buffer starts with a message the processor refuses, only a
\* new __construct helps: no write, close, open or flush empties it, and no
\* handler is ever reached through this object again.
NoRecovery ==
  [][Poisoned => \/ result'.method = "__construct"
                 \/ Poisoned' /\ result'.ran = << >>]_vars

\* The object implements the channel a Thrift client expects: its write buffer
\* is what is pending, the part of its read buffer behind the position is what
\* is left to read.
Pending == IF wBuf = NULL THEN << >> ELSE wBuf
Unread == IF rBuf = NULL THEN << >> ELSE SubSeq(rBuf, rBufPos + 1, Len(rBuf))

Channel == INSTANCE RequestReplyChannel WITH
  pending <- Pending, inbox <- Unread, last <- result.data

ImplementsChannel == Channel!Spec

\* What the comment in flush() says: it throws a TTransportException when the
\* core call returned nothing.
FlushThrowsTransportException ==
  result.method = "flush" /\ result.outcome = "rpc failed"
    => result.exn = "TTransportException"

\* What the comment in read() says: it tests for a transport that has not been
\* flushed, so a caller is told "closed or not flushed", and never that the
\* bytes have run out, until a flush has succeeded.
UnflushedReadIsToldSo ==
  result.method = "read" /\ result.outcome = "cannot read" => flushed
=============================================================================
