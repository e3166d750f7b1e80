-------------------------- MODULE ThriftProcessor --------------------------
(***************************************************************************)
(* What one call of TProcessor::process does with the bytes it is given.   *)
(*                                                                         *)
(* A byte string is a sequence of abstract bytes: byte i of the request or *)
(* reply of a call carries the message it belongs to and its position i.   *)
(* Only the first message of the input is read (TDispatchProcessor reads   *)
(* one header and dispatches it); what follows it is never looked at.      *)
(***************************************************************************)
EXTENDS Integers, Sequences

CONSTANTS
  Call,     \* identities of calls
  ReqLen,   \* number of bytes of a request on the wire
  RepLen    \* number of bytes of a non-empty reply on the wire

ASSUME LengthAssumption == /\ ReqLen \in Nat \ {0}
                           /\ RepLen \in Nat \ {0}

(***************************************************************************)
(* How the service takes a request:                                        *)
(*   call     a T_CALL of a known method, its handler returns              *)
(*   throws   the same, its handler throws: a T_EXCEPTION reply            *)
(*   oneway   a T_ONEWAY call: the handler runs, nothing is written        *)
(*   unknown  an unknown method: a T_EXCEPTION reply, no handler runs      *)
(*   reject   process fails before any handler runs: a message that is     *)
(*            neither T_CALL nor T_ONEWAY (process returns false), or      *)
(*            arguments that lack a required field (TProtocolException)    *)
(***************************************************************************)
Kind == {"call", "throws", "oneway", "unknown", "reject"}

Message == [call : Call, kind : Kind]

Byte == [msg : Message, part : Nat \ {0}]

RequestBytes(m) == [i \in 1..ReqLen |-> [msg |-> m, part |-> i]]

ReplyBytes(m) ==
  [i \in 1..(IF m.kind = "oneway" THEN 0 ELSE RepLen) |-> [msg |-> m, part |-> i]]

-----------------------------------------------------------------------------

\* readMessageBegin and the generated argument reader succeed on buf: it
\* starts with one whole request.  A shorter input ends in END_OF_FILE; any
\* other start (the second part of a request, or a header where arguments
\* should follow) is a bad version, a bad field type or an impossible size.
HasRequest(buf) ==
  /\ Len(buf) >= ReqLen
  /\ \A i \in 1..ReqLen : buf[i] = [msg |-> buf[1].msg, part |-> i]

\* The processor dispatches the first message of buf.
Dispatches(buf) == HasRequest(buf) /\ buf[1].msg.kind # "reject"

\* The outcome of process: how it ended ("escaped": with an exception that is
\* no TException), the handlers it ran, and the bytes left in the output.
Answered(m, ran) == [end |-> "true", ran |-> ran, out |-> ReplyBytes(m)]
Failed(ran) == [end |-> "failed", ran |-> ran, out |-> << >>]
Escaped(ran) == [end |-> "escaped", ran |-> ran, out |-> << >>]

\* The handler calls that serving m makes: one, or none for an unknown method.
HandlerRuns(m) == IF m.kind = "unknown" THEN << >> ELSE << m >>

\* All outcomes of process on input buf.  After the handler ran, writing the
\* reply may still throw a TException (a string too long for the protocol)
\* or a bad_alloc; a handler may throw what the generated code does not catch.
process(buf) ==
  IF Dispatches(buf)
  THEN LET m == buf[1].msg
           ran == HandlerRuns(m)
       IN  {Answered(m, ran), Escaped(ran)} \cup
           (IF m.kind = "oneway" THEN {} ELSE {Failed(ran)})
  ELSE {Failed(<< >>)}
=============================================================================
