-------------------------- MODULE HeaderTransport --------------------------
(***************************************************************************)
(* A server's end of a connection with the header transport and protocol   *)
(* (THeaderTransport.cpp, THeaderProtocol.cpp): it finds out from the      *)
(* first bytes of each request how its client speaks, and answers alike.   *)
(*                                                                         *)
(* A request is one message; lengths, padding and numbers are abstracted   *)
(* to what they say.  Like TConnectedClient the server ends a connection   *)
(* at the first exception.                                                 *)
(***************************************************************************)
EXTENDS Integers, SequencesExt

CONSTANTS
  Key,          \* keys of info headers
  MaxRequests   \* bound

VARIABLES
  requests,     \* all requests sent so far
  next,         \* number of the next one to be read
  clientType, protoId, seqId,
  readTrans_, writeTrans_, readHeaders_, writeHeaders_,
  protoId_, proto_,   \* of the THeaderProtocol: the protocol is known by its number
  handling,     \* the request has been read, and not yet been answered
  replies,
  broken,       \* an exception has ended the connection
  setBy         \* history: the headers handlers have set, each with the request

headerVars == <<requests, next, clientType, protoId, seqId, readTrans_, writeTrans_, readHeaders_,
                writeHeaders_, protoId_, proto_, handling, replies, broken, setBy>>

Header == <<"header", "">>
Known == {"binary", "compact"}
Styles == {Header} \cup ({"framed", "unframed"} \X Known)

HeaderInit ==
  /\ requests = << >> /\ next = 1
  /\ clientType = Header /\ protoId = "compact" /\ seqId = 0
  /\ writeTrans_ \in {<< >>, <<"zlib">>, <<"unknown">>} /\ readTrans_ = << >>
  /\ readHeaders_ = {} /\ writeHeaders_ = {}
  /\ protoId_ = "compact" /\ proto_ = "compact"
  /\ handling = FALSE /\ replies = << >> /\ broken = FALSE /\ setBy = {}

\* A transform wraps the bytes, its inverse takes it off.
Transformed(bytes, trans) == FoldLeft(LAMBDA b, t : <<t, b>>, bytes, trans)
Untransformed(bytes, trans) == FoldLeft(LAMBDA b, t : b[2], bytes, Reverse(trans))

\* The client (external).
Request ==
  /\ Len(requests) < MaxRequests
  /\ \E style \in Styles, oneway \in BOOLEAN :
     \E proto \in IF style = Header THEN Known \cup {"other"} ELSE {style[2]},
        trans \in IF style = Header THEN {<< >>, <<"zlib">>, <<"unknown">>} ELSE {<< >>},
        keys \in IF style = Header THEN SUBSET Key ELSE {{}} :
       requests' = Append(requests, [style |-> style, protoId |-> proto, seqId |-> Len(requests) + 1,
                                     oneway |-> oneway, trans |-> trans, headers |-> keys,
                                     bytes |-> Transformed(proto, trans)])
  /\ UNCHANGED <<next, clientType, protoId, seqId, readTrans_, writeTrans_, readHeaders_, writeHeaders_,
                 protoId_, proto_, handling, replies, broken, setBy>>

-----------------------------------------------------------------------------
\* Faulty variant: the number in the last header, whoever the client is.
LastProtocolId(type, id) == id

getProtocolId(type, id) == IF type = Header THEN id ELSE type[2]

\* THeaderTransport::resetProtocol and readFrame, when a request is there.
ReadFrame(r) ==
  /\ clientType' = r.style
  /\ IF r.style = Header
     THEN protoId' = r.protoId /\ readTrans_' = r.trans /\ readHeaders_' = r.headers
     ELSE UNCHANGED <<protoId, readTrans_, readHeaders_>>
  /\ next' = next + 1

Undoes(trans) == Range(trans) \subseteq {"zlib"}

\* flush: one frame, or nothing when a transform is unknown.
Sends(type, id, encoding, seq, of, what) ==
  IF type = Header /\ ~Undoes(writeTrans_)
  THEN broken' = TRUE /\ UNCHANGED <<replies, writeHeaders_>>
  ELSE /\ replies' = Append(replies,
            [style |-> type, protoId |-> getProtocolId(type, id), of |-> of, what |-> what,
             seqId |-> IF type = Header THEN seq ELSE 0,
             headers |-> IF type = Header THEN writeHeaders_ ELSE {},
             trans |-> IF type = Header THEN writeTrans_ ELSE << >>,
             bytes |-> Transformed(encoding, IF type = Header THEN writeTrans_ ELSE << >>)])
       /\ writeHeaders_' = IF type = Header THEN {} ELSE writeHeaders_
       /\ broken' = (what = "exception")

\* readMessageBegin, when the request is understood.
ReadMessageBegin ==
  /\ next <= Len(requests) /\ ~handling /\ ~broken
  /\ LET r == requests[next]
         id == getProtocolId(r.style, r.protoId)
     IN /\ ReadFrame(r)
        /\ Undoes(r.trans) /\ id \in Known
        /\ seqId' = IF r.style = Header THEN r.seqId ELSE seqId
        /\ protoId_' = id /\ proto_' = id
  /\ handling' = TRUE
  /\ UNCHANGED <<requests, writeTrans_, writeHeaders_, replies, broken, setBy>>

\* When its protocol is unknown, the one in use before tells the client; when only a transform is, its own.
RefuseMessage ==
  /\ next <= Len(requests) /\ ~handling /\ ~broken
  /\ LET r == requests[next]
     IN /\ ReadFrame(r)
        /\ r.protoId \notin Known \/ ~Undoes(r.trans)
        /\ protoId_' = r.protoId /\ proto_' = IF r.protoId \in Known THEN r.protoId ELSE proto_
        /\ IF r.protoId \notin Known /\ ~Undoes(r.trans)
           THEN seqId' = r.seqId /\ broken' = TRUE /\ UNCHANGED <<replies, writeHeaders_>>
           ELSE seqId' = 0 /\ Sends(Header, r.protoId, proto_', 0, next, "exception")
  /\ UNCHANGED <<requests, writeTrans_, handling, setBy>>

\* The handler sets headers of the answer.
setHeader(key) ==
  /\ handling /\ key \notin writeHeaders_
  /\ writeHeaders_' = writeHeaders_ \cup {key} /\ setBy' = setBy \cup {<<key, next - 1>>}
  /\ UNCHANGED <<requests, next, clientType, protoId, seqId, readTrans_, writeTrans_, readHeaders_,
                 protoId_, proto_, handling, replies, broken>>

\* It returns; a call is answered.
Answer ==
  /\ handling /\ handling' = FALSE
  /\ IF requests[next - 1].oneway
     THEN UNCHANGED <<seqId, protoId_, proto_, replies, writeHeaders_, broken>>
     ELSE LET id == getProtocolId(clientType, protoId)
          IN /\ protoId_' = id /\ proto_' = id
             /\ seqId' = requests[next - 1].seqId
             /\ Sends(clientType, protoId, id, seqId', next - 1, "reply")
  /\ UNCHANGED <<requests, next, clientType, protoId, readTrans_, writeTrans_, readHeaders_, setBy>>

HeaderNext ==
  \/ Request \/ ReadMessageBegin \/ RefuseMessage \/ Answer
  \/ \E key \in Key : setHeader(key)

-----------------------------------------------------------------------------
HeaderTypeOK ==
  /\ next \in 1 .. Len(requests) + 1
  /\ clientType \in Styles /\ {protoId, protoId_} \subseteq Known \cup {"other"} /\ proto_ \in Known
  /\ seqId \in 0..MaxRequests /\ readHeaders_ \cup writeHeaders_ \subseteq Key
  /\ setBy \subseteq Key \X (1..MaxRequests)
  /\ {handling, broken} \subseteq BOOLEAN

\* The protocol that a request is in.
ProtocolOf(k) == Untransformed(requests[k].bytes, requests[k].trans)

\* However clients change their ways, a call is answered in the style and protocol it came in, with its number, and
\* with headers that handlers have set for it or since the last answer that could carry headers.  An answer that
\* says something went wrong is the last, and comes in the style of the request and under its protocol's number;
\* in a protocol that is not known it cannot be, and is in that of the request before (161).
AnsweredInKind ==
  \A k \in DOMAIN replies :
    LET reply == replies[k]
        r == requests[reply.of]
        encoding == Untransformed(reply.bytes, reply.trans)
    IN /\ reply.style = r.style /\ reply.protoId = ProtocolOf(reply.of)
       /\ IF reply.what = "exception"
          THEN /\ k = Len(replies) /\ broken
               /\ encoding = IF ProtocolOf(reply.of) \in Known THEN ProtocolOf(reply.of)
                             ELSE IF reply.of = 1 THEN "compact"
                             ELSE ProtocolOf(reply.of - 1)
          ELSE /\ encoding = ProtocolOf(reply.of)
               /\ r.style = Header => reply.seqId = r.seqId
       /\ \A key \in reply.headers :
            \E set \in setBy : /\ set[1] = key /\ set[2] <= reply.of
                               /\ \A j \in 1 .. k - 1 : replies[j].style = Header => replies[j].of < set[2]
       /\ \A j \in 1 .. k - 1 : replies[j].of < reply.of
=============================================================================
