-------------------------- MODULE RpcSessionProofs --------------------------
(***************************************************************************)
(* Theorems about ThriftBridgeTransport, for any services, chunks, lengths *)
(* and word sizes that satisfy the assumptions of BridgeTransport, and     *)
(* about a script that makes calls over one transport, for any number of   *)
(* calls, lengths of messages, services and ways to cut messages into      *)
(* pieces.                                                                 *)
(***************************************************************************)
EXTENDS RpcSession, SequenceTheorems, TLAPS

\* A remainder does not exceed the number divided.
LEMMA RemainderBound ==
  ASSUME NEW n \in Nat, NEW m \in Nat \ {0}
  PROVE  n % m \in 0..n
<1>1. n % m \in 0..(m - 1)
  OBVIOUS
<1>2. n % m = n - m * (n \div m)
  OBVIOUS
<1>3. n \div m >= 0
  OBVIOUS
<1>4. m * (n \div m) >= 0
  BY <1>3
<1> QED
  BY <1>1, <1>2, <1>4

\* A reply is a byte string of at most RepLen bytes.
LEMMA ReplyBytesType ==
  ASSUME NEW m \in Message
  PROVE  ReplyBytes(m) \in Seq(Byte) /\ Len(ReplyBytes(m)) <= RepLen
<1> DEFINE n == IF m.kind = "oneway" THEN 0 ELSE RepLen
<1>1. n \in Nat /\ n <= RepLen
  BY LengthAssumption
<1>2. \A i \in 1..n : [msg |-> m, part |-> i] \in Byte
  BY <1>1 DEF Byte
<1>3. ReplyBytes(m) = [i \in 1..n |-> [msg |-> m, part |-> i]]
  BY DEF ReplyBytes
<1>4. ReplyBytes(m) \in [1..n -> Byte]
  BY <1>2, <1>3
<1>5. ReplyBytes(m) \in Seq(Byte) /\ Len(ReplyBytes(m)) = n
  BY <1>1, <1>4
<1> QED
  BY <1>1, <1>5

\* What the input TMemoryBuffer observes is a prefix of the request.
LEMMA ObservedIsPrefix ==
  ASSUME NEW buf \in Seq(Byte)
  PROVE  /\ Observed(buf) \in Seq(Byte)
         /\ Len(Observed(buf)) <= Len(buf)
         /\ \A i \in 1..Len(Observed(buf)) : Observed(buf)[i] = buf[i]
<1> DEFINE k == Len(buf) % Uint32Mod
<1>1. Len(buf) \in Nat
  OBVIOUS
<1>2. k \in 0..Len(buf)
  BY <1>1, RemainderBound, WidthAssumption
<1>3. \A i \in 1..k : buf[i] \in Byte
  BY <1>1, <1>2
<1> HIDE DEF k
<1>4. /\ SubSeq(buf, 1, k) \in Seq(Byte)
      /\ Len(SubSeq(buf, 1, k)) = IF 1 <= k THEN k - 1 + 1 ELSE 0
      /\ \A i \in 1..(k - 1 + 1) : SubSeq(buf, 1, k)[i] = buf[1 + i - 1]
  BY <1>1, <1>2, <1>3, SubSeqProperties
<1>5. Len(SubSeq(buf, 1, k)) = k
  BY <1>1, <1>2, <1>4
<1>6. \A i \in 1..k : SubSeq(buf, 1, k)[i] = buf[i]
  BY <1>1, <1>2, <1>4
<1>7. Observed(buf) = SubSeq(buf, 1, k)
  BY DEF Observed, k
<1> QED
  BY <1>1, <1>2, <1>4, <1>5, <1>6, <1>7

\* If a prefix starts with a request that is dispatched, so does the whole.
LEMMA ObservedDispatch ==
  ASSUME NEW buf \in Seq(Byte), Dispatches(Observed(buf))
  PROVE  /\ Dispatches(buf)
         /\ Observed(buf)[1].msg = buf[1].msg
         /\ buf[1].msg \in Message
<1> DEFINE p == Observed(buf)
<1>1. /\ Len(p) >= ReqLen
      /\ \A i \in 1..ReqLen : p[i] = [msg |-> p[1].msg, part |-> i]
      /\ p[1].msg.kind # "reject"
  BY DEF Dispatches, HasRequest
<1>2. /\ p \in Seq(Byte) /\ Len(p) \in Nat /\ Len(buf) \in Nat /\ Len(p) <= Len(buf)
      /\ \A i \in 1..Len(p) : p[i] = buf[i]
  BY ObservedIsPrefix
<1> HIDE DEF p
<1>3. \A i \in 1..ReqLen : p[i] = buf[i]
  BY <1>1, <1>2, LengthAssumption
<1>4. 1 \in 1..ReqLen /\ 1 \in 1..Len(buf)
  BY <1>1, <1>2, LengthAssumption
<1>5. p[1] = buf[1]
  BY <1>3, <1>4
<1>6. Dispatches(buf)
  BY <1>1, <1>2, <1>3, <1>5, LengthAssumption DEF Dispatches, HasRequest
<1>7. buf[1] \in Byte
  BY <1>4
<1>8. buf[1].msg \in Message
  BY <1>7 DEF Byte
<1> QED
  BY <1>5, <1>6, <1>8 DEF p

\* The core call returns the reply to the first request in the buffer, or
\* nothing; when no request stands there it runs no handler and only fails.
LEMMA CoreCallOutcome ==
  ASSUME NEW name, NEW buf \in Seq(Byte),
         NEW o \in process_thrift_data_generic(name, buf)
  PROVE  /\ o.ran \in Seq(Message)
         /\ o.end = "true" => /\ Dispatches(buf)
                              /\ buf[1].msg \in Message
                              /\ o.out = ReplyBytes(buf[1].msg)
         /\ ~Dispatches(buf) => o.end = "failed" /\ o.ran = << >>
<1> DEFINE p == Observed(buf)
<1>1. CASE name \notin Registered \/ ~Dispatches(p)
  <2>1. o = Failed(<< >>)
    BY <1>1 DEF process_thrift_data_generic, process, MallocFailures, Failed
  <2> QED
    BY <2>1 DEF Failed
<1>2. CASE name \in Registered /\ Dispatches(p)
  <2> DEFINE m == p[1].msg
             ran == HandlerRuns(m)
  <2>1. Dispatches(buf) /\ m = buf[1].msg /\ m \in Message
    BY <1>2, ObservedDispatch
  <2>2. ran \in Seq(Message)
    BY <2>1 DEF HandlerRuns
  <2>3. process(p) \subseteq {Answered(m, ran), Escaped(ran), Failed(ran)}
    BY <1>2 DEF process
  <2>4. o \in process(p) \cup MallocFailures(process(p))
    BY <1>2 DEF process_thrift_data_generic
  <2> HIDE DEF m, ran
  <2>5. o \in {Answered(m, ran), Escaped(ran), Failed(ran)}
    BY <2>3, <2>4 DEF MallocFailures, Answered, Escaped, Failed
  <2> QED
    BY <2>1, <2>2, <2>5 DEF Answered, Escaped, Failed
<1> QED
  BY <1>1, <1>2
-----------------------------------------------------------------------------

IInv == TypeOK /\ ReadsArePrefix

\* The empty byte string.
LEMMA NoBytes == << >> \in Seq(Byte) /\ Len(<< >>) = 0 /\ << >> \in Seq(Message)
BY EmptySeq

\* Results of every kind have the type of results.
LEMMA ReturnedType ==
  ASSUME NEW method \in Method, NEW data \in Seq(Byte), NEW ran \in Seq(Message)
  PROVE  Returned(method, data, ran) \in Result
BY DEF Result, Returned

LEMMA ThrewType ==
  ASSUME NEW method \in Method, NEW ran \in Seq(Message),
         NEW outcome \in {"closed", "cannot read", "rpc failed"}
  PROVE  Threw(method, outcome, ran) \in Result
BY NoBytes DEF Result, Threw

LEMMA DiedType ==
  ASSUME NEW method \in Method, NEW ran \in Seq(Message)
  PROVE  Died(method, ran) \in Result
BY NoBytes DEF Result, Died

\* A call that returns nothing and runs no handler.
LEMMA EmptyReturnType ==
  ASSUME NEW method \in Method
  PROVE  Returned(method, << >>, << >>) \in Result
BY NoBytes, ReturnedType

LEMMA InitIInv == Init => IInv
<1> SUFFICES ASSUME Init PROVE IInv
  OBVIOUS
<1>1. 0 \in Long
  BY WidthAssumption DEF Long
<1>2. result \in Result
  BY EmptyReturnType DEF Init, Method
<1> QED
  BY <1>1, <1>2, NoBytes DEF Init, IInv, TypeOK, ReadsArePrefix

\* Pointing rBuf at a byte string of at most RepLen bytes restores the part of
\* the invariant about reading.
LEMMA StoreReplyStep ==
  ASSUME NEW bytes \in Seq(Byte), StoreReply(bytes)
  PROVE  /\ rBufPos' \in Long /\ delivered' \in Seq(Byte)
         /\ ReadsArePrefix'
<1>1. 0 \in Long
  BY WidthAssumption DEF Long
<1>2. NULL # bytes
  BY NullAssumption
<1>3. SubSeq(bytes, 1, 0) = << >>
  BY SubSeqEmpty
<1>4. Len(bytes) \in Nat
  OBVIOUS
<1> QED
  BY <1>1, <1>2, <1>3, <1>4 DEF StoreReply, ReadsArePrefix

LEMMA ConstructStep ==
  ASSUME IInv, NEW s \in Service, Construct(s)
  PROVE  IInv'
<1>1. StoreReply(<< >>)
  BY DEF Construct
<1>2. rBufPos' \in Long /\ delivered' \in Seq(Byte) /\ ReadsArePrefix'
  BY <1>1, StoreReplyStep, NoBytes
<1>3. result' \in Result
  BY EmptyReturnType DEF Construct, Method
<1>4. rBuf' = << >> /\ wBuf' = << >> /\ serviceName' = s /\ crashed' = crashed /\ flushed' = FALSE
  BY DEF Construct, StoreReply
<1>5. RepLen \in Nat /\ MaxBuf \in Nat
  BY LengthAssumption, WidthAssumption
<1>6. /\ serviceName' \in Service
      /\ wBuf' \in Seq(Byte) /\ Len(wBuf') <= MaxBuf
      /\ rBuf' \in Seq(Byte) /\ Len(rBuf') <= RepLen
  BY <1>4, <1>5, NoBytes
<1>7. crashed' \in BOOLEAN /\ flushed' \in BOOLEAN
  BY <1>4 DEF IInv, TypeOK
<1>8. TypeOK'
  BY <1>2, <1>3, <1>6, <1>7 DEF TypeOK
<1> QED
  BY <1>2, <1>8 DEF IInv

\* A step that leaves the object alone, or the object and the process.
LEMMA NoFieldStep ==
  ASSUME IInv, result' \in Result, crashed' \in BOOLEAN,
         UNCHANGED <<fields, flushed, delivered>>
  PROVE  IInv'
BY DEF IInv, TypeOK, ReadsArePrefix, fields

LEMMA WriteStep ==
  ASSUME IInv, NEW buf \in Seq(Byte), Write(buf)
  PROVE  IInv'
<1>1. wBuf \in Seq(Byte) /\ serviceName \in Service /\ rBuf \in Seq(Byte) /\ Len(rBuf) <= RepLen
  BY DEF IInv, TypeOK, Write, Constructed
<1>2. /\ wBuf' = wBuf \o buf /\ Len(wBuf) + Len(buf) <= MaxBuf
      /\ UNCHANGED <<serviceName, rBuf, rBufPos, crashed, flushed, delivered>>
  BY DEF Write, Joined
<1>3. wBuf' \in Seq(Byte) /\ Len(wBuf') <= MaxBuf
  BY <1>1, <1>2, ConcatProperties
<1>4. result' \in Result
  BY EmptyReturnType DEF Write, Method
<1>5. TypeOK'
  BY <1>1, <1>2, <1>3, <1>4 DEF IInv, TypeOK
<1>6. ReadsArePrefix'
  BY <1>2 DEF IInv, ReadsArePrefix
<1> QED
  BY <1>5, <1>6 DEF IInv

\* A position in the reply survives the conversions between zend_long and
\* size_t, and read(len) takes no more than is left.
LEMMA ReadLenBound ==
  ASSUME IInv, rBuf # NULL, NEW len \in Long
  PROVE  /\ rBuf \in Seq(Byte) /\ Len(rBuf) \in Nat /\ Len(rBuf) <= RepLen
         /\ rBufPos \in 0..Len(rBuf)
         /\ ReadLen(len) \in 0..(Len(rBuf) - rBufPos)
         /\ AsLong(rBufPos + ReadLen(len)) = rBufPos + ReadLen(len)
<1>1. /\ rBuf \in Seq(Byte) /\ Len(rBuf) \in Nat /\ Len(rBuf) <= RepLen
      /\ rBufPos \in 0..Len(rBuf)
  BY DEF IInv, TypeOK, ReadsArePrefix
<1>2. AsSize(Len(rBuf) - rBufPos) = Len(rBuf) - rBufPos
  BY <1>1 DEF AsSize
<1>3. AsSize(len) \in Nat
  BY WidthAssumption DEF AsSize, Long
<1>4. ReadLen(len) \in 0..(Len(rBuf) - rBufPos)
  BY <1>1, <1>2, <1>3 DEF ReadLen
<1>5. rBufPos + ReadLen(len) < SignBit
  BY <1>1, <1>4, LengthAssumption, WidthAssumption
<1> QED
  BY <1>1, <1>4, <1>5 DEF AsLong

LEMMA ReadStep ==
  ASSUME IInv, NEW len \in Long, Read(len)
  PROVE  IInv'
<1> DEFINE n == ReadLen(len)
           data == SubSeq(rBuf, rBufPos + 1, rBufPos + n)
<1>1. /\ rBuf # NULL
      /\ result' = Returned("read", data, << >>)
      /\ delivered' = delivered \o data
      /\ rBufPos' = AsLong(rBufPos + n)
      /\ UNCHANGED <<serviceName, wBuf, rBuf, crashed, flushed>>
  BY DEF Read
<1>2. /\ rBuf \in Seq(Byte) /\ Len(rBuf) \in Nat /\ Len(rBuf) <= RepLen
      /\ rBufPos \in 0..Len(rBuf)
      /\ n \in 0..(Len(rBuf) - rBufPos)
      /\ rBufPos' = rBufPos + n
  BY <1>1, ReadLenBound
<1> HIDE DEF n
<1>3. data \in Seq(Byte)
  BY <1>2, SubSeqProperties
<1>4. delivered = SubSeq(rBuf, 1, rBufPos)
  BY <1>1 DEF IInv, ReadsArePrefix
<1>5. delivered' = SubSeq(rBuf, 1, rBufPos + n)
  <2>1. /\ 1 \in 1..(Len(rBuf) + 1)
        /\ rBufPos \in (1 - 1)..Len(rBuf)
        /\ rBufPos + n \in rBufPos..Len(rBuf)
    BY <1>2
  <2>2. SubSeq(rBuf, 1, rBufPos) \o SubSeq(rBuf, rBufPos + 1, rBufPos + n)
          = SubSeq(rBuf, 1, rBufPos + n)
    BY <1>2, <2>1, ConcatAdjacentSubSeq
  <2> QED
    BY <1>1, <1>4, <2>2
<1>6. ReadsArePrefix'
  BY <1>1, <1>2, <1>5 DEF ReadsArePrefix
<1>7. delivered' \in Seq(Byte)
  BY <1>1, <1>3, ConcatProperties DEF IInv, TypeOK
<1>8. rBufPos' \in Long
  BY <1>2, LengthAssumption, WidthAssumption DEF Long
<1>9. result' \in Result
  BY <1>1, <1>3, NoBytes, ReturnedType DEF Method
<1>10. TypeOK'
  BY <1>1, <1>7, <1>8, <1>9 DEF IInv, TypeOK
<1> QED
  BY <1>6, <1>10 DEF IInv

LEMMA FlushStep ==
  ASSUME IInv, Flush
  PROVE  IInv'
<1>1. /\ serviceName \in Service
      /\ wBuf \in Seq(Byte) /\ rBuf \in Seq(Byte) /\ Len(rBuf) <= RepLen
  BY DEF IInv, TypeOK, Flush, Constructed
<1>2. PICK o \in process_thrift_data_generic(serviceName, wBuf) :
        FlushAnswered(o) \/ FlushFailed(o) \/ FlushEscaped(o)
  BY DEF Flush
<1>3. /\ o.ran \in Seq(Message)
      /\ o.end = "true" => /\ wBuf[1].msg \in Message
                           /\ o.out = ReplyBytes(wBuf[1].msg)
  BY <1>1, CoreCallOutcome
<1>4. CASE FlushAnswered(o)
  <2>1. /\ StoreReply(o.out) /\ wBuf' = << >> /\ flushed' = TRUE
        /\ result' = Returned("flush", << >>, o.ran)
        /\ UNCHANGED <<serviceName, crashed>>
    BY <1>4 DEF FlushAnswered
  <2>2. o.out \in Seq(Byte) /\ Len(o.out) <= RepLen
    BY <1>3, <1>4, ReplyBytesType DEF FlushAnswered
  <2>3. rBufPos' \in Long /\ delivered' \in Seq(Byte) /\ ReadsArePrefix'
    BY <2>1, <2>2, StoreReplyStep
  <2>4. rBuf' = o.out
    BY <2>1 DEF StoreReply
  <2>5. result' \in Result
    BY <1>3, <2>1, NoBytes, ReturnedType DEF Method
  <2>6. crashed' \in BOOLEAN /\ flushed' \in BOOLEAN
    BY <2>1 DEF IInv, TypeOK
  <2>7. wBuf' \in Seq(Byte) /\ Len(wBuf') <= MaxBuf
    BY <2>1, NoBytes, WidthAssumption
  <2>8. TypeOK'
    BY <1>1, <2>1, <2>2, <2>3, <2>4, <2>5, <2>6, <2>7 DEF TypeOK
  <2> QED
    BY <2>3, <2>8 DEF IInv
<1>5. CASE FlushFailed(o)
  <2>1. result' \in Result
    BY <1>3, <1>5, ThrewType DEF FlushFailed, Method
  <2> QED
    BY <1>5, <2>1, NoFieldStep DEF FlushFailed, IInv, TypeOK
<1>6. CASE FlushEscaped(o)
  <2>1. result' \in Result
    BY <1>3, <1>6, DiedType DEF FlushEscaped, Method
  <2> QED
    BY <1>6, <2>1, NoFieldStep DEF FlushEscaped
<1> QED
  BY <1>2, <1>4, <1>5, <1>6
LEMMA NextIInv == IInv /\ [Next]_vars => IInv'
<1> SUFFICES ASSUME IInv, [Next]_vars PROVE IInv'
  OBVIOUS
<1>1. ASSUME NEW s \in Service, Construct(s) PROVE IInv'
  BY <1>1, ConstructStep
<1>2. ASSUME NEW method \in {"isOpen", "open", "close"}, NoOp(method) PROVE IInv'
  <2>1. result' \in Result
    BY <1>2, EmptyReturnType DEF NoOp, Method
  <2> QED
    BY <1>2, <2>1, NoFieldStep DEF NoOp, IInv, TypeOK
<1>3. ASSUME NEW buf \in Chunk, Write(buf) PROVE IInv'
  BY <1>3, WriteStep, ChunkAssumption
<1>4. ASSUME NEW method \in {"write", "flush"}, DereferenceNull(method) PROVE IInv'
  <2>1. result' \in Result
    BY <1>4, DiedType, NoBytes DEF DereferenceNull, Method
  <2> QED
    BY <1>4, <2>1, NoFieldStep DEF DereferenceNull
<1>5. CASE ReadClosed
  <2>1. result' \in Result
    BY <1>5, ThrewType, NoBytes DEF ReadClosed, Method
  <2> QED
    BY <1>5, <2>1, NoFieldStep DEF ReadClosed, IInv, TypeOK
<1>6. ASSUME NEW len \in Long, ReadExhausted(len) PROVE IInv'
  <2>1. result' \in Result
    BY <1>6, ThrewType, NoBytes DEF ReadExhausted, Method
  <2> QED
    BY <1>6, <2>1, NoFieldStep DEF ReadExhausted, IInv, TypeOK
<1>7. ASSUME NEW len \in Long, Read(len) PROVE IInv'
  BY <1>7, ReadStep
<1>8. CASE Flush
  BY <1>8, FlushStep
<1>9. CASE UNCHANGED vars
  BY <1>9 DEF vars, fields, IInv, TypeOK, ReadsArePrefix
<1> QED
  BY <1>1, <1>2, <1>3, <1>4, <1>5, <1>6, <1>7, <1>8, <1>9 DEF Next

LEMMA SpecIInv == Spec => []IInv
BY InitIInv, NextIInv, PTL DEF Spec

-----------------------------------------------------------------------------

\* The fields of a ThriftBridgeTransport are all null or all set, its buffers
\* hold bytes and every method call ends in one of the ways Result names.
THEOREM TypeCorrect == Spec => []TypeOK
<1>1. IInv => TypeOK
  BY DEF IInv
<1> QED
  BY <1>1, SpecIInv, PTL

\* read() returns the bytes of the latest reply once each, in order, from the
\* first, for every length asked for (negative ones too) and every interleaving
\* with the other methods.
THEOREM ReadsPrefixOfReply == Spec => []ReadsArePrefix
<1>1. IInv => ReadsArePrefix
  BY DEF IInv
<1> QED
  BY <1>1, SpecIInv, PTL

-----------------------------------------------------------------------------

\* Bytes added behind a poisoned buffer leave it poisoned.
LEMMA PoisonedWrite ==
  ASSUME IInv, Poisoned, NEW buf \in Seq(Byte), Write(buf)
  PROVE  Poisoned'
<1>1. /\ wBuf \in Seq(Byte) /\ wBuf # NULL /\ Len(wBuf) >= ReqLen /\ Len(wBuf) \in Nat
      /\ ~Dispatches(wBuf) /\ wBuf' = wBuf \o buf
  BY DEF IInv, TypeOK, Poisoned, Constructed, Write, Joined
<1>2. /\ wBuf' \in Seq(Byte) /\ Len(wBuf') = Len(wBuf) + Len(buf) /\ Len(buf) \in Nat
      /\ \A i \in 1..(Len(wBuf) + Len(buf)) :
           wBuf'[i] = IF i <= Len(wBuf) THEN wBuf[i] ELSE buf[i - Len(wBuf)]
  BY <1>1, ConcatProperties
<1>3. \A i \in 1..ReqLen : wBuf'[i] = wBuf[i]
  BY <1>1, <1>2, LengthAssumption
<1>4. wBuf'[1] = wBuf[1]
  BY <1>3, LengthAssumption
<1>5. ~Dispatches(wBuf')
  BY <1>1, <1>3, <1>4 DEF Dispatches, HasRequest
<1>6. wBuf' # NULL
  BY <1>2, NullAssumption
<1> QED
  BY <1>1, <1>2, <1>5, <1>6, LengthAssumption DEF Poisoned, Constructed

\* A write buffer that starts with a refused message stays until the object is
\* constructed again: however often the script flushes, closes and reopens the
\* transport or writes further requests, no handler runs for it any more.
THEOREM PoisonedForGood == Spec => NoRecovery
<1> DEFINE Stays == \/ result'.method = "__construct"
                    \/ Poisoned' /\ result'.ran = << >>
<1>1. ASSUME IInv, Poisoned, Next PROVE Stays
  <2>1. ASSUME NEW s \in Service, Construct(s) PROVE Stays
    BY <2>1 DEF Construct, Returned
  <2>2. ASSUME NEW method \in {"isOpen", "open", "close"}, NoOp(method) PROVE Stays
    BY <1>1, <2>2 DEF NoOp, Returned, fields, Poisoned, Constructed
  <2>3. ASSUME NEW buf \in Chunk, Write(buf) PROVE Stays
    <3>1. Poisoned'
      BY <1>1, <2>3, PoisonedWrite, ChunkAssumption
    <3> QED
      BY <2>3, <3>1 DEF Write, Returned
  <2>4. ASSUME NEW method \in {"write", "flush"}, DereferenceNull(method) PROVE Stays
    BY <1>1, <2>4 DEF DereferenceNull, Poisoned
  <2>5. CASE ReadClosed
    BY <1>1, <2>5 DEF ReadClosed, Threw, fields, Poisoned, Constructed
  <2>6. ASSUME NEW len \in Long, ReadExhausted(len) PROVE Stays
    BY <1>1, <2>6 DEF ReadExhausted, Threw, fields, Poisoned, Constructed
  <2>7. ASSUME NEW len \in Long, Read(len) PROVE Stays
    BY <1>1, <2>7 DEF Read, Returned, Poisoned, Constructed
  <2>8. CASE Flush
    <3>1. wBuf \in Seq(Byte)
      BY <1>1 DEF IInv, TypeOK, Poisoned, Constructed
    <3>2. PICK o \in process_thrift_data_generic(serviceName, wBuf) :
            FlushAnswered(o) \/ FlushFailed(o) \/ FlushEscaped(o)
      BY <2>8 DEF Flush
    <3>3. o.end = "failed" /\ o.ran = << >>
      BY <1>1, <3>1, CoreCallOutcome DEF Poisoned
    <3>4. FlushFailed(o)
      BY <3>2, <3>3 DEF FlushAnswered, FlushEscaped
    <3> QED
      BY <1>1, <3>3, <3>4 DEF FlushFailed, Threw, fields, Poisoned, Constructed
  <2> QED
    BY <1>1, <2>1, <2>2, <2>3, <2>4, <2>5, <2>6, <2>7, <2>8 DEF Next
<1>2. IInv /\ [Next]_vars => [Poisoned => Stays]_vars
  BY <1>1
<1> QED
  BY <1>2, SpecIInv, PTL DEF Spec, NoRecovery

-----------------------------------------------------------------------------

\* A method that returns no bytes and leaves the buffers alone is refused, or
\* has nothing to do, in the channel.
LEMMA RefuseStep ==
  ASSUME UNCHANGED <<wBuf, rBuf, rBufPos>>, result'.data = << >>
  PROVE  Channel!Next
BY DEF Channel!Next, Channel!Refuse, Pending, Unread

LEMMA ConstructRefines ==
  ASSUME NEW s \in Service, Construct(s)
  PROVE  Channel!Next
<1>1. /\ wBuf' = << >> /\ rBuf' = << >> /\ rBufPos' = 0 /\ result'.data = << >>
  BY DEF Construct, StoreReply, Returned
<1>2. SubSeq(<< >>, 0 + 1, Len(<< >>)) = << >>
  BY NoBytes, SubSeqEmpty
<1>3. Pending' = << >> /\ Unread' = << >>
  BY <1>1, <1>2 DEF Pending, Unread
<1> QED
  BY <1>1, <1>3 DEF Channel!Next, Channel!Reset

LEMMA WriteRefines ==
  ASSUME IInv, NEW buf \in Seq(Byte), Write(buf)
  PROVE  Channel!Next
<1>1. /\ wBuf \in Seq(Byte) /\ wBuf # NULL /\ wBuf' = wBuf \o buf
      /\ UNCHANGED <<rBuf, rBufPos>> /\ result'.data = << >>
  BY DEF IInv, TypeOK, Constructed, Write, Joined, Returned
<1>2. /\ wBuf' \in Seq(Byte) /\ Len(wBuf') = Len(wBuf) + Len(buf)
      /\ Len(wBuf) \in Nat /\ Len(buf) \in Nat
      /\ \A i \in 1..(Len(wBuf) + Len(buf)) :
           wBuf'[i] = IF i <= Len(wBuf) THEN wBuf[i] ELSE buf[i - Len(wBuf)]
  BY <1>1, ConcatProperties
<1>3. wBuf' # NULL
  BY <1>2, NullAssumption
<1>4. Pending = wBuf /\ Pending' = wBuf' /\ Unread' = Unread
  BY <1>1, <1>3 DEF Pending, Unread
<1> DEFINE front == SubSeq(wBuf', 1, Len(wBuf))
<1>5. \A i \in 1..Len(wBuf) : wBuf'[i] = wBuf[i] /\ wBuf'[i] \in Byte
  BY <1>1, <1>2
<1>6. /\ front \in Seq(Byte)
      /\ Len(front) = IF 1 <= Len(wBuf) THEN Len(wBuf) - 1 + 1 ELSE 0
      /\ \A i \in 1..(Len(wBuf) - 1 + 1) : front[i] = wBuf'[1 + i - 1]
  BY <1>2, <1>5, SubSeqProperties
<1> HIDE DEF front
<1>7. Len(front) = Len(wBuf) /\ \A i \in 1..Len(front) : front[i] = wBuf[i]
  BY <1>2, <1>5, <1>6
<1>8. front = wBuf
  BY <1>1, <1>6, <1>7, SeqEqual
<1>9. Len(Pending') >= Len(Pending) /\ SubSeq(Pending', 1, Len(Pending)) = Pending
  BY <1>2, <1>4, <1>8 DEF front
<1> QED
  BY <1>1, <1>4, <1>9 DEF Channel!Next, Channel!Put

\* A slice of a sequence, for bounds that lie in it.
LEMMA SliceProperties ==
  ASSUME NEW S, NEW s \in Seq(S),
         NEW a \in 1..(Len(s) + 1), NEW b \in (a - 1)..Len(s)
  PROVE  /\ SubSeq(s, a, b) \in Seq(S)
         /\ Len(SubSeq(s, a, b)) = b - a + 1
         /\ \A i \in 1..(b - a + 1) : SubSeq(s, a, b)[i] = s[a + i - 1]
<1>1. a \in Int /\ b \in Int /\ Len(s) \in Nat
  OBVIOUS
<1>2. \A i \in a..b : s[i] \in S
  BY <1>1
<1>3. /\ SubSeq(s, a, b) \in Seq(S)
      /\ Len(SubSeq(s, a, b)) = IF a <= b THEN b - a + 1 ELSE 0
      /\ \A i \in 1..(b - a + 1) : SubSeq(s, a, b)[i] = s[a + i - 1]
  BY <1>1, <1>2, SubSeqProperties
<1> QED
  BY <1>1, <1>3

\* Slicing what is left of a sequence behind position p is slicing the sequence.
LEMMA SliceOfSuffix ==
  ASSUME NEW S, NEW s \in Seq(S), NEW p \in 0..Len(s),
         NEW a \in 1..(Len(s) - p + 1), NEW b \in (a - 1)..(Len(s) - p)
  PROVE  SubSeq(SubSeq(s, p + 1, Len(s)), a, b) = SubSeq(s, p + a, p + b)
<1> DEFINE u == SubSeq(s, p + 1, Len(s))
           x == SubSeq(u, a, b)
           y == SubSeq(s, p + a, p + b)
<1>1. p \in Nat /\ a \in Nat /\ b \in Int /\ Len(s) \in Nat
  OBVIOUS
<1>2. /\ u \in Seq(S) /\ Len(u) = Len(s) - (p + 1) + 1
      /\ \A i \in 1..(Len(s) - (p + 1) + 1) : u[i] = s[p + 1 + i - 1]
  <2>1. p + 1 \in 1..(Len(s) + 1) /\ Len(s) \in (p + 1 - 1)..Len(s)
    BY <1>1
  <2> QED
    BY <2>1, SliceProperties
<1>3. /\ y \in Seq(S) /\ Len(y) = p + b - (p + a) + 1
      /\ \A i \in 1..(p + b - (p + a) + 1) : y[i] = s[p + a + i - 1]
  <2>1. p + a \in 1..(Len(s) + 1) /\ p + b \in (p + a - 1)..Len(s)
    BY <1>1
  <2> QED
    BY <2>1, SliceProperties
<1> HIDE DEF u, y
<1>4. /\ x \in Seq(S) /\ Len(x) = b - a + 1
      /\ \A i \in 1..(b - a + 1) : x[i] = u[a + i - 1]
  <2>1. a \in 1..(Len(u) + 1) /\ b \in (a - 1)..Len(u)
    BY <1>1, <1>2
  <2> QED
    BY <1>2, <2>1, SliceProperties
<1> HIDE DEF x
<1>5. Len(x) = Len(y) /\ \A i \in 1..Len(x) : x[i] = y[i]
  BY <1>1, <1>2, <1>3, <1>4
<1>6. x = y
  BY <1>3, <1>4, <1>5, SeqEqual
<1> QED
  BY <1>6 DEF x, y, u

\* read(len) takes the first ReadLen(len) unread bytes.
LEMMA ReadRefines ==
  ASSUME IInv, NEW len \in Long, Read(len)
  PROVE  Channel!Next
<1> DEFINE n == ReadLen(len)
           p == rBufPos
           l == Len(rBuf)
<1>1. /\ rBuf # NULL /\ UNCHANGED <<wBuf, rBuf>>
      /\ result'.data = SubSeq(rBuf, p + 1, p + n)
      /\ rBufPos' = AsLong(p + n)
  BY DEF Read, Returned
<1>2. /\ rBuf \in Seq(Byte) /\ l \in Nat /\ p \in 0..l
      /\ n \in 0..(l - p) /\ rBufPos' = p + n
  BY <1>1, ReadLenBound
<1>3. /\ Unread = SubSeq(rBuf, p + 1, l)
      /\ Unread' = SubSeq(rBuf, p + n + 1, l)
      /\ Pending' = Pending
  BY <1>1, <1>2 DEF Unread, Pending
<1> HIDE DEF n, p, l
<1>4. Len(Unread) = l - p
  BY <1>2, <1>3, SliceProperties DEF l
<1>5. SubSeq(Unread, 1, n) = SubSeq(rBuf, p + 1, p + n)
  BY <1>2, <1>3, SliceOfSuffix DEF l
<1>6. SubSeq(Unread, n + 1, l - p) = SubSeq(rBuf, p + (n + 1), p + (l - p))
  BY <1>2, <1>3, SliceOfSuffix DEF l
<1>7. p + (n + 1) = p + n + 1 /\ p + (l - p) = l /\ n \in 0..Len(Unread)
  BY <1>2, <1>4
<1>8. /\ result'.data = SubSeq(Unread, 1, n)
      /\ Unread' = SubSeq(Unread, n + 1, Len(Unread))
  BY <1>1, <1>3, <1>4, <1>5, <1>6, <1>7 DEF n, p, l
<1> QED
  BY <1>3, <1>7, <1>8 DEF Channel!Next, Channel!Get

LEMMA FlushRefines ==
  ASSUME IInv, Flush
  PROVE  Channel!Next
<1>1. wBuf \in Seq(Byte) /\ wBuf # NULL
  BY DEF IInv, TypeOK, Flush, Constructed
<1>2. PICK o \in process_thrift_data_generic(serviceName, wBuf) :
        FlushAnswered(o) \/ FlushFailed(o) \/ FlushEscaped(o)
  BY DEF Flush
<1>3. CASE FlushAnswered(o)
  <2>1. /\ Dispatches(wBuf) /\ wBuf[1].msg \in Message
        /\ o.out = ReplyBytes(wBuf[1].msg)
    BY <1>1, <1>3, CoreCallOutcome DEF FlushAnswered
  <2>2. /\ wBuf' = << >> /\ rBuf' = o.out /\ rBufPos' = 0 /\ result'.data = << >>
    BY <1>3 DEF FlushAnswered, StoreReply, Returned
  <2>3. o.out \in Seq(Byte)
    BY <2>1, ReplyBytesType
  <2>4. SubSeq(o.out, 0 + 1, Len(o.out)) = o.out
    BY <2>3, SubSeqFull
  <2>5. Pending = wBuf /\ Pending' = << >> /\ Unread' = o.out
    BY <1>1, <2>2, <2>3, <2>4, NullAssumption DEF Pending, Unread
  <2> QED
    BY <2>1, <2>2, <2>5
       DEF Channel!Next, Channel!Exchange, Channel!Dispatches, Channel!HasRequest,
           Channel!ReplyBytes, Dispatches, HasRequest, ReplyBytes
<1>4. CASE FlushFailed(o)
  BY <1>4, RefuseStep DEF FlushFailed, Threw, fields
<1>5. CASE FlushEscaped(o)
  BY <1>5, RefuseStep DEF FlushEscaped, Died, fields
<1> QED
  BY <1>2, <1>3, <1>4, <1>5

\* ThriftBridgeTransport implements the request/reply channel: write() only
\* adds at the end of what is pending, a flush that succeeds hands over the
\* whole reply to the first pending request and nothing else, a flush that
\* fails changes nothing, and read() takes bytes off the front of the reply.
THEOREM RefinesChannel == Spec => ImplementsChannel
<1>1. Init => Channel!Init
  <2> SUFFICES ASSUME Init PROVE Channel!Init
    OBVIOUS
  <2>1. Pending = << >> /\ Unread = << >>
    BY DEF Init, Pending, Unread
  <2>2. result.data = << >>
    BY DEF Init, Returned
  <2> QED
    BY <2>1, <2>2 DEF Channel!Init
<1>2. ASSUME IInv, Next PROVE Channel!Next
  <2>1. ASSUME NEW s \in Service, Construct(s) PROVE Channel!Next
    BY <2>1, ConstructRefines
  <2>2. ASSUME NEW method \in {"isOpen", "open", "close"}, NoOp(method) PROVE Channel!Next
    BY <2>2, RefuseStep DEF NoOp, Returned, fields
  <2>3. ASSUME NEW buf \in Chunk, Write(buf) PROVE Channel!Next
    BY <1>2, <2>3, WriteRefines, ChunkAssumption
  <2>4. ASSUME NEW method \in {"write", "flush"}, DereferenceNull(method) PROVE Channel!Next
    BY <2>4, RefuseStep DEF DereferenceNull, Died, fields
  <2>5. CASE ReadClosed
    BY <2>5, RefuseStep DEF ReadClosed, Threw, fields
  <2>6. ASSUME NEW len \in Long, ReadExhausted(len) PROVE Channel!Next
    BY <2>6, RefuseStep DEF ReadExhausted, Threw, fields
  <2>7. ASSUME NEW len \in Long, Read(len) PROVE Channel!Next
    BY <1>2, <2>7, ReadRefines
  <2>8. CASE Flush
    BY <1>2, <2>8, FlushRefines
  <2> QED
    BY <1>2, <2>1, <2>2, <2>3, <2>4, <2>5, <2>6, <2>7, <2>8 DEF Next
<1>3. UNCHANGED vars => UNCHANGED Channel!channel
  BY DEF vars, Channel!channel, Pending, Unread
<1>4. IInv /\ [Next]_vars => [Channel!Next]_Channel!channel
  BY <1>2, <1>3
<1> QED
  BY <1>1, <1>4, SpecIInv, PTL DEF Spec, ImplementsChannel, Channel!Spec

-----------------------------------------------------------------------------
\* The inductive invariant of a session.

SessionTypes ==
  /\ phase \in {"idle", "sending", "receiving"}
  /\ request \in Message \cup {NULL}
  /\ sent \in 0..ReqLen
  /\ got \in Seq(Byte)
  /\ answer \in [Call -> Message \cup {NULL}]
  /\ log \in Seq(Message)
  /\ suspect \in BOOLEAN
  /\ tainted \subseteq Call /\ late \subseteq Call

\* What the client has to do with the transport in each phase.
InPhase ==
  /\ phase # "idle" => request # NULL /\ Constructed
  /\ phase = "sending" => got = << >>
  /\ phase = "receiving" => /\ got = delivered /\ wBuf = << >> /\ ~suspect
                            /\ request.kind # "oneway"

HandlerHasRun(m) == m.kind = "unknown" \/ \E i \in DOMAIN log : log[i] = m

\* While nothing has gone wrong the buffers hold what the present call is about.
CleanBuffers ==
  /\ phase = "idle" /\ ~suspect /\ Constructed => wBuf = << >>
  /\ phase = "sending" => (request.call \in tainted <=> suspect)
  /\ phase = "sending" /\ ~suspect => wBuf = SubSeq(RequestBytes(request), 1, sent)
  /\ phase = "receiving" /\ request.call \notin tainted =>
       rBuf = ReplyBytes(request) /\ HandlerHasRun(request)

\* Nothing is recorded of calls to come.
NoFuture ==
  /\ \A c \in Call : c > MadeCalls => c \notin tainted
  /\ \A k \in DOMAIN log : log[k].call <= MadeCalls
  /\ phase = "sending" => \A k \in DOMAIN log : log[k].call < request.call

\* The request at the head of the write buffer is the next to run: it is newer
\* than all that have run, or the last of them once more.
HeadIsNext ==
  Constructed /\ wBuf # << >> =>
    /\ wBuf[1].msg.call <= MadeCalls
    /\ \A k \in DOMAIN log :
         \/ log[k].call < wBuf[1].msg.call
         \/ log[k] = wBuf[1].msg /\ log[k].call \in late

SessionInv == /\ IInv /\ SessionTypes /\ InPhase /\ CleanBuffers /\ AnswersOwnCall
              /\ NoFuture /\ HeadIsNext /\ HandledInOrder

-----------------------------------------------------------------------------
\* Calls, requests and pieces of requests.

LEMMA CallsAreNumbers == \A m \in Message : m.call \in Nat /\ m.call \in Call /\ m.call <= MaxCalls
BY CallAssumption DEF Message

LEMMA HeadType ==
  ASSUME IInv, Constructed, wBuf # << >>
  PROVE  wBuf \in Seq(Byte) /\ wBuf[1] \in Byte /\ wBuf[1].msg \in Message
<1>1. wBuf \in Seq(Byte)
  BY DEF IInv, TypeOK, Constructed
<1>2. 1 \in 1..Len(wBuf)
  BY <1>1
<1>3. wBuf[1] \in Byte
  BY <1>1, <1>2
<1> QED
  BY <1>1, <1>3 DEF Byte

LEMMA RequestBytesType ==
  ASSUME NEW m \in Message
  PROVE  /\ RequestBytes(m) \in Seq(Byte) /\ Len(RequestBytes(m)) = ReqLen
         /\ \A i \in 1..ReqLen : RequestBytes(m)[i].msg = m
<1>1. ReqLen \in Nat
  BY LengthAssumption
<1>2. \A i \in 1..ReqLen : [msg |-> m, part |-> i] \in Byte
  BY <1>1 DEF Byte
<1>3. RequestBytes(m) \in [1..ReqLen -> Byte]
  BY <1>2 DEF RequestBytes
<1>4. \A i \in 1..ReqLen : RequestBytes(m)[i] = [msg |-> m, part |-> i]
  BY DEF RequestBytes
<1> QED
  BY <1>1, <1>3, <1>4

LEMMA PieceType ==
  ASSUME NEW m \in Message, NEW k \in 0..ReqLen, NEW n \in 1..ReqLen, k + n <= ReqLen
  PROVE  LET piece == SubSeq(RequestBytes(m), k + 1, k + n)
         IN  piece \in Seq(Byte) /\ Len(piece) = n /\ piece[1].msg = m
<1> DEFINE R == RequestBytes(m)
<1>1. R \in Seq(Byte) /\ Len(R) = ReqLen /\ \A i \in 1..ReqLen : R[i].msg = m
  BY RequestBytesType
<1>2. k + 1 \in 1..(Len(R) + 1) /\ k + n \in k..Len(R) /\ ReqLen \in Nat
  BY <1>1, LengthAssumption
<1> HIDE DEF R
<1>3. /\ SubSeq(R, k + 1, k + n) \in Seq(Byte)
      /\ Len(SubSeq(R, k + 1, k + n)) = (k + n) - (k + 1) + 1
      /\ \A i \in 1..((k + n) - (k + 1) + 1) : SubSeq(R, k + 1, k + n)[i] = R[(k + 1) + i - 1]
  BY <1>2, <1>1, SliceProperties
<1>4. SubSeq(R, k + 1, k + n)[1] = R[k + 1] /\ k + 1 \in 1..ReqLen
  BY <1>2, <1>3
<1> QED
  BY <1>1, <1>3, <1>4 DEF R

\* The core call runs the handler of the message at the head, or none.
LEMMA CoreCallRuns ==
  ASSUME NEW name, NEW buf \in Seq(Byte),
         NEW o \in process_thrift_data_generic(name, buf)
  PROVE  /\ o.end = "true" => o.ran = HandlerRuns(buf[1].msg)
         /\ o.ran = << >> \/ (Dispatches(buf) /\ o.ran = <<buf[1].msg>>)
<1> DEFINE p == Observed(buf)
<1>1. CASE name \notin Registered \/ ~Dispatches(p)
  <2>1. o = Failed(<< >>)
    BY <1>1 DEF process_thrift_data_generic, process, MallocFailures, Failed
  <2> QED
    BY <2>1 DEF Failed
<1>2. CASE name \in Registered /\ Dispatches(p)
  <2> DEFINE m == p[1].msg
             ran == HandlerRuns(m)
  <2>1. Dispatches(buf) /\ m = buf[1].msg
    BY <1>2, ObservedDispatch
  <2>2. process(p) \subseteq {Answered(m, ran), Escaped(ran), Failed(ran)}
    BY <1>2 DEF process
  <2>3. o \in process(p) \cup MallocFailures(process(p))
    BY <1>2 DEF process_thrift_data_generic
  <2>4. ran = << >> \/ ran = <<m>>
    BY DEF HandlerRuns
  <2>5. ran = HandlerRuns(m)
    OBVIOUS
  <2> HIDE DEF m, ran
  <2>6. o \in {Answered(m, ran), Escaped(ran), Failed(ran)}
    BY <2>2, <2>3 DEF MallocFailures, Answered, Escaped, Failed
  <2>7. o.ran = ran
    BY <2>6 DEF Answered, Escaped, Failed
  <2> QED
    BY <2>1, <2>4, <2>5, <2>7
<1> QED
  BY <1>1, <1>2

\* What a flush does, seen by the client.
LEMMA FlushOutcome ==
  ASSUME IInv, Flush
  PROVE  /\ wBuf \in Seq(Byte) /\ result'.ran \in Seq(Message)
         /\ \/ /\ result'.outcome = "ok"
               /\ Dispatches(wBuf) /\ wBuf[1].msg \in Message
               /\ result'.ran = HandlerRuns(wBuf[1].msg)
               /\ rBuf' = ReplyBytes(wBuf[1].msg) /\ wBuf' = << >> /\ delivered' = << >>
            \/ /\ result'.outcome # "ok"
               /\ result'.ran = << >> \/ (Dispatches(wBuf) /\ result'.ran = <<wBuf[1].msg>>)
               /\ UNCHANGED <<fields, delivered>>
<1>1. wBuf \in Seq(Byte)
  BY DEF IInv, TypeOK, Flush, Constructed
<1>2. PICK o \in process_thrift_data_generic(serviceName, wBuf) :
        FlushAnswered(o) \/ FlushFailed(o) \/ FlushEscaped(o)
  BY DEF Flush
<1>3. /\ o.ran \in Seq(Message)
      /\ o.end = "true" => /\ Dispatches(wBuf) /\ wBuf[1].msg \in Message
                           /\ o.out = ReplyBytes(wBuf[1].msg)
  BY <1>1, CoreCallOutcome
<1>4. /\ o.end = "true" => o.ran = HandlerRuns(wBuf[1].msg)
      /\ o.ran = << >> \/ (Dispatches(wBuf) /\ o.ran = <<wBuf[1].msg>>)
  BY <1>1, CoreCallRuns
<1>5. CASE FlushAnswered(o)
  BY <1>1, <1>3, <1>4, <1>5 DEF FlushAnswered, StoreReply, Returned
<1>6. CASE FlushFailed(o)
  BY <1>1, <1>3, <1>4, <1>6 DEF FlushFailed, Threw
<1>7. CASE FlushEscaped(o)
  BY <1>1, <1>3, <1>4, <1>7 DEF FlushEscaped, Died
<1> QED
  BY <1>2, <1>5, <1>6, <1>7

-----------------------------------------------------------------------------
\* The start.

LEMMA SessionInit == SInit => SessionInv
<1> SUFFICES ASSUME SInit PROVE SessionInv
  OBVIOUS
<1>1. IInv /\ ~Constructed
  BY InitIInv DEF SInit, Init, Constructed
<1>2. SessionTypes
  <2>1. /\ phase = "idle" /\ request = NULL /\ sent = 0 /\ got = << >> /\ log = << >>
        /\ suspect = FALSE /\ tainted = {} /\ late = {}
        /\ answer = [c \in Call |-> NULL]
    BY DEF SInit
  <2>2. answer \in [Call -> Message \cup {NULL}]
    BY <2>1
  <2>3. got \in Seq(Byte) /\ log \in Seq(Message) /\ sent \in 0..ReqLen
    BY <2>1, NoBytes, LengthAssumption
  <2> QED
    BY <2>1, <2>2, <2>3 DEF SessionTypes
<1>3. DOMAIN log = {} /\ MadeCalls = 0
  BY DEF SInit, MadeCalls
<1>4. InPhase /\ CleanBuffers /\ HeadIsNext
  BY <1>1 DEF SInit, InPhase, CleanBuffers, HeadIsNext
<1>5. AnswersOwnCall /\ NoFuture /\ HandledInOrder
  BY <1>3 DEF SInit, AnswersOwnCall, NoFuture, HandledInOrder
<1> QED
  BY <1>1, <1>2, <1>4, <1>5 DEF SessionInv

\* Steps that touch nothing but the result and the position.
LEMMA QuietStep ==
  ASSUME SessionInv, IInv',
         UNCHANGED <<wBuf, rBuf, delivered, session>>
  PROVE  SessionInv'
<1>1. SessionTypes' /\ AnswersOwnCall' /\ NoFuture' /\ HandledInOrder'
  BY DEF SessionInv, SessionTypes, AnswersOwnCall, NoFuture, HandledInOrder, session, MadeCalls
<1>2. InPhase' /\ CleanBuffers' /\ HeadIsNext'
  BY DEF SessionInv, InPhase, CleanBuffers, HeadIsNext, session, Constructed, HandlerHasRun,
         MadeCalls
<1> QED
  BY <1>1, <1>2 DEF SessionInv

LEMMA NewTransportStep ==
  ASSUME SessionInv, NEW s \in Service, NewTransport(s)
  PROVE  SessionInv'
<1>1. phase = "idle" /\ Construct(s) /\ suspect' = FALSE
      /\ UNCHANGED <<phase, request, sent, got, answer, log, tainted, late>>
  BY DEF NewTransport
<1>2. IInv'
  BY <1>1, ConstructStep DEF SessionInv
<1>3. wBuf' = << >>
  BY <1>1 DEF Construct
<1>4. SessionTypes' /\ AnswersOwnCall' /\ NoFuture' /\ HandledInOrder'
  BY <1>1 DEF SessionInv, SessionTypes, AnswersOwnCall, NoFuture, HandledInOrder, MadeCalls
<1>5. InPhase' /\ CleanBuffers' /\ HeadIsNext'
  BY <1>1, <1>3 DEF InPhase, CleanBuffers, HeadIsNext
<1> QED
  BY <1>2, <1>4, <1>5 DEF SessionInv

LEMMA BeginStep ==
  ASSUME SessionInv, NEW kind \in Made, Begin(kind)
  PROVE  SessionInv'
<1> DEFINE c == MadeCalls + 1
<1>1. /\ phase = "idle" /\ Constructed /\ MadeCalls < MaxCalls
      /\ request' = [call |-> c, kind |-> kind]
      /\ tainted' = IF suspect THEN tainted \cup {c} ELSE tainted
      /\ phase' = "sending" /\ sent' = 0 /\ got' = << >>
      /\ UNCHANGED <<vars, answer, log, suspect, late>>
  BY DEF Begin
<1>2. MadeCalls \in Nat
  BY CallsAreNumbers DEF SessionInv, SessionTypes, MadeCalls
<1>3. c \in Call /\ request' \in Message
  BY <1>1, <1>2, CallAssumption DEF Message
<1>4. request' # NULL /\ MadeCalls' = c /\ request'.call = c
  BY <1>1, <1>3, NullAssumption DEF MadeCalls
<1>5. IInv' /\ wBuf' = wBuf /\ rBuf' = rBuf
  BY <1>1 DEF SessionInv, IInv, TypeOK, ReadsArePrefix, vars
<1>6. SessionTypes'
  BY <1>1, <1>3, NoBytes, LengthAssumption DEF SessionInv, SessionTypes
<1>7. InPhase'
  BY <1>1, <1>4, <1>5 DEF InPhase, Constructed
<1>8. \A k \in DOMAIN log : log[k].call \in Nat /\ log[k].call <= MadeCalls
  BY CallsAreNumbers DEF SessionInv, SessionTypes, NoFuture
<1>9. c > MadeCalls /\ c \notin tainted
  BY <1>2, <1>3 DEF SessionInv, NoFuture
<1>10. NoFuture'
  <2>1. ASSUME NEW d \in Call, d > c
        PROVE  d \notin tainted'
    <3>1. d \in Nat /\ d # c /\ d > MadeCalls
      BY <1>2, <2>1, CallAssumption
    <3> QED
      BY <1>1, <3>1 DEF SessionInv, NoFuture
  <2> QED
    BY <1>1, <1>2, <1>4, <1>8, <2>1 DEF NoFuture
<1>11. CleanBuffers'
  <2>1. request'.call \in tainted' <=> suspect'
    BY <1>1, <1>4, <1>9
  <2>2. SubSeq(RequestBytes(request'), 1, 0) = << >>
    BY SubSeqEmpty
  <2>3. ~suspect => wBuf = << >>
    BY <1>1 DEF SessionInv, CleanBuffers
  <2> QED
    BY <1>1, <1>5, <2>1, <2>2, <2>3 DEF CleanBuffers
<1>12. HeadIsNext'
  <2>1. Constructed /\ wBuf # << >> => wBuf[1].msg.call \in Nat
    BY HeadType, CallsAreNumbers DEF SessionInv
  <2> QED
    BY <1>1, <1>2, <1>4, <1>5, <2>1 DEF SessionInv, HeadIsNext, Constructed
<1>13. AnswersOwnCall' /\ HandledInOrder'
  BY <1>1 DEF SessionInv, AnswersOwnCall, HandledInOrder
<1> QED
  BY <1>5, <1>6, <1>7, <1>10, <1>11, <1>12, <1>13 DEF SessionInv

LEMMA SendPieceStep ==
  ASSUME SessionInv, NEW n \in 1..ReqLen, SendPiece(n)
  PROVE  SessionInv'
<1> DEFINE R == RequestBytes(request)
           piece == SubSeq(R, sent + 1, sent + n)
<1>1. /\ phase = "sending" /\ sent + n <= ReqLen /\ Write(piece) /\ sent' = sent + n
      /\ UNCHANGED <<phase, request, got, answer, log, suspect, tainted, late>>
  BY DEF SendPiece
<1>2. request \in Message /\ sent \in 0..ReqLen /\ ReqLen \in Nat
  BY <1>1, LengthAssumption DEF SessionInv, SessionTypes, InPhase
<1>3. R \in Seq(Byte) /\ Len(R) = ReqLen
  BY <1>2, RequestBytesType
<1>4. piece \in Seq(Byte) /\ Len(piece) = n /\ piece[1].msg = request
  BY <1>1, <1>2, PieceType
<1>5. sent + 1 \in 1..(Len(R) + 1) /\ sent + n \in sent..Len(R) /\ sent \in 0..Len(R)
      /\ 1 \in 1..(Len(R) + 1)
  BY <1>1, <1>2, <1>3
<1>6. SubSeq(R, 1, sent) \o piece = SubSeq(R, 1, sent + n)
  <2> HIDE DEF R
  <2> QED
    BY <1>3, <1>5, ConcatAdjacentSubSeq
<1> HIDE DEF R, piece
<1>7. IInv'
  BY <1>1, <1>4, WriteStep DEF SessionInv
<1>8. /\ wBuf \in Seq(Byte) /\ wBuf # NULL /\ wBuf' = wBuf \o piece
      /\ UNCHANGED <<rBuf, delivered>>
  BY <1>1 DEF Write, Joined, SessionInv, IInv, TypeOK, Constructed
<1>9. /\ wBuf' \in Seq(Byte) /\ Len(wBuf') = Len(wBuf) + n /\ Len(wBuf) \in Nat
      /\ wBuf'[1] = IF wBuf = << >> THEN piece[1] ELSE wBuf[1]
  <2>1. /\ wBuf' \in Seq(Byte) /\ Len(wBuf') = Len(wBuf) + n
        /\ \A i \in 1..(Len(wBuf) + n) :
             wBuf'[i] = IF i <= Len(wBuf) THEN wBuf[i] ELSE piece[i - Len(wBuf)]
    BY <1>4, <1>8, ConcatProperties
  <2>2. Len(wBuf) \in Nat /\ (wBuf = << >> <=> Len(wBuf) = 0)
    BY <1>8
  <2>3. 1 \in 1..(Len(wBuf) + n)
    BY <1>2, <2>2
  <2>4. wBuf'[1] = IF 1 <= Len(wBuf) THEN wBuf[1] ELSE piece[1 - Len(wBuf)]
    BY <2>1, <2>3
  <2>5. CASE wBuf = << >>
    BY <2>1, <2>2, <2>4, <2>5
  <2>6. CASE wBuf # << >>
    BY <2>1, <2>2, <2>4, <2>6
  <2> QED
    BY <2>5, <2>6
<1>10. wBuf' # NULL
  BY <1>9, NullAssumption
<1>11. SessionTypes'
  BY <1>1, <1>2 DEF SessionInv, SessionTypes
<1>12. InPhase'
  BY <1>1, <1>10 DEF SessionInv, InPhase, Constructed
<1>13. CleanBuffers'
  <2>1. ~suspect => wBuf' = SubSeq(R, 1, sent + n)
    BY <1>1, <1>6, <1>8 DEF SessionInv, CleanBuffers, R
  <2> QED
    BY <1>1, <2>1 DEF SessionInv, CleanBuffers, R
<1>14. MadeCalls' = MadeCalls /\ MadeCalls = request.call /\ request.call \in Nat
  BY <1>1, <1>2, CallsAreNumbers DEF SessionInv, InPhase, MadeCalls
<1>15. HeadIsNext'
  <2>1. CASE wBuf = << >>
    <3>1. wBuf'[1].msg = request
      BY <1>4, <1>9, <2>1
    <3> QED
      BY <1>1, <1>14, <3>1 DEF SessionInv, NoFuture, HeadIsNext
  <2>2. CASE wBuf # << >>
    <3>1. wBuf'[1] = wBuf[1]
      BY <1>9, <2>2
    <3> QED
      BY <1>1, <1>8, <1>14, <2>2, <3>1 DEF SessionInv, HeadIsNext, Constructed
  <2> QED
    BY <2>1, <2>2
<1>16. AnswersOwnCall' /\ HandledInOrder' /\ NoFuture'
  BY <1>1, <1>14 DEF SessionInv, AnswersOwnCall, HandledInOrder, NoFuture
<1> QED
  BY <1>7, <1>11, <1>12, <1>13, <1>15, <1>16 DEF SessionInv

\* One more entry in the log.
LEMMA LogGrows ==
  ASSUME NEW old \in Seq(Message), NEW m \in Message, NEW new, new = old \o <<m>>
  PROVE  /\ new \in Seq(Message) /\ Len(old) \in Nat
         /\ DOMAIN old = 1..Len(old) /\ DOMAIN new = 1..(Len(old) + 1)
         /\ \A k \in DOMAIN old : new[k] = old[k]
         /\ new[Len(old) + 1] = m
<1>1. <<m>> \in Seq(Message) /\ Len(<<m>>) = 1 /\ <<m>>[1] = m
  OBVIOUS
<1>2. /\ new \in Seq(Message) /\ Len(new) = Len(old) + 1
      /\ \A i \in 1..(Len(old) + 1) :
           new[i] = IF i <= Len(old) THEN old[i] ELSE <<m>>[i - Len(old)]
  BY <1>1, ConcatProperties
<1>3. Len(old) \in Nat /\ DOMAIN old = 1..Len(old) /\ DOMAIN new = 1..Len(new)
  BY <1>2
<1>4. new[Len(old) + 1] = <<m>>[1]
  <2>1. Len(old) + 1 \in 1..(Len(old) + 1) /\ ~(Len(old) + 1 <= Len(old))
    BY <1>3
  <2>2. (Len(old) + 1) - Len(old) = 1
    BY <1>3
  <2> QED
    BY <1>2, <2>1, <2>2
<1>5. \A k \in 1..Len(old) : new[k] = old[k]
  BY <1>2, <1>3
<1> QED
  BY <1>1, <1>2, <1>3, <1>4, <1>5

LEMMA SendFlushStep ==
  ASSUME SessionInv, SendFlush
  PROVE  SessionInv'
<1> DEFINE m == wBuf[1].msg
           ran == result'.ran
<1>1. /\ phase = "sending" /\ sent = ReqLen /\ Flush
      /\ log' = log \o ran
      /\ phase' = IF result'.outcome = "ok" /\ request.kind # "oneway"
                  THEN "receiving" ELSE "idle"
      /\ suspect' = (result'.outcome # "ok")
      /\ late' = IF result'.outcome = "ok" THEN late
                 ELSE late \cup {ran[i].call : i \in DOMAIN ran}
      /\ UNCHANGED <<request, sent, got, answer, tainted>>
  BY DEF SendFlush
<1>2. /\ request \in Message /\ request # NULL /\ got = << >> /\ Constructed
      /\ log \in Seq(Message) /\ ReqLen \in Nat \ {0}
      /\ MadeCalls = request.call /\ MadeCalls' = MadeCalls /\ request.call \in Nat
  BY <1>1, CallsAreNumbers, LengthAssumption DEF SessionInv, SessionTypes, InPhase, MadeCalls
<1>3. /\ wBuf \in Seq(Byte) /\ ran \in Seq(Message)
      /\ \/ /\ result'.outcome = "ok"
            /\ Dispatches(wBuf) /\ m \in Message /\ ran = HandlerRuns(m)
            /\ rBuf' = ReplyBytes(m) /\ wBuf' = << >> /\ delivered' = << >>
         \/ /\ result'.outcome # "ok"
            /\ ran = << >> \/ (Dispatches(wBuf) /\ ran = <<m>>)
            /\ UNCHANGED <<fields, delivered>>
  BY <1>1, FlushOutcome DEF SessionInv
<1>4. IInv'
  BY <1>1, FlushStep DEF SessionInv
<1>5. ran = << >> \/ (Dispatches(wBuf) /\ ran = <<m>>)
  BY <1>3 DEF HandlerRuns
<1>6. result'.outcome # "ok" => wBuf' = wBuf
  BY <1>3 DEF fields
<1>7. Dispatches(wBuf) => wBuf # << >> /\ m \in Message /\ m.call \in Call /\ m.call \in Nat
  <2>1. Dispatches(wBuf) => wBuf # << >>
    BY <1>2, NoBytes DEF Dispatches, HasRequest
  <2> QED
    BY <1>2, <2>1, HeadType, CallsAreNumbers DEF SessionInv
<1>8. \A k \in DOMAIN log : log[k].call \in Nat /\ log[k].call < request.call
  BY <1>1, <1>2, CallsAreNumbers DEF SessionInv, NoFuture
<1>9. Dispatches(wBuf) =>
        /\ m.call <= MadeCalls
        /\ \A k \in DOMAIN log : log[k].call < m.call \/ (log[k] = m /\ log[k].call \in late)
  BY <1>2, <1>7 DEF SessionInv, HeadIsNext
<1>10. late \subseteq late' /\ late \subseteq Call
  BY <1>1 DEF SessionInv, SessionTypes
<1>11. request.call \notin tainted => wBuf = RequestBytes(request)
  <2>1. RequestBytes(request) \in Seq(Byte) /\ Len(RequestBytes(request)) = ReqLen
    BY <1>2, RequestBytesType
  <2>2. SubSeq(RequestBytes(request), 1, ReqLen) = RequestBytes(request)
    BY <2>1, SubSeqFull
  <2> QED
    BY <1>1, <2>2 DEF SessionInv, CleanBuffers
<1>12. request.call \notin tainted => m = request
  BY <1>2, <1>11, RequestBytesType
<1> HIDE DEF m, ran
<1>13. CASE ran = << >>
  <2>1. log' = log
    BY <1>1, <1>2, <1>13, ConcatEmptySeq
  <2>2. late' = late
    <3>1. DOMAIN ran = {}
      BY <1>13
    <3> QED
      BY <1>1, <3>1
  <2>3. SessionTypes'
    BY <1>1, <2>1, <2>2 DEF SessionInv, SessionTypes
  <2>4. InPhase'
    BY <1>1, <1>2, <1>3, NoBytes, NullAssumption DEF InPhase, Constructed
  <2>5. CleanBuffers'
    <3>1. phase' = "receiving" /\ request.call \notin tainted =>
            rBuf' = ReplyBytes(request) /\ request.kind = "unknown"
      BY <1>1, <1>3, <1>12, <1>13 DEF HandlerRuns
    <3> QED
      BY <1>1, <1>3, <3>1 DEF CleanBuffers, HandlerHasRun
  <2>6. NoFuture'
    BY <1>1, <1>2, <2>1 DEF SessionInv, NoFuture
  <2>7. HeadIsNext'
    BY <1>2, <1>3, <1>6, <2>1, <2>2 DEF SessionInv, HeadIsNext
  <2>8. AnswersOwnCall' /\ HandledInOrder'
    BY <1>1, <2>1, <2>2 DEF SessionInv, AnswersOwnCall, HandledInOrder
  <2> QED
    BY <1>4, <2>3, <2>4, <2>5, <2>6, <2>7, <2>8 DEF SessionInv
<1>14. CASE Dispatches(wBuf) /\ ran = <<m>>
  <2>1. /\ log' \in Seq(Message) /\ Len(log) \in Nat
        /\ DOMAIN log = 1..Len(log) /\ DOMAIN log' = 1..(Len(log) + 1)
        /\ \A k \in DOMAIN log : log'[k] = log[k]
        /\ log'[Len(log) + 1] = m
    BY <1>1, <1>2, <1>7, <1>14, LogGrows
  <2>2. late' \subseteq Call /\ (result'.outcome # "ok" => m.call \in late')
    <3>1. DOMAIN ran = {1} /\ ran[1] = m
      BY <1>14
    <3>2. {ran[i].call : i \in DOMAIN ran} = {m.call}
      BY <3>1
    <3> QED
      BY <1>1, <1>7, <1>10, <1>14, <3>2
  <2>3. SessionTypes'
    BY <1>1, <2>1, <2>2 DEF SessionInv, SessionTypes
  <2>4. InPhase'
    BY <1>1, <1>2, <1>3, NoBytes, NullAssumption DEF InPhase, Constructed
  <2>5. CleanBuffers'
    <3>1. phase' = "receiving" /\ request.call \notin tainted =>
            rBuf' = ReplyBytes(request) /\ log'[Len(log) + 1] = request
      BY <1>1, <1>3, <1>12, <2>1
    <3>2. Len(log) + 1 \in DOMAIN log'
      BY <2>1
    <3> QED
      BY <1>1, <1>3, <3>1, <3>2 DEF CleanBuffers, HandlerHasRun
  <2>6. \A k \in DOMAIN log' : \/ k \in DOMAIN log /\ log'[k] = log[k]
                               \/ k = Len(log) + 1 /\ log'[k] = m
    BY <2>1
  <2>7. NoFuture'
    <3>1. \A k \in DOMAIN log' : log'[k].call <= MadeCalls
      BY <1>8, <1>2, <1>9, <1>14, <2>6
    <3> QED
      BY <1>1, <1>2, <3>1 DEF SessionInv, NoFuture
  <2>8. HeadIsNext'
    <3>1. CASE result'.outcome = "ok"
      BY <1>3, <3>1 DEF HeadIsNext
    <3>2. CASE result'.outcome # "ok"
      <4>1. wBuf' = wBuf /\ wBuf'[1].msg = m
        BY <1>6, <3>2 DEF m
      <4>2. \A k \in DOMAIN log' : \/ log'[k].call < m.call
                                   \/ log'[k] = m /\ log'[k].call \in late'
        BY <1>9, <1>10, <1>14, <2>2, <2>6, <3>2
      <4> QED
        BY <1>2, <1>9, <1>14, <4>1, <4>2 DEF HeadIsNext
    <3> QED
      BY <3>1, <3>2
  <2>9. AnswersOwnCall'
    <3>1. \A x : (\E i \in DOMAIN log : log[i] = x) => \E i \in DOMAIN log' : log'[i] = x
      BY <2>1
    <3> QED
      BY <1>1, <3>1 DEF SessionInv, AnswersOwnCall
  <2>10. HandledInOrder'
    <3> SUFFICES ASSUME NEW i \in DOMAIN log', NEW j \in DOMAIN log', i < j
                 PROVE  \/ log'[i].call < log'[j].call
                        \/ log'[i] = log'[j] /\ log'[i].call \in late'
      BY DEF HandledInOrder
    <3>1. i \in DOMAIN log /\ log'[i] = log[i]
      BY <2>1
    <3>2. CASE j \in DOMAIN log
      BY <1>10, <2>1, <3>1, <3>2 DEF SessionInv, HandledInOrder
    <3>3. CASE j = Len(log) + 1
      BY <1>9, <1>10, <1>14, <2>1, <3>1, <3>3
    <3> QED
      BY <2>6, <3>2, <3>3
  <2> QED
    BY <1>4, <2>3, <2>4, <2>5, <2>7, <2>8, <2>9, <2>10 DEF SessionInv
<1> QED
  BY <1>5, <1>13, <1>14

\* Whoever has read as many bytes as a reply has, has read that reply.
LEMMA WholeReply ==
  ASSUME NEW m \in Message, m.kind # "oneway", NEW k \in 0..Len(ReplyBytes(m)),
         Len(SubSeq(ReplyBytes(m), 1, k)) >= RepLen
  PROVE  SubSeq(ReplyBytes(m), 1, k) = ReplyBytes(m) /\ ReplyBytes(m)[1].msg = m
<1> DEFINE R == ReplyBytes(m)
<1>1. R = [i \in 1..RepLen |-> [msg |-> m, part |-> i]] /\ RepLen \in Nat \ {0}
  BY LengthAssumption DEF ReplyBytes
<1>2. R \in Seq(Byte) /\ R[1].msg = m
  BY <1>1, ReplyBytesType
<1>3. Len(R) = RepLen
  BY <1>1, <1>2
<1> HIDE DEF R
<1>4. 1 \in 1..(Len(R) + 1) /\ k \in (1 - 1)..Len(R)
  BY <1>1, <1>3 DEF R
<1>5. Len(SubSeq(R, 1, k)) = k - 1 + 1
  BY <1>2, <1>4, SliceProperties
<1>6. k = Len(R)
  BY <1>1, <1>3, <1>4, <1>5 DEF R
<1>7. SubSeq(R, 1, k) = R
  BY <1>2, <1>6, SubSeqFull
<1> QED
  BY <1>2, <1>7 DEF R

LEMMA ReceiveStep ==
  ASSUME SessionInv, NEW n \in ReadSize, Receive(n)
  PROVE  SessionInv'
<1>1. /\ phase = "receiving" /\ Read(n) /\ got' = got \o result'.data
      /\ UNCHANGED <<request, sent, log, suspect, tainted, late>>
      /\ \/ Len(got') < RepLen /\ UNCHANGED <<phase, answer>>
         \/ /\ ~(Len(got') < RepLen) /\ phase' = "idle"
            /\ answer' = [answer EXCEPT ![request.call] =
                 IF got' = ReplyBytes(got'[1].msg) THEN got'[1].msg ELSE NULL]
  BY DEF Receive
<1>2. /\ request \in Message /\ request.call \in Call /\ got = delivered /\ wBuf = << >>
      /\ request.kind # "oneway" /\ ~suspect /\ Constructed /\ request # NULL
  BY <1>1, CallsAreNumbers DEF SessionInv, SessionTypes, InPhase
<1>3. n \in Long
  BY ReadSizeAssumption, WidthAssumption DEF Long
<1>4. IInv'
  BY <1>1, <1>3, ReadStep DEF SessionInv
<1>5. /\ rBuf # NULL /\ rBuf' = rBuf /\ wBuf' = wBuf /\ delivered' = delivered \o result'.data
  BY <1>1 DEF Read, Returned
<1>6. got' = delivered' /\ got' \in Seq(Byte)
  BY <1>1, <1>2, <1>4, <1>5 DEF IInv, TypeOK
<1>7. rBufPos' \in 0..Len(rBuf) /\ got' = SubSeq(rBuf, 1, rBufPos')
  BY <1>4, <1>5, <1>6 DEF IInv, ReadsArePrefix
<1>8. InPhase'
  BY <1>1, <1>2, <1>5, <1>6 DEF InPhase, Constructed
<1>9. CleanBuffers'
  BY <1>1, <1>2, <1>5 DEF SessionInv, CleanBuffers, HandlerHasRun
<1>10. NoFuture' /\ HandledInOrder'
  BY <1>1 DEF SessionInv, NoFuture, HandledInOrder, MadeCalls
<1>11. HeadIsNext'
  BY <1>2, <1>5 DEF HeadIsNext
<1>12. CASE Len(got') < RepLen /\ UNCHANGED <<phase, answer>>
  <2>1. SessionTypes'
    BY <1>1, <1>6, <1>12 DEF SessionInv, SessionTypes
  <2>2. AnswersOwnCall'
    BY <1>1, <1>12 DEF SessionInv, AnswersOwnCall
  <2> QED
    BY <1>4, <1>8, <1>9, <1>10, <1>11, <2>1, <2>2 DEF SessionInv
<1>13. CASE /\ ~(Len(got') < RepLen) /\ phase' = "idle"
            /\ answer' = [answer EXCEPT ![request.call] =
                 IF got' = ReplyBytes(got'[1].msg) THEN got'[1].msg ELSE NULL]
  <2> DEFINE a == IF got' = ReplyBytes(got'[1].msg) THEN got'[1].msg ELSE NULL
  <2>1. Len(got') >= RepLen /\ RepLen \in Nat \ {0} /\ Len(got') \in Nat
    BY <1>6, <1>13, LengthAssumption
  <2>2. got'[1] \in Byte
    <3>1. 1 \in 1..Len(got')
      BY <2>1
    <3> QED
      BY <1>6, <3>1
  <2>3. a \in Message \cup {NULL}
    BY <2>2 DEF Byte
  <2>4. request.call \notin tainted => a = request /\ HandlerHasRun(request)
    <3> SUFFICES ASSUME request.call \notin tainted
                 PROVE  a = request /\ HandlerHasRun(request)
      OBVIOUS
    <3>1. rBuf = ReplyBytes(request) /\ HandlerHasRun(request)
      BY <1>1 DEF SessionInv, CleanBuffers
    <3>2. got' = ReplyBytes(request) /\ ReplyBytes(request)[1].msg = request
      BY <1>2, <1>7, <2>1, <3>1, WholeReply
    <3> QED
      BY <3>1, <3>2
  <2> HIDE DEF a
  <2>5. answer' = [answer EXCEPT ![request.call] = a]
    BY <1>13 DEF a
  <2>6. answer \in [Call -> Message \cup {NULL}]
    BY DEF SessionInv, SessionTypes
  <2>7. \A c \in Call : answer'[c] = IF c = request.call THEN a ELSE answer[c]
    BY <2>5, <2>6
  <2>8. SessionTypes'
    <3>1. answer' \in [Call -> Message \cup {NULL}]
      BY <2>3, <2>5, <2>6
    <3> QED
      BY <1>1, <1>6, <1>13, <3>1 DEF SessionInv, SessionTypes
  <2>9. AnswersOwnCall'
    <3> SUFFICES ASSUME NEW c \in Call, c \notin tainted, answer'[c] # NULL
                 PROVE  /\ answer'[c].call = c
                        /\ answer'[c].kind = "unknown" \/ \E i \in DOMAIN log : log[i] = answer'[c]
      BY <1>1 DEF AnswersOwnCall
    <3>1. CASE c = request.call
      BY <2>4, <2>7, <3>1 DEF HandlerHasRun
    <3>2. CASE c # request.call
      BY <2>7, <3>2 DEF SessionInv, AnswersOwnCall
    <3> QED
      BY <3>1, <3>2
  <2> QED
    BY <1>4, <1>8, <1>9, <1>10, <1>11, <2>8, <2>9 DEF SessionInv
<1> QED
  BY <1>1, <1>12, <1>13

\* A call ends with nothing returned: an exception, or the script drops it.
LEMMA EndOfCallStep ==
  ASSUME SessionInv, IInv', UNCHANGED <<wBuf, rBuf, delivered>>,
         phase # "idle", phase' = "idle",
         suspect' = (suspect \/ (phase = "sending" /\ sent > 0)),
         UNCHANGED <<request, sent, got, answer, log, tainted, late>>
  PROVE  SessionInv'
<1>1. SessionTypes' /\ InPhase'
  BY DEF SessionInv, SessionTypes, InPhase
<1>2. ~suspect' => wBuf = << >>
  <2>1. phase = "sending" /\ ~suspect' => sent = 0 /\ ~suspect
    <3>1. sent \in 0..ReqLen /\ ReqLen \in Nat
      BY LengthAssumption DEF SessionInv, SessionTypes
    <3>2. ~(sent > 0) => sent = 0
      BY <3>1
    <3>3. phase = "sending" /\ ~suspect' => ~(sent > 0) /\ ~suspect
      BY Zenon
    <3> QED
      BY <3>2, <3>3, Zenon
  <2>2. SubSeq(RequestBytes(request), 1, 0) = << >>
    BY SubSeqEmpty
  <2>3. phase = "sending" \/ phase = "receiving"
    BY DEF SessionInv, SessionTypes
  <2> QED
    BY <2>1, <2>2, <2>3 DEF SessionInv, CleanBuffers, InPhase
<1>3. CleanBuffers'
  BY <1>2 DEF CleanBuffers
<1>4. AnswersOwnCall' /\ NoFuture' /\ HeadIsNext' /\ HandledInOrder'
  BY DEF SessionInv, AnswersOwnCall, NoFuture, HeadIsNext, HandledInOrder, MadeCalls, Constructed
<1> QED
  BY <1>1, <1>3, <1>4 DEF SessionInv

-----------------------------------------------------------------------------
\* Every step.

LEMMA SessionStep == SessionInv /\ [SNext]_allVars => SessionInv'
<1> SUFFICES ASSUME SessionInv, [SNext]_allVars PROVE SessionInv'
  OBVIOUS
<1>1. CASE \E s \in Service : NewTransport(s)
  BY <1>1, NewTransportStep
<1>2. CASE \E method \in {"isOpen", "open", "close"} : Reopen(method)
  <2>1. PICK method \in {"isOpen", "open", "close"} : Reopen(method)
    BY <1>2
  <2>2. UNCHANGED <<fields, crashed, flushed, delivered, session>>
        /\ result' = Returned(method, << >>, << >>)
    BY <2>1 DEF Reopen, NoOp
  <2>3. result' \in Result
    BY <2>2, EmptyReturnType DEF Method
  <2>4. crashed' \in BOOLEAN
    BY <2>2 DEF SessionInv, IInv, TypeOK
  <2>5. IInv'
    BY <2>2, <2>3, <2>4, NoFieldStep DEF SessionInv
  <2> QED
    BY <2>2, <2>5, QuietStep DEF fields
<1>3. CASE \E kind \in Made : Begin(kind)
  BY <1>3, BeginStep
<1>4. CASE \E n \in 1..ReqLen : SendPiece(n)
  BY <1>4, SendPieceStep
<1>5. CASE SendFlush
  BY <1>5, SendFlushStep
<1>6. CASE \E n \in ReadSize : Receive(n)
  BY <1>6, ReceiveStep
<1>7. CASE \E n \in ReadSize : ReceiveFails(n)
  <2>1. PICK n \in ReadSize : ReceiveFails(n)
    BY <1>7
  <2>2. /\ phase = "receiving" /\ phase' = "idle"
        /\ result' = Threw("read", "cannot read", << >>)
        /\ UNCHANGED <<fields, crashed, flushed, delivered>>
        /\ UNCHANGED <<request, sent, got, answer, log, suspect, tainted, late>>
    BY <2>1 DEF ReceiveFails, ReadExhausted
  <2>3. result' \in Result
    BY <2>2, ThrewType, NoBytes DEF Method
  <2>4. crashed' \in BOOLEAN /\ suspect \in BOOLEAN
    BY <2>2 DEF SessionInv, IInv, TypeOK, SessionTypes
  <2>5. IInv'
    BY <2>2, <2>3, <2>4, NoFieldStep DEF SessionInv
  <2>6. suspect' = (suspect \/ (phase = "sending" /\ sent > 0))
    BY <2>2, <2>4
  <2> QED
    BY <2>2, <2>5, <2>6, EndOfCallStep DEF fields
<1>8. CASE Drop
  <2>1. IInv' /\ UNCHANGED <<wBuf, rBuf, delivered>>
    BY <1>8 DEF Drop, SessionInv, IInv, TypeOK, ReadsArePrefix, vars
  <2> QED
    BY <1>8, <2>1, EndOfCallStep DEF Drop
<1>9. CASE UNCHANGED allVars
  <2>1. IInv' /\ UNCHANGED <<wBuf, rBuf, delivered, session>>
    BY <1>9 DEF allVars, SessionInv, IInv, TypeOK, ReadsArePrefix, vars
  <2> QED
    BY <2>1, QuietStep
<1> QED
  BY <1>1, <1>2, <1>3, <1>4, <1>5, <1>6, <1>7, <1>8, <1>9 DEF SNext, Proceed

LEMMA SessionInvariant == SSpec => []SessionInv
<1> QED
  BY SessionInit, SessionStep, PTL DEF SSpec

\* The state of the client and of its transport keeps its types in every
\* session: among them, that the bytes read are bytes of replies and that the
\* position survives the conversions between zend_long and size_t.
THEOREM SessionTypeCorrect == SSpec => []STypeOK
<1>1. SessionInv => STypeOK
  BY DEF SessionInv, SessionTypes, IInv, STypeOK
<1> QED
  BY <1>1, SessionInvariant, PTL

\* However a request is cut into writes and a reply into reads, and whatever
\* calls before it were dropped while their replies were read, a call that
\* returns has the answer to itself; a failed flush or a request left half
\* way taints the calls that follow until a flush succeeds.
THEOREM CallsGetOwnAnswers == SSpec => []AnswersOwnCall
<1>1. SessionInv => AnswersOwnCall
  BY DEF SessionInv
<1> QED
  BY <1>1, SessionInvariant, PTL

\* Handlers run in the order of the calls, and a request runs a second time
\* only when the flush that ran it failed and left it in the write buffer.
THEOREM CallsHandledInOrder == SSpec => []HandledInOrder
<1>1. SessionInv => HandledInOrder
  BY DEF SessionInv
<1> QED
  BY <1>1, SessionInvariant, PTL
=============================================================================
