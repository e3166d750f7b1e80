--------------------------- MODULE PipedTransport ---------------------------
(***************************************************************************)
(* A server that looks at each request before it serves it: a              *)
(* TPipedTransport for every connection (TTransportUtils.h and .cpp) copies*)
(* the requests into one memory buffer, out of which the actual processor  *)
(* reads them again (PeekProcessor.cpp).  One thread serves the            *)
(* connections, a request at a time.                                       *)
(***************************************************************************)
EXTENDS Integers, SequencesExt

CONSTANTS
  Source,         \* connections
  RequestLengths, \* the bytes of a client's first request, its second, ...
  FirstBufSize    \* bytes of a new buffer

VARIABLES
  pipeOnWrite_,
  arriving,       \* per connection: bytes that have been sent and not read
  arrived,        \* per connection: requests the client has sent
  begun,          \* per connection: requests the server has begun to read
  rBuf_, rPos_, rBufSize_,  \* rBuf_: its first rLen_ bytes
  wBuf_,          \* its first wLen_ bytes
  serving,        \* the connection whose request is being read or processed
  wantsBytes,     \* what is left to read of it, and of the read() under way
  stage,          \* what PeekProcessor::process is at
  memoryBuffer_,  \* what is left to read in it
  processed,      \* the request the actual processor has read
  returned,       \* per connection: what has been written to it
  srcClosed,      \* connections that have been closed
  spilt,          \* history: the actual processor has thrown
  overlapped      \* history: readEnd has copied between regions that overlap

pipedVars == <<pipeOnWrite_, arriving, arrived, begun, rBuf_, rPos_, rBufSize_, wBuf_, serving,
               wantsBytes, stage, memoryBuffer_, processed, returned, srcClosed, spilt, overlapped>>
clientVars == <<arriving, arrived>>

Request(c, m) == [i \in 1..RequestLengths[m] |-> <<c, m, i>>]
Reply(c, m) == << <<"reply", c, m>> >>
Least(a, b) == IF a < b THEN a ELSE b
Nobody == "nobody"

PipedInit ==
  /\ pipeOnWrite_ \in BOOLEAN
  /\ arriving = [c \in Source |-> << >>] /\ arrived = [c \in Source |-> 0]
  /\ begun = [c \in Source |-> 0]
  /\ rBuf_ = [c \in Source |-> << >>] /\ rPos_ = [c \in Source |-> 0]
  /\ rBufSize_ = [c \in Source |-> FirstBufSize] /\ wBuf_ = [c \in Source |-> << >>]
  /\ serving = Nobody /\ wantsBytes = 0 /\ stage = "idle" /\ memoryBuffer_ = << >>
  /\ processed = << >> /\ returned = [c \in Source |-> << >>] /\ srcClosed = {}
  /\ spilt = FALSE /\ overlapped = FALSE

\* A client sends a request, perhaps before it has the last reply.
ClientSends(c) ==
  /\ arrived[c] < Len(RequestLengths)
  /\ arrived' = [arrived EXCEPT ![c] = @ + 1]
  /\ arriving' = [arriving EXCEPT ![c] = @ \o Request(c, arrived[c] + 1)]
  /\ UNCHANGED <<pipeOnWrite_, begun, rBuf_, rPos_, rBufSize_, wBuf_, serving, wantsBytes, stage,
                 memoryBuffer_, processed, returned, srcClosed, spilt, overlapped>>

-----------------------------------------------------------------------------
\* What is read ahead of what has been handed over.
Ahead(c) == Len(rBuf_[c]) - rPos_[c]

\* The buffer is doubled when it is full, then srcTrans_->read adds what there is to it.
Fill(c, size) ==
  /\ rBufSize_' = [rBufSize_ EXCEPT ![c] = size]
  /\ \E n \in 1 .. Least(size - Len(rBuf_[c]), Len(arriving[c])) :
       /\ rBuf_' = [rBuf_ EXCEPT ![c] = @ \o SubSeq(arriving[c], 1, n)]
       /\ arriving' = [arriving EXCEPT ![c] = SubSeq(@, n + 1, Len(@))]

Grown(c) == IF Len(rBuf_[c]) = rBufSize_[c] THEN 2 * rBufSize_[c] ELSE rBufSize_[c]

\* peek(): it waits for the next request of a connection.
Peek(c) ==
  /\ serving = Nobody /\ c \notin srcClosed /\ begun[c] < Len(RequestLengths)
  /\ IF Ahead(c) > 0 THEN UNCHANGED <<rBuf_, rBufSize_, arriving>> ELSE Fill(c, Grown(c))
  /\ serving' = c /\ begun' = [begun EXCEPT ![c] = @ + 1]
  /\ wantsBytes' = RequestLengths[begun[c] + 1] /\ stage' = "reads"
  /\ UNCHANGED <<pipeOnWrite_, arrived, rPos_, wBuf_, memoryBuffer_, processed, returned, srcClosed,
                 spilt, overlapped>>

\* read(): what is in the buffer, and if that is not enough, what one more read of the source adds.
\* The protocol calls it until it has the request.
Read ==
  /\ stage = "reads" /\ wantsBytes > 0
  /\ LET c == serving
     IN \E need \in 1..wantsBytes :
          /\ IF Ahead(c) >= need THEN UNCHANGED <<rBuf_, rBufSize_, arriving>> ELSE Fill(c, Grown(c))
          /\ LET give == Least(need, Len(rBuf_'[c]) - rPos_[c])
             IN /\ rPos_' = [rPos_ EXCEPT ![c] = @ + give]
                /\ wantsBytes' = wantsBytes - give
  /\ UNCHANGED <<pipeOnWrite_, arrived, begun, wBuf_, serving, stage, memoryBuffer_, processed, returned,
                 srcClosed, spilt, overlapped>>

\* The end of the stream, a message of another type, or an error: the server closes the connection.
ReadThrows ==
  /\ stage = "reads"
  /\ srcClosed' = srcClosed \cup {serving} /\ serving' = Nobody /\ stage' = "idle" /\ wantsBytes' = 0
  /\ UNCHANGED <<pipeOnWrite_, clientVars, begun, rBuf_, rPos_, rBufSize_, wBuf_, memoryBuffer_,
                 processed, returned, spilt, overlapped>>

\* Faulty variant: the read-ahead data are dropped.
AheadDropped(c) == {<< >>}

\* The read-ahead data are copied down with memcpy, which promises nothing when the regions overlap.
CopiedDown(c) ==
  LET rest == SubSeq(rBuf_[c], rPos_[c] + 1, Len(rBuf_[c]))
      fromTheEnd == [i \in DOMAIN rest |-> rest[i + ((Len(rest) - i) \div rPos_[c]) * rPos_[c]]]
  IN {rest} \cup IF Ahead(c) > rPos_[c] THEN {fromTheEnd} ELSE {}

\* readEnd(): what has been handed over goes to the memory buffer.
ReadEnd ==
  /\ stage = "reads" /\ wantsBytes = 0
  /\ memoryBuffer_' = memoryBuffer_ \o SubSeq(rBuf_[serving], 1, rPos_[serving])
  /\ \E rest \in CopiedDown(serving) : rBuf_' = [rBuf_ EXCEPT ![serving] = rest]
  /\ rPos_' = [rPos_ EXCEPT ![serving] = 0]
  /\ overlapped' = (overlapped \/ Ahead(serving) > rPos_[serving])
  /\ stage' = "peeks"
  /\ UNCHANGED <<pipeOnWrite_, clientVars, begun, rBufSize_, wBuf_, serving, wantsBytes, processed,
                 returned, srcClosed, spilt>>

\* The actual processor reads the request; how far it comes in what is not one is open.
ActualProcessorReads ==
  /\ stage = "peeks"
  /\ processed' = memoryBuffer_ /\ memoryBuffer_' = << >> /\ stage' = "replies"
  /\ UNCHANGED <<pipeOnWrite_, clientVars, begun, rBuf_, rPos_, rBufSize_, wBuf_, serving, wantsBytes,
                 returned, srcClosed, spilt, overlapped>>

\* It throws, here or in the handler: the buffer is not reset.
ActualProcessorThrows ==
  /\ stage = "peeks"
  /\ \E n \in 0..Len(memoryBuffer_) : memoryBuffer_' = SubSeq(memoryBuffer_, n + 1, Len(memoryBuffer_))
  /\ spilt' = TRUE
  /\ srcClosed' = srcClosed \cup {serving} /\ serving' = Nobody /\ stage' = "idle"
  /\ UNCHANGED <<pipeOnWrite_, clientVars, begun, rBuf_, rPos_, rBufSize_, wBuf_, wantsBytes, processed,
                 returned, overlapped>>

\* write() and writeEnd(), which can copy the reply, too.
WriteReply ==
  /\ stage = "replies"
  /\ wBuf_' = [wBuf_ EXCEPT ![serving] = @ \o Reply(serving, begun[serving])]
  /\ memoryBuffer_' = (IF pipeOnWrite_ THEN memoryBuffer_ \o wBuf_'[serving] ELSE memoryBuffer_)
  /\ stage' = "flushes"
  /\ UNCHANGED <<pipeOnWrite_, clientVars, begun, rBuf_, rPos_, rBufSize_, serving, wantsBytes, processed,
                 returned, srcClosed, spilt, overlapped>>

\* Faulty variant: the copy of the reply stays.
NotReset == memoryBuffer_

ResetBuffer == << >>

\* flush(), and back in process() resetBuffer().
FlushReply ==
  /\ stage = "flushes"
  /\ returned' = [returned EXCEPT ![serving] = @ \o wBuf_[serving]]
  /\ wBuf_' = [wBuf_ EXCEPT ![serving] = << >>]
  /\ memoryBuffer_' = ResetBuffer
  /\ serving' = Nobody /\ stage' = "idle" /\ processed' = << >>
  /\ UNCHANGED <<pipeOnWrite_, clientVars, begun, rBuf_, rPos_, rBufSize_, wantsBytes, srcClosed, spilt,
                 overlapped>>

PipedNext ==
  \/ \E c \in Source : ClientSends(c) \/ Peek(c)
  \/ Read \/ ReadThrows \/ ReadEnd \/ ActualProcessorReads \/ ActualProcessorThrows
  \/ WriteReply \/ FlushReply

-----------------------------------------------------------------------------
\* The types.
PipedTypeOK ==
  /\ serving \in Source \cup {Nobody} /\ stage \in {"idle", "reads", "peeks", "replies", "flushes"}
  /\ \A c \in Source : rPos_[c] \in 0..Len(rBuf_[c]) /\ Len(rBuf_[c]) <= rBufSize_[c]
  /\ srcClosed \subseteq Source /\ wantsBytes \in Nat

\* As long as the actual processor has thrown nothing and no more than a request
\* was read ahead of one, it reads exactly the request that was peeked at; no
\* byte of the next ones is lost meanwhile; and each client gets one reply to
\* each request, in order.
PipedOnce ==
  ~spilt /\ ~overlapped =>
    /\ stage = "replies" => processed = Request(serving, begun[serving])
    /\ stage = "idle" => memoryBuffer_ = << >>
    /\ \A c \in Source \ (srcClosed \cup {serving}) :
         rBuf_[c] \o arriving[c] =
           FlattenSeq([k \in 1 .. arrived[c] - begun[c] |-> Request(c, begun[c] + k)])
    /\ \A c \in Source :
         returned[c] = [m \in 1..Len(returned[c]) |-> <<"reply", c, m>>]
=============================================================================
