-------------------------- MODULE ConnectionBuffers --------------------------
(***************************************************************************)
(* The buffers of a TNonblockingServer::TConnection: how workSocket() and  *)
(* transition() take frames from a socket that gives and takes a few bytes *)
(* at a time, hand them to the processor and send its replies, in memory   *)
(* that goes from one client to the next.  Threads, events and the pool of *)
(* objects are in NonblockingServer; here is one object and its clients.   *)
(*                                                                         *)
(* A uint32_t is four digits to base two, least significant first in the   *)
(* memory of the host and last on the wire, so that it wraps at sixteen.   *)
(***************************************************************************)
EXTENDS Integers, SequencesExt, FiniteSetsExt

CONSTANTS
  Clients,          \* bound: how many connect, one after the other
  MaxRequestFrames, \* bound: the frames a client sends
  MaxReply,         \* bound: the bytes of a reply
  MaxFrameSize,     \* maxFrameSize_
  WriteDefault,     \* writeBufferDefaultSize_
  IdleReadLimit, IdleWriteLimit,   \* idleReadBufferLimit_, idleWriteBufferLimit_
  ResizeEveryN      \* resizeBufferEveryN_

Word == 16          \* 2^32

\* Doubling a size that is too small does not wrap.
ConnectionAssumption ==
  /\ {Clients, MaxRequestFrames, MaxReply, MaxFrameSize} \subseteq Nat
  /\ {WriteDefault, IdleReadLimit, IdleWriteLimit, ResizeEveryN} \subseteq Nat
  /\ 2 * (MaxFrameSize + 4) <= Word

VARIABLES
  headerTransport,  \* getHeaderTransport(): frames keep their size
  client,           \* who is connected, or was last
  connected,
  inbound,          \* bytes on their way from the client
  frames,           \* the sizes of the frames it has sent
  socketState_, appState_,
  readWant_, readBufferPos_,
  readBuffer_,      \* as many cells as readBufferSize_
  input,            \* what inputTransport_ has for the processor
  output,           \* what is in outputTransport_
  capacity,         \* the memory outputTransport_ has
  writeBufferSize_, writeBufferPos_, largestWriteBufferSize_, callsForResize_,
  received,         \* what has come back to the client
  answered,         \* history: the replies to it, as they should come
  cutReply          \* history: a connection was closed while it sent a reply

reading == <<readWant_, readBufferPos_, readBuffer_>>
writing == <<output, capacity, writeBufferSize_, writeBufferPos_, largestWriteBufferSize_,
             callsForResize_>>
connectionVars == <<headerTransport, client, connected, inbound, frames, socketState_, appState_,
                    reading, input, writing, received, answered, cutReply>>

\* A byte is a tuple: a digit, or the k-th byte of a client's n-th frame or of the reply to it.
Blank == << >>
Network(n) == [k \in 1..4 |-> <<(n \div 2^(4 - k)) % 2>>]
ntohl(b) == 8 * b[1][1] + 4 * b[2][1] + 2 * b[3][1] + b[4][1]
Bytes(c, n, size) == [k \in 1..size |-> <<c, n, k>>]
Put(memory, pos, bytes) ==
  [k \in DOMAIN memory |-> IF k \in pos + 1 .. pos + Len(bytes) THEN bytes[k - pos] ELSE memory[k]]

\* What a frame is when it reaches the processor, and a reply when it reaches the client.
FrameOf(c, n, size) == (IF headerTransport THEN Network(size) ELSE << >>) \o Bytes(c, n, size)
ReplyTo(c, n, size) == IF size = 0 THEN << >> ELSE Network(size) \o Bytes(c, -n, size)

\* How many requests the processor has had.
Taken == Len(answered)

ConnectionInit ==
  /\ headerTransport \in BOOLEAN
  /\ client = 0 /\ connected = FALSE /\ inbound = << >> /\ frames = << >>
  /\ socketState_ = "RECV_FRAMING" /\ appState_ = "INIT"
  /\ readWant_ = 0 /\ readBufferPos_ = 0 /\ readBuffer_ = << >> /\ input = << >>
  /\ output = << >> /\ capacity = WriteDefault
  /\ writeBufferSize_ = 0 /\ writeBufferPos_ = 0 /\ largestWriteBufferSize_ = 0
  /\ callsForResize_ = 0
  /\ received = << >> /\ answered = << >> /\ cutReply = FALSE

\* The object for the next client: init() and the first transition().
Connect ==
  /\ ~connected /\ client < Clients
  /\ client' = client + 1 /\ connected' = TRUE
  /\ inbound' = << >> /\ frames' = << >> /\ received' = << >> /\ answered' = << >>
  /\ socketState_' = "RECV_FRAMING" /\ appState_' = "READ_FRAME_SIZE"
  /\ readWant_' = 0 /\ readBufferPos_' = 0
  /\ writeBufferSize_' = 0 /\ writeBufferPos_' = 0 /\ largestWriteBufferSize_' = 0
  /\ callsForResize_' = 0
  /\ UNCHANGED <<headerTransport, readBuffer_, input, output, capacity, cutReply>>

\* The client sends a frame, which may be empty or too large.
ClientSends(size) ==
  /\ connected /\ Len(frames) < MaxRequestFrames
  /\ frames' = Append(frames, size)
  /\ inbound' = inbound \o Network(size) \o Bytes(client, Len(frames) + 1, size)
  /\ UNCHANGED <<headerTransport, client, connected, socketState_, appState_, reading, input,
                 writing, received, answered, cutReply>>

-----------------------------------------------------------------------------
\* checkIdleBufferMemLimit
TooLarge(memory) == IdleReadLimit > 0 /\ Len(memory) > IdleReadLimit

\* Faulty variant: the limit is not looked at.
NeverTrimmed(memory) == memory

Trimmed(memory) == IF TooLarge(memory) THEN << >> ELSE memory
WroteMuch(largest) == IdleWriteLimit > 0 /\ largest > IdleWriteLimit

\* close() and returnConnection(): the object keeps its memory for the next client.
Close ==
  /\ connected' = FALSE
  /\ readBuffer_' = Trimmed(readBuffer_)
  /\ IF WroteMuch(largestWriteBufferSize_)
     THEN output' = << >> /\ capacity' = WriteDefault /\ largestWriteBufferSize_' = 0
     ELSE UNCHANGED <<output, capacity, largestWriteBufferSize_>>
  /\ cutReply' = (cutReply \/ appState_ = "SEND_RESULT")
  /\ UNCHANGED <<headerTransport, client, inbound, frames, socketState_, appState_, readWant_,
                 readBufferPos_, input, writeBufferSize_, writeBufferPos_, callsForResize_,
                 received, answered>>

\* The client has gone, the socket fails, the processor throws or the pool refuses.
Fails == connected /\ Close

-----------------------------------------------------------------------------
\* Receiving

\* The socket gives k bytes of those that are wanted.
Gives(k, wanted) == connected /\ k \in 1..wanted /\ k <= Len(inbound)

\* Faulty variant: what has come of the size so far is forgotten.
ForgetFraming(b) == 0

\* framing.size, as the host sees it
Host(b) == ntohl(Reverse(b))

\* Faulty variant: there is no room for the size itself.
GrownForFrame(memory, want) ==
  LET least == Max({Len(memory), 1})
  IN  IF want <= Len(memory) THEN memory
      ELSE [k \in 1..Min({n \in {least * 2^j : j \in 0..4} : want - 4 <= n}) |->
              IF k \in DOMAIN memory THEN memory[k] ELSE Blank]

\* realloc to the double until it is enough
Grown(memory, want) ==
  LET least == Max({Len(memory), 1})
  IN  IF want <= Len(memory) THEN memory
      ELSE [k \in 1..Min({n \in {least * 2^j : j \in 0..4} : want <= n}) |->
              IF k \in DOMAIN memory THEN memory[k] ELSE Blank]

\* The size is known: transition() in READ_FRAME_SIZE.
FrameSizeRead(size) ==
  /\ readWant_' = (size + 4) % Word
  /\ readBuffer_' = Put(Grown(readBuffer_, (size + 4) % Word), 0, Network(size))
  /\ readBufferPos_' = 4
  /\ socketState_' = "RECV" /\ appState_' = "READ_REQUEST"

ReceiveFraming(k) ==
  /\ socketState_ = "RECV_FRAMING" /\ Gives(k, 4 - readBufferPos_)
  /\ LET framing == Put(Reverse(Network(readWant_)), readBufferPos_, SubSeq(inbound, 1, k))
         size == ntohl(framing)
     IN  \/ /\ readBufferPos_ + k < 4
            /\ readBufferPos_' = readBufferPos_ + k
            /\ readWant_' = Host(framing)
            /\ UNCHANGED <<readBuffer_, socketState_, appState_>>
         \/ /\ readBufferPos_ + k = 4 /\ size <= MaxFrameSize
            /\ FrameSizeRead(size)
  /\ inbound' = SubSeq(inbound, k + 1, Len(inbound))
  /\ UNCHANGED <<headerTransport, client, connected, frames, input, writing, received, answered,
                 cutReply>>

FrameTooLarge(k) ==
  /\ socketState_ = "RECV_FRAMING" /\ Gives(k, 4 - readBufferPos_) /\ readBufferPos_ + k = 4
  /\ ntohl(Put(Reverse(Network(readWant_)), readBufferPos_, SubSeq(inbound, 1, k))) > MaxFrameSize
  /\ Close

FrameTooShort ==
  /\ connected /\ socketState_ = "RECV" /\ appState_ = "READ_REQUEST"
  /\ readBufferPos_ >= readWant_ /\ inbound # << >>
  /\ Close

\* transition() in READ_REQUEST: room for the size of the reply comes first.
RequestRead(memory, pos) ==
  /\ input' = IF headerTransport THEN SubSeq(memory, 1, pos) ELSE SubSeq(memory, 5, pos)
  /\ output' = IF headerTransport THEN << >> ELSE <<Blank, Blank, Blank, Blank>>
  /\ capacity' = Max({capacity, Len(output')})
  /\ appState_' = "WAIT_TASK"

ReceiveFrame(k) ==
  /\ socketState_ = "RECV" /\ appState_ = "READ_REQUEST" /\ Gives(k, readWant_ - readBufferPos_)
  /\ readBufferPos_' = readBufferPos_ + k
  /\ readBuffer_' = Put(readBuffer_, readBufferPos_, SubSeq(inbound, 1, k))
  /\ inbound' = SubSeq(inbound, k + 1, Len(inbound))
  /\ IF readBufferPos_ + k = readWant_
     THEN RequestRead(readBuffer_', readWant_)
     ELSE UNCHANGED <<input, output, capacity, appState_>>
  /\ UNCHANGED <<headerTransport, client, connected, frames, socketState_, readWant_,
                 writeBufferSize_, writeBufferPos_, largestWriteBufferSize_, callsForResize_,
                 received, answered, cutReply>>

-----------------------------------------------------------------------------
\* Replying

\* transition() in INIT
ToFraming ==
  /\ writeBufferPos_' = 0 /\ writeBufferSize_' = 0
  /\ socketState_' = "RECV_FRAMING" /\ appState_' = "READ_FRAME_SIZE" /\ readBufferPos_' = 0

\* What the processor has written: the header transport frames by itself.
Wrote(size) ==
  IF headerTransport THEN ReplyTo(client, Taken + 1, size)
  ELSE output \o Bytes(client, -(Taken + 1), size)

PowerFor(n) == Min({p \in {2^k : k \in 0..n} : n <= p})

\* The processor ends, in a task or right here; nothing is sent for a oneway call.
Process(size) ==
  /\ connected /\ appState_ = "WAIT_TASK"
  /\ answered' = Append(answered, size)
  /\ LET all == Wrote(size) IN
     /\ capacity' = IF Len(all) <= capacity THEN capacity ELSE PowerFor(Len(all))
     /\ \/ /\ Len(all) > 4
           /\ output' = Put(all, 0, Network(Len(all) - 4))
           /\ writeBufferSize_' = Len(all) /\ writeBufferPos_' = 0
           /\ socketState_' = "SEND" /\ appState_' = "SEND_RESULT"
           /\ UNCHANGED readBufferPos_
        \/ /\ Len(all) <= 4
           /\ output' = all /\ ToFraming
  /\ UNCHANGED <<headerTransport, client, connected, inbound, frames, readWant_, readBuffer_,
                 input, largestWriteBufferSize_, callsForResize_, received, cutReply>>

\* transition() in SEND_RESULT, with what is done to the buffers every few calls
ResultSent ==
  LET largest == Max({largestWriteBufferSize_, writeBufferSize_})
      due == ResizeEveryN > 0 /\ callsForResize_ + 1 >= ResizeEveryN
      drop == due /\ WroteMuch(largest)
  IN  /\ readBuffer_' = IF due THEN Trimmed(readBuffer_) ELSE readBuffer_
      /\ output' = IF drop THEN << >> ELSE output
      /\ capacity' = IF drop THEN WriteDefault ELSE capacity
      /\ largestWriteBufferSize_' = IF drop THEN 0 ELSE largest
      /\ callsForResize_' = IF due \/ ResizeEveryN = 0 THEN 0 ELSE callsForResize_ + 1
      /\ ToFraming

\* write_partial takes k bytes.
Send(k) ==
  /\ connected /\ socketState_ = "SEND" /\ k \in 1 .. writeBufferSize_ - writeBufferPos_
  /\ received' = received \o SubSeq(output, writeBufferPos_ + 1, writeBufferPos_ + k)
  /\ IF writeBufferPos_ + k = writeBufferSize_
     THEN ResultSent
     ELSE /\ writeBufferPos_' = writeBufferPos_ + k
          /\ UNCHANGED <<readBuffer_, readBufferPos_, output, capacity, writeBufferSize_,
                         largestWriteBufferSize_, callsForResize_, socketState_, appState_>>
  /\ UNCHANGED <<headerTransport, client, connected, inbound, frames, readWant_, input, answered,
                 cutReply>>

ConnectionNext ==
  \/ Connect \/ Fails \/ FrameTooShort
  \/ \E size \in 0 .. MaxFrameSize + 1 : ClientSends(size)
  \/ \E k \in 1 .. 4 : ReceiveFraming(k) \/ FrameTooLarge(k)
  \/ \E k \in 1 .. MaxFrameSize : ReceiveFrame(k)
  \/ \E size \in 0 .. MaxReply : Process(size)
  \/ \E k \in 1 .. 4 + MaxReply : Send(k)

ConnectionSpec == ConnectionInit /\ [][ConnectionNext]_connectionVars

-----------------------------------------------------------------------------
ConnectionTypeOK ==
  /\ client \in 0..Clients /\ connected \in BOOLEAN
  /\ socketState_ \in {"RECV_FRAMING", "RECV", "SEND"}
  /\ appState_ \in {"INIT", "READ_FRAME_SIZE", "READ_REQUEST", "WAIT_TASK", "SEND_RESULT"}
  /\ readWant_ \in 0 .. Word - 1 /\ readBufferPos_ \in Nat /\ writeBufferPos_ \in Nat
  /\ Len(output) <= capacity
  /\ callsForResize_ \in 0 .. ResizeEveryN

\* workSocket() reads into memory that readBuffer_ has and writes memory that outputTransport_
\* has, whatever was freed or exchanged after an earlier request.
WithinBuffers ==
  connected =>
    /\ socketState_ = "RECV_FRAMING" => readBufferPos_ < 4
    /\ socketState_ = "RECV" => readBufferPos_ <= readWant_ /\ readWant_ <= Len(readBuffer_)
    /\ socketState_ = "SEND" => writeBufferPos_ < writeBufferSize_ /\ writeBufferSize_ = Len(output)

\* The processor gets the frame that its client sent, whole and nothing else, although its size
\* and its bytes come in pieces and the memory was another's.
RequestsWhole ==
  connected /\ appState_ = "WAIT_TASK" =>
    /\ Taken < Len(frames)
    /\ input = FrameOf(client, Taken + 1, frames[Taken + 1])

\* What the client gets are the replies to its own requests, framed, in order.
RepliesWhole ==
  LET due == FlattenSeq([n \in 1..Taken |-> ReplyTo(client, n, answered[n])])
  IN  IF connected /\ appState_ = "SEND_RESULT" THEN IsStrictPrefix(received, due)
      ELSE connected => received = due

\* An object that waits for a client has no more memory for requests than the limit, and for
\* replies less than twice the limit if all of them were sent.
IdleMemoryBounded ==
  ~connected =>
    /\ IdleReadLimit > 0 => Len(readBuffer_) <= IdleReadLimit
    /\ IdleWriteLimit > 0 /\ ~cutReply => capacity <= Max({WriteDefault, 2 * IdleWriteLimit})
=============================================================================
