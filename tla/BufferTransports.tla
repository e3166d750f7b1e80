-------------------------- MODULE BufferTransports --------------------------
(***************************************************************************)
(* The buffering transports of the Thrift library (TBufferTransports.h,    *)
(* TBufferTransports.cpp): a TMemoryBuffer used by itself, as the bridge   *)
(* does for its request (memory it observes and must not write to) and for *)
(* its reply, or as what a writer's and a reader's TBufferedTransport or   *)
(* TFramedTransport have below them, the reader's behind a                 *)
(* TShortReadTransport, which cuts reads at will.                          *)
(*                                                                         *)
(* The pointers of a buffer are numbers of bytes: wBase_ - buffer_ is the  *)
(* length of what has been written.  All lengths are far below 2^32, so    *)
(* that sums do not wrap.  One thread writes and reads, as callers of a    *)
(* transport must arrange.  Whoever reads gives up after an exception; a   *)
(* writer may go on, as close() does, which flushes.                       *)
(***************************************************************************)
EXTENDS Integers, SequencesExt, FiniteSetsExt

CONSTANTS
  MaxBytes,       \* bound: the number of bytes the client writes
  Lengths,        \* the lengths it writes and reads at a time
  BufSize,        \* rBufSize_ and wBufSize_ of a TBufferedTransport
  FrameBuf,       \* wBufSize_ a TFramedTransport starts with
  DefaultSize,    \* DEFAULT_BUFFER_SIZE, to which it goes back
  ReclaimThresh,  \* bufReclaimThresh_
  MaxWritten,     \* the most a write buffer of frames may hold (0x7fffffff)
  MaxFrameSize,   \* maxFrameSize_ of the reader
  HeaderSize,     \* sizeof(int32_t)
  MemorySize,     \* the size a TMemoryBuffer starts with
  MaxSizes,       \* the values setMaxBufferSize is called with before use
  MaxMessageSize  \* getMaxMessageSize() of the configuration

ASSUME BufferAssumption ==
  /\ {MaxBytes, DefaultSize, ReclaimThresh, MaxWritten, MaxFrameSize, MaxMessageSize} \subseteq Nat
  /\ {BufSize, FrameBuf, HeaderSize, MemorySize} \subseteq Nat \ {0}
  /\ MaxSizes \subseteq Nat /\ \A max \in MaxSizes : MemorySize <= max
  /\ HeaderSize <= FrameBuf /\ HeaderSize < DefaultSize
  /\ BufSize <= MaxMessageSize /\ MaxFrameSize <= MaxMessageSize
  /\ Lengths \subseteq Nat \ {0}

VARIABLES
  transport,     \* the kind: "memory", "buffered" or "framed"
  memory,        \* the TMemoryBuffer
  wBuf_,         \* bytes in the writer's buffer, those of a frame without its header
  wBufSize_,
  rBuf_,         \* bytes in the reader's buffer
  rBase_,        \* how many of them have been read
  rBufSize_,
  remainingMessageSize_,  \* of the object the client reads from
  failed,        \* why the reader has given up, or "no"
  produced,      \* history: how many bytes the client has written
  consumed,      \* history: the bytes it has read
  losses         \* history: what has gone wrong with the stream

writerVars == <<wBuf_, wBufSize_>>
readerVars == <<rBuf_, rBase_, rBufSize_>>
bufferVars == <<transport, memory, writerVars, readerVars, remainingMessageSize_, failed, produced,
                consumed, losses>>

\* A byte of the client carries its number, a byte of a header the size it tells.
Payload(from, to) == [i \in 1..(to - from) |-> [of |-> 0, part |-> from + i]]
FrameHeader(size) == [i \in 1..HeaderSize |-> [of |-> size, part |-> i]]

-----------------------------------------------------------------------------
\* TMemoryBuffer

MemoryBuffer(bytes, size, max, owner) ==
  [bytes |-> bytes, rBase |-> 0, rBound |-> Len(bytes), size |-> size, max |-> max, owner |-> owner]

Policy == {"OBSERVE", "COPY", "TAKE_OWNERSHIP"}

\* A buffer for bytes that are there already; a copy is written, which leaves rBound_ behind.
Constructed(bytes, max, policy) ==
  [MemoryBuffer(bytes, Len(bytes), max, policy # "OBSERVE") EXCEPT
     !.rBound = IF policy = "COPY" THEN 0 ELSE @]

available_read(m) == Len(m.bytes) - m.rBase
available_write(m) == m.size - Len(m.bytes)

\* The power of two to which a buffer that must hold n bytes grows.
NextPower(n) == CHOOSE p \in {2^k : k \in 0..n} : n <= p /\ p < 2 * n

\* ensureCanWrite does not throw.
CanWrite(m, n) ==
  n <= available_write(m) \/ (m.owner /\ Len(m.bytes) + n <= m.max)

SizeFor(m, n) ==
  IF n <= available_write(m) THEN m.size ELSE Min({NextPower(Len(m.bytes) + n), m.max})

Written(m, data) == [m EXCEPT !.bytes = @ \o data, !.size = SizeFor(m, Len(data))]

\* What a read of n bytes gives, and the buffer after it; the slow path moves
\* rBound_ to where the written bytes end.
Given(m, n) == SubSeq(m.bytes, m.rBase + 1, m.rBase + Min({n, available_read(m)}))

ReadFrom(m, n) ==
  [m EXCEPT !.rBase = @ + Min({n, available_read(m)}),
            !.rBound = IF m.rBase + n <= @ THEN @ ELSE Len(m.bytes)]

\* resetBuffer(): what the object does not own must not be written to.
Reset(m) == [MemoryBuffer(<< >>, m.size, m.max, m.owner) EXCEPT !.size = IF m.owner THEN @ ELSE 0]

Direct == transport = "memory"

\* A memory buffer by itself, which may have bytes when it is constructed.
MemoryAlone ==
  /\ transport = "memory" /\ wBufSize_ = 0 /\ rBufSize_ = 0
  /\ \/ \E max \in MaxSizes : memory = MemoryBuffer(<< >>, MemorySize, max, TRUE) /\ produced = 0
     \/ /\ produced \in 0..MaxBytes
        /\ \E policy \in Policy :
             memory = Constructed(Payload(0, produced), Max(MaxSizes), policy)

\* An empty one under a writer and a reader.
Below == produced = 0 /\ \E max \in MaxSizes : memory = MemoryBuffer(<< >>, MemorySize, max, TRUE)
BufferedPair == transport = "buffered" /\ wBufSize_ = BufSize /\ rBufSize_ = BufSize /\ Below
FramedPair == transport = "framed" /\ wBufSize_ = FrameBuf /\ rBufSize_ = 0 /\ Below

BufferInit ==
  /\ MemoryAlone \/ BufferedPair \/ FramedPair
  /\ wBuf_ = << >> /\ rBuf_ = << >> /\ rBase_ = 0
  /\ remainingMessageSize_ = MaxMessageSize
  /\ failed = "no" /\ consumed = << >> /\ losses = {}

-----------------------------------------------------------------------------
\* Writing

\* A write that throws is none.
Refused(why) == losses' = losses \cup {why} /\ UNCHANGED <<memory, writerVars>>

WriteDirect(data) ==
  /\ Direct
  /\ IF CanWrite(memory, Len(data))
     THEN memory' = Written(memory, data) /\ UNCHANGED <<writerVars, losses>>
     ELSE Refused("write")

\* TBufferBase::write, and TFramedTransport::writeSlow, which doubles the buffer.
Room(size, needed) == Min({p \in {size * 2^k : k \in 0..needed} : needed <= p})

WriteFast(data) ==
  /\ transport = "buffered" /\ Len(wBuf_) + Len(data) <= wBufSize_
  /\ wBuf_' = wBuf_ \o data
  /\ UNCHANGED <<wBufSize_, memory, losses>>

WriteFramed(data) ==
  LET needed == HeaderSize + Len(wBuf_) + Len(data)
  IN  /\ transport = "framed"
      /\ IF needed <= wBufSize_ \/ needed <= MaxWritten
         THEN /\ wBuf_' = wBuf_ \o data
              /\ wBufSize_' = Room(wBufSize_, needed)
              /\ UNCHANGED <<memory, losses>>
         ELSE Refused("write")

Slow(data) == transport = "buffered" /\ Len(wBuf_) + Len(data) > wBufSize_
TwoCalls(data) == wBuf_ = << >> \/ Len(wBuf_) + Len(data) >= 2 * wBufSize_

\* Faulty variant: data that does not fit is written, the buffer keeps its bytes.
WritePastBuffer(data) ==
  /\ Slow(data) /\ TwoCalls(data)
  /\ IF CanWrite(memory, Len(data))
     THEN memory' = Written(memory, data) /\ UNCHANGED <<writerVars, losses>>
     ELSE Refused("write")

\* Buffer and data are written one after the other.  The buffer is emptied when
\* both are: if only the second write throws, its bytes stay and go out again.
WriteBoth(data) ==
  /\ Slow(data) /\ TwoCalls(data)
  /\ IF ~CanWrite(memory, Len(wBuf_))
     THEN Refused("write")
     ELSE LET first == Written(memory, wBuf_)
          IN  IF CanWrite(first, Len(data))
              THEN /\ memory' = Written(first, data) /\ wBuf_' = << >>
                   /\ UNCHANGED <<wBufSize_, losses>>
              ELSE /\ memory' = first
                   /\ losses' = losses \cup {IF wBuf_ = << >> THEN "write" ELSE "repeat"}
                   /\ UNCHANGED writerVars

\* The buffer is filled up and written, the rest of the data goes into it.
WriteFilledUp(data) ==
  LET space == wBufSize_ - Len(wBuf_)
  IN  /\ Slow(data) /\ ~TwoCalls(data)
      /\ IF CanWrite(memory, wBufSize_)
         THEN /\ memory' = Written(memory, wBuf_ \o SubSeq(data, 1, space))
              /\ wBuf_' = SubSeq(data, space + 1, Len(data))
              /\ UNCHANGED <<wBufSize_, losses>>
         ELSE Refused("write")

Write(n) ==
  /\ produced + n <= MaxBytes /\ produced' = produced + n
  /\ LET data == Payload(produced, produced + n)
     IN  \/ WriteDirect(data)
         \/ WriteFast(data)
         \/ WriteBoth(data)
         \/ WriteFilledUp(data)
         \/ WriteFramed(data)
  /\ UNCHANGED <<transport, readerVars, remainingMessageSize_, failed, consumed>>

\* getWritePtr(n), and wroteBytes(k) once k bytes have been put there.
WriteInPlace(n, k) ==
  /\ Direct /\ k <= n /\ produced + k <= MaxBytes
  /\ produced' = produced + k
  /\ IF CanWrite(memory, n)
     THEN /\ memory' = [memory EXCEPT !.bytes = @ \o Payload(produced, produced + k),
                                      !.size = SizeFor(memory, n)]
          /\ UNCHANGED losses
     ELSE losses' = losses \cup {"write"} /\ UNCHANGED memory
  /\ UNCHANGED <<transport, writerVars, readerVars, remainingMessageSize_, failed, consumed>>

\* The buffer is emptied before its bytes are written: they are lost when the
\* write throws, and are never written twice.
Emptied(data) ==
  /\ wBuf_' = << >>
  /\ IF CanWrite(memory, Len(data))
     THEN memory' = Written(memory, data) /\ UNCHANGED losses
     ELSE losses' = losses \cup {"flush"} /\ UNCHANGED memory

\* flush, with which close begins.
FlushBuffered ==
  /\ transport = "buffered" /\ wBuf_ # << >>
  /\ Emptied(wBuf_)
  /\ UNCHANGED wBufSize_

FlushFramed ==
  /\ transport = "framed"
  /\ LET size == Len(wBuf_)
     IN  IF size > 0
         THEN Emptied(FrameHeader(size) \o wBuf_)
         ELSE UNCHANGED <<wBuf_, memory, losses>>
  /\ wBufSize_' = IF "flush" \notin losses' \ losses /\ wBufSize_ > ReclaimThresh
                  THEN DefaultSize ELSE wBufSize_

FlushWriter ==
  /\ FlushBuffered \/ FlushFramed
  /\ UNCHANGED <<transport, readerVars, remainingMessageSize_, failed, produced, consumed>>

-----------------------------------------------------------------------------
\* Reading

Have == Len(rBuf_) - rBase_

\* checkReadBytesAvailable
MayRead(n) == failed = "no" /\ n <= remainingMessageSize_

Fails(why) == failed' = why

ReadDirect(n) ==
  /\ Direct
  /\ consumed' = consumed \o Given(memory, n) /\ memory' = ReadFrom(memory, n)
  /\ UNCHANGED <<readerVars, failed>>

ReadFast(n) ==
  /\ n <= Have
  /\ consumed' = consumed \o SubSeq(rBuf_, rBase_ + 1, rBase_ + n)
  /\ rBase_' = rBase_ + n
  /\ UNCHANGED <<rBuf_, rBufSize_, memory, failed>>

\* What is left is handed over without a look at the transport below.
ReadRest(n) ==
  /\ 0 < Have /\ Have < n
  /\ consumed' = consumed \o SubSeq(rBuf_, rBase_ + 1, Len(rBuf_))
  /\ rBuf_' = << >> /\ rBase_' = 0
  /\ UNCHANGED <<rBufSize_, memory, failed>>

HandOver(data, n) ==
  /\ rBuf_' = data /\ rBase_' = Min({n, Len(data)})
  /\ consumed' = consumed \o SubSeq(data, 1, Min({n, Len(data)}))

\* TBufferedTransport::readSlow: one read, cut short to any length.
ReadBuffered(n) ==
  /\ transport = "buffered" /\ Have = 0
  /\ \E k \in 1..rBufSize_ : HandOver(Given(memory, k), n) /\ memory' = ReadFrom(memory, k)
  /\ UNCHANGED <<rBufSize_, failed>>

\* TFramedTransport::readFrame.  However its reads are cut, it goes on until it
\* has the header and then the frame, or the bytes end.
ReadFrame(n) ==
  /\ transport = "framed" /\ Have = 0 /\ available_read(memory) > 0
  /\ LET behind == ReadFrom(memory, HeaderSize)
         size == memory.bytes[memory.rBase + 1].of
     IN  IF available_read(memory) < HeaderSize + size
         THEN Fails("cutShort") /\ UNCHANGED <<readerVars, memory, consumed>>
         ELSE IF size > MaxFrameSize
         THEN Fails("oversized") /\ memory' = behind /\ UNCHANGED <<readerVars, consumed>>
         ELSE /\ HandOver(Given(behind, size), n)
              /\ rBufSize_' = Max({rBufSize_, size})
              /\ memory' = ReadFrom(behind, size)
              /\ UNCHANGED failed

Read(n) ==
  /\ MayRead(n)
  /\ ReadDirect(n) \/ ReadFast(n) \/ ReadRest(n) \/ ReadBuffered(n) \/ ReadFrame(n)
  /\ UNCHANGED <<transport, writerVars, remainingMessageSize_, produced, losses>>

\* borrow(n) gave a pointer, and consume(n) takes the bytes.  Only consume counts
\* what a message has used of its size; it counts before it looks whether the
\* bytes are there.
Consume(n) ==
  IF n <= remainingMessageSize_
  THEN remainingMessageSize_' = remainingMessageSize_ - n /\ UNCHANGED failed
  ELSE remainingMessageSize_' = 0 /\ Fails("tooLarge")

Bound(n) == IF n <= memory.rBound - memory.rBase THEN memory.rBound ELSE Len(memory.bytes)

BorrowDirect(n) ==
  /\ Direct /\ n <= available_read(memory)
  /\ Consume(n)
  /\ LET taken == IF failed' = "no" THEN n ELSE 0
     IN  /\ consumed' = consumed \o Given(memory, taken)
         /\ memory' = [memory EXCEPT !.rBase = @ + taken, !.rBound = Bound(n)]
  /\ UNCHANGED rBase_

\* borrow(n) gave null.
BorrowNothing(n) ==
  /\ Direct /\ n > available_read(memory)
  /\ memory' = [memory EXCEPT !.rBound = Bound(n)]
  /\ UNCHANGED <<rBase_, consumed, remainingMessageSize_, failed>>

BorrowBuffered(n) ==
  /\ n <= Have
  /\ Consume(n)
  /\ LET taken == IF failed' = "no" THEN n ELSE 0
     IN  /\ consumed' = consumed \o SubSeq(rBuf_, rBase_ + 1, rBase_ + taken)
         /\ rBase_' = rBase_ + taken
  /\ UNCHANGED memory

Borrow(n) ==
  /\ failed = "no"
  /\ BorrowDirect(n) \/ BorrowNothing(n) \/ BorrowBuffered(n)
  /\ UNCHANGED <<transport, writerVars, rBuf_, rBufSize_, produced, losses>>

\* TBufferedTransport::peek reads ahead.
PeekBuffered ==
  /\ failed = "no" /\ transport = "buffered" /\ Have = 0
  /\ \E k \in 1..rBufSize_ : HandOver(Given(memory, k), 0) /\ memory' = ReadFrom(memory, k)
  /\ UNCHANGED <<transport, writerVars, rBufSize_, remainingMessageSize_, failed, produced, losses>>

\* readEnd: an empty memory buffer starts again at its beginning; a large frame
\* buffer is given up with what is unread in it.  TFramedTransport alone does
\* not give the next message its full size.
ReadEnd ==
  /\ failed = "no"
  /\ memory' = IF Direct /\ available_read(memory) = 0 THEN Reset(memory) ELSE memory
  /\ IF transport = "framed" /\ rBufSize_ > ReclaimThresh
     THEN /\ rBuf_' = << >> /\ rBase_' = 0 /\ rBufSize_' = 0
          /\ losses' = IF Have > 0 THEN losses \cup {"unread"} ELSE losses
     ELSE UNCHANGED <<readerVars, losses>>
  /\ remainingMessageSize_' = IF transport = "framed" THEN remainingMessageSize_
                              ELSE MaxMessageSize
  /\ UNCHANGED <<transport, writerVars, failed, produced, consumed>>

\* resetBuffer, called by whoever is done with what is there.
ResetBuffer ==
  /\ Direct
  /\ memory' = Reset(memory)
  /\ losses' = IF available_read(memory) > 0 THEN losses \cup {"unread"} ELSE losses
  /\ UNCHANGED <<transport, writerVars, readerVars, remainingMessageSize_, failed, produced, consumed>>

\* resetBuffer with a new buffer, for bytes that are there already or for none: everything is
\* exchanged but the maximum.
Exchange(new, n) ==
  /\ Direct /\ produced + n <= MaxBytes
  /\ produced' = produced + n /\ memory' = new
  /\ losses' = IF available_read(memory) > 0 THEN losses \cup {"unread"} ELSE losses
  /\ UNCHANGED <<transport, writerVars, readerVars, remainingMessageSize_, failed, consumed>>

ResetBufferTo(n, policy) ==
  Exchange(Constructed(Payload(produced, produced + n), memory.max, policy), n)
ResetBufferSize(n) == Exchange(MemoryBuffer(<< >>, n, memory.max, TRUE), 0)

BufferNext ==
  \/ \E n \in Lengths : \/ Write(n) \/ Read(n) \/ Borrow(n) \/ ResetBufferSize(n)
                         \/ \E k \in 0..n : WriteInPlace(n, k)
                         \/ \E policy \in Policy : ResetBufferTo(n, policy)
  \/ FlushWriter \/ PeekBuffered \/ ReadEnd \/ ResetBuffer

BufferSpec == BufferInit /\ [][BufferNext]_bufferVars

-----------------------------------------------------------------------------

Bytes == [of : 0..MaxBytes, part : 1..(MaxBytes + HeaderSize)]

\* Pointers stay in their buffers, and buffers within their sizes.
BufferTypeOK ==
  /\ transport \in {"memory", "buffered", "framed"}
  /\ memory \in [bytes : Seq(Bytes), rBase : Nat, rBound : Nat, size : Nat, max : MaxSizes,
                 owner : BOOLEAN]
  /\ memory.rBase <= memory.rBound /\ memory.rBound <= Len(memory.bytes)
  /\ Len(memory.bytes) <= memory.size
  /\ memory.size <= Max({memory.max, MaxBytes})
  /\ wBuf_ \in Seq(Bytes) /\ rBuf_ \in Seq(Bytes)
  /\ (IF transport = "framed" THEN HeaderSize ELSE 0) + Len(wBuf_) <= wBufSize_
  /\ rBase_ \in 0..Len(rBuf_) /\ Len(rBuf_) <= rBufSize_
  /\ remainingMessageSize_ \in 0..MaxMessageSize
  /\ failed \in {"no", "cutShort", "oversized", "tooLarge"}
  /\ produced \in 0..MaxBytes /\ consumed \in Seq(Bytes)
  /\ losses \subseteq {"write", "repeat", "flush", "unread"}

\* All bytes the client has written and that have not been lost, in the order in which they reach it,
\* with the headers of the frames that are on their way.
InMemory(m) == SubSeq(m.bytes, m.rBase + 1, Len(m.bytes))
InBuffer == SubSeq(rBuf_, rBase_ + 1, Len(rBuf_))
Stream == ((consumed \o InBuffer) \o InMemory(memory)) \o wBuf_

NoHeader(s) == \A i \in DOMAIN s : s[i].of = 0
NumbersIn(s) == {s[i].part : i \in {k \in DOMAIN s : s[k].of = 0}}
Rising(s) == \A i, j \in DOMAIN s : s[i].of = 0 /\ s[j].of = 0 /\ i < j => s[i].part < s[j].part

\* Bytes arrive once each and in order through all buffers, however writes and reads are cut, and no
\* header does.  None is missing unless a write or flush threw or unread bytes were given up; none
\* comes twice unless a write passed on the buffer and then threw while it passed on its own bytes.
\* A frame is never found cut short.
StreamInOrder ==
  /\ NoHeader(consumed)
  /\ losses = {} => NumbersIn(Stream) = 1..produced
  /\ "repeat" \notin losses => Rising(Stream)
  /\ failed # "cutShort"
=============================================================================
