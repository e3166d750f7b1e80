--------------------------- MODULE ZlibTransport ---------------------------
(***************************************************************************)
(* A writer and a reader that compress what they exchange                  *)
(* (TZlibTransport.cpp).  deflate() and inflate() are external: deflate()  *)
(* keeps back what it likes until it is flushed, and both stop when their  *)
(* output is full.  A compressed byte is a cell of its own; so are the     *)
(* marker of a flush and the end of the stream, with its checksum.         *)
(***************************************************************************)
EXTENDS Integers, SequencesExt

CONSTANTS
  MinDirectDeflateSize, UwBufSize, CwBufSize, CrBufSize, UrBufSize,
  MinRoom,       \* the room flush() wants for the marker: 6 bytes
  WriteSizes,    \* lengths of writes
  MaxZlibBytes   \* bound: bytes written

VARIABLES
  uwbuf_,        \* its first uwpos_ bytes
  availIn,       \* wstream_: what deflate() has not taken yet
  held,          \* what it has taken and not put out
  cwbuf_,        \* what it has put out
  lastFlush,     \* the flush deflate() was last called with, or "none" when its output was full then
  output_finished_,
  plan,          \* what the call under way has left to do
  direct,        \* the bytes of a big write
  zlibWritten,   \* bytes given to write()
  flushed,       \* history: how many of them the last flush() or finish() that returned has covered
  zlibWire,      \* what the transport below carries
  broke,         \* history: it has refused a write
  crbuf_, urbuf_, input_ended_,
  wants,         \* how many bytes the read() under way has left to find; 0 outside
  asked,
  got            \* history: all bytes read() has returned

zlibVars == <<uwbuf_, availIn, held, cwbuf_, lastFlush, output_finished_, plan, direct, zlibWritten,
              flushed, zlibWire, broke, crbuf_, urbuf_, input_ended_, wants, asked, got>>
writerVars == <<uwbuf_, availIn, held, cwbuf_, lastFlush, output_finished_, plan, direct, zlibWritten,
                flushed, broke>>
readerVars == <<crbuf_, urbuf_, input_ended_, wants, asked, got>>

Mark == <<"mark", 0>>
End == <<"end", 0>>
Cell(b) == <<"byte", b>>
Least(a, b) == IF a < b THEN a ELSE b

ZlibInit ==
  /\ uwbuf_ = << >> /\ availIn = << >> /\ held = << >> /\ cwbuf_ = << >> /\ lastFlush = "none"
  /\ output_finished_ = FALSE /\ plan = << >> /\ direct = << >> /\ zlibWritten = 0 /\ flushed = 0
  /\ zlibWire = << >> /\ broke = FALSE
  /\ crbuf_ = << >> /\ urbuf_ = << >> /\ input_ended_ = FALSE /\ wants = 0 /\ asked = 0 /\ got = << >>

-----------------------------------------------------------------------------
\* The writer.  A call is a list of things to do, which an exception cuts short; the writer makes no
\* calls after one from below.
BufferToZlib(flush) == << <<"buffer", flush>>, <<"reset", "">> >>
ToTransport(flush) == BufferToZlib(flush) \o << <<"send", "">> >>

Bytes(n) == [i \in 1..n |-> zlibWritten + i]

Write ==
  /\ plan = << >> /\ ~output_finished_ /\ ~broke
  /\ \E n \in WriteSizes :
       /\ zlibWritten + n <= MaxZlibBytes
       /\ zlibWritten' = zlibWritten + n
       /\ plan' = IF n > MinDirectDeflateSize THEN BufferToZlib("no") \o << <<"direct", "no">> >>
                  ELSE IF UwBufSize - Len(uwbuf_) < n THEN BufferToZlib("no") \o << <<"copy", "">> >>
                  ELSE << <<"copy", "">> >>
       /\ direct' = Bytes(n)
  /\ UNCHANGED <<uwbuf_, availIn, held, cwbuf_, lastFlush, output_finished_, flushed, zlibWire, broke,
                 readerVars>>

Flush ==
  /\ plan = << >> /\ ~output_finished_ /\ ~broke
  /\ plan' = BufferToZlib("block") \o << <<"room", "">> >> \o ToTransport("full") \o << <<"done", "">> >>
  /\ UNCHANGED <<uwbuf_, availIn, held, cwbuf_, lastFlush, output_finished_, direct, zlibWritten, flushed,
                 zlibWire, broke, readerVars>>

Finish ==
  /\ plan = << >> /\ ~output_finished_ /\ ~broke
  /\ plan' = ToTransport("finish") \o << <<"done", "">> >>
  /\ UNCHANGED <<uwbuf_, availIn, held, cwbuf_, lastFlush, output_finished_, direct, zlibWritten, flushed,
                 zlibWire, broke, readerVars>>

Doing(what) == plan # << >> /\ Head(plan)[1] = what
Throws == plan' = << >>

\* The transport below takes what has been put out, or throws and leaves everything as it is.
Sends(next) ==
  \/ /\ zlibWire' = zlibWire \o cwbuf_ /\ cwbuf_' = << >> /\ plan' = next
     /\ UNCHANGED broke
  \/ broke' = TRUE /\ Throws /\ UNCHANGED <<zlibWire, cwbuf_>>

\* flushToZlib() takes up a buffer; if there is something in the stream's input still, it is dropped.
Takes ==
  /\ Doing("buffer") \/ Doing("direct")
  /\ availIn' = (IF Doing("buffer") THEN uwbuf_ ELSE direct)
  /\ plan' = << <<"deflate", Head(plan)[2]>> >> \o Tail(plan)
  /\ UNCHANGED <<uwbuf_, held, cwbuf_, lastFlush, output_finished_, direct, zlibWritten, flushed, zlibWire,
                 broke, readerVars>>

Flushing == Head(plan)[2]

\* Without a flush the loop ends when all has been taken.
TakenAll ==
  /\ Doing("deflate") /\ Flushing \in {"no", "block"} /\ availIn = << >>
  /\ plan' = Tail(plan)
  /\ UNCHANGED <<uwbuf_, availIn, held, cwbuf_, lastFlush, output_finished_, direct, zlibWritten, flushed,
                 zlibWire, broke, readerVars>>

Continues == ~(Flushing \in {"no", "block"} /\ availIn = << >>)

SendFull ==
  /\ Doing("deflate") /\ Continues /\ Len(cwbuf_) = CwBufSize
  /\ Sends(plan)
  /\ UNCHANGED <<uwbuf_, availIn, held, lastFlush, output_finished_, direct, zlibWritten, flushed,
                 readerVars>>

Deflating == Doing("deflate") /\ Continues /\ Len(cwbuf_) < CwBufSize
Space == CwBufSize - Len(cwbuf_)

\* deflate() without a flush: it takes all, unless it fills its output first.
DeflateSome ==
  /\ Deflating /\ Flushing \in {"no", "block"}
  /\ \E taken \in 0..Len(availIn) :
       LET has == held \o [i \in 1..taken |-> Cell(availIn[i])]
       IN \E put \in 0 .. Least(Space, Len(has)) :
            /\ put < Space => taken = Len(availIn)
            /\ cwbuf_' = cwbuf_ \o SubSeq(has, 1, put)
            /\ held' = SubSeq(has, put + 1, Len(has))
            /\ availIn' = SubSeq(availIn, taken + 1, Len(availIn))
            /\ lastFlush' = (IF put = Space THEN "none" ELSE Flushing)
  /\ UNCHANGED <<uwbuf_, output_finished_, plan, direct, zlibWritten, flushed, zlibWire, broke, readerVars>>

\* Z_BUF_ERROR: deflate() has nothing to do; checkZlibRv throws.
NothingToFlush == availIn = << >> /\ Flushing = "full" /\ lastFlush = "full"

\* deflate() with a flush puts out all it has and the marker or the end, as far as there is room; the
\* loop ends when there is room left behind a marker, or with the end.
DeflateAll ==
  /\ Deflating /\ Flushing \in {"full", "finish"} /\ ~NothingToFlush
  /\ LET tail == IF Flushing = "full" THEN Mark ELSE End
         has == held \o [i \in 1..Len(availIn) |-> Cell(availIn[i])]
         all == IF has # << >> /\ Last(has) = tail THEN has ELSE Append(has, tail)
         put == Least(Space, Len(all))
     IN /\ cwbuf_' = cwbuf_ \o SubSeq(all, 1, put)
        /\ held' = SubSeq(all, put + 1, Len(all))
        /\ lastFlush' = (IF put = Space THEN "none" ELSE Flushing)
        /\ output_finished_' = (Flushing = "finish" /\ put = Len(all))
        /\ plan' = IF IF Flushing = "finish" THEN put = Len(all) ELSE put < Space THEN Tail(plan) ELSE plan
  /\ availIn' = << >>
  /\ UNCHANGED <<uwbuf_, direct, zlibWritten, flushed, zlibWire, broke, readerVars>>

FlushRefused ==
  /\ Deflating /\ NothingToFlush /\ Throws
  /\ UNCHANGED <<uwbuf_, availIn, held, cwbuf_, lastFlush, output_finished_, direct, zlibWritten, flushed,
                 zlibWire, broke, readerVars>>

\* Faulty variant: what has been compressed stays in the buffer.
BufferKept == uwbuf_

BufferReset == << >>

Reset ==
  /\ Doing("reset") /\ uwbuf_' = BufferReset /\ plan' = Tail(plan)
  /\ UNCHANGED <<availIn, held, cwbuf_, lastFlush, output_finished_, direct, zlibWritten, flushed, zlibWire,
                 broke, readerVars>>

Copy ==
  /\ Doing("copy") /\ uwbuf_' = uwbuf_ \o direct /\ plan' = Tail(plan)
  /\ UNCHANGED <<availIn, held, cwbuf_, lastFlush, output_finished_, direct, zlibWritten, flushed, zlibWire,
                 broke, readerVars>>

\* flush() makes room for the marker; flushToTransport sends what there is.
Send ==
  /\ Doing("send") \/ Doing("room")
  /\ IF Doing("room") /\ Space >= MinRoom THEN plan' = Tail(plan) /\ UNCHANGED <<zlibWire, cwbuf_, broke>>
     ELSE Sends(Tail(plan))
  /\ UNCHANGED <<uwbuf_, availIn, held, lastFlush, output_finished_, direct, zlibWritten, flushed,
                 readerVars>>

Done ==
  /\ Doing("done") /\ plan' = << >> /\ flushed' = zlibWritten
  /\ UNCHANGED <<uwbuf_, availIn, held, cwbuf_, lastFlush, output_finished_, direct, zlibWritten, zlibWire,
                 broke, readerVars>>

-----------------------------------------------------------------------------
\* The reader.
Read ==
  /\ wants = 0
  /\ \E n \in 1 .. UrBufSize + 1 : wants' = n /\ asked' = n
  /\ UNCHANGED <<writerVars, zlibWire, crbuf_, urbuf_, input_ended_, got>>

Gives ==
  /\ wants > 0 /\ urbuf_ # << >>
  /\ LET n == Least(wants, Len(urbuf_))
     IN /\ got' = got \o SubSeq(urbuf_, 1, n) /\ urbuf_' = SubSeq(urbuf_, n + 1, Len(urbuf_))
        /\ wants' = (IF crbuf_ = << >> THEN 0 ELSE wants - n)
  /\ UNCHANGED <<writerVars, zlibWire, crbuf_, input_ended_, asked>>

\* read() does not block when it has something.
ReadEnds ==
  /\ wants > 0 /\ urbuf_ = << >> /\ (input_ended_ \/ (wants < asked /\ crbuf_ = << >>))
  /\ wants' = 0
  /\ UNCHANGED <<writerVars, zlibWire, crbuf_, urbuf_, input_ended_, asked, got>>

\* What inflate() makes of some cells: the bytes in front of the end, as many as fit.
Inflated(cells, room) ==
  LET ended == SelectInSeq(cells, LAMBDA c : c = End)
      last == IF ended = 0 THEN Len(cells) ELSE ended
      plain(n) == SelectSeq(SubSeq(cells, 1, n), LAMBDA c : c[1] = "byte")
      used == CHOOSE n \in 0..last : /\ Len(plain(n)) <= room
                                     /\ n = last \/ Len(plain(n + 1)) > room
  IN [bytes |-> [i \in 1..Len(plain(used)) |-> plain(used)[i][2]],
      rest |-> SubSeq(cells, used + 1, Len(cells)),
      ended |-> ended # 0 /\ used = ended]

Inflate(cells) ==
  LET r == Inflated(cells, UrBufSize)
  IN urbuf_' = r.bytes /\ crbuf_' = r.rest /\ input_ended_' = r.ended

\* readFromZlib() reads from below only when it has no cells left; the end of what is below ends read().
ReadFromZlib ==
  /\ wants > 0 /\ urbuf_ = << >> /\ ~input_ended_
  /\ \/ crbuf_ # << >> /\ Inflate(crbuf_) /\ UNCHANGED <<zlibWire, wants>>
     \/ /\ crbuf_ = << >> /\ wants = asked
        /\ \E n \in 1 .. Least(CrBufSize, Len(zlibWire)) :
             Inflate(SubSeq(zlibWire, 1, n)) /\ zlibWire' = SubSeq(zlibWire, n + 1, Len(zlibWire))
        /\ UNCHANGED wants
     \/ /\ crbuf_ = << >> /\ wants = asked /\ zlibWire = << >>
        /\ wants' = 0 /\ UNCHANGED <<zlibWire, crbuf_, urbuf_, input_ended_>>
  /\ UNCHANGED <<writerVars, asked, got>>

\* verifyChecksum(), which throws unless it comes to the end, and keeps what it has found.
VerifyChecksum ==
  /\ wants = 0 /\ ~input_ended_ /\ urbuf_ = << >>
  /\ \/ crbuf_ # << >> /\ Inflate(crbuf_) /\ UNCHANGED zlibWire
     \/ /\ crbuf_ = << >>
        /\ \E n \in 1 .. Least(CrBufSize, Len(zlibWire)) :
             Inflate(SubSeq(zlibWire, 1, n)) /\ zlibWire' = SubSeq(zlibWire, n + 1, Len(zlibWire))
  /\ UNCHANGED <<writerVars, wants, asked, got>>

ZlibNext ==
  \/ Write \/ Flush \/ Finish \/ Takes \/ TakenAll \/ SendFull \/ DeflateSome \/ DeflateAll
  \/ FlushRefused \/ Reset \/ Copy \/ Send \/ Done
  \/ Read \/ Gives \/ ReadEnds \/ ReadFromZlib \/ VerifyChecksum

-----------------------------------------------------------------------------
\* The types.
ZlibTypeOK ==
  /\ uwbuf_ \in Seq(1..MaxZlibBytes) /\ Len(uwbuf_) <= UwBufSize
  /\ Len(cwbuf_) <= CwBufSize /\ Len(crbuf_) <= CrBufSize /\ Len(urbuf_) <= UrBufSize
  /\ lastFlush \in {"none", "no", "block", "full", "finish"} /\ output_finished_ \in BOOLEAN
  /\ zlibWritten \in 0..MaxZlibBytes /\ wants \in Nat /\ input_ended_ \in BOOLEAN

\* As long as the transport below takes what it is given, the reader finds each
\* byte once and in its order, wherever buffers fill up and whatever else the
\* reader looks for; when it has found all there is, it has all that was written
\* before the last flush or finish; and the stream ends behind the last byte.
UnpacksWhatWasPacked ==
  ~broke =>
    /\ got \o urbuf_ = [i \in 1 .. Len(got) + Len(urbuf_) |-> i]
    /\ plan = << >> /\ zlibWire = << >> /\ crbuf_ = << >> => Len(got) + Len(urbuf_) >= flushed
    /\ input_ended_ => output_finished_ /\ Len(got) + Len(urbuf_) = zlibWritten
=============================================================================
