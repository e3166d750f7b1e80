----------------------- MODULE BufferTransportsProofs -----------------------
(***************************************************************************)
(* A theorem about TMemoryBuffer, TBufferedTransport and TFramedTransport, *)
(* for any sizes of buffers, frames and calls.                             *)
(***************************************************************************)
EXTENDS BufferTransports, SequenceTheorems, TLAPS

-----------------------------------------------------------------------------
\* The inductive invariant.

\* A byte, of the client or of a header.
Byte == [of : Nat, part : Nat]
MemoryFields == {"bytes", "rBase", "rBound", "size", "max", "owner"}

IsMemory(m) == DOMAIN m = MemoryFields /\ m.bytes \in Seq(Byte) /\ m.rBase \in 0..Len(m.bytes)

BuffersTyped ==
  /\ transport \in {"memory", "buffered", "framed"} /\ produced \in Nat
  /\ IsMemory(memory)
  /\ wBuf_ \in Seq(Byte) /\ rBuf_ \in Seq(Byte) /\ rBase_ \in 0..Len(rBuf_) /\ consumed \in Seq(Byte)

\* A memory buffer by itself has no others; the buffer of a writer has a fixed size.
BuffersUsed ==
  /\ transport = "memory" => wBuf_ = << >> /\ rBuf_ = << >> /\ rBase_ = 0
  /\ transport = "buffered" => wBufSize_ \in Nat /\ Len(wBuf_) <= wBufSize_

\* Frames follow one another, each with its header and as many bytes as that tells.
StartsAt(s, i) == s[i].of > 0 /\ s[i].part = 1
FrameAt(s, i) ==
  LET size == s[i].of
      end == i + HeaderSize + size
  IN /\ end <= Len(s) + 1
     /\ \A k \in 1..HeaderSize : s[i + k - 1].of = size /\ s[i + k - 1].part = k
     /\ \A k \in (i + HeaderSize) .. (end - 1) : s[k].of = 0
     /\ end <= Len(s) => StartsAt(s, end)
WholeFrames(s) ==
  /\ s # << >> => StartsAt(s, 1)
  /\ \A i \in DOMAIN s : StartsAt(s, i) => FrameAt(s, i)

HeadersWhere ==
  /\ NoHeader(consumed) /\ NoHeader(rBuf_) /\ NoHeader(wBuf_)
  /\ IF transport = "framed" THEN failed = "no" => WholeFrames(InMemory(memory))
     ELSE NoHeader(InMemory(memory))

\* What is where between the client that writes and the one that reads.
Accounts(s, lost, n) ==
  /\ NumbersIn(s) \subseteq 1..n
  /\ lost = {} => 1..n \subseteq NumbersIn(s)
  /\ "repeat" \notin lost => Rising(s)

BuffersInv ==
  /\ BuffersTyped /\ BuffersUsed /\ HeadersWhere /\ Accounts(Stream, losses, produced)
  /\ failed # "cutShort"

-----------------------------------------------------------------------------
LEMMA CatFacts ==
  ASSUME NEW s \in Seq(Byte), NEW t \in Seq(Byte)
  PROVE  /\ s \o t \in Seq(Byte) /\ Len(s \o t) = Len(s) + Len(t)
         /\ DOMAIN s = 1..Len(s) /\ DOMAIN t = 1..Len(t) /\ DOMAIN (s \o t) = 1..(Len(s) + Len(t))
         /\ Len(s) \in Nat /\ Len(t) \in Nat
         /\ \A i \in 1..Len(s) : (s \o t)[i] = s[i]
         /\ \A i \in 1..Len(t) : (s \o t)[Len(s) + i] = t[i]
         /\ \A i \in 1..(Len(s) + Len(t)) : i \notin 1..Len(s) => (s \o t)[i] = t[i - Len(s)]
OBVIOUS

LEMMA ByteOf ==
  ASSUME NEW s \in Seq(Byte), NEW i \in DOMAIN s
  PROVE  s[i] \in Byte /\ s[i].of \in Nat /\ s[i].part \in Nat
<1>1. s[i] \in Byte
  OBVIOUS
<1> QED
  BY <1>1 DEF Byte

LEMMA NumbersMeans ==
  ASSUME NEW s, NEW x
  PROVE  x \in NumbersIn(s) <=> \E i \in DOMAIN s : s[i].of = 0 /\ x = s[i].part
BY DEF NumbersIn

LEMMA NumbersCat ==
  ASSUME NEW s \in Seq(Byte), NEW t \in Seq(Byte)
  PROVE  NumbersIn(s \o t) = NumbersIn(s) \cup NumbersIn(t)
<1> DEFINE u == s \o t
<1>1. /\ DOMAIN s = 1..Len(s) /\ DOMAIN t = 1..Len(t) /\ DOMAIN u = 1..(Len(s) + Len(t))
      /\ Len(s) \in Nat /\ Len(t) \in Nat
      /\ \A i \in 1..Len(s) : u[i] = s[i]
      /\ \A i \in 1..Len(t) : u[Len(s) + i] = t[i]
      /\ \A i \in 1..(Len(s) + Len(t)) : i \notin 1..Len(s) => u[i] = t[i - Len(s)]
  BY CatFacts
<1> HIDE DEF u
<1>2. ASSUME NEW x, x \in NumbersIn(u) PROVE x \in NumbersIn(s) \cup NumbersIn(t)
  <2>1. PICK i \in DOMAIN u : u[i].of = 0 /\ x = u[i].part
    BY <1>2, NumbersMeans
  <2>2. CASE i \in 1..Len(s)
    BY <1>1, <2>1, <2>2, NumbersMeans
  <2>3. CASE i \notin 1..Len(s)
    <3>1. i - Len(s) \in 1..Len(t) /\ u[i] = t[i - Len(s)]
      BY <1>1, <2>3
    <3> QED
      BY <1>1, <2>1, <3>1, NumbersMeans
  <2> QED
    BY <2>2, <2>3
<1>3. ASSUME NEW x, x \in NumbersIn(s) PROVE x \in NumbersIn(u)
  <2>1. PICK i \in DOMAIN s : s[i].of = 0 /\ x = s[i].part
    BY <1>3, NumbersMeans
  <2>2. i \in DOMAIN u /\ u[i] = s[i]
    BY <1>1
  <2> QED
    BY <2>1, <2>2, NumbersMeans
<1>4. ASSUME NEW x, x \in NumbersIn(t) PROVE x \in NumbersIn(u)
  <2>1. PICK i \in DOMAIN t : t[i].of = 0 /\ x = t[i].part
    BY <1>4, NumbersMeans
  <2>2. Len(s) + i \in DOMAIN u /\ u[Len(s) + i] = t[i]
    BY <1>1
  <2> QED
    BY <2>1, <2>2, NumbersMeans
<1> QED
  BY <1>2, <1>3, <1>4 DEF u

LEMMA RisingCat ==
  ASSUME NEW s \in Seq(Byte), NEW t \in Seq(Byte)
  PROVE  Rising(s \o t) <=> /\ Rising(s) /\ Rising(t)
                            /\ \A x \in NumbersIn(s), y \in NumbersIn(t) : x < y
<1> DEFINE u == s \o t
<1>1. /\ DOMAIN s = 1..Len(s) /\ DOMAIN t = 1..Len(t) /\ DOMAIN u = 1..(Len(s) + Len(t))
      /\ Len(s) \in Nat /\ Len(t) \in Nat
      /\ \A i \in 1..Len(s) : u[i] = s[i]
      /\ \A i \in 1..Len(t) : u[Len(s) + i] = t[i]
      /\ \A i \in 1..(Len(s) + Len(t)) : i \notin 1..Len(s) => u[i] = t[i - Len(s)]
  BY CatFacts
<1> HIDE DEF u
<1>2. ASSUME Rising(u) PROVE Rising(s) /\ Rising(t) /\ \A x \in NumbersIn(s), y \in NumbersIn(t) : x < y
  <2>1. Rising(s)
    BY <1>1, <1>2 DEF Rising
  <2>2. Rising(t)
    <3> SUFFICES ASSUME NEW i \in DOMAIN t, NEW j \in DOMAIN t, t[i].of = 0, t[j].of = 0, i < j
                 PROVE  t[i].part < t[j].part
      BY DEF Rising
    <3>1. Len(s) + i \in DOMAIN u /\ Len(s) + j \in DOMAIN u /\ Len(s) + i < Len(s) + j
      BY <1>1
    <3>2. u[Len(s) + i] = t[i] /\ u[Len(s) + j] = t[j]
      BY <1>1
    <3> QED
      BY <1>2, <3>1, <3>2 DEF Rising
  <2>3. ASSUME NEW x \in NumbersIn(s), NEW y \in NumbersIn(t) PROVE x < y
    <3>1. PICK i \in DOMAIN s : s[i].of = 0 /\ x = s[i].part
      BY NumbersMeans
    <3>2. PICK j \in DOMAIN t : t[j].of = 0 /\ y = t[j].part
      BY NumbersMeans
    <3>3. i \in DOMAIN u /\ Len(s) + j \in DOMAIN u /\ i < Len(s) + j
      BY <1>1
    <3>4. u[i] = s[i] /\ u[Len(s) + j] = t[j]
      BY <1>1
    <3> QED
      BY <1>2, <3>1, <3>2, <3>3, <3>4 DEF Rising
  <2> QED
    BY <2>1, <2>2, <2>3
<1>3. ASSUME Rising(s), Rising(t), \A x \in NumbersIn(s), y \in NumbersIn(t) : x < y PROVE Rising(u)
  <2> SUFFICES ASSUME NEW i \in DOMAIN u, NEW j \in DOMAIN u, u[i].of = 0, u[j].of = 0, i < j
               PROVE  u[i].part < u[j].part
    BY DEF Rising
  <2>1. CASE i \in 1..Len(s) /\ j \in 1..Len(s)
    BY <1>1, <1>3, <2>1 DEF Rising
  <2>2. CASE i \in 1..Len(s) /\ j \notin 1..Len(s)
    <3>1. u[i] = s[i] /\ j - Len(s) \in DOMAIN t /\ u[j] = t[j - Len(s)]
      BY <1>1, <2>2
    <3>2. u[i].part \in NumbersIn(s) /\ u[j].part \in NumbersIn(t)
      BY <1>1, <2>2, <3>1, NumbersMeans
    <3> QED
      BY <1>3, <3>2
  <2>3. CASE i \notin 1..Len(s)
    <3>1. /\ i - Len(s) \in DOMAIN t /\ u[i] = t[i - Len(s)]
          /\ j - Len(s) \in DOMAIN t /\ u[j] = t[j - Len(s)] /\ i - Len(s) < j - Len(s)
      BY <1>1, <2>3
    <3> QED
      BY <1>3, <3>1 DEF Rising
  <2> QED
    BY <2>1, <2>2, <2>3
<1> QED
  BY <1>2, <1>3 DEF u

LEMMA NoHeaderCat ==
  ASSUME NEW s \in Seq(Byte), NEW t \in Seq(Byte)
  PROVE  NoHeader(s \o t) <=> NoHeader(s) /\ NoHeader(t)
<1> DEFINE u == s \o t
<1>1. /\ DOMAIN s = 1..Len(s) /\ DOMAIN t = 1..Len(t) /\ DOMAIN u = 1..(Len(s) + Len(t))
      /\ Len(s) \in Nat /\ Len(t) \in Nat
      /\ \A i \in 1..Len(s) : u[i] = s[i]
      /\ \A i \in 1..Len(t) : u[Len(s) + i] = t[i]
      /\ \A i \in 1..(Len(s) + Len(t)) : i \notin 1..Len(s) => u[i] = t[i - Len(s)]
  BY CatFacts
<1> HIDE DEF u
<1>2. ASSUME NoHeader(u) PROVE NoHeader(s) /\ NoHeader(t)
  <2>1. NoHeader(s)
    BY <1>1, <1>2 DEF NoHeader
  <2>2. ASSUME NEW i \in DOMAIN t PROVE t[i].of = 0
    <3>1. Len(s) + i \in DOMAIN u /\ u[Len(s) + i] = t[i]
      BY <1>1
    <3> QED
      BY <1>2, <3>1 DEF NoHeader
  <2> QED
    BY <2>1, <2>2 DEF NoHeader
<1>3. ASSUME NoHeader(s), NoHeader(t), NEW i \in DOMAIN u PROVE u[i].of = 0
  <2>1. CASE i \in 1..Len(s)
    BY <1>1, <1>3, <2>1 DEF NoHeader
  <2>2. CASE i \notin 1..Len(s)
    <3>1. i - Len(s) \in DOMAIN t /\ u[i] = t[i - Len(s)]
      BY <1>1, <2>2
    <3> QED
      BY <1>3, <3>1 DEF NoHeader
  <2> QED
    BY <2>1, <2>2
<1> QED
  BY <1>2, <1>3 DEF NoHeader, u

\* A sequence is its parts, one after the other.
LEMMA SplitSeq ==
  ASSUME NEW s \in Seq(Byte), NEW a \in 0..Len(s), NEW b \in a..Len(s)
  PROVE  /\ SubSeq(s, a + 1, b) \in Seq(Byte) /\ Len(SubSeq(s, a + 1, b)) = b - a
         /\ \A i \in 1..(b - a) : SubSeq(s, a + 1, b)[i] = s[a + i]
         /\ SubSeq(s, a + 1, b) \o SubSeq(s, b + 1, Len(s)) = SubSeq(s, a + 1, Len(s))
<1>1. Len(s) \in Nat
  OBVIOUS
<1>2. /\ SubSeq(s, a + 1, b) \in Seq(Byte) /\ Len(SubSeq(s, a + 1, b)) = b - a
      /\ \A i \in 1..(b - a) : SubSeq(s, a + 1, b)[i] = s[a + i]
  BY <1>1
<1>3. a + 1 \in 1..Len(s) + 1 /\ b \in (a + 1) - 1 .. Len(s) /\ Len(s) \in b..Len(s)
  BY <1>1
<1>4. SubSeq(s, a + 1, b) \o SubSeq(s, b + 1, Len(s)) = SubSeq(s, a + 1, Len(s))
  BY <1>3, ConcatAdjacentSubSeq
<1> QED
  BY <1>2, <1>4

LEMMA TailOf ==
  ASSUME NEW s \in Seq(Byte), NEW a \in 0..Len(s)
  PROVE  LET x == SubSeq(s, a + 1, Len(s))
         IN x \in Seq(Byte) /\ Len(x) = Len(s) - a /\ \A i \in 1..(Len(s) - a) : x[i] = s[a + i]
<1>1. Len(s) \in a..Len(s)
  OBVIOUS
<1> QED
  BY <1>1, SplitSeq

LEMMA TailCat ==
  ASSUME NEW s \in Seq(Byte), NEW t \in Seq(Byte), NEW a \in 0..Len(s)
  PROVE  SubSeq(s \o t, a + 1, Len(s \o t)) = SubSeq(s, a + 1, Len(s)) \o t
<1> DEFINE u == s \o t
           x == SubSeq(u, a + 1, Len(u))
           y == SubSeq(s, a + 1, Len(s))
<1>1. /\ u \in Seq(Byte) /\ Len(u) = Len(s) + Len(t) /\ Len(s) \in Nat /\ Len(t) \in Nat
      /\ \A i \in 1..Len(s) : u[i] = s[i]
      /\ \A i \in 1..(Len(s) + Len(t)) : i \notin 1..Len(s) => u[i] = t[i - Len(s)]
  BY CatFacts
<1> HIDE DEF u
<1>2. x \in Seq(Byte) /\ Len(x) = Len(u) - a /\ \A i \in 1..(Len(u) - a) : x[i] = u[a + i]
  <2>1. a \in 0..Len(u)
    BY <1>1
  <2> QED
    BY <1>1, <2>1, TailOf
<1>3. y \in Seq(Byte) /\ Len(y) = Len(s) - a /\ \A i \in 1..(Len(s) - a) : y[i] = s[a + i]
  BY TailOf
<1> HIDE DEF x, y
<1>4. /\ y \o t \in Seq(Byte) /\ Len(y \o t) = Len(y) + Len(t)
      /\ \A i \in 1..Len(y) : (y \o t)[i] = y[i]
      /\ \A i \in 1..(Len(y) + Len(t)) : i \notin 1..Len(y) => (y \o t)[i] = t[i - Len(y)]
  BY <1>3, CatFacts
<1>5. ASSUME NEW i \in 1..(Len(u) - a) PROVE x[i] = (y \o t)[i]
  <2>1. CASE i \in 1..Len(y)
    <3>1. a + i \in 1..Len(s) /\ i \in 1..(Len(s) - a)
      BY <1>1, <1>3, <2>1
    <3> QED
      BY <1>1, <1>2, <1>3, <1>4, <2>1, <3>1
  <2>2. CASE i \notin 1..Len(y)
    <3>1. /\ a + i \in 1..(Len(s) + Len(t)) /\ a + i \notin 1..Len(s)
          /\ (a + i) - Len(s) = i - Len(y) /\ i \in 1..(Len(y) + Len(t))
      BY <1>1, <1>3, <2>2
    <3> QED
      BY <1>1, <1>2, <1>4, <2>2, <3>1
  <2> QED
    BY <2>1, <2>2
<1>6. Len(x) = Len(y \o t) /\ Len(x) = Len(u) - a
  BY <1>1, <1>2, <1>3, <1>4
<1>7. x = y \o t
  BY <1>2, <1>4, <1>5, <1>6, SeqEqual
<1> QED
  BY <1>7 DEF x, y, u

LEMMA PayloadFacts ==
  ASSUME NEW n \in Nat, NEW k \in Nat
  PROVE  LET p == Payload(n, n + k)
         IN /\ p \in Seq(Byte) /\ Len(p) = k /\ NoHeader(p) /\ Rising(p)
            /\ NumbersIn(p) = (n + 1) .. (n + k)
<1> DEFINE p == Payload(n, n + k)
<1>1. p = [i \in 1..k |-> [of |-> 0, part |-> n + i]]
  BY DEF Payload
<1>2. \A i \in 1..k : [of |-> 0, part |-> n + i] \in Byte
  BY DEF Byte
<1>3. \A i \in 1..k : p[i].of = 0 /\ p[i].part = n + i
  BY <1>1
<1>3a. p \in Seq(Byte) /\ Len(p) = k /\ DOMAIN p = 1..k
  <2> DEFINE byte(i) == [of |-> 0, part |-> n + i]
  <2>1. p = [i \in 1..k |-> byte(i)] /\ \A i \in 1..k : byte(i) \in Byte
    BY <1>1, <1>2
  <2> HIDE DEF byte, p
  <2>2. p \in [1..k -> Byte]
    BY <2>1
  <2> QED
    BY <2>2
<1> HIDE DEF p
<1>4. NoHeader(p) /\ Rising(p)
  BY <1>3, <1>3a DEF NoHeader, Rising
<1>5. ASSUME NEW x, x \in NumbersIn(p) PROVE x \in (n + 1) .. (n + k)
  BY <1>3, <1>3a, <1>5, NumbersMeans
<1>6. ASSUME NEW x \in (n + 1) .. (n + k) PROVE x \in NumbersIn(p)
  <2>1. x - n \in 1..k /\ x = n + (x - n)
    OBVIOUS
  <2> QED
    BY <1>3, <1>3a, <2>1, NumbersMeans
<1> QED
  BY <1>3, <1>3a, <1>4, <1>5, <1>6 DEF p

LEMMA FrameHeaderFacts ==
  ASSUME NEW size \in Nat \ {0}
  PROVE  LET h == FrameHeader(size)
         IN /\ h \in Seq(Byte) /\ Len(h) = HeaderSize /\ NumbersIn(h) = {}
            /\ \A i \in 1..HeaderSize : h[i].of = size /\ h[i].part = i
<1> DEFINE h == FrameHeader(size)
<1>1. HeaderSize \in Nat /\ \A i \in 1..HeaderSize : [of |-> size, part |-> i] \in Byte
  BY BufferAssumption DEF Byte
<1>2. h \in Seq(Byte) /\ Len(h) = HeaderSize /\ DOMAIN h = 1..HeaderSize
      /\ \A i \in 1..HeaderSize : h[i].of = size /\ h[i].part = i
  BY <1>1 DEF FrameHeader
<1> HIDE DEF h
<1>3. NumbersIn(h) = {}
  BY <1>2, NumbersMeans
<1> QED
  BY <1>2, <1>3 DEF h

\* More is written.
LEMMA AccountsAppended ==
  ASSUME NEW s \in Seq(Byte), NEW lost, NEW n \in Nat, NEW k \in Nat, Accounts(s, lost, n)
  PROVE  Accounts(s \o Payload(n, n + k), lost, n + k)
<1> DEFINE p == Payload(n, n + k)
<1>1. p \in Seq(Byte) /\ Rising(p) /\ NumbersIn(p) = (n + 1) .. (n + k)
  BY PayloadFacts
<1> HIDE DEF p
<1>2. NumbersIn(s \o p) = NumbersIn(s) \cup NumbersIn(p)
  BY <1>1, NumbersCat
<1>3. "repeat" \notin lost => Rising(s \o p)
  BY <1>1, RisingCat DEF Accounts
<1> QED
  BY <1>1, <1>2, <1>3 DEF Accounts, p

\* Bytes are lost before they were in the stream.
LEMMA AccountsRefused ==
  ASSUME NEW s, NEW lost, NEW more, NEW n \in Nat, NEW m \in Nat, Accounts(s, lost, n),
         lost \subseteq more, more # {}, n <= m
  PROVE  Accounts(s, more, m)
BY DEF Accounts

\* Bytes leave the stream that are lost or none of the client's.
LEMMA AccountsWithout ==
  ASSUME NEW a \in Seq(Byte), NEW h \in Seq(Byte), NEW b \in Seq(Byte), NEW lost, NEW more, NEW n \in Nat,
         Accounts((a \o h) \o b, lost, n), lost \subseteq more, more = {} => NumbersIn(h) = {}
  PROVE  Accounts(a \o b, more, n)
<1>1. a \o h \in Seq(Byte)
  BY CatFacts
<1>2. /\ NumbersIn((a \o h) \o b) = NumbersIn(a) \cup NumbersIn(h) \cup NumbersIn(b)
      /\ NumbersIn(a \o b) = NumbersIn(a) \cup NumbersIn(b)
      /\ NumbersIn(a \o h) = NumbersIn(a) \cup NumbersIn(h)
  BY <1>1, NumbersCat
<1>3. Rising((a \o h) \o b) => Rising(a \o b)
  BY <1>1, <1>2, RisingCat
<1> QED
  BY <1>2, <1>3 DEF Accounts

\* A header enters it.
LEMMA AccountsWith ==
  ASSUME NEW a \in Seq(Byte), NEW h \in Seq(Byte), NEW b \in Seq(Byte), NEW lost, NEW n \in Nat,
         Accounts(a \o b, lost, n), NumbersIn(h) = {}
  PROVE  Accounts((a \o h) \o b, lost, n)
<1>1. a \o h \in Seq(Byte)
  BY CatFacts
<1>2. /\ NumbersIn((a \o h) \o b) = NumbersIn(a) \cup NumbersIn(h) \cup NumbersIn(b)
      /\ NumbersIn(a \o b) = NumbersIn(a) \cup NumbersIn(b)
      /\ NumbersIn(a \o h) = NumbersIn(a) \cup NumbersIn(h)
  BY <1>1, NumbersCat
<1>3. Rising(h)
  BY NumbersMeans DEF Rising
<1>4. Rising(a \o b) => Rising((a \o h) \o b)
  BY <1>1, <1>2, <1>3, RisingCat
<1> QED
  BY <1>2, <1>4 DEF Accounts

LEMMA MinOfTwo ==
  ASSUME NEW a \in Int, NEW b \in Int
  PROVE  Min({a, b}) = IF a <= b THEN a ELSE b
<1>1. \A x \in {a, b} : (\A y \in {a, b} : x <= y) => x = IF a <= b THEN a ELSE b
  OBVIOUS
<1>2. \E x \in {a, b} : \A y \in {a, b} : x <= y
  OBVIOUS
<1> QED
  BY <1>1, <1>2 DEF Min

\* ------------------------------------------------------------------------
LEMMA WrittenFacts ==
  ASSUME NEW m, IsMemory(m), NEW data \in Seq(Byte), NEW size
  PROVE  LET w == [m EXCEPT !.bytes = @ \o data, !.size = size]
         IN IsMemory(w) /\ InMemory(w) = InMemory(m) \o data
<1> DEFINE b == m.bytes
           u == b \o data
           v == [m EXCEPT !.bytes = u]
           w == [m EXCEPT !.bytes = @ \o data, !.size = size]
<1>1. b \in Seq(Byte) /\ m.rBase \in 0..Len(b) /\ DOMAIN m = MemoryFields
  BY DEF IsMemory
<1>2. u \in Seq(Byte) /\ Len(u) = Len(b) + Len(data) /\ Len(b) \in Nat /\ Len(data) \in Nat
  BY <1>1, CatFacts
<1>3. v.bytes = u /\ v.rBase = m.rBase /\ DOMAIN v = MemoryFields
  BY <1>1 DEF MemoryFields
<1>4. w = [v EXCEPT !.size = size]
  BY <1>1
<1> HIDE DEF v, w
<1>5. w.bytes = u /\ w.rBase = m.rBase /\ DOMAIN w = MemoryFields
  BY <1>3, <1>4 DEF MemoryFields
<1>6. IsMemory(w)
  BY <1>1, <1>2, <1>5 DEF IsMemory
<1>7. SubSeq(u, m.rBase + 1, Len(u)) = SubSeq(b, m.rBase + 1, Len(b)) \o data
  BY <1>1, TailCat
<1> QED
  BY <1>5, <1>6, <1>7 DEF InMemory, w

LEMMA LeftInMemory ==
  ASSUME NEW m, IsMemory(m)
  PROVE  /\ InMemory(m) \in Seq(Byte) /\ Len(InMemory(m)) = available_read(m) /\ available_read(m) \in Nat
         /\ \A i \in 1..available_read(m) : InMemory(m)[i] = m.bytes[m.rBase + i]
<1> DEFINE b == m.bytes
           a == m.rBase
<1>1. b \in Seq(Byte) /\ a \in 0..Len(b) /\ Len(b) \in Nat
  BY DEF IsMemory
<1>2. available_read(m) = Len(b) - a /\ InMemory(m) = SubSeq(b, a + 1, Len(b))
  BY DEF InMemory, available_read
<1> HIDE DEF a, b
<1>3. LET x == SubSeq(b, a + 1, Len(b))
      IN x \in Seq(Byte) /\ Len(x) = Len(b) - a /\ \A i \in 1..(Len(b) - a) : x[i] = b[a + i]
  BY <1>1, TailOf
<1>4. available_read(m) \in Nat
  BY <1>1, <1>2
<1> QED
  BY <1>2, <1>3, <1>4 DEF a, b

\* What a read gives is what is no longer there.
LEMMA ReadFromFacts ==
  ASSUME NEW m, IsMemory(m), NEW n \in Nat
  PROVE  /\ IsMemory(ReadFrom(m, n)) /\ ReadFrom(m, n).bytes = m.bytes
         /\ Given(m, n) \in Seq(Byte) /\ Given(m, n) \o InMemory(ReadFrom(m, n)) = InMemory(m)
         /\ InMemory(ReadFrom(m, n)) \in Seq(Byte)
         /\ Len(Given(m, n)) = IF n <= available_read(m) THEN n ELSE available_read(m)
         /\ \A i \in 1..Len(Given(m, n)) : Given(m, n)[i] = InMemory(m)[i]
<1> DEFINE k == IF n <= available_read(m) THEN n ELSE available_read(m)
           r == ReadFrom(m, n)
<1>1. /\ m.bytes \in Seq(Byte) /\ m.rBase \in 0..Len(m.bytes) /\ DOMAIN m = MemoryFields
      /\ available_read(m) = Len(m.bytes) - m.rBase /\ Len(m.bytes) \in Nat
  BY DEF IsMemory, available_read
<1>2. Min({n, available_read(m)}) = k /\ k \in Nat /\ m.rBase + k \in m.rBase..Len(m.bytes)
  BY <1>1, MinOfTwo
<1> HIDE DEF k
<1>3. r.bytes = m.bytes /\ r.rBase = m.rBase + k /\ DOMAIN r = MemoryFields
  <2> DEFINE v == [m EXCEPT !.rBase = m.rBase + k]
             c == IF m.rBase + n <= m.rBound THEN m.rBound ELSE Len(m.bytes)
  <2>1. v.bytes = m.bytes /\ v.rBase = m.rBase + k /\ v.rBound = m.rBound /\ DOMAIN v = MemoryFields
    BY <1>1 DEF MemoryFields
  <2>2. r = [v EXCEPT !.rBound = c]
    BY <1>1, <1>2 DEF ReadFrom, MemoryFields
  <2> HIDE DEF v, c
  <2> QED
    BY <2>1, <2>2 DEF MemoryFields
<1> HIDE DEF r
<1>4. IsMemory(r)
  BY <1>1, <1>2, <1>3 DEF IsMemory
<1>5. Given(m, n) = SubSeq(m.bytes, m.rBase + 1, m.rBase + k)
  BY <1>2 DEF Given
<1>6. InMemory(r) = SubSeq(m.bytes, (m.rBase + k) + 1, Len(m.bytes))
  BY <1>3 DEF InMemory
<1>7. /\ Given(m, n) \in Seq(Byte) /\ Len(Given(m, n)) = (m.rBase + k) - m.rBase
      /\ \A i \in 1..((m.rBase + k) - m.rBase) : Given(m, n)[i] = m.bytes[m.rBase + i]
      /\ Given(m, n) \o InMemory(r) = InMemory(m)
  <2> DEFINE s == m.bytes
             a == m.rBase
             b == a + k
  <2>1. s \in Seq(Byte) /\ a \in 0..Len(s) /\ b \in a..Len(s)
    BY <1>1, <1>2
  <2>2. /\ Given(m, n) = SubSeq(s, a + 1, b) /\ InMemory(r) = SubSeq(s, b + 1, Len(s))
        /\ InMemory(m) = SubSeq(s, a + 1, Len(s))
    BY <1>5, <1>6 DEF InMemory
  <2> HIDE DEF s, a, b
  <2>3. /\ SubSeq(s, a + 1, b) \in Seq(Byte) /\ Len(SubSeq(s, a + 1, b)) = b - a
        /\ \A i \in 1..(b - a) : SubSeq(s, a + 1, b)[i] = s[a + i]
        /\ SubSeq(s, a + 1, b) \o SubSeq(s, b + 1, Len(s)) = SubSeq(s, a + 1, Len(s))
    BY <2>1, SplitSeq
  <2> QED
    BY <2>2, <2>3 DEF s, a, b
<1>8. (m.rBase + k) - m.rBase = k /\ k <= available_read(m)
  BY <1>1, <1>2
<1>9. \A i \in 1..available_read(m) : InMemory(m)[i] = m.bytes[m.rBase + i]
  BY LeftInMemory
<1>10. \A i \in 1..Len(Given(m, n)) : Given(m, n)[i] = InMemory(m)[i]
  BY <1>1, <1>2, <1>7, <1>8, <1>9
<1>11. InMemory(r) \in Seq(Byte)
  BY <1>4, LeftInMemory
<1> QED
  BY <1>3, <1>4, <1>7, <1>8, <1>10, <1>11 DEF r, k

\* A frame is put behind whole frames.
LEMMA FrameAppended ==
  ASSUME NEW s \in Seq(Byte), WholeFrames(s), NEW w \in Seq(Byte), Len(w) # 0, NoHeader(w)
  PROVE  /\ FrameHeader(Len(w)) \o w \in Seq(Byte)
         /\ WholeFrames(s \o (FrameHeader(Len(w)) \o w))
<1> DEFINE size == Len(w)
           h == FrameHeader(size)
           f == h \o w
           u == s \o f
           n == Len(s)
<1>1. size \in Nat \ {0} /\ HeaderSize \in Nat \ {0} /\ n \in Nat /\ DOMAIN w = 1..size
  BY BufferAssumption
<1>2. h \in Seq(Byte) /\ Len(h) = HeaderSize /\ \A i \in 1..HeaderSize : h[i].of = size /\ h[i].part = i
  BY <1>1, FrameHeaderFacts
<1> HIDE DEF h
<1>3. /\ f \in Seq(Byte) /\ Len(f) = HeaderSize + size
      /\ \A i \in 1..HeaderSize : f[i] = h[i]
      /\ \A i \in 1..(HeaderSize + size) : i \notin 1..HeaderSize => f[i] = w[i - HeaderSize]
  BY <1>2, CatFacts
<1>4. /\ \A i \in 1..HeaderSize : f[i].of = size /\ f[i].part = i
      /\ \A i \in (HeaderSize + 1)..(HeaderSize + size) : f[i].of = 0
  <2>1. ASSUME NEW i \in (HeaderSize + 1)..(HeaderSize + size) PROVE f[i].of = 0
    <3>1. i \in 1..(HeaderSize + size) /\ i \notin 1..HeaderSize /\ i - HeaderSize \in DOMAIN w
      BY <1>1
    <3> QED
      BY <1>3, <3>1 DEF NoHeader
  <2> QED
    BY <1>2, <1>3, <2>1
<1> HIDE DEF f, size
<1>5a. /\ u \in Seq(Byte) /\ Len(u) = Len(s) + Len(f) /\ DOMAIN u = 1..(Len(s) + Len(f))
       /\ \A i \in 1..Len(s) : u[i] = s[i]
       /\ \A i \in 1..Len(f) : u[Len(s) + i] = f[i]
       /\ DOMAIN s = 1..Len(s)
  BY <1>3, CatFacts
<1> HIDE DEF u
<1>5. /\ u \in Seq(Byte) /\ Len(u) = n + (HeaderSize + size) /\ DOMAIN u = 1..(n + (HeaderSize + size))
      /\ \A i \in 1..n : u[i] = s[i]
      /\ \A i \in 1..(HeaderSize + size) : u[n + i] = f[i]
      /\ DOMAIN s = 1..n
  BY <1>3, <1>5a
<1> HIDE DEF n
<1>6. StartsAt(u, n + 1)
  <2>1. 1 \in 1..HeaderSize /\ 1 \in 1..(HeaderSize + size)
    BY <1>1
  <2> QED
    BY <1>1, <1>4, <1>5, <2>1 DEF StartsAt
<1>7. u # << >> => StartsAt(u, 1)
  <2>1. CASE n = 0
    BY <1>6, <2>1
  <2>2. CASE n # 0
    <3>1. 1 \in 1..n /\ s # << >>
      BY <1>1, <2>2 DEF n
    <3> QED
      BY <1>5, <3>1 DEF WholeFrames, StartsAt
  <2> QED
    BY <2>1, <2>2
<1>8. ASSUME NEW i \in 1..n, StartsAt(u, i) PROVE FrameAt(u, i)
  <2> DEFINE z == s[i].of
             end == i + HeaderSize + z
  <2>1. StartsAt(s, i) /\ u[i] = s[i] /\ z \in Nat
    <3>1. u[i] = s[i] /\ s[i].of \in Nat
      BY <1>5, ByteOf
    <3> QED
      BY <1>8, <3>1 DEF StartsAt
  <2>2. /\ end <= n + 1
        /\ \A k \in 1..HeaderSize : s[i + k - 1].of = z /\ s[i + k - 1].part = k
        /\ \A k \in (i + HeaderSize) .. (end - 1) : s[k].of = 0
        /\ end <= n => StartsAt(s, end)
    BY <1>5, <2>1 DEF WholeFrames, FrameAt, n
  <2>3. end \in 1..(n + 1) /\ end = i + HeaderSize + z
    BY <1>1, <2>1, <2>2
  <2> HIDE DEF z
  <2>4. \A k \in 1..HeaderSize : u[i + k - 1].of = z /\ u[i + k - 1].part = k
    <3> TAKE k \in 1..HeaderSize
    <3>1. i + k - 1 \in 1..n
      BY <1>1, <2>1, <2>3
    <3> QED
      BY <1>5, <2>2, <3>1
  <2>5. \A k \in (i + HeaderSize) .. (end - 1) : u[k].of = 0
    <3> TAKE k \in (i + HeaderSize) .. (end - 1)
    <3>1. k \in 1..n
      BY <1>1, <2>1, <2>3
    <3> QED
      BY <1>5, <2>2, <3>1
  <2>6. StartsAt(u, end)
    <3>1. CASE end \in 1..n
      BY <1>5, <2>2, <3>1 DEF StartsAt
    <3>2. CASE end = n + 1
      BY <1>6, <3>2
    <3> QED
      BY <1>1, <2>3, <3>1, <3>2
  <2>7. end <= Len(u) + 1
    BY <1>1, <1>5, <2>2, <2>3
  <2>8. u[i].of = z
    BY <2>1 DEF z
  <2> HIDE DEF end
  <2>9. i + HeaderSize + u[i].of = end
    BY <2>3, <2>8
  <2> QED
    BY <2>4, <2>5, <2>6, <2>7, <2>8, <2>9 DEF FrameAt
<1>9. FrameAt(u, n + 1)
  <2> DEFINE i == n + 1
             end == i + HeaderSize + size
  <2>1. 1 \in 1..HeaderSize /\ u[i].of = size
    <3>1. 1 \in 1..HeaderSize /\ 1 \in 1..(HeaderSize + size)
      BY <1>1
    <3>2. u[n + 1] = f[1] /\ f[1].of = size
      BY <1>4, <1>5, <3>1
    <3> QED
      BY <3>1, <3>2
  <2>2. end = Len(u) + 1 /\ ~(end <= Len(u))
    BY <1>1, <1>5
  <2>3. \A k \in 1..HeaderSize : u[i + k - 1].of = size /\ u[i + k - 1].part = k
    <3> TAKE k \in 1..HeaderSize
    <3>1. i + k - 1 = n + k /\ k \in 1..(HeaderSize + size)
      BY <1>1
    <3> QED
      BY <1>4, <1>5, <3>1
  <2>4. \A k \in (i + HeaderSize) .. (end - 1) : u[k].of = 0
    <3> TAKE k \in (i + HeaderSize) .. (end - 1)
    <3>1. /\ k - n \in (HeaderSize + 1)..(HeaderSize + size) /\ n + (k - n) = k
          /\ k - n \in 1..(HeaderSize + size)
      BY <1>1
    <3>2. u[n + (k - n)] = f[k - n]
      BY <1>5, <3>1
    <3> QED
      BY <1>4, <3>1, <3>2
  <2> QED
    BY <2>1, <2>2, <2>3, <2>4 DEF FrameAt
<1>10. ASSUME NEW i \in DOMAIN u, i \notin 1..n, StartsAt(u, i) PROVE i = n + 1
  <2>1. i - n \in 1..(HeaderSize + size) /\ n + (i - n) = i
    BY <1>1, <1>5, <1>10
  <2>2. u[i] = f[i - n]
    BY <1>5, <2>1
  <2>3. CASE i - n \in 1..HeaderSize
    BY <1>1, <1>4, <1>5, <1>10, <2>1, <2>2, <2>3 DEF StartsAt
  <2>4. CASE i - n \notin 1..HeaderSize
    <3>1. i - n \in (HeaderSize + 1)..(HeaderSize + size)
      BY <1>1, <2>1, <2>4
    <3> QED
      BY <1>4, <1>10, <2>2, <3>1 DEF StartsAt
  <2> QED
    BY <2>3, <2>4
<1>11. WholeFrames(u)
  BY <1>7, <1>8, <1>9, <1>10 DEF WholeFrames
<1>12. f \in Seq(Byte) /\ WholeFrames(u)
  BY <1>3, <1>11
<1> QED
  BY <1>12 DEF u, f, h, size

LEMMA FramePlaces ==
  ASSUME NEW i \in Nat \ {0}, NEW h \in Nat \ {0}, NEW y \in Nat, NEW n \in Nat, NEW c \in Nat,
         (c + i) + h + y <= n + 1
  PROVE  /\ i + h + y \in Nat \ {0} /\ i + h + y <= (n - c) + 1 /\ (c + i) + h + y = c + (i + h + y)
         /\ \A k \in 1..h : i + k - 1 \in 1..(n - c) /\ c + (i + k - 1) = (c + i) + k - 1
         /\ \A k \in (i + h) .. ((i + h + y) - 1) :
              k \in 1..(n - c) /\ c + k \in ((c + i) + h) .. (((c + i) + h + y) - 1)
         /\ i + h + y <= n - c => i + h + y \in 1..(n - c) /\ (c + i) + h + y <= n
OBVIOUS

\* The first frame is taken from whole frames.
LEMMA FrameTaken ==
  ASSUME NEW s \in Seq(Byte), WholeFrames(s), s # << >>
  PROVE  /\ s[1].of \in Nat \ {0} /\ HeaderSize + s[1].of <= Len(s)
         /\ \A k \in 1..HeaderSize : s[k].of = s[1].of
         /\ \A k \in 1..s[1].of : s[HeaderSize + k].of = 0
         /\ \A t \in Seq(Byte) :
              /\ Len(t) = Len(s) - (HeaderSize + s[1].of)
              /\ \A i \in 1..Len(t) : t[i] = s[(HeaderSize + s[1].of) + i]
              => WholeFrames(t)
<1> DEFINE n == Len(s)
           z == s[1].of
           c == HeaderSize + z
<1>1. n \in Nat \ {0} /\ DOMAIN s = 1..n /\ HeaderSize \in Nat \ {0} /\ z \in Nat /\ 1 \in DOMAIN s
  <2>1. Len(s) \in Nat \ {0} /\ DOMAIN s = 1..Len(s) /\ HeaderSize \in Nat \ {0}
    BY BufferAssumption
  <2>2. 1 \in DOMAIN s
    BY <2>1
  <2> QED
    BY <2>1, <2>2, ByteOf
<1>2. StartsAt(s, 1) /\ FrameAt(s, 1)
  BY <1>1 DEF WholeFrames
<1>3. /\ z > 0 /\ 1 + HeaderSize + z <= n + 1
      /\ \A k \in 1..HeaderSize : s[1 + k - 1].of = z
      /\ \A k \in (1 + HeaderSize) .. ((1 + HeaderSize + z) - 1) : s[k].of = 0
      /\ 1 + HeaderSize + z <= n => StartsAt(s, 1 + HeaderSize + z)
  BY <1>2 DEF StartsAt, FrameAt
<1>4. n = Len(s) /\ z = s[1].of
  OBVIOUS
<1> HIDE DEF n, z
<1>5. c \in Nat /\ c <= n /\ (c < n => StartsAt(s, c + 1))
  <2>1. c + 1 = 1 + HeaderSize + z
    BY <1>1
  <2> QED
    BY <1>1, <1>3, <2>1
<1>6. \A k \in 1..HeaderSize : s[k].of = z
  <2> TAKE k \in 1..HeaderSize
  <2>1. 1 + k - 1 = k
    BY <1>1
  <2> QED
    BY <1>3, <2>1
<1>7. \A k \in 1..z : s[HeaderSize + k].of = 0
  <2> TAKE k \in 1..z
  <2>1. HeaderSize + k \in (1 + HeaderSize) .. ((1 + HeaderSize + z) - 1)
    BY <1>1
  <2> QED
    BY <1>3, <2>1
<1>8. ASSUME NEW t \in Seq(Byte), Len(t) = n - c, \A i \in 1..Len(t) : t[i] = s[c + i]
      PROVE  WholeFrames(t)
  <2>1. Len(t) \in Nat /\ DOMAIN t = 1..Len(t) /\ \A i \in 1..Len(t) : c + i \in 1..n
    BY <1>1, <1>5, <1>8
  <2>2. t # << >> => StartsAt(t, 1)
    <3> SUFFICES ASSUME t # << >> PROVE StartsAt(t, 1)
      OBVIOUS
    <3>1. Len(t) # 0
      BY <2>1
    <3>2. 1 \in 1..Len(t) /\ c < n
      BY <1>1, <1>5, <1>8, <2>1, <3>1
    <3> QED
      BY <1>5, <1>8, <3>2 DEF StartsAt
  <2>3. ASSUME NEW i \in DOMAIN t, StartsAt(t, i) PROVE FrameAt(t, i)
    <3> DEFINE y == t[i].of
               end == i + HeaderSize + y
               j == c + i
    <3>1. StartsAt(s, j) /\ j \in DOMAIN s /\ s[j].of = y /\ y \in Nat
      <4>1. j \in DOMAIN s /\ t[i] = s[j] /\ t[i].of \in Nat
        BY <1>1, <1>8, <2>1, ByteOf
      <4> QED
        BY <2>3, <4>1 DEF StartsAt
    <3>2. FrameAt(s, j)
      BY <3>1 DEF WholeFrames
    <3>3. /\ j + HeaderSize + y <= n + 1
          /\ \A k \in 1..HeaderSize : s[j + k - 1].of = y /\ s[j + k - 1].part = k
          /\ \A k \in (j + HeaderSize) .. ((j + HeaderSize + y) - 1) : s[k].of = 0
          /\ j + HeaderSize + y <= n => StartsAt(s, j + HeaderSize + y)
      BY <1>4, <3>1, <3>2 DEF FrameAt
    <3>4. y = t[i].of /\ i \in 1..Len(t)
      BY <2>1
    <3>4a. y \in Nat /\ Len(t) \in Nat /\ c \in Nat /\ HeaderSize \in Nat \ {0} /\ n \in Nat
      BY <1>1, <1>5, <2>1, <3>1
    <3>4b. Len(t) = n - c /\ j = c + i /\ end = i + HeaderSize + y
      BY <1>8
    <3>4c. i \in Nat \ {0} /\ (c + i) + HeaderSize + y <= n + 1
      BY <2>1, <3>3
    <3> HIDE DEF y, c
    <3>5. /\ end \in Nat \ {0} /\ end <= (n - c) + 1 /\ j + HeaderSize + y = c + end
          /\ \A k \in 1..HeaderSize : i + k - 1 \in 1..(n - c) /\ c + (i + k - 1) = j + k - 1
          /\ \A k \in (i + HeaderSize) .. (end - 1) :
               k \in 1..(n - c) /\ c + k \in (j + HeaderSize) .. ((j + HeaderSize + y) - 1)
          /\ end <= n - c => end \in 1..(n - c) /\ j + HeaderSize + y <= n
      BY <3>4a, <3>4c, FramePlaces
    <3> HIDE DEF end, j
    <3>6. \A k \in 1..HeaderSize : t[i + k - 1].of = y /\ t[i + k - 1].part = k
      <4> TAKE k \in 1..HeaderSize
      <4>1. i + k - 1 \in 1..Len(t) /\ c + (i + k - 1) = j + k - 1
        BY <3>4b, <3>5
      <4> QED
        BY <1>8, <3>3, <4>1
    <3>7. \A k \in (i + HeaderSize) .. (end - 1) : t[k].of = 0
      <4> TAKE k \in (i + HeaderSize) .. (end - 1)
      <4>1. k \in 1..Len(t) /\ c + k \in (j + HeaderSize) .. ((j + HeaderSize + y) - 1)
        BY <3>4b, <3>5
      <4> QED
        BY <1>8, <3>3, <4>1
    <3>8. end <= Len(t) => StartsAt(t, end)
      <4> SUFFICES ASSUME end <= Len(t) PROVE StartsAt(t, end)
        OBVIOUS
      <4>1. end \in 1..Len(t) /\ j + HeaderSize + y <= n
        BY <3>4b, <3>5
      <4>2. t[end] = s[c + end] /\ StartsAt(s, c + end)
        BY <1>8, <3>3, <3>5, <4>1
      <4> QED
        BY <4>2 DEF StartsAt
    <3> QED
      BY <3>4, <3>4b, <3>5, <3>6, <3>7, <3>8 DEF FrameAt
  <2> QED
    BY <2>2, <2>3 DEF WholeFrames
<1> QED
  BY <1>1, <1>3, <1>5, <1>6, <1>7, <1>8 DEF n, z

\* ------------------------------------------------------------------------
\* What the client has read, what is in the reader's buffer, in memory and in the writer's.
Place(a, b, m, w) == ((a \o b) \o m) \o w

LEMMA Assoc ==
  ASSUME NEW a \in Seq(Byte), NEW b \in Seq(Byte), NEW c \in Seq(Byte)
  PROVE  (a \o b) \o c = a \o (b \o c)
BY ConcatAssociative

LEMMA CatTyped ==
  ASSUME NEW a \in Seq(Byte), NEW b \in Seq(Byte)
  PROVE  a \o b \in Seq(Byte)
OBVIOUS

LEMMA WithNothing ==
  ASSUME NEW a \in Seq(Byte)
  PROVE  a \o << >> = a /\ << >> \o a = a /\ << >> \in Seq(Byte)
BY ConcatEmptySeq

LEMMA PlaceTyped ==
  ASSUME NEW a \in Seq(Byte), NEW b \in Seq(Byte), NEW m \in Seq(Byte), NEW w \in Seq(Byte)
  PROVE  Place(a, b, m, w) \in Seq(Byte)
<1>1. a \o b \in Seq(Byte)
  BY CatTyped
<1>2. (a \o b) \o m \in Seq(Byte)
  BY <1>1, CatTyped
<1> QED
  BY <1>2, CatFacts DEF Place

\* Where the border between two places is makes no difference.
LEMMA AccountsToWriter ==
  ASSUME NEW a \in Seq(Byte), NEW b \in Seq(Byte), NEW m \in Seq(Byte), NEW w \in Seq(Byte),
         NEW v \in Seq(Byte), NEW lost, NEW n, Accounts(Place(a, b, m, w) \o v, lost, n)
  PROVE  Accounts(Place(a, b, m, w \o v), lost, n)
<1>1. (a \o b) \o m \in Seq(Byte)
  BY CatTyped
<1> DEFINE x == (a \o b) \o m
<1>2. x \in Seq(Byte) /\ Place(a, b, m, w \o v) = x \o (w \o v) /\ Place(a, b, m, w) = x \o w
  BY <1>1 DEF Place
<1> HIDE DEF x
<1>3. (x \o w) \o v = x \o (w \o v)
  BY <1>2, Assoc, Zenon
<1> QED
  BY <1>2, <1>3, Zenon

LEMMA Flushed ==
  ASSUME NEW a \in Seq(Byte), NEW b \in Seq(Byte), NEW m \in Seq(Byte), NEW w \in Seq(Byte),
         NEW v \in Seq(Byte)
  PROVE  Place(a, b, m \o w, v) = Place(a, b, m, w \o v)
<1> DEFINE x == a \o b
<1>1. x \in Seq(Byte)
  BY CatTyped
<1> HIDE DEF x
<1>2. x \o (m \o w) = (x \o m) \o w
  BY <1>1, Assoc, Zenon
<1>2a. x \o m \in Seq(Byte)
  BY <1>1, CatTyped
<1>3. ((x \o m) \o w) \o v = (x \o m) \o (w \o v)
  BY <1>2a, Assoc, Zenon
<1> QED
  BY <1>2, <1>3, Zenon DEF Place, x

LEMMA Filled ==
  ASSUME NEW a \in Seq(Byte), NEW b \in Seq(Byte), NEW m \in Seq(Byte), NEW w \in Seq(Byte),
         NEW d \in Seq(Byte)
  PROVE  Place(a, b \o d, m, w) = Place(a, b, d \o m, w)
<1>1. a \o (b \o d) = (a \o b) \o d
  BY Assoc, Zenon
<1>1a. a \o b \in Seq(Byte)
  BY CatTyped
<1>2. ((a \o b) \o d) \o m = (a \o b) \o (d \o m)
  BY <1>1a, Assoc, Zenon
<1> QED
  BY <1>1, <1>2, Zenon DEF Place

LEMMA HandedOver ==
  ASSUME NEW a \in Seq(Byte), NEW b \in Seq(Byte), NEW m \in Seq(Byte), NEW w \in Seq(Byte),
         NEW g \in Seq(Byte)
  PROVE  Place(a \o g, b, m, w) = Place(a, g \o b, m, w)
<1>1. (a \o g) \o b = a \o (g \o b)
  BY Assoc, Zenon
<1> QED
  BY <1>1, Zenon DEF Place

\* A read from memory, with nothing in the reader's buffer before.
LEMMA ReadThrough ==
  ASSUME NEW a \in Seq(Byte), NEW g \in Seq(Byte), NEW b \in Seq(Byte), NEW m \in Seq(Byte),
         NEW w \in Seq(Byte)
  PROVE  Place(a \o g, b, m, w) = Place(a, << >>, (g \o b) \o m, w)
<1> DEFINE d == g \o b
           e == << >>
<1>1. d \in Seq(Byte) /\ e \in Seq(Byte)
  BY CatTyped, WithNothing
<1>1a. e \o d = d
  BY <1>1, WithNothing
<1>2. Place(a \o g, b, m, w) = Place(a, d, m, w)
  BY HandedOver
<1> HIDE DEF d, e
<1>3. Place(a, e \o d, m, w) = Place(a, e, d \o m, w)
  BY <1>1, Filled
<1>4. Place(a \o g, b, m, w) = Place(a, e, d \o m, w)
  BY <1>1a, <1>2, <1>3, Zenon
<1> QED
  BY <1>4, Zenon DEF d, e

\* What the writer's buffer held is lost.
LEMMA LostByWriter ==
  ASSUME NEW a \in Seq(Byte), NEW b \in Seq(Byte), NEW m \in Seq(Byte), NEW w \in Seq(Byte),
         NEW lost, NEW more, NEW n \in Nat, Accounts(Place(a, b, m, w), lost, n),
         lost \subseteq more, more # {}
  PROVE  Accounts(Place(a, b, m, << >>), more, n)
<1> DEFINE x == (a \o b) \o m
<1>1. x \in Seq(Byte) /\ << >> \in Seq(Byte)
  BY CatTyped, WithNothing
<1>2. Place(a, b, m, w) = x \o w /\ Place(a, b, m, << >>) = x \o << >>
  BY DEF Place
<1> HIDE DEF x
<1>3. (x \o w) \o << >> = x \o w
  BY <1>1, CatTyped, WithNothing
<1>4. Accounts((x \o w) \o << >>, lost, n)
  BY <1>2, <1>3, Zenon
<1>5. Accounts(x \o << >>, more, n)
  BY <1>1, <1>4, AccountsWithout, Zenon
<1> QED
  BY <1>2, <1>5, Zenon

LEMMA LostBetween ==
  ASSUME NEW x \in Seq(Byte), NEW h \in Seq(Byte), NEW y \in Seq(Byte), NEW lost, NEW more,
         NEW n \in Nat, Accounts(x \o (h \o y), lost, n), lost \subseteq more,
         more = {} => NumbersIn(h) = {}
  PROVE  Accounts(x \o y, more, n)
<1>1. (x \o h) \o y = x \o (h \o y)
  BY Assoc, Zenon
<1>2. Accounts((x \o h) \o y, lost, n)
  BY <1>1, Zenon
<1> QED
  BY <1>2, AccountsWithout

LEMMA LostOfFour ==
  ASSUME NEW x \in Seq(Byte), NEW h \in Seq(Byte), NEW m \in Seq(Byte), NEW w \in Seq(Byte)
  PROVE  \A lost, more : \A n \in Nat :
           /\ Accounts((x \o (h \o m)) \o w, lost, n)
           /\ lost \subseteq more /\ (more = {} => NumbersIn(h) = {})
           => Accounts((x \o m) \o w, more, n)
<1>1. (x \o (h \o m)) \o w = x \o (h \o (m \o w))
  <2>1. (h \o m) \o w = h \o (m \o w)
    BY Assoc, Zenon
  <2> DEFINE z == h \o m
  <2>2. z \in Seq(Byte)
    BY CatTyped
  <2>3. z = h \o m
    OBVIOUS
  <2> HIDE DEF z
  <2>4. (x \o z) \o w = x \o (z \o w)
    BY <2>2, Assoc, Zenon
  <2> QED
    BY <2>1, <2>3, <2>4, Zenon
<1>2. (x \o m) \o w = x \o (m \o w)
  BY Assoc, Zenon
<1> DEFINE y == m \o w
<1>3. y \in Seq(Byte)
  BY CatTyped
<1>4. (x \o (h \o m)) \o w = x \o (h \o y) /\ (x \o m) \o w = x \o y
  BY <1>1, <1>2, Zenon
<1> HIDE DEF y
<1>5. ASSUME NEW lost, NEW more, NEW n \in Nat, Accounts(x \o (h \o y), lost, n),
             lost \subseteq more, more = {} => NumbersIn(h) = {}
      PROVE  Accounts(x \o y, more, n)
  BY <1>3, <1>5, LostBetween
<1> QED
  BY <1>4, <1>5, Zenon

\* The first bytes in memory are lost, or are none of the client's.
LEMMA LostInMemory ==
  ASSUME NEW a \in Seq(Byte), NEW b \in Seq(Byte), NEW h \in Seq(Byte), NEW m \in Seq(Byte),
         NEW w \in Seq(Byte), NEW lost, NEW more, NEW n \in Nat,
         Accounts(Place(a, b, h \o m, w), lost, n), lost \subseteq more,
         more = {} => NumbersIn(h) = {}
  PROVE  Accounts(Place(a, b, m, w), more, n)
<1> DEFINE x == a \o b
<1>1. x \in Seq(Byte)
  BY CatTyped
<1>2. Place(a, b, h \o m, w) = (x \o (h \o m)) \o w /\ Place(a, b, m, w) = (x \o m) \o w
  BY DEF Place
<1> HIDE DEF x
<1>3. Accounts((x \o (h \o m)) \o w, lost, n)
  BY <1>2, Zenon
<1>4. Accounts((x \o m) \o w, more, n)
  BY <1>1, <1>3, LostOfFour
<1> QED
  BY <1>2, <1>4, Zenon

\* What the reader's buffer held is lost.
LEMMA LostByReader ==
  ASSUME NEW a \in Seq(Byte), NEW b \in Seq(Byte), NEW m \in Seq(Byte), NEW w \in Seq(Byte),
         NEW lost, NEW more, NEW n \in Nat, Accounts(Place(a, b, m, w), lost, n),
         lost \subseteq more, more # {}
  PROVE  Accounts(Place(a, << >>, m, w), more, n)
<1> DEFINE e == << >>
<1>1. e \in Seq(Byte)
  BY WithNothing
<1>1a. e \o b = b
  BY <1>1, WithNothing
<1> HIDE DEF e
<1>2. Place(a, e \o b, m, w) = Place(a, e, b \o m, w)
  BY <1>1, Filled
<1>3. Accounts(Place(a, e, b \o m, w), lost, n)
  BY <1>1a, <1>2, Zenon
<1>4. Accounts(Place(a, e, m, w), more, n)
  BY <1>1, <1>3, LostInMemory
<1> QED
  BY <1>4, Zenon DEF e

LEMMA HeaderBetween ==
  ASSUME NEW x \in Seq(Byte), NEW h \in Seq(Byte), NEW w \in Seq(Byte), NEW lost, NEW n \in Nat,
         Accounts(x \o w, lost, n), NumbersIn(h) = {}
  PROVE  Accounts(x \o (h \o w), lost, n)
<1>1. (x \o h) \o w = x \o (h \o w)
  BY Assoc, Zenon
<1>2. Accounts((x \o h) \o w, lost, n)
  BY AccountsWith
<1> QED
  BY <1>1, <1>2, Zenon

\* The writer's buffer goes out behind a header.
LEMMA FlushedWithHeader ==
  ASSUME NEW a \in Seq(Byte), NEW b \in Seq(Byte), NEW m \in Seq(Byte), NEW w \in Seq(Byte),
         NEW h \in Seq(Byte), NEW lost, NEW n \in Nat, Accounts(Place(a, b, m, w), lost, n),
         NumbersIn(h) = {}
  PROVE  Accounts(Place(a, b, m \o (h \o w), << >>), lost, n)
<1> DEFINE x == (a \o b) \o m
           f == h \o w
           e == << >>
<1>1. x \in Seq(Byte) /\ e \in Seq(Byte) /\ f \in Seq(Byte)
  BY CatTyped, WithNothing
<1>1a. f \o e = f
  BY <1>1, WithNothing
<1>2. f = h \o w /\ Place(a, b, m, f) = x \o f /\ Accounts(x \o w, lost, n)
  BY DEF Place
<1> HIDE DEF x, f, e
<1>3. Accounts(x \o f, lost, n)
  BY <1>1, <1>2, HeaderBetween
<1>4. Place(a, b, m \o f, e) = Place(a, b, m, f \o e)
  BY <1>1, Flushed
<1>5. Accounts(Place(a, b, m \o f, e), lost, n)
  BY <1>1a, <1>2, <1>3, <1>4, Zenon
<1> QED
  BY <1>5, Zenon DEF f, e

\* It goes out and stays where it was.
LEMMA WrittenTwice ==
  ASSUME NEW a \in Seq(Byte), NEW b \in Seq(Byte), NEW m \in Seq(Byte), NEW w \in Seq(Byte),
         NEW lost, NEW more, NEW n \in Nat, NEW k \in Nat, Accounts(Place(a, b, m, w), lost, n),
         "repeat" \in more, n <= k
  PROVE  Accounts(Place(a, b, m \o w, w), more, k)
<1> DEFINE x == a \o b
<1>1. x \in Seq(Byte)
  BY CatTyped
<1>2. Place(a, b, m, w) = (x \o m) \o w /\ Place(a, b, m \o w, w) = (x \o (m \o w)) \o w
  BY DEF Place
<1> HIDE DEF x
<1>3. x \o m \in Seq(Byte) /\ m \o w \in Seq(Byte) /\ x \o (m \o w) \in Seq(Byte)
  BY <1>1, CatTyped
<1>4. /\ NumbersIn((x \o m) \o w) = NumbersIn(x \o m) \cup NumbersIn(w)
      /\ NumbersIn(x \o m) = NumbersIn(x) \cup NumbersIn(m)
      /\ NumbersIn((x \o (m \o w)) \o w) = NumbersIn(x \o (m \o w)) \cup NumbersIn(w)
      /\ NumbersIn(x \o (m \o w)) = NumbersIn(x) \cup NumbersIn(m \o w)
      /\ NumbersIn(m \o w) = NumbersIn(m) \cup NumbersIn(w)
  BY <1>1, <1>3, NumbersCat
<1>5. NumbersIn(Place(a, b, m \o w, w)) = NumbersIn(Place(a, b, m, w))
  BY <1>2, <1>4
<1> QED
  BY <1>5 DEF Accounts

\* ------------------------------------------------------------------------
LEMMA MemoryBufferFacts ==
  ASSUME NEW bytes \in Seq(Byte), NEW size, NEW max, NEW owner
  PROVE  /\ IsMemory(MemoryBuffer(bytes, size, max, owner))
         /\ InMemory(MemoryBuffer(bytes, size, max, owner)) = bytes
<1> DEFINE m == MemoryBuffer(bytes, size, max, owner)
<1>1. m.bytes = bytes /\ m.rBase = 0 /\ DOMAIN m = MemoryFields
  BY DEF MemoryBuffer, MemoryFields
<1> HIDE DEF m
<1>2. SubSeq(bytes, 0 + 1, Len(bytes)) = bytes
  OBVIOUS
<1> QED
  BY <1>1, <1>2 DEF IsMemory, InMemory, m

LEMMA ConstructedFacts ==
  ASSUME NEW bytes \in Seq(Byte), NEW max, NEW policy
  PROVE  IsMemory(Constructed(bytes, max, policy)) /\ InMemory(Constructed(bytes, max, policy)) = bytes
<1> DEFINE v == MemoryBuffer(bytes, Len(bytes), max, policy # "OBSERVE")
           bound == IF policy = "COPY" THEN 0 ELSE v.rBound
           m == Constructed(bytes, max, policy)
<1>1. IsMemory(v) /\ InMemory(v) = bytes
  BY MemoryBufferFacts
<1>2. m = [v EXCEPT !.rBound = bound]
  BY DEF Constructed
<1> HIDE DEF v, bound, m
<1>3. m.bytes = v.bytes /\ m.rBase = v.rBase /\ DOMAIN m = MemoryFields
  BY <1>1, <1>2 DEF IsMemory, MemoryFields
<1> QED
  BY <1>1, <1>3 DEF IsMemory, InMemory, m

LEMMA ResetFacts ==
  ASSUME NEW m
  PROVE  IsMemory(Reset(m)) /\ InMemory(Reset(m)) = << >>
<1> DEFINE e == << >>
           v == MemoryBuffer(e, m.size, m.max, m.owner)
           size == IF m.owner THEN v.size ELSE 0
           r == Reset(m)
<1>0. e \in Seq(Byte) /\ e = << >>
  OBVIOUS
<1>2. r = [v EXCEPT !.size = size]
  BY DEF Reset
<1> HIDE DEF e
<1>1. IsMemory(v) /\ InMemory(v) = << >>
  BY <1>0, MemoryBufferFacts
<1> HIDE DEF v, size, r
<1>3. r.bytes = v.bytes /\ r.rBase = v.rBase /\ DOMAIN r = MemoryFields
  BY <1>1, <1>2 DEF IsMemory, MemoryFields
<1> QED
  BY <1>1, <1>3 DEF IsMemory, InMemory, r

LEMMA StreamParts ==
  ASSUME BuffersTyped
  PROVE  /\ consumed \in Seq(Byte) /\ InBuffer \in Seq(Byte) /\ InMemory(memory) \in Seq(Byte)
         /\ wBuf_ \in Seq(Byte) /\ IsMemory(memory) /\ Len(InBuffer) = Have /\ Have \in Nat
         /\ Stream = Place(consumed, InBuffer, InMemory(memory), wBuf_)
         /\ (rBuf_ = << >> => InBuffer = << >>)
<1>1. rBuf_ \in Seq(Byte) /\ rBase_ \in 0..Len(rBuf_) /\ IsMemory(memory)
  BY DEF BuffersTyped
<1>2. InBuffer \in Seq(Byte) /\ Len(InBuffer) = Have /\ Have \in Nat
  <2>1. Have \in Nat
    BY <1>1 DEF Have
  <2> QED
    BY <1>1, <2>1, TailOf DEF InBuffer, Have
<1>3. InMemory(memory) \in Seq(Byte)
  BY <1>1, LeftInMemory
<1>4. rBuf_ = << >> => InBuffer = << >>
  BY <1>1, <1>2 DEF Have
<1> QED
  BY <1>1, <1>2, <1>3, <1>4 DEF BuffersTyped, Stream, Place

\* What a step of the writer must keep, and one of the reader.
LEMMA WriterKeeps ==
  ASSUME BuffersInv, UNCHANGED <<transport, readerVars, failed, consumed>>,
         produced' \in Nat, IsMemory(memory'), wBuf_' \in Seq(Byte), NoHeader(wBuf_'),
         transport = "memory" => wBuf_' = << >>,
         transport = "buffered" => wBufSize_' \in Nat /\ Len(wBuf_') <= wBufSize_',
         IF transport = "framed" THEN failed = "no" => WholeFrames(InMemory(memory'))
         ELSE NoHeader(InMemory(memory')),
         Accounts(Place(consumed, InBuffer, InMemory(memory'), wBuf_'), losses', produced')
  PROVE  BuffersInv'
<1>1. rBuf_' = rBuf_ /\ rBase_' = rBase_ /\ transport' = transport /\ failed' = failed
      /\ consumed' = consumed
  BY DEF readerVars
<1>2. BuffersTyped'
  BY <1>1 DEF BuffersInv, BuffersTyped
<1>3. BuffersUsed'
  BY <1>1 DEF BuffersInv, BuffersUsed
<1>4. HeadersWhere'
  BY <1>1 DEF BuffersInv, HeadersWhere
<1>5. Stream' = Place(consumed, InBuffer, InMemory(memory'), wBuf_')
  BY <1>1 DEF Stream, Place, InBuffer, InMemory
<1> QED
  BY <1>1, <1>2, <1>3, <1>4, <1>5 DEF BuffersInv

LEMMA ReaderKeeps ==
  ASSUME BuffersInv, UNCHANGED <<transport, writerVars, produced>>,
         IsMemory(memory'), rBuf_' \in Seq(Byte), rBase_' \in 0..Len(rBuf_'), consumed' \in Seq(Byte),
         NoHeader(rBuf_'), NoHeader(consumed'),
         transport = "memory" => rBuf_' = << >> /\ rBase_' = 0,
         IF transport = "framed" THEN failed' = "no" => WholeFrames(InMemory(memory'))
         ELSE NoHeader(InMemory(memory')),
         failed' # "cutShort",
         Accounts(Place(consumed', InBuffer', InMemory(memory'), wBuf_), losses', produced)
  PROVE  BuffersInv'
<1>1. transport' = transport /\ wBuf_' = wBuf_ /\ wBufSize_' = wBufSize_ /\ produced' = produced
  BY DEF writerVars
<1>2. BuffersTyped'
  BY <1>1 DEF BuffersInv, BuffersTyped
<1>3. BuffersUsed'
  BY <1>1 DEF BuffersInv, BuffersUsed
<1>4. HeadersWhere'
  BY <1>1 DEF BuffersInv, HeadersWhere
<1>5. Stream' = Place(consumed', InBuffer', InMemory(memory'), wBuf_)
  BY <1>1 DEF Stream, Place, InMemory
<1> QED
  BY <1>1, <1>2, <1>3, <1>4, <1>5 DEF BuffersInv

\* Data of the client, and what is in the stream with it and without it.
LEMMA NewData ==
  ASSUME BuffersInv, NEW n \in Nat
  PROVE  LET data == Payload(produced, produced + n)
         IN /\ data \in Seq(Byte) /\ Len(data) = n /\ NoHeader(data)
            /\ produced \in Nat /\ produced + n \in Nat /\ produced <= produced + n
            /\ Accounts(Place(consumed, InBuffer, InMemory(memory), wBuf_), losses, produced)
            /\ Accounts(Place(consumed, InBuffer, InMemory(memory), wBuf_) \o data, losses, produced + n)
<1>1. BuffersTyped /\ produced \in Nat /\ Accounts(Stream, losses, produced)
  BY DEF BuffersInv, BuffersTyped
<1>2. Stream \in Seq(Byte) /\ Stream = Place(consumed, InBuffer, InMemory(memory), wBuf_)
  BY <1>1, StreamParts, PlaceTyped
<1>3. Accounts(Stream \o Payload(produced, produced + n), losses, produced + n)
  BY <1>1, <1>2, AccountsAppended
<1> DEFINE data == Payload(produced, produced + n)
<1>4. data \in Seq(Byte) /\ Len(data) = n /\ NoHeader(data)
  BY <1>1, PayloadFacts
<1>5. produced + n \in Nat /\ produced <= produced + n
  BY <1>1
<1> HIDE DEF data
<1> QED
  BY <1>1, <1>2, <1>3, <1>4, <1>5 DEF data

LEMMA RefusedKeeps ==
  ASSUME BuffersInv, UNCHANGED <<transport, readerVars, failed, consumed>>,
         NEW n \in Nat, produced' = produced + n, NEW why, Refused(why)
  PROVE  BuffersInv'
<1>1. memory' = memory /\ wBuf_' = wBuf_ /\ wBufSize_' = wBufSize_ /\ losses' = losses \cup {why}
  BY DEF Refused, writerVars
<1>2. /\ produced \in Nat /\ produced + n \in Nat /\ produced <= produced + n
      /\ Accounts(Place(consumed, InBuffer, InMemory(memory), wBuf_), losses, produced)
  BY NewData
<1>3. losses \subseteq losses' /\ losses' # {}
  BY <1>1
<1>4. Accounts(Place(consumed, InBuffer, InMemory(memory), wBuf_), losses', produced')
  BY <1>2, <1>3, AccountsRefused
<1>5. IsMemory(memory) /\ wBuf_ \in Seq(Byte) /\ NoHeader(wBuf_) /\ BuffersUsed
      /\ IF transport = "framed" THEN failed = "no" => WholeFrames(InMemory(memory))
         ELSE NoHeader(InMemory(memory))
  BY DEF BuffersInv, BuffersTyped, HeadersWhere
<1> QED
  BY <1>1, <1>2, <1>4, <1>5, WriterKeeps DEF BuffersUsed

LEMMA WrittenTo ==
  ASSUME NEW m, IsMemory(m), NEW data \in Seq(Byte)
  PROVE  IsMemory(Written(m, data)) /\ InMemory(Written(m, data)) = InMemory(m) \o data
         /\ InMemory(m) \in Seq(Byte) /\ InMemory(m) \o data \in Seq(Byte)
         /\ (NoHeader(InMemory(m) \o data) <=> NoHeader(InMemory(m)) /\ NoHeader(data))
<1> DEFINE size == SizeFor(m, Len(data))
           w == Written(m, data)
<1>1. w = [m EXCEPT !.bytes = @ \o data, !.size = size]
  BY DEF Written
<1> HIDE DEF size, w
<1>2. IsMemory(w) /\ InMemory(w) = InMemory(m) \o data
  BY <1>1, WrittenFacts
<1>3. InMemory(m) \in Seq(Byte)
  BY LeftInMemory
<1> QED
  BY <1>2, <1>3, CatTyped, NoHeaderCat DEF w

\* Data goes into memory, with nothing in the writer's buffer.
LEMMA IntoMemory ==
  ASSUME BuffersInv, UNCHANGED <<transport, readerVars, failed, consumed, writerVars, losses>>,
         Direct, NEW n \in Nat, produced' = produced + n, IsMemory(memory'),
         InMemory(memory') = InMemory(memory) \o Payload(produced, produced + n)
  PROVE  BuffersInv'
<1> DEFINE data == Payload(produced, produced + n)
           e == << >>
           a == consumed
           b == InBuffer
           m == InMemory(memory)
<1>1. /\ data \in Seq(Byte) /\ NoHeader(data) /\ produced + n \in Nat
      /\ Accounts(Place(a, b, m, wBuf_) \o data, losses, produced + n)
  BY NewData
<1>2. a \in Seq(Byte) /\ b \in Seq(Byte) /\ m \in Seq(Byte) /\ e \in Seq(Byte)
  <2>1. e \in Seq(Byte)
    OBVIOUS
  <2>2. a \in Seq(Byte) /\ b \in Seq(Byte) /\ m \in Seq(Byte)
    BY StreamParts DEF BuffersInv
  <2> QED
    BY <2>1, <2>2
<1>3. wBuf_ = e /\ transport = "memory" /\ NoHeader(wBuf_) /\ NoHeader(m)
  BY DEF BuffersInv, BuffersUsed, HeadersWhere, Direct
<1>3a. InMemory(memory') = m \o data
  OBVIOUS
<1>3b. e = << >>
  OBVIOUS
<1> HIDE DEF data, e, a, b, m
<1>4. e \o data = data /\ data \o e = data
  BY <1>1, <1>3b, WithNothing
<1>4a. data \in Seq(Byte)
  BY <1>1
<1>5. Accounts(Place(a, b, m, e \o data), losses, produced + n)
  <2>1. Accounts(Place(a, b, m, e) \o data, losses, produced + n)
    BY <1>1, <1>3
  <2> QED
    BY <1>2, <1>4a, <2>1, AccountsToWriter
<1>6. Place(a, b, m \o data, e) = Place(a, b, m, data \o e)
  BY <1>2, <1>4a, Flushed
<1>7. Accounts(Place(a, b, m \o data, e), losses, produced + n)
  BY <1>4, <1>5, <1>6, Zenon
<1>8. NoHeader(InMemory(memory'))
  BY <1>1, <1>2, <1>3, <1>3a, NoHeaderCat
<1>9. wBuf_' = << >> /\ wBuf_' \in Seq(Byte) /\ NoHeader(wBuf_') /\ losses' = losses
  BY <1>2, <1>3, <1>3b DEF writerVars
<1>10. Accounts(Place(consumed, InBuffer, InMemory(memory'), wBuf_'), losses', produced')
  BY <1>3a, <1>3b, <1>7, <1>9 DEF a, b
<1> QED
  BY <1>1, <1>3, <1>8, <1>9, <1>10, WriterKeeps

LEMMA WriteDirectKeeps ==
  ASSUME BuffersInv, UNCHANGED <<transport, readerVars, failed, consumed>>,
         NEW n \in Nat, produced' = produced + n, WriteDirect(Payload(produced, produced + n))
  PROVE  BuffersInv'
<1> DEFINE data == Payload(produced, produced + n)
<1>1. CASE CanWrite(memory, Len(data))
  <2>1. IsMemory(memory) /\ data \in Seq(Byte)
    BY NewData DEF BuffersInv, BuffersTyped
  <2>2. memory' = Written(memory, data) /\ UNCHANGED <<writerVars, losses>> /\ Direct
    BY <1>1 DEF WriteDirect
  <2> HIDE DEF data
  <2>3. IsMemory(memory') /\ InMemory(memory') = InMemory(memory) \o data
    BY <2>1, <2>2, WrittenTo
  <2> QED
    BY <2>2, <2>3, IntoMemory DEF data
<1>2. CASE ~CanWrite(memory, Len(data))
  <2>1. Refused("write")
    BY <1>2 DEF WriteDirect
  <2> QED
    BY <2>1, RefusedKeeps
<1> QED
  BY <1>1, <1>2

LEMMA WriteInPlaceKeeps ==
  ASSUME BuffersInv, NEW n \in Nat, NEW k \in Nat, WriteInPlace(n, k)
  PROVE  BuffersInv'
<1>1. /\ UNCHANGED <<transport, readerVars, failed, consumed>> /\ UNCHANGED writerVars
      /\ Direct /\ produced' = produced + k
  BY DEF WriteInPlace
<1> DEFINE data == Payload(produced, produced + k)
           size == SizeFor(memory, n)
<1>2. CASE CanWrite(memory, n)
  <2>1. IsMemory(memory) /\ data \in Seq(Byte)
    BY NewData DEF BuffersInv, BuffersTyped
  <2>2. memory' = [memory EXCEPT !.bytes = @ \o data, !.size = size] /\ UNCHANGED losses
    BY <1>2 DEF WriteInPlace
  <2> HIDE DEF data, size
  <2>3. IsMemory(memory') /\ InMemory(memory') = InMemory(memory) \o data
    BY <2>1, <2>2, WrittenFacts
  <2> QED
    BY <1>1, <2>2, <2>3, IntoMemory DEF data
<1>3. CASE ~CanWrite(memory, n)
  <2>1. Refused("write")
    BY <1>1, <1>3 DEF WriteInPlace, Refused
  <2> QED
    BY <1>1, <2>1, RefusedKeeps
<1> QED
  BY <1>2, <1>3

LEMMA JustFlushed ==
  ASSUME NEW a \in Seq(Byte), NEW b \in Seq(Byte), NEW m \in Seq(Byte), NEW w \in Seq(Byte),
         NEW lost, NEW n, Accounts(Place(a, b, m, w), lost, n)
  PROVE  Accounts(Place(a, b, m \o w, << >>), lost, n)
<1> DEFINE e == << >>
<1>1. e \in Seq(Byte)
  OBVIOUS
<1>2. w \o e = w
  BY WithNothing
<1> HIDE DEF e
<1>3. Place(a, b, m \o w, e) = Place(a, b, m, w \o e)
  BY <1>1, Flushed
<1>4. Accounts(Place(a, b, m \o w, e), lost, n)
  BY <1>2, <1>3, Zenon
<1> QED
  BY <1>4, Zenon DEF e

LEMMA BothWritten ==
  ASSUME NEW a \in Seq(Byte), NEW b \in Seq(Byte), NEW m \in Seq(Byte), NEW w \in Seq(Byte),
         NEW v \in Seq(Byte), NEW lost, NEW n, Accounts(Place(a, b, m, w \o v), lost, n)
  PROVE  Accounts(Place(a, b, (m \o w) \o v, << >>), lost, n)
<1> DEFINE x == m \o w
<1>1. Place(a, b, m \o w, v) = Place(a, b, m, w \o v)
  BY Flushed
<1>2. x \in Seq(Byte)
  BY CatTyped
<1>3. Accounts(Place(a, b, x, v), lost, n)
  BY <1>1, Zenon
<1> HIDE DEF x
<1>4. Accounts(Place(a, b, x \o v, << >>), lost, n)
  BY <1>2, <1>3, JustFlushed
<1> QED
  BY <1>4, Zenon DEF x

LEMMA FilledUp ==
  ASSUME NEW a \in Seq(Byte), NEW b \in Seq(Byte), NEW m \in Seq(Byte), NEW w \in Seq(Byte),
         NEW u \in Seq(Byte), NEW v \in Seq(Byte), NEW lost, NEW n,
         Accounts(Place(a, b, m, w \o (u \o v)), lost, n)
  PROVE  Accounts(Place(a, b, m \o (w \o u), v), lost, n)
<1> DEFINE x == w \o u
<1>1. x \in Seq(Byte)
  BY CatTyped
<1>2. (w \o u) \o v = w \o (u \o v)
  BY Assoc, Zenon
<1>3. Accounts(Place(a, b, m, x \o v), lost, n)
  BY <1>2, Zenon
<1> HIDE DEF x
<1>4. Place(a, b, m \o x, v) = Place(a, b, m, x \o v)
  BY <1>1, Flushed
<1>5. Accounts(Place(a, b, m \o x, v), lost, n)
  BY <1>3, <1>4, Zenon
<1> QED
  BY <1>5, Zenon DEF x

\* What a writer starts from.
LEMMA WriterHas ==
  ASSUME BuffersInv
  PROVE  /\ consumed \in Seq(Byte) /\ InBuffer \in Seq(Byte) /\ InMemory(memory) \in Seq(Byte)
         /\ wBuf_ \in Seq(Byte) /\ IsMemory(memory) /\ NoHeader(wBuf_) /\ produced \in Nat
         /\ Accounts(Place(consumed, InBuffer, InMemory(memory), wBuf_), losses, produced)
         /\ transport = "memory" => wBuf_ = << >>
         /\ transport = "buffered" => wBufSize_ \in Nat /\ Len(wBuf_) <= wBufSize_
         /\ IF transport = "framed" THEN failed = "no" => WholeFrames(InMemory(memory))
            ELSE NoHeader(InMemory(memory))
<1>1. BuffersTyped /\ Accounts(Stream, losses, produced)
  BY DEF BuffersInv
<1>2. Accounts(Place(consumed, InBuffer, InMemory(memory), wBuf_), losses, produced)
  BY <1>1, StreamParts
<1>3. /\ consumed \in Seq(Byte) /\ InBuffer \in Seq(Byte) /\ InMemory(memory) \in Seq(Byte)
      /\ wBuf_ \in Seq(Byte) /\ IsMemory(memory)
  BY <1>1, StreamParts
<1> QED
  BY <1>2, <1>3 DEF BuffersInv, BuffersTyped, BuffersUsed, HeadersWhere

\* Data goes into the writer's buffer.
LEMMA IntoWriter ==
  ASSUME BuffersInv, UNCHANGED <<transport, readerVars, failed, consumed, memory, losses>>,
         NEW n \in Nat, produced' = produced + n, wBuf_' = wBuf_ \o Payload(produced, produced + n),
         transport # "memory",
         transport = "buffered" => wBufSize_' = wBufSize_ /\ Len(wBuf_) + n <= wBufSize_
  PROVE  BuffersInv'
<1> DEFINE data == Payload(produced, produced + n)
           a == consumed
           b == InBuffer
           m == InMemory(memory)
<1>1. /\ data \in Seq(Byte) /\ Len(data) = n /\ NoHeader(data) /\ produced + n \in Nat
      /\ Accounts(Place(a, b, m, wBuf_) \o data, losses, produced + n)
  BY NewData
<1>2. /\ a \in Seq(Byte) /\ b \in Seq(Byte) /\ m \in Seq(Byte) /\ wBuf_ \in Seq(Byte)
      /\ NoHeader(wBuf_)
  BY WriterHas
<1>3. wBuf_' = wBuf_ \o data
  OBVIOUS
<1> HIDE DEF data, a, b, m
<1>4. wBuf_' \in Seq(Byte) /\ NoHeader(wBuf_') /\ Len(wBuf_') = Len(wBuf_) + n
  BY <1>1, <1>2, <1>3, CatFacts, NoHeaderCat
<1>5. Accounts(Place(a, b, m, wBuf_ \o data), losses, produced + n)
  BY <1>1, <1>2, AccountsToWriter
<1>6. Accounts(Place(consumed, InBuffer, InMemory(memory'), wBuf_'), losses', produced')
  BY <1>3, <1>5, Zenon DEF a, b, m
<1>7. transport = "buffered" => wBufSize_' \in Nat /\ Len(wBuf_') <= wBufSize_'
  BY <1>4, WriterHas
<1>8. /\ IsMemory(memory')
      /\ IF transport = "framed" THEN failed = "no" => WholeFrames(InMemory(memory'))
         ELSE NoHeader(InMemory(memory'))
  BY WriterHas
<1> QED
  BY <1>1, <1>4, <1>6, <1>7, <1>8, WriterKeeps

LEMMA WriteFastKeeps ==
  ASSUME BuffersInv, UNCHANGED <<transport, readerVars, failed, consumed>>,
         NEW n \in Nat, produced' = produced + n, WriteFast(Payload(produced, produced + n))
  PROVE  BuffersInv'
<1>1. Len(Payload(produced, produced + n)) = n
  BY NewData
<1> QED
  BY <1>1, IntoWriter DEF WriteFast

LEMMA WriteFramedKeeps ==
  ASSUME BuffersInv, UNCHANGED <<transport, readerVars, failed, consumed>>,
         NEW n \in Nat, produced' = produced + n, WriteFramed(Payload(produced, produced + n))
  PROVE  BuffersInv'
<1> DEFINE needed == HeaderSize + Len(wBuf_) + Len(Payload(produced, produced + n))
<1>1. CASE needed <= wBufSize_ \/ needed <= MaxWritten
  <2>1. /\ UNCHANGED <<memory, losses>> /\ transport = "framed"
        /\ wBuf_' = wBuf_ \o Payload(produced, produced + n)
    BY <1>1 DEF WriteFramed
  <2> QED
    BY <2>1, IntoWriter
<1>2. CASE ~(needed <= wBufSize_ \/ needed <= MaxWritten)
  <2>1. Refused("write")
    BY <1>2 DEF WriteFramed
  <2> QED
    BY <2>1, RefusedKeeps
<1> QED
  BY <1>1, <1>2

LEMMA WriteBothKeeps ==
  ASSUME BuffersInv, UNCHANGED <<transport, readerVars, failed, consumed>>,
         NEW n \in Nat, produced' = produced + n, WriteBoth(Payload(produced, produced + n))
  PROVE  BuffersInv'
<1> DEFINE data == Payload(produced, produced + n)
           a == consumed
           b == InBuffer
           m == InMemory(memory)
           first == Written(memory, wBuf_)
<1>1. /\ data \in Seq(Byte) /\ NoHeader(data) /\ produced + n \in Nat /\ produced <= produced + n
      /\ Accounts(Place(a, b, m, wBuf_) \o data, losses, produced + n)
  BY NewData
<1>2. /\ a \in Seq(Byte) /\ b \in Seq(Byte) /\ m \in Seq(Byte) /\ wBuf_ \in Seq(Byte)
      /\ NoHeader(wBuf_) /\ produced \in Nat /\ Accounts(Place(a, b, m, wBuf_), losses, produced)
  BY WriterHas
<1>3. transport = "buffered" /\ NoHeader(m) /\ wBufSize_ \in Nat /\ Len(wBuf_) <= wBufSize_
  BY WriterHas DEF WriteBoth, Slow
<1>4. /\ IsMemory(first) /\ InMemory(first) = m \o wBuf_ /\ m \o wBuf_ \in Seq(Byte)
      /\ NoHeader(m \o wBuf_)
  BY <1>2, <1>3, WriterHas, WrittenTo
<1>5. CASE ~CanWrite(memory, Len(wBuf_))
  <2>1. Refused("write")
    BY <1>5 DEF WriteBoth
  <2> QED
    BY <2>1, RefusedKeeps
<1>6. CASE CanWrite(memory, Len(wBuf_)) /\ CanWrite(first, Len(data))
  <2>1. /\ memory' = Written(first, data) /\ wBuf_' = << >> /\ wBufSize_' = wBufSize_
        /\ losses' = losses
    BY <1>6 DEF WriteBoth
  <2> HIDE DEF data, a, b, m, first
  <2>2. /\ IsMemory(memory') /\ InMemory(memory') = (m \o wBuf_) \o data /\ NoHeader(InMemory(memory'))
    <3> DEFINE x == m \o wBuf_
    <3>1. x \in Seq(Byte) /\ NoHeader(x) /\ x = InMemory(first)
      BY <1>4
    <3> HIDE DEF x
    <3>2. IsMemory(memory') /\ InMemory(memory') = InMemory(first) \o data
      BY <1>1, <1>4, <2>1, WrittenTo
    <3>3. NoHeader(x \o data)
      BY <1>1, <3>1, NoHeaderCat
    <3> QED
      BY <3>1, <3>2, <3>3, Zenon DEF x
  <2>3. Accounts(Place(a, b, m, wBuf_ \o data), losses, produced + n)
    BY <1>1, <1>2, AccountsToWriter
  <2>4. Accounts(Place(a, b, (m \o wBuf_) \o data, << >>), losses, produced + n)
    BY <1>1, <1>2, <2>3, BothWritten
  <2>5. Accounts(Place(consumed, InBuffer, InMemory(memory'), wBuf_'), losses', produced')
    BY <2>1, <2>2, <2>4, Zenon DEF a, b
  <2>6. wBuf_' \in Seq(Byte) /\ NoHeader(wBuf_') /\ Len(wBuf_') <= wBufSize_' /\ wBufSize_' \in Nat
    BY <1>3, <2>1 DEF NoHeader
  <2> QED
    BY <1>1, <1>3, <2>2, <2>5, <2>6, WriterKeeps
<1>7. CASE CanWrite(memory, Len(wBuf_)) /\ ~CanWrite(first, Len(data))
  <2>1. /\ memory' = first /\ wBuf_' = wBuf_ /\ wBufSize_' = wBufSize_
        /\ losses' = losses \cup {IF wBuf_ = << >> THEN "write" ELSE "repeat"}
    BY <1>7 DEF WriteBoth, writerVars
  <2>2. Accounts(Place(a, b, m \o wBuf_, wBuf_), losses', produced')
    <3> HIDE DEF a, b, m
    <3>1. CASE wBuf_ = << >>
      <4>1. m \o wBuf_ = m
        BY <1>2, <3>1, WithNothing
      <4>2. Accounts(Place(a, b, m, wBuf_), losses', produced')
        BY <1>1, <1>2, <2>1, AccountsRefused
      <4> QED
        BY <4>1, <4>2, Zenon
    <3>2. CASE wBuf_ # << >>
      <4>1. "repeat" \in losses'
        BY <2>1, <3>2
      <4> QED
        BY <1>1, <1>2, <4>1, WrittenTwice
    <3> QED
      BY <3>1, <3>2
  <2> HIDE DEF data, a, b, m, first
  <2>3. Accounts(Place(consumed, InBuffer, InMemory(memory'), wBuf_'), losses', produced')
    BY <1>4, <2>1, <2>2, Zenon DEF a, b
  <2> QED
    BY <1>1, <1>2, <1>3, <1>4, <2>1, <2>3, WriterKeeps
<1> QED
  BY <1>5, <1>6, <1>7

LEMMA WriteFilledUpKeeps ==
  ASSUME BuffersInv, UNCHANGED <<transport, readerVars, failed, consumed>>,
         NEW n \in Nat, produced' = produced + n, WriteFilledUp(Payload(produced, produced + n))
  PROVE  BuffersInv'
<1> DEFINE data == Payload(produced, produced + n)
           a == consumed
           b == InBuffer
           m == InMemory(memory)
           space == wBufSize_ - Len(wBuf_)
           u == SubSeq(data, 1, space)
           v == SubSeq(data, space + 1, Len(data))
<1>1. /\ data \in Seq(Byte) /\ NoHeader(data) /\ produced + n \in Nat /\ Len(data) = n
      /\ Accounts(Place(a, b, m, wBuf_) \o data, losses, produced + n)
  BY NewData
<1>2. /\ a \in Seq(Byte) /\ b \in Seq(Byte) /\ m \in Seq(Byte) /\ wBuf_ \in Seq(Byte)
      /\ NoHeader(wBuf_)
  BY WriterHas
<1>3. transport = "buffered" /\ NoHeader(m) /\ wBufSize_ \in Nat /\ Len(wBuf_) <= wBufSize_
  BY WriterHas DEF WriteFilledUp, Slow
<1>4. CASE ~CanWrite(memory, wBufSize_)
  <2>1. Refused("write")
    BY <1>4 DEF WriteFilledUp
  <2> QED
    BY <2>1, RefusedKeeps
<1>5. CASE CanWrite(memory, wBufSize_)
  <2>1. /\ memory' = Written(memory, wBuf_ \o u) /\ wBuf_' = v /\ wBufSize_' = wBufSize_
        /\ losses' = losses
    BY <1>5 DEF WriteFilledUp
  <2>2. /\ Len(wBuf_) + Len(data) > wBufSize_ /\ ~(Len(wBuf_) + Len(data) >= 2 * wBufSize_)
    BY DEF WriteFilledUp, Slow, TwoCalls
  <2>3. space \in 0..Len(data) /\ Len(data) - space <= wBufSize_
    <3>1. Len(wBuf_) \in Nat /\ Len(data) \in Nat
      BY <1>1, <1>2
    <3> QED
      BY <1>3, <2>2, <3>1
  <2>4. u \in Seq(Byte) /\ v \in Seq(Byte) /\ Len(v) = Len(data) - space /\ u \o v = data
    <3>1. 0 \in 0..Len(data) /\ space \in 0..Len(data) /\ Len(data) \in Nat
      BY <1>1, <2>3
    <3> HIDE DEF data, space
    <3>2. /\ SubSeq(data, 0 + 1, space) \in Seq(Byte)
          /\ SubSeq(data, 0 + 1, space) \o SubSeq(data, space + 1, Len(data)) = SubSeq(data, 0 + 1, Len(data))
      BY <1>1, <3>1, SplitSeq
    <3>3. SubSeq(data, 0 + 1, Len(data)) = data /\ SubSeq(data, 0 + 1, space) = u
      BY <1>1
    <3>4. v \in Seq(Byte) /\ Len(v) = Len(data) - space
      BY <1>1, <3>1, TailOf
    <3> QED
      BY <3>2, <3>3, <3>4
  <2>5. IsMemory(memory)
    BY WriterHas
  <2>6. Accounts(Place(a, b, m, wBuf_) \o data, losses, produced + n)
    BY <1>1
  <2>6a. data \in Seq(Byte) /\ NoHeader(data)
    BY <1>1
  <2>6b. m = InMemory(memory) /\ a = consumed /\ b = InBuffer
    OBVIOUS
  <2> HIDE DEF data, a, b, m, u, v, space
  <2>7. Accounts(Place(a, b, m, wBuf_ \o data), losses, produced + n)
    BY <1>2, <2>6, <2>6a, AccountsToWriter
  <2>8. Accounts(Place(a, b, m, wBuf_ \o (u \o v)), losses, produced + n)
    BY <2>4, <2>7, Zenon
  <2>9. Accounts(Place(a, b, m \o (wBuf_ \o u), v), losses, produced + n)
    BY <1>2, <2>4, <2>8, FilledUp
  <2>10. NoHeader(u) /\ NoHeader(v)
    BY <2>4, <2>6a, NoHeaderCat
  <2>11. wBuf_ \o u \in Seq(Byte) /\ NoHeader(wBuf_ \o u)
    BY <1>2, <2>4, <2>10, CatTyped, NoHeaderCat
  <2>12. IsMemory(memory') /\ InMemory(memory') = m \o (wBuf_ \o u) /\ NoHeader(InMemory(memory'))
    <3> DEFINE x == wBuf_ \o u
    <3>1. x \in Seq(Byte) /\ NoHeader(x) /\ memory' = Written(memory, x)
      BY <2>1, <2>11
    <3> HIDE DEF x
    <3>2. IsMemory(memory') /\ InMemory(memory') = InMemory(memory) \o x
      BY <2>5, <3>1, WrittenTo
    <3>3. NoHeader(m \o x)
      BY <1>2, <1>3, <3>1, NoHeaderCat
    <3> QED
      BY <2>6b, <3>2, <3>3, Zenon DEF x
  <2>13. Accounts(Place(consumed, InBuffer, InMemory(memory'), wBuf_'), losses', produced')
    BY <2>1, <2>6b, <2>9, <2>12, Zenon
  <2>14. wBuf_' \in Seq(Byte) /\ NoHeader(wBuf_') /\ Len(wBuf_') <= wBufSize_' /\ wBufSize_' \in Nat
    BY <1>3, <2>1, <2>3, <2>4, <2>10
  <2> QED
    BY <1>1, <1>3, <2>12, <2>13, <2>14, WriterKeeps
<1> QED
  BY <1>4, <1>5

\* The writer's buffer is emptied into memory, or lost.
LEMMA FlushBufferedKeeps ==
  ASSUME BuffersInv, FlushBuffered, UNCHANGED <<transport, readerVars, failed, produced, consumed>>
  PROVE  BuffersInv'
<1> DEFINE a == consumed
           b == InBuffer
           m == InMemory(memory)
<1>1. /\ a \in Seq(Byte) /\ b \in Seq(Byte) /\ m \in Seq(Byte) /\ wBuf_ \in Seq(Byte)
      /\ NoHeader(wBuf_) /\ produced \in Nat /\ Accounts(Place(a, b, m, wBuf_), losses, produced)
      /\ IsMemory(memory)
  BY WriterHas
<1>2. transport = "buffered" /\ NoHeader(m) /\ wBufSize_ \in Nat /\ wBufSize_' = wBufSize_
      /\ wBuf_' = << >>
  BY WriterHas DEF FlushBuffered, Emptied
<1>3. wBuf_' \in Seq(Byte) /\ NoHeader(wBuf_') /\ Len(wBuf_') <= wBufSize_' /\ wBufSize_' \in Nat
  BY <1>2 DEF NoHeader
<1>4. CASE CanWrite(memory, Len(wBuf_))
  <2>1. memory' = Written(memory, wBuf_) /\ losses' = losses
    BY <1>4 DEF FlushBuffered, Emptied
  <2>1a. m = InMemory(memory)
    OBVIOUS
  <2> HIDE DEF a, b, m
  <2>2. IsMemory(memory') /\ InMemory(memory') = m \o wBuf_ /\ NoHeader(InMemory(memory'))
    <3>1. IsMemory(memory') /\ InMemory(memory') = InMemory(memory) \o wBuf_
      BY <1>1, <2>1, WrittenTo
    <3>2. NoHeader(m \o wBuf_)
      BY <1>1, <1>2, NoHeaderCat
    <3> QED
      BY <2>1a, <3>1, <3>2, Zenon
  <2>3. Accounts(Place(a, b, m \o wBuf_, << >>), losses, produced)
    BY <1>1, JustFlushed
  <2>4. Accounts(Place(consumed, InBuffer, InMemory(memory'), wBuf_'), losses', produced')
    BY <1>2, <2>1, <2>2, <2>3, Zenon DEF a, b
  <2> QED
    BY <1>1, <1>2, <1>3, <2>2, <2>4, WriterKeeps
<1>5. CASE ~CanWrite(memory, Len(wBuf_))
  <2>1. memory' = memory /\ losses' = losses \cup {"flush"}
    BY <1>5 DEF FlushBuffered, Emptied
  <2>2. losses \subseteq losses' /\ losses' # {}
    BY <2>1
  <2> HIDE DEF a, b, m
  <2>3. Accounts(Place(a, b, m, << >>), losses', produced)
    BY <1>1, <2>2, LostByWriter
  <2>4. Accounts(Place(consumed, InBuffer, InMemory(memory'), wBuf_'), losses', produced')
    BY <1>2, <2>1, <2>3, Zenon DEF a, b, m
  <2> QED
    BY <1>1, <1>2, <1>3, <2>1, <2>4, WriterKeeps DEF m
<1> QED
  BY <1>4, <1>5

LEMMA FlushFramedKeeps ==
  ASSUME BuffersInv, FlushFramed, UNCHANGED <<transport, readerVars, failed, produced, consumed>>
  PROVE  BuffersInv'
<1> DEFINE a == consumed
           b == InBuffer
           m == InMemory(memory)
           size == Len(wBuf_)
           h == FrameHeader(size)
           f == h \o wBuf_
<1>1. /\ a \in Seq(Byte) /\ b \in Seq(Byte) /\ m \in Seq(Byte) /\ wBuf_ \in Seq(Byte)
      /\ NoHeader(wBuf_) /\ produced \in Nat /\ Accounts(Place(a, b, m, wBuf_), losses, produced)
      /\ IsMemory(memory)
  BY WriterHas
<1>2. transport = "framed" /\ (failed = "no" => WholeFrames(m))
  BY WriterHas DEF FlushFramed
<1>3. CASE ~(size > 0)
  <2>1. memory' = memory /\ wBuf_' = wBuf_ /\ losses' = losses
    BY <1>3 DEF FlushFramed
  <2> QED
    BY <1>1, <1>2, <2>1, WriterKeeps
<1>4. CASE size > 0
  <2>1. Emptied(f) /\ wBuf_' = << >>
    BY <1>4 DEF FlushFramed, Emptied
  <2>2. wBuf_' \in Seq(Byte) /\ NoHeader(wBuf_')
    BY <2>1 DEF NoHeader
  <2>3. size \in Nat \ {0}
    BY <1>1, <1>4
  <2>4. h \in Seq(Byte) /\ NumbersIn(h) = {} /\ f \in Seq(Byte)
    <3>1. h \in Seq(Byte) /\ NumbersIn(h) = {}
      <4> HIDE DEF size
      <4> QED
        BY <2>3, FrameHeaderFacts
    <3> HIDE DEF h
    <3> QED
      BY <1>1, <3>1, CatTyped
  <2>4a. WholeFrames(m) => WholeFrames(m \o (FrameHeader(Len(wBuf_)) \o wBuf_))
    <3> HIDE DEF m
    <3> QED
      BY <1>1, <2>3, FrameAppended
  <2>4b. WholeFrames(m) => WholeFrames(m \o f)
    BY <2>4a
  <2>5. CASE CanWrite(memory, Len(f))
    <3>1. memory' = Written(memory, f) /\ losses' = losses
      BY <2>1, <2>5 DEF Emptied
    <3>2. f = h \o wBuf_ /\ InMemory(memory) = m
      OBVIOUS
    <3> HIDE DEF a, b, m, h, f
    <3>3. IsMemory(memory') /\ InMemory(memory') = m \o f
      BY <1>1, <2>4, <3>1, <3>2, WrittenTo
    <3>4. Accounts(Place(a, b, m \o (h \o wBuf_), << >>), losses, produced)
      BY <1>1, <2>4, FlushedWithHeader
    <3>5. Accounts(Place(consumed, InBuffer, InMemory(memory'), wBuf_'), losses', produced')
      BY <2>1, <3>1, <3>2, <3>3, <3>4, Zenon DEF a, b
    <3> QED
      BY <1>1, <1>2, <2>2, <2>4b, <3>3, <3>5, WriterKeeps
  <2>6. CASE ~CanWrite(memory, Len(f))
    <3>1. memory' = memory /\ losses' = losses \cup {"flush"}
      BY <2>1, <2>6 DEF Emptied
    <3>2. losses \subseteq losses' /\ losses' # {}
      BY <3>1
    <3> HIDE DEF a, b, m
    <3>3. Accounts(Place(a, b, m, << >>), losses', produced)
      BY <1>1, <3>2, LostByWriter
    <3>4. Accounts(Place(consumed, InBuffer, InMemory(memory'), wBuf_'), losses', produced')
      BY <2>1, <3>1, <3>3, Zenon DEF a, b, m
    <3> QED
      BY <1>1, <1>2, <2>2, <3>1, <3>4, WriterKeeps DEF m
  <2> QED
    BY <2>5, <2>6
<1> QED
  BY <1>3, <1>4

LEMMA WriteKeeps ==
  ASSUME BuffersInv, NEW n \in Nat, Write(n)
  PROVE  BuffersInv'
<1>1. UNCHANGED <<transport, readerVars, failed, consumed>> /\ produced' = produced + n
  BY DEF Write
<1>2. \/ WriteDirect(Payload(produced, produced + n)) \/ WriteFast(Payload(produced, produced + n))
      \/ WriteBoth(Payload(produced, produced + n)) \/ WriteFilledUp(Payload(produced, produced + n))
      \/ WriteFramed(Payload(produced, produced + n))
  BY DEF Write
<1> QED
  BY <1>1, <1>2, WriteDirectKeeps, WriteFastKeeps, WriteBothKeeps, WriteFilledUpKeeps, WriteFramedKeeps

LEMMA FlushWriterKeeps ==
  ASSUME BuffersInv, FlushWriter
  PROVE  BuffersInv'
BY FlushBufferedKeeps, FlushFramedKeeps DEF FlushWriter

\* ------------------------------------------------------------------------
LEMMA AccountsHanded ==
  ASSUME NEW a \in Seq(Byte), NEW b \in Seq(Byte), NEW m \in Seq(Byte), NEW w \in Seq(Byte),
         NEW g \in Seq(Byte), NEW lost, NEW n, Accounts(Place(a, g \o b, m, w), lost, n)
  PROVE  Accounts(Place(a \o g, b, m, w), lost, n)
<1>1. Place(a \o g, b, m, w) = Place(a, g \o b, m, w)
  BY HandedOver
<1> QED
  BY <1>1, Zenon

LEMMA AccountsRead ==
  ASSUME NEW a \in Seq(Byte), NEW b \in Seq(Byte), NEW m \in Seq(Byte), NEW w \in Seq(Byte),
         NEW g \in Seq(Byte), NEW lost, NEW n, Accounts(Place(a, << >>, (g \o b) \o m, w), lost, n)
  PROVE  Accounts(Place(a \o g, b, m, w), lost, n)
<1>1. Place(a \o g, b, m, w) = Place(a, << >>, (g \o b) \o m, w)
  BY ReadThrough
<1> QED
  BY <1>1, Zenon

LEMMA AccountsReadAll ==
  ASSUME NEW a \in Seq(Byte), NEW m \in Seq(Byte), NEW w \in Seq(Byte),
         NEW g \in Seq(Byte), NEW lost, NEW n, Accounts(Place(a, << >>, g \o m, w), lost, n)
  PROVE  Accounts(Place(a \o g, << >>, m, w), lost, n)
<1> DEFINE e == << >>
<1>1. e \in Seq(Byte)
  OBVIOUS
<1>2. g \o e = g
  BY WithNothing
<1>3. Accounts(Place(a, << >>, (g \o e) \o m, w), lost, n)
  BY <1>2, Zenon
<1> HIDE DEF e
<1>4. Accounts(Place(a \o g, e, m, w), lost, n)
  BY <1>1, <1>3, AccountsRead
<1> QED
  BY <1>4, Zenon DEF e

\* What a reader starts from.
LEMMA ReaderHas ==
  ASSUME BuffersInv
  PROVE  /\ consumed \in Seq(Byte) /\ InBuffer \in Seq(Byte) /\ InMemory(memory) \in Seq(Byte)
         /\ wBuf_ \in Seq(Byte) /\ IsMemory(memory) /\ produced \in Nat
         /\ Accounts(Place(consumed, InBuffer, InMemory(memory), wBuf_), losses, produced)
         /\ rBuf_ \in Seq(Byte) /\ rBase_ \in 0..Len(rBuf_) /\ NoHeader(consumed) /\ NoHeader(rBuf_)
         /\ (transport = "memory" => rBuf_ = << >> /\ rBase_ = 0 /\ InBuffer = << >>)
         /\ Have \in Nat /\ Len(InBuffer) = Have /\ (Have = 0 => InBuffer = << >>)
         /\ (IF transport = "framed" THEN failed = "no" => WholeFrames(InMemory(memory))
             ELSE NoHeader(InMemory(memory)))
         /\ failed # "cutShort"
<1>1. BuffersTyped /\ Accounts(Stream, losses, produced)
  BY DEF BuffersInv
<1>2. Accounts(Place(consumed, InBuffer, InMemory(memory), wBuf_), losses, produced)
  BY <1>1, StreamParts
<1>3. /\ consumed \in Seq(Byte) /\ InBuffer \in Seq(Byte) /\ InMemory(memory) \in Seq(Byte)
      /\ wBuf_ \in Seq(Byte) /\ IsMemory(memory) /\ Have \in Nat /\ Len(InBuffer) = Have
      /\ (rBuf_ = << >> => InBuffer = << >>)
  BY <1>1, StreamParts
<1>4. Have = 0 => InBuffer = << >>
  BY <1>3
<1> QED
  BY <1>2, <1>3, <1>4 DEF BuffersInv, BuffersTyped, BuffersUsed, HeadersWhere

\* A memory buffer by itself gives its first bytes.
Gives(n) ==
  /\ consumed' = consumed \o Given(memory, n)
  /\ IsMemory(memory') /\ InMemory(memory') = InMemory(ReadFrom(memory, n))

LEMMA GivesKeeps ==
  ASSUME BuffersInv, Direct, NEW n \in Nat, Gives(n), failed' # "cutShort",
         UNCHANGED <<transport, writerVars, rBuf_, rBase_, produced, losses>>
  PROVE  BuffersInv'
<1> DEFINE a == consumed
           m == InMemory(memory)
           g == Given(memory, n)
           r == InMemory(memory')
<1>1. /\ a \in Seq(Byte) /\ m \in Seq(Byte) /\ wBuf_ \in Seq(Byte) /\ IsMemory(memory)
      /\ rBuf_ \in Seq(Byte) /\ rBase_ \in 0..Len(rBuf_) /\ NoHeader(a) /\ NoHeader(rBuf_)
  BY ReaderHas
<1>2. /\ transport = "memory" /\ rBuf_ = << >> /\ rBase_ = 0 /\ InBuffer = << >> /\ NoHeader(m)
      /\ Accounts(Place(a, << >>, m, wBuf_), losses, produced)
  BY ReaderHas DEF Direct
<1>3. /\ consumed' = a \o g /\ IsMemory(memory') /\ r = InMemory(ReadFrom(memory, n))
  BY DEF Gives
<1>4. g \in Seq(Byte) /\ r \in Seq(Byte) /\ g \o r = m
  BY <1>1, <1>3, ReadFromFacts
<1>5. InBuffer' = << >>
  BY <1>2 DEF InBuffer
<1> HIDE DEF a, m, g, r
<1>6. NoHeader(g) /\ NoHeader(r)
  BY <1>2, <1>4, NoHeaderCat
<1>7. Accounts(Place(a \o g, << >>, r, wBuf_), losses, produced)
  BY <1>1, <1>2, <1>4, AccountsReadAll
<1>8. a \o g \in Seq(Byte) /\ NoHeader(a \o g)
  BY <1>1, <1>4, <1>6, CatTyped, NoHeaderCat
<1>9. Accounts(Place(consumed', InBuffer', InMemory(memory'), wBuf_), losses', produced)
  BY <1>3, <1>5, <1>7, Zenon DEF r
<1>10. NoHeader(InMemory(memory'))
  BY <1>6 DEF r
<1> QED
  BY <1>1, <1>2, <1>3, <1>4, <1>8, <1>9, <1>10, ReaderKeeps

LEMMA ReadDirectKeeps ==
  ASSUME BuffersInv, NEW n \in Nat, ReadDirect(n), UNCHANGED <<transport, writerVars, produced, losses>>
  PROVE  BuffersInv'
<1>1. IsMemory(memory) /\ failed # "cutShort"
  BY ReaderHas
<1>2. memory' = ReadFrom(memory, n) /\ rBuf_' = rBuf_ /\ rBase_' = rBase_ /\ failed' = failed /\ Direct
  BY DEF ReadDirect, readerVars
<1>3. IsMemory(memory')
  BY <1>1, <1>2, ReadFromFacts
<1>4. Gives(n)
  BY <1>2, <1>3, Zenon DEF Gives, ReadDirect
<1> QED
  BY <1>1, <1>2, <1>4, GivesKeeps

\* Bytes are handed to the reader, and the rest of them is in its buffer.
Hands(g, data) == consumed' = consumed \o g /\ g \o InBuffer' = data
Reading == failed = "no"
HandsFirst(n) ==
  rBase_' = rBase_ + n /\ consumed' = consumed \o SubSeq(rBuf_, rBase_ + 1, rBase_ + n)

LEMMA FromBuffer ==
  ASSUME BuffersInv, UNCHANGED <<transport, writerVars, produced, losses, memory>>,
         NEW g \in Seq(Byte), rBuf_' \in Seq(Byte), rBase_' \in 0..Len(rBuf_'),
         NoHeader(rBuf_'), transport = "memory" => rBuf_' = << >> /\ rBase_' = 0,
         InBuffer' \in Seq(Byte), Hands(g, InBuffer),
         failed' # "cutShort", Reading
  PROVE  BuffersInv'
<1> DEFINE a == consumed
           b == InBuffer
           m == InMemory(memory)
           c == InBuffer'
<1>1. /\ a \in Seq(Byte) /\ b \in Seq(Byte) /\ m \in Seq(Byte) /\ wBuf_ \in Seq(Byte)
      /\ Accounts(Place(a, b, m, wBuf_), losses, produced) /\ IsMemory(memory) /\ NoHeader(a)
  BY ReaderHas
<1>3. NoHeader(b)
  <2>1. rBuf_ \in Seq(Byte) /\ rBase_ \in 0..Len(rBuf_) /\ NoHeader(rBuf_)
    BY ReaderHas
  <2>2. Len(b) = Len(rBuf_) - rBase_ /\ \A i \in 1..(Len(rBuf_) - rBase_) : b[i] = rBuf_[rBase_ + i]
    BY <2>1, TailOf DEF InBuffer
  <2>3. ASSUME NEW i \in DOMAIN b PROVE b[i].of = 0
    <3>1. i \in 1..(Len(rBuf_) - rBase_) /\ Len(rBuf_) \in Nat
      BY <1>1, <2>1, <2>2
    <3>2. rBase_ + i \in DOMAIN rBuf_ /\ b[i] = rBuf_[rBase_ + i]
      BY <2>1, <2>2, <3>1
    <3> QED
      BY <2>1, <3>2 DEF NoHeader
  <2> QED
    BY <2>3 DEF NoHeader
<1>2. c \in Seq(Byte) /\ g \o c = b /\ consumed' = a \o g
  BY DEF Hands
<1> HIDE DEF a, b, m, c
<1>4. NoHeader(g) /\ a \o g \in Seq(Byte)
  BY <1>1, <1>2, <1>3, NoHeaderCat, CatTyped
<1>5. NoHeader(a \o g)
  BY <1>1, <1>4, NoHeaderCat
<1>6. Accounts(Place(a, g \o c, m, wBuf_), losses, produced)
  BY <1>1, <1>2, Zenon
<1>7. Accounts(Place(a \o g, c, m, wBuf_), losses, produced)
  BY <1>1, <1>2, <1>6, AccountsHanded
<1>8. Accounts(Place(consumed', InBuffer', InMemory(memory'), wBuf_), losses', produced)
  BY <1>2, <1>7, Zenon DEF m, c
<1>9. /\ IsMemory(memory')
      /\ IF transport = "framed" THEN failed' = "no" => WholeFrames(InMemory(memory'))
         ELSE NoHeader(InMemory(memory'))
  BY ReaderHas, Zenon DEF Reading
<1> QED
  BY <1>2, <1>4, <1>5, <1>8, <1>9, ReaderKeeps

LEMMA FirstFromBuffer ==
  ASSUME BuffersInv, UNCHANGED <<transport, writerVars, produced, losses, memory, rBuf_>>,
         NEW n \in Nat, n <= Have, Reading, failed' # "cutShort", HandsFirst(n)
  PROVE  BuffersInv'
<1> DEFINE s == rBuf_
           x == rBase_
           y == rBase_ + n
           g == SubSeq(s, x + 1, y)
<1>1. s \in Seq(Byte) /\ x \in 0..Len(s) /\ NoHeader(s) /\ (transport = "memory" => s = << >> /\ x = 0)
  BY ReaderHas
<1>2. y \in x..Len(s) /\ y \in 0..Len(s) /\ (transport = "memory" => y = 0)
  <2>1. Len(s) \in Nat /\ x \in 0..Len(s) /\ n <= Len(s) - x
    BY <1>1 DEF Have
  <2>2. s = << >> => Len(s) = 0
    OBVIOUS
  <2>3. y = x + n
    OBVIOUS
  <2> HIDE DEF x, y, s
  <2> QED
    BY <1>1, <2>1, <2>2, <2>3
<1>3. /\ rBuf_' = s /\ rBase_' = y /\ InBuffer = SubSeq(s, x + 1, Len(s))
      /\ InBuffer' = SubSeq(s, y + 1, Len(s)) /\ consumed' = consumed \o g
  BY DEF InBuffer, HandsFirst
<1>4. transport = "memory" => s = << >> /\ y = 0
  BY <1>1, <1>2
<1> HIDE DEF s, x, y
<1>5. g \in Seq(Byte) /\ Hands(g, InBuffer)
  <2>1. g \in Seq(Byte) /\ g \o SubSeq(s, y + 1, Len(s)) = SubSeq(s, x + 1, Len(s))
    BY <1>1, <1>2, SplitSeq
  <2> HIDE DEF g
  <2> QED
    BY <1>3, <2>1, Zenon DEF Hands
<1>6. InBuffer' \in Seq(Byte)
  BY <1>1, <1>2, <1>3, TailOf
<1> HIDE DEF g
<1> QED
  BY <1>1, <1>2, <1>3, <1>4, <1>5, <1>6, FromBuffer

LEMMA ReadFastKeeps ==
  ASSUME BuffersInv, NEW n \in Nat, ReadFast(n), Reading,
         UNCHANGED <<transport, writerVars, produced, losses>>
  PROVE  BuffersInv'
<1>1. HandsFirst(n) /\ n <= Have /\ rBuf_' = rBuf_ /\ memory' = memory /\ failed' = failed
  BY DEF ReadFast, HandsFirst
<1>2. failed # "cutShort"
  BY ReaderHas
<1> QED
  BY <1>1, <1>2, FirstFromBuffer

LEMMA ReadRestKeeps ==
  ASSUME BuffersInv, NEW n \in Nat, ReadRest(n), Reading,
         UNCHANGED <<transport, writerVars, produced, losses>>
  PROVE  BuffersInv'
<1> DEFINE g == InBuffer
           e == << >>
<1>1. /\ consumed' = consumed \o g /\ rBuf_' = e /\ rBase_' = 0 /\ memory' = memory
      /\ failed' = failed
  BY DEF ReadRest, InBuffer
<1>2. g \in Seq(Byte) /\ failed # "cutShort"
  BY ReaderHas
<1>3. e \in Seq(Byte) /\ NoHeader(e) /\ 0 \in 0..Len(e) /\ e = << >>
  BY DEF NoHeader
<1>4. InBuffer' = e
  BY <1>1 DEF InBuffer
<1> HIDE DEF e, g
<1>5. g \o e = g
  BY <1>2, <1>3, WithNothing
<1>6. Hands(g, InBuffer)
  BY <1>1, <1>4, <1>5, Zenon DEF Hands, g
<1> QED
  BY <1>1, <1>2, <1>3, <1>4, <1>6, FromBuffer

\* Data fills the reader's buffer, and the reader gets the first bytes of it.
LEMMA HandOverFacts ==
  ASSUME NEW data \in Seq(Byte), NEW n \in Nat, HandOver(data, n)
  PROVE  /\ rBuf_' = data /\ rBase_' \in 0..Len(data) /\ InBuffer' \in Seq(Byte)
         /\ \E g \in Seq(Byte) : Hands(g, data)
<1> DEFINE k == IF n <= Len(data) THEN n ELSE Len(data)
           g == SubSeq(data, 1, k)
<1>1. Len(data) \in Nat /\ Min({n, Len(data)}) = k /\ k \in 0..Len(data)
  <2>1. Len(data) \in Nat
    OBVIOUS
  <2> QED
    BY <2>1, MinOfTwo
<1> HIDE DEF k
<1>2. /\ rBuf_' = data /\ rBase_' = k /\ consumed' = consumed \o g
      /\ InBuffer' = SubSeq(data, k + 1, Len(data))
  BY <1>1, Zenon DEF HandOver, InBuffer
<1>3. InBuffer' \in Seq(Byte)
  BY <1>1, <1>2, TailOf
<1>4. 0 \in 0..Len(data) /\ k \in 0..Len(data)
  BY <1>1
<1>5. g \in Seq(Byte) /\ g \o SubSeq(data, k + 1, Len(data)) = SubSeq(data, 0 + 1, Len(data))
  <2>1. /\ SubSeq(data, 0 + 1, k) \in Seq(Byte)
        /\ SubSeq(data, 0 + 1, k) \o SubSeq(data, k + 1, Len(data)) = SubSeq(data, 0 + 1, Len(data))
    BY <1>4, SplitSeq
  <2>2. SubSeq(data, 0 + 1, k) = g
    OBVIOUS
  <2> HIDE DEF g
  <2> QED
    BY <2>1, <2>2, Zenon
<1>6. SubSeq(data, 0 + 1, Len(data)) = data
  OBVIOUS
<1> HIDE DEF g
<1>7. Hands(g, data)
  BY <1>2, <1>5, <1>6, Zenon DEF Hands
<1> QED
  BY <1>1, <1>2, <1>3, <1>5, <1>7

LEMMA FillKeeps ==
  ASSUME BuffersInv, UNCHANGED <<transport, writerVars, produced>>, transport # "memory",
         NEW data \in Seq(Byte), NoHeader(data), NEW n \in Nat, HandOver(data, n), IsMemory(memory'),
         IF transport = "framed" THEN failed' = "no" => WholeFrames(InMemory(memory'))
         ELSE NoHeader(InMemory(memory')),
         failed' # "cutShort",
         Accounts(Place(consumed, << >>, data \o InMemory(memory'), wBuf_), losses', produced)
  PROVE  BuffersInv'
<1> DEFINE a == consumed
           c == InBuffer'
           m == InMemory(memory')
<1>1. a \in Seq(Byte) /\ wBuf_ \in Seq(Byte) /\ NoHeader(a)
  BY ReaderHas
<1>2. PICK g \in Seq(Byte) : Hands(g, data)
  BY HandOverFacts
<1>3. c \in Seq(Byte) /\ rBuf_' = data /\ rBase_' \in 0..Len(data)
  BY HandOverFacts
<1>4. g \o c = data /\ consumed' = a \o g
  BY <1>2 DEF Hands
<1>5. m \in Seq(Byte)
  BY LeftInMemory
<1>6. Accounts(Place(a, << >>, data \o m, wBuf_), losses', produced)
  OBVIOUS
<1> HIDE DEF a, c, m
<1>7. NoHeader(g) /\ a \o g \in Seq(Byte)
  BY <1>1, <1>3, <1>4, NoHeaderCat, CatTyped
<1>8. NoHeader(a \o g)
  BY <1>1, <1>7, NoHeaderCat
<1>9. Accounts(Place(a, << >>, (g \o c) \o m, wBuf_), losses', produced)
  BY <1>4, <1>6, Zenon
<1>10. Accounts(Place(a \o g, c, m, wBuf_), losses', produced)
  BY <1>1, <1>3, <1>5, <1>9, AccountsRead
<1>11. Accounts(Place(consumed', InBuffer', InMemory(memory'), wBuf_), losses', produced)
  BY <1>4, <1>10, Zenon DEF c, m
<1> QED
  BY <1>3, <1>4, <1>7, <1>8, <1>11, ReaderKeeps

LEMMA ReadAheadKeeps ==
  ASSUME BuffersInv, transport = "buffered", Have = 0, NEW k \in Nat, NEW n \in Nat,
         HandOver(Given(memory, k), n), memory' = ReadFrom(memory, k),
         UNCHANGED <<transport, writerVars, produced, losses, failed>>
  PROVE  BuffersInv'
<1> DEFINE m == InMemory(memory)
           data == Given(memory, k)
           x == InMemory(memory')
<1>1. /\ m \in Seq(Byte) /\ IsMemory(memory) /\ NoHeader(m) /\ failed # "cutShort"
      /\ Accounts(Place(consumed, << >>, m, wBuf_), losses, produced)
  BY ReaderHas
<1>2. IsMemory(memory') /\ data \in Seq(Byte) /\ x \in Seq(Byte) /\ data \o x = m
  BY <1>1, ReadFromFacts
<1>3. HandOver(data, n)
  OBVIOUS
<1> HIDE DEF m, data, x
<1>4. NoHeader(data) /\ NoHeader(x)
  BY <1>1, <1>2, NoHeaderCat
<1>5. Accounts(Place(consumed, << >>, data \o InMemory(memory'), wBuf_), losses', produced)
  BY <1>1, <1>2, Zenon DEF x
<1>6. NoHeader(InMemory(memory'))
  BY <1>4 DEF x
<1> QED
  BY <1>1, <1>2, <1>3, <1>4, <1>5, <1>6, FillKeeps

LEMMA ReadBufferedKeeps ==
  ASSUME BuffersInv, NEW n \in Nat, ReadBuffered(n), UNCHANGED <<transport, writerVars, produced, losses>>
  PROVE  BuffersInv'
<1>1. transport = "buffered" /\ Have = 0 /\ failed' = failed
  BY DEF ReadBuffered
<1>2. PICK k \in 1..rBufSize_ : HandOver(Given(memory, k), n) /\ memory' = ReadFrom(memory, k)
  BY DEF ReadBuffered
<1>3. k \in Nat
  OBVIOUS
<1> QED
  BY <1>1, <1>2, <1>3, ReadAheadKeeps

LEMMA PeekBufferedKeeps ==
  ASSUME BuffersInv, PeekBuffered
  PROVE  BuffersInv'
<1>1. transport = "buffered" /\ Have = 0 /\ UNCHANGED <<transport, writerVars, produced, losses, failed>>
  BY DEF PeekBuffered
<1>2. PICK k \in 1..rBufSize_ : HandOver(Given(memory, k), 0) /\ memory' = ReadFrom(memory, k)
  BY DEF PeekBuffered
<1>3. k \in Nat /\ 0 \in Nat
  OBVIOUS
<1> QED
  BY <1>1, <1>2, <1>3, ReadAheadKeeps

\* What follows the first bytes.
LEMMA RestOf ==
  ASSUME NEW g \in Seq(Byte), NEW x \in Seq(Byte), NEW s, g \o x = s
  PROVE  /\ s \in Seq(Byte) /\ Len(x) = Len(s) - Len(g) /\ Len(s) = Len(g) + Len(x)
         /\ Len(g) \in Nat /\ Len(x) \in Nat
         /\ \A i \in 1..Len(g) : g[i] = s[i]
         /\ \A i \in 1..Len(x) : x[i] = s[Len(g) + i]
<1> DEFINE u == g \o x
<1>1. /\ u \in Seq(Byte) /\ Len(u) = Len(g) + Len(x) /\ Len(g) \in Nat /\ Len(x) \in Nat
      /\ \A i \in 1..Len(g) : u[i] = g[i]
      /\ \A i \in 1..Len(x) : u[Len(g) + i] = x[i]
  BY CatFacts
<1>2. s = u
  OBVIOUS
<1> HIDE DEF u
<1>3. Len(x) = Len(u) - Len(g)
  BY <1>1
<1> QED
  BY <1>1, <1>2, <1>3

\* A header and a frame are taken from memory with whole frames.
LEMMA FrameFromMemory ==
  ASSUME NEW m, IsMemory(m), WholeFrames(InMemory(m)), available_read(m) > 0, NEW size,
         size = m.bytes[m.rBase + 1].of
  PROVE  /\ size \in Nat /\ HeaderSize + size <= available_read(m)
         /\ IsMemory(ReadFrom(m, HeaderSize))
         /\ Given(m, HeaderSize) \in Seq(Byte) /\ NumbersIn(Given(m, HeaderSize)) = {}
         /\ InMemory(ReadFrom(m, HeaderSize)) \in Seq(Byte)
         /\ Given(m, HeaderSize) \o InMemory(ReadFrom(m, HeaderSize)) = InMemory(m)
         /\ IsMemory(ReadFrom(ReadFrom(m, HeaderSize), size))
         /\ Given(ReadFrom(m, HeaderSize), size) \in Seq(Byte)
         /\ NoHeader(Given(ReadFrom(m, HeaderSize), size))
         /\ WholeFrames(InMemory(ReadFrom(ReadFrom(m, HeaderSize), size)))
         /\ InMemory(ReadFrom(ReadFrom(m, HeaderSize), size)) \in Seq(Byte)
         /\ Given(ReadFrom(m, HeaderSize), size) \o InMemory(ReadFrom(ReadFrom(m, HeaderSize), size))
               = InMemory(ReadFrom(m, HeaderSize))
<1> DEFINE s == InMemory(m)
           avail == available_read(m)
           r == ReadFrom(m, HeaderSize)
           h == Given(m, HeaderSize)
           x == InMemory(r)
           q == ReadFrom(r, size)
           d == Given(r, size)
           y == InMemory(q)
<1>1. /\ s \in Seq(Byte) /\ Len(s) = avail /\ avail \in Nat /\ \A i \in 1..avail : s[i] = m.bytes[m.rBase + i]
      /\ HeaderSize \in Nat \ {0}
  BY LeftInMemory, BufferAssumption
<1>2. s # << >> /\ s[1].of = size
  <2>1. 1 \in 1..avail
    BY <1>1
  <2> QED
    BY <1>1, <2>1
<1>3. /\ size \in Nat \ {0} /\ HeaderSize + size <= Len(s)
      /\ \A k \in 1..HeaderSize : s[k].of = size
      /\ \A k \in 1..size : s[HeaderSize + k].of = 0
      /\ \A t \in Seq(Byte) :
           /\ Len(t) = Len(s) - (HeaderSize + size)
           /\ \A i \in 1..Len(t) : t[i] = s[(HeaderSize + size) + i]
           => WholeFrames(t)
  <2> HIDE DEF s
  <2>1. WholeFrames(s)
    BY DEF s
  <2> QED
    BY <1>1, <1>2, <2>1, FrameTaken
<1>4. /\ IsMemory(r) /\ h \in Seq(Byte) /\ h \o x = s /\ x \in Seq(Byte)
      /\ Len(h) = IF HeaderSize <= avail THEN HeaderSize ELSE avail
  BY <1>1, ReadFromFacts
<1>5. Len(h) = HeaderSize
  BY <1>1, <1>3, <1>4
<1>6. available_read(r) = Len(x)
  BY <1>4, LeftInMemory
<1> HIDE DEF s, avail, r, h, x
<1>7. /\ Len(x) = Len(s) - HeaderSize /\ \A i \in 1..HeaderSize : h[i] = s[i]
      /\ \A i \in 1..Len(x) : x[i] = s[HeaderSize + i]
  <2>1. h \in Seq(Byte) /\ x \in Seq(Byte) /\ h \o x = s
    BY <1>4
  <2>2. /\ Len(x) = Len(s) - Len(h) /\ \A i \in 1..Len(h) : h[i] = s[i]
        /\ \A i \in 1..Len(x) : x[i] = s[Len(h) + i]
    BY <2>1, RestOf
  <2> QED
    BY <1>5, <2>2
<1>7a. Len(x) \in Nat /\ Len(s) \in Nat /\ size \in Nat /\ HeaderSize \in Nat /\ size <= Len(x)
  <2>1. Len(x) \in Nat /\ Len(s) \in Nat /\ size \in Nat /\ HeaderSize \in Nat
    BY <1>1, <1>3, <1>4
  <2>2. Len(x) = Len(s) - HeaderSize /\ HeaderSize + size <= Len(s)
    BY <1>3, <1>7
  <2> QED
    BY <2>1, <2>2
<1>8. NumbersIn(h) = {}
  <2>1. \A i \in DOMAIN h : h[i].of # 0
    BY <1>3, <1>4, <1>5, <1>7
  <2> QED
    BY <2>1, NumbersMeans
<1>9. /\ IsMemory(q) /\ d \in Seq(Byte) /\ d \o y = x /\ y \in Seq(Byte)
      /\ Len(d) = IF size <= available_read(r) THEN size ELSE available_read(r)
  BY <1>3, <1>4, ReadFromFacts DEF x
<1>10. Len(d) = size
  <2>1. Len(d) = IF size <= Len(x) THEN size ELSE Len(x)
    BY <1>6, <1>9
  <2> QED
    BY <1>7a, <2>1
<1> HIDE DEF q, d, y
<1>11. /\ Len(y) = Len(x) - size /\ Len(y) \in Nat /\ \A i \in 1..size : d[i] = x[i]
       /\ \A i \in 1..Len(y) : y[i] = x[size + i]
  <2>1. d \in Seq(Byte) /\ y \in Seq(Byte) /\ d \o y = x
    BY <1>9
  <2>2. /\ Len(y) = Len(x) - Len(d) /\ Len(y) \in Nat /\ \A i \in 1..Len(d) : d[i] = x[i]
        /\ \A i \in 1..Len(y) : y[i] = x[Len(d) + i]
    BY <2>1, RestOf
  <2> QED
    BY <1>10, <2>2
<1>12. NoHeader(d)
  <2> SUFFICES ASSUME NEW i \in DOMAIN d PROVE d[i].of = 0
    BY DEF NoHeader
  <2>0. d \in Seq(Byte)
    BY <1>9
  <2>1. i \in 1..size /\ i \in 1..Len(x)
    BY <1>7a, <1>10, <2>0
  <2> QED
    BY <1>3, <1>7, <1>11, <2>1
<1>13. WholeFrames(y)
  <2>0. Len(y) = Len(x) - size /\ Len(x) = Len(s) - HeaderSize /\ Len(y) \in Nat
    BY <1>7, <1>11
  <2>1. Len(y) = Len(s) - (HeaderSize + size)
    BY <1>7a, <2>0
  <2>2. ASSUME NEW i \in 1..Len(y) PROVE y[i] = s[(HeaderSize + size) + i]
    <3>0. i \in Nat /\ 1 <= i /\ i <= Len(y) /\ size \in Nat /\ HeaderSize \in Nat /\ Len(x) \in Nat
      BY <1>7a, <2>0
    <3>1a. size + i \in 1..Len(x)
      <4>1. \A l, z, k \in Nat : 1 <= k /\ k <= l - z => z + k \in 1..l
        OBVIOUS
      <4>2. i <= Len(x) - size
        BY <3>0, <2>0
      <4> QED
        BY <3>0, <4>1, <4>2
    <3>1. size + i \in 1..Len(x) /\ HeaderSize + (size + i) = (HeaderSize + size) + i
      BY <3>0, <3>1a
    <3> QED
      BY <1>7, <1>11, <3>1
  <2> QED
    BY <1>3, <1>9, <2>1, <2>2
<1> QED
  BY <1>1, <1>3, <1>4, <1>8, <1>9, <1>12, <1>13 DEF s, avail, r, h, x, q, d, y

LEMMA ReadFrameKeeps ==
  ASSUME BuffersInv, NEW n \in Nat, ReadFrame(n), Reading,
         UNCHANGED <<transport, writerVars, produced, losses>>
  PROVE  BuffersInv'
<1> DEFINE size == memory.bytes[memory.rBase + 1].of
           r == ReadFrom(memory, HeaderSize)
           h == Given(memory, HeaderSize)
           x == InMemory(r)
           d == Given(r, size)
           y == InMemory(ReadFrom(r, size))
           m == InMemory(memory)
           a == consumed
           e == << >>
<1>1. transport = "framed" /\ Have = 0 /\ available_read(memory) > 0
  BY DEF ReadFrame
<1>2. /\ a \in Seq(Byte) /\ m \in Seq(Byte) /\ wBuf_ \in Seq(Byte) /\ IsMemory(memory)
      /\ produced \in Nat /\ Accounts(Place(a, e, m, wBuf_), losses, produced)
      /\ failed # "cutShort" /\ NoHeader(a) /\ NoHeader(rBuf_) /\ rBuf_ \in Seq(Byte)
      /\ rBase_ \in 0..Len(rBuf_) /\ InBuffer = e
  BY <1>1, ReaderHas
<1>2a. WholeFrames(m)
  BY <1>1, ReaderHas, Zenon DEF Reading
<1>3. /\ size \in Nat /\ HeaderSize + size <= available_read(memory)
      /\ IsMemory(r) /\ h \in Seq(Byte) /\ NumbersIn(h) = {} /\ x \in Seq(Byte) /\ h \o x = m
      /\ IsMemory(ReadFrom(r, size)) /\ d \in Seq(Byte) /\ NoHeader(d) /\ WholeFrames(y)
      /\ y \in Seq(Byte) /\ d \o y = x
  BY <1>1, <1>2, <1>2a, FrameFromMemory
<1>4. HeaderSize \in Nat /\ available_read(memory) \in Nat
  BY <1>2, LeftInMemory, BufferAssumption
<1>5. ~(available_read(memory) < HeaderSize + size)
  <2> HIDE DEF size
  <2> QED
    BY <1>3, <1>4
<1>6. Accounts(Place(a, e, x, wBuf_), losses, produced)
  <2>1. e \in Seq(Byte)
    OBVIOUS
  <2>2. Accounts(Place(a, e, h \o x, wBuf_), losses, produced)
    BY <1>2, <1>3, Zenon
  <2> HIDE DEF a, e, h, x
  <2> QED
    BY <1>2, <1>3, <2>1, <2>2, LostInMemory
<1>7. CASE size > MaxFrameSize
  <2>1. failed' = "oversized" /\ memory' = r /\ rBuf_' = rBuf_ /\ rBase_' = rBase_
        /\ consumed' = consumed /\ losses' = losses
    BY <1>5, <1>7 DEF ReadFrame, Fails, readerVars
  <2>2. InBuffer' = e
    BY <1>2, <2>1 DEF InBuffer
  <2>3. Accounts(Place(consumed', InBuffer', InMemory(memory'), wBuf_), losses', produced)
    BY <1>6, <2>1, <2>2, Zenon
  <2> QED
    BY <1>1, <1>2, <1>3, <2>1, <2>3, ReaderKeeps
<1>8. CASE ~(size > MaxFrameSize)
  <2>1. /\ HandOver(d, n) /\ memory' = ReadFrom(r, size) /\ failed' = failed /\ losses' = losses
    BY <1>5, <1>8 DEF ReadFrame
  <2>2. Accounts(Place(consumed, << >>, d \o InMemory(memory'), wBuf_), losses', produced)
    BY <1>3, <1>6, <2>1, Zenon
  <2>3. IsMemory(memory') /\ WholeFrames(InMemory(memory'))
    BY <1>3, <2>1
  <2>4. d \in Seq(Byte) /\ NoHeader(d)
    BY <1>3
  <2> HIDE DEF d
  <2> QED
    BY <1>1, <1>2, <2>1, <2>2, <2>3, <2>4, FillKeeps
<1> QED
  BY <1>7, <1>8

LEMMA ReadKeeps ==
  ASSUME BuffersInv, NEW n \in Nat, Read(n)
  PROVE  BuffersInv'
<1>1. Reading /\ UNCHANGED <<transport, writerVars, produced, losses>>
  BY DEF Read, MayRead, Reading
<1>2. ReadDirect(n) \/ ReadFast(n) \/ ReadRest(n) \/ ReadBuffered(n) \/ ReadFrame(n)
  BY DEF Read
<1> QED
  BY <1>1, <1>2, ReadDirectKeeps, ReadFastKeeps, ReadRestKeeps, ReadBufferedKeeps, ReadFrameKeeps

LEMMA TakenFrom ==
  ASSUME NEW m, IsMemory(m), NEW k \in Nat, k <= available_read(m), NEW bound, NEW v,
         v = [m EXCEPT !.rBase = @ + k, !.rBound = bound]
  PROVE  IsMemory(v) /\ InMemory(v) = InMemory(ReadFrom(m, k))
<1> DEFINE r == ReadFrom(m, k)
           x == m.rBase + k
           p == [m EXCEPT !.rBase = x]
           c == IF m.rBase + k <= m.rBound THEN m.rBound ELSE Len(m.bytes)
<1>1. /\ m.bytes \in Seq(Byte) /\ m.rBase \in 0..Len(m.bytes) /\ DOMAIN m = MemoryFields
      /\ available_read(m) = Len(m.bytes) - m.rBase /\ Len(m.bytes) \in Nat
  BY DEF IsMemory, available_read
<1>2. Min({k, available_read(m)}) = k /\ x \in 0..Len(m.bytes)
  BY <1>1, MinOfTwo
<1>3. p.bytes = m.bytes /\ p.rBase = x /\ p.rBound = m.rBound /\ DOMAIN p = MemoryFields
  BY <1>1 DEF MemoryFields
<1>4. v = [p EXCEPT !.rBound = bound]
  BY <1>1 DEF MemoryFields
<1>5. r = [p EXCEPT !.rBound = c]
  BY <1>1, <1>2 DEF ReadFrom, MemoryFields
<1> HIDE DEF r, p, c, x
<1>6. v.bytes = m.bytes /\ v.rBase = x /\ DOMAIN v = MemoryFields
  BY <1>3, <1>4 DEF MemoryFields
<1>7. r.bytes = m.bytes /\ r.rBase = x
  BY <1>3, <1>5 DEF MemoryFields
<1> QED
  BY <1>1, <1>2, <1>6, <1>7 DEF IsMemory, InMemory, r

LEMMA BorrowDirectKeeps ==
  ASSUME BuffersInv, NEW n \in Nat, BorrowDirect(n), Reading,
         UNCHANGED <<transport, writerVars, rBuf_, produced, losses>>
  PROVE  BuffersInv'
<1> DEFINE taken == IF failed' = "no" THEN n ELSE 0
           bound == Bound(n)
<1>1. IsMemory(memory)
  BY ReaderHas
<1>2. available_read(memory) \in Nat
  BY <1>1, LeftInMemory
<1>3. /\ Direct /\ n <= available_read(memory) /\ rBase_' = rBase_ /\ Consume(n)
      /\ consumed' = consumed \o Given(memory, taken)
      /\ memory' = [memory EXCEPT !.rBase = @ + taken, !.rBound = bound]
  BY DEF BorrowDirect
<1>4. failed' # "cutShort"
  BY <1>3 DEF Consume, Fails, Reading
<1>5. taken \in Nat /\ taken <= available_read(memory)
  BY <1>2, <1>3
<1> HIDE DEF taken, bound
<1>6. IsMemory(memory') /\ InMemory(memory') = InMemory(ReadFrom(memory, taken))
  BY <1>1, <1>3, <1>5, TakenFrom
<1>7. Gives(taken)
  BY <1>3, <1>6, Zenon DEF Gives
<1> QED
  BY <1>3, <1>4, <1>5, <1>7, GivesKeeps

LEMMA BorrowNothingKeeps ==
  ASSUME BuffersInv, NEW n \in Nat, BorrowNothing(n),
         UNCHANGED <<transport, writerVars, rBuf_, produced, losses>>
  PROVE  BuffersInv'
<1> DEFINE bound == Bound(n)
<1>1. /\ memory' = [memory EXCEPT !.rBound = bound] /\ rBase_' = rBase_ /\ consumed' = consumed
      /\ failed' = failed
  BY DEF BorrowNothing
<1> HIDE DEF bound
<1>2. IsMemory(memory)
  BY ReaderHas
<1>3. memory'.bytes = memory.bytes /\ memory'.rBase = memory.rBase /\ DOMAIN memory' = MemoryFields
  BY <1>1, <1>2 DEF IsMemory, MemoryFields
<1>4. IsMemory(memory') /\ InMemory(memory') = InMemory(memory)
  BY <1>2, <1>3 DEF IsMemory, InMemory
<1>5. InBuffer' = InBuffer
  BY <1>1 DEF InBuffer
<1>6. Accounts(Place(consumed', InBuffer', InMemory(memory'), wBuf_), losses', produced)
  BY <1>1, <1>4, <1>5, ReaderHas
<1> QED
  BY <1>1, <1>4, <1>6, ReaderHas, ReaderKeeps

LEMMA BorrowBufferedKeeps ==
  ASSUME BuffersInv, NEW n \in Nat, BorrowBuffered(n), Reading,
         UNCHANGED <<transport, writerVars, rBuf_, produced, losses>>
  PROVE  BuffersInv'
<1> DEFINE taken == IF failed' = "no" THEN n ELSE 0
<1>1. Have \in Nat /\ n <= Have /\ memory' = memory /\ Consume(n)
  BY ReaderHas DEF BorrowBuffered
<1>2. HandsFirst(taken)
  BY Zenon DEF BorrowBuffered, HandsFirst
<1>3. failed' # "cutShort"
  BY <1>1 DEF Consume, Fails, Reading
<1>4. taken \in Nat /\ taken <= Have
  BY <1>1
<1> HIDE DEF taken
<1> QED
  BY <1>1, <1>2, <1>3, <1>4, FirstFromBuffer

LEMMA BorrowKeeps ==
  ASSUME BuffersInv, NEW n \in Nat, Borrow(n)
  PROVE  BuffersInv'
<1>1. Reading /\ UNCHANGED <<transport, writerVars, rBuf_, produced, losses>>
  BY DEF Borrow, Reading
<1>2. BorrowDirect(n) \/ BorrowNothing(n) \/ BorrowBuffered(n)
  BY DEF Borrow
<1> QED
  BY <1>1, <1>2, BorrowDirectKeeps, BorrowNothingKeeps, BorrowBufferedKeeps

LEMMA ReadEndKeeps ==
  ASSUME BuffersInv, ReadEnd
  PROVE  BuffersInv'
<1>1. /\ transport' = transport /\ UNCHANGED writerVars /\ produced' = produced /\ failed' = failed
      /\ consumed' = consumed
      /\ memory' = IF Direct /\ available_read(memory) = 0 THEN Reset(memory) ELSE memory
  BY DEF ReadEnd
<1>2. IsMemory(memory') /\ InMemory(memory') = InMemory(memory)
  <2>1. IsMemory(memory) /\ InMemory(memory) \in Seq(Byte) /\ Len(InMemory(memory)) = available_read(memory)
    BY ReaderHas, LeftInMemory
  <2>2. CASE Direct /\ available_read(memory) = 0
    <3>1. InMemory(memory) = << >>
      BY <2>1, <2>2
    <3> QED
      BY <1>1, <2>2, <3>1, ResetFacts
  <2> QED
    BY <1>1, <2>1, <2>2
<1>3. /\ failed # "cutShort" /\ consumed \in Seq(Byte) /\ NoHeader(consumed)
      /\ Accounts(Place(consumed, InBuffer, InMemory(memory'), wBuf_), losses, produced)
      /\ IF transport = "framed" THEN failed' = "no" => WholeFrames(InMemory(memory'))
         ELSE NoHeader(InMemory(memory'))
  BY <1>1, <1>2, ReaderHas
<1>4. CASE transport = "framed" /\ rBufSize_ > ReclaimThresh
  <2>1. /\ rBuf_' = << >> /\ rBase_' = 0
        /\ losses' = IF Have > 0 THEN losses \cup {"unread"} ELSE losses
    BY <1>4 DEF ReadEnd
  <2>2. InBuffer' = << >> /\ rBuf_' \in Seq(Byte) /\ NoHeader(rBuf_') /\ rBase_' \in 0..Len(rBuf_')
    BY <2>1 DEF InBuffer, NoHeader
  <2>3. Accounts(Place(consumed, << >>, InMemory(memory'), wBuf_), losses', produced)
    <3>1. CASE Have > 0
      <4> DEFINE b == InBuffer
                 m == InMemory(memory')
      <4>1. /\ b \in Seq(Byte) /\ m \in Seq(Byte) /\ wBuf_ \in Seq(Byte) /\ produced \in Nat
            /\ Accounts(Place(consumed, b, m, wBuf_), losses, produced)
        BY <1>2, <1>3, ReaderHas
      <4>2. losses \subseteq losses' /\ losses' # {}
        BY <2>1, <3>1
      <4> HIDE DEF b, m
      <4>3. Accounts(Place(consumed, << >>, m, wBuf_), losses', produced)
        BY <1>3, <4>1, <4>2, LostByReader
      <4> QED
        BY <4>3 DEF m
    <3>2. CASE ~(Have > 0)
      <4>1. InBuffer = << >> /\ losses' = losses
        BY <2>1, <3>2, ReaderHas
      <4> QED
        BY <1>3, <4>1
    <3> QED
      BY <3>1, <3>2
  <2> QED
    BY <1>1, <1>2, <1>3, <1>4, <2>2, <2>3, ReaderKeeps
<1>5. CASE ~(transport = "framed" /\ rBufSize_ > ReclaimThresh)
  <2>1. rBuf_' = rBuf_ /\ rBase_' = rBase_ /\ losses' = losses
    BY <1>5 DEF ReadEnd, readerVars
  <2>2. InBuffer' = InBuffer
    BY <2>1 DEF InBuffer
  <2> QED
    BY <1>1, <1>2, <1>3, <2>1, <2>2, ReaderHas, ReaderKeeps
<1> QED
  BY <1>4, <1>5

\* The bytes in memory are given up, and there are others.
LEMMA Replaced ==
  ASSUME BuffersInv, Direct, NEW n \in Nat, IsMemory(memory'),
         InMemory(memory') = Payload(produced, produced + n), produced' = produced + n,
         losses' = IF available_read(memory) > 0 THEN losses \cup {"unread"} ELSE losses,
         UNCHANGED <<transport, writerVars, readerVars, failed, consumed>>
  PROVE  BuffersInv'
<1> DEFINE a == consumed
           b == InBuffer
           m == InMemory(memory)
           data == Payload(produced, produced + n)
           e == << >>
<1>1. /\ a \in Seq(Byte) /\ b \in Seq(Byte) /\ m \in Seq(Byte) /\ IsMemory(memory) /\ produced \in Nat
      /\ Accounts(Place(a, b, m, wBuf_), losses, produced)
  BY WriterHas
<1>2. wBuf_ = e /\ e = << >> /\ transport = "memory"
  BY WriterHas DEF Direct
<1>3. Len(m) = available_read(memory) /\ available_read(memory) \in Nat
  BY <1>1, LeftInMemory
<1>4. data \in Seq(Byte) /\ NoHeader(data) /\ produced + n \in Nat /\ InMemory(memory') = data
  BY NewData
<1>5. losses \subseteq losses' /\ (losses' = {} => NumbersIn(m) = {})
  <2>1. CASE available_read(memory) > 0
    BY <2>1
  <2>2. CASE ~(available_read(memory) > 0)
    <3>1. DOMAIN m = {} /\ losses' = losses
      <4>1. Len(m) = 0 /\ losses' = losses
        BY <1>3, <2>2
      <4> HIDE DEF m
      <4> QED
        BY <1>1, <4>1
    <3> QED
      BY <3>1, NumbersMeans
  <2> QED
    BY <2>1, <2>2
<1> HIDE DEF a, b, m, data, e
<1>6. e \in Seq(Byte) /\ m \o e = m /\ e \o data = data
  BY <1>1, <1>2, <1>4, WithNothing
<1>6a. e \in Seq(Byte)
  BY <1>6
<1>7. Accounts(Place(a, b, m \o e, e), losses, produced)
  BY <1>1, <1>2, <1>6, Zenon
<1>8. Accounts(Place(a, b, e, e), losses', produced)
  BY <1>1, <1>5, <1>6a, <1>7, LostInMemory
<1>9. Accounts(Place(a, b, e, e) \o data, losses', produced + n)
  <2>1. Place(a, b, e, e) \in Seq(Byte)
    BY <1>1, <1>6a, PlaceTyped
  <2> QED
    BY <1>1, <1>8, <2>1, AccountsAppended DEF data
<1>10. Accounts(Place(a, b, e, e \o data), losses', produced + n)
  BY <1>1, <1>4, <1>6a, <1>9, AccountsToWriter
<1>11. Accounts(Place(a, b, e, data), losses', produced + n)
  BY <1>6, <1>10, Zenon
<1>12. Accounts(Place(a, b, e \o data, << >>), losses', produced + n)
  BY <1>1, <1>4, <1>6a, <1>11, JustFlushed
<1>13. Accounts(Place(consumed, InBuffer, InMemory(memory'), wBuf_'), losses', produced')
  <2>1. wBuf_' = << >>
    BY <1>2 DEF writerVars
  <2> QED
    BY <1>4, <1>6, <1>12, <2>1, Zenon DEF a, b
<1>14. wBuf_' = << >> /\ wBuf_' \in Seq(Byte) /\ NoHeader(wBuf_')
  BY <1>2 DEF writerVars, NoHeader
<1> QED
  BY <1>2, <1>4, <1>13, <1>14, WriterKeeps

LEMMA NoPayload ==
  ASSUME NEW n \in Nat
  PROVE  Payload(n, n + 0) = << >>
<1> DEFINE p == Payload(n, n + 0)
<1>1. 0 \in Nat
  OBVIOUS
<1>2. p \in Seq(Byte) /\ Len(p) = 0
  BY <1>1, PayloadFacts
<1> HIDE DEF p
<1>3. p = << >>
  BY <1>2
<1> QED
  BY <1>3 DEF p

LEMMA ResetBufferKeeps ==
  ASSUME BuffersInv, ResetBuffer
  PROVE  BuffersInv'
<1>1. /\ Direct /\ memory' = Reset(memory) /\ produced' = produced
      /\ losses' = IF available_read(memory) > 0 THEN losses \cup {"unread"} ELSE losses
      /\ UNCHANGED <<transport, writerVars, readerVars, failed, consumed>>
  BY DEF ResetBuffer
<1>2. IsMemory(memory') /\ InMemory(memory') = << >>
  BY <1>1, ResetFacts
<1>3. 0 \in Nat /\ produced \in Nat /\ produced' = produced + 0
  BY <1>1, WriterHas
<1>4. Payload(produced, produced + 0) = << >>
  BY <1>3, NoPayload
<1> QED
  BY <1>1, <1>2, <1>3, <1>4, Replaced

LEMMA ResetBufferToKeeps ==
  ASSUME BuffersInv, NEW n \in Nat, NEW policy, ResetBufferTo(n, policy)
  PROVE  BuffersInv'
<1> DEFINE data == Payload(produced, produced + n)
           max == memory.max
<1>1. /\ Direct /\ memory' = Constructed(data, max, policy) /\ produced' = produced + n
      /\ losses' = IF available_read(memory) > 0 THEN losses \cup {"unread"} ELSE losses
      /\ UNCHANGED <<transport, writerVars, readerVars, failed, consumed>>
  BY DEF ResetBufferTo, Exchange
<1>2. data \in Seq(Byte) /\ data = Payload(produced, produced + n)
  BY NewData
<1> HIDE DEF data, max
<1>3. IsMemory(memory') /\ InMemory(memory') = data
  BY <1>1, <1>2, ConstructedFacts
<1> QED
  BY <1>1, <1>2, <1>3, Replaced

LEMMA ResetBufferSizeKeeps ==
  ASSUME BuffersInv, NEW n \in Nat, ResetBufferSize(n)
  PROVE  BuffersInv'
<1> DEFINE max == memory.max
           e == << >>
<1>1. /\ Direct /\ memory' = MemoryBuffer(e, n, max, TRUE) /\ produced' = produced + 0
      /\ losses' = IF available_read(memory) > 0 THEN losses \cup {"unread"} ELSE losses
      /\ UNCHANGED <<transport, writerVars, readerVars, failed, consumed>>
  BY DEF ResetBufferSize, Exchange
<1>2. e \in Seq(Byte) /\ e = << >>
  OBVIOUS
<1> HIDE DEF max, e
<1>3. IsMemory(memory') /\ InMemory(memory') = e
  BY <1>1, <1>2, MemoryBufferFacts
<1>4. 0 \in Nat /\ produced \in Nat
  BY WriterHas
<1>5. Payload(produced, produced + 0) = << >>
  BY <1>4, NoPayload
<1> QED
  BY <1>1, <1>2, <1>3, <1>4, <1>5, Replaced

LEMMA BuffersStart ==
  ASSUME BufferInit
  PROVE  BuffersInv
<1> DEFINE e == << >>
<1>1. /\ wBuf_ = e /\ rBuf_ = e /\ rBase_ = 0 /\ failed = "no" /\ consumed = e /\ losses = {}
      /\ e = << >> /\ e \in Seq(Byte) /\ NoHeader(e)
  BY DEF BufferInit, NoHeader
<1>2. InBuffer = e
  BY <1>1 DEF InBuffer
<1>3. ASSUME produced \in Nat, IsMemory(memory), InMemory(memory) = Payload(0, produced),
             transport \in {"memory", "buffered", "framed"},
             transport = "buffered" => wBufSize_ \in Nat,
             transport = "framed" => produced = 0
      PROVE  BuffersInv
  <2> DEFINE data == Payload(0, produced)
  <2>1. data \in Seq(Byte) /\ NoHeader(data) /\ Rising(data) /\ NumbersIn(data) = 1..produced
    <3> DEFINE z == 0
    <3>1. z \in Nat /\ z + produced = produced /\ z + 1 = 1 /\ z = 0
      BY <1>3
    <3> HIDE DEF z
    <3>2. LET p == Payload(z, z + produced)
          IN p \in Seq(Byte) /\ NoHeader(p) /\ Rising(p) /\ NumbersIn(p) = (z + 1) .. (z + produced)
      BY <1>3, <3>1, PayloadFacts
    <3> QED
      BY <3>1, <3>2
  <2>2. Stream = data
    <3>1. Stream = ((e \o e) \o InMemory(memory)) \o e
      BY <1>1, <1>2 DEF Stream
    <3>2. e \o e = e
      BY <1>1, WithNothing
    <3>2a. InMemory(memory) = data
      BY <1>3
    <3>2b. data \in Seq(Byte)
      BY <2>1
    <3>2c. e = << >>
      OBVIOUS
    <3> HIDE DEF data, e
    <3>3. e \o data = data /\ data \o e = data
      BY <3>2b, <3>2c, WithNothing
    <3> QED
      BY <3>1, <3>2, <3>2a, <3>3, Zenon
  <2>3. Accounts(Stream, losses, produced)
    <3> HIDE DEF data
    <3> QED
      BY <1>1, <2>1, <2>2 DEF Accounts
  <2>4. BuffersTyped /\ BuffersUsed
    BY <1>1, <1>3 DEF BuffersTyped, BuffersUsed
  <2>5. HeadersWhere
    <3>1. CASE transport = "framed"
      <4>1. data = << >>
        <5>1. 0 \in Nat /\ produced = 0 + 0 /\ produced = 0
          BY <1>3, <3>1
        <5> QED
          BY <5>1, NoPayload
      <4>2. WholeFrames(InMemory(memory))
        BY <1>3, <4>1 DEF WholeFrames
      <4> QED
        BY <1>1, <3>1, <4>2 DEF HeadersWhere
    <3>2. CASE transport # "framed"
      BY <1>1, <1>3, <2>1, <3>2 DEF HeadersWhere
    <3> QED
      BY <3>1, <3>2
  <2> QED
    BY <1>1, <2>3, <2>4, <2>5 DEF BuffersInv
<1>4. ASSUME produced = 0, NEW max, memory = MemoryBuffer(<< >>, MemorySize, max, TRUE)
      PROVE  IsMemory(memory) /\ InMemory(memory) = Payload(0, produced) /\ produced \in Nat
  <2> DEFINE size == MemorySize
  <2>1. memory = MemoryBuffer(e, size, max, TRUE)
    BY <1>4
  <2>2. e \in Seq(Byte) /\ e = << >>
    BY <1>1
  <2> HIDE DEF e, size
  <2>3. IsMemory(memory) /\ InMemory(memory) = e
    BY <2>1, <2>2, MemoryBufferFacts
  <2>4. 0 \in Nat /\ 0 + 0 = 0
    OBVIOUS
  <2>5. Payload(0, 0) = << >>
    BY <2>4, NoPayload
  <2> QED
    BY <1>4, <2>2, <2>3, <2>5
<1>5. CASE MemoryAlone
  <2>1. transport = "memory"
    BY <1>5 DEF MemoryAlone
  <2>2. CASE \E max \in MaxSizes : memory = MemoryBuffer(<< >>, MemorySize, max, TRUE) /\ produced = 0
    BY <1>3, <1>4, <2>1, <2>2
  <2>3. CASE produced \in 0..MaxBytes
             /\ \E policy \in Policy : memory = Constructed(Payload(0, produced), Max(MaxSizes), policy)
    <3>1. PICK policy \in Policy : memory = Constructed(Payload(0, produced), Max(MaxSizes), policy)
      BY <2>3
    <3>2. produced \in Nat
      BY <2>3
    <3> DEFINE data == Payload(0, produced)
               max == Max(MaxSizes)
    <3>3. data \in Seq(Byte)
      <4>1. 0 \in Nat /\ 0 + produced = produced
        BY <3>2
      <4> QED
        BY <3>2, <4>1, PayloadFacts
    <3>4. memory = Constructed(data, max, policy)
      BY <3>1
    <3> HIDE DEF data, max
    <3>5. IsMemory(memory) /\ InMemory(memory) = data
      BY <3>3, <3>4, ConstructedFacts
    <3> QED
      BY <1>3, <2>1, <3>2, <3>5 DEF data
  <2> QED
    BY <1>5, <2>2, <2>3 DEF MemoryAlone
<1>6. CASE BufferedPair \/ FramedPair
  <2>1. PICK max \in MaxSizes : memory = MemoryBuffer(<< >>, MemorySize, max, TRUE) /\ produced = 0
    BY <1>6 DEF BufferedPair, FramedPair, Below
  <2>2. transport \in {"buffered", "framed"} /\ (transport = "buffered" => wBufSize_ = BufSize)
    BY <1>6 DEF BufferedPair, FramedPair
  <2>3. BufSize \in Nat
    BY BufferAssumption
  <2> QED
    BY <1>3, <1>4, <2>1, <2>2, <2>3
<1> QED
  BY <1>5, <1>6 DEF BufferInit

LEMMA BuffersKeep ==
  ASSUME BuffersInv, [BufferNext]_bufferVars
  PROVE  BuffersInv'
<1>1. Lengths \subseteq Nat
  BY BufferAssumption
<1>2. CASE UNCHANGED bufferVars
  <2>1. /\ transport' = transport /\ memory' = memory /\ wBuf_' = wBuf_ /\ wBufSize_' = wBufSize_
        /\ rBuf_' = rBuf_ /\ rBase_' = rBase_ /\ failed' = failed /\ produced' = produced
        /\ consumed' = consumed /\ losses' = losses
    BY <1>2 DEF bufferVars, writerVars, readerVars
  <2>2. BuffersTyped' /\ BuffersUsed' /\ HeadersWhere'
    BY <2>1 DEF BuffersInv, BuffersTyped, BuffersUsed, HeadersWhere
  <2>3. Stream' = Stream
    BY <2>1 DEF Stream, InBuffer
  <2> QED
    BY <2>1, <2>2, <2>3 DEF BuffersInv
<1>3. ASSUME NEW n \in Lengths, Write(n) \/ Read(n) \/ Borrow(n) \/ ResetBufferSize(n) PROVE BuffersInv'
  BY <1>1, <1>3, WriteKeeps, ReadKeeps, BorrowKeeps, ResetBufferSizeKeeps
<1>4. ASSUME NEW n \in Lengths, NEW k \in 0..n, WriteInPlace(n, k) PROVE BuffersInv'
  BY <1>1, <1>4, WriteInPlaceKeeps
<1>5. ASSUME NEW n \in Lengths, NEW policy \in Policy, ResetBufferTo(n, policy) PROVE BuffersInv'
  BY <1>1, <1>5, ResetBufferToKeeps
<1> QED
  BY <1>2, <1>3, <1>4, <1>5, FlushWriterKeeps, PeekBufferedKeeps, ReadEndKeeps, ResetBufferKeeps
     DEF BufferNext

\* Whatever the sizes of buffers, frames and calls are, bytes arrive once each and in order through a
\* memory buffer, a buffered pair and a framed pair, as long as none is refused, lost or given up
\* (TBufferTransports.cpp).
THEOREM BytesArriveInOrder == BufferSpec => []StreamInOrder
<1>1. BufferInit => BuffersInv
  BY BuffersStart
<1>2. BuffersInv /\ [BufferNext]_bufferVars => BuffersInv'
  BY BuffersKeep
<1>3. BuffersInv => StreamInOrder
  BY DEF BuffersInv, HeadersWhere, Accounts, StreamInOrder
<1> QED
  BY <1>1, <1>2, <1>3, PTL DEF BufferSpec
=============================================================================
