----------------------------- MODULE Protocols -----------------------------
(***************************************************************************)
(* The binary, the compact and the JSON protocol of the Thrift library     *)
(* (TBinaryProtocol.tcc, TCompactProtocol.tcc, TJSONProtocol.cpp): what    *)
(* one protocol object writes for the calls of generated code, and what    *)
(* the calls of another object read from it, message after message.        *)
(*                                                                         *)
(* The generated code is outside the repository: it walks a message, which *)
(* is a struct of fields, in the order of TProtocol's calls.  Numbers of   *)
(* all widths are one type, lists and sets another.  A symbol of the wire  *)
(* is what one elementary write puts there.  A message that is not written *)
(* or read to its end is dropped by the transport below (a frame), and the *)
(* protocol objects go on with the next.  A reader that meets a symbol it  *)
(* has no use for is taken to fail.                                        *)
(***************************************************************************)
EXTENDS Integers, SequencesExt

CONSTANTS
  Fields,         \* the fields of structs: <<type, id>>; an id of 0 is none
  Numbers,
  Lists, Maps,    \* the lists and maps: <<type, size>> and <<key, value, size>>
  Name,           \* the name of a message: a string, a sequence of characters
  MaxFields,      \* bound: the fields of the first message; each later one has one less
  MaxMessages,    \* bound: the messages
  MaxNibble,      \* 15, the largest number in four bits
  VarintBase,     \* 128, the values of seven bits
  RecursionLimit, \* getRecursionLimit() of the reader
  Readers         \* pairs: a protocol, and whether the reader knows the fields or skips them all

VARIABLES
  protocol, knows,
  said,         \* the writer's calls in this message
  owed,         \* what it has begun: a stack of frames
  out,          \* the writing object, with the wire
  heard,        \* what the reader's calls have returned
  expected,     \* what it has begun
  in,           \* the reading object
  input_recursion_depth_,
  failed,       \* why reading has failed
  refused,      \* history: messages refused for their depth
  messages,
  clean         \* both objects were at rest when the message began

protocolVars == <<protocol, knows, said, owed, out, heard, expected, in, input_recursion_depth_,
                  failed, refused, messages, clean>>

-----------------------------------------------------------------------------
\* What the generated code calls, and what it still has to call.  A frame is something begun: what it
\* consists of, and how many values of that are left.
Frame(of, types, left) == [of |-> of, types |-> types, left |-> left]
NextType(frame) == frame.types[1 + (frame.left % Len(frame.types))]

Values(type) ==
  CASE type = "bool"   -> {<<"bool", b>> : b \in BOOLEAN}
    [] type = "number" -> {<<"number", n>> : n \in Numbers}
    [] type = "list"   -> {<<"list">> \o l : l \in Lists}
    [] type = "map"    -> {<<"map">> \o m : m \in Maps}
    [] type = "struct" -> {<<"struct">>}

FieldsSaid == Len(SelectSeq(said, LAMBDA e : e[1] = "field"))

\* The calls that may come next.
Calls ==
  IF owed = << >> THEN {<<"message", Name>>}
  ELSE LET top == Last(owed) IN
       IF top.left > 0 THEN Values(NextType(top))
       ELSE {<<"end", top.of>>} \cup
            (IF top.of = "struct" /\ FieldsSaid <= MaxFields - messages
             THEN {<<"field">> \o f : f \in Fields}
             ELSE {})

\* The frames after a call.
After(frames, e) ==
  LET used == [frames EXCEPT ![Len(frames)].left = @ - 1]
  IN CASE e[1] = "message" -> <<Frame("message", <<"struct">>, 1)>>
       [] e[1] = "end"     -> Front(frames)
       [] e[1] = "field"   -> Append(frames, Frame("field", <<e[2]>>, 1))
       [] e[1] = "struct"  -> Append(used, Frame("struct", << >>, 0))
       [] e[1] = "list"    -> Append(used, Frame("list", <<e[2]>>, e[3]))
       [] e[1] = "map"     -> Append(used, Frame("map", <<e[2], e[3]>>, 2 * e[4]))
       [] OTHER            -> used

-----------------------------------------------------------------------------
\* Symbols and elementary writes.
Char(c) == <<"char", c>>
Chars(s) == [i \in DOMAIN s |-> Char(s[i])]
TypeByte(t) == <<"type", t>>
Word(n) == <<"word", n>>
Header(hi, lo) == <<"header", <<hi, lo>>>>   \* two numbers of four bits

Put(o, symbols) == [o EXCEPT !.wire = @ \o symbols]

\* writeVarint32: groups of seven bits, of which all but the last have the eighth bit set.
Varint[n \in Nat] ==
  IF n < VarintBase THEN <<<<"byte", n>>>>
  ELSE <<<<"byte", VarintBase + (n % VarintBase)>>>> \o Varint[n \div VarintBase]

\* (n << 1) ^ (n >> 31), and back.
Zigzag(n) == IF n >= 0 THEN 2 * n ELSE -2 * n - 1
Unzigzag(n) == IF n % 2 = 0 THEN n \div 2 ELSE -(n \div 2) - 1

VERSION_1 == -1   \* negative, as no length of a name is

BinaryWrite(o, e) ==
  CASE e[1] = "message" /\ protocol = "binary" ->
         Put(o, <<Word(VERSION_1), Word(Len(e[2]))>> \o Chars(e[2]) \o <<Word(0)>>)
    [] e[1] = "message" /\ protocol # "binary" ->
         Put(o, <<Word(Len(e[2]))>> \o Chars(e[2]) \o <<TypeByte("call"), Word(0)>>)
    [] e[1] = "field"   -> Put(o, <<TypeByte(e[2]), Word(e[3])>>)
    [] e[1] = "list"    -> Put(o, <<TypeByte(e[2]), Word(e[3])>>)
    [] e[1] = "map"     -> Put(o, <<TypeByte(e[2]), TypeByte(e[3]), Word(e[4])>>)
    [] e[1] = "bool"    -> Put(o, <<<<"byte", IF e[2] THEN 1 ELSE 0>>>>)
    [] e[1] = "number"  -> Put(o, <<Word(e[2])>>)
    [] e = <<"end", "struct">> -> Put(o, <<TypeByte("stop")>>)
    [] OTHER            -> o

CompactType(type) == IF type = "bool" THEN "true" ELSE type

\* Faulty variant: the id of the field is not kept for the next one.
FieldForgotten(o, type, id) ==
  LET delta == id - o.lastFieldId_
  IN Put(o, IF delta \in 1..MaxNibble THEN <<Header(delta, type)>>
            ELSE <<Header(0, type)>> \o Varint[Zigzag(id)])

\* writeFieldBeginInternal
FieldBegin(o, type, id) ==
  LET delta == id - o.lastFieldId_
  IN [Put(o, IF delta \in 1..MaxNibble THEN <<Header(delta, type)>>
             ELSE <<Header(0, type)>> \o Varint[Zigzag(id)])
      EXCEPT !.lastFieldId_ = id]

\* writeBool: with the header of its field, if that waits for it.
CompactBool(o, code) ==
  IF o.booleanField_ = 0 THEN Put(o, <<Header(0, code)>>)
  ELSE [FieldBegin(o, code, o.booleanField_) EXCEPT !.booleanField_ = 0]

CompactWrite(o, e) ==
  CASE e[1] = "message" ->
         Put(o, <<Header("protocol", "version")>> \o Varint[0] \o Varint[Len(e[2])] \o Chars(e[2]))
    [] e[1] = "struct"  -> [o EXCEPT !.lastField_ = Append(@, o.lastFieldId_), !.lastFieldId_ = 0]
    [] e[1] = "field"   -> IF e[2] = "bool" THEN [o EXCEPT !.booleanField_ = e[3]]
                           ELSE FieldBegin(o, CompactType(e[2]), e[3])
    [] e[1] = "bool"    -> CompactBool(o, IF e[2] THEN "true" ELSE "false")
    [] e[1] = "number"  -> Put(o, Varint[Zigzag(e[2])])
    [] e[1] = "list"    ->
         Put(o, IF e[3] < MaxNibble THEN <<Header(e[3], CompactType(e[2]))>>
                ELSE <<Header(MaxNibble, CompactType(e[2]))>> \o Varint[e[3]])
    [] e[1] = "map"     ->
         Put(o, IF e[4] = 0 THEN Varint[0]
                ELSE Varint[e[4]] \o <<Header(CompactType(e[2]), CompactType(e[3]))>>)
    [] e = <<"end", "struct">> ->
         [Put(o, <<Header(0, "stop")>>) EXCEPT !.lastFieldId_ = Last(o.lastField_),
                                               !.lastField_ = Front(@)]
    [] OTHER            -> o

-----------------------------------------------------------------------------
\* JSON.  A context knows what stands between two values: nothing, a comma, or by turns a colon and
\* a comma.
Sign(c) == <<"sign", c>>
Quote == Sign("quote")
Context(of) == [of |-> of, first_ |-> TRUE, colon_ |-> of = "pair"]

\* The separator the context asks for, and the context behind it.
Separator(c) ==
  IF c.of = "base" \/ c.first_ THEN << >>
  ELSE IF c.of = "pair" /\ c.colon_ THEN <<Sign(":")>> ELSE <<Sign(",")>>
Passed(c) ==
  [c EXCEPT !.first_ = FALSE, !.colon_ = IF c.of = "pair" /\ ~c.first_ THEN ~@ ELSE @]

EscapeNum(c) == c.of = "pair" /\ c.colon_
Pass(contexts) == Append(Front(contexts), Passed(Last(contexts)))

\* context_->write
JSONContext(o) == [Put(o, Separator(Last(o.contexts_))) EXCEPT !.contexts_ = Pass(@)]

\* writeJSONChar: letters stand for themselves, the others are escaped.
Escaped(c) ==
  CASE c = "quote"     -> <<Sign("\\"), Quote>>
    [] c = "backslash" -> <<Sign("\\"), Sign("\\")>>
    [] c = "newline"   -> <<Sign("\\"), Char("n")>>
    [] c = "control"   -> <<Sign("\\"), Char("u"), Char("00xx")>>
    [] OTHER           -> <<Char(c)>>

JSONString(o, s) ==
  Put(JSONContext(o), <<Quote>> \o FlattenSeq([i \in DOMAIN s |-> Escaped(s[i])]) \o <<Quote>>)

JSONInteger(o, n) ==
  LET c == JSONContext(o)
  IN Put(c, IF EscapeNum(Last(c.contexts_)) THEN <<Quote, <<"digits", n>>, Quote>> ELSE <<<<"digits", n>>>>)

Start(o, sign, of) == [Put(JSONContext(o), <<Sign(sign)>>) EXCEPT !.contexts_ = Append(@, Context(of))]
End(o, sign) == Put([o EXCEPT !.contexts_ = Front(@)], <<Sign(sign)>>)

JSONWrite(o, e) ==
  CASE e[1] = "message" ->
         JSONInteger(JSONInteger(JSONString(JSONInteger(Start(o, "[", "list"), 1), e[2]), 1), 0)
    [] e[1] = "struct"  -> Start(o, "{", "pair")
    [] e[1] = "field"   -> JSONString(Start(JSONInteger(o, e[3]), "{", "pair"), <<e[2]>>)
    [] e[1] = "bool"    -> JSONInteger(o, IF e[2] THEN 1 ELSE 0)
    [] e[1] = "number"  -> JSONInteger(o, e[2])
    [] e[1] = "list"    -> JSONInteger(JSONString(Start(o, "[", "list"), <<e[2]>>), e[3])
    [] e[1] = "map"     ->
         Start(JSONInteger(JSONString(JSONString(Start(o, "[", "list"), <<e[2]>>), <<e[3]>>), e[4]),
               "{", "pair")
    [] e = <<"end", "map">> -> End(End(o, "}"), "]")
    [] e[1] = "end" /\ e[2] \in {"struct", "field"} -> End(o, "}")
    [] e[1] = "end" /\ e[2] \in {"list", "message"} -> End(o, "]")

Written(o, e) ==
  CASE protocol = "json"    -> JSONWrite(o, e)
    [] protocol = "compact" -> CompactWrite(o, e)
    [] OTHER                -> BinaryWrite(o, e)

-----------------------------------------------------------------------------
\* Elementary reads.  A reading object is passed on with ok, whether all has been as it must, and got, what
\* has been read; a call ends with the call of the writer it stands for.
Symbol(s, i) == IF i <= Len(out.wire) THEN out.wire[i] ELSE <<"nothing", 0>>
Take(s, symbol) == [s EXCEPT !.ok = @ /\ Symbol(s, s.at) = symbol, !.at = @ + 1]
Get(s, kind) ==
  [s EXCEPT !.ok = @ /\ Symbol(s, s.at)[1] = kind, !.got = Append(@, Symbol(s, s.at)[2]), !.at = @ + 1]
Result(s, e) == IF s.ok THEN [s EXCEPT !.got = e] ELSE s

\* readStringBody, of the length read last.
Body(s) ==
  IF ~s.ok THEN s
  ELSE LET n == Last(s.got)
           text == [i \in 1..n |-> Symbol(s, s.at + i - 1)]
       IN [s EXCEPT !.ok = \A i \in 1..n : text[i][1] = "char",
                    !.got = Append(@, [i \in 1..n |-> text[i][2]]), !.at = @ + n]

BinaryMessage(s) ==
  LET size == Get(s, "word")
      versioned == Get(Body(Get(size, "word")), "word")
      old == Get(Get(Body(size), "type"), "word")
  IN IF ~size.ok THEN size
     ELSE IF size.got[1] >= 0 THEN Result(old, <<"message", old.got[2]>>)
     ELSE IF size.got[1] # VERSION_1 THEN [size EXCEPT !.ok = FALSE]
     ELSE Result(versioned, <<"message", versioned.got[3]>>)

BinaryRead(s, what) ==
  CASE what[1] = "message" -> BinaryMessage(s)
    [] what[1] = "field"   ->
         LET type == Get(s, "type")
             id == Get(type, "word")
         IN IF type.ok /\ type.got[1] = "stop" THEN Result(type, <<"end", "struct">>)
            ELSE Result(id, <<"field", id.got[1], id.got[2]>>)
    [] what[1] = "list"    -> LET r == Get(Get(s, "type"), "word") IN Result(r, <<"list">> \o r.got)
    [] what[1] = "map"     ->
         LET r == Get(Get(Get(s, "type"), "type"), "word") IN Result(r, <<"map">> \o r.got)
    [] what[1] = "bool"    -> LET r == Get(s, "byte") IN Result(r, <<"bool", r.got[1] # 0>>)
    [] what[1] = "number"  -> LET r == Get(s, "word") IN Result(r, <<"number">> \o r.got)
    [] OTHER               -> Result(s, what)

\* readVarint32
GetVarint(s) ==
  LET number[i \in s.at .. Len(out.wire) + 1] ==
        IF Symbol(s, i)[1] # "byte" THEN [n |-> 0, next |-> 0]
        ELSE IF Symbol(s, i)[2] < VarintBase THEN [n |-> Symbol(s, i)[2], next |-> i + 1]
        ELSE [n |-> (Symbol(s, i)[2] - VarintBase) + VarintBase * number[i + 1].n,
              next |-> number[i + 1].next]
  IN IF ~s.ok \/ s.at > Len(out.wire) \/ number[s.at].next = 0 THEN [s EXCEPT !.ok = FALSE]
     ELSE [s EXCEPT !.got = Append(@, number[s.at].n), !.at = number[s.at].next]

TType(code) == IF code \in {"true", "false"} THEN "bool" ELSE code

\* Faulty variant: the end of a struct does not bring back the id of the field around it.
PoppedOnly(s) == [s EXCEPT !.lastField_ = Front(@)]

\* readStructEnd
Popped(s) == [s EXCEPT !.lastFieldId_ = Last(s.lastField_), !.lastField_ = Front(@)]

CompactField(s) ==
  LET head == Get(s, "header")
      code == head.got[1][2]
      long == GetVarint(head)
      id == IF head.got[1][1] = 0 THEN Unzigzag(long.got[2]) ELSE s.lastFieldId_ + head.got[1][1]
      read == IF head.got[1][1] = 0 THEN long ELSE head
  IN IF ~head.ok THEN head
     ELSE IF code = "stop" THEN Result(Popped(head), <<"end", "struct">>)
     ELSE IF ~read.ok THEN read
     ELSE Result([read EXCEPT !.lastFieldId_ = id,
                              !.boolValue_ = IF code \in {"true", "false"} THEN code ELSE @],
                 <<"field", TType(code), id>>)

CompactRead(s, what) ==
  CASE what[1] = "message" ->
         LET r == Body(GetVarint(GetVarint(Take(s, Header("protocol", "version")))))
         IN Result(r, <<"message", r.got[3]>>)
    [] what[1] = "struct"  ->
         Result([s EXCEPT !.lastField_ = Append(@, s.lastFieldId_), !.lastFieldId_ = 0], <<"struct">>)
    [] what[1] = "field"   -> CompactField(s)
    [] what[1] = "bool" /\ s.boolValue_ # "none" ->
         Result([s EXCEPT !.boolValue_ = "none"], <<"bool", s.boolValue_ = "true">>)
    [] what[1] = "bool" /\ s.boolValue_ = "none" ->
         LET r == Get(s, "header") IN Result(r, <<"bool", r.got[1][2] = "true">>)
    [] what[1] = "number"  -> LET r == GetVarint(s) IN Result(r, <<"number", Unzigzag(r.got[1])>>)
    [] what[1] = "list"    ->
         LET head == Get(s, "header")
             r == IF head.ok /\ head.got[1][1] = MaxNibble THEN GetVarint(head) ELSE head
         IN Result(r, <<"list", TType(r.got[1][2]),
                        IF r.got[1][1] = MaxNibble THEN r.got[2] ELSE r.got[1][1]>>)
    [] what[1] = "map"     ->
         LET size == GetVarint(s)
             r == Get(size, "header")
         IN IF size.ok /\ size.got[1] = 0 THEN Result(size, <<"map", "stop", "stop", 0>>)
            ELSE Result(r, <<"map", TType(r.got[2][1]), TType(r.got[2][2]), r.got[1]>>)
    [] OTHER               -> Result(s, what)

\* context_->read
ReadContext(s) ==
  LET separator == Separator(Last(s.contexts_))
      passed == [s EXCEPT !.contexts_ = Pass(@)]
  IN IF separator = << >> THEN passed ELSE Take(passed, separator[1])

\* readJSONNumericChars: all digits there are, and a look at what follows them.
Digits(s) ==
  [Get(s, "digits") EXCEPT !.ok = @ /\ Symbol(s, s.at + 1)[1] \notin {"digits", "nothing"}]

GetInteger(s) ==
  LET c == ReadContext(s)
  IN IF EscapeNum(Last(c.contexts_)) THEN Take(Digits(Take(c, Quote)), Quote) ELSE Digits(c)

Unescaped(symbol) ==
  CASE symbol = Quote      -> "quote"
    [] symbol = Sign("\\") -> "backslash"
    [] symbol = Char("n")  -> "newline"
    [] OTHER               -> "?"

GetString(s) ==
  LET c == Take(ReadContext(s), Quote)
      Behind(char, rest) == [chars |-> <<char>> \o rest.chars, next |-> rest.next]
      text[i \in c.at .. Len(out.wire) + 3] ==
        IF i > Len(out.wire) THEN [chars |-> << >>, next |-> 0]
        ELSE IF out.wire[i] = Quote THEN [chars |-> << >>, next |-> i + 1]
        ELSE IF out.wire[i] # Sign("\\") THEN Behind(out.wire[i][2], text[i + 1])
        ELSE IF Symbol(s, i + 1) = Char("u") THEN Behind("control", text[i + 3])
        ELSE Behind(Unescaped(Symbol(s, i + 1)), text[i + 2])
  IN IF ~c.ok \/ text[c.at].next = 0 THEN [c EXCEPT !.ok = FALSE]
     ELSE [c EXCEPT !.got = Append(@, text[c.at].chars), !.at = text[c.at].next]

GetStart(s, sign, of) == [Take(ReadContext(s), Sign(sign)) EXCEPT !.contexts_ = Append(@, Context(of))]
GetEnd(s, sign) == [Take(s, Sign(sign)) EXCEPT !.contexts_ = Front(@)]

JSONField(s) ==
  LET id == GetInteger(s)
      r == GetString(GetStart(id, "{", "pair"))
  IN IF Symbol(s, s.at) = Sign("}") THEN Result(GetEnd(s, "}"), <<"end", "struct">>)
     ELSE IF id.ok /\ id.got[1] < 0 THEN [id EXCEPT !.ok = FALSE]
     ELSE Result(r, <<"field", r.got[2][1], r.got[1]>>)

JSONRead(s, what) ==
  CASE what[1] = "message" ->
         LET r == GetInteger(GetInteger(GetString(GetInteger(GetStart(s, "[", "list")))))
         IN Result(r, <<"message", r.got[2]>>)
    [] what[1] = "struct"  -> Result(GetStart(s, "{", "pair"), <<"struct">>)
    [] what[1] = "field"   -> JSONField(s)
    [] what[1] = "bool"    -> LET r == GetInteger(s) IN Result(r, <<"bool", r.got[1] = 1>>)
    [] what[1] = "number"  -> LET r == GetInteger(s) IN Result(r, <<"number">> \o r.got)
    [] what[1] = "list"    ->
         LET r == GetInteger(GetString(GetStart(s, "[", "list")))
         IN Result(r, <<"list", r.got[1][1], r.got[2]>>)
    [] what[1] = "map"     ->
         LET r == GetStart(GetInteger(GetString(GetString(GetStart(s, "[", "list")))), "{", "pair")
         IN Result(r, <<"map", r.got[1][1], r.got[2][1], r.got[3]>>)
    [] what = <<"end", "map">> -> Result(GetEnd(GetEnd(s, "}"), "]"), what)
    [] what[1] = "end" /\ what[2] = "field" -> Result(GetEnd(s, "}"), what)
    [] what[1] = "end" /\ what[2] \in {"list", "message"} -> Result(GetEnd(s, "]"), what)

ReadCall(s, what) ==
  CASE protocol = "json"    -> JSONRead(s, what)
    [] protocol = "compact" -> CompactRead(s, what)
    [] OTHER                -> BinaryRead(s, what)

-----------------------------------------------------------------------------
\* A new object, for writing and for reading.
NewWriter == [wire |-> << >>, lastFieldId_ |-> 0, lastField_ |-> << >>, booleanField_ |-> 0,
              contexts_ |-> <<Context("base")>>]
NewReader == [at |-> 1, ok |-> TRUE, got |-> << >>, lastFieldId_ |-> 0, lastField_ |-> << >>,
              boolValue_ |-> "none", contexts_ |-> <<Context("base")>>]

ProtocolInit ==
  /\ \E r \in Readers : protocol = r[1] /\ knows = r[2]
  /\ said = << >> /\ owed = << >> /\ out = NewWriter
  /\ heard = << >> /\ expected = << >> /\ in = NewReader
  /\ input_recursion_depth_ = 0 /\ failed = "" /\ refused = 0
  /\ messages = 1 /\ clean = TRUE

Whole == said # << >> /\ owed = << >>   \* the message has been written

Write(e) ==
  /\ ~Whole /\ e \in Calls
  /\ said' = Append(said, e) /\ owed' = After(owed, e) /\ out' = Written(out, e)
  /\ UNCHANGED <<protocol, knows, heard, expected, in, input_recursion_depth_, failed, refused,
                 messages, clean>>

\* Both objects are as they were made, as far as the next message can tell: no context is left from a
\* message broken off, and no boolean waits to be written or to be returned.
AtRest(o, i) ==
  /\ protocol = "json" => Len(o.contexts_) = 1 /\ Len(i.contexts_) = 1
  /\ protocol = "compact" => o.booleanField_ = 0 /\ i.boolValue_ = "none"

Continue(o, i) ==
  /\ messages < MaxMessages /\ messages' = messages + 1
  /\ said' = << >> /\ owed' = << >> /\ heard' = << >> /\ expected' = << >> /\ failed' = ""
  /\ out' = [o EXCEPT !.wire = << >>]
  /\ in' = [i EXCEPT !.at = 1]
  /\ clean' = AtRest(o, i)
  /\ UNCHANGED <<protocol, knows, input_recursion_depth_, refused>>

\* The transport throws at the first write of the next call; the frame is lost.
Throw ==
  /\ owed # << >> /\ \E e \in Calls : Written(out, e).wire # out.wire
  /\ Continue(out, in)

\* What the reading code calls next.
Awaited ==
  IF expected = << >> THEN <<"message">>
  ELSE LET top == Last(expected) IN
       IF top.left > 0 THEN <<NextType(top)>>
       ELSE IF top.of = "struct" THEN <<"field">> ELSE <<"end", top.of>>

\* The values read under a TInputRecursionTracker: generated code has one in a struct, skip in all.
Tracked == IF knows THEN {"struct"} ELSE {"struct", "list", "map", "bool", "number"}

Reading == Whole /\ failed = "" /\ (heard = << >> \/ expected # << >>)

Depth(e) ==
  IF e[1] \in Tracked \cap {"struct", "list", "map"} THEN input_recursion_depth_ + 1
  ELSE IF e[1] = "end" /\ e[2] \in Tracked THEN input_recursion_depth_ - 1
  ELSE input_recursion_depth_

Read ==
  /\ Reading
  /\ Awaited[1] \in Tracked => input_recursion_depth_ < RecursionLimit
  /\ LET r == ReadCall(in, Awaited)
     IN /\ r.ok
        /\ heard' = Append(heard, r.got) /\ expected' = After(expected, r.got)
        /\ in' = [r EXCEPT !.got = << >>]
        /\ input_recursion_depth_' = Depth(r.got)
  /\ UNCHANGED <<protocol, knows, said, owed, out, failed, refused, messages, clean>>

\* The trackers of the values that have been begun and not ended.
Nesting == Len(SelectSeq(expected, LAMBDA frame : frame.of \in Tracked))

\* An exception ends all trackers but the one whose constructor has thrown it, which has counted (577).
ReadTooDeep ==
  /\ Reading
  /\ Awaited[1] \in Tracked /\ input_recursion_depth_ >= RecursionLimit
  /\ failed' = "too deep" /\ refused' = refused + 1
  /\ input_recursion_depth_' = (input_recursion_depth_ + 1) - Nesting
  /\ UNCHANGED <<protocol, knows, said, owed, out, heard, expected, in, messages, clean>>

ReadFails ==
  /\ Reading
  /\ Awaited[1] \in Tracked => input_recursion_depth_ < RecursionLimit
  /\ ~ReadCall(in, Awaited).ok
  /\ failed' = "invalid" /\ input_recursion_depth_' = input_recursion_depth_ - Nesting
  /\ UNCHANGED <<protocol, knows, said, owed, out, heard, expected, in, refused, messages, clean>>

NextMessage == Whole /\ ~Reading /\ Continue(out, in)

ProtocolNext == (\E e \in Calls : Write(e)) \/ Throw \/ Read \/ ReadTooDeep \/ ReadFails \/ NextMessage

ProtocolSpec == ProtocolInit /\ [][ProtocolNext]_protocolVars

-----------------------------------------------------------------------------
\* The types of the variables.
ProtocolTypeOK ==
  /\ <<protocol, knows>> \in Readers
  /\ {out.lastFieldId_, out.booleanField_} \subseteq {0} \cup {f[2] : f \in Fields}
  /\ in.ok /\ in.at \in 1 .. Len(out.wire) + 1 /\ in.boolValue_ \in {"none", "true", "false"}
  /\ failed \in {"", "too deep", "invalid"}
  /\ messages \in 1..MaxMessages /\ refused \in 0..messages /\ clean \in BOOLEAN
  /\ input_recursion_depth_ \in 0 .. RecursionLimit + refused

\* An empty map comes back from the compact protocol without its types.
Same(e, f) == e = f \/ (e[1] = "map" /\ f[1] = "map" /\ e[4] = 0 /\ f[4] = 0)

\* What is read is what has been written, call by call, to the last symbol, whatever messages were broken
\* off before, as long as both objects were at rest; a reader only takes exception to a negative
\* field id, in JSON (TJSONProtocol.cpp:999).  The depth is that of the values under way and one for each
\* message refused before (TProtocol.h:577), and with those a message must be nested deeper than the
\* limit to be refused.
ReadsBack ==
  /\ clean =>
       /\ Len(heard) <= Len(said) /\ \A i \in DOMAIN heard : Same(heard[i], said[i])
       /\ Whole /\ ~Reading /\ failed = "" => Len(heard) = Len(said) /\ in.at = Len(out.wire) + 1
       /\ failed = "invalid" => LET e == said[Len(heard) + 1]
                                IN protocol = "json" /\ e[1] = "field" /\ e[3] < 0
  /\ input_recursion_depth_ = refused + (IF failed = "" THEN Nesting ELSE 0)
  /\ failed = "too deep" => Nesting + refused > RecursionLimit
=============================================================================
