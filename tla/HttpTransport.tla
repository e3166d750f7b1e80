--------------------------- MODULE HttpTransport ---------------------------
(***************************************************************************)
(* One end of an HTTP connection (THttpTransport.cpp, THttpClient.cpp,     *)
(* THttpServer.cpp): how it takes the messages of its peer out of the      *)
(* stream, line by line and byte by byte, and sends its own.               *)
(*                                                                         *)
(* The caller reads a message as generated code does: read() until it has  *)
(* what belongs to the message, readEnd(), then possibly an answer.  The   *)
(* stream is a sequence of cells, each a text, the end of a line or a byte *)
(* of a body; the transport below gives any number of them at a time.      *)
(***************************************************************************)
EXTENDS Integers, SequencesExt

CONSTANTS
  Bodies,       \* lengths of the bodies the peer sends
  MaxMessages,  \* bound: its messages
  HttpBufSize   \* 1024, the size httpBuf_ has at first

VARIABLES
  stream,       \* what the peer has sent and the transport below has not given yet
  sent,         \* the messages of the peer: <<style, length>>
  httpBuf_,     \* its first httpBufLen_ cells
  httpPos_, httpBufSize_,
  readBuffer_,
  readHeaders_, chunked_, chunkedDone_, contentLength_,
  line,         \* what the line, or data, that is awaited is for; "none" outside read() and readEnd()
  need,         \* readContent: bytes still to come
  ending,       \* in readEnd()
  taken,        \* bytes the caller has of the current message
  current,      \* number of the message the caller reads
  delivered,    \* history: all bytes read() has returned
  httpFailed,   \* an exception has ended the connection
  answered,     \* flush() has been called since the last chunked message
  unanswered    \* history: a message has been read while it had not

httpVars == <<stream, sent, httpBuf_, httpPos_, httpBufSize_, readBuffer_, readHeaders_, chunked_,
              chunkedDone_, contentLength_, line, need, ending, taken, current, delivered, httpFailed,
              answered, unanswered>>

CRLF == <<"CRLF">>
Text(t) == <<<<"text", t, 0>>, CRLF>>
Number(t, n) == <<<<"text", t, n>>, CRLF>>
Body(m, from, to) == [i \in 1 .. to - from + 1 |-> <<"byte", m, from + i - 1>>]

\* What a message looks like (external).  A chunked one has one chunk to each byte, and a footer.
Encoded(style, m, n) ==
  CASE style = "length"  -> Text("status") \o Number("length", n) \o <<CRLF>> \o Body(m, 1, n)
    [] style = "continue" -> Text("status 100") \o <<CRLF>>
                             \o Text("status") \o Number("length", n) \o <<CRLF>> \o Body(m, 1, n)
    [] style = "chunked" ->
         Text("status") \o Text("chunked") \o <<CRLF>>
         \o FlattenSeq([i \in 1..n |-> Number("size", 1) \o Body(m, i, i) \o <<CRLF>>])
         \o Number("size", 0) \o Text("footer") \o <<CRLF>>

HttpInit ==
  /\ stream = << >> /\ sent = << >>
  /\ httpBuf_ = << >> /\ httpPos_ = 0 /\ httpBufSize_ = HttpBufSize /\ readBuffer_ = << >>
  /\ readHeaders_ = TRUE /\ chunked_ = FALSE /\ chunkedDone_ = FALSE /\ contentLength_ = 0
  /\ line = "none" /\ need = 0 /\ ending = FALSE /\ taken = 0 /\ current = 1 /\ delivered = << >>
  /\ httpFailed = FALSE /\ answered = TRUE /\ unanswered = FALSE

PeerSends ==
  /\ Len(sent) < MaxMessages
  /\ \E style \in {"length", "continue", "chunked"}, n \in Bodies :
       /\ sent' = Append(sent, <<style, n>>)
       /\ stream' = stream \o Encoded(style, Len(sent) + 1, n)
  /\ UNCHANGED <<httpBuf_, httpPos_, httpBufSize_, readBuffer_, readHeaders_, chunked_, chunkedDone_,
                 contentLength_, line, need, ending, taken, current, delivered, httpFailed, answered,
                 unanswered>>

-----------------------------------------------------------------------------
\* What is in httpBuf_ and has not been used; the line it begins with.
Rest == SubSeq(httpBuf_, httpPos_ + 1, Len(httpBuf_))
HasLine == CRLF \in Range(Rest)
FirstLine == SubSeq(Rest, 1, SelectInSeq(Rest, LAMBDA cell : cell = CRLF) - 1)
Says(t) == Len(FirstLine) = 1 /\ FirstLine[1][2] = t

\* refill, behind the cells that are kept.
Refilled(kept) ==
  LET size == IF httpBufSize_ - Len(kept) <= httpBufSize_ \div 4 THEN 2 * httpBufSize_ ELSE httpBufSize_
  IN \E got \in 1..Len(stream) :
       /\ got <= size - Len(kept)
       /\ httpBufSize_' = size
       /\ httpBuf_' = kept \o SubSeq(stream, 1, got)
       /\ stream' = SubSeq(stream, got + 1, Len(stream))

AwaitsMore == line = "more" /\ Rest = << >>
AwaitsLine == line \notin {"none", "more", "content", "chunk"} /\ ~HasLine
AwaitsData == line \in {"content", "chunk"} /\ need > 0 /\ Rest = << >>

\* readMoreData keeps what has been used, readLine and readContent do not.
Refill ==
  /\ \/ AwaitsMore /\ Refilled(httpBuf_) /\ httpPos_' = httpPos_
     \/ (AwaitsLine \/ AwaitsData) /\ Refilled(Rest) /\ httpPos_' = 0
  /\ UNCHANGED <<sent, readBuffer_, readHeaders_, chunked_, chunkedDone_, contentLength_, line, need,
                 ending, taken, current, delivered, httpFailed, answered, unanswered>>

-----------------------------------------------------------------------------
\* The caller.
Wants == current <= Len(sent) => taken < sent[current][2]

\* read(), when there is something.
Read ==
  /\ line = "none" /\ Wants /\ readBuffer_ # << >> /\ ~httpFailed
  /\ delivered' = Append(delivered, Head(readBuffer_)) /\ readBuffer_' = Tail(readBuffer_)
  /\ taken' = taken + 1
  /\ UNCHANGED <<stream, sent, httpBuf_, httpPos_, httpBufSize_, readHeaders_, chunked_, chunkedDone_,
                 contentLength_, line, need, ending, current, httpFailed, answered, unanswered>>

ReadMore ==
  /\ line = "none" /\ Wants /\ readBuffer_ = << >> /\ ~httpFailed
  /\ line' = "more"
  /\ unanswered' = (unanswered \/ ~answered)
  /\ UNCHANGED <<stream, sent, httpBuf_, httpPos_, httpBufSize_, readBuffer_, readHeaders_, chunked_,
                 chunkedDone_, contentLength_, need, ending, taken, current, delivered, httpFailed,
                 answered>>

\* readEnd(), which reads on to the end of a chunked message.
ReadEnd ==
  /\ line = "none" /\ ~Wants /\ ~httpFailed
  /\ IF chunked_ /\ ~chunkedDone_ THEN line' = "size" /\ ending' = TRUE /\ UNCHANGED <<current, taken, answered>>
     ELSE /\ current' = current + 1 /\ taken' = 0 /\ ending' = FALSE
          /\ answered' = (answered /\ sent[current][1] # "chunked")
          /\ line' = line
  /\ UNCHANGED <<stream, sent, httpBuf_, httpPos_, httpBufSize_, readBuffer_, readHeaders_, chunked_,
                 chunkedDone_, contentLength_, need, delivered, httpFailed, unanswered>>

\* Faulty variant: flush() leaves the state of the last message.
FlushOnly == readHeaders_' = readHeaders_

ExpectHeaders == readHeaders_' = TRUE

\* flush(), between messages.
Flush ==
  /\ line = "none" /\ taken = 0 /\ readBuffer_ = << >> /\ ~httpFailed
  /\ ExpectHeaders /\ answered' = TRUE
  /\ UNCHANGED <<stream, sent, httpBuf_, httpPos_, httpBufSize_, readBuffer_, chunked_, chunkedDone_,
                 contentLength_, line, need, ending, taken, current, delivered, httpFailed, unanswered>>

-----------------------------------------------------------------------------
\* readMoreData, behind the refill and behind the headers.
Content ==
  IF chunked_' THEN line' = "size" /\ need' = need ELSE line' = "content" /\ need' = contentLength_'

ReadMoreData ==
  /\ line = "more" /\ Rest # << >>
  /\ IF readHeaders_
     THEN contentLength_' = 0 /\ chunked_' = FALSE /\ chunkedDone_' = FALSE /\ line' = "status" /\ need' = need
     ELSE UNCHANGED <<contentLength_, chunked_, chunkedDone_>> /\ Content
  /\ UNCHANGED <<stream, sent, httpBuf_, httpPos_, httpBufSize_, readBuffer_, readHeaders_, ending, taken,
                 current, delivered, httpFailed, answered, unanswered>>

\* The line is used up, and nothing else of what the actions below may change but x.
UseLine == HasLine /\ httpPos_' = httpPos_ + Len(FirstLine) + 1
           /\ UNCHANGED <<stream, sent, httpBuf_, httpBufSize_, readBuffer_, taken, current, delivered,
                          answered, unanswered>>

StatusLine ==
  /\ line = "status" /\ UseLine
  /\ line' = IF Says("status") THEN "header" ELSE IF Says("status 100") THEN "header of 100" ELSE line
  /\ httpFailed' = (FirstLine # << >> /\ ~Says("status") /\ ~Says("status 100"))
  /\ UNCHANGED <<readHeaders_, chunked_, chunkedDone_, contentLength_, need, ending>>

HeaderLine ==
  /\ line \in {"header", "header of 100"} /\ UseLine /\ FirstLine # << >>
  /\ chunked_' = IF Says("chunked") THEN TRUE ELSE IF Says("length") THEN FALSE ELSE chunked_
  /\ contentLength_' = IF Says("length") THEN FirstLine[1][3] ELSE contentLength_
  /\ UNCHANGED <<readHeaders_, chunkedDone_, line, need, ending, httpFailed>>

HeadersEnd ==
  /\ line \in {"header", "header of 100"} /\ UseLine /\ FirstLine = << >>
  /\ UNCHANGED <<chunked_, contentLength_, chunkedDone_, ending, httpFailed>>
  /\ IF line = "header" THEN readHeaders_' = FALSE /\ Content
     ELSE line' = "status" /\ UNCHANGED <<readHeaders_, need>>

\* readChunked; what is no number counts as zero.
SizeLine ==
  /\ line = "size" /\ UseLine
  /\ LET size == IF Says("size") THEN FirstLine[1][3] ELSE 0
     IN need' = size /\ line' = IF size = 0 THEN "footer" ELSE "chunk"
  /\ UNCHANGED <<readHeaders_, chunked_, chunkedDone_, contentLength_, ending, httpFailed>>

\* read() returns 0 when it comes to the end of a chunked message, and its caller gives up.
FooterLine ==
  /\ line = "footer" /\ UseLine
  /\ IF FirstLine = << >>
     THEN chunkedDone_' = TRUE /\ line' = "none" /\ httpFailed' = ~ending
     ELSE UNCHANGED <<chunkedDone_, line, httpFailed>>
  /\ UNCHANGED <<readHeaders_, chunked_, contentLength_, need, ending>>

ChunkEnd ==
  /\ line = "chunk end" /\ UseLine
  /\ line' = "none"
  /\ UNCHANGED <<readHeaders_, chunked_, chunkedDone_, contentLength_, need, ending, httpFailed>>

\* readContent; an empty body ends read() with 0.
ReadContent ==
  /\ line \in {"content", "chunk"} /\ (need > 0 => Rest # << >>)
  /\ LET give == IF need < Len(Rest) THEN need ELSE Len(Rest)
     IN /\ readBuffer_' = readBuffer_ \o SubSeq(Rest, 1, give)
        /\ httpPos_' = httpPos_ + give /\ need' = need - give
        /\ IF need' > 0 THEN UNCHANGED <<line, readHeaders_>>
           ELSE IF line = "chunk" THEN line' = "chunk end" /\ readHeaders_' = readHeaders_
           ELSE line' = "none" /\ readHeaders_' = TRUE
        /\ httpFailed' = (line = "content" /\ need = 0)
  /\ UNCHANGED <<stream, sent, httpBuf_, httpBufSize_, chunked_, chunkedDone_, contentLength_, ending,
                 taken, current, delivered, answered, unanswered>>

HttpNext ==
  \/ PeerSends \/ Refill \/ Read \/ ReadMore \/ ReadEnd \/ Flush
  \/ ~httpFailed /\ \/ ReadMoreData \/ StatusLine \/ HeaderLine \/ HeadersEnd
                     \/ SizeLine \/ FooterLine \/ ChunkEnd \/ ReadContent

-----------------------------------------------------------------------------
HttpTypeOK ==
  /\ httpPos_ \in 0..Len(httpBuf_) /\ Len(httpBuf_) <= httpBufSize_
  /\ {readHeaders_, chunked_, chunkedDone_, ending, httpFailed, answered, unanswered} \subseteq BOOLEAN
  /\ line \in {"none", "more", "status", "header", "header of 100", "size", "footer", "chunk end",
               "content", "chunk"}
  /\ contentLength_ \in Bodies \cup {0} /\ need \in Bodies \cup {0, 1}
  /\ current \in 1 .. MaxMessages + 1

\* However the stream is cut up, what the caller reads are the bodies of the messages, in order and complete,
\* it waits for nothing that has arrived, and nothing fails, unless a chunked message was not answered
\* before the next was read: then that one's headers are taken for the end of the chunks, and the caller
\* reads nothing and gives up (86, 105).
BodiesDelivered ==
  /\ IsPrefix(delivered, FlattenSeq([m \in DOMAIN sent |-> Body(m, 1, sent[m][2])]))
  /\ httpFailed => unanswered
  /\ (AwaitsMore \/ AwaitsLine \/ AwaitsData) /\ stream = << >> => current > Len(sent)
=============================================================================
