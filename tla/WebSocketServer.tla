-------------------------- MODULE WebSocketServer --------------------------
(***************************************************************************)
(* The server's end of a WebSocket (TWebSocketServer.h): how it takes      *)
(* frames out of the stream and answers them.  The stream is a sequence of *)
(* cells: two for the header of a frame, one for the mask, one for each    *)
(* byte; the transport below may give fewer than it is asked for.  The     *)
(* upgrade from HTTP is one message (see HttpTransport).                   *)
(***************************************************************************)
EXTENDS Integers, SequencesExt

CONSTANTS
  Frames,       \* what the client sends: <<opcode, length, masked>>
  MaxFrames,    \* bound: how many
  AnswerBytes,  \* bytes of an answer
  MaxAnswers    \* bound: how many

VARIABLES
  upgraded,     \* handshakeComplete()
  fromClient,   \* what has been sent and not read
  framesSent,   \* the frames the client has sent
  frame,        \* readFrame() under way: the cells it has, "none" outside
  wanting,      \* what the caller of readAll() wants; 0 outside
  unread,       \* readBuffer_
  writeBuffer_,
  toClient,     \* what has been written
  answers, pongs,
  handedOver,   \* history: all bytes readAll() has returned
  wsClosed,     \* transport_->close() has been called, or an exception has ended the connection
  cut,          \* history: a read from below returned less than it was asked for
  dropped,      \* history: what was left of a frame when a caller wanted more
  stale,        \* history: a frame without payload came upon what another had left in readBuffer_
  misframed     \* history: a frame of control had the length of writeBuffer_ and not its own

wsVars == <<upgraded, fromClient, framesSent, frame, wanting, unread, writeBuffer_, toClient, answers,
            pongs, handedOver, wsClosed, cut, dropped, stale, misframed>>

NoFrame == <<"none", 0, TRUE>>
IsData(op) == op \in {"continuation", "binary"}
Payload(m, n) == [i \in 1..n |-> <<"byte", m, i>>]
Encode(m, f) == << <<"opcode", f>>, <<"length", f>> >> \o
                (IF f[2] > 0 THEN << <<"mask", f>> >> ELSE << >>) \o Payload(m, f[2])

WebSocketInit ==
  /\ upgraded = FALSE /\ fromClient = << >> /\ framesSent = << >> /\ frame = NoFrame /\ wanting = 0
  /\ unread = << >> /\ writeBuffer_ = << >> /\ toClient = << >> /\ answers = 0 /\ pongs = 0
  /\ handedOver = << >> /\ wsClosed = FALSE /\ cut = FALSE /\ dropped = {} /\ stale = FALSE
  /\ misframed = FALSE

\* The client, which begins with the upgrade, and whose connection is open.
ClientSends ==
  /\ Len(framesSent) < MaxFrames /\ ~wsClosed
  /\ \E f \in Frames :
       /\ framesSent' = Append(framesSent, f)
       /\ fromClient' = fromClient \o Encode(Len(framesSent) + 1, f)
  /\ UNCHANGED <<upgraded, frame, wanting, unread, writeBuffer_, toClient, answers, pongs, handedOver,
                 wsClosed, cut, dropped, stale, misframed>>

-----------------------------------------------------------------------------
\* readAll(): the first call reads the upgrade and answers it.
Upgrade ==
  /\ ~upgraded /\ ~wsClosed
  /\ upgraded' = TRUE
  /\ UNCHANGED <<fromClient, framesSent, frame, wanting, unread, writeBuffer_, toClient, answers, pongs,
                 handedOver, wsClosed, cut, dropped, stale, misframed>>

\* A request that is none is answered, too, and ends the connection.
SendBadRequest ==
  /\ ~upgraded /\ ~wsClosed
  /\ wsClosed' = TRUE
  /\ UNCHANGED <<upgraded, fromClient, framesSent, frame, wanting, unread, writeBuffer_, toClient, answers,
                 pongs, handedOver, cut, dropped, stale, misframed>>

ReadAll ==
  /\ upgraded /\ ~wsClosed /\ wanting = 0
  /\ \E n \in 1..2 :
       IF n <= Len(unread)
       THEN /\ handedOver' = handedOver \o SubSeq(unread, 1, n)
            /\ unread' = SubSeq(unread, n + 1, Len(unread))
            /\ UNCHANGED <<wanting, dropped>>
       ELSE wanting' = n /\ dropped' = dropped \cup ToSet(unread) /\ UNCHANGED <<handedOver, unread>>
  /\ UNCHANGED <<upgraded, fromClient, framesSent, frame, writeBuffer_, toClient, answers, pongs, wsClosed,
                 cut, stale, misframed>>

\* transport_->read: all that was asked for, or less.
Takes(n) == fromClient' = SubSeq(fromClient, n + 1, Len(fromClient))

\* readFrame() returns false when it gets less than it asks for, and readAll() returns 0.
ShortRead(asked) ==
  /\ \E n \in 1 .. asked - 1 : n <= Len(fromClient) /\ Takes(n)
  /\ cut' = TRUE /\ wanting' = 0 /\ frame' = NoFrame

IsHeader == Len(fromClient) >= 2 /\ fromClient[1][1] = "opcode"

\* writeFrameHeader takes the length from writeBuffer_, whatever the frame is.
FrameLength == Len(writeBuffer_)

\* A frame of control, whose payload is not in writeBuffer_.
WriteControl(op, payload) ==
  /\ toClient' = toClient \o << <<op, FrameLength>> >> \o payload
  /\ misframed' = (misframed \/ FrameLength # Len(payload))

\* The header of a frame.
FrameHeader ==
  /\ wanting > 0 /\ frame = NoFrame /\ ~wsClosed
  /\ \/ ShortRead(2) /\ UNCHANGED stale
     \/ /\ IsHeader /\ fromClient[1][2][3] /\ Takes(2)
        /\ frame' = fromClient[1][2]
        /\ stale' = (stale \/ (frame'[2] = 0 /\ unread # << >>))
        /\ UNCHANGED <<cut, wanting>>
  /\ UNCHANGED <<upgraded, framesSent, unread, writeBuffer_, toClient, answers, pongs, handedOver, wsClosed,
                 dropped, misframed>>

\* A frame that is not masked: a closing frame is written, and the connection closed.
FailConnection ==
  /\ wanting > 0 /\ frame = NoFrame /\ ~wsClosed
  /\ IsHeader /\ ~fromClient[1][2][3] /\ Takes(2)
  /\ wsClosed' = TRUE /\ wanting' = 0
  /\ WriteControl("close", << <<"code">>, <<"code">> >>)
  /\ UNCHANGED <<upgraded, framesSent, frame, unread, writeBuffer_, answers, pongs, handedOver, cut,
                 dropped, stale>>

\* What stands in the stream where a header should be is not understood (a read was cut before).
FrameGarbled ==
  /\ wanting > 0 /\ frame = NoFrame /\ ~wsClosed /\ cut
  /\ Len(fromClient) >= 2 /\ ~IsHeader
  /\ wsClosed' = TRUE /\ wanting' = 0
  /\ UNCHANGED <<upgraded, fromClient, framesSent, frame, unread, writeBuffer_, toClient, answers, pongs,
                 handedOver, cut, dropped, stale, misframed>>

\* The mask and the payload, in two reads; a frame without payload leaves readBuffer_ as it is.
FramePayload ==
  /\ frame # NoFrame /\ frame[2] > 0 /\ fromClient # << >> /\ fromClient[1][1] = "mask"
  /\ LET n == frame[2] + 1
     IN \/ \E k \in 1 .. n - 1 :      \* what has come stays in readBuffer_
             /\ k <= Len(fromClient) /\ Takes(k)
             /\ unread' = SubSeq(fromClient, 2, k)
             /\ cut' = TRUE /\ wanting' = 0 /\ frame' = NoFrame
        \/ /\ n <= Len(fromClient) /\ Takes(n)
           /\ unread' = SubSeq(fromClient, 2, n)
           /\ frame' = <<frame[1], 0, TRUE>>
           /\ UNCHANGED <<wanting, cut>>
  /\ UNCHANGED <<upgraded, framesSent, writeBuffer_, toClient, answers, pongs, handedOver, wsClosed,
                 dropped, stale, misframed>>

Pong ==
  /\ frame # NoFrame /\ frame[2] = 0 /\ frame[1] = "ping"
  /\ WriteControl("pong", unread)
  /\ pongs' = pongs + 1 /\ frame' = NoFrame
  /\ UNCHANGED <<upgraded, fromClient, framesSent, wanting, unread, writeBuffer_, answers, handedOver,
                 wsClosed, cut, dropped, stale>>

CloseFrame ==
  /\ frame # NoFrame /\ frame[2] = 0 /\ frame[1] = "close"
  /\ wsClosed' = TRUE /\ wanting' = 0 /\ frame' = NoFrame
  /\ UNCHANGED <<upgraded, fromClient, framesSent, unread, writeBuffer_, toClient, answers, pongs,
                 handedOver, cut, dropped, stale, misframed>>

\* Of a frame of data the caller gets what it wants, or all of it.
GiveFrame ==
  /\ frame # NoFrame /\ frame[2] = 0 /\ IsData(frame[1])
  /\ LET n == IF wanting < Len(unread) THEN wanting ELSE Len(unread)
     IN /\ handedOver' = handedOver \o SubSeq(unread, 1, n)
        /\ unread' = SubSeq(unread, n + 1, Len(unread))
  /\ wanting' = 0 /\ frame' = NoFrame
  /\ UNCHANGED <<upgraded, fromClient, framesSent, writeBuffer_, toClient, answers, pongs, wsClosed, cut,
                 dropped, stale, misframed>>

-----------------------------------------------------------------------------
WriteAnswer ==
  /\ upgraded /\ ~wsClosed /\ wanting = 0 /\ writeBuffer_ = << >> /\ answers < MaxAnswers
  /\ answers' = answers + 1
  /\ writeBuffer_' = [i \in 1..AnswerBytes |-> <<"answer", answers + 1, i>>]
  /\ UNCHANGED <<upgraded, fromClient, framesSent, frame, wanting, unread, toClient, pongs, handedOver,
                 wsClosed, cut, dropped, stale, misframed>>

\* Faulty variant: the answer stays in the buffer.
WriteBufferKept == writeBuffer_

WriteBufferReset == << >>

FlushAnswer ==
  /\ upgraded /\ ~wsClosed /\ wanting = 0
  /\ writeBuffer_ # << >>
  /\ toClient' = toClient \o << <<"data", FrameLength>> >> \o writeBuffer_
  /\ writeBuffer_' = WriteBufferReset
  /\ UNCHANGED <<upgraded, fromClient, framesSent, frame, wanting, unread, answers, pongs, handedOver,
                 wsClosed, cut, dropped, stale, misframed>>

WebSocketNext ==
  \/ ClientSends \/ Upgrade \/ SendBadRequest \/ ReadAll \/ FrameHeader \/ FailConnection
  \/ FrameGarbled \/ FramePayload \/ Pong \/ CloseFrame \/ GiveFrame \/ WriteAnswer \/ FlushAnswer

-----------------------------------------------------------------------------
\* The types.
WebSocketTypeOK ==
  /\ upgraded \in BOOLEAN /\ wsClosed \in BOOLEAN /\ wanting \in 0..2
  /\ frame = NoFrame \/ frame[1] \in {"continuation", "binary", "ping", "close"}
  /\ answers \in 0..MaxAnswers /\ pongs \in 0..MaxFrames /\ {cut, stale, misframed} \subseteq BOOLEAN

\* The payloads of the client's frames of some kinds, in order.
Payloads(kinds) ==
  FlattenSeq([m \in 1..Len(framesSent) |->
                IF framesSent[m][1] \in kinds THEN Payload(m, framesSent[m][2]) ELSE << >>])

Answers == FlattenSeq([m \in 1..answers |-> [k \in 1..AnswerBytes |-> <<"answer", m, k>>]])

\* What the server has written of a kind, and where its frames begin.
Outgoing(kind) == SelectSeq(toClient, LAMBDA c : c[1] = kind)
Heads == {i \in DOMAIN toClient : toClient[i][1] \in {"data", "pong", "close"}}

\* The frame that begins at i is as long as its header says.
FramedRight(i) ==
  LET behind == i + toClient[i][2] + 1
  IN /\ behind \in Heads \cup {Len(toClient) + 1}
     /\ Heads \cap (i + 1 .. behind - 1) = {}

\* As long as the transport below gives what it is asked for, the caller gets the data of the frames in
\* order, with pings in between or not, but for what was left of a frame when it wanted more (85-90);
\* and each ping comes back in a pong, in order; both unless a frame without payload has come upon
\* what another had left (281).  The answers go out in order.  What the client gets it can take apart:
\* every frame of data is as long as its header says, and every pong or closing frame whose payload
\* happens to be as long as writeBuffer_ (343); one that is not puts the client out of step.
FramesDelivered ==
  /\ ~cut /\ ~stale =>
       /\ IsPrefix(handedOver, SelectSeq(Payloads({"continuation", "binary"}),
                                         LAMBDA c : c \notin dropped))
       /\ IsPrefix(Outgoing("byte"), Payloads({"ping"}))
  /\ Outgoing("answer") \o writeBuffer_ = Answers
  /\ \A i \in Heads : toClient[i][1] = "data" \/ ~misframed => FramedRight(i)
=============================================================================
