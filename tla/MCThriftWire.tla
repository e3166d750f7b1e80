---------------------------- MODULE MCThriftWire ----------------------------
(***************************************************************************)
(* What is between two programs that speak Thrift, in small instances: the *)
(* protocols, the sockets, and the transports that put messages into a     *)
(* stream and take them out.  The parts share no state: a behaviour is one *)
(* of a single part.                                                       *)
(***************************************************************************)
EXTENDS ThriftWire

CONSTANTS
  Fields, Numbers, Lists, Maps, Name, MaxFields, MaxMessages, MaxNibble, VarintBase,
  RecursionLimit, Readers,
  Bodies, HttpBufSize,
  Key, MaxRequests,
  MinDirectDeflateSize, UwBufSize, CwBufSize, CrBufSize, UrBufSize, MinRoom, WriteSizes,
  MaxZlibBytes,
  Frames, MaxFrames, AnswerBytes, MaxAnswers,
  Source, RequestLengths, FirstBufSize,
  EventCells, ReadBufferCells, ChunkCells, MaxLogEvents,
  Clients, MaxRequestFrames, MaxReply, WriteDefault, IdleReadLimit, IdleWriteLimit, ResizeEveryN

VARIABLES protocol, knows, said, owed, out, heard, expected, in, input_recursion_depth_, gaveUp,
          refused, messages, clean

Codec == INSTANCE Protocols WITH failed <- gaveUp

VARIABLES stream, sent, httpBuf_, httpPos_, httpBufSize_, readBuffer_, readHeaders_, chunked_,
          chunkedDone_, contentLength_, line, need, ending, taken, current, delivered, httpFailed,
          answered, unanswered

Http == INSTANCE HttpTransport

VARIABLES requests, next, clientType, protoId, seqId, readTrans_, writeTrans_, headersRead,
          writeHeaders_, protoId_, proto_, handling, replies, broken, setBy

Framing == INSTANCE HeaderTransport WITH readHeaders_ <- headersRead

VARIABLES uwbuf_, availIn, held, cwbuf_, lastFlush, output_finished_, plan, direct, zlibWritten,
          flushed, zlibWire, broke, crbuf_, urbuf_, input_ended_, wants, asked, got

Zlib == INSTANCE ZlibTransport

VARIABLES upgraded, fromClient, framesSent, frame, wanting, unread, writeBuffer_, toClient,
          answers, pongs, handedOver, wsClosed, cut, dropped, stale,
          misframed

WebSocket == INSTANCE WebSocketServer

VARIABLES pipeOnWrite_, arriving, arrived, begun, readBuf, rPos_, readBufSize, writeBuf, serving,
          wantsBytes, stage, memoryBuffer_, processed, returned, srcClosed, spilt, overlapped

Piped == INSTANCE PipedTransport WITH rBuf_ <- readBuf,
                                      rBufSize_ <- readBufSize,
                                      wBuf_ <- writeBuf

VARIABLES written, reader, currentEvent_, readTimeout_, underWay, handed, leftTailing

Log == INSTANCE LogReader

VARIABLES headerTransport, client, connected, onTheWay, frames, socketState_, appState_, readWant_,
          readBufferPos_, connBuffer, input, output, capacity, writeBufferSize_, writeBufferPos_,
          largestWriteBufferSize_, callsForResize_, received, repliesDue, cutReply

Connection == INSTANCE ConnectionBuffers WITH readBuffer_ <- connBuffer,
                                              inbound <- onTheWay,
                                              answered <- repliesDue

VARIABLE part   \* whose behaviour this is

codecVars == <<protocol, knows, said, owed, out, heard, expected, in, input_recursion_depth_,
               gaveUp, refused, messages, clean>>
httpVars == <<stream, sent, httpBuf_, httpPos_, httpBufSize_, readBuffer_, readHeaders_, chunked_,
              chunkedDone_, contentLength_, line, need, ending, taken, current, delivered,
              httpFailed, answered, unanswered>>
framingVars == <<requests, next, clientType, protoId, seqId, readTrans_, writeTrans_, headersRead,
                 writeHeaders_, protoId_, proto_, handling, replies, broken, setBy>>
zlibVars == <<uwbuf_, availIn, held, cwbuf_, lastFlush, output_finished_, plan, direct,
              zlibWritten, flushed, zlibWire, broke, crbuf_, urbuf_, input_ended_, wants, asked,
              got>>
websocketVars == <<upgraded, fromClient, framesSent, frame, wanting, unread, writeBuffer_,
                   toClient, answers, pongs, handedOver, wsClosed, cut, dropped, stale,
                   misframed>>
pipedVars == <<pipeOnWrite_, arriving, arrived, begun, readBuf, rPos_, readBufSize, writeBuf, serving,
               wantsBytes, stage, memoryBuffer_, processed, returned, srcClosed, spilt,
               overlapped>>
logVars == <<written, reader, currentEvent_, readTimeout_, underWay, handed, leftTailing>>
connectionVars == <<headerTransport, client, connected, onTheWay, frames, socketState_, appState_,
                    readWant_, readBufferPos_, connBuffer, input, output, capacity,
                    writeBufferSize_, writeBufferPos_, largestWriteBufferSize_, callsForResize_,
                    received, repliesDue, cutReply>>

ASSUME ConnectionAssumption == Connection!ConnectionAssumption

MCFields == {<<"bool", 1>>, <<"bool", -1>>, <<"number", 3>>, <<"list", 2>>, <<"map", 2>>,
             <<"struct", 1>>}
MCNumbers == {-3}
MCLists == {<<"bool", 2>>, <<"struct", 1>>}
MCMaps == {<<"number", "bool", 1>>, <<"bool", "number", 0>>}
MCName == <<"u", "newline", "quote", "backslash", "control">>
MCReaders == {<<"binary", TRUE>>, <<"binary, unversioned", TRUE>>, <<"compact", TRUE>>,
              <<"compact", FALSE>>, <<"json", TRUE>>}

\* A blocking client with time-outs and one without; a server's socket under libevent.
Client == [server_ |-> FALSE, eventSafe_ |-> FALSE, timeouts |-> TRUE, interruptListener_ |-> FALSE]
MCSettings == {Client, [Client EXCEPT !.timeouts = FALSE],
               [server_ |-> TRUE, eventSafe_ |-> TRUE, timeouts |-> FALSE, interruptListener_ |-> TRUE]}
\* A peer that is let in by its second name, and what can be wrong with it.
Shown == [verified |-> TRUE, cert |-> TRUE, required |-> TRUE, access |-> TRUE, address |-> "SKIP",
          alternatives |-> <<"SKIP", "ALLOW">>, common |-> <<"DENY">>]
MCCredentials == {Shown, [Shown EXCEPT !.address = "DENY"], [Shown EXCEPT !.verified = FALSE],
                  [Shown EXCEPT !.alternatives = <<"SKIP">>, !.common = <<"SKIP">>],
                  [Shown EXCEPT !.cert = FALSE, !.required = FALSE]}
MCFrames == {<<"continuation", 2, TRUE>>, <<"binary", 0, TRUE>>, <<"ping", 1, TRUE>>,
             <<"ping", 0, TRUE>>, <<"close", 0, TRUE>>, <<"binary", 1, FALSE>>}
\* A service of its own, one whose name has a colon in it, and one without a name.
MCServiceNames == {<<"A">>, <<"A", "x">>, << >>}
MCRequestLengths == <<2, 1, 2>>

Parts == {"codec", "sockets", "servers", "http", "framing", "ssl", "factories", "zlib", "websocket",
          "piped", "evhttp", "log", "buffers", "multiplexed", "pipes", "anonpipes", "submission",
          "connection"}

WInit ==
  /\ part \in Parts
  /\ Codec!ProtocolInit
  /\ part # "codec" => protocol = "json"
  /\ ServerSocketInit
  /\ part # "sockets" => ~style.nonblocking /\ ~style.unix /\ ~style.interruptableChildren_
  /\ SocketPoolInit
  /\ Http!HttpInit
  /\ Framing!HeaderInit
  /\ part # "framing" => writeTrans_ = << >>
  /\ SSLInit
  /\ part # "ssl" => setting = Client /\ peer.credential = Shown
  /\ Zlib!ZlibInit
  /\ WebSocket!WebSocketInit
  /\ Piped!PipedInit
  /\ part # "piped" => ~pipeOnWrite_
  /\ EvhttpInit
  /\ Log!LogReaderInit
  /\ part # "log" => written = 0
  /\ BufferInit
  /\ part # "buffers" => transport = "memory" /\ produced = 0 /\ memory.size = MemorySize
                          /\ \A max \in MaxSizes : max <= memory.max
  /\ MultiplexedInit
  /\ part # "multiplexed" => services = {} /\ ~hasDefault
  /\ PipesInit
  /\ SubmissionInit
  /\ Connection!ConnectionInit
  /\ part # "connection" => ~headerTransport

WNext ==
  /\ UNCHANGED part
  /\ \/ part = "codec" /\ Codec!ProtocolNext
        /\ UNCHANGED <<serverSocketVars, socketPoolVars, httpVars, framingVars, sslVars, zlibVars,
                       websocketVars, pipedVars, evhttpVars, logVars, bufferVars,
                       multiplexedVars, pipesVars, submissionVars, connectionVars>>
     \/ part = "sockets" /\ ServerSocketNext
        /\ UNCHANGED <<codecVars, socketPoolVars, httpVars, framingVars, sslVars, zlibVars,
                       websocketVars, pipedVars, evhttpVars, logVars, bufferVars,
                       multiplexedVars, pipesVars, submissionVars, connectionVars>>
     \/ part = "servers" /\ SocketPoolNext
        /\ UNCHANGED <<codecVars, serverSocketVars, httpVars, framingVars, sslVars, zlibVars,
                       websocketVars, pipedVars, evhttpVars, logVars, bufferVars,
                       multiplexedVars, pipesVars, submissionVars, connectionVars>>
     \/ part = "http" /\ Http!HttpNext
        /\ UNCHANGED <<codecVars, serverSocketVars, socketPoolVars, framingVars, sslVars, zlibVars,
                       websocketVars, pipedVars, evhttpVars, logVars, bufferVars,
                       multiplexedVars, pipesVars, submissionVars, connectionVars>>
     \/ part = "framing" /\ Framing!HeaderNext
        /\ UNCHANGED <<codecVars, serverSocketVars, socketPoolVars, httpVars, sslVars, zlibVars,
                       websocketVars, pipedVars, evhttpVars, logVars, bufferVars,
                       multiplexedVars, pipesVars, submissionVars, connectionVars>>
     \/ part = "ssl" /\ SocketNext
        /\ UNCHANGED <<codecVars, serverSocketVars, socketPoolVars, httpVars, framingVars, zlibVars,
                       websocketVars, pipedVars, evhttpVars, logVars, bufferVars,
                       multiplexedVars, pipesVars, submissionVars, connectionVars>>
     \/ part = "factories" /\ FactoryNext
        /\ UNCHANGED <<codecVars, serverSocketVars, socketPoolVars, httpVars, framingVars, zlibVars,
                       websocketVars, pipedVars, evhttpVars, logVars, bufferVars,
                       multiplexedVars, pipesVars, submissionVars, connectionVars>>
     \/ part = "zlib" /\ Zlib!ZlibNext
        /\ UNCHANGED <<codecVars, serverSocketVars, socketPoolVars, httpVars, framingVars, sslVars,
                       websocketVars, pipedVars, evhttpVars, logVars, bufferVars,
                       multiplexedVars, pipesVars, submissionVars, connectionVars>>
     \/ part = "websocket" /\ WebSocket!WebSocketNext
        /\ UNCHANGED <<codecVars, serverSocketVars, socketPoolVars, httpVars, framingVars, sslVars,
                       zlibVars, pipedVars, evhttpVars, logVars, bufferVars, multiplexedVars,
                       pipesVars, submissionVars, connectionVars>>
     \/ part = "piped" /\ Piped!PipedNext
        /\ UNCHANGED <<codecVars, serverSocketVars, socketPoolVars, httpVars, framingVars, sslVars,
                       zlibVars, websocketVars, evhttpVars, logVars, bufferVars,
                       multiplexedVars, pipesVars, submissionVars, connectionVars>>
     \/ part = "evhttp" /\ EvhttpNext
        /\ UNCHANGED <<codecVars, serverSocketVars, socketPoolVars, httpVars, framingVars, sslVars,
                       zlibVars, websocketVars, pipedVars, logVars, bufferVars, multiplexedVars,
                       pipesVars, submissionVars, connectionVars>>
     \/ part = "log" /\ Log!LogReaderNext
        /\ UNCHANGED <<codecVars, serverSocketVars, socketPoolVars, httpVars, framingVars, sslVars,
                       zlibVars, websocketVars, pipedVars, evhttpVars, bufferVars,
                       multiplexedVars, pipesVars, submissionVars, connectionVars>>
     \/ part = "buffers" /\ BufferNext
        /\ UNCHANGED <<codecVars, serverSocketVars, socketPoolVars, httpVars, framingVars, sslVars,
                       zlibVars, websocketVars, pipedVars, evhttpVars, logVars, multiplexedVars,
                       pipesVars, submissionVars, connectionVars>>
     \/ part = "multiplexed" /\ MultiplexedNext
        /\ UNCHANGED <<codecVars, serverSocketVars, socketPoolVars, httpVars, framingVars, sslVars,
                       zlibVars, websocketVars, pipedVars, evhttpVars, logVars, bufferVars,
                       pipesVars, submissionVars, connectionVars>>
     \/ part = "pipes" /\ PipesNext
        /\ UNCHANGED <<codecVars, serverSocketVars, socketPoolVars, httpVars, framingVars, sslVars,
                       zlibVars, websocketVars, pipedVars, evhttpVars, logVars, bufferVars,
                       multiplexedVars, submissionVars, connectionVars>>
     \/ part = "anonpipes" /\ AnonPipesNext
        /\ UNCHANGED <<codecVars, serverSocketVars, socketPoolVars, httpVars, framingVars, sslVars,
                       zlibVars, websocketVars, pipedVars, evhttpVars, logVars, bufferVars,
                       multiplexedVars, submissionVars, connectionVars>>
     \/ part = "submission" /\ SubmissionNext
        /\ UNCHANGED <<codecVars, serverSocketVars, socketPoolVars, httpVars, framingVars, sslVars,
                       zlibVars, websocketVars, pipedVars, evhttpVars, logVars, bufferVars,
                       multiplexedVars, pipesVars, connectionVars>>
     \/ part = "connection" /\ Connection!ConnectionNext
        /\ UNCHANGED <<codecVars, serverSocketVars, socketPoolVars, httpVars, framingVars, sslVars,
                       zlibVars, websocketVars, pipedVars, evhttpVars, logVars, bufferVars,
                       multiplexedVars, pipesVars, submissionVars>>

WSpec == WInit /\ [][WNext]_<<part, codecVars, serverSocketVars, socketPoolVars, httpVars, framingVars,
                              sslVars, zlibVars, websocketVars, pipedVars, evhttpVars, logVars,
                              bufferVars, multiplexedVars, pipesVars, submissionVars,
                              connectionVars>>

-----------------------------------------------------------------------------
\* The types of all variables.
WTypeOK ==
  /\ part = "codec" => Codec!ProtocolTypeOK
  /\ part = "sockets" => ServerSocketTypeOK
  /\ part = "servers" => SocketPoolTypeOK
  /\ part = "http" => Http!HttpTypeOK
  /\ part = "framing" => Framing!HeaderTypeOK
  /\ part \in {"ssl", "factories"} => SSLTypeOK
  /\ part = "zlib" => Zlib!ZlibTypeOK
  /\ part = "websocket" => WebSocket!WebSocketTypeOK
  /\ part = "piped" => Piped!PipedTypeOK
  /\ part = "evhttp" => EvhttpTypeOK
  /\ part = "log" => Log!LogReaderTypeOK
  /\ part = "buffers" => BufferTypeOK
  /\ part = "multiplexed" => MultiplexedTypeOK
  /\ part \in {"pipes", "anonpipes"} => PipesTypeOK
  /\ part = "submission" => SubmissionTypeOK
  /\ part = "connection" => Connection!ConnectionTypeOK

\* A protocol reads back what another object of its kind has written.
ReadsBack == part = "codec" => Codec!ReadsBack

\* What is sent arrives complete, once and in order, however the stream is cut up and whatever
\* buffers fill up on the way: the bodies of HTTP messages, compressed data, the frames of a
\* WebSocket, the requests that are copied for a processor, the bytes in a pipe, the events of a log,
\* at whose end only those wait who are to, and the frames of the clients that one connection object
\* has after each other, whose buffers are as large as what they take; and a server with the header
\* transport answers every client the way it asked.
StreamsDelivered ==
  /\ part = "http" => Http!BodiesDelivered
  /\ part = "framing" => Framing!AnsweredInKind
  /\ part = "zlib" => Zlib!UnpacksWhatWasPacked
  /\ part = "websocket" => WebSocket!FramesDelivered
  /\ part = "piped" => Piped!PipedOnce
  /\ part = "log" => Log!EventsProcessed /\ Log!EndsAtEnd
  /\ part = "pipes" => PipeInOrder
  /\ part = "connection" => /\ Connection!WithinBuffers
                            /\ Connection!RequestsWhole
                            /\ Connection!RepliesWhole
                            /\ Connection!IdleMemoryBounded
=============================================================================
