# Formal models of the Thrift bridge for PHP

`thrift_bridge.c` is a PHP extension that turns Thrift services, compiled into
plugins (`.so` files), into calls a PHP script can make without a network: the
class `ThriftBridgeTransport` is the transport of a generated Thrift client, its
`flush()` hands the request bytes to the plugin's `TProcessor` in the same
process, and `read()` returns the reply bytes. The repository also carries the
C++ Thrift library the plugins are built with, under `3thrd/include/thrift`. This
directory holds TLA+ models of the extension and of the parts of the library
that have state and order to get wrong, TLC configurations that check them on
small instances, and theorems that TLAPS proves for all instances.

## The system

The extension:

| part | where | state | operations |
|---|---|---|---|
| `ThriftBridgeTransport` | `thrift_bridge.c` 183-440 | `serviceName`, `wBuf`, `rBuf`, `rBufPos` | `__construct`, `isOpen`, `open`, `close`, `write`, `read`, `flush`; `create_object`, `dtor_object` |
| core call | 140-180 `process_thrift_data_generic` | none of its own; holds a `shared_ptr` while it serves | look the service up, run `TProcessor::process` over two `TMemoryBuffer`s, copy the reply |
| `ProcessorFactory` | 32-65 | `processors_`, a map from names to `shared_ptr<TProcessor>` | `registerProcessor`, `getProcessor`, `staticRegisterCallback`, `clean` |
| plugin loader | 69-138 | `plugin_handles`, `core_initialized` | `load_plugins_from_directory`, `load_plugin`, `initialize_core_lib` |
| module lifecycle | 443-523 | the INI value `plugin_dir` | `MINIT`, `RINIT`, `MSHUTDOWN` (no `RSHUTDOWN`) |
| plugins | `plugin_api.h`, `test/service_a.c` | processors and handlers | `register_thrift_processors`, the service's handlers |
| script and generated client | `test/test.php`, `test/data.thrift`, outside libraries | the call in progress | send a request in pieces, flush, read until the reply is whole |

The library, under `3thrd/include/thrift`:

| part | where | state | operations |
|---|---|---|---|
| thread pool | `concurrency/ThreadManager.cpp` | tasks, workers, counters, a mutex and three monitors | `start`, `stop`, `add`, `remove`, `addWorker`, `removeWorker`, `removeExpiredTasks`; the workers' loop |
| timer | `concurrency/TimerManager.cpp` | map of deadlines, state, one monitor | `start`, `stop`, `add`, `remove`; the dispatcher |
| blocking servers | `server/TServerFramework.cpp`, `TSimpleServer`, `TThreadedServer`, `TThreadPoolServer`, `TConnectedClient` | number of clients and their limit, clients owned by shared pointers | `serve`, `stop`, `setConcurrentClientLimit` |
| nonblocking server | `server/TNonblockingServer.cpp` | connection objects and their stack, counters, pipes of the IO threads | the handlers of listening sockets, connections and pipes; tasks; `stop` |
| shared client | `async/TConcurrentClientSyncInfo.cpp` | map of calls to monitors, the reply somebody has read for another | the send and the receive sentry |
| file transport | `transport/TFileTransport.cpp` | two event buffers, a file, read state | `write`, `flush`, the writer thread, `readEvent`, `peek`, `read`; `TFileProcessor` |
| buffers | `transport/TBufferTransports.{h,cpp}` | base, bound and limits of a buffer | `read`, `write`, `borrow`, `consume`, `flush`, `readEnd`, `resetBuffer` |
| sockets | `transport/TServerSocket.cpp`, `TNonblockingServerSocket.cpp`, `TSocket.cpp` | descriptors of sockets and of interrupting pairs | `listen`, `accept`, `interrupt`, `interruptChildren`, `close`, `read`, `peek` |
| socket pool | `transport/TSocketPool.cpp` | servers with their failures and connections | `addServer`, `open`, `close` |
| protocols | `protocol/TBinaryProtocol.tcc`, `TCompactProtocol.tcc`, `TJSONProtocol.cpp` | last field id, pending boolean, JSON contexts, depth | the reads and writes of generated code, `skip` |
| multiplexing | `protocol/TMultiplexedProtocol.cpp`, `processor/TMultiplexedProcessor.h` | processors by name | `registerProcessor`, `registerDefault`, `process` |
| HTTP, header, WebSocket, zlib, SSL, piped transports | `transport/`, `protocol/THeaderProtocol.cpp`, `processor/PeekProcessor.cpp` | what has been read ahead, how far in a message, how the peer speaks | `read`, `write`, `flush`, `readEnd` of each |
| Windows pipes | `transport/TPipeServer.cpp`, `TPipe.cpp`, `windows/OverlappedSubmissionThread.cpp` | handles and their owners, a connection that waits for its caller, one thread and its list of operations | `listen`, `accept`, `interrupt`, `close`, `read`, `write`; `acquire_instance`, `release_instance`, `addWorkItem` |
| asynchronous calls | `async/TEvhttpServer.cpp`, `TEvhttpClientChannel.cpp`, `TAsyncProtocolProcessor.cpp` | queue of completions, contexts of requests | `sendAndRecvMessage`, `finish`, `process`, `complete` |

Interactions: the script calls the client, the client calls the transport's
methods, `flush()` calls the core, the core calls the plugin's processor, which
reads the request from one memory buffer and writes the reply to another. At the
first request of a process `RINIT` scans the plugin directory, `dlopen`s each
plugin and calls its entry point, which calls back into the factory. `MSHUTDOWN`
empties the factory and closes the libraries. There is one thread per process
(the module globals of line 447 and 454 do not compile for a threaded PHP). What
runs beside it is whoever deploys files into the plugin directory, and whatever
the plugin's handlers start: a handler is linked against the library and may use
its pool, its timer, its clients and its file transport; a service of the same
handlers may be served over its servers.

What is hard to test here, each at its line, is listed in `PROJECT.json` under
`hazards`. The main ones:

* a flush that fails keeps the request, so calls that fail change later calls;
* a flush can fail *after* the handler has run, and the same request runs again;
* reply bytes that nobody read, positions and lengths of mixed signedness, a
  request length cut to 32 bits;
* the scan runs while files come and go, plugins compete for a service name, one
  of them may replace its processor while it serves, and processors have to be
  deleted before their libraries are closed;
* memory of the object: references dropped or kept at the wrong moment;
* in the library: threads that wait for each other's counts, tasks and
  connections that change hands, replies that overtake each other, deadlines
  that move while somebody sleeps, files cut by a crash, bytes that cross the end
  of a buffer.

## Modules

```
ThriftProcessor            what one TProcessor::process call does with bytes
 |-- RequestReplyChannel   abstract: what a transport promises a client
 |-- BridgeTransport       the PHP object and the core call; implements the channel
      |-- RpcSession       a script making calls through a generated client
           |-- RpcSessionProofs   theorems about the transport and about sessions
TransportObject            the memory of transport objects in one request
 |-- TransportObjectProofs theorems about it
PluginHost                 loader, registry, libraries and process lifecycle
 |-- PluginHostProofs      theorems about it

TaskPool                   abstract: what a thread pool promises
 |-- ThreadManager         the pool; implements TaskPool
      |-- ThreadManagerProofs   theorems about it, the refinement among them
TimerManager               the timer
ServerFramework            the blocking servers
NonblockingServer          the server on libevent
ConcurrentClient           a connection that threads share
DurableLog                 abstract: what a log file promises
 |-- FileTransport         the file transport; implements DurableLog
BufferTransports           memory buffer, buffered and framed transport
 |-- BufferTransportsProofs     a theorem about them
Descriptors                the table of descriptors of a process
 |-- ServerSocket          listening and accepted sockets
 |-- SocketPool            sockets that choose among servers
Protocols                  binary, compact and JSON protocol
Multiplexed                several services over one connection
HttpTransport, HeaderTransport, WebSocketServer    what is taken out of a stream
ZlibTransport, PipedTransport                      what wraps a transport
SSLSocket                  SSL sockets and their factories
EvhttpChannel              asynchronous calls over HTTP
NamedPipes                 named and anonymous pipes of Windows
SubmissionThread           the thread that starts their overlapped operations
ConnectionBuffers          the buffers of a nonblocking connection and its clients
LogReader                  processing a log that grows
ThriftWire                 sockets, pipes, buffers and clients: what they promise together
 |-- ThriftWireProofs      theorems about sockets, pipes, clients and SSL

MCBridgeTransport, MCPluginHost, MCTransportObject   small instances
                           (RpcSession is run as it is: its .cfg gives all constants)
MCThriftConcurrency        instance of ThreadManager and TimerManager
 |-- ThriftConcurrencyProofs   theorems about the timer and the types of both
MCThriftServers            instance of the servers, shared client, file transport
 |-- ThriftServersProofs   theorems about them
MCThriftWire               instance of the transports and protocols
```

### The extension

**ThriftProcessor** has no state. A byte is a record of the message it belongs
to and its position, so that bytes of different calls cannot be confused. A
message has a *kind*: a call whose handler returns or throws, a oneway call, an
unknown method, or a message the processor rejects before any handler runs (a
wrong message type, or arguments that lack a required field; the PHP client does
not check for unset fields, and `transaction_id` and `amount` of `data.thrift`
are required). `process(buf)` is the set of outcomes of serving the first
message in `buf`: how it ended, the handler calls made, the bytes written.
Abstracted: that half a request followed by another header might by accident
decode as arguments; the model takes every misaligned input as refused.

**BridgeTransport** has the four fields of the struct as variables, plus
`crashed` (the process died in a method), `result` (what the last call did for
its caller) and two histories, `flushed` and `delivered`. Each PHP method is an
action, or one action per way out:

| code | actions |
|---|---|
| `create_object` 229-249 | `Init` |
| `__construct` 256-275 | `Construct` |
| `isOpen`, `open`, `close` 278-293 | `NoOp` |
| `write` 296-328 | `Write`; `DereferenceNull` when the constructor never ran |
| `read` 332-371 | `ReadClosed` (343), `ReadExhausted` (360), `Read` |
| `flush` 374-410 | `FlushAnswered`, `FlushFailed` (391), `FlushEscaped` (an exception that is no `TException`), `DereferenceNull` |
| `process_thrift_data_generic` | the operator of that name: all outcomes, `malloc` failing included |

`zend_long` and `size_t` are the integers of a word with sign bit `SignBit`;
`AsSize` and `AsLong` are the conversions between them. `Observed` cuts the
request length modulo `Uint32Mod`, as the constructor of `TMemoryBuffer` does.

**RequestReplyChannel** is the specification a client relies on: `pending` bytes,
an `inbox`, and the `last` bytes returned. `BridgeTransport` implements it with
`pending` the write buffer, `inbox` the part of the read buffer behind the
position, and `last` the data of the last result.

**RpcSession** extends `BridgeTransport` with the client: every session action
that uses the transport is the conjunction of the client's step and the
transport's action. The script may drop a call while it sends or receives, go on
after an exception, close and reopen, or construct the transport again. The
histories `suspect`, `tainted` and `late` record which calls began behind the
remains of another, and which requests ran although their flush failed.

**TransportObject** has, for each object, its phase, its three string fields and
who still refers to it, and for each string its reference count. What is done to
the counts is what each method releases, copies or allocates, in its order:
`Construct` overwrites the fields without a look at what they held, `Destroy`
(`dtor_object`) releases the strings and leaves the pointers, `FlushBailsOut` is
`flush()` between the release of `rBuf` and the allocation that fails, `BailOut`
a fatal error anywhere else. The engine's rules (external) decide who is
destroyed when: the last reference, a cycle, the end of the request, never if it
was there at a fatal error. `stray` records a method that touched a released
string, a null field or another's memory; nothing is said of what follows.
`FreeObject` gives the allocator the address of the `zend_object`, which is not
that of the block (466 against 206); what is allocated there next may lie over
the members of a neighbour (`OverlayObject`) or over other memory.

**PluginHost** is one process: `stage` says where its thread is. The registry
maps service names to *control blocks* of `shared_ptr`s; a block names the
processor it deletes (library, load, object), and `Release` collects the blocks
that lose their last owner. The scan is one action per directory entry and per
registration, between which the deployer may create a directory, start or finish
copying a file, or remove one. `readdir` is modelled by its POSIX contract:
an entry present from `opendir` to the end is returned, one added or removed
meanwhile may be. The core's call takes its copy of the `shared_ptr` in `Serve`
and gives it up in `Served`; `HotSwap` is a plugin that kept the callback of
`plugin_api.h` and registers anew while it serves, under any name: its own,
another plugin's, or a new one.

`BridgeTransport` assumes that `core_initialized` holds whenever a script runs:
in `PluginHost` the stage `script` is entered only by actions that set the flag
or find it set. It takes the registry as the constant `Registered`: `RegistryFrozen`
shows that no request changes it, only a plugin that registers something while it
serves, which `BridgeTransport` leaves out.

### The library

**ThreadManager** (`concurrency/ThreadManager.cpp`). One mutex, three monitors.
An action is what a thread does between two points at which it gives the mutex
up: `Start`, `Wake`, `FinishTask`, `Expired`, `GoOn` are the places where a
worker enters or re-enters `Worker::run`; `Add`, `AddResumes`, `AddTimesOut` the
way of `add` through a full queue; `Shrink`, `ScalingResumes` and the like the
three calls that change the number of workers. A wait set per monitor holds the
sleepers; `notify` takes one, and so may the system (`SpuriousWakeUp`). The
getters take no part. `removeExpiredTasks()` alone walks the queue unlocked:
the model ends the behaviour (`torn`) when the queue changes meanwhile, since
what happens after a data race is not defined. **TaskPool** is what users rely
on; the pool implements it with `pending` the queue, `executing` the tasks at
workers, `dropped` the expired and the removed ones.

**TimerManager** (`concurrency/TimerManager.cpp`). One monitor for the
dispatcher and for the callers of `start` and `stop`; the clock is a counter
that ticks at any moment. `DispatcherWaits`, `DispatcherTakes`, `DispatcherRuns`
are the three parts of its loop, the tasks run without the lock.

**ServerFramework** (`server/TServerFramework.cpp`, the three servers made of
it, `TConnectedClient.cpp`, accept and interrupt of `TServerSocket.cpp`). `kind`
picks the server. `serving` is the place of `serve()`. `holders` are those who
have a shared pointer to a client: `serve()`, the thread or task that runs it,
the map of dead clients; whoever drops the last runs `disposeConnectedClient`,
at `Delete`.

**NonblockingServer** (`server/TNonblockingServer.cpp`). A connection object has
its state of `appState_`, its event flags and its IO thread; `Process` and its
neighbours are `transition()` in each state, `Notify` the write of a pointer to
the pipe, `NotifiedDone` and its neighbours the reader of the pipe. Handlers run
in one piece up to where they may block: at `connMutex_`, which is held while
tasks are drained, and at a full pipe. Addresses of connection objects are
handed out smallest first; which of them is free is what matters, not its
number.

**ConcurrentClient** (`async/TConcurrentClientSyncInfo.cpp`). `BeginSend` to
`EndSend` is the send sentry, `BeginReceive` to `Returns` or `Throws` the receive
sentry with the generated loop (external) between. Ids are those of a small
range and wrap as `int32_t` does; `reused` records an id that has been given to a
second call while the first is under way. The monitor of the first is lost then:
which of the two calls a notification wakes is left open (`Spurious`), and to
notify a monitor that is gone ends the process (`died`).

**FileTransport** (`transport/TFileTransport.cpp`). A file is a sequence of
cells, `onDisk` how much of it a crash leaves at least; a crash leaves any length
from there on, with the cells beyond what had been written back lost. The
writer's loop is an action per step (`Top`, `Swap`, `Event`, `Pad`, `WriteEvent`,
`Check`, `Tell`), `Recover` is its way back after an error. Opening may fail, a
write may be refused or come out short, and an fsync may fail; the code looks at
the first two results only, and of `write` only for -1. `Events(f)` is what
`readEvent` finds in a file, chunk by chunk. **DurableLog** is the promise: what
has been flushed is found after a crash, events are found in order and once
each, those that come after an error or a crash too; only an event itself is
ever spoilt, none that stands in the log. `FileTransport` implements it with the
refinement mapping of `Log`, in which the spoilt events are those of the
histories `lost` (torn, dropped, or put into a chunk that a torn event or a false
`offset_` has damaged), and a flush is doubted if its fsync failed (`unsynced`).

**BufferTransports** (`transport/TBufferTransports.{h,cpp}`). The pointers of a
buffer are numbers of bytes. A memory buffer alone, over memory that it
observes (as the request of the bridge is), copies or takes over, or one below a
writer's and a reader's buffered or framed transport, the reader's through a
`TShortReadTransport`. `Exchange` and the two `ResetBuffer` actions are the ways
to give a buffer other memory. `losses` and `failed` record why a side has given up.

**Protocols.** A writer walks messages of up to `MaxFields` fields with the
calls of generated code, each of which puts *symbols* on the wire; a reader
walks the symbols with the calls of its own. What one object keeps between calls
is modelled: the last field id and its stack, the boolean that waits for its
field or its value (compact), the stack of JSON contexts with their separators
and quoted numbers, the recursion depth. Zigzag, varints, nibbles of field
deltas and JSON's escapes are functions over small ranges. A reader either knows
all fields or none (`knows`), in which case it skips them as a client with an
older interface does, and either side may break a message off.

**Descriptors** is the table of descriptors of a process: the lowest free one is
handed out, so a descriptor closed twice or kept too long is soon somebody
else's. **ServerSocket** is `listen()` with each of its steps that can fail,
`accept()` woken by an interrupt, a connection or both, `interruptChildren()`
through the socket the accepted ones share, and `close()`. **SocketPool** is
`TSocketPool::open()` as one action per outcome: which servers it tries in which
order, which it passes over, what it notes of them.

**HttpTransport**, **HeaderTransport** and **WebSocketServer** take messages out
of a stream that the transport below gives in pieces of any size. In the first,
`Refill`, `Wants` and the actions per line or chunk are the loop of
`readMoreData()`, the buffer with its shift and its growth included. In the
second a request is one record and `ReadFrame` decides as the code does by its
first words; the point is what is kept from one request to the next. In the
third a frame is read header first, `ShortRead` is a transport that gives
less than was asked for, and what goes out, answers, pongs and the closing frame,
is kept with the length its header claims.

**SSLSocket** is one socket through handshakes, authorization, reads, writes,
the closing exchange and reopening; what OpenSSL answers depends on what the peer
has sent. `HandshakeParamsFail` is the `fcntl` that fails: the descriptor is
closed, its number kept, and the handshake goes on without an SSL object. With it
the factories, whose number says who initializes OpenSSL.
**ZlibTransport** is the writer's and the reader's four buffers, with deflate and
inflate free to take and give what their contract lets them. **PipedTransport**
is the buffer of two connections, the copy made for the processor, and that
processor reading it again.

**EvhttpChannel** is client channel and server over libevent: the queue of
completions, one request at a time on the connection, contexts on the server
that live until a reply is given. **LogReader** is `TFileProcessor` over a log
that grows while it is read: `process()` and `processChunk()` with each way out,
`peek()`, the reader's buffers and chunks. **Multiplexed** is the pair of
`TMultiplexedProtocol` and `TMultiplexedProcessor`: names put together, cut at
their colons, looked up; messages that are refused end the connection.

**NamedPipes** is the server of `TPipeServer.cpp` with one pipe instance after
the other: the instance that waits for the next caller, the caller that was
there at once and is cached, the overlapped connect, `interrupt()` from another
thread under `pipe_protect_`, and each accepted `TPipe` with the read it always
has under way. Beside it, the four handles of an anonymous pipe server and who
closes them. **SubmissionThread** is the thread that starts the overlapped
operations of all pipes: a stack of work items, an event that resets itself, the
reference count under whose guard the thread is created and joined.

**ConnectionBuffers** is one `TConnection` object of the nonblocking server with
the clients it has after each other: `workSocket()` and `transition()` over a
socket that gives and takes a few bytes at a time, the read buffer that is
doubled, the write buffer that a reply is handed over in, the limits that trim
them when idle. `NonblockingServer` has the events and threads around it.

Definitions marked as faulty variants model plausible mistakes in the code. No
action uses them; each is there to show that a property notices the mistake.

## What is checked

| run | module / cfg | expected | shows |
|---|---|---|---|
| `transport` | `MCBridgeTransport` / `BridgeTransport.cfg` | pass | one object under any sequence of calls: `TypeOK`, `ReadsArePrefix`, `NoRecovery`, `ImplementsChannel` |
| `session` | `RpcSession` / `RpcSession.cfg` | pass | calls get their own answers (`AnswersOwnCall`), handlers run in order and twice only after a late failure (`HandledInOrder`), calls end (`CallsEnd`) |
| `plugin_host` | `MCPluginHost` / `PluginHost.cfg` | pass | `ProcessorsLive`, `NothingLeftMapped`, `ScanComplete`, `RegistryFrozen` |
| `transport_object` | `MCTransportObject` / `TransportObject.cfg` | pass | counts are the references there are (`CountsExact`) |
| `thrift_concurrency` | `MCThriftConcurrency` / `ThriftConcurrency.cfg` | pass | pool and timer: `CountsAgree`, `TimersInTime`, `StopDrains`, `ImplementsPool`, `TasksServed`, `CallsReturn` |
| `thrift_servers` | `MCThriftServers` / `ThriftServers.cfg` | pass | blocking servers: `ClientsCounted`, `ReturnsClean`, `StopEndsServe`; shared client: `OwnReply`, `SharedCallsEnd`; nonblocking server: `ConnectionsHeld`, `ReplyToAsker`, `RequestsComeBack`; file transport: `ImplementsLog` |
| `thrift_wire` | `MCThriftWire` / `ThriftWire.cfg` | pass | `ReadsBack` (protocols), `SocketsOwned` (sockets, pipes, their thread), `StreamsDelivered` (HTTP, header, zlib, WebSocket, piped, log, pipes, connection buffers), `StreamInOrder` (buffers), `OwnAnswers` (asynchronous, multiplexed), `SecureChannel` (SSL) |
| `flush_exception` | `BridgeTransportException.cfg` | violation | `flush()` throws a plain `Exception`, its comment (line 392) says `TTransportException` |
| `unflushed_read` | `BridgeTransportUnflushed.cfg` | violation | the closed-or-not-flushed test (line 343) never fires on a constructed object |
| `standard_calls` | `RpcSessionStandard.cfg` | violation | a script that drops no call (`StandardSpec`): after one refused request, the flush of the next call, well-formed, fails too, against `test.php:23` |
| `all_services` | `PluginHostDocs.cfg` | violation | a later request does not get the services under its `plugin_dir`, against `README.md:18` |
| `shared_processor` | `PluginHostShared.cfg` | violation | a processor registered under two names is deleted while one still has it, against the comment of line 54 |

Parts of the library that share no state are checked in one run: the variable
`part` says whose behaviour it is, the other parts stay in their initial states,
and the fairness of each part is stated for its own behaviours. The state space
is the sum of the parts, not their product; a property of the run is the
conjunction, or the name, of properties of its parts.

What the passing runs say beyond single assignments, about the extension:

* `ReadsArePrefix`: the bytes returned since the last flush are exactly the
  prefix of the reply that ends at the position, for negative lengths too.
* `NoRecovery`: the other side of the `standard_calls` finding. Once the buffer
  starts with a refused message the object is dead until constructed again.
* `AnswersOwnCall`: as long as no flush failed and no request was left half
  sent, a call gets its own answer and its handler has run, even if earlier
  replies were left unread: `flush()` replaces the reply, position included.
* `HandledInOrder`: failures never reorder handler runs, and a second run of a
  request is always the late-failure case.
* `ProcessorsLive`: no registered or serving processor is deleted or loses its
  code, through name collisions, replacement while serving, and shutdown.
* `ScanComplete`: a plugin whole in the directory throughout the scan is loaded
  whatever else happens there; the last plugin loaded has a contested name.
* `RegistryFrozen`: once the process is initialized, a service is given to another
  library only by that library itself, while it serves, and never taken away; what
  is deployed or set between requests changes nothing.
* `CountsExact`: a string's count is the number of references to it that exist,
  plus those that a repeated constructor has dropped or that were in members
  another block was laid over. What methods do to released strings, null fields
  and clones is modelled and recorded, and no property: the code prevents none
  of it.

About threads and servers:

* `CountsAgree`, `ClientsCounted`, `ConnectionsHeld`: counters that are kept
  under a lock, or in several threads, are the numbers of the things they count;
  a client is disposed of once, a connection object is in one place, the limit
  on clients lets the next in as soon as one has gone.
* `StopDrains`, `ReturnsClean`: `stop()` of the pool returns when the workers
  have gone and the queue is empty; `serve()` when its clients are disposed of.
* `TimersInTime`: the dispatcher does not oversleep a deadline added while it
  sleeps, and a removed timer does not fire.
* `OwnReply`, `ReplyToAsker`: the reply somebody gets is the one to its request,
  also when another thread read it from the socket, or when the connection's
  object served another client before. Calls whose id was given out twice are
  the exception (`reused`), and the only one.
* `ImplementsPool`, `ImplementsLog`: the two refinements. The second says that a
  short write, a refused one, a failed fsync or a crash costs the events of the
  chunk it damages and no other, and that every synced event is found.
* `TasksServed`, `CallsReturn`, `StopEndsServe`, `SharedCallsEnd`,
  `RequestsComeBack`: nobody waits for ever; the last one but for a thread that
  waits for room in a pipe nobody empties (`Wedged`), the one before unless an
  id was given out twice.

About bytes:

* `ReadsBack`: what a reader got is what was written, skipped fields left out,
  for messages after broken ones too; its depth is that of what it is reading,
  plus one for each message it has refused as too deep; and it refuses only where
  this sum exceeds the limit.
* `SocketsOwned`: every open descriptor or handle of a pipe belongs to one owner
  that will close it, accepted sockets hear the interrupt, whoever interrupts a
  pipe server finds it alive, a pool that is open is connected to the server it
  names as current; the submission thread runs as long as it has users and
  starts each of their operations once.
* `StreamsDelivered`, `StreamInOrder`: no byte is lost, repeated or taken for
  another's, however the transport below cuts the stream; an end is reported
  where the stream ends. A request with a header is answered in its protocol, its
  transforms and its type of client, whoever asked before; an exception for a
  protocol that is not known, in that of the request before. A WebSocket's output
  is framed so that the client can take it apart, pongs repeat the pings in order
  and answers come in order, but for the cases its four histories record.
* `OwnAnswers`: no asynchronous call is lost; each waits for its request, is under
  way, has ended (once, with its own reply or an exception) or has failed the
  assertion of `finish()`. Of several services on one connection each gets its own
  calls, once and in order, none left out; a caller gets its own result, and an
  exception that is its own or that of an earlier message nobody waits for.
* `SecureChannel`: no data pass before the peer of *this* connection has been
  authorized, setbacks are counted once, OpenSSL stays initialized while there
  is a factory.

The models keep what the code does and not what it should do. Where the code
breaks such a statement in a known case, a history variable records the case and
the property says what holds outside it; the list below names them.

### Bounds

* `transport`: two-byte messages (the least that can be cut), one request of
  each kind and two halves as chunks, buffers up to 6 bytes: three requests, or
  a refused one with others behind it. `Uint32Mod = 5` lets four bytes pass
  uncut and five and six wrap to zero and one; `SignBit = 7` gives every read
  length from -7 to 6, so a length is smaller than, equal to and larger than
  what is left, and negative.
* `session`: three calls. One to spoil the buffer, one to suffer, one to see
  whether it recovers. Pieces and reads of one or two bytes.
* `plugin_host`: two plugins that share a service, a second name for one of
  them, a library without the entry point, a file with another name, an
  unreadable directory; every set of files at start, `MaxChanges` 2 by the
  deployer and `MaxHotSwaps` 1 late registration. Requests are unbounded.
* `transport_object`: two objects and three strings, so that a string released
  too early can be another's; counts up to 3; objects and strings are symmetric.
* `thrift_concurrency`: two workers, a client that scales and stops and one that
  does not, three tasks of which one expires, a queue of two that fills up;
  counters modulo 16, wide enough for what is counted to wrap only below zero. One
  `Controller`: two of them at once are a disagreement listed below. Two timers,
  two callers, times up to 2.
* `thrift_servers`: two peers, limits of one and two, a pool of one with a queue
  of one; three sharers and three calls over two ids of which the last is given
  out first, so that ids wrap while calls are out and one is given out twice
  (`reused`); two senders with one request each, two connection objects, two IO
  threads and two workers, pipes of one place, which fill up (that two threads
  wait for each other's pipes would take four connections; that one waits for its
  own, or for that of a thread that has ended, takes these), `MaxActive` 0 so that
  overload happens with one request, a stack of one; three events of 3 and 9 cells
  with a header of 2 against chunks of 8: two events share a chunk, the third needs
  padding, and one of 9 never fits; one crash, or one error of the disk (a file
  that cannot be opened, a write refused or short, an fsync that fails).
* `thrift_wire`: two messages of up to two fields of six kinds, deltas of field
  ids and lengths of lists beyond a nibble, numbers of more than one varint
  byte, a recursion limit of 2, five readers; seven descriptors, which run out,
  two connections, one retry, two calls of listen; two pools sharing up to two
  servers, one retry and one failure allowed, a clock of 2; HTTP bodies of 1 and 2
  bytes in a buffer of 4 cells that shifts and grows; two header requests of any
  style; three settings of SSL, five kinds of credentials, records in up to
  three pieces, two connections of one socket, two factories; buffers of zlib of 3
  and 2 bytes for four bytes; three WebSocket frames of six kinds; two piped
  connections with requests of 2, 1 and 2 bytes in a buffer that starts with 2;
  two asynchronous stubs with two calls; four events of 2 cells in read buffers
  of 3 and chunks of 4, so that an event straddles buffers and buffers straddle
  chunks; names with no, one and two parts, three calls; five
  bytes in memory buffers of up to 6, frames of up to 3, buffers of 2 and 3, pieces of 1 and 2; three pipe
  instances (one with a client, one connecting, one cached), of which the first
  carries two bytes through a buffer of two, and one interrupt; three users of
  the submission thread with one item each, and two threads one after the other;
  a connection object with two clients of two frames each, frames of up to 3
  bytes, replies of up to 2, a write buffer of 4, idle limits of 4 and 5 and a
  check every second call, so that buffers grow, are handed over and are trimmed,
  with 32-bit sizes wrapping at 16.

`CHECK_DEADLOCK FALSE` is set because the systems do stop: the process dies or
is shut down, the script ends, a pool or server has been stopped.

### Fairness

* `RpcSession`: weak fairness of `Proceed`. The client, once it has begun a
  call, executes straight-line PHP code (handlers are taken to return). Nothing
  makes a script begin a call.
* `ThreadManager`: weak fairness of each worker's steps and of the resumption of
  calls that have been woken; `TimerManager`: of the dispatcher and of callers
  that wait. A thread that can run is scheduled, tasks are taken to return, and
  nobody is made to call anything.
* `ServerFramework`: weak fairness of `serve()`, of a pool thread taking a task,
  and of each client's loop where it does not depend on the peer (a handler that
  runs, an interrupted read, the way out), as long as the process lives. Nobody
  need connect, send or disconnect.
* `ConcurrentClient`: weak fairness of the server answering and of each caller,
  and strong fairness of getting the read mutex or being woken, since other
  callers may take the mutex in between again and again: the same assumption as
  that the system's mutex does not starve a thread.
* `NonblockingServer`: weak fairness of each IO thread handling what it hears, of
  a write to a pipe with room, of workers, and of the creation of a connection;
  the event loop and the pool run whatever is ready.
* `FileTransport`: weak fairness of the writer thread and of a flush whose
  condition has come true.
* `PluginHost`, `TransportObject` and the parts of `thrift_wire` have safety
  properties only and no fairness.

### Disagreements met

Five disagreements between code and comments, tests or documents have runs of
their own (above). The following have none, since the models take the code's way
and record it, or leave the case out; lines are of the files named in the tables.

Extension. Line 343 is said to tell a closed or unflushed object, but after
`dtor_object`, or a `flush()` that ran out of memory, `read()` goes on with a
released buffer. The response the core allocated leaks when the string for it
cannot be allocated (402). The handlers table keeps offset 0 (466) although the
`zend_object` is embedded behind other fields (206), so that every object is freed
at an address 32 bytes inside its block. A clone has none of the members (207), a
subclass may leave them null, and a second `__construct` drops what they held.

Pool and timer. `add` waits for room beside an empty queue when it was woken by
nobody (`ThreadManager.cpp` 503, `.h` 148); `removeExpiredTasks()` walks the
queue without the lock (129), though the comment of 528 expects it; two threads
that change the number of workers wait for each other's counts (`.h` 107). After
a timer's `stop()` the count of tasks is not reset and the map is cleared without the
lock; `stop()` called by a timer's task waits for itself.

Servers. A time-out of `accept` is thrown as UNKNOWN (`TServerSocket.cpp` 645)
where `TServerFramework.cpp` 170 expects TIMED_OUT. A `stop()` before `listen()`
is lost. What the pool's `add` throws leaves `serve()`. An exception that is no
`TException` ends the process of a threaded server. In the nonblocking server a
`stop()` or a connection given to an IO thread that has not registered its
events yet is lost; `handleEvent` drains tasks holding `connMutex_` and writes
to its own pipe, or to that of a thread that has ended, and waits for ever when it
is full (contrary to the comments at 283 and 1001; `Wedged`); a connection closed
by force there
locks the mutex again; the destructor closes connections whose tasks still run
(889).

Shared client. `generateSeqId` compares the next id with the smallest one in use
only (`TConcurrentClientSyncInfo.cpp` 73), so after the ids have rolled over two
calls may have the same id (`reused`): each may take the other's reply, the first
one's monitor is lost, so that it may sleep for ever, and a monitor that has been
given back is notified through a null pointer, which ends the process (`died`). A
send that fails leaves its id in the map; `markBad_` does not take the read mutex.

File transport. "Throw away any partial events" (319) does not: an event written
behind a torn one is not found, nor are the others of its chunk. A write that is
cut short counts as whole (427, 441 look for -1 only), and so does an fsync that
fails (348, 502): `flush()` returns all the same. After a short write or the
recovery from an error `offset_` does not tell where the file ends, so that an
event may cross a chunk; and a file whose last chunk is damaged may not be opened
again, for the reader throws there. `flush()` does not return if
the error hits the last event of a buffer (454 against 473). `if (!fd_) close(fd_)`
(379). The comment of 1013 says tailing sets the time-out to 0, the constant is
-1; a `process()` that tails and returns at its number of events, or by an
exception that is no `TException`, leaves the reader tailing (`leftTailing`); a
`TException` in the middle of an event makes the next call begin there;
`processChunk()` goes by what has been read ahead and takes the first event of
the next chunk with it.

Buffers and protocols. The second write of `writeSlow` may throw and then the
same bytes are written again by the next flush (`TBufferTransports.cpp` 91,
against 126); the framed `readEnd` drops unread bytes when it reclaims its
buffer. Each failure at the recursion limit lowers the limit for good, since the
tracker's constructor throws after it has counted. Field ids below zero are
written and refused by JSON (999). A message that was broken off leaves its boolean
without a value in a compact object and its contexts in a JSON object, which spoil
the next message (`clean`). A multiplexing processor answers messages
that expect no answer, and the next call takes that exception; a name with a
colon is refused, an empty one goes to the default processor.

Sockets. The retries of `bind` leave a socket open each (`TServerSocket.cpp`).
If the interrupting pair cannot be made `interrupt()` does nothing. Failures of
the pool's servers are "consecutive" by name but never reset on success, and
pools that share a server end with each other's descriptors (`shared`).

Streams. After a chunked oneway request an HTTP server misreads the next one,
for `readHeaders_` is set again by `flush()` only. A flush that throws sends its
bytes again (HTTP, zlib, piped). A header server answers an unknown protocol in
the previous one, labelled as the unknown one, and headers set for an answer of a
type that has none go out with the next answer that can carry them. An SSL socket counts the setbacks
of reading over its whole life, through exceptions, `close()` and `open()`, so that
after `maxRecvRetries_` every read reports the end; the libevent-safe `write()`
drops what OpenSSL would not take (497); when `fcntl` fails (601) the descriptor is
closed but its number kept, the handshake goes on with a null `ssl_`, and `close()`
closes the number again. A zlib flush with nothing to write throws. A WebSocket that gets less
than it asked for loses its place (`cut`); a caller that wants more than the frame
has left loses that rest (85) and gets less than it asked for (`dropped`); an empty
frame hands out what the buffer held before, and a ping without data echoes it (281,
`stale`); a pong and the closing frame have the length of `writeBuffer_` in their
headers (201-220, 343), so that the client takes what follows for their data
(`misframed`). The leftovers of a request that failed reach
the next one, even of another connection, in `PeekProcessor` (`spilt`). An
asynchronous call that is answered before its completion is queued ends the
process (`SendAnsweredAtOnce`): `finish()` asserts that the queue is not empty (110),
and takes the front of an empty one where assertions are compiled out. A reply broken
off leaves a buffer over freed memory (`brokenOff`).

Pipes. An anonymous pipe server hands its handles to a `TPipe` that closes them
too. `interrupt()` with a caller already cached does not set `stopping_`, so that
`accept()` then ends with NOT_OPEN and not INTERRUPTED; if the caller of a
completed connect has left after an interrupt, `accept()` throws
CLIENT_DISCONNECT for ever. A `serve()` that ends by itself may destroy the server
under the thread that interrupts it (`raced`). `read()` loses the bytes it has
copied when the next `ReadFile` cannot be started (`spilled`). A caller swapped out
of the cache is lost when the next connect cannot be initiated.

Connection buffers. The limit on an idle write buffer does not see a reply whose
connection was closed before it was sent. Doubling the read buffer wraps around
where `maxFrameSize_ + 4` is more than 2^31 (`ConnectionAssumption` excludes it).

## What is proved

`RpcSessionProofs` proves, about the transport, for every set of services and
chunks, every length of messages and every word size allowed by the assumptions
`LengthAssumption`, `RegistryAssumption`, `ChunkAssumption`, `WidthAssumption`
and `NullAssumption`:

* `TypeCorrect`: `Spec => []TypeOK`.
* `ReadsPrefixOfReply`: `Spec => []ReadsArePrefix`.
* `PoisonedForGood`: `Spec => NoRecovery`.
* `RefinesChannel`: `Spec => Channel!Spec`, the refinement of
  `RequestReplyChannel`.

The inductive invariant is `IInv == TypeOK /\ ReadsArePrefix`. Neither half is
inductive alone: that `Read` moves the position inside `zend_long` needs the
position to be within the reply (so that the mixed subtraction of line 354 does
not wrap), and that needs the reply's type and length. `ReadLenBound` is the
lemma about the arithmetic; `CoreCallOutcome` is the one about the core call:
a reply is the reply to the first request in the buffer although only a prefix
(`ObservedIsPrefix`) is looked at, and a buffer that starts with no such request
never reaches a handler. The refinement needs two facts about slices of
sequences, `SliceProperties` and `SliceOfSuffix`.

About sessions it proves, with `CallAssumption` and `ReadSizeAssumption` added,
for any number of calls, lengths and pieces: `SessionTypeCorrect`,
`CallsGetOwnAnswers` (`AnswersOwnCall`) and `CallsHandledInOrder`
(`HandledInOrder`). The inductive invariant is `SessionInv`: the transport's
`IInv` and types, `InPhase` (what the phase of a call says of what is in the
buffers), `CleanBuffers` (in an untainted session a buffer holds the pieces of
the call in progress only), the two properties, `NoFuture` (no byte is of a
call not yet made) and `HeadIsNext` (the request at the head of the buffer is not
older than the last one handled). `AnswersOwnCall` needs the first three, since
what is in the reply depends on what was in front of the request;
`HandledInOrder` needs the last two, since a failed flush leaves the head for
later calls.

`PluginHostProofs` proves, from `PluginAssumption` and its neighbours in
`PluginHost`, for any directories, files, libraries and plugins and any number of
changes: `HostTypeCorrect`, `ClosesAllLibraries` (`NothingLeftMapped`),
`ScanLoadsAll` (`ScanComplete`), `RegistryStays` (`RegistryFrozen`) and
`ProcessorsStayLive` (`ProcessorsLive`). The invariant `HostInv` says how often a
library was opened (`Counted`, `OpenedSoFar`), what each stage implies
(`Stages`), that registrations are those of the library loaded last
(`CallsOfLast`, `LastHasName`), and that code is mapped while it may run
(`CodeMapped`). `OwnerInv` says who owns what: blocks are numbered upwards, of
loads made so far, name their object for themselves alone (`OneBlockEach`). That
last part holds only if no plugin passes one processor's pointer twice, which is
`DistinctObjects`, the assumption of the theorem; without it the run
`shared_processor` has the counterexample.

`TransportObjectProofs` proves, from `AddressAssumption` (which now says that
there are finitely many objects, so that references can be counted):
`MemoryTypeCorrect` (`TypeOK`) and `CountsStayExact` (`CountsExact`). The invariant `MemInv` adds to these
what holds of each object (`Kept`): a reference it owns is to a string that is
allocated (`Allocated`), the strings of its buffers are its own (`Private`), and an
object that was constructed and not destroyed owns every field (`Whole`). Without
`Private`, a flush could free a string another object still reads; without
`Whole`, `dtor_object` could release a reference nobody counted.

`ThreadManagerProofs` proves three theorems about the pool.

* `WorkersCounted` (`CountsAgree`), from `PoolAssumption` and `OneController`, the
  assumption that one thread at most changes the number of workers; two are the
  disagreement listed above. `CountsAgree` is not inductive: a worker that was not
  admitted subtracts one from a count it was never added to. The invariant
  `PoolInv` excludes it with `OneWay`: a pool that does not shrink has, counted or
  about to be, the workers it should have, and one that does not grow has at least
  those and none that is about to be counted. The counts are sets of workers, so
  the proof rests on lemmas about cardinalities (`OneMoves`: one worker moves) and
  about what add, purge and removal do to the length of the queue.
* `PoolRefinesTaskPool` (`ImplementsPool`), the refinement of `TaskPool`, step by
  step, with no assumption on who scales the pool. Its invariant `PlaceInv` says
  that a task is in at most one place: offered by one call of `add`, in the queue
  once, or at one worker.
* `StopWorksOffTheQueue` (`StopDrains`), from `OneController`. `DrainInv` adds to
  the types and places (`TypeInv`) what is true while a `stop()` waits (`Stopping`):
  the pool joins and wants no workers, and once none is counted the queue holds
  only what calls of `add` that were blocked have put there since.

`ThriftConcurrencyProofs` proves `DeadlinesAreKept` (`TimersInTime`) and
`ConcurrencyTypeCorrect` (`CTypeOK`). `TimerInv`, from `TimerAssumption` (finitely
many timers, a dispatcher that is none of the callers), adds to types and property
what each state of the manager implies (`Running`: nothing is in the map before it
runs, the count is that of the map while it does, nobody sleeps but the dispatcher)
and that a timer is in the map, in the dispatcher's hands or done with (`OnePlace`).
That no counter of the pool leaves the range of `size_t` follows from
`CountsAgree`.

`ThriftServersProofs` proves six theorems about the parts of `MCThriftServers`.

* `ClientsAreCounted` and `ServeReturnsClean` (`ClientsCounted`, `ReturnsClean`),
  from `PeersAssumption`, for the simple, the threaded and the pool server. The
  invariant `ServerInv` adds to types and count `Where`: who has a pointer to a
  client in each stage of `serve()`, of the client's thread and of the pool, and
  what has been given up by whom when `serve()` ends.
* `CallersGetTheirReplies` (`OwnReply`), from `IdsAssumption`, for any number of
  calls, those that wrap around included. `SharedInv` says that the id of a call
  under way is in the map, or was given out twice (`IdsHeld`), that no other id has
  two callers (`OneCaller`), that each call has one message or reply at most
  (`OneReply`), and that a message with the id of a call under way is that call's
  (`ReplyToCall`).
* `RepliesGoToTheAsker` and `ConnectionsAreHeld` (`ReplyToAsker`,
  `ConnectionsHeld`), from `IOThreadsAssumption`. `NBInv` says that no pointer is
  twice in a queue, stack or pipe (`NoRepeats`) or with two threads (`Single`), that a
  connection in use is in one place, which its `appState_` tells (`Placed`), and that
  its buffers are those of the peer it has (`OfItsPeer`); `Counted` is the count of
  processors.
* `ServersTypeCorrect` (`NTypeOK`), from `PartsAssumption`: the types of all four
  parts. For the nonblocking server that contains the count of connection objects
  (`ObjectsCounted`), which needs `NBInv`: a stack without repetition has as many
  elements as it is long (`OnceCounted`). For the file transport (`FileTyped`) it
  contains that buffers hold numbers of events that were given, so that sizes and
  offsets stay natural numbers, that what is synced is a part of the file, and
  that only events that were given are lost.

`ThriftWireProofs` proves the properties that `ThriftWire` states of several parts
of the library, from an inductive invariant of each part.

* `DescriptorsStayOwned` (`SocketsOwned`), from `ServerSocketAssumption`,
  `SocketPoolAssumption`, `PipesAssumption` and `SubmissionAssumption`, for any
  numbers of descriptors, peers, servers, pipes and users of the submission thread.
  `SocketsInv` adds to `ChildrenInterrupted` that each field of a listening socket
  is the end it is named for (`OwnEnds`), that reading ends come with their writing
  ends (`PairsWhole`), that what a connection has is its own (`ChildEnds`), and that
  every open descriptor is held by somebody, but for those of `bind`'s retries
  (`Accounted`): `DescriptorsExact` alone does not say who closes what.
  `SocketPoolInv` says that servers do not share a connection (`EntriesApart`) and
  that the pool's socket is the one its current server remembers
  (`SocketOfCurrent`), as long as no server is in two pools. `PipesInv` says which
  handles are open in each state of `accept()` (`ServerStates`, `HandlesOwned`) and
  what an interrupt leaves behind (`InterruptSeen`). `SubmissionInv` says where the
  item of each user is (`ItemOfUser`), that whoever holds the guard is the last user
  (`OneLastUser`), that the stop item is pushed behind all others
  (`ItemOfThread`), and that a list which is not empty has somebody who will wake
  its thread (`NoWakeUpLost`); without `ItemOfUser` a step of the thread might
  submit an item again that its user has already taken back.
* `AnswersStayOwn` (`OwnAnswers`), from `MultiplexedAssumption`, for any numbers of
  stubs, services and calls. `EvhttpInv` says that the queue of completions and
  libevent's queue of requests are the same, each request being its client's last
  (`RequestsQueued`), that a call under way has not ended (`EndedOnce`), that a
  receive buffer is filled only by its own completion (`OwnBuffers`), that a
  context lives while its answer is owed (`ContextsHeld`), and that no call has
  gone without being run, queued or aborted (`NoneLost`). `MultiplexedInv` says
  that the client waits for one call at most (`TurnsTaken`), that the messages on
  the way bear the prefixed names of calls not yet handed on, in their order and
  all of them (`MessagesRight`, `DispatchedOnce`), and that an answer on the way is
  to the call the client waits for, or to a message after which no call has been
  answered and the server has hung up (`RepliesRight`).
* `DataPassOnlyToTrustedPeers` (`SecureChannel`), from `SSLAssumption`, for any
  credentials, names and number of retries. `SSLInv` says that the SSL object is
  that of the connection the socket has, and that a call which reads or writes has
  a handshake behind it (`OneConnection`), that a connection whose handshake is
  complete has a peer that is trusted (`PeerAuthorized`), what `readRetryCount_` has
  counted (`RetriesCounted`, `RetriesExact`), and that factories are counted, a
  failed one included (`FactoriesCounted`). What `authorize()` decides step by step,
  on the address, the alternative names and the common names, and `Trusted`, which
  says it in one sentence, agree by the lemmas about the first decision in a
  sequence (`FirstDecides`, `FirstOfTwo`).

`BufferTransportsProofs` proves `BytesArriveInOrder` (`StreamInOrder`), from
`BufferAssumption`, for any sizes of buffers, frames, messages and calls.
`BuffersInv` says of the bytes that are in the reader's hands, in its buffer, in the
memory and in the writer's buffer, in this order, that each number written is there
once and that the numbers rise (`Accounts`), unless a loss or a repetition has been
recorded; that headers are in the memory of a framed pair only (`HeadersWhere`); and
that what is in this memory is a sequence of whole frames, each with as many bytes
as its header tells (`WholeFrames`), so that the reader never takes a byte of the
client's for a part of a header and never finds a frame cut short. The proof rests on
lemmas about what concatenation, cutting and dropping headers do to the numbers in
a sequence and their order.

Only model-checked: `StreamsDelivered`, part by part (below, under Plan), and the
types of the wire (`WTypeOK`); `ImplementsLog` and `ReadsBack`, whose mapping and
whose expected messages are folds over a file and over what a client said, that is,
inductions over data, which the prover cannot do; and, for good, liveness under
fairness (`CallsEnd`, `TasksServed`, `CallsReturn`, `StopEndsServe`,
`SharedCallsEnd`, `RequestsComeBack`), which it cannot do either.

## Not modelled

* The rest of the vendored library: templates that forward virtual calls, output
  for debugging, base64, profiling and statistics, the adapters to Qt; and in
  the modelled files conversions of data (doubles, UTF-16, addresses, certificates), options of sockets, and the calls of the system
  beyond how they may fail. They have no state that a property could relate.
* Several processes at once: they share nothing but the plugin directory.
* `opendir` failing for want of descriptors; symbol clashes between plugins
  loaded with `RTLD_GLOBAL`.
* The response that leaks at line 402; what a block freed at the wrong address
  does to memory other than that of transport objects.
* `MINFO`, logging, build scripts.
* Of modelled parts: calling `listen()` on a listening socket, OPTIONS requests,
  frames sent along with a WebSocket's upgrade, `setServers` on a pool in use,
  the destructors of the nonblocking server and of a channel with calls under way,
  sockets that outlive their SSL factory, `seekToChunk` and limits on damaged
  events, a descriptor closed by a failed `fcntl` whose number has become another
  file's, null pointers that a lost monitor leaves among the free ones.

## Plan

Done: the extension with proofs; its object's memory; the library's pool, timer,
servers, shared client, file transport, sockets, pipes, transports and protocols;
proofs about the pool, the timer, the servers, the shared client, sockets and pools
of them, pipes and their thread, buffers, asynchronous and multiplexed clients, and
SSL.

Left:

1. Proofs of `StreamsDelivered`, part by part: the bytes of a pipe and of a
   connection's buffers, which need no fold; then the header transport, HTTP, the
   WebSocket server and the piped transport; zlib and the log's reader.
2. `BridgeProcess`: `PluginHost` and `RpcSession` composed, the constant
   `Registered` replaced by the registry, so that a call meets a plugin's late
   registration.
3. The parts named under "Not modelled" that have state: the nonblocking
   server's destructor, `setServers`, sockets that outlive their factory.
