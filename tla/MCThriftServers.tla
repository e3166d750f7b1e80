-------------------------- MODULE MCThriftServers --------------------------
(***************************************************************************)
(* The blocking servers, the nonblocking one, the client that threads      *)
(* share and the transport that logs to a file.  They share no state: a    *)
(* behaviour is one of a single part.                                      *)
(***************************************************************************)
EXTENDS ServerFramework

CONSTANTS Sharer, Calls, MinSeqId, MaxSeqId, FirstSeqId, None,
          Senders, Addresses, Requests, IOThreads, Worker, PipeSize, StackLimit, MaxActive, MaxConns,
          Header, Chunk, Sizes, MaxEvents, BufferSize, MaxFaults

VARIABLES stop_, nextseqid_, seqidToMonitorMap_, recvPending_, pendingMessage_, wakeupSomeone_,
          readMutex_, writeMutex_, asleep, step, seqid, made, replies, received, reused

VARIABLES threadPoolProcessing_, overloadAction_, come, unsent, appState_, eventFlags_, ioThread_,
          tSocket_, request, output, activeConnections_, connectionStack_, numTConnections_,
          nextIOThread_, numActiveProcessors_, overloaded_, connMutex_, accepted, writing, loop,
          pipe, stops, tasks_, running, poolStopped

NB == INSTANCE NonblockingServer

VARIABLES given, caller, enqueueBuffer_, dequeueBuffer_, forceFlush_, closing_, writer, hasIOError,
          offset_, file, onDisk, damaged, lost, unsynced, faults

File == INSTANCE FileTransport

Sync == INSTANCE ConcurrentClient WITH Thread <- Sharer

ASSUME PartsAssumption == NB!IOThreadsAssumption /\ File!SizesAssumption /\ Sync!IdsAssumption

VARIABLE part   \* whose behaviour this is

syncVars == <<stop_, nextseqid_, seqidToMonitorMap_, recvPending_, pendingMessage_, wakeupSomeone_,
              readMutex_, writeMutex_, asleep, step, seqid, made, replies, received, reused>>

nbVars == <<threadPoolProcessing_, overloadAction_, come, unsent, appState_, eventFlags_,
            ioThread_, tSocket_, request, output, activeConnections_, connectionStack_,
            numTConnections_, nextIOThread_, numActiveProcessors_, overloaded_, connMutex_,
            accepted, writing, loop, pipe, stops, tasks_, running, poolStopped>>

fileVars == <<given, caller, enqueueBuffer_, dequeueBuffer_, forceFlush_, closing_, writer,
              hasIOError, offset_, file, onDisk, damaged, lost, unsynced, faults>>

NInit == /\ part \in {"server", "client", "nonblocking", "file"}
         /\ ServerInit /\ Sync!SyncInit /\ NB!NonblockingInit /\ File!FileInit
         /\ part # "server" => kind = "simple"
         /\ part # "nonblocking" => ~threadPoolProcessing_ /\ overloadAction_ = "none"

NNext ==
  /\ UNCHANGED part
  /\ \/ part = "server" /\ ServerNext /\ UNCHANGED <<syncVars, nbVars, fileVars>>
     \/ part = "client" /\ Sync!SyncNext /\ UNCHANGED <<serverVars, nbVars, fileVars>>
     \/ part = "nonblocking" /\ NB!NonblockingNext
        /\ UNCHANGED <<serverVars, syncVars, fileVars>>
     \/ part = "file" /\ File!FileNext /\ UNCHANGED <<serverVars, syncVars, nbVars>>

NSpec ==
  /\ NInit /\ [][NNext]_<<part, serverVars, syncVars, nbVars, fileVars>>
  /\ WF_serverVars(part = "server" /\ serving # "terminated" /\ Serving)
  /\ WF_serverVars(part = "server" /\ serving # "terminated" /\ TakeTask)
  /\ \A p \in Peer : WF_serverVars(part = "server" /\ serving # "terminated" /\ Running(p))
  /\ \A t \in Sharer : /\ WF_syncVars(part = "client" /\ Sync!Alive /\ Sync!Calling(t))
                       /\ SF_syncVars(part = "client" /\ Sync!Alive
                                       /\ (Sync!BeginReceive(t) \/ Sync!WakeUp(t)))
  /\ \A i \in NB!Thread : /\ WF_nbVars(part = "nonblocking" /\ NB!Hears(i))
                          /\ WF_nbVars(part = "nonblocking" /\ NB!Notify(i))
  /\ \A w \in Worker : WF_nbVars(part = "nonblocking" /\ NB!Works(w))
  /\ WF_nbVars(part = "nonblocking" /\ NB!Creates)
  /\ WF_fileVars(part = "file" /\ File!Writer)
  /\ WF_fileVars(part = "file" /\ File!FlushEnds)

-----------------------------------------------------------------------------
\* The types of all variables.
NTypeOK ==
  /\ part = "server" => ServerTypeOK
  /\ part = "client" => Sync!SyncTypeOK
  /\ part = "nonblocking" => NB!NonblockingTypeOK
  /\ part = "file" => File!FileTypeOK

\* A call over the shared client returns the reply to its own request.
OwnReply == part = "client" => Sync!OwnReply

\* A connection of the nonblocking server is in exactly one place, and the
\* count of requests under way is exact.
ConnectionsHeld == part = "nonblocking" => NB!OneHolder /\ NB!ProcessorsCounted

\* It sends a reply to the peer that asked.
ReplyToAsker == part = "nonblocking" => NB!ReplyToAsker

\* A request it gave to the pool comes back.
RequestsComeBack == NB!RequestsComeBack

\* The file transport is a durable log.
ImplementsLog == File!ImplementsLog

\* All calls over the shared client end.
SharedCallsEnd == Sync!CallsEnd
=============================================================================
