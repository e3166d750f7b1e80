----------------------------- MODULE ThriftWire -----------------------------
(***************************************************************************)
(* The sockets and pipes between two programs that speak Thrift, the       *)
(* buffers on them, and the clients and servers that tell calls apart; and *)
(* what these parts promise together, whoever uses them.                   *)
(***************************************************************************)
EXTENDS SSLSocket, ServerSocket, SocketPool, NamedPipes, SubmissionThread, BufferTransports,
        EvhttpChannel, Multiplexed

\* A listening socket and those it accepts only use descriptors that are theirs, and lose none;
\* interruptChildren() reaches every one that was accepted to be interrupted; and an open socket
\* pool is connected to the server it says, over a connection of its own.  The handles of pipes have
\* one owner each, and whoever interrupts their server finds it alive; and the thread that starts their
\* operations runs as long as it has users, and starts each of them once.
SocketsOwned ==
  /\ DescriptorsExact /\ ChildrenInterrupted
  /\ ConnectedToCurrent
  /\ PipeHandlesOwned /\ InterruptHolds /\ ListenEventTells
  /\ ThreadOutlivesItsUsers /\ ItemsSubmittedOnce

\* Every asynchronous call over HTTP ends once, with its own reply if it has one (TEvhttpClientChannel);
\* and of several services on one connection each gets its own calls, whose callers get their own
\* results (TMultiplexedProcessor).
OwnAnswers == OwnReplies /\ RightProcessor /\ OwnResults
=============================================================================
