---------------------------- MODULE EvhttpChannel ----------------------------
(***************************************************************************)
(* Asynchronous calls over HTTP: clients that share a TEvhttpClientChannel *)
(* and a TEvhttpServer with its asynchronous processor.  libevent is       *)
(* external: it sends the requests of a channel one at a time, calls back  *)
(* when one is answered or fails, and lets go of a request whose           *)
(* connection has ended when it is replied to.                             *)
(***************************************************************************)
EXTENDS Integers, Sequences, SequencesExt, FiniteSets

CONSTANTS
  Stub,       \* generated clients, each with its buffers and one call at a time
  MaxCalls      \* bound: calls of each

VARIABLES
  calls,        \* per client: how many it has made
  recvBuf,      \* per client: what is unread in it: the call a reply is for, or Nobody
  completionQueue_,
  connRequests, \* the requests libevent has, the first one under way
  accepted,     \* the server has the first one
  reply,        \* what it has answered: a status, or "none"
  contexts,     \* RequestContext objects
  leaked,       \* those nobody will delete
  callback,     \* the completion finish() is running, or Nobody
  results,      \* history: the calls that have ended, each with the call its reply was for, or Nobody
  brokenOff,    \* history: clients that have stopped reading in the middle of a reply
  aborted       \* the call for which the assertion in finish() has failed, or Nobody

evhttpVars == <<calls, recvBuf, completionQueue_, connRequests, accepted, reply, contexts, leaked,
                callback, results, brokenOff, aborted>>
serverSide == <<contexts, leaked>>

Nobody == <<"nobody", 0>>
Under == connRequests[1]

EvhttpInit ==
  /\ calls = [k \in Stub |-> 0] /\ recvBuf = [k \in Stub |-> Nobody]
  /\ completionQueue_ = << >> /\ connRequests = << >> /\ accepted = FALSE /\ reply = "none"
  /\ contexts = {} /\ leaked = {} /\ callback = Nobody /\ results = << >> /\ brokenOff = {}
  /\ aborted = Nobody

-----------------------------------------------------------------------------
\* The client: a callback may make calls for the other clients.
MayCall(k) ==
  /\ aborted = Nobody /\ calls[k] < MaxCalls
  /\ \A i \in 1..Len(connRequests) : connRequests[i][1] # k
  /\ callback[1] # k

sendAndRecvMessage(k) ==
  /\ MayCall(k)
  /\ calls' = [calls EXCEPT ![k] = @ + 1]
  /\ connRequests' = Append(connRequests, <<k, calls[k] + 1>>)
  /\ completionQueue_' = Append(completionQueue_, <<k, calls[k] + 1>>)
  /\ UNCHANGED <<recvBuf, accepted, reply, serverSide, callback, results, brokenOff, aborted>>

\* A function of libevent fails before the completion is queued.
SendThrows(k) ==
  /\ MayCall(k)
  /\ calls' = [calls EXCEPT ![k] = @ + 1]
  /\ results' = Append(results, <<k, calls[k] + 1, Nobody>>)
  /\ UNCHANGED <<recvBuf, completionQueue_, connRequests, accepted, reply, serverSide, callback, brokenOff,
                 aborted>>

\* The connection is refused inside evhttp_make_request: the response comes before its completion, and
\* the process ends.
SendAnsweredAtOnce(k) ==
  /\ MayCall(k) /\ connRequests = << >> /\ completionQueue_ = << >>
  /\ calls' = [calls EXCEPT ![k] = @ + 1] /\ aborted' = <<k, calls[k] + 1>>
  /\ UNCHANGED <<recvBuf, completionQueue_, connRequests, accepted, reply, serverSide, callback,
                 results, brokenOff>>

\* Faulty variant: a request that has failed keeps its completion.
PopOnAnswer(status) == IF status = "none" THEN completionQueue_ ELSE Tail(completionQueue_)

Pop(status) == Tail(completionQueue_)

\* finish(): the buffer is set to a good answer, and left as it is by any other.
Finish(status) ==
  /\ aborted = Nobody /\ callback = Nobody /\ connRequests # << >>
  /\ callback' = Head(completionQueue_) /\ completionQueue_' = Pop(status)
  /\ recvBuf' = IF status = "200" THEN [recvBuf EXCEPT ![callback'[1]] = Under] ELSE recvBuf
  /\ connRequests' = Tail(connRequests) /\ accepted' = FALSE /\ reply' = "none"
  /\ UNCHANGED <<calls, serverSide, results, brokenOff, aborted>>

Answered == reply # "none" /\ Finish(reply)

\* The connection fails; libevent connects again for the next request.
ConnectionFails == Finish("none")

\* The completion: the generated code reads all, or finds nothing and throws.
CompletionReads ==
  /\ callback # Nobody /\ aborted = Nobody
  /\ results' = Append(results, <<callback[1], callback[2], recvBuf[callback[1]]>>)
  /\ recvBuf' = [recvBuf EXCEPT ![callback[1]] = Nobody]
  /\ callback' = Nobody
  /\ UNCHANGED <<calls, completionQueue_, connRequests, accepted, reply, serverSide, brokenOff, aborted>>

\* It throws in the middle; what is unread is memory of a request that libevent frees.
CompletionBreaksOff ==
  /\ callback # Nobody /\ aborted = Nobody /\ recvBuf[callback[1]] # Nobody
  /\ results' = Append(results, <<callback[1], callback[2], Nobody>>)
  /\ brokenOff' = brokenOff \cup {callback[1]} /\ callback' = Nobody
  /\ UNCHANGED <<calls, recvBuf, completionQueue_, connRequests, accepted, reply, serverSide, aborted>>

-----------------------------------------------------------------------------
\* The server: request() makes a context and calls the processor.
ServerRequest ==
  /\ aborted = Nobody /\ connRequests # << >> /\ ~accepted
  /\ accepted' = TRUE /\ contexts' = contexts \cup {Under}
  /\ UNCHANGED <<calls, recvBuf, completionQueue_, connRequests, reply, leaked, callback, results,
                 brokenOff, aborted>>

\* evhttp_send_reply: the reply to a request whose connection has ended goes nowhere.
SendReply(r, status) ==
  reply' = IF accepted /\ connRequests # << >> /\ Under = r THEN status ELSE reply

\* The processor throws: request() replies, and the context stays.
ProcessThrows(r) ==
  /\ r \in contexts \ leaked
  /\ SendReply(r, "500") /\ leaked' = leaked \cup {r}
  /\ UNCHANGED <<calls, recvBuf, completionQueue_, connRequests, accepted, contexts, callback, results,
                 brokenOff, aborted>>

\* complete(): at once or later, with an answer or, for a message that is no call, without.
CompleteRequest(r) ==
  /\ r \in contexts \ leaked
  /\ \E success \in BOOLEAN : SendReply(r, IF success THEN "200" ELSE "400")
  /\ contexts' = contexts \ {r}
  /\ UNCHANGED <<calls, recvBuf, completionQueue_, connRequests, accepted, leaked, callback, results,
                 brokenOff, aborted>>

EvhttpNext ==
  \/ \E k \in Stub : sendAndRecvMessage(k) \/ SendThrows(k) \/ SendAnsweredAtOnce(k)
  \/ Answered \/ ConnectionFails \/ CompletionReads \/ CompletionBreaksOff
  \/ ServerRequest \/ \E r \in contexts : ProcessThrows(r) \/ CompleteRequest(r)

EvhttpSpec == EvhttpInit /\ [][EvhttpNext]_evhttpVars

-----------------------------------------------------------------------------
\* The types.
EvhttpTypeOK ==
  /\ calls \in [Stub -> 0..MaxCalls] /\ reply \in {"none", "200", "400", "500"}
  /\ leaked \subseteq contexts /\ contexts \subseteq Stub \X (1..MaxCalls)
  /\ brokenOff \subseteq Stub /\ accepted \in BOOLEAN /\ aborted \in {Nobody} \cup Stub \X (1..MaxCalls)

EndedCall(i) == <<results[i][1], results[i][2]>>

\* What has become of a call: its completion waits in the queue, is under way or has been run; or the call
\* has ended the process, since it was answered before its completion was queued (110).
InQueue(c) == \E i \in DOMAIN completionQueue_ : completionQueue_[i] = c
Ended(c) == \E i \in DOMAIN results : EndedCall(i) = c
NotLost(c) == InQueue(c) \/ callback = c \/ Ended(c) \/ aborted = c

\* No call is lost, whatever fails or is called in a callback: each waits, is under way or has ended, and ends
\* once.  The completion that finish() takes is that of the request that has ended, and the call gets the
\* reply to it or an exception, as long as its client has not broken off a reply before.  The server
\* holds a context for each request it has not replied to.
OwnReplies ==
  /\ \A k \in Stub : \A n \in 1..calls[k] : NotLost(<<k, n>>)
  /\ \A i \in DOMAIN results : EndedCall(i) # callback /\ ~InQueue(EndedCall(i))
  /\ \A i, j \in DOMAIN results : i # j => EndedCall(i) # EndedCall(j)
  /\ completionQueue_ = connRequests
  /\ \A i \in DOMAIN results :
       results[i][1] \notin brokenOff => results[i][3] \in {Nobody, EndedCall(i)}
  /\ accepted /\ connRequests # << >> /\ reply = "none" => Under \in contexts \ leaked
=============================================================================
