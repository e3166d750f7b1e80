----------------------------- MODULE Multiplexed -----------------------------
(***************************************************************************)
(* Several services over one connection (TMultiplexedProtocol.cpp,         *)
(* TMultiplexedProcessor.h): the client puts the name of the service in    *)
(* front of the method's, the processor takes it off and hands the message *)
(* on.  A server ends the connection when the processor throws             *)
(* (TConnectedClient.cpp).                                                 *)
(*                                                                         *)
(* A name is the sequence of what stands between its colons, empty parts   *)
(* left out as the tokenizer does; so the name of a service may have no    *)
(* part, or several.  A client writes one call at a time and does not wait *)
(* when the call is oneway.                                                *)
(***************************************************************************)
EXTENDS Integers, Sequences, FiniteSets

CONSTANTS
  ServiceName,  \* sequences of parts: the names clients and servers may use
  CalledMethod, \* a part: the method that is called
  MaxMultiCalls \* bound: the calls a client makes

ASSUME MultiplexedAssumption == ServiceName \subseteq Seq(STRING)

VARIABLES
  services,     \* the names for which a processor has been registered
  hasDefault,   \* defaultProcessor is set
  called,       \* the calls the client has made, by seqid
  inbound,      \* messages on their way to the processor
  replied,      \* those on their way back
  disconnected, \* the server has ended the connection
  dispatched,   \* history: the calls that have been handed on, each with the service
  outcomes      \* history: what each call has returned

multiplexedVars == <<services, hasDefault, called, inbound, replied, disconnected, dispatched, outcomes>>

Plain == <<"a client without TMultiplexedProtocol">>
Types == {"call", "oneway", "reply"}

MultiplexedInit ==
  /\ services \in SUBSET ServiceName /\ hasDefault \in BOOLEAN
  /\ called = << >> /\ inbound = << >> /\ replied = << >>
  /\ disconnected = FALSE /\ dispatched = << >> /\ outcomes = << >>

\* Services, or the default one, may be added while the connection is served.
RegisterProcessor(name) ==
  /\ name \notin services /\ services' = services \cup {name}
  /\ UNCHANGED <<hasDefault, called, inbound, replied, disconnected, dispatched, outcomes>>

RegisterDefault ==
  /\ ~hasDefault /\ hasDefault' = TRUE
  /\ UNCHANGED <<services, called, inbound, replied, disconnected, dispatched, outcomes>>

\* Faulty variant: only what is answered gets the name of the service.
PrefixCalls(service, type) == IF service # Plain /\ type = "call" THEN service \o <<CalledMethod>> ELSE <<CalledMethod>>

\* What writeMessageBegin makes of the name.
Prefixed(service, type) ==
  IF service # Plain /\ type \in {"call", "oneway"} THEN service \o <<CalledMethod>> ELSE <<CalledMethod>>

\* The client: it waits for the result of its last call.
Pending == Len(called) > Len(outcomes)

Send(service, type) ==
  /\ ~Pending /\ Len(called) < MaxMultiCalls
  /\ called' = Append(called, [service |-> service, type |-> type])
  /\ inbound' = IF disconnected THEN inbound
                ELSE Append(inbound, [name |-> Prefixed(service, type), type |-> type, seqid |-> Len(called) + 1])
  /\ outcomes' = IF type = "call" THEN outcomes ELSE Append(outcomes, <<"none", 0>>)
  /\ UNCHANGED <<services, hasDefault, replied, disconnected, dispatched>>

-----------------------------------------------------------------------------
\* The processor.
Message == Head(inbound)

\* protocol_error: an exception is written, whatever the type; then thrown.
Refuse ==
  /\ replied' = Append(replied, <<"exception", Message.seqid>>)
  /\ inbound' = << >> /\ disconnected' = TRUE
  /\ UNCHANGED dispatched

\* The one that is registered reads the message without the name of its service.
HandOn(processor) ==
  /\ dispatched' = Append(dispatched, <<Message.seqid, processor>>)
  /\ replied' = IF Message.type = "call" THEN Append(replied, <<"result", Message.seqid>>) ELSE replied
  /\ inbound' = Tail(inbound)
  /\ UNCHANGED disconnected

\* Faulty variant: what comes after the second part of a name does not matter.
FirstPart(name) == IF Len(name) >= 2 THEN {<<name[1]>>} ELSE {<< >>}

\* The service a name is for; without one it is for the default processor, and one with more parts for none.
ServiceOf(name) == IF Len(name) = 2 THEN {<<name[1]>>} ELSE IF Len(name) = 1 THEN {<< >>} ELSE {}

Targets == {service \in ServiceOf(Message.name) : IF service = << >> THEN hasDefault ELSE service \in services}

Processes ==
  /\ inbound # << >>
  /\ IF Message.type \in {"call", "oneway"} /\ Targets # {}
     THEN \E service \in Targets : HandOn(service)
     ELSE Refuse
  /\ UNCHANGED <<services, hasDefault, called, outcomes>>

\* The generated client takes the first message that comes, without a look at its seqid.
Receive ==
  /\ Pending /\ replied # << >>
  /\ outcomes' = Append(outcomes, Head(replied)) /\ replied' = Tail(replied)
  /\ UNCHANGED <<services, hasDefault, called, inbound, disconnected, dispatched>>

EndOfStream ==
  /\ Pending /\ replied = << >> /\ disconnected
  /\ outcomes' = Append(outcomes, <<"end of file", 0>>)
  /\ UNCHANGED <<services, hasDefault, called, inbound, replied, disconnected, dispatched>>

MultiplexedNext ==
  \/ RegisterDefault
  \/ \E name \in ServiceName : RegisterProcessor(name)
  \/ \E service \in ServiceName \cup {Plain}, type \in Types : Send(service, type)
  \/ Processes \/ Receive \/ EndOfStream

MultiplexedSpec == MultiplexedInit /\ [][MultiplexedNext]_multiplexedVars

-----------------------------------------------------------------------------
MultiplexedTypeOK ==
  /\ services \subseteq ServiceName /\ {hasDefault, disconnected} \subseteq BOOLEAN
  /\ Len(outcomes) <= Len(called) /\ Len(called) <= Len(outcomes) + 1
  /\ Len(dispatched) <= Len(called)

\* The messages reach their processors once and in the order they were written, none left out, each the one
\* of the service it names; the default processor gets only those that name none.  As long as the
\* connection lives, those that have reached none are on their way.
RightProcessor ==
  /\ \A n \in DOMAIN dispatched :
       /\ dispatched[n][1] = n
       /\ IF dispatched[n][2] = << >> THEN called[n].service \in {Plain, << >>}
          ELSE called[n].service = dispatched[n][2]
  /\ ~disconnected => /\ Len(called) = Len(dispatched) + Len(inbound)
                      /\ \A n \in DOMAIN inbound : inbound[n].seqid = Len(dispatched) + n

\* What a call returns as its result is its own, and it has been handed on.  An exception is its own, too, or
\* one that was written for an earlier message that nobody waits for, and that no call has taken before it
\* (protocol_error, 116).  A call that waits is on its way, or its answer is, or the connection has ended.
OwnResults ==
  /\ \A i \in DOMAIN outcomes :
       /\ outcomes[i][1] = "result" => outcomes[i][2] = i /\ i \in DOMAIN dispatched
       /\ outcomes[i][1] = "exception" =>
            /\ outcomes[i][2] <= i
            /\ \A j \in outcomes[i][2] .. i - 1 : called[j].type # "call"
  /\ Pending /\ ~disconnected => \/ \E n \in DOMAIN inbound : inbound[n].seqid = Len(called)
                                 \/ \E n \in DOMAIN replied : replied[n][2] = Len(called)
=============================================================================
