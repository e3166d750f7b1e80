------------------------ MODULE RequestReplyChannel ------------------------
(***************************************************************************)
(* What a transport promises the Thrift client that uses it: bytes put in  *)
(* are kept in order until an exchange, an exchange replaces whatever was  *)
(* left to read by the reply to the first request put in, and bytes come   *)
(* out of that reply once each, in order.                                  *)
(***************************************************************************)
EXTENDS ThriftProcessor

VARIABLES
  pending,  \* bytes put in since the last exchange
  inbox,    \* reply bytes not yet taken
  last      \* bytes the last call returned

channel == <<pending, inbox, last>>

Init == pending = << >> /\ inbox = << >> /\ last = << >>

Reset == pending' = << >> /\ inbox' = << >> /\ last' = << >>

\* Any bytes may be put in, behind those already there.
Put ==
  /\ Len(pending') >= Len(pending)
  /\ SubSeq(pending', 1, Len(pending)) = pending
  /\ last' = << >>
  /\ UNCHANGED inbox

Exchange ==
  /\ Dispatches(pending)
  /\ pending' = << >>
  /\ inbox' = ReplyBytes(pending[1].msg)
  /\ last' = << >>

\* A call that is refused, or that has nothing to do.
Refuse == last' = << >> /\ UNCHANGED <<pending, inbox>>

Get(n) ==
  /\ last' = SubSeq(inbox, 1, n)
  /\ inbox' = SubSeq(inbox, n + 1, Len(inbox))
  /\ UNCHANGED pending

Next == Reset \/ Put \/ Exchange \/ Refuse \/ \E n \in 0..Len(inbox) : Get(n)

Spec == Init /\ [][Next]_channel
=============================================================================
