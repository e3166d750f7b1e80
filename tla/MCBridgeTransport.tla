------------------------- MODULE MCBridgeTransport -------------------------
(* A small instance: two-byte messages, one of each kind. *)
EXTENDS BridgeTransport

CONSTANTS c1, c2, a, absent

MCCall == {c1, c2}
MCService == {a, absent}
MCRegistered == {a}

Msg(c, k) == [call |-> c, kind |-> k]
\* One message of each kind, and the halves of two of them.
Sent == {Msg(c1, "call"), Msg(c2, "throws"), Msg(c1, "oneway"), Msg(c2, "unknown"),
         Msg(c1, "reject")}
MCChunk == {RequestBytes(m) : m \in Sent} \cup
           {SubSeq(RequestBytes(Msg(c1, "call")), 1, 1),
            SubSeq(RequestBytes(Msg(c2, "throws")), 2, 2)}
=============================================================================
