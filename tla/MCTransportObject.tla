------------------------- MODULE MCTransportObject -------------------------
(***************************************************************************)
(* Two objects that may be constructed with the same computed name.        *)
(***************************************************************************)
EXTENDS TransportObject, TLC

CONSTANTS o1, o2, s1, s2, s3

MCObj == {o1, o2}
MCStr == {s1, s2, s3}

Interchangeable == Permutations(MCObj) \cup Permutations(MCStr)
=============================================================================
