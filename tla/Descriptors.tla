---------------------------- MODULE Descriptors ----------------------------
(***************************************************************************)
(* The descriptors of a process, as sockets are opened and closed: a table *)
(* says what each of them is an end of.  The system (external) hands out   *)
(* the lowest that is free, and none when all are in use.                  *)
(***************************************************************************)
EXTENDS Integers, FiniteSetsExt

THRIFT_INVALID_SOCKET == 0
Free == <<"free", 0>>

FreeIn(table) == {fd \in DOMAIN table : table[fd] = Free}
Lowest(table) == IF FreeIn(table) = {} THEN THRIFT_INVALID_SOCKET ELSE Min(FreeIn(table))

\* The table once fd has become an end of use, and once some descriptors are closed.
Opened(table, fd, use) == [d \in DOMAIN table |-> IF d = fd THEN use ELSE table[d]]
Closed(table, fds) == [d \in DOMAIN table |-> IF d \in fds THEN Free ELSE table[d]]
=============================================================================
