--------------------------- MODULE MCPluginHost ---------------------------
(***************************************************************************)
(* Two directories, one of them empty; two plugins with a service name in  *)
(* common, a second name of one of them, a library without the entry point *)
(* and a file that is no library.                                          *)
(***************************************************************************)
EXTENDS PluginHost

CONSTANTS d1, d2, f1, f2, f2link, f3, f4, l1, l2, l3, l4, sa, sb

MCDir == {d1, d2}
MCFile == {f1, f2, f2link, f3, f4}
MCDirOf == [f \in MCFile |-> d1]
MCSoNamed == {f1, f2, f2link, f3}
MCImageOf == [f \in MCFile |-> CASE f = f1 -> l1 [] f = f3 -> l3 [] f = f4 -> l4
                               [] OTHER -> l2]
MCHasRegister == {l1, l2}
MCService == {sa, sb}

Offer(s, n) == [service |-> s, object |-> n]
MCOffers == [l \in {l1, l2, l3, l4} |->
  CASE l = l1 -> <<Offer(sa, 1)>>
    [] l = l2 -> <<Offer(sa, 1), Offer(sb, 2)>>
    [] OTHER -> << >>]

\* A plugin that registers one processor under both names.
SharedOffers == [l \in {l1, l2, l3, l4} |->
  CASE l = l1 -> <<Offer(sa, 1)>>
    [] l = l2 -> <<Offer(sa, 1), Offer(sb, 1)>>
    [] OTHER -> << >>]
=============================================================================
