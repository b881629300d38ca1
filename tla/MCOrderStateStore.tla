------------------------- MODULE MCOrderStateStore -------------------------
(* Instances of OrderStateStore for TLC. *)
EXTENDS OrderStateStore

CONSTANTS o1, o2, loop, w1, k1

Orders2 == {o1, o2}
Commands == {w1}
Prunes == {k1}
AllFaults == {"query", "save", "append", "crash"}
=============================================================================
