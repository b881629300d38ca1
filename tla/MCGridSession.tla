--------------------------- MODULE MCGridSession ---------------------------
(***************************************************************************)
(* Values of the constants of GridSession for TLC.  One spacing is two     *)
(* lattice units, so a price can also lie between two levels.              *)
(***************************************************************************)
EXTENDS GridSession, TLC

Ids2 == 1..2
Ids3 == 1..3
Ids4 == 1..4
Ids6 == 1..6

(* around a centre of 8: in the gap, and drifted away below the buy level *)
PricesTwo == {5, 8}
(* around 8 and the levels beside it, so that a grid centred at 10 can have *)
(* both of its buys crossed in one pass                                     *)
PricesAll == {6, 8, 10}

CONSTANTS w1, w2
OneWeb == {w1}
TwoWebs == {w1, w2}
(* two webhook requests are alike until they choose their command *)
AnyWeb == Permutations(TwoWebs)

WebEvents == {"cooldown"}
LadderEvents == {"trend", "halt"}
LiveEvents == {"lost", "cancel", "fetch", "trend"}
SessionEvents == {"place", "price", "capital", "trend", "session", "cooldown", "stale"}
=============================================================================
