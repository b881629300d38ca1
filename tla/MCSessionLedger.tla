-------------------------- MODULE MCSessionLedger --------------------------
(* SessionLedger for TLC: two prices, so that a trade gains or loses, and   *)
(* two sizes, so that a fill closes a lot in part, whole, or with a rest.   *)
EXTENDS SessionLedger

TwoPrices == {2, 3}
TwoAmounts == {1, 2}
=============================================================================
