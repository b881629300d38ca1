----------------------------- MODULE Inventory -----------------------------
(***************************************************************************)
(* What the lots of a grid session promise: an inventory of single units,  *)
(* all long or all short, closed first in, first out, and a profit that is *)
(* the sum over the closed units of exit against entry price.              *)
(***************************************************************************)
EXTENDS Integers, Sequences

CONSTANTS
    Prices,  \* of the units
    Sizes    \* how many units can be opened at once

VARIABLES
    side,    \* "long", "short", or "flat" when there are no units
    units,   \* entry prices, oldest first
    profit   \* of the units closed in this session

vars == <<side, units, profit>>

Sides == {"long", "short"}

Init == side = "flat" /\ units = <<>> /\ profit = 0

Open(s, p, n) ==
    /\ side \in {s, "flat"}
    /\ side' = s
    /\ units' = units \o [i \in 1..n |-> p]
    /\ UNCHANGED profit

(* the k oldest units leave *)
Leave(k) ==
    /\ units' = SubSeq(units, k + 1, Len(units))
    /\ side' = IF k = Len(units) THEN "flat" ELSE side

(* what the k oldest units earn when they are closed at p *)
Gain(p, k) ==
    LET sum[i \in 0..k] ==
            IF i = 0 THEN 0
            ELSE sum[i - 1] + (IF side = "long" THEN p - units[i] ELSE units[i] - p)
    IN  sum[k]

Close(p, k) == Leave(k) /\ profit' = profit + Gain(p, k)

(* the k oldest units are written off *)
Forget(k) == Leave(k) /\ UNCHANGED profit

(* a flat inventory starts a new session; a crash loses everything *)
Restart == units' = <<>> /\ side' = "flat" /\ profit' = 0

Next ==
    \/ \E s \in Sides, p \in Prices, n \in Sizes : Open(s, p, n)
    \/ \E p \in Prices, k \in 1..Len(units) : Close(p, k)
    \/ \E k \in 1..Len(units) : Forget(k)
    \/ Restart

Spec == Init /\ [][Next]_vars
=============================================================================
