--------------------------- MODULE MCExitEngine ---------------------------
(* Prices on both sides of every threshold of the default strategy.        *)
EXTENDS ExitEngine

MCMoves == {-600, -260, 0, 135, 330}
MCATRs == {60, 200}
=============================================================================
