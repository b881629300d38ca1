--------------------------- MODULE MCPositions ---------------------------
(* Entries of two parts, so that one can be closed before the other.      *)
EXTENDS Positions
=============================================================================
