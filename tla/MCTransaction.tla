--------------------------- MODULE MCTransaction ---------------------------
(***************************************************************************)
(* Values of the constants of Transaction for TLC: the middle operation    *)
(* cannot be undone.                                                        *)
(***************************************************************************)
EXTENDS Transaction

FirstAndLast == {1, N}
=============================================================================
