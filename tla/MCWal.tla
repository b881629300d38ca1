------------------------------- MODULE MCWal -------------------------------
(***************************************************************************)
(* Values of the constants of Wal for TLC.                                 *)
(***************************************************************************)
EXTENDS Wal

AllFaults == {"open", "torn", "sync"}
=============================================================================
