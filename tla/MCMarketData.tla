---------------------------- MODULE MCMarketData ----------------------------
(***************************************************************************)
(* Values of the constants of MarketData for TLC.                          *)
(***************************************************************************)
EXTENDS MarketData, TLC

TaskSymmetry == Permutations(Tasks)
=============================================================================
