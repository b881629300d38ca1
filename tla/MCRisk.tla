------------------------------ MODULE MCRisk ------------------------------
(* Values of the constants of Risk for TLC. *)
EXTENDS Risk

MCPnLs == {-30, 20}
MCTiers ==
    << RiskTier("PROBATION",    0,  0, -10,  0,  0, 0,  50,  5, 10),
       RiskTier("CONSERVATIVE", 2,  8,   0, 30,  0, 0,  65,  7, 15),
       RiskTier("STANDARD",     2, 14,   5, 50, 60, 2, 100, 12, 20) >>
MCOrder == <<"STANDARD", "CONSERVATIVE">>

(* the hypothesis of the theorem TiersAreDeserved *)
ASSUME MCOrdered == Ordered
=============================================================================
