--------------------------- MODULE MCPaperAccount ---------------------------
(* Model values and small sets for TLC. *)
EXTENDS PaperAccount, TLC

MCPrices == {90, 110}
MCQuantities == {1}
MCLeverages == {1, 2}
MCFundingRates == {-1, 1}
MCSymmetry == Permutations(Strategies)
=============================================================================
