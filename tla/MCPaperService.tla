--------------------------- MODULE MCPaperService ---------------------------
(***************************************************************************)
(* Instances of PaperService for TLC.                                      *)
(***************************************************************************)
EXTENDS PaperService, TLC

\* Ids and strategies are interchangeable in the safety runs.
Symmetry ==
  Permutations(OrderIds) \cup Permutations(PositionIds) \cup Permutations(Strategies)
=============================================================================
