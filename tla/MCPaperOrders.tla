--------------------------- MODULE MCPaperOrders ---------------------------
(* Instances of PaperOrders for TLC.                                       *)
EXTENDS PaperOrders, TLC

\* Workers are interchangeable (safety runs only).
Symmetry == Permutations(Workers)
=============================================================================
