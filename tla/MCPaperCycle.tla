---------------------------- MODULE MCPaperCycle ----------------------------
(* Instances of PaperCycle for TLC.                                        *)
EXTENDS PaperCycle, TLC

Symmetry == Permutations(Workers) \cup Permutations(Deployments)

=============================================================================
