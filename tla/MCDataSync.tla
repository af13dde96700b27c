----------------------------- MODULE MCDataSync -----------------------------
(* Instances of DataSync for TLC.                                          *)
EXTENDS DataSync, TLC

\* Workers are interchangeable (safety runs only).
Symmetry == Permutations(Workers)
=============================================================================
