------------------------- MODULE MCExperimentBatch -------------------------
(* Instances of ExperimentBatch for TLC.                                   *)
EXTENDS ExperimentBatch, TLC

\* Candidates and processes are interchangeable (safety runs only).
Symmetry == Permutations(Candidates) \cup Permutations(Procs)
=============================================================================
