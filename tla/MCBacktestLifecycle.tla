------------------------ MODULE MCBacktestLifecycle ------------------------
(* Instances of BacktestLifecycle for TLC.                                 *)
EXTENDS BacktestRefinement, TLC

\* Runs, workers and lease ids are interchangeable (safety runs only).
Symmetry == Permutations(Runs) \cup Permutations(Workers) \cup Permutations(LeaseIds)
=============================================================================
