------------------------- MODULE BacktestRefinement -------------------------
(***************************************************************************)
(* BacktestLifecycle implements BacktestContract: the contract's status is *)
(* the run row, and a run is born once its creating request got that far.  *)
(***************************************************************************)
EXTENDS BacktestLifecycle

BornRuns == {r \in Runs : api[r] \notin {"none", "task", "rejected"}}

Contract == INSTANCE BacktestContract WITH status <- run, born <- BornRuns

\* Every behaviour of the API, the workers, the broker and the reconciler is
\* one the contract allows, and every run ends: a redelivered or retried run
\* never takes back a terminal status, and no run row appears twice.
ImplementsContract == Contract!FairSpec

=============================================================================
