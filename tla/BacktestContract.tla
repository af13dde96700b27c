-------------------------- MODULE BacktestContract --------------------------
(***************************************************************************)
(* What a backtest promises the code that asks for it (experiment batches, *)
(* Paper cycles, the Web UI): a run is created once, is active for a while,*)
(* ends in one terminal status, keeps it until its history is deleted, and *)
(* is never created a second time.                                         *)
(***************************************************************************)
CONSTANT Runs

VARIABLES
  status,  \* backtest_runs.status, "absent" when there is no row
  born     \* the runs that have been created

vars == <<status, born>>

Active == {"created", "queued", "running"}
Terminal == {"success", "failed", "cancelled"}

TypeOK == status \in [Runs -> Active \cup Terminal \cup {"absent"}] /\ born \subseteq Runs

Init ==
  /\ status = [r \in Runs |-> "absent"]
  /\ born = {}

\* create_backtest_job, or create_failed_backtest_job for a rejected request.
Create(r, s) ==
  /\ r \in Runs \ born
  /\ s \in {"created", "failed"}
  /\ status' = [status EXCEPT ![r] = s]
  /\ born' = born \cup {r}

\* An active run is published, waits for a slot, or is executed.
Progress(r, s) ==
  /\ r \in Runs
  /\ status[r] \in Active
  /\ s \in {"queued", "running"}
  /\ status' = [status EXCEPT ![r] = s]
  /\ UNCHANGED born

End(r, s) ==
  /\ r \in Runs
  /\ status[r] \in Active
  /\ s \in Terminal
  /\ status' = [status EXCEPT ![r] = s]
  /\ UNCHANGED born

Delete(r) ==
  /\ r \in Runs
  /\ status[r] \in Terminal
  /\ status' = [status EXCEPT ![r] = "absent"]
  /\ UNCHANGED born

Next ==
  \E r \in Runs :
    \/ \E s \in {"created", "failed"} : Create(r, s)
    \/ \E s \in {"queued", "running"} : Progress(r, s)
    \/ \E s \in Terminal : End(r, s)
    \/ Delete(r)

\* Every run ends.
Spec == Init /\ [][Next]_vars
FairSpec == Spec /\ \A r \in Runs : WF_vars(\E s \in Terminal : End(r, s))

=============================================================================
