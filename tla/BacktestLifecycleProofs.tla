---------------------- MODULE BacktestLifecycleProofs ----------------------
(***************************************************************************)
(* Theorems about BacktestLifecycle, for every set of runs, workers and    *)
(* lease ids, every limit, both databases and every set of faults.         *)
(***************************************************************************)
EXTENDS BacktestLifecycle, TLAPS

USE DEF ACTIVE_STATUSES, TERMINAL_STATUSES, Statuses, CREATED, QUEUED, RUNNING,
        SUCCESS, FAILED, CANCELLED, Absent, envVars

----------------------------------------------------------------------------
(* Type correctness.  TypeOK is not inductive by itself: AcquireNew writes  *)
(* the worker's run into the lease table and ReplayTask writes the status   *)
(* the guard has read, so both must be known to be in range.                *)

WorkerHasJob == \A w \in Workers : pc[w] # "idle" => job[w] \in Runs
ReplayHasStatus == \A w \in Workers : pc[w] = "replay" => out[w] \in TERMINAL_STATUSES

LocalInv == TypeOK /\ WorkerHasJob /\ ReplayHasStatus

\* A row update keeps the status column in range.
LEMMA WrittenType ==
  ASSUME NEW rows \in [Runs -> Statuses], NEW r, NEW s \in Statuses
  PROVE  Written(rows, r, s) \in [Runs -> Statuses]
BY DEF Written

\* Purging keeps the lease table in range.
LEMMA PurgedType ==
  ASSUME lease \in [Slots -> LeaseRows \cup {NoLease}]
  PROVE  PurgedLeases \in [Slots -> LeaseRows \cup {NoLease}]
BY DEF PurgedLeases

\* A worker that has finished its message is a well-formed idle worker.
WorkersTyped ==
  /\ pc \in [Workers -> WorkerPcs]
  /\ job \in [Workers -> Runs \cup {NoRun}]
  /\ held \in [Workers -> LeaseIds \cup {NoLease}]
  /\ out \in [Workers -> Outcomes \cup TERMINAL_STATUSES \cup {"none"}]
  /\ owns \in [Workers -> BOOLEAN]

\* Finish leaves such a worker behind.
LEMMA FinishLocal ==
  ASSUME LocalInv, NEW w \in Workers, Finish(w)
  PROVE  WorkersTyped' /\ WorkerHasJob' /\ ReplayHasStatus'
BY DEF LocalInv, TypeOK, Finish, WorkersTyped, WorkerHasJob, ReplayHasStatus, WorkerPcs

\* The initial state is in range.
LEMMA LocalInit == Init => LocalInv
BY DEF Init, LocalInv, TypeOK, WorkerHasJob, ReplayHasStatus, Slots, LeaseRows, ApiPcs,
   CancelPcs, WorkerPcs, Outcomes

\* The steps of the API requests, of the broker, of beat and of the user leave
\* the workers alone.
LEMMA LocalRunStep ==
  ASSUME LocalInv, NEW r \in Runs,
         \/ ApiStep(r) \/ ApiCrash(r) \/ CancelRead(r) \/ CancelStep(r) \/ CancelCrash(r)
         \/ DiscardRevoked(r) \/ Reconcile(r) \/ DeleteBacktest(r) \/ delete_task(r)
  PROVE  LocalInv'
<1> USE DEF LocalInv, TypeOK, WorkerHasJob, ReplayHasStatus, rowVars, brokerVars,
        clientVars, localVars, workerVars
<1>1. CASE CreateTask(r) \/ CreateRun(r) \/ CreateFailedTask(r) \/ CreateFailedRun(r)
  BY <1>1 DEF CreateTask, CreateRun, CreateFailedTask, CreateFailedRun, ApiPcs
<1>2. CASE Publish(r) \/ ApiCrash(r)
  BY <1>2 DEF Publish, ApiCrash, ApiPcs
<1>3. CASE PublishFails(r)
  BY <1>3, WrittenType DEF PublishFails, update_task, ApiPcs
<1>4. CASE MarkTaskQueued(r)
  BY <1>4, WrittenType DEF MarkTaskQueued, update_task, ApiPcs
<1>5. CASE mark_backtest_queued(r)
  BY <1>5, WrittenType DEF mark_backtest_queued, update_backtest, ApiPcs
<1>13. CASE fail_backtest_queue(r)
  BY <1>13, WrittenType DEF fail_backtest_queue, update_backtest, ApiPcs
<1>6. CASE CancelRead(r) \/ CancelRevokeFails(r) \/ CancelCrash(r)
  BY <1>6 DEF CancelRead, CancelRevokeFails, CancelCrash, CancelPcs
<1>7. CASE CancelTaskRow(r)
  BY <1>7, WrittenType DEF CancelTaskRow, update_task, CancelPcs
<1>8. CASE CancelRunRow(r)
  BY <1>8, WrittenType DEF CancelRunRow, update_backtest, CancelPcs
<1>9. CASE DiscardRevoked(r)
  BY <1>9 DEF DiscardRevoked
<1>10. CASE Reconcile(r)
  BY <1>10, WrittenType DEF Reconcile, ReconciledStatus, update_backtest
<1>11. CASE DeleteBacktest(r)
  BY <1>11 DEF DeleteBacktest
<1>12. CASE delete_task(r)
  BY <1>12 DEF delete_task
<1> QED
  BY <1>1, <1>2, <1>3, <1>4, <1>5, <1>6, <1>7, <1>8, <1>9, <1>10, <1>11, <1>12, <1>13
     DEF ApiStep, CancelStep

\* So does every step of a worker.
LEMMA LocalWorkerStep ==
  ASSUME LocalInv, NEW w \in Workers, WorkerStep(w)
  PROVE  LocalInv'
<1> USE DEF LocalInv, TypeOK, WorkerHasJob, ReplayHasStatus, rowVars, brokerVars,
        clientVars, localVars, workerVars, WorkerPcs, Goto, Finish
<1>1. CASE Deliver(w)
  <2>1. CASE ~ is_terminal(run[job[w]])
    BY <1>1, <2>1 DEF Deliver, EntryPcs
  <2>2. CASE is_terminal(run[job[w]]) /\ task[job[w]] \notin {run[job[w]], Absent}
    BY <1>1, <2>2 DEF Deliver, is_terminal, GuardPcs
  <2>3. CASE is_terminal(run[job[w]]) /\ task[job[w]] \in {run[job[w]], Absent}
    BY <1>1, <2>3, FinishLocal DEF Deliver, WorkersTyped
  <2> QED
    BY <2>1, <2>2, <2>3
<1>2. CASE ReplayTask(w)
  BY <1>2, WrittenType DEF ReplayTask, update_task
<1>3. CASE Start(w)
  <2>1. CASE task[job[w]] = Absent
    BY <1>3, <2>1, FinishLocal DEF Start, WorkersTyped
  <2>2. CASE task[job[w]] # Absent
    <3>1. pc' \in [Workers -> WorkerPcs] /\ \A v \in Workers : pc'[v] # "idle" => job[v] \in Runs
      BY <1>3, <2>2 DEF Start, EntryPcs
    <3>2. \A v \in Workers : pc'[v] = "replay" => out[v] \in TERMINAL_STATUSES
      BY <1>3, <2>2 DEF Start, EntryPcs
    <3> QED
      BY <1>3, <2>2, <3>1, <3>2 DEF Start
  <2> QED
    BY <2>1, <2>2
<1>4. CASE CancelEarly(w)
  BY <1>4, WrittenType DEF CancelEarly, update_task
<1>5. CASE ProjectRejected(w) \/ AcquireRaises(w)
  BY <1>5, FinishLocal DEF ProjectRejected, AcquireRaises, WorkersTyped
<1>6. CASE AcquireExisting(w)
  BY <1>6, PurgedType DEF AcquireExisting, HolderSlots, LeaseRows, LeasePcs
<1>7. CASE AcquireNew(w)
  <2>1. job[w] \in Runs
    BY <1>7 DEF AcquireNew
  <2>2. PICK id \in LeaseIds : /\ held' = [held EXCEPT ![w] = id]
                               /\ lease' = [PurgedLeases EXCEPT ![FirstFree(PurgedLeases)] =
                                              [id |-> id, holder |-> job[w], fresh |-> TRUE]]
    BY <1>7 DEF AcquireNew
  <2>3. [id |-> id, holder |-> job[w], fresh |-> TRUE] \in LeaseRows
    BY <2>1 DEF LeaseRows
  <2>4. lease' \in [Slots -> LeaseRows \cup {NoLease}]
    BY <2>2, <2>3, PurgedType
  <2> QED
    BY <1>7, <2>2, <2>4 DEF AcquireNew, LeasePcs
<1>8. CASE AcquireNone(w)
  BY <1>8, PurgedType DEF AcquireNone, EntryPcs
<1>9. CASE NoSlotTask(w)
  BY <1>9, WrittenType DEF NoSlotTask, update_task, EntryPcs
<1>21. CASE MarkTask(w)
  BY <1>21, WrittenType DEF MarkTask, update_task, LeasePcs
<1>10. CASE NoSlotRun(w)
  BY <1>10, WrittenType DEF NoSlotRun, update_backtest
<1>11. CASE MarkRun(w)
  BY <1>11, WrittenType DEF MarkRun, update_backtest, LeasePcs
<1>12. CASE SaveOutputs(w)
  BY <1>12, WrittenType DEF SaveOutputs, update_backtest, LeasePcs
<1>13. CASE Execute(w)
  BY <1>13 DEF Execute, LeasePcs
<1>14. CASE Reread(w) \/ Except(w)
  BY <1>14 DEF Reread, Except, LeasePcs
<1>15. CASE CancelTask(w)
  BY <1>15, WrittenType DEF CancelTask, update_task, LeasePcs
<1>22. CASE FailTask(w)
  BY <1>22, WrittenType DEF FailTask, update_task, LeasePcs
<1>16. CASE Persist(w)
  <2>1. result' \in [Runs -> BOOLEAN]
    BY <1>16 DEF Persist
  <2>2. pc' \in [Workers -> WorkerPcs] /\ \A v \in Workers : pc'[v] # "idle" => job[v] \in Runs
    BY <1>16 DEF Persist, LeasePcs
  <2>3. \A v \in Workers : pc'[v] = "replay" => out[v] \in TERMINAL_STATUSES
    BY <1>16 DEF Persist, LeasePcs
  <2> QED
    BY <1>16, <2>1, <2>2, <2>3 DEF Persist
<1>17. CASE Certify(w)
  <2>1. cert' \in [Runs -> BOOLEAN]
    BY <1>17 DEF Certify
  <2>2. pc' \in [Workers -> WorkerPcs] /\ \A v \in Workers : pc'[v] # "idle" => job[v] \in Runs
    BY <1>17 DEF Certify, LeasePcs
  <2>3. \A v \in Workers : pc'[v] = "replay" => out[v] \in TERMINAL_STATUSES
    BY <1>17 DEF Certify, LeasePcs
  <2> QED
    BY <1>17, <2>1, <2>2, <2>3 DEF Certify
<1>18. CASE FinalizeRun(w) \/ FailRun(w)
  BY <1>18, WrittenType DEF FinalizeRun, FailRun, FinalStatus, FinalTrust, SetTrust,
     update_backtest, LeasePcs
<1>19. CASE FinalizeTask(w)
  BY <1>19, WrittenType DEF FinalizeTask, FinalStatus, update_task, LeasePcs
<1>20. CASE Finally(w)
  BY <1>20 DEF Finally
<1> QED
  BY <1>1, <1>2, <1>3, <1>4, <1>5, <1>6, <1>7, <1>8, <1>9, <1>10, <1>11, <1>12, <1>13,
     <1>14, <1>15, <1>16, <1>17, <1>18, <1>19, <1>20, <1>21, <1>22 DEF WorkerStep

\* LocalInv is inductive.
LEMMA LocalStep == LocalInv /\ [Next]_vars => LocalInv'
<1> SUFFICES ASSUME LocalInv, [Next]_vars PROVE LocalInv'
  OBVIOUS
<1>1. CASE UNCHANGED vars
  BY <1>1 DEF vars, LocalInv, TypeOK, WorkerHasJob, ReplayHasStatus
<1>2. ASSUME NEW w \in Workers, NEW r \in Runs, Receive(w, r) PROVE LocalInv'
  BY <1>2 DEF Receive, LocalInv, TypeOK, WorkerHasJob, ReplayHasStatus, rowVars,
     clientVars, Goto, WorkerPcs, GuardPcs
<1>3. ASSUME NEW w \in Workers, Crash(w) PROVE LocalInv'
  <2>1. queue' \in [Runs -> Nat]
    <3>1. job[w] \in Runs /\ queue \in [Runs -> Nat]
      BY <1>3 DEF Crash, LocalInv, TypeOK, WorkerHasJob
    <3>2. queue' = queue \/ queue' = [queue EXCEPT ![job[w]] = queue[job[w]] + 1]
      BY <1>3 DEF Crash
    <3> QED
      BY <3>1, <3>2
  <2> QED
    <3>1. WorkersTyped' /\ WorkerHasJob' /\ ReplayHasStatus'
      BY <1>3, FinishLocal DEF Crash
    <3>2. crashes' \in Nat
      BY <1>3 DEF Crash, LocalInv, TypeOK
    <3>3. UNCHANGED <<rowVars, clientVars, lease, revoked, database>>
      BY <1>3 DEF Crash
    <3> QED
      BY <2>1, <3>1, <3>2, <3>3 DEF LocalInv, TypeOK, WorkersTyped, rowVars, clientVars
<1>6. ASSUME NEW w \in Workers, Terminate(w) PROVE LocalInv'
  BY <1>6, FinishLocal DEF Terminate, LocalInv, TypeOK, WorkersTyped, rowVars, clientVars,
     brokerVars
<1>4. ASSUME NEW w \in Workers, Redeliver(w) PROVE LocalInv'
  BY <1>4 DEF Redeliver, LocalInv, TypeOK, WorkerHasJob, ReplayHasStatus, rowVars,
     clientVars, localVars
<1>5. ASSUME NEW s \in Slots, Expire(s) PROVE LocalInv'
  <2>1. lease' \in [Slots -> LeaseRows \cup {NoLease}]
    <3>1. lease[s] \in LeaseRows
      BY <1>5 DEF Expire, LocalInv, TypeOK
    <3>2. [lease[s] EXCEPT !.fresh = FALSE] \in LeaseRows
      BY <3>1 DEF LeaseRows
    <3> QED
      BY <1>5, <3>2 DEF Expire, LocalInv, TypeOK
  <2> QED
    BY <1>5, <2>1 DEF Expire, LocalInv, TypeOK, WorkerHasJob, ReplayHasStatus, rowVars,
       clientVars, brokerVars, workerVars
<1> QED
  BY <1>1, <1>2, <1>3, <1>4, <1>5, <1>6, LocalRunStep, LocalWorkerStep DEF Next

\* Every column, message counter and local variable of the backtest code stays
\* in the range its readers expect, in particular the statuses every writer of
\* the two rows leaves behind.
THEOREM TypeCorrect == Spec => []TypeOK
<1>1. LocalInv => TypeOK
  BY DEF LocalInv
<1> QED
  BY LocalInit, LocalStep, <1>1, PTL DEF Spec

----------------------------------------------------------------------------
(* What any step of run_backtest_task may touch: the worker's own control   *)
(* state and the rows and message of its own run.  A missing run row stays  *)
(* missing and a persisted result stays persisted.                          *)

WorkerEffect(w) ==
  /\ api' = api /\ cancel' = cancel
  /\ pc[w] # "idle"
  /\ \A v \in Workers \ {w} : pc'[v] = pc[v] /\ out'[v] = out[v]
  /\ \/ job' = job
     \/ job' = [job EXCEPT ![w] = NoRun] /\ pc'[w] = "idle"
  /\ \A r \in Runs \ {job[w]} :
        run'[r] = run[r] /\ result'[r] = result[r] /\ queue'[r] = queue[r]
  /\ run'[job[w]] = Absent <=> run[job[w]] = Absent
  /\ result[job[w]] => result'[job[w]]

\* update_backtest changes one row, and only if it is there.
RunWritten(j, s) ==
  /\ \A r \in Runs \ {j} : run'[r] = run[r]
  /\ run'[j] = IF run[j] = Absent THEN Absent ELSE s

\* The helper in these terms.
LEMMA UpdateBacktest ==
  ASSUME run \in [Runs -> Statuses], NEW j \in Runs, NEW s, update_backtest(j, s)
  PROVE  RunWritten(j, s)
BY DEF update_backtest, Written, RunWritten

\* Every step of a worker has this effect.
LEMMA WorkerFrame ==
  ASSUME LocalInv, NEW w \in Workers, WorkerStep(w)
  PROVE  WorkerEffect(w)
<1> USE DEF LocalInv, TypeOK, WorkerHasJob, rowVars, brokerVars, clientVars, localVars,
        WorkerEffect, Goto, Finish
<1>0. pc[w] # "idle" /\ job[w] \in Runs
  BY DEF WorkerStep, Deliver, ReplayTask, Start, CancelEarly, ProjectRejected,
     AcquireExisting, AcquireNew, AcquireNone, AcquireRaises, NoSlotTask, NoSlotRun,
     MarkTask, MarkRun, Execute, Reread, CancelTask, SaveOutputs, Persist, Certify,
     FinalizeRun, FinalizeTask, Except, FailRun, FailTask, Finally
<1>1. CASE Deliver(w)
  BY <1>0, <1>1 DEF Deliver
<1>2. CASE ReplayTask(w) \/ CancelEarly(w)
  BY <1>0, <1>2 DEF ReplayTask, CancelEarly
<1>3. CASE Start(w)
  BY <1>0, <1>3 DEF Start
<1>4. CASE ProjectRejected(w) \/ AcquireRaises(w) \/ Finally(w)
  BY <1>0, <1>4 DEF ProjectRejected, AcquireRaises, Finally
<1>5. CASE AcquireExisting(w) \/ AcquireNew(w) \/ AcquireNone(w)
  BY <1>0, <1>5 DEF AcquireExisting, AcquireNew, AcquireNone
<1>6. CASE NoSlotTask(w) \/ MarkTask(w) \/ CancelTask(w) \/ FinalizeTask(w) \/ FailTask(w)
  BY <1>0, <1>6 DEF NoSlotTask, MarkTask, CancelTask, FinalizeTask, FailTask
<1>7. CASE NoSlotRun(w)
  <2>1. RunWritten(job[w], QUEUED)
    BY <1>0, <1>7, UpdateBacktest DEF NoSlotRun
  <2> QED
    BY <1>0, <1>7, <2>1 DEF NoSlotRun, RunWritten
<1>8. CASE MarkRun(w)
  <2>1. RunWritten(job[w], RUNNING)
    BY <1>0, <1>8, UpdateBacktest DEF MarkRun
  <2> QED
    BY <1>0, <1>8, <2>1 DEF MarkRun, RunWritten
<1>9. CASE SaveOutputs(w)
  <2>1. RunWritten(job[w], RUNNING)
    BY <1>0, <1>9, UpdateBacktest DEF SaveOutputs
  <2> QED
    BY <1>0, <1>9, <2>1 DEF SaveOutputs, RunWritten
<1>10. CASE FinalizeRun(w)
  <2>1. RunWritten(job[w], FinalStatus(out[w]))
    BY <1>0, <1>10, UpdateBacktest DEF FinalizeRun
  <2> QED
    BY <1>0, <1>10, <2>1 DEF FinalizeRun, FinalStatus, RunWritten
<1>11. CASE FailRun(w)
  <2>1. RunWritten(job[w], FAILED)
    BY <1>0, <1>11, UpdateBacktest DEF FailRun
  <2> QED
    BY <1>0, <1>11, <2>1 DEF FailRun, RunWritten
<1>12. CASE Execute(w)
  BY <1>0, <1>12 DEF Execute
<1>13. CASE Reread(w) \/ Except(w)
  BY <1>0, <1>13 DEF Reread, Except
<1>14. CASE Persist(w)
  <2>1. /\ result' \in {result, [result EXCEPT ![job[w]] = TRUE]}
        /\ UNCHANGED <<run, queue, api, cancel, out, job>>
    BY <1>14 DEF Persist
  <2>2. \A v \in Workers \ {w} : pc'[v] = pc[v]
    BY <1>14 DEF Persist
  <2> QED
    BY <1>0, <2>1, <2>2
<1>15. CASE Certify(w)
  <2>1. UNCHANGED <<run, result, queue, api, cancel, out, job>>
    BY <1>15 DEF Certify
  <2>2. \A v \in Workers \ {w} : pc'[v] = pc[v]
    BY <1>15 DEF Certify
  <2> QED
    BY <1>0, <2>1, <2>2
<1> QED
  BY <1>1, <1>2, <1>3, <1>4, <1>5, <1>6, <1>7, <1>8, <1>9, <1>10, <1>11, <1>12, <1>13,
     <1>14, <1>15 DEF WorkerStep

----------------------------------------------------------------------------
(* The readiness contract.  SuccessHasResult alone is not inductive: the    *)
(* worker that is about to write "success" must already have persisted the  *)
(* result (PersistedFirst), deleting the run in between must leave no row    *)
(* for it to write, and no row may be created under its feet, because a     *)
(* run with a message or a worker was created before (DispatchedRun,        *)
(* UnbornRun).                                                              *)

Unborn == {"none", "task", "rejected"}

DispatchedRun ==
  \A r \in Runs : queue[r] > 0 \/ (\E w \in Workers : job[w] = r) => api[r] \notin Unborn

UnbornRun == \A r \in Runs : api[r] \in Unborn => run[r] = Absent

PersistedFirst ==
  \A w \in Workers : pc[w] \in {"certify", "finalizeRun"} /\ out[w] = "success"
                       => result[job[w]] \/ run[job[w]] = Absent

ReadyInv == LocalInv /\ DispatchedRun /\ UnbornRun /\ PersistedFirst /\ SuccessHasResult

\* At first there is neither a run nor a result.
LEMMA ReadyInit == Init => ReadyInv
BY LocalInit, NoRunAssumption
   DEF Init, ReadyInv, DispatchedRun, UnbornRun, PersistedFirst, SuccessHasResult

\* The requests, the reconciler and the deletions keep the contract.
LEMMA ReadyRunStep ==
  ASSUME ReadyInv, NEW r \in Runs,
         \/ ApiStep(r) \/ ApiCrash(r) \/ CancelRead(r) \/ CancelStep(r) \/ CancelCrash(r)
         \/ DiscardRevoked(r) \/ Reconcile(r) \/ DeleteBacktest(r) \/ delete_task(r)
  PROVE  (DispatchedRun /\ UnbornRun /\ PersistedFirst /\ SuccessHasResult)'
<1> USE DEF ReadyInv, LocalInv, TypeOK, WorkerHasJob, DispatchedRun, UnbornRun, Unborn,
        PersistedFirst, SuccessHasResult, rowVars, brokerVars, clientVars, workerVars
<1>1. CASE CreateTask(r) \/ CreateFailedTask(r)
  BY <1>1 DEF CreateTask, CreateFailedTask
<1>2. CASE CreateRun(r) \/ CreateFailedRun(r)
  <2>1. \A w \in Workers : job[w] # r
    BY <1>2 DEF CreateRun, CreateFailedRun
  <2> QED
    BY <1>2, <2>1 DEF CreateRun, CreateFailedRun
<1>3. CASE Publish(r) \/ ApiCrash(r)
  BY <1>3 DEF Publish, ApiCrash
<1>4. CASE PublishFails(r) \/ MarkTaskQueued(r)
  BY <1>4 DEF PublishFails, MarkTaskQueued
<1>5. CASE mark_backtest_queued(r)
  <2>1. RunWritten(r, QUEUED)
    BY <1>5, UpdateBacktest DEF mark_backtest_queued
  <2> QED
    BY <1>5, <2>1 DEF mark_backtest_queued, RunWritten
<1>6. CASE fail_backtest_queue(r)
  <2>1. RunWritten(r, FAILED)
    BY <1>6, UpdateBacktest DEF fail_backtest_queue
  <2> QED
    BY <1>6, <2>1 DEF fail_backtest_queue, RunWritten
<1>7. CASE CancelRead(r) \/ CancelRevokeFails(r) \/ CancelCrash(r) \/ CancelTaskRow(r)
  BY <1>7 DEF CancelRead, CancelRevokeFails, CancelCrash, CancelTaskRow
<1>8. CASE CancelRunRow(r)
  <2>1. RunWritten(r, CANCELLED)
    BY <1>8, UpdateBacktest DEF CancelRunRow
  <2> QED
    BY <1>8, <2>1 DEF CancelRunRow, RunWritten
<1>9. CASE DiscardRevoked(r) \/ delete_task(r)
  BY <1>9 DEF DiscardRevoked, delete_task
<1>10. CASE Reconcile(r)
  <2>1. RunWritten(r, ReconciledStatus(r))
    BY <1>10, UpdateBacktest DEF Reconcile
  <2> QED
    BY <1>10, <2>1 DEF Reconcile, ReconciledStatus, RunWritten
<1>11. CASE DeleteBacktest(r)
  BY <1>11 DEF DeleteBacktest
<1> QED
  BY <1>1, <1>2, <1>3, <1>4, <1>5, <1>6, <1>7, <1>8, <1>9, <1>10, <1>11
     DEF ApiStep, CancelStep

\* Only Persist leads to the writes of "success", and it stores the result.
LEMMA OwnRunReady ==
  ASSUME ReadyInv, NEW w \in Workers, WorkerStep(w)
  PROVE  /\ pc'[w] \in {"certify", "finalizeRun"} /\ out'[w] = "success"
              => result'[job[w]] \/ run[job[w]] = Absent
         /\ run'[job[w]] = SUCCESS => result'[job[w]]
<1> USE DEF ReadyInv, LocalInv, TypeOK, WorkerHasJob, PersistedFirst, SuccessHasResult,
        rowVars, brokerVars, clientVars, localVars, Goto, Finish
<1>0. pc[w] # "idle" /\ job[w] \in Runs
  BY WorkerFrame DEF WorkerEffect
<1>1. CASE Deliver(w)
  BY <1>0, <1>1 DEF Deliver
<1>2. CASE ReplayTask(w) \/ CancelEarly(w)
  BY <1>0, <1>2 DEF ReplayTask, CancelEarly
<1>3. CASE Start(w)
  BY <1>0, <1>3 DEF Start
<1>4. CASE ProjectRejected(w) \/ AcquireRaises(w) \/ Finally(w)
  BY <1>0, <1>4 DEF ProjectRejected, AcquireRaises, Finally
<1>5. CASE AcquireExisting(w) \/ AcquireNew(w) \/ AcquireNone(w)
  BY <1>0, <1>5 DEF AcquireExisting, AcquireNew, AcquireNone
<1>6. CASE NoSlotTask(w) \/ MarkTask(w) \/ CancelTask(w) \/ FinalizeTask(w) \/ FailTask(w)
  BY <1>0, <1>6 DEF NoSlotTask, MarkTask, CancelTask, FinalizeTask, FailTask
<1>7. CASE NoSlotRun(w)
  <2>1. RunWritten(job[w], QUEUED)
    BY <1>0, <1>7, UpdateBacktest DEF NoSlotRun
  <2> QED
    BY <1>0, <1>7, <2>1 DEF NoSlotRun, RunWritten
<1>8. CASE MarkRun(w)
  <2>1. RunWritten(job[w], RUNNING)
    BY <1>0, <1>8, UpdateBacktest DEF MarkRun
  <2> QED
    BY <1>0, <1>8, <2>1 DEF MarkRun, RunWritten
<1>9. CASE SaveOutputs(w)
  <2>1. RunWritten(job[w], RUNNING)
    BY <1>0, <1>9, UpdateBacktest DEF SaveOutputs
  <2> QED
    BY <1>0, <1>9, <2>1 DEF SaveOutputs, RunWritten
<1>10. CASE FinalizeRun(w)
  <2>1. RunWritten(job[w], FinalStatus(out[w]))
    BY <1>0, <1>10, UpdateBacktest DEF FinalizeRun
  <2> QED
    BY <1>0, <1>10, <2>1 DEF FinalizeRun, FinalStatus, RunWritten
<1>11. CASE FailRun(w)
  <2>1. RunWritten(job[w], FAILED)
    BY <1>0, <1>11, UpdateBacktest DEF FailRun
  <2> QED
    BY <1>0, <1>11, <2>1 DEF FailRun, RunWritten
<1>12. CASE Execute(w)
  BY <1>0, <1>12 DEF Execute
<1>13. CASE Reread(w) \/ Except(w)
  BY <1>0, <1>13 DEF Reread, Except
<1>14. CASE Persist(w)
  BY <1>0, <1>14 DEF Persist
<1>15. CASE Certify(w)
  BY <1>0, <1>15 DEF Certify
<1> QED
  BY <1>1, <1>2, <1>3, <1>4, <1>5, <1>6, <1>7, <1>8, <1>9, <1>10, <1>11, <1>12, <1>13,
     <1>14, <1>15 DEF WorkerStep

\* The workers keep it.
LEMMA ReadyWorkerStep ==
  ASSUME ReadyInv, NEW w \in Workers, WorkerStep(w)
  PROVE  (DispatchedRun /\ UnbornRun /\ PersistedFirst /\ SuccessHasResult)'
<1> USE DEF ReadyInv, LocalInv, TypeOK, WorkerHasJob
<1>1. WorkerEffect(w) /\ job[w] \in Runs
  BY WorkerFrame DEF WorkerEffect
<1>2. DispatchedRun'
  BY <1>1, NoRunAssumption DEF WorkerEffect, DispatchedRun, Unborn
<1>3. UnbornRun'
  BY <1>1 DEF WorkerEffect, UnbornRun, Unborn
<1>4. PersistedFirst'
  BY <1>1, OwnRunReady DEF WorkerEffect, PersistedFirst
<1>5. SuccessHasResult'
  BY <1>1, OwnRunReady DEF WorkerEffect, SuccessHasResult
<1> QED
  BY <1>2, <1>3, <1>4, <1>5

\* ReadyInv is inductive.
LEMMA ReadyStep == ReadyInv /\ [Next]_vars => ReadyInv'
<1> SUFFICES ASSUME ReadyInv, [Next]_vars
             PROVE  (DispatchedRun /\ UnbornRun /\ PersistedFirst /\ SuccessHasResult)'
  BY LocalStep DEF ReadyInv
<1> USE DEF ReadyInv, LocalInv, TypeOK, WorkerHasJob, DispatchedRun, UnbornRun, Unborn,
        PersistedFirst, SuccessHasResult, rowVars, brokerVars, clientVars, localVars,
        workerVars, Goto, Finish
<1>1. CASE UNCHANGED vars
  BY <1>1 DEF vars
<1>2. ASSUME NEW w \in Workers, NEW r \in Runs, Receive(w, r)
      PROVE  (DispatchedRun /\ UnbornRun /\ PersistedFirst /\ SuccessHasResult)'
  BY <1>2 DEF Receive
<1>3. ASSUME NEW w \in Workers, Crash(w)
      PROVE  (DispatchedRun /\ UnbornRun /\ PersistedFirst /\ SuccessHasResult)'
  <2>1. \A r \in Runs : queue'[r] = queue[r] \/ r = job[w]
    BY <1>3 DEF Crash
  <2> QED
    BY <1>3, <2>1, NoRunAssumption DEF Crash
<1>4. ASSUME NEW w \in Workers, Terminate(w)
      PROVE  (DispatchedRun /\ UnbornRun /\ PersistedFirst /\ SuccessHasResult)'
  BY <1>4, NoRunAssumption DEF Terminate
<1>5. ASSUME NEW w \in Workers, Redeliver(w)
      PROVE  (DispatchedRun /\ UnbornRun /\ PersistedFirst /\ SuccessHasResult)'
  BY <1>5 DEF Redeliver
<1>6. ASSUME NEW s \in Slots, Expire(s)
      PROVE  (DispatchedRun /\ UnbornRun /\ PersistedFirst /\ SuccessHasResult)'
  BY <1>6 DEF Expire
<1> QED
  BY <1>1, <1>2, <1>3, <1>4, <1>5, <1>6, ReadyRunStep, ReadyWorkerStep DEF Next

\* Paper, Insights and the Web UI may read the result ledger of every run that
\* says "success", whatever deliveries are duplicated, whatever is cancelled,
\* deleted, lost or timed out.
THEOREM SuccessIsReady == Spec => []SuccessHasResult
<1>1. ReadyInv => SuccessHasResult
  BY DEF ReadyInv
<1> QED
  BY ReadyInit, ReadyStep, <1>1, PTL DEF Spec

----------------------------------------------------------------------------
(* The lease table.                                                        *)

LeaseInv == LocalInv /\ LeasesDistinct

\* A step that only empties slots or ages leases keeps them distinct.
LEMMA FewerLeases ==
  ASSUME LeaseInv,
         lease' \in [Slots -> LeaseRows \cup {NoLease}],
         \A s \in Slots : lease'[s] # NoLease =>
            /\ lease[s] # NoLease
            /\ lease'[s].id = lease[s].id
            /\ lease'[s].holder = lease[s].holder
  PROVE  LeasesDistinct'
BY DEF LeaseInv, LeasesDistinct

\* LeaseInv is inductive: only AcquireNew adds a row.
LEMMA LeaseStep == LeaseInv /\ [Next]_vars => LeaseInv'
<1> SUFFICES ASSUME LeaseInv, [Next]_vars PROVE LeasesDistinct'
  BY LocalStep DEF LeaseInv
<1> USE DEF LeaseInv, LocalInv, TypeOK
<1>0. LocalInv'
  BY LocalStep
<1>1. ASSUME lease' = lease PROVE LeasesDistinct'
  BY <1>1 DEF LeasesDistinct
<1>2. ASSUME lease' = PurgedLeases PROVE LeasesDistinct'
  BY <1>0, <1>2, FewerLeases DEF PurgedLeases
<1>3. ASSUME NEW w \in Workers, AcquireNew(w) PROVE LeasesDistinct'
  <2>1. PICK id \in LeaseIds \ UsedIds :
           lease' = [PurgedLeases EXCEPT ![FirstFree(PurgedLeases)] =
                       [id |-> id, holder |-> job[w], fresh |-> TRUE]]
    BY <1>3 DEF AcquireNew
  <2>2. \A s \in Slots : PurgedLeases[s] # NoLease =>
           /\ PurgedLeases[s] = lease[s]
           /\ lease[s].id # id
           /\ lease[s].holder # job[w]
    <3> SUFFICES ASSUME NEW s \in Slots, PurgedLeases[s] # NoLease
                 PROVE  /\ PurgedLeases[s] = lease[s]
                        /\ lease[s].id # id
                        /\ lease[s].holder # job[w]
      OBVIOUS
    <3>1. PurgedLeases[s] = lease[s] /\ lease[s] # NoLease
      BY DEF PurgedLeases
    <3>2. lease[s].id \in UsedIds
      BY <3>1 DEF UsedIds
    <3>3. s \notin HolderSlots(PurgedLeases, job[w])
      BY <1>3 DEF AcquireNew
    <3> QED
      BY <2>1, <3>1, <3>2, <3>3 DEF HolderSlots
  <2>3. \A s \in Slots : \/ lease'[s] = PurgedLeases[s]
                         \/ /\ s = FirstFree(PurgedLeases)
                            /\ lease'[s].id = id
                            /\ lease'[s].holder = job[w]
    BY <2>1, PurgedType
  <2> QED
    BY <2>2, <2>3 DEF LeasesDistinct
<1>4. ASSUME NEW w \in Workers, WorkerStep(w) PROVE LeasesDistinct'
  <2>1. CASE AcquireNone(w)
    BY <2>1, <1>1, <1>2 DEF AcquireNone
  <2>2. CASE AcquireExisting(w)
    BY <2>2, <1>2 DEF AcquireExisting
  <2>3. CASE Finally(w)
    <3>1. \A s \in Slots : lease'[s] \in {NoLease, lease[s]}
      BY <2>3 DEF Finally
    <3> QED
      BY <1>0, <3>1, FewerLeases
  <2>4. CASE ~ AcquireNone(w) /\ ~ AcquireExisting(w) /\ ~ Finally(w) /\ ~ AcquireNew(w)
    <3>1. lease' = lease
      BY <1>4, <2>4
         DEF WorkerStep, Deliver, ReplayTask, Start, CancelEarly, ProjectRejected,
         AcquireRaises, NoSlotTask, NoSlotRun, MarkTask, MarkRun, Execute, Reread,
         CancelTask, SaveOutputs, Persist, Certify, FinalizeRun, FinalizeTask, Except,
         FailRun, FailTask
    <3> QED
      BY <3>1, <1>1
  <2> QED
    BY <1>3, <2>1, <2>2, <2>3, <2>4
<1>5. ASSUME NEW r \in Runs, Reconcile(r) PROVE LeasesDistinct'
  BY <1>0, <1>5, FewerLeases DEF Reconcile
<1>6. ASSUME NEW s \in Slots, Expire(s) PROVE LeasesDistinct'
  <2>1. lease[s] \in LeaseRows
    BY <1>6 DEF Expire
  <2>2. \A t \in Slots : lease'[t] = IF t = s THEN [lease[s] EXCEPT !.fresh = FALSE]
                                             ELSE lease[t]
    BY <1>6 DEF Expire
  <2> QED
    BY <1>0, <1>6, <2>1, <2>2, FewerLeases DEF Expire, LeaseRows
<1>7. CASE UNCHANGED vars
  BY <1>7, <1>1 DEF vars
<1>8. ASSUME NEW r \in Runs,
             \/ ApiStep(r) \/ ApiCrash(r) \/ CancelRead(r) \/ CancelStep(r) \/ CancelCrash(r)
             \/ DiscardRevoked(r) \/ DeleteBacktest(r) \/ delete_task(r)
      PROVE  LeasesDistinct'
  <2>1. lease' = lease
    BY <1>8 DEF ApiStep, CreateTask, CreateRun, CreateFailedTask, CreateFailedRun, Publish,
       PublishFails, MarkTaskQueued, mark_backtest_queued, fail_backtest_queue, ApiCrash,
       CancelRead, CancelStep, CancelTaskRow, CancelRevokeFails, CancelRunRow, CancelCrash,
       DiscardRevoked, DeleteBacktest, delete_task
  <2> QED
    BY <2>1, <1>1
<1>9. ASSUME NEW w \in Workers,
             (\E r \in Runs : Receive(w, r)) \/ Crash(w) \/ Terminate(w) \/ Redeliver(w)
      PROVE  LeasesDistinct'
  BY <1>1, <1>9 DEF Receive, Crash, Terminate, Redeliver
<1> QED
  BY <1>4, <1>5, <1>6, <1>7, <1>8, <1>9 DEF Next

\* For any number of slots: no run occupies two of them, and the id by which a
\* worker releases its lease names one row.
THEOREM LeasesStayDistinct == Spec => []LeasesDistinct
<1>1. Init => LeaseInv
  BY LocalInit DEF Init, LeaseInv, LeasesDistinct
<1>2. LeaseInv => LeasesDistinct
  BY DEF LeaseInv
<1> QED
  BY <1>1, LeaseStep, <1>2, PTL DEF Spec

----------------------------------------------------------------------------
(* Trust.                                                                  *)

\* A run labelled trusted has a reproducibility certificate: the label is only
\* written from a certificate and certificates are never taken back.
THEOREM TrustNeedsCertificate == Spec => []TrustedHasCertificate
<1> DEFINE TrustInv == LocalInv /\ TrustedHasCertificate
<1>1. Init => TrustInv
  BY LocalInit DEF Init, TrustedHasCertificate
<1>2. TrustInv /\ [Next]_vars => TrustInv'
  <2> SUFFICES ASSUME TrustInv, [Next]_vars PROVE TrustedHasCertificate'
    BY LocalStep
  <2> USE DEF LocalInv, TypeOK, TrustedHasCertificate
  <2>1. ASSUME UNCHANGED <<trust, cert>> PROVE TrustedHasCertificate'
    BY <2>1
  <2>2. ASSUME NEW w \in Workers, Certify(w) PROVE TrustedHasCertificate'
    <3>1. trust' = trust /\ cert' \in {cert, [cert EXCEPT ![job[w]] = TRUE]}
      BY <2>2 DEF Certify
    <3> QED
      BY <3>1
  <2>3. ASSUME NEW w \in Workers, FinalizeRun(w) PROVE TrustedHasCertificate'
    BY <2>3 DEF FinalizeRun, SetTrust, FinalTrust
  <2>4. ASSUME NEW w \in Workers, FailRun(w) PROVE TrustedHasCertificate'
    BY <2>4 DEF FailRun, SetTrust
  <2>5. ASSUME NEW r \in Runs, DeleteBacktest(r) PROVE TrustedHasCertificate'
    BY <2>5 DEF DeleteBacktest
  <2>6. CASE UNCHANGED vars
    BY <2>6, <2>1 DEF vars
  <2>7. ASSUME NEW w \in Workers, WorkerStep(w), ~ Certify(w), ~ FinalizeRun(w), ~ FailRun(w)
        PROVE  TrustedHasCertificate'
    <3>1. UNCHANGED <<trust, cert>>
      BY <2>7 DEF WorkerStep, Deliver, ReplayTask, Start, CancelEarly, ProjectRejected,
         AcquireExisting, AcquireNew, AcquireNone, AcquireRaises, NoSlotTask, NoSlotRun,
         MarkTask, MarkRun, Execute, Reread, CancelTask, SaveOutputs, Persist,
         FinalizeTask, Except, FailTask, Finally, rowVars
    <3> QED
      BY <3>1, <2>1
  <2>8. ASSUME NEW r \in Runs,
               \/ ApiStep(r) \/ ApiCrash(r) \/ CancelRead(r) \/ CancelStep(r)
               \/ CancelCrash(r) \/ DiscardRevoked(r) \/ Reconcile(r) \/ delete_task(r)
        PROVE  TrustedHasCertificate'
    <3>1. UNCHANGED <<trust, cert>>
      BY <2>8 DEF ApiStep, CreateTask, CreateRun, CreateFailedTask, CreateFailedRun,
         Publish, PublishFails, MarkTaskQueued, mark_backtest_queued, fail_backtest_queue,
         ApiCrash, CancelRead, CancelStep, CancelTaskRow, CancelRevokeFails, CancelRunRow,
         CancelCrash, DiscardRevoked, Reconcile, delete_task, rowVars
    <3> QED
      BY <3>1, <2>1
  <2>9. ASSUME NEW w \in Workers,
               (\E r \in Runs : Receive(w, r)) \/ Crash(w) \/ Terminate(w) \/ Redeliver(w)
        PROVE  TrustedHasCertificate'
    BY <2>1, <2>9 DEF Receive, Crash, Terminate, Redeliver, rowVars
  <2>10. ASSUME NEW s \in Slots, Expire(s) PROVE TrustedHasCertificate'
    BY <2>1, <2>10 DEF Expire, rowVars
  <2> QED
    BY <2>2, <2>3, <2>4, <2>5, <2>6, <2>7, <2>8, <2>9, <2>10 DEF Next
<1>3. TrustInv => TrustedHasCertificate
  OBVIOUS
<1> QED
  BY <1>1, <1>2, <1>3, PTL DEF Spec

----------------------------------------------------------------------------
(* Redelivery of a settled run.                                            *)

\* What SettledForever allows a step to do.
SettledStep ==
  \A r \in Runs : Settled(r) => \/ Settled(r)' /\ run'[r] = run[r]
                                \/ run'[r] = Absent

\* A worker of a settled run is at the guard, where only the replay is open to
\* it; a worker of another run does not touch this one.
LEMMA SettledWorkerStep ==
  ASSUME LocalInv, NEW w \in Workers, WorkerStep(w)
  PROVE  SettledStep
<1> SUFFICES ASSUME NEW r \in Runs, Settled(r) PROVE Settled(r)' /\ run'[r] = run[r]
  BY DEF SettledStep
<1> USE DEF LocalInv, TypeOK, WorkerHasJob, Settled, GuardPcs, is_terminal
<1>1. WorkerEffect(w) /\ job[w] \in Runs
  BY WorkerFrame DEF WorkerEffect
<1>2. CASE job[w] # r
  BY <1>1, <1>2, NoRunAssumption DEF WorkerEffect
<1>3. CASE job[w] = r
  <2>1. pc[w] \in {"deliver", "replay"} /\ is_terminal(run[job[w]])
    BY <1>3
  <2>2. Deliver(w) \/ ReplayTask(w)
    BY <2>1 DEF WorkerStep, Start, CancelEarly, ProjectRejected, AcquireExisting,
       AcquireNew, AcquireNone, AcquireRaises, NoSlotTask, NoSlotRun, MarkTask, MarkRun,
       Execute, Reread, CancelTask, SaveOutputs, Persist, Certify, FinalizeRun,
       FinalizeTask, Except, FailRun, FailTask, Finally
  <2>3. run' = run /\ pc'[w] \in {"replay", "idle"}
    BY <2>1, <2>2 DEF Deliver, ReplayTask, rowVars, Goto, Finish
  <2>4. job'[w] = r => pc'[w] \in GuardPcs
    BY <1>1, <1>3, <2>1, <2>2, NoRunAssumption DEF Deliver, ReplayTask, Goto, Finish
  <2> QED
    BY <1>1, <2>3, <2>4 DEF WorkerEffect
<1> QED
  BY <1>2, <1>3

\* No step of anybody executes a settled run or changes its status.
LEMMA SettledNext == LocalInv /\ [Next]_vars => SettledStep
<1> SUFFICES ASSUME LocalInv, [Next]_vars PROVE SettledStep
  OBVIOUS
<1> USE DEF LocalInv, TypeOK, SettledStep, Settled, GuardPcs, is_terminal, rowVars,
        brokerVars, clientVars, localVars, workerVars
<1>1. CASE UNCHANGED vars
  BY <1>1 DEF vars
<1>2. ASSUME NEW q \in Runs, CreateTask(q) \/ CreateFailedTask(q) \/ Publish(q) \/ ApiCrash(q)
                             \/ PublishFails(q) \/ MarkTaskQueued(q)
      PROVE  SettledStep
  BY <1>2 DEF CreateTask, CreateFailedTask, Publish, ApiCrash, PublishFails, MarkTaskQueued
<1>3. ASSUME NEW q \in Runs, CreateRun(q) \/ CreateFailedRun(q)
      PROVE  SettledStep
  BY <1>3 DEF CreateRun, CreateFailedRun
<1>4. ASSUME NEW q \in Runs, mark_backtest_queued(q) PROVE SettledStep
  <2>1. RunWritten(q, QUEUED)
    BY <1>4, UpdateBacktest DEF mark_backtest_queued
  <2> QED
    BY <1>4, <2>1 DEF mark_backtest_queued, RunWritten
<1>5. ASSUME NEW q \in Runs, fail_backtest_queue(q) PROVE SettledStep
  <2>1. RunWritten(q, FAILED)
    BY <1>5, UpdateBacktest DEF fail_backtest_queue
  <2> QED
    BY <1>5, <2>1 DEF fail_backtest_queue, RunWritten
<1>6. ASSUME NEW q \in Runs,
             CancelRead(q) \/ CancelTaskRow(q) \/ CancelRevokeFails(q) \/ CancelCrash(q)
      PROVE  SettledStep
  BY <1>6 DEF CancelRead, CancelTaskRow, CancelRevokeFails, CancelCrash
<1>7. ASSUME NEW q \in Runs, CancelRunRow(q) PROVE SettledStep
  <2>1. RunWritten(q, CANCELLED)
    BY <1>7, UpdateBacktest DEF CancelRunRow
  <2> QED
    BY <1>7, <2>1 DEF CancelRunRow, RunWritten
<1>8. ASSUME NEW q \in Runs, Reconcile(q) PROVE SettledStep
  <2>1. RunWritten(q, ReconciledStatus(q))
    BY <1>8, UpdateBacktest DEF Reconcile
  <2> QED
    BY <1>8, <2>1 DEF Reconcile, RunWritten
<1>9. ASSUME NEW q \in Runs, DiscardRevoked(q) \/ delete_task(q) \/ DeleteBacktest(q)
      PROVE  SettledStep
  BY <1>9 DEF DiscardRevoked, delete_task, DeleteBacktest
<1>10. ASSUME NEW w \in Workers, NEW q \in Runs, Receive(w, q) PROVE SettledStep
  BY <1>10 DEF Receive, Goto
<1>11. ASSUME NEW w \in Workers, Crash(w) \/ Terminate(w) PROVE SettledStep
  BY <1>11, NoRunAssumption DEF Crash, Terminate, Finish
<1>12. ASSUME NEW w \in Workers, Redeliver(w) PROVE SettledStep
  BY <1>12 DEF Redeliver
<1>13. ASSUME NEW s \in Slots, Expire(s) PROVE SettledStep
  BY <1>13 DEF Expire
<1> QED
  BY <1>1, <1>2, <1>3, <1>4, <1>5, <1>6, <1>7, <1>8, <1>9, <1>10, <1>11, <1>12, <1>13,
     SettledWorkerStep DEF Next, ApiStep, CancelStep

\* Redelivering the message of a settled run, any number of times to any number
\* of workers, never executes it again and never changes its status.
THEOREM RedeliveryIsReplay == Spec => SettledForever
<1>1. LocalInv /\ [Next]_vars => [SettledStep]_vars
  BY SettledNext
<1> QED
  BY LocalInit, LocalStep, <1>1, PTL DEF Spec, SettledForever, SettledStep

=============================================================================
