----------------------- MODULE BacktestDeliveryProofs -----------------------
(***************************************************************************)
(* Theorems about BacktestLifecycle when the broker delivers each message  *)
(* to one worker at a time and nobody cancels: then a run is in one pair   *)
(* of hands at any moment, and the rows, the leases and the contract can   *)
(* be followed from hand to hand.                                          *)
(***************************************************************************)
EXTENDS BacktestRefinement, BacktestLifecycleProofs, FiniteSetTheorems

USE DEF ACTIVE_STATUSES, TERMINAL_STATUSES, Statuses, CREATED, QUEUED, RUNNING,
        SUCCESS, FAILED, CANCELLED, Absent

\* The hypothesis of the module.  Workers may be lost, executions may outlive
\* their budget, renewals and API processes may be lost, history be deleted.
OneDelivery == Faults \cap {"redeliver", "slow_dispatch", "cancel"} = {}

----------------------------------------------------------------------------
(* Whose hands a run is in: its creating request, the broker or one worker. *)

\* The request has not published anything.
Before == {"none", "task", "created", "rejected", "unpublished"}

Working(r) == \E w \in Workers : job[w] = r

Idle == \A w \in Workers : pc[w] = "idle" => job[w] = NoRun
OneMessage ==
  \A r \in Runs : /\ queue[r] \in {0, 1}
                  /\ api[r] \in Before => queue[r] = 0
                  /\ api[r] # "done" => ~ Working(r)
                  /\ queue[r] = 1 => ~ Working(r)
OneWorker == \A v, w \in Workers : pc[v] # "idle" /\ job[v] = job[w] => v = w
Acknowledged == \A w \in Workers : owns[w] <=> pc[w] # "idle"

\* Nobody cancels.
NoCancellation ==
  /\ \A r \in Runs : /\ cancel[r] = "idle" /\ ~ revoked[r]
                     /\ run[r] # CANCELLED /\ task[r] # CANCELLED
  /\ \A w \in Workers : pc[w] \notin {"cancelEarly", "cancelTask"} /\ out[w] # CANCELLED

HInv == LocalInv /\ Idle /\ OneMessage /\ OneWorker /\ Acknowledged /\ NoCancellation

----------------------------------------------------------------------------
(* The steps, by what they do to the run in hand.  W is an UPDATE of a row   *)
(* that may be gone.                                                        *)

W(old, s) == IF old = Absent THEN Absent ELSE s

\* The rows, the messages and the request of the other runs stay.
OthersKept(r) ==
  \A q \in Runs \ {r} : /\ task'[q] = task[q] /\ run'[q] = run[q]
                        /\ queue'[q] = queue[q] /\ api'[q] = api[q]
RowsKept(r) == task'[r] = task[r] /\ run'[r] = run[r]

\* Nothing these proofs speak of is touched.
Silent == UNCHANGED <<task, run, queue, api, cancel, revoked, pc, job, out, owns>>

\* The steps of the creating request.
Requests(r) ==
  \/ api[r] = "none" /\ api'[r] = "task" /\ task'[r] = CREATED /\ run'[r] = run[r]
  \/ api[r] = "none" /\ api'[r] = "rejected" /\ task'[r] = FAILED /\ run'[r] = run[r]
  \/ api[r] = "task" /\ api'[r] = "created" /\ run'[r] = CREATED /\ task'[r] = task[r]
  \/ api[r] = "rejected" /\ api'[r] = "done" /\ run'[r] = FAILED /\ task'[r] = task[r]
  \/ api[r] = "created" /\ api'[r] = "unpublished" /\ task'[r] = W(task[r], FAILED) /\ run'[r] = run[r]
  \/ api[r] = "published" /\ api'[r] = "marked" /\ task'[r] = W(task[r], QUEUED) /\ run'[r] = run[r]
  \/ api[r] = "marked" /\ api'[r] = "done" /\ run'[r] = W(run[r], QUEUED) /\ task'[r] = task[r]
  \/ api[r] = "unpublished" /\ api'[r] = "done" /\ run'[r] = W(run[r], FAILED) /\ task'[r] = task[r]
  \/ "api_crash" \in Faults /\ api[r] \notin {"none", "done"} /\ api'[r] = "done" /\ RowsKept(r)
Publishes(r) == api[r] = "created" /\ api'[r] = "published" /\ RowsKept(r)

\* The reconciler and the deletions.
Reconciles(r) ==
  /\ run[r] \in ACTIVE_STATUSES
  /\ ReconcileReason(r)
  /\ run'[r] = FAILED
  /\ task'[r] = IF is_terminal(task[r]) THEN task[r] ELSE W(task[r], FAILED)
Deletes(r) ==
  \/ /\ is_terminal(run[r]) /\ task[r] \notin ACTIVE_STATUSES
     /\ run'[r] = Absent /\ task'[r] = Absent
  \/ is_terminal(task[r]) /\ task'[r] = Absent /\ run'[r] = run[r]

RunMove(r) ==
  /\ OthersKept(r)
  /\ UNCHANGED <<cancel, revoked, pc, job, out, owns>>
  /\ \/ Requests(r) /\ queue'[r] = queue[r]
     \/ Publishes(r) /\ queue'[r] = queue[r] + 1
     \/ (Reconciles(r) \/ Deletes(r)) /\ queue'[r] = queue[r] /\ api'[r] = api[r]

\* A worker takes a message.
Takes(w, r) ==
  /\ UNCHANGED <<task, run, api, cancel, revoked, out>>
  /\ pc[w] = "idle" /\ pc'[w] = "deliver" /\ job'[w] = r /\ owns'[w]
  /\ api[r] = "done" /\ queue[r] > 0 /\ queue'[r] = queue[r] - 1
  /\ \A q \in Runs \ {r} : queue'[q] = queue[q]
  /\ \A v \in Workers \ {w} : pc'[v] = pc[v] /\ job'[v] = job[v] /\ owns'[v] = owns[v]

\* A worker goes on or ends.
Goes(w, l) == pc'[w] = l /\ job'[w] = job[w] /\ owns'[w] = owns[w] /\ out'[w] = out[w]
Ends(w) == pc'[w] = "idle" /\ job'[w] = NoRun /\ ~ owns'[w] /\ out'[w] = "none"

\* Steps that write no row.
Looks(w, r) ==
  \/ pc[w] = "deliver" /\ ~ is_terminal(run[r]) /\ Goes(w, "start")
  \/ /\ pc[w] = "deliver" /\ is_terminal(run[r])
     /\ pc'[w] = "replay" /\ job'[w] = job[w] /\ owns'[w] = owns[w] /\ out'[w] = run[r]
  \/ pc[w] = "deliver" /\ is_terminal(run[r]) /\ task[r] \in {run[r], Absent} /\ Ends(w)
  \/ pc[w] = "start" /\ task[r] = Absent /\ Ends(w)
  \/ pc[w] = "start" /\ Goes(w, "acquire")
  \/ /\ pc[w] = "acquire" /\ Ends(w)
     /\ "project_missing" \in Faults \/ (Postgres /\ Limit > 1)
  \/ pc[w] = "acquire" /\ Goes(w, "markTask")
  \/ pc[w] = "acquire" /\ Goes(w, "noSlotTask")
  \/ /\ pc[w] \in {"execute", "reread", "persist", "certify", "except"}
     /\ pc'[w] \in {"reread", "except", "saveOutputs", "certify", "finalizeRun", "failRun"}
     /\ job'[w] = job[w] /\ owns'[w] = owns[w] /\ out'[w] \in {out[w]} \cup Outcomes
  \/ pc[w] = "finally" /\ Ends(w)

\* Steps that write the task row.
WritesTask(w, r) ==
  \/ pc[w] = "replay" /\ task'[r] = W(task[r], out[w]) /\ Ends(w)
  \/ pc[w] = "noSlotTask" /\ task'[r] = W(task[r], QUEUED) /\ Goes(w, "noSlotRun")
  \/ pc[w] = "markTask" /\ task'[r] = W(task[r], RUNNING) /\ Goes(w, "markRun")
  \/ pc[w] = "finalizeTask" /\ task'[r] = W(task[r], FinalStatus(out[w])) /\ Goes(w, "finally")
  \/ pc[w] = "failTask" /\ task'[r] = W(task[r], FAILED) /\ Goes(w, "finally")

\* Steps that write the run row.
WritesRun(w, r) ==
  \/ pc[w] = "markRun" /\ run'[r] = W(run[r], RUNNING) /\ Goes(w, "execute")
  \/ /\ pc[w] = "saveOutputs" /\ run'[r] = W(run[r], RUNNING)
     /\ Goes(w, "finalizeRun") \/ Goes(w, "persist")
  \/ pc[w] = "finalizeRun" /\ run'[r] = W(run[r], FinalStatus(out[w])) /\ Goes(w, "finalizeTask")
  \/ pc[w] = "failRun" /\ run'[r] = W(run[r], FAILED) /\ Goes(w, "failTask")

\* Steps that hand the message back: no free slot, or the worker is lost.
HandsBack(w, r) ==
  /\ Ends(w)
  /\ queue'[r] = queue[r] + 1
  /\ task'[r] = task[r]
  /\ \/ pc[w] = "noSlotRun" /\ run'[r] = W(run[r], QUEUED)
     \/ run'[r] = run[r]

WorkerMove(w, r) ==
  /\ r = job[w] /\ pc[w] # "idle"
  /\ OthersKept(r)
  /\ UNCHANGED <<api, cancel, revoked>>
  /\ \A v \in Workers \ {w} : /\ pc'[v] = pc[v] /\ job'[v] = job[v]
                              /\ owns'[v] = owns[v] /\ out'[v] = out[v]
  /\ \/ Looks(w, r) /\ RowsKept(r) /\ queue'[r] = queue[r]
     \/ WritesTask(w, r) /\ run'[r] = run[r] /\ queue'[r] = queue[r]
     \/ WritesRun(w, r) /\ task'[r] = task[r] /\ queue'[r] = queue[r]
     \/ HandsBack(w, r)

Moves ==
  \/ Silent
  \/ \E r \in Runs : RunMove(r)
  \/ \E w \in Workers, r \in Runs : Takes(w, r) \/ WorkerMove(w, r)

\* The two row updates, by their value.
LEMMA TaskUpdate ==
  ASSUME task \in [Runs -> Statuses], NEW r \in Runs, NEW s, update_task(r, s)
  PROVE  task'[r] = W(task[r], s) /\ \A q \in Runs \ {r} : task'[q] = task[q]
BY DEF update_task, Written, W

LEMMA RunUpdate ==
  ASSUME run \in [Runs -> Statuses], NEW r \in Runs, NEW s, update_backtest(r, s)
  PROVE  run'[r] = W(run[r], s) /\ \A q \in Runs \ {r} : run'[q] = run[q]
BY DEF update_backtest, Written, W

\* The request, the broker, the reconciler and the user.
LEMMA RunMoves ==
  ASSUME OneDelivery, HInv, NEW r \in Runs,
         \/ ApiStep(r) \/ ApiCrash(r) \/ CancelRead(r) \/ CancelStep(r) \/ CancelCrash(r)
         \/ DiscardRevoked(r) \/ Reconcile(r) \/ DeleteBacktest(r) \/ delete_task(r)
  PROVE  RunMove(r)
PROOF
<1> USE DEF RunMove, OthersKept, RowsKept, rowVars, brokerVars, clientVars, workerVars
<1>0. /\ task \in [Runs -> Statuses] /\ run \in [Runs -> Statuses]
      /\ queue \in [Runs -> Nat] /\ api \in [Runs -> ApiPcs]
  BY DEF HInv, LocalInv, TypeOK
<1>1. CASE CreateTask(r)
  BY <1>0, <1>1 DEF CreateTask, Requests
<1>2. CASE CreateRun(r)
  BY <1>0, <1>2 DEF CreateRun, Requests
<1>3. CASE CreateFailedTask(r)
  BY <1>0, <1>3 DEF CreateFailedTask, Requests
<1>4. CASE CreateFailedRun(r)
  BY <1>0, <1>4 DEF CreateFailedRun, Requests
<1>5. CASE Publish(r)
  BY <1>0, <1>5 DEF Publish, Publishes
<1>6. CASE PublishFails(r)
  <2>1. task'[r] = W(task[r], FAILED) /\ \A q \in Runs \ {r} : task'[q] = task[q]
    BY <1>0, <1>6, TaskUpdate DEF PublishFails
  <2> QED
    BY <1>0, <1>6, <2>1 DEF PublishFails, Requests
<1>7. CASE MarkTaskQueued(r)
  <2>1. task'[r] = W(task[r], QUEUED) /\ \A q \in Runs \ {r} : task'[q] = task[q]
    BY <1>0, <1>7, TaskUpdate DEF MarkTaskQueued
  <2> QED
    BY <1>0, <1>7, <2>1 DEF MarkTaskQueued, Requests
<1>8. CASE mark_backtest_queued(r)
  <2>1. run'[r] = W(run[r], QUEUED) /\ \A q \in Runs \ {r} : run'[q] = run[q]
    BY <1>0, <1>8, RunUpdate DEF mark_backtest_queued
  <2> QED
    BY <1>0, <1>8, <2>1 DEF mark_backtest_queued, Requests
<1>9. CASE fail_backtest_queue(r)
  <2>1. run'[r] = W(run[r], FAILED) /\ \A q \in Runs \ {r} : run'[q] = run[q]
    BY <1>0, <1>9, RunUpdate DEF fail_backtest_queue
  <2> QED
    BY <1>0, <1>9, <2>1 DEF fail_backtest_queue, Requests
<1>10. CASE ApiCrash(r)
  BY <1>0, <1>10 DEF ApiCrash, Requests
<1>11. CASE CancelRead(r) \/ CancelStep(r) \/ CancelCrash(r) \/ DiscardRevoked(r)
  BY <1>11 DEF CancelRead, CancelStep, CancelTaskRow, CancelRevokeFails, CancelRunRow,
     CancelCrash, DiscardRevoked, OneDelivery, HInv, NoCancellation
<1>12. CASE Reconcile(r)
  <2>1. ReconciledStatus(r) = FAILED
    BY DEF ReconciledStatus, HInv, NoCancellation
  <2>2. run'[r] = W(run[r], FAILED) /\ \A q \in Runs \ {r} : run'[q] = run[q]
    BY <1>0, <1>12, <2>1, RunUpdate DEF Reconcile
  <2>3. /\ task'[r] = IF is_terminal(task[r]) THEN task[r] ELSE W(task[r], FAILED)
        /\ \A q \in Runs \ {r} : task'[q] = task[q]
    BY <1>0, <1>12, <2>1 DEF Reconcile, Written, W
  <2>4. run[r] \in ACTIVE_STATUSES /\ ReconcileReason(r)
    BY <1>12 DEF Reconcile
  <2>5. run'[r] = FAILED
    BY <2>2, <2>4 DEF W
  <2>6. Reconciles(r)
    BY <2>3, <2>4, <2>5, Zenon DEF Reconciles
  <2> QED
    BY <1>0, <1>12, <2>2, <2>3, <2>6 DEF Reconcile
<1>13. CASE DeleteBacktest(r)
  BY <1>0, <1>13 DEF DeleteBacktest, Deletes
<1>14. CASE delete_task(r)
  BY <1>0, <1>14 DEF delete_task, Deletes
<1> QED
  BY <1>1, <1>2, <1>3, <1>4, <1>5, <1>6, <1>7, <1>8, <1>9, <1>10, <1>11, <1>12, <1>13,
     <1>14 DEF ApiStep

\* What a step of a worker leaves alone, and the run it is about.
LEMMA WorkerKeeps ==
  ASSUME HInv, NEW w \in Workers, WorkerStep(w)
  PROVE  /\ pc[w] # "idle" /\ job[w] \in Runs
         /\ UNCHANGED <<api, cancel, revoked>>
         /\ \A v \in Workers \ {w} : /\ pc'[v] = pc[v] /\ job'[v] = job[v]
                                     /\ owns'[v] = owns[v] /\ out'[v] = out[v]
PROOF
<1> USE DEF HInv, LocalInv, TypeOK, WorkerHasJob, rowVars, brokerVars, clientVars,
        localVars, Goto, Finish
<1>1. CASE Deliver(w)
  BY <1>1 DEF Deliver
<1>2. CASE ReplayTask(w) \/ CancelEarly(w)
  BY <1>2 DEF ReplayTask, CancelEarly
<1>3. CASE Start(w)
  BY <1>3 DEF Start
<1>4. CASE ProjectRejected(w) \/ AcquireRaises(w) \/ Finally(w)
  BY <1>4 DEF ProjectRejected, AcquireRaises, Finally
<1>5. CASE AcquireExisting(w) \/ AcquireNew(w) \/ AcquireNone(w)
  BY <1>5 DEF AcquireExisting, AcquireNew, AcquireNone
<1>6. CASE NoSlotTask(w) \/ MarkTask(w) \/ CancelTask(w) \/ FinalizeTask(w) \/ FailTask(w)
  BY <1>6 DEF NoSlotTask, MarkTask, CancelTask, FinalizeTask, FailTask
<1>7. CASE NoSlotRun(w) \/ MarkRun(w) \/ SaveOutputs(w) \/ FinalizeRun(w) \/ FailRun(w)
  BY <1>7 DEF NoSlotRun, MarkRun, SaveOutputs, FinalizeRun, FailRun
<1>8. CASE Execute(w)
  BY <1>8 DEF Execute
<1>9. CASE Reread(w) \/ Except(w)
  BY <1>9 DEF Reread, Except
<1>10. CASE Persist(w)
  BY <1>10 DEF Persist
<1>11. CASE Certify(w)
  BY <1>11 DEF Certify
<1> QED
  BY <1>1, <1>2, <1>3, <1>4, <1>5, <1>6, <1>7, <1>8, <1>9, <1>10, <1>11 DEF WorkerStep

\* A step of run_backtest_task, by what it does to the two rows and the message.
LEMMA WorkerMoves ==
  ASSUME HInv, NEW w \in Workers, WorkerStep(w)
  PROVE  WorkerMove(w, job[w])
PROOF
<1> DEFINE r == job[w]
<1>0. /\ task \in [Runs -> Statuses] /\ run \in [Runs -> Statuses]
      /\ queue \in [Runs -> Nat] /\ pc \in [Workers -> WorkerPcs]
      /\ job \in [Workers -> Runs \cup {NoRun}] /\ owns \in [Workers -> BOOLEAN]
      /\ out \in [Workers -> Outcomes \cup TERMINAL_STATUSES \cup {"none"}]
  BY DEF HInv, LocalInv, TypeOK
<1>1. /\ pc[w] # "idle" /\ r \in Runs
      /\ UNCHANGED <<api, cancel, revoked>>
      /\ \A v \in Workers \ {w} : /\ pc'[v] = pc[v] /\ job'[v] = job[v]
                                  /\ owns'[v] = owns[v] /\ out'[v] = out[v]
  BY WorkerKeeps
<1>2. run[r] # CANCELLED /\ pc[w] \notin {"cancelEarly", "cancelTask"}
  BY <1>1 DEF HInv, NoCancellation
<1>a. ASSUME Looks(w, r), UNCHANGED <<task, run, queue>> PROVE WorkerMove(w, r)
  BY <1>1, <1>a DEF WorkerMove, OthersKept, RowsKept
<1>b. ASSUME NEW s, update_task(r, s), UNCHANGED <<run, queue>>,
             task'[r] = W(task[r], s) => WritesTask(w, r)
      PROVE  WorkerMove(w, r)
  <2>1. task'[r] = W(task[r], s) /\ \A q \in Runs \ {r} : task'[q] = task[q]
    BY <1>0, <1>1, <1>b, TaskUpdate
  <2> QED
    BY <1>1, <1>b, <2>1 DEF WorkerMove, OthersKept
<1>c. ASSUME NEW s, update_backtest(r, s), UNCHANGED <<task, queue>>,
             run'[r] = W(run[r], s) => WritesRun(w, r)
      PROVE  WorkerMove(w, r)
  <2>1. run'[r] = W(run[r], s) /\ \A q \in Runs \ {r} : run'[q] = run[q]
    BY <1>0, <1>1, <1>c, RunUpdate
  <2> QED
    BY <1>1, <1>c, <2>1 DEF WorkerMove, OthersKept
<1> HIDE DEF r
<1>r. r = job[w]
  BY DEF r
<1> USE DEF rowVars, brokerVars, clientVars, localVars, Goto, Finish, Goes, Ends
<1>3. CASE Deliver(w)
  BY <1>0, <1>r, <1>3, <1>a DEF Deliver, Looks, is_terminal
<1>4. CASE ReplayTask(w)
  BY <1>0, <1>r, <1>4, <1>b DEF ReplayTask, WritesTask
<1>5. CASE Start(w)
  BY <1>0, <1>2, <1>r, <1>5, <1>a DEF Start, Looks
<1>6. CASE CancelEarly(w) \/ CancelTask(w)
  BY <1>2, <1>6 DEF CancelEarly, CancelTask
<1>7. CASE ProjectRejected(w) \/ AcquireRaises(w)
  BY <1>0, <1>r, <1>7, <1>a DEF ProjectRejected, AcquireRaises, Looks
<1>8. CASE AcquireExisting(w) \/ AcquireNew(w) \/ AcquireNone(w)
  BY <1>0, <1>r, <1>8, <1>a DEF AcquireExisting, AcquireNew, AcquireNone, Looks
<1>9. CASE NoSlotTask(w)
  BY <1>0, <1>r, <1>9, <1>b DEF NoSlotTask, WritesTask
<1>10. CASE MarkTask(w)
  BY <1>0, <1>r, <1>10, <1>b DEF MarkTask, WritesTask
<1>11. CASE FinalizeTask(w)
  BY <1>0, <1>r, <1>11, <1>b DEF FinalizeTask, WritesTask
<1>12. CASE FailTask(w)
  BY <1>0, <1>r, <1>12, <1>b DEF FailTask, WritesTask
<1>13. CASE MarkRun(w)
  BY <1>0, <1>r, <1>13, <1>c DEF MarkRun, WritesRun
<1>14. CASE SaveOutputs(w)
  BY <1>0, <1>r, <1>14, <1>c DEF SaveOutputs, WritesRun
<1>15. CASE FinalizeRun(w)
  BY <1>0, <1>r, <1>15, <1>c DEF FinalizeRun, WritesRun
<1>16. CASE FailRun(w)
  BY <1>0, <1>r, <1>16, <1>c DEF FailRun, WritesRun
<1>17. CASE NoSlotRun(w)
  <2>1. run'[r] = W(run[r], QUEUED) /\ \A q \in Runs \ {r} : run'[q] = run[q]
    BY <1>0, <1>1, <1>r, <1>17, RunUpdate DEF NoSlotRun
  <2>2. HandsBack(w, r)
    BY <1>0, <1>1, <1>r, <1>17, <2>1 DEF NoSlotRun, HandsBack
  <2> QED
    BY <1>0, <1>1, <1>r, <1>17, <2>1, <2>2 DEF NoSlotRun, WorkerMove, OthersKept
<1>18. CASE Execute(w)
  BY <1>0, <1>r, <1>18, <1>a DEF Execute, Looks
<1>19. CASE Reread(w) \/ Except(w)
  BY <1>0, <1>2, <1>r, <1>19, <1>a DEF Reread, Except, Looks
<1>20. CASE Persist(w)
  BY <1>0, <1>r, <1>20, <1>a DEF Persist, Looks
<1>21. CASE Certify(w)
  BY <1>0, <1>r, <1>21, <1>a DEF Certify, Looks
<1>22. CASE Finally(w)
  BY <1>0, <1>r, <1>22, <1>a DEF Finally, Looks
<1> QED
  BY <1>r, <1>3, <1>4, <1>5, <1>6, <1>7, <1>8, <1>9, <1>10, <1>11, <1>12, <1>13, <1>14, <1>15,
     <1>16, <1>17, <1>18, <1>19, <1>20, <1>21, <1>22 DEF WorkerStep

\* Every step of the system is one of these moves.
LEMMA NextMoves ==
  ASSUME OneDelivery, HInv, [Next]_vars
  PROVE  Moves
PROOF
<1> USE DEF rowVars, brokerVars, clientVars, localVars, workerVars
<1>0. /\ task \in [Runs -> Statuses] /\ run \in [Runs -> Statuses]
      /\ queue \in [Runs -> Nat] /\ pc \in [Workers -> WorkerPcs]
      /\ job \in [Workers -> Runs \cup {NoRun}] /\ owns \in [Workers -> BOOLEAN]
      /\ out \in [Workers -> Outcomes \cup TERMINAL_STATUSES \cup {"none"}]
  BY DEF HInv, LocalInv, TypeOK
<1>1. CASE UNCHANGED vars
  BY <1>1 DEF vars, Moves, Silent
<1>2. ASSUME NEW s \in Slots, Expire(s) PROVE Moves
  BY <1>2 DEF Expire, Moves, Silent
<1>3. ASSUME NEW w \in Workers, NEW r \in Runs, Receive(w, r) PROVE Moves
  <2>1. Takes(w, r)
    BY <1>0, <1>3 DEF Receive, Takes, Goto, OneDelivery
  <2> QED
    BY <2>1 DEF Moves
<1>4. ASSUME NEW w \in Workers, WorkerStep(w) PROVE Moves
  BY <1>4, WorkerMoves, WorkerKeeps DEF Moves
<1>5. ASSUME NEW w \in Workers, Crash(w) PROVE Moves
  <2>1. job[w] \in Runs /\ owns[w] /\ pc[w] # "idle"
    BY <1>5 DEF Crash, HInv, LocalInv, WorkerHasJob, Acknowledged
  <2>2. HandsBack(w, job[w])
    BY <1>0, <1>5, <2>1 DEF Crash, HandsBack, Finish, Ends
  <2>3. WorkerMove(w, job[w])
    BY <1>0, <1>5, <2>1, <2>2 DEF Crash, Finish, WorkerMove, OthersKept
  <2> QED
    BY <2>1, <2>3 DEF Moves
<1>6. ASSUME NEW w \in Workers, Terminate(w) \/ Redeliver(w) PROVE FALSE
  BY <1>6 DEF Terminate, Redeliver, OneDelivery, HInv, NoCancellation, LocalInv, WorkerHasJob
<1>7. ASSUME NEW r \in Runs,
         \/ ApiStep(r) \/ ApiCrash(r) \/ CancelRead(r) \/ CancelStep(r) \/ CancelCrash(r)
         \/ DiscardRevoked(r) \/ Reconcile(r) \/ DeleteBacktest(r) \/ delete_task(r)
      PROVE  Moves
  BY <1>7, RunMoves DEF Moves
<1> QED
  BY <1>1, <1>2, <1>3, <1>4, <1>5, <1>6, <1>7 DEF Next

\* The columns and variables the moves speak of are in range.
Typed ==
  /\ task \in [Runs -> Statuses] /\ run \in [Runs -> Statuses]
  /\ queue \in [Runs -> Nat] /\ api \in [Runs -> ApiPcs]
  /\ pc \in [Workers -> WorkerPcs] /\ owns \in [Workers -> BOOLEAN]
  /\ job \in [Workers -> Runs \cup {NoRun}]
  /\ out \in [Workers -> Outcomes \cup TERMINAL_STATUSES \cup {"none"}]

\* At first no run is in anybody's hands.
LEMMA HandInit == Init => HInv
BY LocalInit, NoRunAssumption
   DEF Init, HInv, Idle, OneMessage, OneWorker, Acknowledged, NoCancellation, Working

\* A run stays in one pair of hands.
LEMMA HandStep ==
  ASSUME OneDelivery, HInv, [Next]_vars
  PROVE  HInv'
PROOF
<1>0. LocalInv' /\ Moves
  BY LocalStep, NextMoves DEF HInv
<1>1. Typed /\ Typed' /\ \A w \in Workers : pc[w] # "idle" => job[w] \in Runs
  BY <1>0 DEF HInv, LocalInv, TypeOK, Typed, WorkerHasJob
<1>2. Idle /\ OneMessage /\ OneWorker /\ Acknowledged /\ NoCancellation
  BY DEF HInv
<1> SUFFICES (Idle /\ OneMessage /\ OneWorker /\ Acknowledged /\ NoCancellation)'
  BY <1>0 DEF HInv
<1> USE DEF Working
<1>3. CASE Silent
  BY <1>2, <1>3 DEF Silent, Idle, OneMessage, OneWorker, Acknowledged, NoCancellation
<1>4. ASSUME NEW r \in Runs, RunMove(r)
      PROVE  (Idle /\ OneMessage /\ OneWorker /\ Acknowledged /\ NoCancellation)'
  <2>1. Idle' /\ OneWorker' /\ Acknowledged'
    BY <1>2, <1>4 DEF RunMove, Idle, OneWorker, Acknowledged
  <2>2. OneMessage'
    BY <1>1, <1>2, <1>4 DEF RunMove, OthersKept, Requests, Publishes, Reconciles, Deletes,
       OneMessage, Before, Typed
  <2>3. NoCancellation'
    BY <1>1, <1>2, <1>4 DEF RunMove, OthersKept, RowsKept, Requests, Publishes, Reconciles,
       Deletes, W, NoCancellation
  <2> QED
    BY <2>1, <2>2, <2>3
<1>5. ASSUME NEW w \in Workers, NEW r \in Runs, Takes(w, r)
      PROVE  (Idle /\ OneMessage /\ OneWorker /\ Acknowledged /\ NoCancellation)'
  <2>1. Idle' /\ Acknowledged' /\ NoCancellation'
    BY <1>1, <1>2, <1>5 DEF Takes, Idle, Acknowledged, NoCancellation
  <2>2. queue[r] = 1 /\ queue'[r] = 0 /\ ~ Working(r)
    BY <1>1, <1>2, <1>5 DEF Takes, OneMessage, Typed
  <2>3. OneMessage'
    BY <1>1, <1>2, <1>5, <2>2 DEF Takes, OneMessage, Before
  <2>4. OneWorker'
    BY <1>1, <1>2, <1>5, <2>2 DEF Takes, OneWorker, Idle
  <2> QED
    BY <2>1, <2>3, <2>4
<1>6. ASSUME NEW w \in Workers, NEW r \in Runs, WorkerMove(w, r)
      PROVE  (Idle /\ OneMessage /\ OneWorker /\ Acknowledged /\ NoCancellation)'
  <2>0. r = job[w] /\ pc[w] # "idle" /\ api' = api
    BY <1>6 DEF WorkerMove
  <2>1. \/ pc'[w] # "idle" /\ job'[w] = r /\ owns'[w] = owns[w] /\ queue'[r] = queue[r]
        \/ Ends(w) /\ queue'[r] \in {queue[r], queue[r] + 1}
    BY <1>6, <2>0 DEF WorkerMove, Looks, WritesTask, WritesRun, HandsBack, Goes
  <2>2. \A v \in Workers \ {w} : /\ pc'[v] = pc[v] /\ job'[v] = job[v]
                                 /\ owns'[v] = owns[v] /\ out'[v] = out[v]
    BY <1>6 DEF WorkerMove
  <2>3. Idle' /\ Acknowledged'
    BY <1>1, <1>2, <2>0, <2>1, <2>2 DEF Ends, Idle, Acknowledged
  <2>4. queue[r] = 0 /\ api[r] = "done" /\ \A v \in Workers \ {w} : job[v] # r
    BY <1>1, <1>2, <2>0 DEF OneMessage, OneWorker, Before, Typed
  <2>5. \A q \in Runs \ {r} : queue'[q] = queue[q]
    BY <1>6 DEF WorkerMove, OthersKept
  <2>6. OneMessage'
    BY <1>1, <1>2, <2>0, <2>1, <2>2, <2>4, <2>5, NoRunAssumption DEF Ends, OneMessage, Before
  <2>7. OneWorker'
    BY <1>1, <1>2, <2>0, <2>1, <2>2, <2>4, NoRunAssumption DEF Ends, OneWorker
  <2>8. NoCancellation'
    <3>1. \A q \in Runs : /\ cancel'[q] = "idle" /\ ~ revoked'[q]
                          /\ run'[q] # CANCELLED /\ task'[q] # CANCELLED
      BY <1>1, <1>2, <1>6 DEF WorkerMove, OthersKept, RowsKept, Looks, WritesTask, WritesRun,
         HandsBack, W, FinalStatus, NoCancellation
    <3>2. pc'[w] \notin {"cancelEarly", "cancelTask"} /\ out'[w] # CANCELLED
      BY <1>1, <1>2, <1>6 DEF WorkerMove, Looks, WritesTask, WritesRun, HandsBack, Goes,
         Ends, Outcomes, NoCancellation
    <3> QED
      BY <1>2, <2>2, <3>1, <3>2 DEF NoCancellation
  <2> QED
    BY <2>3, <2>6, <2>7, <2>8
<1> QED
  BY <1>0, <1>3, <1>4, <1>5, <1>6 DEF Moves

----------------------------------------------------------------------------
(* What the two rows say.                                                  *)

\* The rows while the creating request is under way.
Created ==
  \A r \in Runs :
    /\ api[r] \in {"none", "task", "rejected"} => run[r] = Absent
    /\ api[r] \in {"task", "created", "published"} => task[r] = CREATED
    /\ api[r] \in {"created", "published", "marked"} => run[r] = CREATED
    /\ api[r] = "marked" => task[r] = QUEUED
    /\ api[r] \in {"rejected", "unpublished"} => task[r] \in {FAILED, Absent}
    /\ api[r] = "unpublished" => run[r] \in {CREATED, FAILED, Absent}

\* A worker that has written the run row or found it ended.
Ended ==
  \A w \in Workers :
    /\ pc[w] = "replay" => run[job[w]] \in {out[w], Absent}
    /\ pc[w] = "finalizeTask" => run[job[w]] \in {FinalStatus(out[w]), Absent}
    /\ pc[w] = "failTask" => run[job[w]] \in {FAILED, Absent}
    /\ pc[w] = "finally" => run[job[w]] \notin ACTIVE_STATUSES

\* Success is final.
SuccessStays ==
  /\ \A r \in Runs : task[r] = SUCCESS => run[r] \in {SUCCESS, Absent}
  /\ \A w \in Workers : pc[w] # "idle" /\ run[job[w]] = SUCCESS
                          => pc[w] \in {"deliver", "replay", "finalizeTask", "finally"}

\* The rows may differ after the end only while somebody will look at them.
Differing == {"deliver", "replay", "noSlotRun", "markRun", "finalizeTask", "failTask"}
Agreement ==
  \A r \in Runs :
    \/ ~ is_terminal(run[r])
    \/ task[r] \in {run[r], Absent}
    \/ queue[r] = 1
    \/ \E w \in Workers : job[w] = r /\ pc[w] \in Differing

RInv == HInv /\ Created /\ Ended /\ SuccessStays /\ Agreement

\* There are no rows at first.
LEMMA RowInit == Init => RInv
BY HandInit, NoRunAssumption
   DEF Init, RInv, Created, Ended, SuccessStays, Agreement, is_terminal

\* The rows of a run, as its request writes them.
LEMMA CreatedStep ==
  ASSUME RInv, Typed, Moves
  PROVE  Created'
PROOF
<1>1. Created /\ OneMessage
  BY DEF RInv, HInv
<1>2. CASE Silent
  BY <1>1, <1>2 DEF Silent, Created
<1>3. ASSUME NEW r \in Runs, RunMove(r) PROVE Created'
  <2>1. CASE Requests(r)
    BY <1>1, <1>3, <2>1 DEF RunMove, OthersKept, RowsKept, Requests, W, Created, Typed
  <2>2. CASE Publishes(r)
    BY <1>1, <1>3, <2>2 DEF RunMove, OthersKept, RowsKept, Publishes, Created, Typed
  <2>3. CASE Reconciles(r) /\ api'[r] = api[r]
    <3>1. api[r] \in {"unpublished", "done"} \cup {"created", "published", "marked"}
      BY <1>1, <2>3 DEF Reconciles, Created, Typed, ApiPcs
    <3>2. api[r] \notin {"created", "published", "marked"}
      BY <1>1, <2>3 DEF Reconciles, ReconcileReason, OverBudget, is_terminal, Created
    <3> QED
      BY <1>1, <1>3, <2>3, <3>1, <3>2 DEF RunMove, OthersKept, Reconciles, is_terminal, W, Created, Typed
  <2>4. CASE Deletes(r) /\ api'[r] = api[r]
    BY <1>1, <1>3, <2>4 DEF RunMove, OthersKept, Deletes, is_terminal, Created, Typed
  <2> QED
    BY <1>3, <2>1, <2>2, <2>3, <2>4 DEF RunMove
<1>4. ASSUME NEW w \in Workers, NEW r \in Runs, Takes(w, r) PROVE Created'
  BY <1>1, <1>4 DEF Takes, Created
<1>5. ASSUME NEW w \in Workers, NEW r \in Runs, WorkerMove(w, r) PROVE Created'
  <2>1. api[r] = "done" /\ api' = api
    BY <1>1, <1>5 DEF WorkerMove, OneMessage, Working
  <2> QED
    BY <1>1, <1>5, <2>1 DEF WorkerMove, OthersKept, Created
<1> QED
  BY <1>2, <1>3, <1>4, <1>5 DEF Moves

\* A worker that has seen or written the end finds it again.
LEMMA EndedStep ==
  ASSUME RInv, Typed, Moves
  PROVE  Ended'
PROOF
<1>1. Ended /\ OneMessage /\ OneWorker /\ Idle
  BY DEF RInv, HInv
<1>2. \A w \in Workers : /\ pc[w] # "idle" => job[w] \in Runs
                         /\ pc[w] = "replay" => out[w] \in TERMINAL_STATUSES
  BY DEF RInv, HInv, LocalInv, WorkerHasJob, ReplayHasStatus
<1>3. CASE Silent
  BY <1>1, <1>3 DEF Silent, Ended
<1>4. ASSUME NEW r \in Runs, RunMove(r) PROVE Ended'
  <2>1. CASE Requests(r) \/ Publishes(r)
    <3>1. ~ Working(r)
      BY <1>1, <2>1 DEF Requests, Publishes, OneMessage, Typed
    <3> QED
      BY <1>1, <1>2, <1>4, <3>1 DEF RunMove, OthersKept, Working, Ended
  <2>2. CASE Reconciles(r)
    BY <1>1, <1>2, <1>4, <2>2 DEF RunMove, OthersKept, Reconciles, FinalStatus, Ended
  <2>3. CASE Deletes(r)
    BY <1>1, <1>2, <1>4, <2>3 DEF RunMove, OthersKept, Deletes, Ended
  <2> QED
    BY <1>4, <2>1, <2>2, <2>3 DEF RunMove
<1>5. ASSUME NEW w \in Workers, NEW r \in Runs, Takes(w, r) PROVE Ended'
  BY <1>1, <1>2, <1>5 DEF Takes, Ended
<1>6. ASSUME NEW w \in Workers, NEW r \in Runs, WorkerMove(w, r) PROVE Ended'
  <2>0. r = job[w] /\ pc[w] # "idle" /\ \A v \in Workers \ {w} : pc[v] # "idle" => job[v] \in Runs \ {r}
    BY <1>1, <1>2, <1>6 DEF WorkerMove, OneWorker
  <2>1. \A v \in Workers \ {w} : /\ pc'[v] = pc[v] /\ job'[v] = job[v] /\ out'[v] = out[v]
                                 /\ pc[v] # "idle" => run'[job[v]] = run[job[v]]
    BY <1>6, <2>0 DEF WorkerMove, OthersKept
  <2>2. /\ pc'[w] = "replay" => run'[job'[w]] \in {out'[w], Absent}
        /\ pc'[w] = "finalizeTask" => run'[job'[w]] \in {FinalStatus(out'[w]), Absent}
        /\ pc'[w] = "failTask" => run'[job'[w]] \in {FAILED, Absent}
        /\ pc'[w] = "finally" => run'[job'[w]] \notin ACTIVE_STATUSES
    <3>1. CASE Looks(w, r) /\ RowsKept(r)
      BY <2>0, <3>1 DEF Looks, RowsKept, Goes, Ends
    <3>2. CASE WritesTask(w, r) /\ run'[r] = run[r]
      BY <1>1, <2>0, <3>2 DEF WritesTask, Goes, Ends, FinalStatus, Ended
    <3>3. CASE WritesRun(w, r)
      BY <2>0, <3>3 DEF WritesRun, Goes, W
    <3>4. CASE HandsBack(w, r)
      BY <3>4 DEF HandsBack, Ends
    <3> QED
      BY <1>6, <3>1, <3>2, <3>3, <3>4 DEF WorkerMove
  <2> QED
    BY <1>1, <2>1, <2>2 DEF Ended
<1> QED
  BY <1>3, <1>4, <1>5, <1>6 DEF Moves

\* The status "success" is written once, first into the run row.
LEMMA SuccessStep ==
  ASSUME RInv, Typed, Moves
  PROVE  SuccessStays'
PROOF
<1>1. SuccessStays /\ Ended /\ Created /\ OneMessage /\ OneWorker /\ Idle
  BY DEF RInv, HInv
<1>2. \A w \in Workers : pc[w] # "idle" => job[w] \in Runs
  BY DEF RInv, HInv, LocalInv, WorkerHasJob
<1>3. CASE Silent
  BY <1>1, <1>3 DEF Silent, SuccessStays
<1>4. ASSUME NEW r \in Runs, RunMove(r) PROVE SuccessStays'
  <2>1. CASE Requests(r) \/ Publishes(r)
    <3>1. ~ Working(r)
      BY <1>1, <2>1 DEF Requests, Publishes, OneMessage, Typed
    <3>2. task'[r] # SUCCESS \/ RowsKept(r)
      <4>1. CASE Requests(r)
        BY <1>1, <4>1 DEF Requests, RowsKept, W, Created, Typed
      <4> QED
        BY <2>1, <4>1 DEF Publishes
    <3>3. task'[r] = SUCCESS => run'[r] \in {SUCCESS, Absent}
      BY <1>1, <3>2 DEF RowsKept, SuccessStays
    <3> QED
      BY <1>1, <1>2, <1>4, <3>1, <3>3 DEF RunMove, OthersKept, Working, SuccessStays
  <2>2. CASE Reconciles(r)
    BY <1>1, <1>2, <1>4, <2>2 DEF RunMove, OthersKept, Reconciles, is_terminal, W, SuccessStays
  <2>3. CASE Deletes(r)
    BY <1>1, <1>2, <1>4, <2>3 DEF RunMove, OthersKept, Deletes, SuccessStays
  <2> QED
    BY <1>4, <2>1, <2>2, <2>3 DEF RunMove
<1>5. ASSUME NEW w \in Workers, NEW r \in Runs, Takes(w, r) PROVE SuccessStays'
  BY <1>1, <1>2, <1>5 DEF Takes, SuccessStays
<1>6. ASSUME NEW w \in Workers, NEW r \in Runs, WorkerMove(w, r) PROVE SuccessStays'
  <2>0. r = job[w] /\ pc[w] # "idle" /\ \A v \in Workers \ {w} : pc[v] # "idle" => job[v] \in Runs \ {r}
    BY <1>1, <1>2, <1>6 DEF WorkerMove, OneWorker
  <2>1. \A v \in Workers \ {w} : /\ pc'[v] = pc[v] /\ job'[v] = job[v]
                                 /\ pc[v] # "idle" => run'[job[v]] = run[job[v]]
    BY <1>6, <2>0 DEF WorkerMove, OthersKept
  <2>2. /\ task'[r] = SUCCESS => run'[r] \in {SUCCESS, Absent}
        /\ pc'[w] # "idle" /\ run'[job'[w]] = SUCCESS
                => pc'[w] \in {"deliver", "replay", "finalizeTask", "finally"}
    <3>1. CASE Looks(w, r) /\ RowsKept(r)
      BY <1>1, <2>0, <3>1 DEF Looks, RowsKept, Goes, Ends, is_terminal, SuccessStays
    <3>2. CASE WritesTask(w, r) /\ run'[r] = run[r]
      BY <1>1, <2>0, <3>2 DEF WritesTask, Goes, Ends, W, FinalStatus, Ended, SuccessStays
    <3>3. CASE WritesRun(w, r) /\ task'[r] = task[r]
      BY <1>1, <2>0, <3>3 DEF WritesRun, Goes, W, FinalStatus, SuccessStays
    <3>4. CASE HandsBack(w, r)
      BY <1>1, <2>0, <3>4 DEF HandsBack, Ends, W, SuccessStays
    <3> QED
      BY <1>6, <3>1, <3>2, <3>3, <3>4 DEF WorkerMove
  <2>3. \A q \in Runs \ {r} : task'[q] = task[q] /\ run'[q] = run[q]
    BY <1>6 DEF WorkerMove, OthersKept
  <2> QED
    BY <1>1, <2>1, <2>2, <2>3 DEF SuccessStays
<1> QED
  BY <1>3, <1>4, <1>5, <1>6 DEF Moves

\* The rows differ only while the message or its worker is there to look.
LEMMA AgreementStep ==
  ASSUME RInv, Typed, Moves
  PROVE  Agreement'
PROOF
<1>1. SuccessStays /\ Ended /\ Created /\ OneMessage /\ OneWorker /\ Idle /\ Agreement
  BY DEF RInv, HInv
<1>2. \A w \in Workers : pc[w] # "idle" => job[w] \in Runs
  BY DEF RInv, HInv, LocalInv, WorkerHasJob
<1>3. CASE Silent
  BY <1>1, <1>3 DEF Silent, Agreement, Differing
<1>4. ASSUME NEW r \in Runs, RunMove(r) PROVE Agreement'
  <2>1. \/ ~ is_terminal(run'[r])
        \/ task'[r] \in {run'[r], Absent}
        \/ queue'[r] = 1
        \/ \E w \in Workers : job'[w] = r /\ pc'[w] \in Differing
    <3>1. CASE Requests(r) /\ queue'[r] = queue[r]
      <4>1. CASE RowsKept(r)
        BY <1>1, <1>4, <3>1, <4>1 DEF RunMove, RowsKept, Agreement
      <4>2. CASE ~ RowsKept(r)
        BY <1>1, <3>1, <4>2 DEF Requests, RowsKept, W, Created, is_terminal, Typed
      <4> QED
        BY <4>1, <4>2
    <3>2. CASE Publishes(r)
      BY <1>1, <3>2 DEF Publishes, RowsKept, Created, is_terminal
    <3>3. CASE Reconciles(r)
      BY <1>1, <3>3 DEF Reconciles, W, is_terminal, SuccessStays, RInv, HInv, NoCancellation
    <3>4. CASE Deletes(r) /\ queue'[r] = queue[r]
      BY <1>1, <3>4 DEF Deletes, is_terminal
    <3> QED
      BY <1>4, <3>1, <3>2, <3>3, <3>4 DEF RunMove
  <2> QED
    BY <1>1, <1>4, <2>1 DEF RunMove, OthersKept, Agreement
<1>5. ASSUME NEW w \in Workers, NEW r \in Runs, Takes(w, r) PROVE Agreement'
  BY <1>1, <1>5 DEF Takes, Agreement, Differing, Typed
<1>6. ASSUME NEW w \in Workers, NEW r \in Runs, WorkerMove(w, r) PROVE Agreement'
  <2>0. /\ r = job[w] /\ pc[w] # "idle" /\ queue[r] = 0
        /\ \A v \in Workers \ {w} : job[v] # r
    BY <1>1, <1>2, <1>6 DEF WorkerMove, OneWorker, OneMessage, Working
  <2>1. \/ ~ is_terminal(run'[r])
        \/ task'[r] \in {run'[r], Absent}
        \/ queue'[r] = 1
        \/ job'[w] = r /\ pc'[w] \in Differing
    <3>0. \/ ~ is_terminal(run[r]) \/ task[r] \in {run[r], Absent} \/ pc[w] \in Differing
      BY <1>1, <2>0 DEF Agreement
    <3>1. CASE Looks(w, r) /\ RowsKept(r)
      BY <1>1, <2>0, <3>0, <3>1 DEF Looks, RowsKept, Goes, Ends, is_terminal, Differing, Ended
    <3>2. CASE WritesTask(w, r) /\ run'[r] = run[r]
      BY <1>1, <2>0, <3>0, <3>2 DEF WritesTask, Goes, Ends, W, Differing, Ended, is_terminal
    <3>3. CASE WritesRun(w, r) /\ task'[r] = task[r]
      BY <1>1, <2>0, <3>0, <3>3 DEF WritesRun, Goes, W, Differing, is_terminal
    <3>4. CASE HandsBack(w, r)
      BY <2>0, <3>4 DEF HandsBack
    <3> QED
      BY <1>6, <3>1, <3>2, <3>3, <3>4 DEF WorkerMove
  <2>2. ASSUME NEW q \in Runs \ {r}
        PROVE  \/ ~ is_terminal(run'[q])
               \/ task'[q] \in {run'[q], Absent}
               \/ queue'[q] = 1
               \/ \E v \in Workers : job'[v] = q /\ pc'[v] \in Differing
    <3>1. task'[q] = task[q] /\ run'[q] = run[q] /\ queue'[q] = queue[q]
      BY <1>6 DEF WorkerMove, OthersKept
    <3>2. ASSUME NEW v \in Workers, job[v] = q, pc[v] \in Differing
          PROVE  job'[v] = q /\ pc'[v] \in Differing
      BY <1>6, <2>0, <3>2 DEF WorkerMove
    <3> QED
      BY <1>1, <3>1, <3>2 DEF Agreement
  <2> QED
    BY <2>1, <2>2 DEF Agreement
<1> QED
  BY <1>3, <1>4, <1>5, <1>6 DEF Moves

\* The invariant of the rows is inductive.
LEMMA RowStep ==
  ASSUME OneDelivery, RInv, [Next]_vars
  PROVE  RInv'
PROOF
<1>1. HInv' /\ Moves
  BY HandStep, NextMoves DEF RInv
<1>2. Typed
  BY DEF RInv, HInv, LocalInv, TypeOK, Typed
<1> QED
  BY <1>1, <1>2, CreatedStep, EndedStep, SuccessStep, AgreementStep DEF RInv

\* Once nothing is under way for a terminal run, its task row says the same,
\* for any number of runs, workers and slots: the writers of the two rows use
\* separate transactions, but a run is in one pair of hands and whoever is lost
\* between the two leaves a message whose redelivery looks at both.
THEOREM TaskRowFollows ==
  ASSUME OneDelivery
  PROVE  Spec => []TaskFollowsRun
PROOF
<1>1. RInv => TaskFollowsRun
  BY DEF RInv, Agreement, TaskFollowsRun, Quiescent
<1>2. Init => RInv
  BY RowInit
<1>3. RInv /\ [Next]_vars => RInv'
  BY RowStep
<1> QED
  BY <1>1, <1>2, <1>3, PTL DEF Spec

----------------------------------------------------------------------------
(* No run is left active with nobody to look at it.                        *)

\* A published message reaches its worker, and a worker that is given it ends
\* or hands it back: no request dies half-way, every project can be resolved,
\* and no INSERT follows a failed one (a single slot, or SQLite).
Attentive ==
  /\ Faults \cap {"api_crash", "project_missing"} = {}
  /\ Limit = 1 \/ "postgresql" \notin Databases

Posted == \A r \in Runs : api[r] \in {"published", "marked"} => queue[r] = 1
Attended ==
  \A r \in Runs :
    api[r] = "done" /\ run[r] \in ACTIVE_STATUSES /\ task[r] \in ACTIVE_STATUSES
      => queue[r] = 1 \/ Working(r)

NInv == RInv /\ Posted /\ Attended

\* A run with two active rows keeps its message or its worker.
LEMMA NoStrandedStep ==
  ASSUME OneDelivery, Attentive, NInv, [Next]_vars
  PROVE  NInv'
PROOF
<1>0. RInv' /\ Moves
  BY RowStep, NextMoves DEF NInv, RInv
<1>1. Ended /\ Created /\ OneMessage /\ OneWorker /\ Posted /\ Attended
  BY DEF NInv, RInv, HInv
<1>2. Typed /\ \A w \in Workers : /\ pc[w] # "idle" => job[w] \in Runs
                                  /\ pc[w] = "replay" => out[w] \in TERMINAL_STATUSES
  BY DEF NInv, RInv, HInv, LocalInv, TypeOK, WorkerHasJob, ReplayHasStatus, Typed
<1>3. ~ ("project_missing" \in Faults \/ (Postgres /\ Limit > 1)) /\ "api_crash" \notin Faults
  BY LimitAssumption DEF Attentive, Postgres, NInv, RInv, HInv, LocalInv, TypeOK
<1>4. CASE Silent
  BY <1>0, <1>1, <1>4 DEF Silent, NInv, Posted, Attended, Working
<1>5. ASSUME NEW r \in Runs, RunMove(r) PROVE Posted' /\ Attended'
  <2>1. api'[r] \in {"published", "marked"} => queue'[r] = 1
    BY <1>1, <1>2, <1>5 DEF RunMove, Requests, Publishes, OneMessage, Before, Posted, Typed
  <2>2. api'[r] = "done" /\ run'[r] \in ACTIVE_STATUSES /\ task'[r] \in ACTIVE_STATUSES
           => queue'[r] = 1 \/ Working(r)
    <3>1. CASE Requests(r) /\ queue'[r] = queue[r]
      BY <1>1, <1>3, <3>1 DEF Requests, W, Posted
    <3>2. CASE Publishes(r)
      BY <3>2 DEF Publishes
    <3>3. CASE Reconciles(r)
      BY <3>3 DEF Reconciles
    <3>4. CASE Deletes(r)
      BY <3>4 DEF Deletes
    <3> QED
      BY <1>5, <3>1, <3>2, <3>3, <3>4 DEF RunMove
  <2> QED
    BY <1>1, <1>5, <2>1, <2>2 DEF RunMove, OthersKept, Posted, Attended, Working
<1>6. ASSUME NEW w \in Workers, NEW r \in Runs, Takes(w, r) PROVE Posted' /\ Attended'
  <2>1. \A q \in Runs : Working(q) => Working(q)' \/ q = job[w]
    BY <1>6 DEF Takes, Working
  <2>2. \A q \in Runs : Working(q) => Working(q)'
    BY <1>2, <1>6, <2>1, NoRunAssumption DEF Takes, NInv, RInv, HInv, Idle
  <2>3. Working(r)'
    BY <1>6 DEF Takes, Working
  <2> QED
    BY <1>1, <1>6, <2>2, <2>3 DEF Takes, Posted, Attended
<1>7. ASSUME NEW w \in Workers, NEW r \in Runs, WorkerMove(w, r) PROVE Posted' /\ Attended'
  <2>0. r = job[w] /\ pc[w] # "idle" /\ queue[r] = 0 /\ api[r] = "done"
    BY <1>1, <1>2, <1>7 DEF WorkerMove, OneMessage, Working, Before, Typed
  <2>1. \A q \in Runs \ {r} : Working(q) => Working(q)'
    BY <1>7 DEF WorkerMove, Working
  <2>2. \/ job'[w] = r \/ queue'[r] = 1
        \/ run'[r] \notin ACTIVE_STATUSES \/ task'[r] \notin ACTIVE_STATUSES
    <3>1. CASE Looks(w, r) /\ RowsKept(r)
      BY <1>1, <1>3, <2>0, <3>1 DEF Looks, RowsKept, Goes, is_terminal, Ended
    <3>2. CASE WritesTask(w, r) /\ run'[r] = run[r]
      BY <1>1, <1>2, <2>0, <3>2 DEF WritesTask, Goes, Ended
    <3>3. CASE WritesRun(w, r)
      BY <2>0, <3>3 DEF WritesRun, Goes
    <3>4. CASE HandsBack(w, r)
      BY <2>0, <3>4 DEF HandsBack
    <3> QED
      BY <1>7, <3>1, <3>2, <3>3, <3>4 DEF WorkerMove
  <2>3. job'[w] = r => Working(r)'
    BY DEF Working
  <2>4. Posted'
    BY <1>1, <1>7, <2>0 DEF WorkerMove, OthersKept, Posted
  <2> QED
    BY <1>1, <1>7, <2>1, <2>2, <2>3, <2>4 DEF WorkerMove, OthersKept, Attended
<1> QED
  BY <1>0, <1>4, <1>5, <1>6, <1>7 DEF Moves, NInv

\* An active run for which nothing is under way is one the reconciler will end,
\* whatever workers are lost, executions time out and history is deleted: a
\* run with two active rows always has its message or its worker.
THEOREM NothingStranded ==
  ASSUME OneDelivery, Attentive
  PROVE  Spec => []NoStrandedRun
PROOF
<1>1. NInv => NoStrandedRun
  <2> SUFFICES ASSUME NInv, NEW r \in Runs, Quiescent(r), run[r] \in ACTIVE_STATUSES
               PROVE  ReconcileReason(r)
    BY DEF NoStrandedRun
  <2>1. task[r] \in Statuses
    BY DEF NInv, RInv, HInv, LocalInv, TypeOK
  <2>2. api[r] = "none" => run[r] = Absent
    BY DEF NInv, RInv, Created
  <2>3. task[r] \notin ACTIVE_STATUSES
    BY <2>2 DEF Quiescent, NInv, Attended, Working
  <2> QED
    BY <2>1, <2>3 DEF ReconcileReason, is_terminal
<1>2. Init => NInv
  BY RowInit DEF Init, NInv, Posted, Attended
<1>3. NInv /\ [Next]_vars => NInv'
  BY NoStrandedStep
<1> QED
  BY <1>1, <1>2, <1>3, PTL DEF Spec

----------------------------------------------------------------------------
(* The contract.                                                           *)

WithinBudget == "over_budget" \notin Faults

\* Without executions over budget the reconciler leaves a run alone while it
\* is in somebody's hands, so whoever writes the run row knows its status.
Ending == {"deliver", "replay", "finalizeTask", "failTask", "finally"}
LeftAlone ==
  /\ \A r \in Runs : run[r] \in ACTIVE_STATUSES /\ task[r] \notin ACTIVE_STATUSES
                       => queue[r] = 0 /\ ~ Working(r) /\ api[r] \in {"unpublished", "done"}
  /\ \A w \in Workers : pc[w] # "idle" /\ is_terminal(run[job[w]]) => pc[w] \in Ending

UInv == RInv /\ LeftAlone

\* The reconciler ends a run that nobody works on.
LEMMA ReconcilesIdle ==
  ASSUME WithinBudget, UInv, NEW r \in Runs, run[r] \in ACTIVE_STATUSES, ReconcileReason(r)
  PROVE  ~ Working(r)
PROOF
<1>1. CASE task[r] \notin ACTIVE_STATUSES
  BY <1>1 DEF UInv, LeftAlone
<1>2. CASE task[r] \in ACTIVE_STATUSES
  BY <1>2 DEF ReconcileReason, is_terminal, OverBudget, WithinBudget, Working
<1> QED
  BY <1>1, <1>2

\* No step ends a run behind the back of its worker.
LEMMA LeftAloneStep ==
  ASSUME OneDelivery, WithinBudget, UInv, [Next]_vars
  PROVE  UInv'
PROOF
<1>0. RInv' /\ Moves
  BY RowStep, NextMoves DEF UInv, RInv
<1>1. Ended /\ Created /\ OneMessage /\ OneWorker /\ Idle /\ LeftAlone
  BY DEF UInv, RInv, HInv
<1>2. /\ Typed /\ Typed'
      /\ \A w \in Workers : /\ pc[w] # "idle" => job[w] \in Runs
                            /\ pc[w] = "replay" => out[w] \in TERMINAL_STATUSES
  BY <1>0 DEF UInv, RInv, HInv, LocalInv, TypeOK, WorkerHasJob, ReplayHasStatus, Typed
<1>3. CASE Silent
  BY <1>0, <1>1, <1>3 DEF Silent, UInv, LeftAlone, Working, is_terminal
<1>4. ASSUME NEW r \in Runs, RunMove(r) PROVE LeftAlone'
  <2>1. run'[r] \in ACTIVE_STATUSES /\ task'[r] \notin ACTIVE_STATUSES
           => queue'[r] = 0 /\ ~ Working(r) /\ api'[r] \in {"unpublished", "done"}
    <3>1. CASE Requests(r) /\ queue'[r] = queue[r]
      BY <1>1, <1>2, <3>1 DEF Requests, RowsKept, W, Created, OneMessage, Before, LeftAlone, Typed
    <3>2. CASE Publishes(r)
      BY <1>1, <3>2 DEF Publishes, RowsKept, Created
    <3>3. CASE Reconciles(r)
      BY <3>3 DEF Reconciles
    <3>4. CASE Deletes(r) /\ queue'[r] = queue[r] /\ api'[r] = api[r]
      BY <1>1, <1>2, <3>4 DEF Deletes, is_terminal, LeftAlone
    <3> QED
      BY <1>4, <3>1, <3>2, <3>3, <3>4 DEF RunMove
  <2>2. ~ Working(r) \/ (Deletes(r) /\ run'[r] \in {run[r], Absent})
    BY <1>1, <1>4, ReconcilesIdle DEF RunMove, Requests, Publishes, Reconciles, Deletes, OneMessage
  <2>3. \A w \in Workers : pc[w] # "idle" /\ is_terminal(run'[job[w]]) => pc[w] \in Ending
    <3> SUFFICES ASSUME NEW w \in Workers, pc[w] # "idle", is_terminal(run'[job[w]])
                 PROVE  pc[w] \in Ending
      OBVIOUS
    <3>1. job[w] \in Runs /\ (job[w] # r => run'[job[w]] = run[job[w]])
      BY <1>2, <1>4 DEF RunMove, OthersKept
    <3>2. job[w] = r => run'[r] \in {run[r], Absent}
      BY <2>2 DEF Working
    <3>3. is_terminal(run[job[w]])
      BY <3>1, <3>2 DEF is_terminal
    <3> QED
      BY <1>1, <3>3 DEF LeftAlone
  <2> QED
    BY <1>1, <1>4, <2>1, <2>3 DEF RunMove, OthersKept, LeftAlone, Working
<1>5. ASSUME NEW w \in Workers, NEW r \in Runs, Takes(w, r) PROVE LeftAlone'
  <2>1. \A q \in Runs \ {r} : Working(q)' => Working(q)
    BY <1>5 DEF Takes, Working
  <2>2. ~ (run[r] \in ACTIVE_STATUSES /\ task[r] \notin ACTIVE_STATUSES)
    BY <1>1, <1>2, <1>5 DEF Takes, LeftAlone, Typed
  <2>3. \A v \in Workers : pc'[v] # "idle" /\ is_terminal(run[job'[v]]) => pc'[v] \in Ending
    BY <1>1, <1>5 DEF Takes, LeftAlone, Ending
  <2> QED
    BY <1>1, <1>5, <2>1, <2>2, <2>3 DEF Takes, LeftAlone
<1>6. ASSUME NEW w \in Workers, NEW r \in Runs, WorkerMove(w, r) PROVE LeftAlone'
  <2>0. /\ r = job[w] /\ pc[w] # "idle" /\ queue[r] = 0 /\ api[r] = "done"
        /\ \A v \in Workers \ {w} : pc[v] # "idle" => job[v] \in Runs \ {r}
    <3>1. r = job[w] /\ pc[w] # "idle" /\ Working(r)
      BY <1>6 DEF WorkerMove, Working
    <3> QED
      BY <1>1, <1>2, <3>1 DEF OneMessage, OneWorker
  <2>1. \A q \in Runs \ {r} : Working(q)' => Working(q)
    BY <1>1, <1>2, <1>6, <2>0, NoRunAssumption
       DEF WorkerMove, Working, Looks, WritesTask, WritesRun, HandsBack, Goes, Ends
  <2>2. ~ (run[r] \in ACTIVE_STATUSES /\ task[r] \notin ACTIVE_STATUSES)
    BY <1>1, <2>0 DEF LeftAlone, Working
  <2>3. is_terminal(run[r]) => pc[w] \in Ending
    BY <1>1, <2>0 DEF LeftAlone
  <2>4. /\ ~ (run'[r] \in ACTIVE_STATUSES /\ task'[r] \notin ACTIVE_STATUSES)
        /\ pc'[w] # "idle" /\ is_terminal(run'[job'[w]]) => pc'[w] \in Ending
    <3>1. CASE Looks(w, r) /\ RowsKept(r)
      BY <2>0, <2>2, <2>3, <3>1 DEF Looks, RowsKept, Goes, Ends, is_terminal, Ending
    <3>2. CASE WritesTask(w, r) /\ run'[r] = run[r]
      BY <1>1, <1>2, <2>0, <2>2, <2>3, <3>2 
         DEF WritesTask, Goes, Ends, W, FinalStatus, Ended, is_terminal, Ending, Typed
    <3>3. CASE WritesRun(w, r) /\ task'[r] = task[r]
      BY <1>2, <2>0, <2>2, <2>3, <3>3 DEF WritesRun, Goes, W, FinalStatus, is_terminal, Ending, Typed
    <3>4. CASE HandsBack(w, r)
      BY <1>2, <2>0, <2>2, <2>3, <3>4 DEF HandsBack, Ends, W, is_terminal, Ending, Typed
    <3> QED
      BY <1>6, <3>1, <3>2, <3>3, <3>4 DEF WorkerMove
  <2>5. \A v \in Workers \ {w} : pc'[v] # "idle" /\ is_terminal(run'[job'[v]]) => pc'[v] \in Ending
    BY <1>1, <1>6, <2>0 DEF WorkerMove, OthersKept, LeftAlone
  <2>6. \A q \in Runs \ {r} : /\ run'[q] = run[q] /\ task'[q] = task[q]
                              /\ queue'[q] = queue[q] /\ api'[q] = api[q]
    BY <1>6 DEF WorkerMove, OthersKept
  <2> QED
    BY <1>1, <2>1, <2>4, <2>5, <2>6 DEF LeftAlone
<1> QED
  BY <1>0, <1>3, <1>4, <1>5, <1>6 DEF Moves, UInv

\* A step that writes one run row is a step of the contract when the row was
\* active, or when the row is created.
LEMMA RowWritten ==
  ASSUME Typed, Typed', NEW r \in Runs,
         \A q \in Runs \ {r} : run'[q] = run[q], BornRuns' = BornRuns,
         \/ run'[r] = run[r]
         \/ run[r] \in ACTIVE_STATUSES /\ run'[r] \in {QUEUED, RUNNING, SUCCESS, FAILED}
         \/ is_terminal(run[r]) /\ run'[r] = Absent
  PROVE  [Contract!Next]_(Contract!vars)
PROOF
<1>1. run' = [run EXCEPT ![r] = run'[r]]
  BY DEF Typed
<1>2. CASE run'[r] = run[r]
  <2>1. run' = run
    BY <1>2 DEF Typed
  <2> QED
    BY <2>1 DEF Contract!vars
<1>3. CASE run[r] \in ACTIVE_STATUSES /\ run'[r] \in {QUEUED, RUNNING}
  <2>1. Contract!Progress(r, run'[r])
    BY <1>1, <1>3 DEF Contract!Progress, Contract!Active
  <2> QED
    BY <1>3, <2>1 DEF Contract!Next
<1>4. CASE run[r] \in ACTIVE_STATUSES /\ run'[r] \in {SUCCESS, FAILED}
  <2>1. Contract!End(r, run'[r])
    BY <1>1, <1>4 DEF Contract!End, Contract!Active, Contract!Terminal
  <2> QED
    BY <1>4, <2>1 DEF Contract!Next, Contract!Terminal
<1>5. CASE is_terminal(run[r]) /\ run'[r] = Absent
  <2>1. Contract!Delete(r)
    BY <1>1, <1>5 DEF Contract!Delete, Contract!Terminal, is_terminal
  <2> QED
    BY <2>1 DEF Contract!Next
<1> QED
  BY <1>2, <1>3, <1>4, <1>5

\* Every step is a step of the contract or leaves its variables alone.
LEMMA ContractStep ==
  ASSUME OneDelivery, WithinBudget, "api_crash" \notin Faults, UInv, [Next]_vars
  PROVE  [Contract!Next]_(Contract!vars)
PROOF
<1>0. UInv' /\ Moves
  BY LeftAloneStep, NextMoves DEF UInv, RInv
<1>1. Ended /\ Created /\ OneMessage /\ OneWorker /\ LeftAlone
  BY DEF UInv, RInv, HInv
<1>2. /\ Typed /\ Typed'
      /\ \A w \in Workers : pc[w] # "idle" => job[w] \in Runs
  BY <1>0 DEF UInv, RInv, HInv, LocalInv, TypeOK, WorkerHasJob, Typed
<1>3. CASE Silent
  BY <1>3 DEF Silent, BornRuns, Contract!vars
<1>4. ASSUME NEW r \in Runs, RunMove(r) PROVE [Contract!Next]_(Contract!vars)
  <2>1. \A q \in Runs \ {r} : run'[q] = run[q] /\ api'[q] = api[q]
    BY <1>4 DEF RunMove, OthersKept
  <2>2. CASE \/ api[r] = "task" /\ api'[r] = "created" /\ run'[r] = CREATED
             \/ api[r] = "rejected" /\ api'[r] = "done" /\ run'[r] = FAILED
    <3>1. r \notin BornRuns /\ BornRuns' = BornRuns \cup {r}
      BY <2>1, <2>2 DEF BornRuns
    <3>2. run' = [run EXCEPT ![r] = run'[r]]
      BY <1>2, <2>1 DEF Typed
    <3>3. Contract!Create(r, run'[r])
      BY <2>2, <3>1, <3>2 DEF Contract!Create
    <3> QED
      BY <2>2, <3>3 DEF Contract!Next
  <2>3. CASE ~ ( \/ api[r] = "task" /\ api'[r] = "created" /\ run'[r] = CREATED
                 \/ api[r] = "rejected" /\ api'[r] = "done" /\ run'[r] = FAILED )
    <3>1. (api'[r] \in {"none", "task", "rejected"}) <=> (api[r] \in {"none", "task", "rejected"})
      BY <1>4, <2>3 DEF RunMove, Requests, Publishes
    <3>2. BornRuns' = BornRuns
      BY <2>1, <3>1 DEF BornRuns
    <3>3. \/ run'[r] = run[r]
          \/ run[r] \in ACTIVE_STATUSES /\ run'[r] \in {QUEUED, RUNNING, SUCCESS, FAILED}
          \/ is_terminal(run[r]) /\ run'[r] = Absent
      <4>1. CASE Requests(r)
        BY <1>1, <2>3, <4>1 DEF Requests, RowsKept, W, Created
      <4>2. CASE Publishes(r) \/ Reconciles(r) \/ Deletes(r)
        BY <4>2 DEF Publishes, RowsKept, Reconciles, Deletes
      <4> QED
        BY <1>4, <4>1, <4>2 DEF RunMove
    <3> QED
      BY <1>2, <2>1, <3>2, <3>3, RowWritten
  <2> QED
    BY <2>2, <2>3
<1>5. ASSUME NEW w \in Workers, NEW r \in Runs, Takes(w, r) PROVE [Contract!Next]_(Contract!vars)
  BY <1>5 DEF Takes, BornRuns, Contract!vars
<1>6. ASSUME NEW w \in Workers, NEW r \in Runs, WorkerMove(w, r) PROVE [Contract!Next]_(Contract!vars)
  <2>0. /\ r = job[w] /\ pc[w] # "idle" /\ api' = api
        /\ \A q \in Runs \ {r} : run'[q] = run[q]
    BY <1>6 DEF WorkerMove, OthersKept
  <2>1. BornRuns' = BornRuns
    BY <2>0 DEF BornRuns
  <2>2. is_terminal(run[r]) => pc[w] \in Ending
    BY <1>1, <2>0 DEF LeftAlone
  <2>3. run'[r] = run[r] \/ (run[r] \in ACTIVE_STATUSES /\ run'[r] \in {QUEUED, RUNNING, SUCCESS, FAILED})
    <3>1. run[r] \in ACTIVE_STATUSES \/ run[r] = Absent \/ pc[w] \in Ending
      BY <1>2, <2>2 DEF Typed, is_terminal
    <3>2. CASE WritesRun(w, r) \/ HandsBack(w, r)
      BY <3>1, <3>2 DEF WritesRun, HandsBack, W, FinalStatus, Ending
    <3> QED
      BY <1>6, <3>2 DEF WorkerMove, RowsKept
  <2> QED
    BY <1>2, <2>0, <2>1, <2>3, RowWritten
<1> QED
  BY <1>0, <1>3, <1>4, <1>5, <1>6 DEF Moves

\* Without cancellations, late answers of the dispatcher, lost requests and
\* executions over budget, the rows of every run keep BacktestContract for any
\* number of runs, workers and slots: a run is created once, and its terminal
\* status is never taken back, whoever is lost on the way.
THEOREM RunsKeepContract ==
  ASSUME OneDelivery, WithinBudget, "api_crash" \notin Faults
  PROVE  Spec => Contract!Spec
PROOF
<1>1. Init => UInv
  BY RowInit, NoRunAssumption DEF Init, UInv, LeftAlone
<1>2. UInv /\ [Next]_vars => UInv'
  BY LeftAloneStep
<1>3. Init => Contract!Init
  BY DEF Init, Contract!Init, BornRuns
<1>4. UInv /\ [Next]_vars => [Contract!Next]_(Contract!vars)
  BY ContractStep
<1> QED
  BY <1>1, <1>2, <1>3, <1>4, PTL DEF Spec, Contract!Spec

----------------------------------------------------------------------------
(* The scheduler leases bound the executions.                               *)

Renewed == "renewal_loss" \notin Faults

\* The lease of a worker that will still execute or write its run is there and
\* fresh, and the id a worker releases by is the id of its own run's row.
BusyPcs == {"markTask", "markRun", "execute", "reread", "saveOutputs", "persist",
            "certify", "finalizeRun", "except", "failRun"}
HasSlot(w) ==
  \E s \in Slots : /\ lease[s] # NoLease /\ lease[s].id = held[w]
                   /\ lease[s].holder = job[w] /\ lease[s].fresh
Leased ==
  /\ \A w \in Workers : pc[w] = "idle" => held[w] = NoLease
  /\ \A w \in Workers : pc[w] \in BusyPcs => HasSlot(w)
  /\ \A w \in Workers, s \in Slots :
       lease[s] # NoLease /\ lease[s].id = held[w] => lease[s].holder = job[w]

SInv == UInv /\ LeasesDistinct /\ Leased

\* A set of natural numbers that is not empty has a least element.
LEMMA LeastSlot ==
  ASSUME NEW S \in SUBSET Nat, S # {}
  PROVE  \E x \in S : \A y \in S : x <= y
PROOF
<1>1. PICK x \in S : \A y \in S : ~(<<y, x>> \in OpToRel(<, Nat))
  BY WFMin, NatLessThanWellFounded, Zenon
<1>2. \A y \in S : ~(y < x)
  BY <1>1 DEF OpToRel
<1> QED
  BY <1>2

\* The slot of the first INSERT without a conflict was free.
LEMMA FirstIsFree ==
  ASSUME NEW table, FreeSlots(table) # {}
  PROVE  FirstFree(table) \in Slots /\ table[FirstFree(table)] = NoLease
PROOF
<1>1. FreeSlots(table) \in SUBSET Nat
  BY LimitAssumption DEF FreeSlots, Slots
<1>2. \E x \in FreeSlots(table) : \A y \in FreeSlots(table) : x <= y
  BY <1>1, LeastSlot
<1>3. FirstFree(table) \in FreeSlots(table)
  BY <1>2, Zenon DEF FirstFree
<1> QED
  BY <1>3 DEF FreeSlots

\* The run of a busy worker has not ended, so purging keeps its lease.
LEMMA PurgeKeeps ==
  ASSUME UInv, Leased, NEW w \in Workers, pc[w] \in BusyPcs
  PROVE  \E s \in Slots : /\ lease[s] # NoLease /\ PurgedLeases[s] = lease[s]
                          /\ lease[s].id = held[w] /\ lease[s].holder = job[w] /\ lease[s].fresh
PROOF
<1>1. PICK s \in Slots : /\ lease[s] # NoLease /\ lease[s].id = held[w]
                         /\ lease[s].holder = job[w] /\ lease[s].fresh
  BY DEF Leased, HasSlot
<1>2. ~ is_terminal(run[job[w]])
  BY DEF UInv, LeftAlone, BusyPcs, Ending
<1>3. PurgedLeases[s] = lease[s]
  BY <1>1, <1>2 DEF PurgedLeases
<1> QED
  BY <1>1, <1>3

\* Rows that are kept, and workers that do not move, keep what Leased says.
LEMMA StillLeased ==
  ASSUME Leased, NEW w \in Workers, held'[w] = held[w], job'[w] = job[w],
         pc'[w] \in BusyPcs => pc[w] \in BusyPcs,
         \A s \in Slots : lease'[s] \in {lease[s], NoLease},
         \A s \in Slots : lease[s] # NoLease /\ lease[s].id = held[w] /\ lease[s].holder = job[w]
                            /\ lease[s].fresh /\ pc'[w] \in BusyPcs => lease'[s] = lease[s]
  PROVE  /\ pc'[w] \in BusyPcs => HasSlot(w)'
         /\ \A s \in Slots : lease'[s] # NoLease /\ lease'[s].id = held'[w]
                               => lease'[s].holder = job'[w]
BY DEF Leased, HasSlot

\* The steps of a worker outside acquire and the finally block.
LEMMA WorkerHolds ==
  ASSUME HInv, NEW w \in Workers, WorkerStep(w),
         ~ (AcquireExisting(w) \/ AcquireNew(w) \/ AcquireNone(w) \/ Finally(w))
  PROVE  /\ lease' = lease
         /\ \/ Finish(w)
            \/ /\ held' = held /\ job' = job /\ pc'[w] # "idle"
               /\ pc'[w] \in BusyPcs => pc[w] \in BusyPcs
               /\ \A v \in Workers \ {w} : pc'[v] = pc[v]
PROOF
<1>0. pc \in [Workers -> WorkerPcs]
  BY DEF HInv, LocalInv, TypeOK
<1>a. ASSUME NEW l \in WorkerPcs, Goto(w, l), UNCHANGED <<lease, held, job>>, l # "idle",
             l \in BusyPcs => pc[w] \in BusyPcs
      PROVE  /\ lease' = lease /\ held' = held /\ job' = job /\ pc'[w] # "idle"
             /\ pc'[w] \in BusyPcs => pc[w] \in BusyPcs
             /\ \A v \in Workers \ {w} : pc'[v] = pc[v]
  BY <1>0, <1>a DEF Goto
<1>b. {"start", "replay", "cancelEarly", "acquire", "noSlotRun"} \subseteq WorkerPcs \ ({"idle"} \cup BusyPcs)
  BY DEF WorkerPcs, GuardPcs, EntryPcs, BusyPcs
<1>c. {"finally", "cancelTask", "finalizeTask", "failTask"} \subseteq WorkerPcs \ ({"idle"} \cup BusyPcs)
  BY DEF WorkerPcs, LeasePcs, BusyPcs
<1>d. BusyPcs \subseteq WorkerPcs \ {"idle"}
  BY DEF WorkerPcs, LeasePcs, BusyPcs
<1> USE DEF rowVars, brokerVars, clientVars, localVars
<1>1. CASE Deliver(w)
  BY <1>1, <1>a, <1>b DEF Deliver
<1>2. CASE ReplayTask(w) \/ CancelEarly(w) \/ ProjectRejected(w) \/ AcquireRaises(w)
  BY <1>2 DEF ReplayTask, CancelEarly, ProjectRejected, AcquireRaises
<1>3. CASE Start(w)
  BY <1>3, <1>a, <1>b DEF Start
<1>4. CASE NoSlotTask(w)
  BY <1>4, <1>a, <1>b DEF NoSlotTask
<1>5. CASE NoSlotRun(w)
  BY <1>5 DEF NoSlotRun
<1>6. CASE MarkTask(w)
  BY <1>6, <1>a, <1>d DEF MarkTask, BusyPcs
<1>7. CASE MarkRun(w)
  BY <1>7, <1>a, <1>d DEF MarkRun, BusyPcs
<1>8. CASE Execute(w)
  BY <1>8, <1>a, <1>d DEF Execute, BusyPcs
<1>9. CASE Reread(w)
  BY <1>9, <1>a, <1>c, <1>d DEF Reread, BusyPcs
<1>10. CASE CancelTask(w) \/ FinalizeTask(w) \/ FailTask(w)
  BY <1>10, <1>a, <1>c DEF CancelTask, FinalizeTask, FailTask
<1>11. CASE SaveOutputs(w)
  BY <1>11, <1>a, <1>d DEF SaveOutputs, BusyPcs
<1>12. CASE Persist(w)
  BY <1>12, <1>a, <1>d DEF Persist, BusyPcs
<1>13. CASE Certify(w)
  BY <1>13, <1>a, <1>d DEF Certify, BusyPcs
<1>14. CASE FinalizeRun(w) \/ FailRun(w)
  BY <1>14, <1>a, <1>c DEF FinalizeRun, FailRun
<1>15. CASE Except(w)
  BY <1>15, <1>a, <1>c, <1>d DEF Except, BusyPcs
<1> QED
  BY <1>1, <1>2, <1>3, <1>4, <1>5, <1>6, <1>7, <1>8, <1>9, <1>10, <1>11, <1>12, <1>13,
     <1>14, <1>15 DEF WorkerStep

\* What Leased says of a worker.
LeasedOne(w) ==
  /\ pc[w] = "idle" => held[w] = NoLease
  /\ pc[w] \in BusyPcs => HasSlot(w)
  /\ \A s \in Slots : lease[s] # NoLease /\ lease[s].id = held[w] => lease[s].holder = job[w]

\* A worker without a lease releases nobody's.
LEMMA NoLeaseOne ==
  ASSUME lease' \in [Slots -> LeaseRows \cup {NoLease}],
         NEW w \in Workers, held'[w] = NoLease, pc'[w] \notin BusyPcs
  PROVE  LeasedOne(w)'
PROOF
<1>1. \A s \in Slots : lease'[s] # NoLease => lease'[s].id \in LeaseIds
  BY DEF LeaseRows
<1> QED
  BY <1>1, NoLeaseAssumption DEF LeasedOne

\* A worker that stays where it is keeps its lease when its row is kept.
LEMMA KeptOne ==
  ASSUME Leased, NEW w \in Workers, held'[w] = held[w], job'[w] = job[w],
         pc'[w] = pc[w] \/ (pc'[w] # "idle" /\ (pc'[w] \in BusyPcs => pc[w] \in BusyPcs)),
         \A s \in Slots : lease'[s] \in {lease[s], NoLease},
         \A s \in Slots : lease[s] # NoLease /\ lease[s].id = held[w] /\ lease[s].holder = job[w]
                            /\ lease[s].fresh /\ pc'[w] \in BusyPcs => lease'[s] = lease[s]
  PROVE  LeasedOne(w)'
BY StillLeased DEF Leased, LeasedOne

\* A step of a worker leaves every worker with its slot.
LEMMA LeasedWorkerStep ==
  ASSUME SInv, LocalInv', NEW w \in Workers, WorkerStep(w)
  PROVE  \A v \in Workers : LeasedOne(v)'
PROOF
<1>0. HInv /\ UInv /\ Leased /\ LeasesDistinct
  BY DEF SInv, UInv, RInv
<1>1. /\ lease \in [Slots -> LeaseRows \cup {NoLease}] /\ lease' \in [Slots -> LeaseRows \cup {NoLease}]
      /\ pc \in [Workers -> WorkerPcs] /\ job \in [Workers -> Runs \cup {NoRun}]
      /\ held \in [Workers -> LeaseIds \cup {NoLease}]
  BY <1>0 DEF HInv, LocalInv, TypeOK
<1>2. /\ job[w] \in Runs /\ pc[w] # "idle"
      /\ \A v \in Workers \ {w} : pc'[v] = pc[v] /\ job'[v] = job[v] /\ job[v] # job[w]
  BY <1>0, WorkerKeeps DEF HInv, OneWorker
<1>3. ASSUME Finish(w) PROVE LeasedOne(w)' /\ \A v \in Workers \ {w} : held'[v] = held[v]
  <2>1. held'[w] = NoLease /\ pc'[w] = "idle" /\ \A v \in Workers \ {w} : held'[v] = held[v]
    BY <1>1, <1>3 DEF Finish
  <2> QED
    BY <1>1, <2>1, NoLeaseOne DEF BusyPcs
<1>4. ASSUME NEW v \in Workers \ {w}, held'[v] = held[v], lease' = PurgedLeases PROVE LeasedOne(v)'
  <2>1. \A s \in Slots : lease'[s] \in {lease[s], NoLease}
    BY <1>4 DEF PurgedLeases
  <2>2. ASSUME NEW s \in Slots, lease[s] # NoLease, lease[s].holder = job[v],
               lease[s].fresh, pc'[v] \in BusyPcs
        PROVE  lease'[s] = lease[s]
    <3>1. ~ is_terminal(run[job[v]])
      BY <1>0, <1>2, <2>2 DEF UInv, LeftAlone, BusyPcs, Ending
    <3> QED
      BY <1>4, <2>2, <3>1 DEF PurgedLeases
  <2> QED
    BY <1>0, <1>2, <1>4, <2>1, <2>2, KeptOne
<1>5. CASE ~ (AcquireExisting(w) \/ AcquireNew(w) \/ AcquireNone(w) \/ Finally(w))
  <2>1. /\ lease' = lease
        /\ \/ Finish(w)
           \/ /\ held' = held /\ job' = job /\ pc'[w] # "idle"
              /\ pc'[w] \in BusyPcs => pc[w] \in BusyPcs
              /\ \A v \in Workers \ {w} : pc'[v] = pc[v]
    BY <1>0, <1>5, WorkerHolds
  <2>2. \A v \in Workers \ {w} : held'[v] = held[v]
    BY <1>3, <2>1
  <2>3. \A v \in Workers \ {w} : LeasedOne(v)'
    BY <1>0, <1>2, <2>1, <2>2, KeptOne
  <2>4. LeasedOne(w)'
    BY <1>0, <1>3, <2>1, KeptOne
  <2> QED
    BY <2>3, <2>4
<1>6. CASE AcquireNone(w)
  <2>1. /\ lease' = lease \/ lease' = PurgedLeases
        /\ held' = held /\ job' = job /\ pc'[w] = "noSlotTask"
    BY <1>1, <1>6 DEF AcquireNone, Goto, localVars
  <2>2. \A v \in Workers \ {w} : LeasedOne(v)'
    <3>1. CASE lease' = PurgedLeases
      BY <1>4, <2>1, <3>1
    <3>2. CASE lease' = lease
      BY <1>0, <1>2, <2>1, <3>2, KeptOne
    <3> QED
      BY <2>1, <3>1, <3>2
  <2>3. \A s \in Slots : lease'[s] \in {lease[s], NoLease}
    BY <2>1 DEF PurgedLeases
  <2>4. LeasedOne(w)'
    BY <1>0, <2>1, <2>3, KeptOne DEF BusyPcs
  <2> QED
    BY <2>2, <2>4
<1>7. CASE AcquireExisting(w)
  <2>1. /\ lease' = PurgedLeases /\ job' = job /\ pc'[w] = "markTask"
        /\ \A v \in Workers \ {w} : held'[v] = held[v]
    BY <1>1, <1>7 DEF AcquireExisting, Goto
  <2>2. PICK s \in HolderSlots(PurgedLeases, job[w]) : held' = [held EXCEPT ![w] = PurgedLeases[s].id]
    BY <1>7 DEF AcquireExisting
  <2>3. s \in Slots /\ PurgedLeases[s] # NoLease /\ PurgedLeases[s].holder = job[w]
    BY <2>2 DEF HolderSlots
  <2>4. PurgedLeases[s] = lease[s] /\ lease[s] # NoLease /\ lease[s].fresh
    BY <2>3 DEF PurgedLeases
  <2>5. held'[w] = lease[s].id /\ lease'[s] = lease[s]
    BY <1>1, <2>1, <2>2, <2>4
  <2>6. HasSlot(w)'
    BY <2>1, <2>3, <2>4, <2>5 DEF HasSlot
  <2>7. ASSUME NEW t \in Slots, lease'[t] # NoLease, lease'[t].id = held'[w]
        PROVE  lease'[t].holder = job'[w]
    <3>1. lease'[t] = lease[t]
      BY <2>1, <2>7 DEF PurgedLeases
    <3>2. t = s
      BY <1>0, <2>3, <2>4, <2>5, <2>7, <3>1 DEF LeasesDistinct
    <3> QED
      BY <2>1, <2>3, <2>4, <2>5, <3>2
  <2> QED
    BY <1>4, <2>1, <2>6, <2>7 DEF LeasedOne
<1>8. CASE AcquireNew(w)
  <2>1. job' = job /\ pc'[w] = "markTask"
    BY <1>1, <1>8 DEF AcquireNew, Goto
  <2>2. PICK id \in LeaseIds \ UsedIds :
          /\ held' = [held EXCEPT ![w] = id]
          /\ lease' = [PurgedLeases EXCEPT ![FirstFree(PurgedLeases)] =
                         [id |-> id, holder |-> job[w], fresh |-> TRUE]]
    BY <1>8 DEF AcquireNew
  <2>3. PICK f \in Slots : f = FirstFree(PurgedLeases) /\ PurgedLeases[f] = NoLease
    BY <1>8, FirstIsFree DEF AcquireNew
  <2>4. /\ held'[w] = id /\ \A v \in Workers \ {w} : held'[v] = held[v]
        /\ lease'[f] = [id |-> id, holder |-> job[w], fresh |-> TRUE]
        /\ \A t \in Slots \ {f} : lease'[t] = PurgedLeases[t]
    BY <1>1, <2>2, <2>3, PurgedType
  <2>5. lease'[f] # NoLease /\ lease'[f].id = id /\ lease'[f].holder = job[w] /\ lease'[f].fresh
    <3>1. [id |-> id, holder |-> job[w], fresh |-> TRUE] \in LeaseRows
      BY <1>2, <2>2 DEF LeaseRows
    <3>2. lease'[f] # NoLease
      BY <2>4, <3>1, NoLeaseAssumption, Zenon
    <3>3. lease'[f].id = id /\ lease'[f].holder = job[w] /\ lease'[f].fresh
      BY <2>4
    <3> QED
      BY <3>2, <3>3
  <2>6. /\ \A v \in Workers : held[v] # id
        /\ \A t \in Slots : lease[t] # NoLease => lease[t].id # id
    BY <2>2 DEF UsedIds
  <2>7. \A t \in Slots \ {f} : lease'[t] \in {lease[t], NoLease}
    BY <2>4 DEF PurgedLeases
  <2>8. LeasedOne(w)'
    <3>1. HasSlot(w)'
      BY <2>1, <2>4, <2>5 DEF HasSlot
    <3>2. \A t \in Slots : lease'[t] # NoLease /\ lease'[t].id = held'[w] => lease'[t].holder = job'[w]
      BY <2>1, <2>4, <2>5, <2>6, <2>7
    <3> QED
      BY <2>1, <3>1, <3>2 DEF LeasedOne
  <2>9. ASSUME NEW v \in Workers \ {w} PROVE LeasedOne(v)'
    <3>0. held'[v] = held[v] /\ pc'[v] = pc[v] /\ job'[v] = job[v] /\ held[v] # id
      BY <1>2, <2>4, <2>6
    <3>1. pc[v] \in BusyPcs => HasSlot(v)'
      <4> SUFFICES ASSUME pc[v] \in BusyPcs PROVE HasSlot(v)'
        OBVIOUS
      <4>1. PICK s \in Slots : /\ lease[s] # NoLease /\ PurgedLeases[s] = lease[s]
                               /\ lease[s].id = held[v] /\ lease[s].holder = job[v] /\ lease[s].fresh
        BY <1>0, PurgeKeeps
      <4>2. lease'[s] = lease[s]
        BY <2>3, <2>4, <4>1
      <4> QED
        BY <3>0, <4>1, <4>2 DEF HasSlot
    <3>2. \A t \in Slots : lease'[t] # NoLease /\ lease'[t].id = held'[v] => lease'[t].holder = job'[v]
      BY <1>0, <2>5, <2>7, <3>0 DEF Leased
    <3> QED
      BY <1>0, <3>0, <3>1, <3>2 DEF Leased, LeasedOne
  <2> QED
    BY <2>8, <2>9
<1>9. CASE Finally(w)
  <2>1. /\ Finish(w)
        /\ \A s \in Slots : lease'[s] = IF lease[s] # NoLease /\ lease[s].id = held[w]
                                        THEN NoLease ELSE lease[s]
    BY <1>1, <1>9 DEF Finally
  <2>2. ASSUME NEW v \in Workers \ {w}, NEW s \in Slots, lease[s] # NoLease, lease[s].holder = job[v]
        PROVE  lease'[s] = lease[s]
    <3>1. lease[s].id # held[w]
      BY <1>0, <1>2, <2>2 DEF Leased
    <3> QED
      BY <2>1, <3>1
  <2>3. \A v \in Workers \ {w} : LeasedOne(v)'
    BY <1>0, <1>2, <1>3, <2>1, <2>2, KeptOne
  <2> QED
    BY <1>3, <2>1, <2>3
<1> QED
  BY <1>5, <1>6, <1>7, <1>8, <1>9

\* Every step leaves each busy worker with its slot.
LEMMA SlotStep ==
  ASSUME OneDelivery, WithinBudget, Renewed, SInv, [Next]_vars
  PROVE  SInv'
PROOF
<1>0. HInv /\ UInv /\ Leased /\ LeaseInv
  BY DEF SInv, UInv, RInv, HInv, LeaseInv
<1>1. UInv' /\ LeasesDistinct' /\ LocalInv'
  BY <1>0, LeftAloneStep, LeaseStep DEF SInv, LeaseInv
<1>2. /\ lease \in [Slots -> LeaseRows \cup {NoLease}] /\ lease' \in [Slots -> LeaseRows \cup {NoLease}]
      /\ pc \in [Workers -> WorkerPcs] /\ job \in [Workers -> Runs \cup {NoRun}]
      /\ held \in [Workers -> LeaseIds \cup {NoLease}]
  BY <1>0, <1>1 DEF HInv, LocalInv, TypeOK
<1> SUFFICES \A v \in Workers : LeasedOne(v)'
  BY <1>1 DEF SInv, Leased, LeasedOne
<1>3. ASSUME UNCHANGED <<lease, held, job, pc>> PROVE \A v \in Workers : LeasedOne(v)'
  BY <1>0, <1>3, KeptOne
<1>4. CASE UNCHANGED vars
  BY <1>3, <1>4 DEF vars
<1>5. ASSUME NEW r \in Runs,
             \/ ApiStep(r) \/ ApiCrash(r) \/ CancelRead(r) \/ CancelStep(r) \/ CancelCrash(r)
             \/ DiscardRevoked(r) \/ DeleteBacktest(r) \/ delete_task(r)
      PROVE  \A v \in Workers : LeasedOne(v)'
  <2>1. UNCHANGED <<lease, held, job, pc>>
    BY <1>5 DEF ApiStep, CreateTask, CreateRun, CreateFailedTask, CreateFailedRun, Publish,
       PublishFails, MarkTaskQueued, mark_backtest_queued, fail_backtest_queue, ApiCrash,
       CancelRead, CancelStep, CancelTaskRow, CancelRevokeFails, CancelRunRow, CancelCrash,
       DiscardRevoked, DeleteBacktest, delete_task, workerVars
  <2> QED
    BY <1>3, <2>1
<1>6. ASSUME NEW r \in Runs, Reconcile(r) PROVE \A v \in Workers : LeasedOne(v)'
  <2>1. /\ UNCHANGED <<held, job, pc>> /\ run[r] \in ACTIVE_STATUSES /\ ReconcileReason(r)
        /\ \A s \in Slots : lease'[s] = IF lease[s] # NoLease /\ lease[s].holder = r
                                        THEN NoLease ELSE lease[s]
    BY <1>6 DEF Reconcile, workerVars
  <2>2. \A v \in Workers : job[v] # r
    BY <1>0, <2>1, ReconcilesIdle DEF Working
  <2> QED
    BY <1>0, <2>1, <2>2, KeptOne
<1>7. ASSUME NEW w \in Workers, NEW r \in Runs, Receive(w, r) PROVE \A v \in Workers : LeasedOne(v)'
  <2>1. /\ pc[w] = "idle" /\ pc'[w] = "deliver" /\ UNCHANGED <<lease, held>>
        /\ \A v \in Workers \ {w} : pc'[v] = pc[v] /\ job'[v] = job[v]
    BY <1>2, <1>7 DEF Receive, Goto
  <2>2. LeasedOne(w)'
    BY <1>0, <1>2, <2>1, NoLeaseOne DEF Leased, BusyPcs
  <2>3. \A v \in Workers \ {w} : LeasedOne(v)'
    BY <1>0, <2>1, KeptOne
  <2> QED
    BY <2>2, <2>3
<1>8. ASSUME NEW w \in Workers, WorkerStep(w) PROVE \A v \in Workers : LeasedOne(v)'
  BY <1>1, <1>8, LeasedWorkerStep
<1>9. ASSUME NEW w \in Workers, Crash(w) \/ Terminate(w) PROVE \A v \in Workers : LeasedOne(v)'
  <2>1. /\ lease' = lease /\ held'[w] = NoLease /\ pc'[w] = "idle"
        /\ \A v \in Workers \ {w} : pc'[v] = pc[v] /\ job'[v] = job[v] /\ held'[v] = held[v]
    BY <1>2, <1>9 DEF Crash, Terminate, Finish
  <2>2. LeasedOne(w)'
    BY <1>2, <2>1, NoLeaseOne DEF BusyPcs
  <2>3. \A v \in Workers \ {w} : LeasedOne(v)'
    BY <1>0, <2>1, KeptOne
  <2> QED
    BY <2>2, <2>3
<1>10. ASSUME NEW w \in Workers, Redeliver(w) PROVE \A v \in Workers : LeasedOne(v)'
  BY <1>3, <1>10 DEF Redeliver, localVars
<1>11. ASSUME NEW s \in Slots, Expire(s) PROVE \A v \in Workers : LeasedOne(v)'
  <2>1. /\ UNCHANGED <<held, job, pc>> /\ lease[s] # NoLease /\ ~ Renewing(lease[s].id)
        /\ \A t \in Slots \ {s} : lease'[t] = lease[t]
        /\ lease'[s] = [lease[s] EXCEPT !.fresh = FALSE]
    BY <1>2, <1>11 DEF Expire, workerVars, Renewed
  <2>2. lease'[s].id = lease[s].id /\ lease'[s].holder = lease[s].holder
    BY <1>2, <2>1 DEF LeaseRows
  <2>3. \A v \in Workers : pc[v] \in BusyPcs => held[v] # lease[s].id
    BY <2>1 DEF Renewing, BusyPcs, LeasePcs
  <2>4. ASSUME NEW v \in Workers, pc[v] \in BusyPcs PROVE HasSlot(v)'
    <3>1. PICK t \in Slots : /\ lease[t] # NoLease /\ lease[t].id = held[v]
                             /\ lease[t].holder = job[v] /\ lease[t].fresh
      BY <1>0, <2>4 DEF Leased, HasSlot
    <3>2. t # s
      BY <2>3, <2>4, <3>1
    <3> QED
      BY <2>1, <3>1, <3>2 DEF HasSlot
  <2>5. \A v \in Workers, t \in Slots :
          lease'[t] # NoLease /\ lease'[t].id = held'[v] => lease'[t].holder = job'[v]
    <3>1. \A t \in Slots : lease'[t] # NoLease =>
            /\ lease[t] # NoLease
            /\ lease'[t].id = lease[t].id /\ lease'[t].holder = lease[t].holder
      BY <2>1, <2>2
    <3>2. held' = held /\ job' = job
      BY <2>1
    <3> QED
      BY <1>0, <3>1, <3>2 DEF Leased
  <2> QED
    BY <1>0, <2>1, <2>4, <2>5 DEF Leased, LeasedOne
<1> QED
  BY <1>4, <1>5, <1>6, <1>7, <1>8, <1>9, <1>10, <1>11 DEF Next

\* At most maxConcurrentJobs runs execute at a time, for any limit, number of
\* workers and of runs and both databases, provided that nobody cancels or is given a
\* message twice, executions stay within their budget and leases are renewed: every executing run
\* holds a slot of its own.
THEOREM SlotsBoundExecutions ==
  ASSUME OneDelivery, WithinBudget, Renewed
  PROVE  Spec => []SlotLimit
PROOF
<1>1. SInv => SlotLimit
  <2> SUFFICES ASSUME SInv PROVE SlotLimit
    OBVIOUS
  <2> DEFINE T == {job[w] : w \in {v \in Workers : pc[v] = "execute"}}
             S == {s \in Slots : lease[s] # NoLease /\ lease[s].holder \in T}
             f == [s \in S |-> lease[s].holder]
  <2>1. IsFiniteSet(Slots) /\ Cardinality(Slots) = Limit
    <3>1. 0 \in Int /\ Limit - 1 \in Int /\ ~ (0 > Limit - 1) /\ Limit - 1 - 0 + 1 = Limit
      BY LimitAssumption
    <3> QED
      BY <3>1, FS_Interval DEF Slots
  <2>2. IsFiniteSet(S) /\ Cardinality(S) <= Limit
    BY <2>1, FS_Subset
  <2>3. \A r \in T : \E s \in S : f[s] = r
    BY DEF SInv, Leased, HasSlot, BusyPcs
  <2>4. f \in Surjection(S, T)
    BY <2>3 DEF Surjection
  <2>5. IsFiniteSet(T) /\ Cardinality(T) <= Cardinality(S)
    BY <2>2, <2>4, FS_Surjection
  <2>6. Cardinality(T) \in Nat /\ Cardinality(S) \in Nat
    BY <2>2, <2>5, FS_CardinalityType
  <2> QED
    BY <2>2, <2>5, <2>6, LimitAssumption DEF SlotLimit
<1>2. Init => SInv
  <2>1. Init => UInv
    BY RowInit, NoRunAssumption DEF Init, UInv, LeftAlone
  <2> QED
    BY <2>1 DEF Init, SInv, LeasesDistinct, Leased, BusyPcs
<1>3. SInv /\ [Next]_vars => SInv'
  BY SlotStep
<1> QED
  BY <1>1, <1>2, <1>3, PTL DEF Spec

=============================================================================
