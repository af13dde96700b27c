------------------------- MODULE BacktestLifecycle -------------------------
(***************************************************************************)
(* The life of a backtest: the API request that creates it and publishes   *)
(* its Celery message, the workers that execute it, the scheduler leases   *)
(* that bound how many execute at once, the user's cancellation and the    *)
(* beat reconciler.  Every action is one database transaction (one         *)
(* `with db()` block) together with the local control flow up to the next  *)
(* one, so the interleavings are those of the real processes.              *)
(*                                                                         *)
(* A run and the task that owns it are created together and carry each     *)
(* other's id, so both rows are indexed by the run.  "absent" is a row     *)
(* that does not exist: an UPDATE of it changes nothing.                   *)
(***************************************************************************)
EXTENDS Naturals, FiniteSets

CONSTANTS
  Runs,        \* backtest_runs ids (each with its task)
  Workers,     \* processes of the "backtest" queue
  LeaseIds,    \* uuids of scheduler_leases rows
  Limit,       \* settings.maxConcurrentJobs
  MaxCopies,   \* bound: deliveries of one run's message that coexist
  MaxCrashes,  \* bound: worker losses in a behaviour
  Databases,   \* the control-plane databases considered
  NoRun,       \* the job of an idle worker
  NoLease,     \* an empty slot, and the lease of a worker that has none
  Faults       \* the disturbances a behaviour may contain, see FaultKinds

FaultKinds ==
  { "crash",           \* a worker process is lost
    "redeliver",       \* the broker redelivers a message still in execution
    "slow_dispatch",   \* a worker starts before the API request has returned
    "api_crash",       \* an API process dies between two transactions
    "broker_down",     \* publishing or revoking fails
    "cancel",          \* the user cancels
    "renewal_loss",    \* the lease renewal thread cannot renew in time
    "over_budget",     \* an execution outlives the reconciler's timeout
    "project_missing", \* neither snapshot nor project can be resolved
    "delete" }         \* the user deletes history

ASSUME LimitAssumption == Limit \in Nat \ {0}
ASSUME BoundsAssumption == MaxCopies \in Nat /\ MaxCrashes \in Nat
ASSUME DatabasesAssumption == Databases \subseteq {"postgresql", "sqlite"}
ASSUME FaultsAssumption == Faults \subseteq FaultKinds

CREATED == "created"
QUEUED == "queued"
RUNNING == "running"
SUCCESS == "success"
FAILED == "failed"
CANCELLED == "cancelled"
Absent == "absent"

ACTIVE_STATUSES == {CREATED, QUEUED, RUNNING}
TERMINAL_STATUSES == {SUCCESS, FAILED, CANCELLED}
Statuses == ACTIVE_STATUSES \cup TERMINAL_STATUSES \cup {Absent}

\* What an execution computes before it is written: the audited result, a
\* result that its audit rejects, or no result at all.
Outcomes == {"success", "invalid", "failed"}

Slots == 0 .. Limit - 1
LeaseRows == [id : LeaseIds, holder : Runs, fresh : BOOLEAN]

ASSUME NoRunAssumption == NoRun \notin Runs
ASSUME NoLeaseAssumption == NoLease \notin LeaseIds /\ NoLease \notin LeaseRows

ApiPcs == {"none", "task", "created", "published", "marked", "unpublished",
           "rejected", "done"}
CancelPcs == {"idle", "revoke", "stop"}

\* Where a worker is in PlatformTask.__call__ and run_backtest_task.
GuardPcs == {"deliver", "replay"}
EntryPcs == {"start", "cancelEarly", "acquire", "noSlotTask", "noSlotRun"}
LeasePcs == {"markTask", "markRun", "execute", "reread", "saveOutputs",
             "persist", "certify", "finalizeRun", "finalizeTask",
             "cancelTask", "except", "failRun", "failTask", "finally"}
WorkerPcs == {"idle"} \cup GuardPcs \cup EntryPcs \cup LeasePcs

VARIABLES
  task,      \* tasks.status
  run,       \* backtest_runs.status
  trust,     \* backtest_runs.trust_status
  result,    \* is there a backtest_results row
  cert,      \* is there a valid reproducibility certificate
  celeryId,  \* has tasks.celery_task_id been stored
  lease,     \* scheduler_leases of resource 'backtest', by slot_index
  queue,     \* messages of the run waiting in RabbitMQ
  revoked,   \* has Celery been asked to revoke the run's message
  api,       \* the API request that creates the run
  cancel,    \* the API request that cancels it
  pc,        \* per worker: control state
  job,       \* per worker: the run it executes
  held,      \* per worker: id of the lease acquire returned
  out,       \* per worker: local status (`status`, or what a read returned)
  owns,      \* per worker: is its delivery still unacknowledged
  crashes,   \* worker losses so far
  database   \* the backend of LEAN_DATABASE_URL, fixed for a behaviour

rowVars == <<task, run, trust, result, cert>>
brokerVars == <<queue, revoked>>
clientVars == <<api, cancel, celeryId>>
localVars == <<job, held, out>>
envVars == <<crashes, database>>
workerVars == <<pc, job, held, out, owns>>
vars == <<task, run, trust, result, cert, celeryId, lease, queue, revoked,
          api, cancel, pc, job, held, out, owns, crashes, database>>

TypeOK ==
  /\ task \in [Runs -> Statuses]
  /\ run \in [Runs -> Statuses]
  /\ trust \in [Runs -> {"none", "trusted", "invalid", "unverified"}]
  /\ result \in [Runs -> BOOLEAN]
  /\ cert \in [Runs -> BOOLEAN]
  /\ celeryId \in [Runs -> BOOLEAN]
  /\ lease \in [Slots -> LeaseRows \cup {NoLease}]
  /\ queue \in [Runs -> Nat]
  /\ revoked \in [Runs -> BOOLEAN]
  /\ api \in [Runs -> ApiPcs]
  /\ cancel \in [Runs -> CancelPcs]
  /\ pc \in [Workers -> WorkerPcs]
  /\ job \in [Workers -> Runs \cup {NoRun}]
  /\ held \in [Workers -> LeaseIds \cup {NoLease}]
  /\ out \in [Workers -> Outcomes \cup TERMINAL_STATUSES \cup {"none"}]
  /\ owns \in [Workers -> BOOLEAN]
  /\ crashes \in Nat
  /\ database \in Databases

Init ==
  /\ task = [r \in Runs |-> Absent]
  /\ run = [r \in Runs |-> Absent]
  /\ trust = [r \in Runs |-> "none"]
  /\ result = [r \in Runs |-> FALSE]
  /\ cert = [r \in Runs |-> FALSE]
  /\ celeryId = [r \in Runs |-> FALSE]
  /\ lease = [s \in Slots |-> NoLease]
  /\ queue = [r \in Runs |-> 0]
  /\ revoked = [r \in Runs |-> FALSE]
  /\ api = [r \in Runs |-> "none"]
  /\ cancel = [r \in Runs |-> "idle"]
  /\ pc = [w \in Workers |-> "idle"]
  /\ job = [w \in Workers |-> NoRun]
  /\ held = [w \in Workers |-> NoLease]
  /\ out = [w \in Workers |-> "none"]
  /\ owns = [w \in Workers |-> FALSE]
  /\ crashes = 0
  /\ database \in Databases

\* On PostgreSQL a statement that fails aborts its transaction.
Postgres == database = "postgresql"

----------------------------------------------------------------------------
(* Row updates.                                                            *)

is_terminal(s) == s \in TERMINAL_STATUSES

\* update ... set status = s where id = r: no condition on the old status,
\* and nothing happens when the row is gone.
Written(rows, r, s) == [rows EXCEPT ![r] = IF @ = Absent THEN Absent ELSE s]
update_task(r, s) == task' = Written(task, r, s)
update_backtest(r, s) == run' = Written(run, r, s)

\* Mutant: the local outcome is written as it is.
MutFinalStatus(o) == o
FinalStatus(o) == IF o = "success" THEN SUCCESS ELSE FAILED

\* Mutant: every successful run is trusted.
MutFinalTrust(r, o) == IF o # "success" THEN "invalid" ELSE "trusted"

\* trust_status written with the final status; a missing certificate leaves a
\* successful run unverified.
FinalTrust(r, o) ==
  IF o # "success" THEN "invalid"
  ELSE IF cert[r] THEN "trusted" ELSE "unverified"

SetTrust(r, t) == trust' = [trust EXCEPT ![r] = IF run[r] = Absent THEN @ ELSE t]

----------------------------------------------------------------------------
(* The API request POST /api/backtests.                                    *)

CreateTask(r) ==
  /\ api[r] = "none"
  /\ api' = [api EXCEPT ![r] = "task"]
  /\ task' = [task EXCEPT ![r] = CREATED]
  /\ UNCHANGED <<run, trust, result, cert, celeryId, lease, brokerVars, cancel,
                 workerVars, envVars>>

CreateRun(r) ==
  /\ api[r] = "task"
  /\ api' = [api EXCEPT ![r] = "created"]
  /\ run' = [run EXCEPT ![r] = CREATED]
  /\ UNCHANGED <<task, trust, result, cert, celeryId, lease, brokerVars, cancel,
                 workerVars, envVars>>

\* A request that fails preflight is recorded as a failed task and then as a
\* failed run.
CreateFailedTask(r) ==
  /\ api[r] = "none"
  /\ api' = [api EXCEPT ![r] = "rejected"]
  /\ task' = [task EXCEPT ![r] = FAILED]
  /\ UNCHANGED <<run, trust, result, cert, celeryId, lease, brokerVars, cancel,
                 workerVars, envVars>>

CreateFailedRun(r) ==
  /\ api[r] = "rejected"
  /\ api' = [api EXCEPT ![r] = "done"]
  /\ run' = [run EXCEPT ![r] = FAILED]
  /\ UNCHANGED <<task, trust, result, cert, celeryId, lease, brokerVars, cancel,
                 workerVars, envVars>>

\* dispatch_task: apply_async publishes before any row says "queued".
Publish(r) ==
  /\ api[r] = "created"
  /\ api' = [api EXCEPT ![r] = "published"]
  /\ queue' = [queue EXCEPT ![r] = @ + 1]
  /\ UNCHANGED <<rowVars, celeryId, lease, revoked, cancel, workerVars, envVars>>

PublishFails(r) ==
  /\ "broker_down" \in Faults
  /\ api[r] = "created"
  /\ api' = [api EXCEPT ![r] = "unpublished"]
  /\ update_task(r, FAILED)
  /\ UNCHANGED <<run, trust, result, cert, celeryId, lease, brokerVars, cancel,
                 workerVars, envVars>>

MarkTaskQueued(r) ==
  /\ api[r] = "published"
  /\ api' = [api EXCEPT ![r] = "marked"]
  /\ update_task(r, QUEUED)
  /\ celeryId' = [celeryId EXCEPT ![r] = task[r] # Absent]
  /\ UNCHANGED <<run, trust, result, cert, lease, brokerVars, cancel, workerVars,
                 envVars>>

mark_backtest_queued(r) ==
  /\ api[r] = "marked"
  /\ api' = [api EXCEPT ![r] = "done"]
  /\ update_backtest(r, QUEUED)
  /\ UNCHANGED <<task, trust, result, cert, celeryId, lease, brokerVars, cancel,
                 workerVars, envVars>>

fail_backtest_queue(r) ==
  /\ api[r] = "unpublished"
  /\ api' = [api EXCEPT ![r] = "done"]
  /\ update_backtest(r, FAILED)
  /\ UNCHANGED <<task, trust, result, cert, celeryId, lease, brokerVars, cancel,
                 workerVars, envVars>>

ApiCrash(r) ==
  /\ "api_crash" \in Faults
  /\ api[r] \notin {"none", "done"}
  /\ api' = [api EXCEPT ![r] = "done"]
  /\ UNCHANGED <<rowVars, celeryId, lease, brokerVars, cancel, workerVars, envVars>>

----------------------------------------------------------------------------
(* cancel_backtest.                                                        *)

CancelRead(r) ==
  /\ "cancel" \in Faults
  /\ cancel[r] = "idle"
  /\ run[r] \in ACTIVE_STATUSES
  /\ cancel' = [cancel EXCEPT ![r] = "revoke"]
  /\ UNCHANGED <<rowVars, celeryId, lease, brokerVars, api, workerVars, envVars>>

CancelTaskRow(r) ==
  /\ cancel[r] = "revoke"
  /\ cancel' = [cancel EXCEPT ![r] = "stop"]
  /\ revoked' = [revoked EXCEPT ![r] = @ \/ celeryId[r]]
  /\ update_task(r, CANCELLED)
  /\ UNCHANGED <<run, trust, result, cert, celeryId, lease, queue, api, workerVars,
                 envVars>>

\* An exception of the revocation also skips the task update.
CancelRevokeFails(r) ==
  /\ "broker_down" \in Faults
  /\ cancel[r] = "revoke"
  /\ celeryId[r]
  /\ cancel' = [cancel EXCEPT ![r] = "stop"]
  /\ UNCHANGED <<rowVars, celeryId, lease, brokerVars, api, workerVars, envVars>>

\* Stopping the container only influences the outcome Execute chooses.
CancelRunRow(r) ==
  /\ cancel[r] = "stop"
  /\ cancel' = [cancel EXCEPT ![r] = "idle"]
  /\ update_backtest(r, CANCELLED)
  /\ UNCHANGED <<task, trust, result, cert, celeryId, lease, brokerVars, api,
                 workerVars, envVars>>

CancelCrash(r) ==
  /\ "api_crash" \in Faults
  /\ cancel[r] # "idle"
  /\ cancel' = [cancel EXCEPT ![r] = "idle"]
  /\ UNCHANGED <<rowVars, celeryId, lease, brokerVars, api, workerVars, envVars>>

----------------------------------------------------------------------------
(* Delivery: the broker, and PlatformTask.__call__.                        *)

Goto(w, l) == pc' = [pc EXCEPT ![w] = l]

\* The worker is done with its message: acknowledged (or no longer its own).
Finish(w) ==
  /\ pc' = [pc EXCEPT ![w] = "idle"]
  /\ job' = [job EXCEPT ![w] = NoRun]
  /\ held' = [held EXCEPT ![w] = NoLease]
  /\ out' = [out EXCEPT ![w] = "none"]
  /\ owns' = [owns EXCEPT ![w] = FALSE]

\* Deliveries of r in the broker or in a worker.
Copies(r) == queue[r] + Cardinality({w \in Workers : job[w] = r})

Receive(w, r) ==
  /\ pc[w] = "idle"
  /\ queue[r] > 0
  /\ "slow_dispatch" \in Faults \/ api[r] = "done"
  /\ queue' = [queue EXCEPT ![r] = @ - 1]
  /\ job' = [job EXCEPT ![w] = r]
  /\ owns' = [owns EXCEPT ![w] = TRUE]
  /\ Goto(w, "deliver")
  /\ UNCHANGED <<rowVars, clientVars, lease, revoked, held, out, envVars>>

\* A worker that remembers the revocation drops the message.
DiscardRevoked(r) ==
  /\ revoked[r]
  /\ queue[r] > 0
  /\ queue' = [queue EXCEPT ![r] = @ - 1]
  /\ UNCHANGED <<rowVars, clientVars, lease, revoked, workerVars, envVars>>

\* Mutant: no redelivery guard, every delivery is executed.
MutDeliver(w) ==
  /\ pc[w] = "deliver"
  /\ Goto(w, "start")
  /\ UNCHANGED <<rowVars, clientVars, lease, brokerVars, localVars, owns, envVars>>

\* Mutant: the guard ends the delivery without looking at the task row.
MutDeliverNoReplay(w) ==
  /\ pc[w] = "deliver"
  /\ \/ /\ ~ is_terminal(run[job[w]])
        /\ Goto(w, "start")
        /\ UNCHANGED <<localVars, owns>>
     \/ is_terminal(run[job[w]]) /\ Finish(w)
  /\ UNCHANGED <<rowVars, clientVars, lease, brokerVars, envVars>>

\* _reconcile_terminal_backtest_redelivery: a terminal run is not executed
\* again; its task row is brought in line when it differs.
Deliver(w) ==
  LET r == job[w] IN
  /\ pc[w] = "deliver"
  /\ \/ /\ ~ is_terminal(run[r])
        /\ Goto(w, "start")
        /\ UNCHANGED <<localVars, owns>>
     \/ /\ is_terminal(run[r])
        /\ task[r] \notin {run[r], Absent}
        /\ Goto(w, "replay")
        /\ out' = [out EXCEPT ![w] = run[r]]
        /\ UNCHANGED <<job, held, owns>>
     \/ /\ is_terminal(run[r])
        /\ task[r] \in {run[r], Absent}
        /\ Finish(w)
  /\ UNCHANGED <<rowVars, clientVars, lease, brokerVars, envVars>>

ReplayTask(w) ==
  /\ pc[w] = "replay"
  /\ update_task(job[w], out[w])
  /\ Finish(w)
  /\ UNCHANGED <<run, trust, result, cert, clientVars, lease, brokerVars, envVars>>

----------------------------------------------------------------------------
(* run_backtest_task before it holds a lease.                              *)

\* get_task raises when the row is gone; the exception ends the delivery.
Start(w) ==
  LET r == job[w] IN
  /\ pc[w] = "start"
  /\ \/ /\ task[r] = Absent
        /\ Finish(w)
     \/ /\ task[r] # Absent
        /\ Goto(w, IF run[r] = CANCELLED THEN "cancelEarly" ELSE "acquire")
        /\ UNCHANGED <<localVars, owns>>
  /\ UNCHANGED <<rowVars, clientVars, lease, brokerVars, envVars>>

CancelEarly(w) ==
  /\ pc[w] = "cancelEarly"
  /\ update_task(job[w], CANCELLED)
  /\ Finish(w)
  /\ UNCHANGED <<run, trust, result, cert, clientVars, lease, brokerVars, envVars>>

\* The handler of a project that cannot be resolved names FAILED, which the
\* module never imports: the NameError leaves both rows as they are.
ProjectRejected(w) ==
  /\ "project_missing" \in Faults
  /\ pc[w] = "acquire"
  /\ Finish(w)
  /\ UNCHANGED <<rowVars, clientVars, lease, brokerVars, envVars>>

\* Mutant: leases of runs that are not running yet are reclaimed too.
MutPurgedLeases ==
  [s \in Slots |->
     IF lease[s] # NoLease /\ lease[s].fresh /\ run[lease[s].holder] = RUNNING
     THEN lease[s] ELSE NoLease]

\* scheduler_leases after the two DELETEs of acquire_scheduler_lease: expired
\* rows go, and rows whose holder is terminal.
PurgedLeases ==
  [s \in Slots |->
     IF lease[s] # NoLease /\ lease[s].fresh /\ ~ is_terminal(run[lease[s].holder])
     THEN lease[s] ELSE NoLease]

\* Mutant: the holder's existing lease is not looked up.
MutHolderSlots(table, r) == {}
HolderSlots(table, r) == {s \in Slots : table[s] # NoLease /\ table[s].holder = r}
FreeSlots(table) == {s \in Slots : table[s] = NoLease}
FirstFree(table) == CHOOSE s \in FreeSlots(table) : \A t \in FreeSlots(table) : s <= t
UsedIds == {held[w] : w \in Workers} \cup {lease[s].id : s \in {t \in Slots : lease[t] # NoLease}}

\* The unexpired lease of the same run is handed out again.
AcquireExisting(w) ==
  /\ pc[w] = "acquire"
  /\ \E s \in HolderSlots(PurgedLeases, job[w]) :
       held' = [held EXCEPT ![w] = PurgedLeases[s].id]
  /\ lease' = PurgedLeases
  /\ Goto(w, "markTask")
  /\ UNCHANGED <<rowVars, clientVars, brokerVars, job, out, owns, envVars>>

\* The first INSERT that meets no conflict wins.  On PostgreSQL a conflict
\* aborts the transaction, so only the first INSERT of the loop can win.
AcquireNew(w) ==
  /\ pc[w] = "acquire"
  /\ HolderSlots(PurgedLeases, job[w]) = {}
  /\ FreeSlots(PurgedLeases) # {}
  /\ Postgres => 0 \in FreeSlots(PurgedLeases)
  /\ \E id \in LeaseIds \ UsedIds :
       /\ held' = [held EXCEPT ![w] = id]
       /\ lease' = [PurgedLeases EXCEPT ![FirstFree(PurgedLeases)] =
                      [id |-> id, holder |-> job[w], fresh |-> TRUE]]
  /\ Goto(w, "markTask")
  /\ UNCHANGED <<rowVars, clientVars, brokerVars, job, out, owns, envVars>>

\* Every INSERT met a conflict.  On PostgreSQL this is only survived with a
\* single slot, and COMMIT of the aborted transaction undoes the DELETEs.
AcquireNone(w) ==
  /\ pc[w] = "acquire"
  /\ HolderSlots(PurgedLeases, job[w]) = {}
  /\ FreeSlots(PurgedLeases) = {}
  /\ Postgres => Limit = 1
  /\ lease' = IF Postgres THEN lease ELSE PurgedLeases
  /\ Goto(w, "noSlotTask")
  /\ UNCHANGED <<rowVars, clientVars, brokerVars, localVars, owns, envVars>>

\* On PostgreSQL the INSERT after the first conflict raises
\* InFailedSqlTransaction, which is no IntegrityError: acquire raises, before
\* the worker's try block, and the delivery ends.
AcquireRaises(w) ==
  /\ pc[w] = "acquire"
  /\ Postgres /\ Limit > 1
  /\ HolderSlots(PurgedLeases, job[w]) = {}
  /\ 0 \notin FreeSlots(PurgedLeases)
  /\ Finish(w)
  /\ UNCHANGED <<rowVars, clientVars, lease, brokerVars, envVars>>

NoSlotTask(w) ==
  /\ pc[w] = "noSlotTask"
  /\ update_task(job[w], QUEUED)
  /\ Goto(w, "noSlotRun")
  /\ UNCHANGED <<run, trust, result, cert, clientVars, lease, brokerVars, localVars,
                 owns, envVars>>

\* Mutant: the delivery ends without a retry.
MutNoSlotRun(w) ==
  /\ pc[w] = "noSlotRun"
  /\ update_backtest(job[w], QUEUED)
  /\ Finish(w)
  /\ UNCHANGED <<task, trust, result, cert, clientVars, lease, brokerVars, envVars>>

\* The run row goes back to "queued" and self.retry publishes the message anew.
NoSlotRun(w) ==
  /\ pc[w] = "noSlotRun"
  /\ update_backtest(job[w], QUEUED)
  /\ queue' = [queue EXCEPT ![job[w]] = @ + 1]
  /\ Finish(w)
  /\ UNCHANGED <<task, trust, result, cert, clientVars, lease, revoked, envVars>>

----------------------------------------------------------------------------
(* run_backtest_task while it holds a lease.                               *)

MarkTask(w) ==
  /\ pc[w] = "markTask"
  /\ update_task(job[w], RUNNING)
  /\ Goto(w, "markRun")
  /\ UNCHANGED <<run, trust, result, cert, clientVars, lease, brokerVars, localVars,
                 owns, envVars>>

MarkRun(w) ==
  /\ pc[w] = "markRun"
  /\ update_backtest(job[w], RUNNING)
  /\ Goto(w, "execute")
  /\ UNCHANGED <<task, trust, result, cert, clientVars, lease, brokerVars, localVars,
                 owns, envVars>>

\* Data gates, workspace preparation and LEAN: any of them may raise.
Execute(w) ==
  /\ pc[w] = "execute"
  /\ \/ /\ Goto(w, "except")
        /\ UNCHANGED out
     \/ /\ \E o \in Outcomes : out' = [out EXCEPT ![w] = o]
        /\ Goto(w, "reread")
  /\ UNCHANGED <<rowVars, clientVars, lease, brokerVars, job, held, owns, envVars>>

Reread(w) ==
  /\ pc[w] = "reread"
  /\ Goto(w, IF run[job[w]] = CANCELLED THEN "cancelTask" ELSE "saveOutputs")
  /\ UNCHANGED <<rowVars, clientVars, lease, brokerVars, localVars, owns, envVars>>

CancelTask(w) ==
  /\ pc[w] = "cancelTask"
  /\ update_task(job[w], CANCELLED)
  /\ Goto(w, "finally")
  /\ UNCHANGED <<run, trust, result, cert, clientVars, lease, brokerVars, localVars,
                 owns, envVars>>

\* Mutant: the final status is stored with the outputs.
MutSaveOutputs(w) ==
  /\ pc[w] = "saveOutputs"
  /\ update_backtest(job[w], FinalStatus(out[w]))
  /\ Goto(w, IF out[w] = "failed" THEN "finalizeRun" ELSE "persist")
  /\ UNCHANGED <<task, trust, result, cert, clientVars, lease, brokerVars, localVars,
                 owns, envVars>>

\* The outputs are stored with status "running": the run stays non-terminal
\* until its result is persisted.
SaveOutputs(w) ==
  /\ pc[w] = "saveOutputs"
  /\ update_backtest(job[w], RUNNING)
  /\ Goto(w, IF out[w] = "failed" THEN "finalizeRun" ELSE "persist")
  /\ UNCHANGED <<task, trust, result, cert, clientVars, lease, brokerVars, localVars,
                 owns, envVars>>

Persist(w) ==
  /\ pc[w] = "persist"
  /\ \/ /\ result' = [result EXCEPT ![job[w]] = TRUE]
        /\ Goto(w, IF out[w] = "success" THEN "certify" ELSE "finalizeRun")
     \/ /\ Goto(w, "except")
        /\ UNCHANGED result
  /\ UNCHANGED <<task, run, trust, cert, clientVars, lease, brokerVars, localVars,
                 owns, envVars>>

\* issue_certificate, when the run is bound to a dataset release: it demands a
\* run that is running or successful, and raises otherwise.
Certify(w) ==
  LET r == job[w] IN
  /\ pc[w] = "certify"
  /\ \/ /\ run[r] \in {RUNNING, SUCCESS}
        /\ cert' = [cert EXCEPT ![r] = TRUE]
        /\ Goto(w, "finalizeRun")
     \/ /\ Goto(w, "finalizeRun")     \* no dataset release
        /\ UNCHANGED cert
     \/ /\ Goto(w, "except")
        /\ UNCHANGED cert
  /\ UNCHANGED <<task, run, trust, result, clientVars, lease, brokerVars, localVars,
                 owns, envVars>>

FinalizeRun(w) ==
  /\ pc[w] = "finalizeRun"
  /\ update_backtest(job[w], FinalStatus(out[w]))
  /\ SetTrust(job[w], FinalTrust(job[w], out[w]))
  /\ Goto(w, "finalizeTask")
  /\ UNCHANGED <<task, result, cert, clientVars, lease, brokerVars, localVars, owns,
                 envVars>>

FinalizeTask(w) ==
  /\ pc[w] = "finalizeTask"
  /\ update_task(job[w], FinalStatus(out[w]))
  /\ Goto(w, "finally")
  /\ UNCHANGED <<run, trust, result, cert, clientVars, lease, brokerVars, localVars,
                 owns, envVars>>

Except(w) ==
  /\ pc[w] = "except"
  /\ Goto(w, IF run[job[w]] = CANCELLED THEN "cancelTask" ELSE "failRun")
  /\ UNCHANGED <<rowVars, clientVars, lease, brokerVars, localVars, owns, envVars>>

FailRun(w) ==
  /\ pc[w] = "failRun"
  /\ update_backtest(job[w], FAILED)
  /\ SetTrust(job[w], "invalid")
  /\ Goto(w, "failTask")
  /\ UNCHANGED <<task, result, cert, clientVars, lease, brokerVars, localVars, owns,
                 envVars>>

FailTask(w) ==
  /\ pc[w] = "failTask"
  /\ update_task(job[w], FAILED)
  /\ Goto(w, "finally")
  /\ UNCHANGED <<run, trust, result, cert, clientVars, lease, brokerVars, localVars,
                 owns, envVars>>

\* The finally block: the renewal thread stops and the lease is deleted by id.
Finally(w) ==
  /\ pc[w] = "finally"
  /\ lease' = [s \in Slots |->
                 IF lease[s] # NoLease /\ lease[s].id = held[w] THEN NoLease ELSE lease[s]]
  /\ Finish(w)
  /\ UNCHANGED <<rowVars, clientVars, brokerVars, envVars>>

----------------------------------------------------------------------------
(* Disturbances.                                                           *)

\* acks_late and reject_on_worker_lost: the broker gets the message back.
Crash(w) ==
  /\ "crash" \in Faults
  /\ crashes < MaxCrashes
  /\ pc[w] # "idle"
  /\ crashes' = crashes + 1
  /\ queue' = IF owns[w] THEN [queue EXCEPT ![job[w]] = @ + 1] ELSE queue
  /\ Finish(w)
  /\ UNCHANGED <<rowVars, clientVars, lease, revoked, database>>

\* revoke(terminate=True) kills the process and acknowledges the message.
Terminate(w) ==
  /\ pc[w] # "idle"
  /\ revoked[job[w]]
  /\ Finish(w)
  /\ UNCHANGED <<rowVars, clientVars, lease, brokerVars, envVars>>

\* The broker gives up on the worker's channel while the worker goes on.
Redeliver(w) ==
  /\ "redeliver" \in Faults
  /\ pc[w] # "idle"
  /\ owns[w]
  /\ Copies(job[w]) < MaxCopies
  /\ owns' = [owns EXCEPT ![w] = FALSE]
  /\ queue' = [queue EXCEPT ![job[w]] = @ + 1]
  /\ UNCHANGED <<rowVars, clientVars, lease, revoked, pc, localVars, envVars>>

\* A lease runs out of time.  renew_scheduler_lease keeps an unexpired lease
\* fresh, and refuses an expired one, so time only matters without renewal.
Renewing(id) == \E w \in Workers : held[w] = id /\ pc[w] \in LeasePcs

Expire(s) ==
  /\ lease[s] # NoLease
  /\ lease[s].fresh
  /\ "renewal_loss" \in Faults \/ ~ Renewing(lease[s].id)
  /\ lease' = [lease EXCEPT ![s].fresh = FALSE]
  /\ UNCHANGED <<rowVars, clientVars, brokerVars, workerVars, envVars>>

----------------------------------------------------------------------------
(* The beat reconciler and deletion.                                       *)

\* Is the run still active for longer than its timeout?  Only a run nobody
\* executes, or an execution beyond its budget, gets that old.
OverBudget(r) ==
  /\ run[r] = RUNNING
  /\ "over_budget" \in Faults \/ \A w \in Workers : job[w] # r

\* reconcile_backtest_runs, for one active run.
ReconcileReason(r) == task[r] = Absent \/ is_terminal(task[r]) \/ OverBudget(r)
ReconciledStatus(r) == IF task[r] = CANCELLED THEN CANCELLED ELSE FAILED

Reconcile(r) ==
  /\ run[r] \in ACTIVE_STATUSES
  /\ ReconcileReason(r)
  /\ update_backtest(r, ReconciledStatus(r))
  /\ task' = IF is_terminal(task[r]) THEN task ELSE Written(task, r, ReconciledStatus(r))
  /\ lease' = [s \in Slots |->
                 IF lease[s] # NoLease /\ lease[s].holder = r THEN NoLease ELSE lease[s]]
  /\ UNCHANGED <<trust, result, cert, clientVars, brokerVars, workerVars, envVars>>

\* A certificate references its run, so the DELETE of a certified run fails.
DeleteBacktest(r) ==
  /\ "delete" \in Faults
  /\ ~ cert[r]
  /\ is_terminal(run[r])
  /\ task[r] \notin ACTIVE_STATUSES
  /\ run' = [run EXCEPT ![r] = Absent]
  /\ task' = [task EXCEPT ![r] = Absent]
  /\ result' = [result EXCEPT ![r] = FALSE]
  /\ trust' = [trust EXCEPT ![r] = "none"]
  /\ UNCHANGED <<cert, clientVars, lease, brokerVars, workerVars, envVars>>

delete_task(r) ==
  /\ "delete" \in Faults
  /\ is_terminal(task[r])
  /\ task' = [task EXCEPT ![r] = Absent]
  /\ UNCHANGED <<run, trust, result, cert, clientVars, lease, brokerVars, workerVars,
                 envVars>>

----------------------------------------------------------------------------

ApiStep(r) ==
  \/ CreateTask(r) \/ CreateRun(r) \/ CreateFailedTask(r) \/ CreateFailedRun(r)
  \/ Publish(r) \/ PublishFails(r) \/ MarkTaskQueued(r) \/ mark_backtest_queued(r)
  \/ fail_backtest_queue(r)

CancelStep(r) == CancelTaskRow(r) \/ CancelRevokeFails(r) \/ CancelRunRow(r)

WorkerStep(w) ==
  \/ Deliver(w) \/ ReplayTask(w) \/ Start(w) \/ CancelEarly(w) \/ ProjectRejected(w)
  \/ AcquireExisting(w) \/ AcquireNew(w) \/ AcquireNone(w) \/ AcquireRaises(w)
  \/ NoSlotTask(w) \/ NoSlotRun(w) \/ MarkTask(w) \/ MarkRun(w) \/ Execute(w)
  \/ Reread(w) \/ CancelTask(w) \/ SaveOutputs(w) \/ Persist(w) \/ Certify(w)
  \/ FinalizeRun(w) \/ FinalizeTask(w) \/ Except(w) \/ FailRun(w) \/ FailTask(w)
  \/ Finally(w)

Next ==
  \/ \E r \in Runs : \/ ApiStep(r) \/ ApiCrash(r)
                     \/ CancelRead(r) \/ CancelStep(r) \/ CancelCrash(r)
                     \/ DiscardRevoked(r) \/ Reconcile(r)
                     \/ DeleteBacktest(r) \/ delete_task(r)
  \/ \E w \in Workers : \/ \E r \in Runs : Receive(w, r)
                        \/ WorkerStep(w)
                        \/ Crash(w) \/ Terminate(w) \/ Redeliver(w)
  \/ \E s \in Slots : Expire(s)

Spec == Init /\ [][Next]_vars

\* A process that has begun goes on until it is done or dies; the broker keeps
\* offering a message to the workers; beat runs the reconciler; time passes.
Fairness ==
  /\ \A r \in Runs : /\ WF_vars(api[r] # "none" /\ ApiStep(r))
                     /\ WF_vars(CancelStep(r))
                     /\ WF_vars(Reconcile(r))
                     /\ SF_vars(\E w \in Workers : Receive(w, r))
  /\ \A w \in Workers : WF_vars(WorkerStep(w))
  /\ \A s \in Slots : WF_vars(Expire(s))

FairSpec == Spec /\ Fairness

----------------------------------------------------------------------------
(* Properties.                                                             *)

\* Nothing is under way for the run: no request, no message, no worker.
Quiescent(r) ==
  /\ api[r] \in {"none", "done"}
  /\ cancel[r] = "idle"
  /\ queue[r] = 0
  /\ \A w \in Workers : job[w] # r

\* A run whose execution is over: terminal, no request that read an older
\* status, and no worker past the redelivery guard.  Messages may remain.
Settled(r) ==
  /\ is_terminal(run[r])
  /\ api[r] = "done"
  /\ cancel[r] = "idle"
  /\ \A w \in Workers : job[w] = r => pc[w] \in GuardPcs

\* "success" is the readiness contract of Paper, Insights and the Web UI: the
\* normalized result ledger is there whenever the run row says success.
SuccessHasResult == \A r \in Runs : run[r] = SUCCESS => result[r]

\* No run is labelled trusted without a reproducibility certificate.
TrustedHasCertificate == \A r \in Runs : trust[r] = "trusted" => cert[r]

\* acquire_scheduler_lease never hands two slots to one run, and the rows of
\* the lease table are told apart by their ids (release deletes by id).
LeasesDistinct ==
  \A s, t \in Slots :
    lease[s] # NoLease /\ lease[t] # NoLease /\ s # t
      => lease[s].id # lease[t].id /\ lease[s].holder # lease[t].holder

\* Broker redelivery of a settled run is an idempotent replay: no worker goes
\* past the guard again and the run row keeps its status until it is deleted.
SettledForever ==
  [][\A r \in Runs : Settled(r) => \/ Settled(r)' /\ run'[r] = run[r]
                                   \/ run'[r] = Absent]_vars

\* At most maxConcurrentJobs runs execute LEAN at a time.
SlotLimit == Cardinality({job[w] : w \in {v \in Workers : pc[v] = "execute"}}) <= Limit

\* Once nothing is under way for a terminal run, its task row says the same.
TaskFollowsRun ==
  \A r \in Runs : Quiescent(r) /\ is_terminal(run[r]) => task[r] \in {run[r], Absent}

\* An active run for which nothing is under way is one the reconciler will end.
NoStrandedRun ==
  \A r \in Runs : Quiescent(r) /\ run[r] \in ACTIVE_STATUSES => ReconcileReason(r)

=============================================================================
