------------------------------ MODULE DataSync ------------------------------
(***************************************************************************)
(* One data synchronization run: the request that creates, cancels or      *)
(* resumes it, the workers that execute run_sync and materialize its       *)
(* derivatives, and the recovery beat runs each minute.  The run's dataset *)
(* is `daily`, fetched by trade date (_sync_daily_by_trade_date) or by     *)
(* symbol (_sync_daily); the datasets before it can only block it.         *)
(*                                                                         *)
(* An action is one transaction with the local control flow up to the      *)
(* next.  Units 1 .. N are the dates or the symbols of the run's scope, in *)
(* order: the sessions every plan of that day replays, or the securities.  *)
(* Faults names the disturbances a behaviour may contain.                  *)
(***************************************************************************)
EXTENDS Naturals, FiniteSets, FiniteSetsExt

CONSTANTS
  N,          \* units of work in the run's scope
  BatchUnits, \* units buffered before they are written
  Modes,      \* how daily is fetched: "date" or "symbol"
  BaseModes,  \* the run's mode: "incremental" or "initial_full"
  Workers,    \* Celery workers of the data queues
  MaxTasks,   \* bound: tasks of the run, one for its creation and for each resume
  MaxCopies,  \* bound: messages of one task under way
  MaxFaults,  \* bound: faults in a behaviour
  Nobody,     \* nobody holds the advisory lock
  Faults      \* the disturbances a behaviour may contain, see FaultKinds

FaultKinds ==
  { "crash",          \* a worker is lost, its message is delivered again
    "api_crash",      \* an API request is lost between two transactions
    "broker_down",    \* a message cannot be published
    "fetch_failure",  \* the provider refuses one unit
    "db_lost",        \* the database connection is lost while units are loaded
    "write_error",    \* any other exception while units are loaded
    "prepare_error",  \* no disk capacity, or a failing permission probe
    "required",       \* stock_basic or trade_cal fails
    "slow",           \* a live worker is silent for longer than the threshold
    "cancel" }        \* the user cancels the run

ASSUME SyncBoundsAssumption ==
  /\ N \in Nat \ {0} /\ BatchUnits \in Nat \ {0} /\ MaxTasks \in Nat \ {0}
  /\ MaxCopies \in Nat \ {0} /\ MaxFaults \in Nat
ASSUME SyncModesAssumption ==
  Modes \subseteq {"date", "symbol"} /\ BaseModes \subseteq {"incremental", "initial_full"}
ASSUME SyncFaultsAssumption == Faults \subseteq FaultKinds
ASSUME NobodyAssumption == Nobody \notin Workers

Units == 1 .. N
TaskIds == 1 .. MaxTasks
ACTIVE == {"queued", "running", "cancelling"}
RESUMABLE == {"failed", "cancelled", "partial", "paused"}
RunStates == ACTIVE \cup RESUMABLE \cup {"absent", "success"}
RunRows == [ status : RunStates, cancel : BOOLEAN, task : 0 .. MaxTasks,
             canon : {"pending", "ready", "partial", "failed", "cancelled"} ]
WorkStates == {"absent", "pending", "failed", "committed"}
TaskEnded == {"success", "failed", "cancelled"}
TaskStates == {"absent", "queued", "running"} \cup TaskEnded
DerivedStates == {"pending", "queued", "running", "ready", "partial", "blocked", "enqueue_failed"}
DerivedRows == [status : DerivedStates, failed : BOOLEAN]
ItemStates == {"queued", "running", "success", "partial", "failed", "paused", "cancelled"}
ItemRows == [status : ItemStates, failed : BOOLEAN, processed : 0 .. N, index : 0 .. N, ck : BOOLEAN]

LoadPcs == {"activity", "fetch", "write", "meta", "progress", "markFailed", "loaded"}
SyncPcs == {"prepare", "plan", "itemCancelled", "itemDone", "itemFailed",
            "evidence", "finish", "enqueue", "pauseItem", "pauseRun", "raiseRun"} \cup LoadPcs
MatPcs == {"matRead", "matPersist", "matEnd"}
WorkerPcs == {"idle", "markTask", "claim", "finishTask", "raiseTask", "raiseMark"}
               \cup SyncPcs \cup MatPcs
ApiPcs == {"idle", "create", "resume", "bind", "publish", "queued", "fail"}
CancelPcs == {"idle", "flag", "task", "rows", "taskRow", "final", "done"}
RecoverPcs == {"idle", "unbound", "queue", "mark", "cancelling", "dqueue"}

VARIABLES
  mode, base,  \* how daily is fetched, and the mode the run was created with
  run,         \* data_sync_runs: status, cancel_requested, task_id (0 for null), canonical_status
  derived,     \* its derived_status_json
  item,        \* the data_sync_items row of daily; ck says that a checkpoint is stored
  work,        \* data_sync_work_items.status by unit
  data,        \* units whose rows are in the canonical store
  watermark,   \* last unit of the run's watermarks; by date, coverage_end of the market
  fresh,       \* is the run's heartbeat younger than the threshold
  dfresh,      \* is the derived heartbeat younger than the threshold
  task,        \* tasks.status
  celery,      \* tasks whose row holds a Celery id
  revoked,     \* tasks whose message is revoked
  tasks,       \* tasks created so far
  msgs, mats,  \* messages of sync_all_data and of materialize_sync_data
  lock,        \* holder of the advisory lock of materialization
  pc, loc,     \* per worker: control state and local variables
  api, snap,   \* the create or resume request, and the item it has read
  can, ctask,  \* the cancelling request, and the task it has read
  rec, rtask, rsnap,  \* the recovery, the task and the derived payload it has read
  faults

rowVars == <<run, derived, item, work, data, watermark, fresh, dfresh>>
taskVars == <<task, celery, revoked, tasks>>
msgVars == <<msgs, mats>>
workerVars == <<pc, loc>>
apiVars == <<api, snap>>
cancelVars == <<can, ctask>>
recoverVars == <<rec, rtask, rsnap>>
vars == <<mode, base, rowVars, taskVars, msgVars, lock, workerVars, apiVars, cancelVars,
          recoverVars, faults>>

\* Local variables of run_sync and of a materialization: task id, units still
\* to fetch, units buffered, the unit that failed, has anything failed, units
\* processed, last checkpoint index, result, and the derived status it has read.
Locals == [ task : 0 .. MaxTasks, todo : SUBSET Units, buf : SUBSET Units, bad : 0 .. N,
            fails : BOOLEAN, done : 0 .. N, index : 0 .. N,
            out : RunStates \cup {"none"}, derived : DerivedRows ]
NoDerived == [status |-> "pending", failed |-> FALSE]
Blank == [ task |-> 0, todo |-> {}, buf |-> {}, bad |-> 0, fails |-> FALSE, done |-> 0,
           index |-> 0, out |-> "none", derived |-> NoDerived ]
FreshItem == [status |-> "queued", failed |-> FALSE, processed |-> 0, index |-> 0, ck |-> FALSE]

TypeOK ==
  /\ mode \in Modes /\ base \in BaseModes
  /\ run \in RunRows
  /\ derived \in DerivedRows
  /\ item \in ItemRows
  /\ work \in [Units -> WorkStates]
  /\ data \subseteq Units
  /\ watermark \in 0 .. N
  /\ fresh \in BOOLEAN /\ dfresh \in BOOLEAN
  /\ task \in [TaskIds -> TaskStates]
  /\ celery \subseteq TaskIds /\ revoked \subseteq TaskIds
  /\ tasks \in 0 .. MaxTasks
  /\ msgs \in [TaskIds -> 0 .. MaxCopies] /\ mats \in 0 .. MaxCopies
  /\ lock \in Workers \cup {Nobody}
  /\ pc \in [Workers -> WorkerPcs] /\ loc \in [Workers -> Locals]
  /\ api \in ApiPcs /\ snap \in ItemRows
  /\ can \in CancelPcs /\ ctask \in 0 .. MaxTasks
  /\ rec \in RecoverPcs /\ rtask \in 0 .. MaxTasks /\ rsnap \in DerivedRows
  /\ faults \in 0 .. MaxFaults

Init ==
  /\ mode \in Modes /\ base \in BaseModes
  /\ run = [status |-> "absent", cancel |-> FALSE, task |-> 0, canon |-> "pending"]
  /\ derived = NoDerived
  /\ item = FreshItem
  /\ work = [u \in Units |-> "absent"]
  /\ data = {}
  /\ watermark = 0
  /\ fresh = TRUE /\ dfresh = TRUE
  /\ task = [t \in TaskIds |-> "absent"]
  /\ celery = {} /\ revoked = {}
  /\ tasks = 0
  /\ msgs = [t \in TaskIds |-> 0] /\ mats = 0
  /\ lock = Nobody
  /\ pc = [w \in Workers |-> "idle"] /\ loc = [w \in Workers |-> Blank]
  /\ api = "idle" /\ snap = FreshItem
  /\ can = "idle" /\ ctask = 0
  /\ rec = "idle" /\ rtask = 0 /\ rsnap = NoDerived
  /\ faults = 0

\* One more message of a kind; the copies counted are bounded by MaxCopies.
OneMore(n) == Min({MaxCopies, n + 1})

Fault(f) == f \in Faults /\ faults < MaxFaults /\ faults' = faults + 1

(***************************************************************************)
(* Rows.                                                                   *)
(***************************************************************************)
\* _checkpoint_complete of the daily item
CheckpointComplete(i) == i.ck /\ i.index >= N /\ ~i.failed

\* The run's heartbeat is touched by every progress write.
Beat == fresh' = (fresh \/ run.status \in ACTIVE)

\* _item with a checkpoint: never backwards, counters never fall.
CheckpointItem(index, processed, failed) ==
  IF item.ck /\ item.index > index
    THEN UNCHANGED <<item, fresh>>
    ELSE /\ item' = [item EXCEPT !.index = index, !.ck = TRUE, !.failed = @ \/ failed,
                                 !.processed = IF @ > processed THEN @ ELSE processed]
         /\ Beat

\* Cancellation of the rows, where the run is still active
CancelRowsOf(s) ==
  /\ run' = IF run.status \in ACTIVE THEN [run EXCEPT !.status = s, !.cancel = TRUE] ELSE run

CancelItems ==
  item' = IF item.status \in {"queued", "running"} THEN [item EXCEPT !.status = "cancelled"] ELSE item

Cancelled(t) == run.task # t \/ run.cancel \/ run.status = "cancelled"

(***************************************************************************)
(* The user's requests: create_run, resume_run and cancel_run.             *)
(***************************************************************************)
\* create_sync_run
create_sync_run ==
  /\ api = "idle" /\ run.status = "absent"
  /\ run' = [run EXCEPT !.status = "queued"]
  /\ fresh' = TRUE
  /\ api' = "create"
  /\ UNCHANGED <<mode, base, derived, item, work, data, watermark, dfresh, taskVars, msgVars, lock,
                 workerVars, snap, cancelVars, recoverVars, faults>>

\* Can the run be resumed, judged by the rows prepare_resume has read?
Incomplete(i) == i.ck /\ ~CheckpointComplete(i)

ResumeRead ==
  /\ api = "idle" /\ tasks < MaxTasks
  /\ run.status # "absent"
  /\ run.status \in RESUMABLE \/ Incomplete(item)
  /\ api' = "resume"
  /\ snap' = item
  /\ UNCHANGED <<mode, base, rowVars, taskVars, msgVars, lock, workerVars, cancelVars, recoverVars, faults>>

\* Items that restart without their checkpoint: failed or partial work, and
\* daily with failed units; committed work rows remain.
ResetsItem(i) ==
  \/ i.status = "failed" /\ ~(i.ck /\ ~i.failed)
  \/ i.status = "partial" /\ ~CheckpointComplete(i)
  \/ i.failed

\* A completed incremental item is rebuilt up to the new cutoff.
RefreshesItem(i) == base = "incremental" /\ i.status \in {"success", "partial"} /\ CheckpointComplete(i)

Requeued(i) == [i EXCEPT !.status = "queued", !.failed = FALSE]

prepare_resume ==
  /\ api = "resume"
  /\ run' = [run EXCEPT !.status = "queued", !.cancel = FALSE]
  /\ item' = CASE ResetsItem(snap) \/ RefreshesItem(snap) -> FreshItem
               [] Incomplete(snap) \/ item.status = "paused" -> Requeued(item)
               [] item.status = "cancelled" -> [item EXCEPT !.status = "queued"]
               [] OTHER -> item
  /\ snap' = FreshItem
  /\ work' = IF RefreshesItem(snap) THEN [u \in Units |-> "absent"] ELSE work
  /\ api' = "create"
  /\ UNCHANGED <<mode, base, derived, data, watermark, fresh, dfresh, taskVars, msgVars, lock,
                 workerVars, cancelVars, recoverVars, faults>>

CreateTask ==
  /\ api = "create" /\ tasks < MaxTasks
  /\ tasks' = tasks + 1
  /\ task' = [task EXCEPT ![tasks + 1] = "queued"]
  /\ api' = "bind"
  /\ UNCHANGED <<mode, base, rowVars, celery, revoked, msgVars, lock, workerVars, snap, cancelVars,
                 recoverVars, faults>>

bind_task ==
  /\ api = "bind"
  /\ run' = [run EXCEPT !.task = tasks]
  /\ api' = "publish"
  /\ UNCHANGED <<mode, base, derived, item, work, data, watermark, fresh, dfresh, taskVars, msgVars,
                 lock, workerVars, snap, cancelVars, recoverVars, faults>>

Publish ==
  /\ api = "publish"
  /\ msgs' = [msgs EXCEPT ![tasks] = OneMore(@)]
  /\ api' = "queued"
  /\ UNCHANGED <<mode, base, rowVars, taskVars, mats, lock, workerVars, snap, cancelVars, recoverVars, faults>>

PublishFails ==
  /\ api = "publish"
  /\ Fault("broker_down")
  /\ task' = [task EXCEPT ![tasks] = "failed"]
  /\ api' = IF tasks = 1 THEN "fail" ELSE "idle"   \* resume_run does not fail the run
  /\ UNCHANGED <<mode, base, rowVars, celery, revoked, tasks, msgVars, lock, workerVars, snap,
                 cancelVars, recoverVars>>

\* mark_run_failed writes whatever the run's status and task are.
FailedRun == [run EXCEPT !.status = "failed", !.canon = "failed"]

FailCreate ==
  /\ api = "fail"
  /\ run' = FailedRun
  /\ api' = "idle"
  /\ UNCHANGED <<mode, base, derived, item, work, data, watermark, fresh, dfresh, taskVars, msgVars,
                 lock, workerVars, snap, cancelVars, recoverVars, faults>>

MarkQueued ==
  /\ api = "queued"
  /\ task' = [task EXCEPT ![tasks] = "queued"]
  /\ celery' = celery \cup {tasks}
  /\ api' = "idle"
  /\ UNCHANGED <<mode, base, rowVars, revoked, tasks, msgVars, lock, workerVars, snap, cancelVars,
                 recoverVars, faults>>

ApiCrash ==
  /\ api # "idle"
  /\ Fault("api_crash")
  /\ api' = "idle" /\ snap' = FreshItem
  /\ UNCHANGED <<mode, base, rowVars, taskVars, msgVars, lock, workerVars, cancelVars, recoverVars>>

\* request_cancel: the status it reads decides whether it does anything.
CancelRead ==
  /\ can = "idle" /\ Fault("cancel")
  /\ run.status \in ACTIVE
  /\ can' = "flag" /\ ctask' = run.task
  /\ UNCHANGED <<mode, base, rowVars, taskVars, msgVars, lock, workerVars, apiVars, recoverVars>>

CancelFlag ==
  /\ can = "flag"
  /\ CancelRowsOf("cancelling")
  /\ can' = IF ctask = 0 THEN "final" ELSE "task"
  /\ UNCHANGED <<mode, base, derived, item, work, data, watermark, fresh, dfresh, taskVars, msgVars,
                 lock, workerVars, apiVars, ctask, recoverVars, faults>>

\* cancel_task: a terminal task is left alone, another one is revoked.
CancelRevoke ==
  /\ can = "task"
  /\ IF task[ctask] \in TaskEnded
       THEN can' = "final" /\ UNCHANGED revoked
       ELSE /\ can' = "rows"
            /\ revoked' = IF ctask \in celery THEN revoked \cup {ctask} ELSE revoked
  /\ UNCHANGED <<mode, base, rowVars, task, celery, tasks, msgVars, lock, workerVars, apiVars, ctask,
                 recoverVars, faults>>

\* _cancel_data_sync, and the last transaction of request_cancel
CancelDataSync ==
  /\ can \in {"rows", "final"}
  /\ CancelRowsOf("cancelled")
  /\ CancelItems
  /\ IF can = "rows" THEN can' = "taskRow" /\ UNCHANGED ctask ELSE can' = "done" /\ ctask' = 0
  /\ UNCHANGED <<mode, base, derived, work, data, watermark, fresh, dfresh, taskVars, msgVars, lock,
                 workerVars, apiVars, recoverVars, faults>>

CancelTaskRow ==
  /\ can = "taskRow"
  /\ task' = [task EXCEPT ![ctask] = "cancelled"]
  /\ can' = "final"
  /\ UNCHANGED <<mode, base, rowVars, celery, revoked, tasks, msgVars, lock, workerVars, apiVars, ctask,
                 recoverVars, faults>>

\* The cancelling request is lost; it is made once, so its loss is not counted.
CancelCrash ==
  /\ can \notin {"idle", "done"} /\ "api_crash" \in Faults
  /\ can' = "done" /\ ctask' = 0
  /\ UNCHANGED <<mode, base, rowVars, taskVars, msgVars, lock, workerVars, apiVars, recoverVars, faults>>

ApiStep == prepare_resume \/ CreateTask \/ bind_task \/ Publish \/ FailCreate \/ MarkQueued
CancelStep == CancelFlag \/ CancelRevoke \/ CancelDataSync \/ CancelTaskRow

(***************************************************************************)
(* A worker's delivery of sync_all_data and its run_sync.                  *)
(***************************************************************************)
Goto(w, p) == pc' = [pc EXCEPT ![w] = p]
Return(w) == pc' = [pc EXCEPT ![w] = "idle"] /\ loc' = [loc EXCEPT ![w] = Blank]
Local(w, f, v) == loc' = [loc EXCEPT ![w][f] = v]

nonWorker == <<mode, base, apiVars, cancelVars, recoverVars>>

Receive(w, t) ==
  /\ pc[w] = "idle" /\ msgs[t] > 0
  /\ msgs' = [msgs EXCEPT ![t] = @ - 1]
  /\ IF t \in revoked
       THEN UNCHANGED workerVars
       ELSE Goto(w, "markTask") /\ Local(w, "task", t)
  /\ UNCHANGED <<nonWorker, rowVars, taskVars, mats, lock, faults>>

\* sync_all_data: a cancelled task is left alone, another one is marked running.
MarkTask(w) ==
  /\ pc[w] = "markTask"
  /\ IF task[loc[w].task] = "cancelled"
       THEN Return(w) /\ UNCHANGED task
       ELSE /\ task' = [task EXCEPT ![loc[w].task] = "running"]
            /\ Goto(w, "claim") /\ UNCHANGED loc
  /\ UNCHANGED <<nonWorker, rowVars, celery, revoked, tasks, msgVars, lock, faults>>

\* run_sync's first transaction: a superseded, cancelled or settled run is left alone.
Claim(w) ==
  /\ pc[w] = "claim"
  /\ IF Cancelled(loc[w].task)
       THEN Goto(w, "finishTask") /\ Local(w, "out", "cancelled") /\ UNCHANGED <<run, fresh>>
     ELSE IF run.status \notin {"queued", "running"}
       THEN Goto(w, "finishTask") /\ Local(w, "out", run.status) /\ UNCHANGED <<run, fresh>>
     ELSE /\ run' = [run EXCEPT !.status = "running"]
          /\ fresh' = TRUE
          /\ Goto(w, "prepare") /\ UNCHANGED loc
  /\ UNCHANGED <<nonWorker, derived, item, work, data, watermark, dfresh, taskVars, msgVars, lock, faults>>

\* Capacity, permissions and the datasets before daily; then daily is begun
\* unless its item is complete or the run is cancelled.
ItemComplete == item.status = "success" \/ (item.status = "partial" /\ CheckpointComplete(item))

Prepare(w) ==
  /\ pc[w] = "prepare"
  /\ IF Cancelled(loc[w].task) \/ ItemComplete
       THEN Goto(w, "evidence") /\ UNCHANGED <<item, fresh>>
       ELSE Goto(w, "plan") /\ item' = [item EXCEPT !.status = "running"] /\ Beat
  /\ UNCHANGED <<nonWorker, run, derived, work, data, watermark, dfresh, taskVars, msgVars, lock, loc, faults>>

PrepareRaises(w) ==
  /\ pc[w] = "prepare"
  /\ Fault("prepare_error")
  /\ Goto(w, "raiseRun")
  /\ UNCHANGED <<nonWorker, rowVars, taskVars, msgVars, lock, loc>>

RequiredFails(w) ==
  /\ pc[w] = "prepare"
  /\ Fault("required")
  /\ Goto(w, "evidence") /\ Local(w, "out", "failed")
  /\ UNCHANGED <<nonWorker, rowVars, taskVars, msgVars, lock>>

\* The item's counters, the work rows and their statuses.  By symbol, units up
\* to the checkpoint index are not even considered, and the checkpoint starts
\* at the number of units processed.
Plan(w) ==
  /\ pc[w] = "plan"
  /\ LET resume == IF mode = "symbol" THEN item.index ELSE 0
         scope == {u \in Units : u > resume}
         todo == {u \in scope : work[u] # "committed"}
         committed == Cardinality({u \in Units : work[u] = "committed"})
         done == IF mode = "symbol" THEN Max({item.processed, committed}) ELSE committed
         index == IF mode = "symbol" THEN Max({resume, done}) ELSE done
     IN /\ work' = [u \in Units |-> IF u \in scope /\ work[u] = "absent" THEN "pending" ELSE work[u]]
        /\ loc' = [loc EXCEPT ![w] = [@ EXCEPT !.todo = todo, !.done = done, !.index = index,
                                               !.fails = item.failed]]
  /\ Goto(w, IF mode = "symbol" THEN "activity" ELSE "fetch")
  /\ UNCHANGED <<nonWorker, run, derived, item, data, watermark, fresh, dfresh, taskVars, msgVars, lock, faults>>

\* publish_activity: the progress a symbol run shows before it fetches
PublishActivity(w) ==
  /\ pc[w] = "activity"
  /\ CheckpointItem(loc[w].index, loc[w].done, loc[w].fails)
  /\ Goto(w, "fetch")
  /\ UNCHANGED <<nonWorker, run, derived, work, data, watermark, dfresh, taskVars, msgVars, lock, loc, faults>>

\* The loop stops on a cancellation: by date only between two batches.
StopsLoading(w) == Cancelled(loc[w].task) /\ (mode = "symbol" \/ loc[w].buf = {})

\* One unit arrives from the provider, or the loop ends and the rest is flushed.
Fetch(w) ==
  /\ pc[w] = "fetch"
  /\ IF loc[w].todo = {} \/ StopsLoading(w)
       THEN /\ Local(w, "todo", {})
            /\ Goto(w, IF loc[w].buf = {} THEN "loaded" ELSE "write")
       ELSE LET u == Min(loc[w].todo) IN
            /\ loc' = [loc EXCEPT ![w] = [@ EXCEPT !.todo = loc[w].todo \ {u}, !.buf = loc[w].buf \cup {u}]]
            /\ Goto(w, IF Cardinality(loc[w].buf) + 1 >= BatchUnits THEN "write" ELSE "fetch")
  /\ UNCHANGED <<nonWorker, rowVars, taskVars, msgVars, lock, faults>>

\* A unit the provider refuses: by date the batch is flushed first.
FetchFails(w) ==
  /\ pc[w] = "fetch" /\ loc[w].todo # {} /\ ~StopsLoading(w)
  /\ Fault("fetch_failure")
  /\ LET u == Min(loc[w].todo) IN
       loc' = [loc EXCEPT ![w] = [@ EXCEPT !.todo = loc[w].todo \ {u}, !.bad = u]]
  /\ Goto(w, IF mode = "date" /\ loc[w].buf # {} THEN "write" ELSE "markFailed")
  /\ UNCHANGED <<nonWorker, rowVars, taskVars, msgVars, lock>>

\* flush: the canonical rows ...
WriteBatch(w) ==
  /\ pc[w] = "write"
  /\ data' = data \cup loc[w].buf
  /\ Goto(w, "meta")
  /\ UNCHANGED <<nonWorker, run, derived, item, work, watermark, fresh, dfresh, taskVars, msgVars, lock, loc, faults>>

\* Mutant: the watermark moves past the session whose fetch has failed.
MutPersistMetadata(w) ==
  /\ pc[w] = "meta"
  /\ work' = [u \in Units |-> IF u \in loc[w].buf THEN "committed" ELSE work[u]]
  /\ watermark' = Max({watermark, loc[w].bad} \cup loc[w].buf)
  /\ Goto(w, "progress")
  /\ UNCHANGED <<nonWorker, run, derived, item, data, fresh, dfresh, taskVars, msgVars, lock, loc, faults>>

\* ... then manifests, watermarks and work rows in one transaction ...
PersistMetadata(w) ==
  /\ pc[w] = "meta"
  /\ work' = [u \in Units |-> IF u \in loc[w].buf THEN "committed" ELSE work[u]]
  /\ watermark' = Max({watermark} \cup loc[w].buf)
  /\ Goto(w, "progress")
  /\ UNCHANGED <<nonWorker, run, derived, item, data, fresh, dfresh, taskVars, msgVars, lock, loc, faults>>

\* ... then the item's counters and checkpoint.
PublishProgress(w) ==
  /\ pc[w] = "progress"
  /\ LET done == Min({N, loc[w].done + Cardinality(loc[w].buf)})
         index == IF mode = "date" THEN done ELSE Max(loc[w].buf)
     IN /\ CheckpointItem(index, done, loc[w].fails)
        /\ loc' = [loc EXCEPT ![w] = [@ EXCEPT !.buf = {}, !.done = done, !.index = index]]
  /\ Goto(w, IF loc[w].bad # 0 THEN "markFailed" ELSE "fetch")
  /\ UNCHANGED <<nonWorker, run, derived, work, data, watermark, dfresh, taskVars, msgVars, lock, faults>>

\* Mutant: the failure of a unit is logged but not counted.
MutMarkFailed(w) ==
  /\ pc[w] = "markFailed"
  /\ work' = [work EXCEPT ![loc[w].bad] = "failed"]
  /\ loc' = [loc EXCEPT ![w] = [@ EXCEPT !.todo = IF mode = "date" THEN {} ELSE loc[w].todo, !.bad = 0]]
  /\ Goto(w, IF mode = "date" THEN "loaded" ELSE "activity")
  /\ UNCHANGED <<nonWorker, run, derived, item, data, watermark, fresh, dfresh, taskVars, msgVars, lock, faults>>

\* A failed unit ends a date run at once and a symbol run never.
MarkFailed(w) ==
  /\ pc[w] = "markFailed"
  /\ work' = [work EXCEPT ![loc[w].bad] = "failed"]
  /\ loc' = [loc EXCEPT ![w] = [@ EXCEPT !.fails = TRUE, !.done = Min({N, loc[w].done + 1}),
                                         !.todo = IF mode = "date" THEN {} ELSE loc[w].todo,
                                         !.index = IF mode = "symbol" THEN loc[w].bad ELSE loc[w].index,
                                         !.bad = 0]]
  /\ Goto(w, IF mode = "date" THEN "loaded" ELSE "activity")
  /\ UNCHANGED <<nonWorker, run, derived, item, data, watermark, fresh, dfresh, taskVars, msgVars, lock, faults>>

\* _cancelled after the dataset, and _current_task
AfterDataset(w) ==
  /\ pc[w] = "loaded"
  /\ Goto(w, IF ~Cancelled(loc[w].task) THEN "itemDone"
             ELSE IF run.task = loc[w].task THEN "itemCancelled" ELSE "evidence")
  /\ UNCHANGED <<nonWorker, rowVars, taskVars, msgVars, lock, loc, faults>>

ItemResult(w, s) ==
  item' = [item EXCEPT !.status = s, !.failed = loc[w].fails, !.processed = loc[w].done]

EndItem(w) ==
  /\ pc[w] \in {"itemDone", "itemCancelled"}
  /\ ItemResult(w, IF pc[w] = "itemCancelled" THEN "cancelled"
                   ELSE IF loc[w].fails THEN "partial" ELSE "success")
  /\ Beat
  /\ Goto(w, "evidence")
  /\ UNCHANGED <<nonWorker, run, derived, work, data, watermark, dfresh, taskVars, msgVars, lock, loc, faults>>

\* An exception while units are loaded: a lost connection pauses the run, any
\* other one fails the dataset.
LoadRaises(w) ==
  /\ pc[w] \in {"write", "meta", "progress", "markFailed", "activity", "plan"}
  /\ \/ Fault("db_lost") /\ Goto(w, "pauseItem")
     \/ Fault("write_error") /\ pc[w] = "write" /\ Goto(w, "itemFailed")
  /\ Local(w, "buf", {})
  /\ UNCHANGED <<nonWorker, rowVars, taskVars, msgVars, lock>>

ItemFailed(w) ==
  /\ pc[w] = "itemFailed"
  /\ item' = [item EXCEPT !.status = "failed", !.failed = TRUE]
  /\ Beat
  /\ Goto(w, "evidence") /\ Local(w, "fails", TRUE)
  /\ UNCHANGED <<nonWorker, run, derived, work, data, watermark, dfresh, taskVars, msgVars, lock, faults>>

PauseItem(w) ==
  /\ pc[w] = "pauseItem"
  /\ item' = [item EXCEPT !.status = "paused", !.failed = FALSE]
  /\ Beat
  /\ Goto(w, "pauseRun")
  /\ UNCHANGED <<nonWorker, run, derived, work, data, watermark, dfresh, taskVars, msgVars, lock, loc, faults>>

PauseRun(w) ==
  /\ pc[w] = "pauseRun"
  /\ IF run.task = loc[w].task
       THEN /\ run' = [run EXCEPT !.status = "paused", !.canon = "partial"]
            /\ derived' = [status |-> "blocked", failed |-> FALSE]
       ELSE UNCHANGED <<run, derived>>
  /\ Goto(w, "finishTask") /\ Local(w, "out", "paused")
  /\ UNCHANGED <<nonWorker, item, work, data, watermark, fresh, dfresh, taskVars, msgVars, lock, faults>>

\* _cancelled, the completion evidence and the derived status, as read here
Evidence(w) ==
  /\ pc[w] = "evidence"
  /\ LET degraded == loc[w].fails \/ item.status # "success" \/ item.failed \/ watermark = 0
         out == CASE Cancelled(loc[w].task) -> "cancelled"
                  [] loc[w].out = "failed" -> "failed"
                  [] degraded -> "partial"
                  [] OTHER -> "success"
     IN loc' = [loc EXCEPT ![w] = [@ EXCEPT !.out = out, !.derived = derived]]
  /\ Goto(w, "finish")
  /\ UNCHANGED <<nonWorker, rowVars, taskVars, msgVars, lock, faults>>

CanonicalOf(out) == IF out = "success" THEN "ready" ELSE out
Scheduled(d) == d.status \in {"queued", "running", "ready"}
Enqueues(w) == loc[w].out = "success" /\ ~Scheduled(loc[w].derived)

\* The final update is guarded by the task only.
Finish(w) ==
  /\ pc[w] = "finish"
  /\ IF run.task = loc[w].task
       THEN /\ run' = [run EXCEPT !.status = loc[w].out, !.canon = CanonicalOf(loc[w].out)]
            /\ derived' = CASE loc[w].out # "success" -> [status |-> "blocked", failed |-> FALSE]
                            [] Scheduled(loc[w].derived) -> loc[w].derived
                            [] OTHER -> [status |-> "queued", failed |-> FALSE]
            /\ dfresh' = TRUE
       ELSE UNCHANGED <<run, derived, dfresh>>
  /\ Goto(w, IF Enqueues(w) THEN "enqueue" ELSE "finishTask")
  /\ UNCHANGED <<nonWorker, item, work, data, watermark, fresh, taskVars, msgVars, lock, loc, faults>>

EnqueueMaterialization(w) ==
  /\ pc[w] = "enqueue"
  /\ \/ mats' = OneMore(mats) /\ UNCHANGED <<derived, faults>>
     \/ Fault("broker_down") /\ derived' = [status |-> "enqueue_failed", failed |-> FALSE] /\ UNCHANGED mats
  /\ Goto(w, "finishTask")
  /\ UNCHANGED <<nonWorker, run, item, work, data, watermark, fresh, dfresh, taskVars, msgs, lock, loc>>

\* Mutant: the run's status is copied to the task row as it is.
MutTaskResult(out) == out

TaskResult(out) == IF out \in {"cancelled", "success"} THEN out ELSE "failed"

FinishTask(w) ==
  /\ pc[w] = "finishTask"
  /\ task' = [task EXCEPT ![loc[w].task] = TaskResult(loc[w].out)]
  /\ Return(w)
  /\ UNCHANGED <<nonWorker, rowVars, celery, revoked, tasks, msgVars, lock, faults>>

\* The handlers of run_sync and of the task
RaiseRun(w) ==
  /\ pc[w] = "raiseRun"
  /\ run' = IF run.task = loc[w].task THEN FailedRun ELSE run
  /\ Goto(w, "raiseTask")
  /\ UNCHANGED <<nonWorker, derived, item, work, data, watermark, fresh, dfresh, taskVars, msgVars, lock, loc, faults>>

RaiseTask(w) ==
  /\ pc[w] = "raiseTask"
  /\ task' = [task EXCEPT ![loc[w].task] = "failed"]
  /\ Goto(w, "raiseMark")
  /\ UNCHANGED <<nonWorker, rowVars, celery, revoked, tasks, msgVars, lock, loc, faults>>

MarkRunFailed(w) ==
  /\ pc[w] = "raiseMark"
  /\ run' = FailedRun
  /\ Return(w)
  /\ UNCHANGED <<nonWorker, derived, item, work, data, watermark, fresh, dfresh, taskVars, msgVars, lock, faults>>

(***************************************************************************)
(* materialize_sync_data, under the run's advisory lock.                   *)
(***************************************************************************)
\* A second materialization of the run returns at once.
ReceiveMaterialize(w) ==
  /\ pc[w] = "idle" /\ mats > 0
  /\ mats' = mats - 1
  /\ IF lock = Nobody THEN lock' = w /\ Goto(w, "matRead") ELSE UNCHANGED <<lock, pc>>
  /\ UNCHANGED <<nonWorker, rowVars, taskVars, msgs, loc, faults>>

\* A finished materialization is not repeated; an interrupted one goes on.
MaterializeRead(w) ==
  /\ pc[w] = "matRead"
  /\ IF derived.status = "ready"
       THEN lock' = Nobody /\ Return(w)
       ELSE /\ Local(w, "fails", derived.status \in {"queued", "running"} /\ derived.failed)
            /\ Goto(w, "matPersist") /\ UNCHANGED lock
  /\ UNCHANGED <<nonWorker, rowVars, taskVars, msgVars, faults>>

\* persist_progress writes whatever the derived status is.
MaterializePersist(w) ==
  /\ pc[w] = "matPersist"
  /\ derived' = [status |-> "running", failed |-> loc[w].fails]
  /\ dfresh' = TRUE
  /\ \E fails \in {loc[w].fails, TRUE} : Local(w, "fails", fails)
  /\ Goto(w, "matEnd")
  /\ UNCHANGED <<nonWorker, run, item, work, data, watermark, fresh, taskVars, msgVars, lock, faults>>

MaterializeEnd(w) ==
  /\ pc[w] = "matEnd"
  /\ derived' = [status |-> IF loc[w].fails THEN "partial" ELSE "ready", failed |-> loc[w].fails]
  /\ dfresh' = TRUE
  /\ lock' = Nobody
  /\ Return(w)
  /\ UNCHANGED <<nonWorker, run, item, work, data, watermark, fresh, taskVars, msgVars, faults>>

SyncStep(w) ==
  \/ MarkTask(w) \/ Claim(w) \/ Prepare(w) \/ Plan(w)
  \/ PublishActivity(w) \/ Fetch(w) \/ WriteBatch(w) \/ PersistMetadata(w) \/ PublishProgress(w)
  \/ MarkFailed(w) \/ AfterDataset(w) \/ EndItem(w) \/ ItemFailed(w) \/ PauseItem(w) \/ PauseRun(w)
  \/ Evidence(w) \/ Finish(w) \/ EnqueueMaterialization(w) \/ FinishTask(w)
  \/ RaiseRun(w) \/ RaiseTask(w) \/ MarkRunFailed(w)

MaterializeStep(w) == MaterializeRead(w) \/ MaterializePersist(w) \/ MaterializeEnd(w)
WorkerStep(w) == SyncStep(w) \/ MaterializeStep(w)

(***************************************************************************)
(* Worker loss, revocation and time.                                       *)
(***************************************************************************)
InSync(w) == pc[w] \notin {"idle"} \cup MatPcs
InMaterialize(w) == pc[w] \in MatPcs

\* acks_late and reject_on_worker_lost: the message is delivered again, the
\* lost session gives up the advisory lock.
Crash(w) ==
  /\ pc[w] # "idle"
  /\ Fault("crash")
  /\ IF InMaterialize(w)
       THEN /\ mats' = OneMore(mats) /\ UNCHANGED msgs
            /\ lock' = Nobody
       ELSE /\ msgs' = [msgs EXCEPT ![loc[w].task] = OneMore(@)]
            /\ UNCHANGED <<mats, lock>>
  /\ Return(w)
  /\ UNCHANGED <<nonWorker, rowVars, taskVars>>

\* revoke(terminate=True) kills the worker that executes the task.
Terminate(w) ==
  /\ InSync(w) /\ loc[w].task \in revoked
  /\ Return(w)
  /\ UNCHANGED <<nonWorker, rowVars, taskVars, msgVars, lock, faults>>

\* The threshold passes without a heartbeat.
Age ==
  /\ fresh /\ run.status \in ACTIVE \cup RESUMABLE
  /\ \/ (\A w \in Workers : ~InSync(w)) /\ UNCHANGED faults
     \/ (\E w \in Workers : InSync(w)) /\ Fault("slow")
  /\ fresh' = FALSE
  /\ UNCHANGED <<nonWorker, run, derived, item, work, data, watermark, dfresh, taskVars, msgVars, lock, workerVars>>

AgeDerived ==
  /\ dfresh /\ derived.status \in {"queued", "running"}
  /\ ~\E w \in Workers : InMaterialize(w)
  /\ dfresh' = FALSE
  /\ UNCHANGED <<nonWorker, run, derived, item, work, data, watermark, fresh, taskVars, msgVars, lock, workerVars, faults>>

(***************************************************************************)
(* recover_data_sync: reads once, then handles what it has read.           *)
(***************************************************************************)
nonRecover == <<mode, base, apiVars, cancelVars, workerVars, lock, faults>>
StaleDerived == run.canon = "ready" /\ derived.status \in {"queued", "running"} /\ ~dfresh

RecoverRead ==
  /\ rec = "idle"
  /\ \/ /\ run.status \in {"queued", "running"} /\ ~run.cancel /\ ~fresh
        /\ rec' = IF run.task = 0 THEN "unbound" ELSE "queue"
        /\ rtask' = run.task /\ UNCHANGED rsnap
     \/ /\ run.status = "cancelling" /\ run.cancel /\ ~fresh
        /\ rec' = "cancelling" /\ UNCHANGED <<rtask, rsnap>>
     \/ /\ StaleDerived /\ lock = Nobody
        /\ rec' = "dqueue" /\ rsnap' = derived /\ UNCHANGED rtask
  /\ UNCHANGED <<nonRecover, rowVars, taskVars, msgVars>>

fail_stale_unbound_run ==
  /\ rec = "unbound"
  /\ run' = IF run.status = "queued" /\ run.task = 0 THEN FailedRun ELSE run
  /\ rec' = "idle"
  /\ UNCHANGED <<nonRecover, derived, item, work, data, watermark, fresh, dfresh, taskVars, msgVars, rtask, rsnap>>

\* Mutant: recovery takes over running runs only.
Mut_queue_stale_run_for_recovery ==
  /\ rec = "queue"
  /\ IF run.status = "running" /\ ~run.cancel
       THEN /\ run' = [run EXCEPT !.status = "queued"]
            /\ msgs' = [msgs EXCEPT ![rtask] = OneMore(@)]
            /\ revoked' = revoked \ {rtask}
            /\ rec' = "mark" /\ UNCHANGED rtask
       ELSE rec' = "idle" /\ rtask' = 0 /\ UNCHANGED <<run, msgs, revoked>>
  /\ UNCHANGED <<nonRecover, derived, item, work, data, watermark, fresh, dfresh, task, celery, tasks, mats, rsnap>>

\* The compare-and-set and the publishing after it; the heartbeat stays as old
\* as it was.
queue_stale_run_for_recovery ==
  /\ rec = "queue"
  /\ IF run.status \in {"queued", "running"} /\ ~run.cancel
       THEN /\ run' = [run EXCEPT !.status = "queued"]
            /\ msgs' = [msgs EXCEPT ![rtask] = OneMore(@)]
            /\ revoked' = revoked \ {rtask}
            /\ rec' = "mark" /\ UNCHANGED rtask
       ELSE rec' = "idle" /\ rtask' = 0 /\ UNCHANGED <<run, msgs, revoked>>
  /\ UNCHANGED <<nonRecover, derived, item, work, data, watermark, fresh, dfresh, task, celery, tasks, mats, rsnap>>

RecoverMark ==
  /\ rec = "mark"
  /\ task' = [task EXCEPT ![rtask] = "queued"]
  /\ celery' = celery \cup {rtask}
  /\ rec' = "idle" /\ rtask' = 0
  /\ UNCHANGED <<nonRecover, rowVars, revoked, tasks, msgVars, rsnap>>

finalize_stale_cancellation ==
  /\ rec = "cancelling"
  /\ run' = IF run.status = "cancelling" /\ run.cancel
              THEN [run EXCEPT !.status = "cancelled", !.canon = "cancelled"] ELSE run
  /\ rec' = "idle"
  /\ UNCHANGED <<nonRecover, derived, item, work, data, watermark, fresh, dfresh, taskVars, msgVars, rtask, rsnap>>

\* Mutant: recovery takes over running materializations only.
Mut_queue_stale_derived_for_recovery ==
  /\ rec = "dqueue"
  /\ IF run.canon = "ready" /\ derived.status = "running"
       THEN derived' = [rsnap EXCEPT !.status = "queued"] /\ mats' = OneMore(mats)
       ELSE UNCHANGED <<derived, mats>>
  /\ rec' = "idle" /\ rsnap' = NoDerived
  /\ UNCHANGED <<nonRecover, run, item, work, data, watermark, fresh, dfresh, taskVars, msgs, rtask>>

queue_stale_derived_for_recovery ==
  /\ rec = "dqueue"
  /\ IF run.canon = "ready" /\ derived.status \in {"queued", "running"}
       THEN derived' = [rsnap EXCEPT !.status = "queued"] /\ mats' = OneMore(mats)
       ELSE UNCHANGED <<derived, mats>>
  /\ rec' = "idle" /\ rsnap' = NoDerived
  /\ UNCHANGED <<nonRecover, run, item, work, data, watermark, fresh, dfresh, taskVars, msgs, rtask>>

RecoverStep ==
  \/ fail_stale_unbound_run \/ queue_stale_run_for_recovery \/ RecoverMark
  \/ finalize_stale_cancellation \/ queue_stale_derived_for_recovery

Next ==
  \/ create_sync_run \/ ResumeRead \/ ApiStep \/ PublishFails \/ ApiCrash
  \/ CancelRead \/ CancelStep \/ CancelCrash
  \/ \E w \in Workers : \/ \E t \in TaskIds : Receive(w, t)
                        \/ ReceiveMaterialize(w)
                        \/ WorkerStep(w)
                        \/ PrepareRaises(w) \/ RequiredFails(w) \/ FetchFails(w) \/ LoadRaises(w)
                        \/ Crash(w) \/ Terminate(w)
  \/ Age \/ AgeDerived
  \/ RecoverRead \/ RecoverStep

Spec == Init /\ [][Next]_vars

\* Requests and worker steps go on unless lost; RabbitMQ offers a message to
\* every idle worker; beat starts the recovery each minute; time passes.
Fairness ==
  /\ WF_vars(ApiStep) /\ WF_vars(CancelStep)
  /\ \A w \in Workers : WF_vars(WorkerStep(w))
  /\ \A t \in TaskIds : SF_vars(\E w \in Workers : Receive(w, t))
  /\ SF_vars(\E w \in Workers : ReceiveMaterialize(w))
  /\ WF_vars(Age) /\ WF_vars(AgeDerived)
  /\ SF_vars(RecoverRead) /\ WF_vars(RecoverStep)

FairSpec == Spec /\ Fairness

(***************************************************************************)
(* Properties.                                                             *)
(***************************************************************************)
\* A run is canonically ready only when every unit of its scope is in the
\* canonical store: whatever failed, was buffered or was superseded on the
\* way stays resumable (run_sync's final update, prepare_resume).
ReadyIsComplete == run.canon = "ready" => data = Units

\* The market watermark never passes a date that was not loaded, and a
\* committed work row stands for rows that were written (flush, persisted
\* metadata, duplicate executors and lost workers included).
EvidenceIsBacked ==
  /\ mode = "date" => (1 .. watermark) \subseteq data
  /\ \A u \in Units : work[u] = "committed" => u \in data

\* A run that is queued, running or cancelling ends: lost workers, requests
\* and messages are recovered (recover_data_sync).
RunEnds == (run.status \in ACTIVE) ~> (run.status \notin ACTIVE)

\* Derivatives of a ready run that are queued or running come to an end.
Deriving == run.canon = "ready" /\ derived.status \in {"queued", "running"}
DerivedEnds == Deriving ~> ~Deriving
=============================================================================
