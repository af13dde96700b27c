----------------------------- MODULE PaperCycle -----------------------------
(***************************************************************************)
(* The execution cycles of one Paper account: one row per deployment and   *)
(* trading date, scheduled by beat or by the user, claimed by one worker,  *)
(* executed by a Celery chain (mark the Paper run, LEAN, finalize the      *)
(* Paper run, finalize the cycle) and watched by three recovery tasks.     *)
(*                                                                         *)
(* An action is one database transaction with the local control flow up to *)
(* the next.  LEAN itself (BacktestLifecycle) is reduced to the status of  *)
(* the child backtest and of its restricted runner job, and the order      *)
(* pipeline inside finalize_walkforward_run to its outcome.                *)
(***************************************************************************)
EXTENDS Naturals, FiniteSets

CONSTANTS
  Deployments,   \* active deployments of the account, each with its session
  MaxDate,       \* bound: trading dates 1 .. MaxDate have closed
  ClosedDates,   \* dates on which the exchange is closed
  Workers,       \* processes that execute Celery tasks
  Recoveries,    \* the recovery tasks beat runs, see RecoveryKinds
  Redelivered,   \* acks_late tasks whose messages the broker may duplicate
  MaxCopies,     \* bound: messages of one kind for one cycle
  MaxFaults,     \* bound: faults in a behaviour
  MaxAttempts,   \* bound: the user asks for no further attempt of a cycle
  NoCycle,       \* the job of an idle worker
  Faults         \* the disturbances a behaviour may contain, see FaultKinds

FaultKinds ==
  { "crash",         \* a worker process is lost
    "client_crash",  \* a dispatcher dies, or the broker refuses its message
    "redeliver",     \* the broker delivers a message twice
    "retry" }        \* the user runs a failed cycle again

RecoveryKinds ==
  { "queued",         \* recover_stale_queued_dispatches
    "finalizations",  \* recover_paper_finalizations
    "orphans" }       \* recover_orphaned_cycles

\* Tasks declared with acks_late: their messages survive the worker.
LateTasks == {"run", "lean", "finalizeRun", "finalizeCycle"}

ASSUME CalendarAssumption == MaxDate \in Nat /\ ClosedDates \subseteq 1 .. MaxDate
ASSUME CycleBoundsAssumption == MaxCopies \in Nat /\ MaxFaults \in Nat /\ MaxAttempts \in Nat
ASSUME CycleFaultsAssumption ==
  Faults \subseteq FaultKinds /\ Recoveries \subseteq RecoveryKinds /\ Redelivered \subseteq LateTasks

Dates == 1 .. MaxDate
Cycles == Deployments \X Dates
DeploymentOf(c) == c[1]
DateOf(c) == c[2]

ASSUME NoCycleAssumption == NoCycle \notin Cycles

CYCLE_STATES == {"scheduled", "waiting_data", "queued", "running", "finalizing",
                 "succeeded", "skipped", "failed"}
TERMINAL_CYCLE_STATES == {"succeeded", "skipped", "failed"}
CLAIMABLE_CYCLE_STATES == {"queued", "scheduled", "waiting_data"}

\* The messages of a cycle: the dispatch, the four tasks of the chain, the two
\* of a resumed chain, and the chain's errback.  A LEAN task of an earlier
\* attempt names a backtest the Paper run has since replaced.
Tasks == {"run", "mark", "lean", "finalizeRun", "finalizeCycle", "relean", "refinalize",
          "oldLean", "oldRelean", "fail"}

BeginPcs == {"begin", "busy", "create", "store", "dispatch", "yield"}
FinalizePcs == {"finRead", "finMark", "finCheck", "finSucceed", "finAdvance"}
RecoverPcs == {"decide", "recRun", "recFail"}
CyclePcs == {"idle", "failRow", "failCount"} \cup BeginPcs \cup FinalizePcs \cup RecoverPcs

VARIABLES
  status,     \* paper_execution_cycles.status, "absent" before ensure_cycle
  attempt,    \* paper_execution_cycles.attempt
  stored,     \* is paper_execution_cycles.paper_run_id set
  prun,       \* paper_walkforward_runs.status
  child,      \* status of its backtest: "none", "active", "success", "failed"
  runner,     \* status of the backtest's restricted_runner_jobs row
  dep,        \* paper_strategy_deployments.status
  failures,   \* its consecutive_failures, saturated at three
  last,       \* its last_successful_trading_date, 0 for none
  processed,  \* last_processed_date of its session, 0 for none
  msgs,       \* messages in RabbitMQ, by cycle and task
  client,     \* run_now or schedule_due_deployments between its steps
  pc, job,    \* per worker: control state and cycle
  task,       \* per worker: the task it executes, "beat" for the recovery
  seen,       \* per worker: paper_run_id as recover_orphaned_cycles read it
  faults      \* faults so far

runVars == <<prun, child, runner>>
depVars == <<dep, failures, last, processed>>
procVars == <<pc, job, task, seen>>
vars == <<status, attempt, stored, prun, child, runner, dep, failures, last, processed,
          msgs, client, pc, job, task, seen, faults>>

TypeOK ==
  /\ status \in [Cycles -> CYCLE_STATES \cup {"absent"}]
  /\ attempt \in [Cycles -> Nat]
  /\ stored \in [Cycles -> BOOLEAN]
  /\ prun \in [Cycles -> {"none", "queued", "running", "success", "failed"}]
  /\ child \in [Cycles -> {"none", "active", "success", "failed"}]
  /\ runner \in [Cycles -> {"none", "success", "failed"}]
  /\ dep \in [Deployments -> {"active", "error"}]
  /\ failures \in [Deployments -> 0 .. 3]
  /\ last \in [Deployments -> Dates \cup {0}]
  /\ processed \in [Deployments -> Dates \cup {0}]
  /\ msgs \in [Cycles -> [Tasks -> Nat]]
  /\ client \in [Cycles -> {"none", "user", "beat", "publish"}]
  /\ pc \in [Workers -> CyclePcs]
  /\ job \in [Workers -> Cycles \cup {NoCycle}]
  /\ task \in [Workers -> Tasks \cup {"beat", "none"}]
  /\ seen \in [Workers -> BOOLEAN]
  /\ faults \in Nat

Init ==
  /\ status = [c \in Cycles |-> "absent"]
  /\ attempt = [c \in Cycles |-> 0]
  /\ stored = [c \in Cycles |-> FALSE]
  /\ prun = [c \in Cycles |-> "none"]
  /\ child = [c \in Cycles |-> "none"]
  /\ runner = [c \in Cycles |-> "none"]
  /\ dep = [d \in Deployments |-> "active"]
  /\ failures = [d \in Deployments |-> 0]
  /\ last = [d \in Deployments |-> 0]
  /\ processed = [d \in Deployments |-> 0]
  /\ msgs = [c \in Cycles |-> [t \in Tasks |-> 0]]
  /\ client = [c \in Cycles |-> "none"]
  /\ pc = [w \in Workers |-> "idle"]
  /\ job = [w \in Workers |-> NoCycle]
  /\ task = [w \in Workers |-> "none"]
  /\ seen = [w \in Workers |-> FALSE]
  /\ faults = 0

----------------------------------------------------------------------------
(* Helpers.                                                                *)

\* The date after n on which a session or a deployment continues: its start
\* date at first, then the next open date.
next_trade_date(n) ==
  IF n = 0 THEN 1
  ELSE CHOOSE m \in 1 .. MaxDate + 1 :
         /\ m > n
         /\ m \notin ClosedDates
         /\ \A k \in Dates : n < k /\ k < m => k \in ClosedDates

\* Mutant: the expected status is not checked.
Mut_transition_cycle(c, to, expected) == status' = [status EXCEPT ![c] = to]

\* A row that is not in an expected status is left alone.
transition_cycle(c, to, expected) ==
  status' = [status EXCEPT ![c] = IF @ \in expected THEN to ELSE @]

Put(c, t) == msgs' = [msgs EXCEPT ![c][t] = @ + 1]
Take(c, t) == msgs[c][t] > 0 /\ msgs' = [msgs EXCEPT ![c][t] = @ - 1]
Pass(c, t, u) == msgs[c][t] > 0 /\ msgs' = [msgs EXCEPT ![c][t] = @ - 1, ![c][u] = @ + 1]
Fault(kind) == kind \in Faults /\ faults < MaxFaults /\ faults' = faults + 1

Goto(w, l) == pc' = [pc EXCEPT ![w] = l] /\ UNCHANGED <<job, task, seen>>

Idle(w) ==
  /\ pc' = [pc EXCEPT ![w] = "idle"]
  /\ job' = [job EXCEPT ![w] = NoCycle]
  /\ task' = [task EXCEPT ![w] = "none"]
  /\ seen' = [seen EXCEPT ![w] = FALSE]

\* An idle worker takes up task t of cycle c.
Begin(w, c, t, l) ==
  /\ pc[w] = "idle"
  /\ pc' = [pc EXCEPT ![w] = l]
  /\ job' = [job EXCEPT ![w] = c]
  /\ task' = [task EXCEPT ![w] = t]

----------------------------------------------------------------------------
(* Dispatch: run_now and schedule_due_deployments.                         *)

\* ensure_cycle returns the row of the deployment and date, or inserts it.
ensure_cycle(c) == status' = [status EXCEPT ![c] = IF @ = "absent" THEN "scheduled" ELSE @]

run_now(c) ==
  /\ client[c] = "none"
  /\ dep[DeploymentOf(c)] = "active"
  /\ \/ status[c] \in {"absent", "scheduled", "waiting_data"} /\ UNCHANGED faults
     \/ status[c] = "failed" /\ Fault("retry")
  /\ attempt[c] < MaxAttempts
  /\ ensure_cycle(c)
  /\ client' = [client EXCEPT ![c] = "user"]
  /\ UNCHANGED <<attempt, stored, runVars, depVars, msgs, procVars>>

schedule_due_deployment(c) ==
  /\ client[c] = "none"
  /\ dep[DeploymentOf(c)] = "active"
  /\ DateOf(c) = next_trade_date(last[DeploymentOf(c)])
  /\ status[c] \in {"absent", "scheduled"}
  /\ ensure_cycle(c)
  /\ client' = [client EXCEPT ![c] = "beat"]
  /\ UNCHANGED <<attempt, stored, runVars, depVars, msgs, procVars, faults>>

DispatchFrom(c) ==
  IF client[c] = "user" THEN {"scheduled", "waiting_data", "failed"} ELSE {"scheduled"}

SkipClosedDate(c) ==
  /\ client[c] \in {"user", "beat"}
  /\ DateOf(c) \in ClosedDates
  /\ transition_cycle(c, "skipped", DispatchFrom(c) \ {"failed"})
  /\ client' = [client EXCEPT ![c] = "none"]
  /\ UNCHANGED <<attempt, stored, runVars, depVars, msgs, procVars, faults>>

QueueCycle(c) ==
  /\ client[c] \in {"user", "beat"}
  /\ status[c] = "failed" => "retry" \in Faults
  /\ DateOf(c) \notin ClosedDates
  /\ transition_cycle(c, "queued", DispatchFrom(c))
  /\ client' = [client EXCEPT ![c] = "publish"]
  /\ UNCHANGED <<attempt, stored, runVars, depVars, msgs, procVars, faults>>

PublishCycle(c) ==
  /\ client[c] = "publish"
  /\ msgs[c]["run"] < MaxCopies
  /\ Put(c, "run")
  /\ client' = [client EXCEPT ![c] = "none"]
  /\ UNCHANGED <<status, attempt, stored, runVars, depVars, procVars, faults>>

ClientCrash(c) ==
  /\ client[c] # "none"
  /\ Fault("client_crash")
  /\ client' = [client EXCEPT ![c] = "none"]
  /\ UNCHANGED <<status, attempt, stored, runVars, depVars, msgs, procVars>>

\* Mutant: only rows that were never queued are looked at.
Mut_recover_stale_queued_dispatch(c) ==
  /\ "queued" \in Recoveries
  /\ status[c] = "scheduled"
  /\ msgs[c]["run"] < MaxCopies
  /\ Put(c, "run")
  /\ UNCHANGED <<status, attempt, stored, runVars, depVars, client, procVars, faults>>

\* Republishing needs no further bookkeeping: the row stays queued.
recover_stale_queued_dispatch(c) ==
  /\ "queued" \in Recoveries
  /\ status[c] = "queued"
  /\ msgs[c]["run"] < MaxCopies
  /\ Put(c, "run")
  /\ UNCHANGED <<status, attempt, stored, runVars, depVars, client, procVars, faults>>

----------------------------------------------------------------------------
(* run_paper_execution_cycle: the guarded begin_cycle and the chain.       *)

\* Mutant: a delivery of a running cycle is granted too.
Mut_claim_cycle_for_worker(w, c) ==
  /\ pc[w] = "idle"
  /\ Take(c, "run")
  /\ \/ /\ status[c] \in CLAIMABLE_CYCLE_STATES \cup {"running"}
        /\ status' = [status EXCEPT ![c] = "running"]
        /\ attempt' = [attempt EXCEPT ![c] = @ + 1]
        /\ Begin(w, c, "run", "begin")
     \/ /\ status[c] \notin CLAIMABLE_CYCLE_STATES \cup {"running"}
        /\ UNCHANGED <<status, attempt, pc, job, task>>
  /\ UNCHANGED <<stored, runVars, depVars, client, seen, faults>>

\* One delivery is granted; any other one is acknowledged without effect.
claim_cycle_for_worker(w, c) ==
  /\ pc[w] = "idle"
  /\ Take(c, "run")
  /\ \/ /\ status[c] \in CLAIMABLE_CYCLE_STATES
        /\ status' = [status EXCEPT ![c] = "running"]
        /\ attempt' = [attempt EXCEPT ![c] = @ + 1]
        /\ Begin(w, c, "run", "begin")
     \/ /\ status[c] \notin CLAIMABLE_CYCLE_STATES
        /\ UNCHANGED <<status, attempt, pc, job, task>>
  /\ UNCHANGED <<stored, runVars, depVars, client, seen, faults>>

\* begin_cycle's own transition normally finds the cycle running already.
BeginCycle(w) ==
  LET c == job[w] IN
  /\ pc[w] = "begin"
  /\ transition_cycle(c, "running", CLAIMABLE_CYCLE_STATES)
  /\ attempt' = [attempt EXCEPT ![c] = IF status[c] \in CLAIMABLE_CYCLE_STATES THEN 1 ELSE @]
  /\ Goto(w, "busy")
  /\ UNCHANGED <<stored, runVars, depVars, msgs, client, faults>>

\* Mutant: the account's other cycles are not looked at.
MutBusyCheck(w) ==
  /\ pc[w] = "busy"
  /\ Goto(w, "create")
  /\ UNCHANGED <<status, attempt, stored, runVars, depVars, msgs, client, faults>>

\* Does another cycle of the account run or finalize?
BusyCheck(w) ==
  /\ pc[w] = "busy"
  /\ Goto(w, IF \E e \in Cycles \ {job[w]} : status[e] \in {"running", "finalizing"}
             THEN "yield" ELSE "create")
  /\ UNCHANGED <<status, attempt, stored, runVars, depVars, msgs, client, faults>>

\* account_execution_busy and readiness_gate_blocked end the delivery alike.
YieldCycle(w) ==
  /\ pc[w] = "yield"
  /\ transition_cycle(job[w], "waiting_data", {"running"})
  /\ Idle(w)
  /\ UNCHANGED <<attempt, stored, runVars, depVars, msgs, client, faults>>

\* The date must be the session's next one and have no live Paper run.
CanCreate(c) ==
  /\ DateOf(c) = next_trade_date(processed[DeploymentOf(c)])
  /\ prun[c] \notin {"queued", "running"}

\* The child backtest and the Paper run are created; a blocked gate or any
\* other error ends the attempt.
create_walkforward_run(w) ==
  LET c == job[w] IN
  /\ pc[w] = "create"
  /\ \/ /\ CanCreate(c)
        /\ prun' = [prun EXCEPT ![c] = "queued"]
        /\ child' = [child EXCEPT ![c] = "active"]
        /\ runner' = [runner EXCEPT ![c] = "none"]
        /\ msgs' = [msgs EXCEPT ![c]["oldLean"] = @ + msgs[c]["lean"], ![c]["lean"] = 0,
                                ![c]["oldRelean"] = @ + msgs[c]["relean"], ![c]["relean"] = 0]
        /\ Goto(w, "store")
     \/ /\ CanCreate(c)
        /\ Goto(w, "yield")
        /\ UNCHANGED <<runVars, msgs>>
     \/ /\ Goto(w, "failRow")
        /\ UNCHANGED <<runVars, msgs>>
  /\ UNCHANGED <<status, attempt, stored, depVars, client, faults>>

StorePaperRun(w) ==
  /\ pc[w] = "store"
  /\ stored' = [stored EXCEPT ![job[w]] = TRUE]
  /\ Goto(w, "dispatch")
  /\ UNCHANGED <<status, attempt, runVars, depVars, msgs, client, faults>>

DispatchChain(w) ==
  /\ pc[w] = "dispatch"
  /\ Put(job[w], "mark")
  /\ Idle(w)
  /\ UNCHANGED <<status, attempt, stored, runVars, depVars, client, faults>>

----------------------------------------------------------------------------
(* The chain before the cycle's own finalization.                          *)

mark_walkforward_running(c) ==
  /\ Pass(c, "mark", "lean")
  /\ prun' = [prun EXCEPT ![c] = "running"]
  /\ UNCHANGED <<status, attempt, stored, child, runner, depVars, client, procVars, faults>>

\* The marking task is acknowledged early: a lost worker loses the chain.
MarkLost(c) ==
  /\ Take(c, "mark")
  /\ Fault("crash")
  /\ UNCHANGED <<status, attempt, stored, runVars, depVars, client, procVars>>

\* The restricted runner reaches a terminal state.
RunnerEnds(c) ==
  /\ msgs[c]["lean"] + msgs[c]["relean"] > 0
  /\ child[c] = "active"
  /\ runner[c] = "none"
  /\ \E o \in {"success", "failed"} : runner' = [runner EXCEPT ![c] = o]
  /\ UNCHANGED <<status, attempt, stored, prun, child, depVars, msgs, client, procVars, faults>>

\* run_backtest_task returns: it settles an active child, and replays a
\* terminal one.  Without a runner result the child has failed beforehand.
ChildOutcomes(c) ==
  IF child[c] # "active" THEN {child[c]}
  ELSE IF runner[c] = "success" THEN {"success", "failed"} ELSE {"failed"}

NextTask == [lean |-> "finalizeRun", oldLean |-> "finalizeRun",
             relean |-> "refinalize", oldRelean |-> "refinalize"]

LeanEnds(c, t) ==
  /\ Pass(c, t, NextTask[t])
  /\ \/ /\ t \in {"lean", "relean"}
        /\ \E o \in ChildOutcomes(c) : child' = [child EXCEPT ![c] = o]
     \/ /\ t \in {"oldLean", "oldRelean"}
        /\ UNCHANGED child
  /\ UNCHANGED <<status, attempt, stored, prun, runner, depVars, client, procVars, faults>>

\* Mutant: the chain is published without link_error.
MutLeanRaises(c) ==
  /\ Take(c, "lean")
  /\ child[c] = "active"
  /\ UNCHANGED <<status, attempt, stored, runVars, depVars, client, procVars, faults>>

\* run_backtest_task raises before it touches the child.
LeanRaises(c) ==
  /\ Pass(c, "lean", "fail")
  /\ child[c] = "active"
  /\ UNCHANGED <<status, attempt, stored, runVars, depVars, client, procVars, faults>>

\* What finalize_walkforward_run leaves: a successful run is final; otherwise
\* only a successful child can make it one, unless reconciliation fails.
FinalizedRun(c) ==
  IF prun[c] = "success" THEN {"success"}
  ELSE IF child[c] = "success" THEN {"success", "failed"} ELSE {"failed"}

finalize_walkforward_run(c) ==
  \E o \in FinalizedRun(c) :
    /\ prun' = [prun EXCEPT ![c] = o]
    /\ processed' = [processed EXCEPT ![DeploymentOf(c)] =
                       IF o = "success" /\ prun[c] # "success" THEN DateOf(c) ELSE @]

FinalizeRun(c) ==
  /\ \/ Pass(c, "finalizeRun", "finalizeCycle")
     \/ Take(c, "refinalize")
  /\ finalize_walkforward_run(c)
  /\ UNCHANGED <<status, attempt, stored, child, runner, dep, failures, last, client, procVars,
                 faults>>

\* The order pipeline raises and leaves the run as it was; only the chain has
\* an errback.
FinalizeRunRaises(c) ==
  /\ \/ Pass(c, "finalizeRun", "fail")
     \/ Take(c, "refinalize")
  /\ prun[c] # "success"
  /\ child[c] = "success"
  /\ UNCHANGED <<status, attempt, stored, runVars, depVars, client, procVars, faults>>

\* recover_paper_finalizations: a second finalization of a run whose first one
\* has not ended.
recover_paper_finalization(c) ==
  /\ "finalizations" \in Recoveries
  /\ prun[c] = "running"
  /\ child[c] = "success"
  /\ msgs[c]["refinalize"] < MaxCopies
  /\ Put(c, "refinalize")
  /\ UNCHANGED <<status, attempt, stored, runVars, depVars, client, procVars, faults>>

----------------------------------------------------------------------------
(* finalize_cycle, called by the chain's last task or by the recovery.     *)

FinalizeStart(w, c) ==
  /\ Begin(w, c, "finalizeCycle", "finRead")
  /\ Take(c, "finalizeCycle")
  /\ UNCHANGED <<status, attempt, stored, runVars, depVars, client, seen, faults>>

FinRead(w) ==
  /\ pc[w] = "finRead"
  /\ IF status[job[w]] = "succeeded" THEN Idle(w) ELSE Goto(w, "finMark")
  /\ UNCHANGED <<status, attempt, stored, runVars, depVars, msgs, client, faults>>

FinMark(w) ==
  /\ pc[w] = "finMark"
  /\ transition_cycle(job[w], "finalizing", {"running", "queued"})
  /\ Goto(w, "finCheck")
  /\ UNCHANGED <<attempt, stored, runVars, depVars, msgs, client, faults>>

\* Mutant: the Paper run's status is not looked at.
MutFinCheck(w) ==
  /\ pc[w] = "finCheck"
  /\ Goto(w, "finSucceed")
  /\ UNCHANGED <<status, attempt, stored, runVars, depVars, msgs, client, faults>>

\* The Paper run must have succeeded.  Signals, projection and report are not
\* modelled beyond that they too may raise.
FinCheck(w) ==
  LET c == job[w] IN
  /\ pc[w] = "finCheck"
  /\ \/ /\ stored[c] /\ prun[c] = "success"
        /\ Goto(w, "finSucceed")
        /\ UNCHANGED msgs
     \/ /\ task[w] = "finalizeCycle"
        /\ Put(c, "fail")
        /\ Idle(w)
     \/ /\ task[w] = "beat"
        /\ Goto(w, "failRow")
        /\ UNCHANGED msgs
  /\ UNCHANGED <<status, attempt, stored, runVars, depVars, client, faults>>

\* Mutant: the status name of Paper runs and backtests.
MutFinSucceed(w) ==
  /\ pc[w] = "finSucceed"
  /\ transition_cycle(job[w], "success", {"finalizing"})
  /\ Goto(w, "finAdvance")
  /\ UNCHANGED <<attempt, stored, runVars, depVars, msgs, client, faults>>

FinSucceed(w) ==
  /\ pc[w] = "finSucceed"
  /\ transition_cycle(job[w], "succeeded", {"finalizing"})
  /\ Goto(w, "finAdvance")
  /\ UNCHANGED <<attempt, stored, runVars, depVars, msgs, client, faults>>

\* Written whatever became of the transition.
FinAdvance(w) ==
  LET d == DeploymentOf(job[w]) IN
  /\ pc[w] = "finAdvance"
  /\ last' = [last EXCEPT ![d] = DateOf(job[w])]
  /\ failures' = [failures EXCEPT ![d] = 0]
  /\ Idle(w)
  /\ UNCHANGED <<status, attempt, stored, runVars, dep, processed, msgs, client, faults>>

----------------------------------------------------------------------------
(* fail_cycle, called by the errback, by begin_cycle and by the recovery.  *)

FailStart(w, c) ==
  /\ Begin(w, c, "fail", "failRow")
  /\ Take(c, "fail")
  /\ UNCHANGED <<status, attempt, stored, runVars, depVars, client, seen, faults>>

FailRow(w) ==
  /\ pc[w] = "failRow"
  /\ transition_cycle(job[w], "failed", CYCLE_STATES \ TERMINAL_CYCLE_STATES)
  /\ Goto(w, "failCount")
  /\ UNCHANGED <<attempt, stored, runVars, depVars, msgs, client, faults>>

\* Counted whatever became of the transition; the third failure in a row stops
\* the deployment.
FailCount(w) ==
  LET d == DeploymentOf(job[w]) IN
  /\ pc[w] = "failCount"
  /\ failures' = [failures EXCEPT ![d] = IF @ < 3 THEN @ + 1 ELSE 3]
  /\ dep' = [dep EXCEPT ![d] = IF failures[d] + 1 >= 3 THEN "error" ELSE @]
  /\ Idle(w)
  /\ UNCHANGED <<status, attempt, stored, runVars, last, processed, msgs, client, faults>>

----------------------------------------------------------------------------
(* recover_orphaned_cycles.                                                *)

\* No step of a worker takes the fifteen minutes after which a row is stale,
\* so a cycle some worker has in hand is not.
Stale(c) == \A w \in Workers : job[w] # c

\* The rows are read once, before the loop.
RecoverPick(w, c) ==
  /\ "orphans" \in Recoveries
  /\ status[c] \in {"running", "finalizing"}
  /\ Stale(c)
  /\ Begin(w, c, "beat", "decide")
  /\ seen' = [seen EXCEPT ![w] = stored[c]]
  /\ UNCHANGED <<status, attempt, stored, runVars, depVars, msgs, client, faults>>

\* A Paper run whose backtest is still going on is left to its runner.
RecoverDecide(w) ==
  LET c == job[w]
      live == seen[w] /\ prun[c] \in {"queued", "running"}
      ended == child[c] = "failed" \/ runner[c] = "failed"
  IN
  /\ pc[w] = "decide"
  /\ \/ /\ seen[w] /\ prun[c] = "success"
        /\ Goto(w, "finRead")
        /\ UNCHANGED msgs
     \/ /\ live /\ child[c] = "success"
        /\ Goto(w, "recRun")
        /\ UNCHANGED msgs
     \/ /\ live /\ child[c] = "active" /\ runner[c] = "success"
        /\ IF msgs[c]["relean"] < MaxCopies THEN Put(c, "relean") ELSE UNCHANGED msgs
        /\ Idle(w)
     \/ /\ live /\ child[c] # "success" /\ ended
        /\ Goto(w, "recFail")
        /\ UNCHANGED msgs
     \/ /\ live /\ child[c] = "active" /\ runner[c] = "none"
        /\ Idle(w)
        /\ UNCHANGED msgs
     \/ /\ ~ seen[w] \/ prun[c] \notin {"success", "queued", "running"}
        /\ Goto(w, "failRow")
        /\ UNCHANGED msgs
  /\ UNCHANGED <<status, attempt, stored, runVars, depVars, client, faults>>

\* The recovery finalizes the Paper run itself, then the cycle.
RecoverRun(w) ==
  LET c == job[w] IN
  /\ pc[w] = "recRun"
  /\ \/ /\ finalize_walkforward_run(c)
        /\ Goto(w, "finRead")
     \/ /\ prun[c] # "success" /\ child[c] = "success"
        /\ Goto(w, "failRow")
        /\ UNCHANGED <<prun, processed>>
  /\ UNCHANGED <<status, attempt, stored, child, runner, dep, failures, last, msgs, client, faults>>

fail_walkforward_run(w) ==
  /\ pc[w] = "recFail"
  /\ prun' = [prun EXCEPT ![job[w]] = "failed"]
  /\ Goto(w, "failRow")
  /\ UNCHANGED <<status, attempt, stored, child, runner, depVars, msgs, client, faults>>

----------------------------------------------------------------------------
(* Faults.                                                                 *)

\* The message of an acks_late task goes back to its queue; the recovery and
\* the errback are acknowledged early and are lost with their worker.
Returned(w) == {task[w]} \cap LateTasks

Crash(w) ==
  /\ pc[w] # "idle"
  /\ Fault("crash")
  /\ msgs' = [msgs EXCEPT ![job[w]] = [t \in Tasks |-> @[t] + (IF t \in Returned(w) THEN 1 ELSE 0)]]
  /\ Idle(w)
  /\ UNCHANGED <<status, attempt, stored, runVars, depVars, client>>

\* A message under way is delivered a second time.
Redeliver(c, t) ==
  /\ msgs[c][t] \in 1 .. MaxCopies - 1
  /\ Fault("redeliver")
  /\ Put(c, t)
  /\ UNCHANGED <<status, attempt, stored, runVars, depVars, client, procVars>>

----------------------------------------------------------------------------
(* The specification.                                                      *)

ClientStep(c) == SkipClosedDate(c) \/ QueueCycle(c) \/ PublishCycle(c)

Deliver(w, c) == claim_cycle_for_worker(w, c) \/ FinalizeStart(w, c) \/ FailStart(w, c)

WorkerStep(w) ==
  \/ BeginCycle(w) \/ BusyCheck(w) \/ YieldCycle(w) \/ create_walkforward_run(w)
  \/ StorePaperRun(w) \/ DispatchChain(w)
  \/ FinRead(w) \/ FinMark(w) \/ FinCheck(w) \/ FinSucceed(w) \/ FinAdvance(w)
  \/ FailRow(w) \/ FailCount(w)
  \/ RecoverDecide(w) \/ RecoverRun(w) \/ fail_walkforward_run(w)

ChainStep(c) ==
  \/ mark_walkforward_running(c)
  \/ \E t \in DOMAIN NextTask : LeanEnds(c, t)
  \/ LeanRaises(c)
  \/ FinalizeRun(c)
  \/ FinalizeRunRaises(c)

Recovery(c) ==
  \/ recover_stale_queued_dispatch(c)
  \/ recover_paper_finalization(c)
  \/ \E w \in Workers : RecoverPick(w, c)

Next ==
  \/ \E c \in Cycles : run_now(c) \/ schedule_due_deployment(c) \/ ClientStep(c) \/ ClientCrash(c)
  \/ \E w \in Workers, c \in Cycles : Deliver(w, c)
  \/ \E w \in Workers : WorkerStep(w) \/ Crash(w)
  \/ \E c \in Cycles : ChainStep(c) \/ RunnerEnds(c) \/ MarkLost(c) \/ Recovery(c)
  \/ \E c \in Cycles, t \in Redelivered : Redeliver(c, t)

Spec == Init /\ [][Next]_vars

\* Processes that are alive go on, the broker delivers what it holds, a LEAN
\* container ends, and beat runs each recovery every minute.
Fairness ==
  /\ \A c \in Cycles :
       /\ WF_vars(ClientStep(c))
       /\ WF_vars(ChainStep(c))
       /\ SF_vars(\E w \in Workers : claim_cycle_for_worker(w, c))
       /\ SF_vars(\E w \in Workers : FinalizeStart(w, c))
       /\ SF_vars(\E w \in Workers : FailStart(w, c))
       /\ WF_vars(recover_stale_queued_dispatch(c))
       /\ SF_vars(\E w \in Workers : RecoverPick(w, c))
  /\ \A w \in Workers : WF_vars(WorkerStep(w))

FairSpec == Spec /\ Fairness

----------------------------------------------------------------------------
(* Properties.                                                             *)

\* A cycle that succeeded or was skipped is never touched again: no duplicate
\* delivery, late errback, retry or recovery reopens an accounted trading day.
SucceededForever ==
  [][\A c \in Cycles : status[c] \in {"succeeded", "skipped"} => status'[c] = status[c]]_vars

\* A cycle that succeeded has its stored, successful Paper run, and the session
\* has processed its date.
SucceededHasRun ==
  \A c \in Cycles :
    status[c] = "succeeded" =>
      stored[c] /\ prun[c] = "success" /\ processed[DeploymentOf(c)] >= DateOf(c)

Preparing(c) == {w \in Workers : job[w] = c /\ pc[w] \in {"create", "store", "dispatch"}}

\* Chains that have yet to start LEAN, or whose runner has yet to end.
UnfinishedChains(c) == msgs[c]["mark"] + (IF runner[c] = "none" THEN msgs[c]["lean"] ELSE 0)

\* One at-least-once delivery owns the execution of a cycle: two workers never
\* prepare it, nor does one prepare it while LEAN runs for an earlier delivery.
SingleFlight ==
  \A c \in Cycles : Cardinality(Preparing(c)) + UnfinishedChains(c) <= 1

\* Two cycles of the account never execute at a time (account_execution_busy).
AccountExclusive ==
  \A c, e \in Cycles :
    c # e => \/ Preparing(c) = {} /\ UnfinishedChains(c) = 0
             \/ Preparing(e) = {} /\ UnfinishedChains(e) = 0

\* The deployment advances only over dates whose Paper run succeeded and which
\* its session has processed, so the next date it schedules can be created.
AdvancedIsProcessed ==
  \A d \in Deployments : last[d] # 0 =>
    prun[<<d, last[d]>>] = "success" /\ processed[d] >= last[d]

\* A queued cycle is picked up by a worker, even if its dispatcher died before
\* it published the message.
QueuedPickedUp == \A c \in Cycles : status[c] = "queued" ~> status[c] # "queued"

\* A cycle that runs comes to an end, and frees the account for the others.
RunningEnds ==
  \A c \in Cycles : status[c] \in {"running", "finalizing"} ~>
                       status[c] \notin {"running", "finalizing"}

=============================================================================
