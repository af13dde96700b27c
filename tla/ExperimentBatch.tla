--------------------------- MODULE ExperimentBatch ---------------------------
(***************************************************************************)
(* An experiment batch: items dispatched through a window as child         *)
(* backtests, reconciled from the children's hooks, summarised by refresh, *)
(* and, for a walk-forward batch, out-of-sample items that wait for the    *)
(* parameters validation selects.  The children keep BacktestContract.     *)
(*                                                                         *)
(* An action is one transaction with the local control flow up to the      *)
(* next.  The processes are Celery workers (dispatch_experiment_batch and  *)
(* the beat reconciler) and API requests; a child's own worker calls       *)
(* reconcile_backtest when it starts and when it has ended.                *)
(***************************************************************************)
EXTENDS Naturals, FiniteSets

CONSTANTS
  Candidates,  \* parameter candidates (symbols, projects) of the batch
  Phases,      \* phases of a candidate, one item each, in one fold
  MaxRuns,     \* bound: children of one item
  Window,      \* the dispatch window, max(4, 2 * maxConcurrentJobs)
  Procs,       \* Celery workers of the default queue and API threads
  UserOps,     \* what the user may ask for, see UserOpKinds
  MaxOps,      \* bound: user requests in a behaviour
  MaxFaults,   \* bound: faults in a behaviour
  NoItem,      \* no item in hand
  NoCandidate, \* nothing has been selected
  Faults       \* the disturbances a behaviour may contain, see FaultKinds

UserOpKinds == {"cancel", "retry", "restart", "view"}

FaultKinds ==
  { "crash",        \* a dispatching process or a child's worker is lost
    "broker_down",  \* a child cannot be published
    "rejected",     \* create_backtest_job refuses the item's request
    "no_metric",    \* a successful child has no objective metric
    "over_budget" } \* the run reconciler ends a child

ASSUME BatchBoundsAssumption ==
  MaxRuns \in Nat /\ MaxOps \in Nat /\ MaxFaults \in Nat /\ Window \in Nat \ {0}
ASSUME RunsAssumption == MaxRuns > MaxOps   \* a further child needs a request
ASSUME PhasesAssumption ==
  \/ Phases = {"full"}
  \/ {"validation", "oos"} \subseteq Phases /\ Phases \subseteq {"train", "validation", "oos"}
ASSUME BatchFaultsAssumption == Faults \subseteq FaultKinds /\ UserOps \subseteq UserOpKinds

Items == Phases \X Candidates
ChildRuns == Items \X (1 .. MaxRuns)
ItemOf(r) == r[1]

ASSUME NoItemAssumption == NoItem \notin Items /\ NoCandidate \notin Candidates

TERMINAL == {"success", "failed", "skipped", "cancelled"}
ACTIVE == {"dispatching", "queued", "running"}
SELECTION_BLOCKED == "blocked_selection"
ItemStates == TERMINAL \cup ACTIVE \cup {"pending", SELECTION_BLOCKED}
BatchStates == {"queued", "running", "success", "partial", "cancelled"}
ENDED == TERMINAL \cup {"partial"}

RefreshPcs == {"read", "select", "reread", "write", "certify"}
DispatchPcs == {"load", "item", "create", "link", "reject", "publish"}
UserPcs == {"requeue", "cancelItems", "cancelRuns"}
HookPcs == {"hookRead", "hookWrite", "hookOos"}
ProcPcs == {"idle"} \cup RefreshPcs \cup DispatchPcs \cup UserPcs \cup HookPcs

VARIABLES
  item,      \* experiment_batch_items.status
  related,   \* number of the run in related_id, 0 for null
  result,    \* number of the run whose statistics are in result_json, 0 for none
  unscored,  \* runs that succeeded without the objective metric
  batch,     \* experiment_batches.status
  cancelReq, \* its cancel_requested
  selected,  \* candidate of parameter_selection_events
  ranking,   \* its candidate_ranking: per validation item the run ranked, or 0
  oosEval,   \* oos_evaluations.status
  oosRun,    \* number of the run in its oos_run_id, 0 for null
  wfRun,     \* walk_forward_runs.status
  cert,      \* out-of-sample run walk_forward_runs.certificate rests on, 0 for none
  status, born,  \* the children, as in BacktestContract
  hook,      \* per child: where its worker is
  seen,      \* per child: the status its worker's hook has read
  msgs,      \* dispatch_experiment_batch messages, saturated at one
  pc, flow,  \* per process: control state, and what it was called for
  last,      \* per process: is this the second refresh of its flow
  calc,      \* per process: batch status its refresh has computed
  rows,      \* per process: the results its refresh is to rank
  todo,      \* per process: items to dispatch (run 0), or runs to cancel
  cur,       \* per process: the child in hand
  got,       \* per process: the status its hook has read
  ops, faults  \* user requests and faults so far

selectionVars == <<selected, ranking, oosEval, oosRun, wfRun, cert>>
childVars == <<status, born>>
hookVars == <<hook, seen>>
countVars == <<ops, faults>>
rowVars == <<item, related, result, unscored, batch, cancelReq, selectionVars>>
procVars == <<pc, flow, last, calc, rows, todo, cur, got>>
vars == <<rowVars, childVars, hookVars, msgs, procVars, countVars>>

Child == INSTANCE BacktestContract WITH Runs <- ChildRuns

WalkForward == "oos" \in Phases
Validation == {i \in Items : i[1] = "validation"}
NoRun == <<NoItem, 0>>
Unranked == [i \in Validation |-> 0]
Slots == Items \X (0 .. MaxRuns)
Flows == {"none", "dispatch", "again"} \cup UserOpKinds

TypeOK ==
  /\ item \in [Items -> ItemStates]
  /\ related \in [Items -> 0 .. MaxRuns]
  /\ result \in [Items -> 0 .. MaxRuns]
  /\ unscored \subseteq ChildRuns
  /\ batch \in BatchStates
  /\ cancelReq \in BOOLEAN
  /\ selected \in Candidates \cup {NoCandidate}
  /\ ranking \in [Validation -> 0 .. MaxRuns]
  /\ oosRun \in 0 .. MaxRuns
  /\ oosEval \in {"none", "pending", "completed", "failed"}
  /\ wfRun \in {"none", "validation_pending", "oos_pending", "completed", "failed"}
  /\ cert \in 0 .. MaxRuns
  /\ Child!TypeOK
  /\ hook \in [ChildRuns -> {"none", "execute", "startRead", "startWrite", "startOos",
                             "endRead", "endWrite", "endOos"}]
  /\ seen \in [ChildRuns -> Child!Active \cup Child!Terminal \cup {"none"}]
  /\ msgs \in {0, 1}
  /\ pc \in [Procs -> ProcPcs]
  /\ flow \in [Procs -> Flows]
  /\ last \in [Procs -> BOOLEAN]
  /\ calc \in [Procs -> BatchStates \cup {"none"}]
  /\ rows \in [Procs -> [Validation -> 0 .. MaxRuns]]
  /\ todo \in [Procs -> SUBSET Slots]
  /\ cur \in [Procs -> Slots \cup {NoRun}]
  /\ got \in [Procs -> Child!Active \cup Child!Terminal \cup {"none"}]
  /\ ops \in 0 .. MaxOps /\ faults \in 0 .. MaxFaults

\* Mutant: every item may run at once.
MutInit ==
  /\ item = [i \in Items |-> "pending"]
  /\ related = [i \in Items |-> 0]
  /\ result = [i \in Items |-> 0]
  /\ unscored = {}
  /\ batch = "queued"
  /\ cancelReq = FALSE
  /\ selected = NoCandidate
  /\ ranking = Unranked
  /\ oosEval = "none"
  /\ oosRun = 0
  /\ wfRun = IF WalkForward THEN "validation_pending" ELSE "none"
  /\ cert = 0
  /\ Child!Init
  /\ hook = [r \in ChildRuns |-> "none"]
  /\ seen = [r \in ChildRuns |-> "none"]
  /\ msgs = 1
  /\ pc = [p \in Procs |-> "idle"]
  /\ flow = [p \in Procs |-> "none"]
  /\ last = [p \in Procs |-> FALSE]
  /\ calc = [p \in Procs |-> "none"]
  /\ rows = [p \in Procs |-> Unranked]
  /\ todo = [p \in Procs |-> {}]
  /\ cur = [p \in Procs |-> NoRun]
  /\ got = [p \in Procs |-> "none"]
  /\ ops = 0
  /\ faults = 0

\* create_batch: the items of the out-of-sample phase wait for a selection, and
\* the API has published the first dispatch.
Init ==
  /\ item = [i \in Items |-> IF i[1] = "oos" THEN SELECTION_BLOCKED ELSE "pending"]
  /\ related = [i \in Items |-> 0]
  /\ result = [i \in Items |-> 0]
  /\ unscored = {}
  /\ batch = "queued"
  /\ cancelReq = FALSE
  /\ selected = NoCandidate
  /\ ranking = Unranked
  /\ oosEval = "none"
  /\ oosRun = 0
  /\ wfRun = IF WalkForward THEN "validation_pending" ELSE "none"
  /\ cert = 0
  /\ Child!Init
  /\ hook = [r \in ChildRuns |-> "none"]
  /\ seen = [r \in ChildRuns |-> "none"]
  /\ msgs = 1
  /\ pc = [p \in Procs |-> "idle"]
  /\ flow = [p \in Procs |-> "none"]
  /\ last = [p \in Procs |-> FALSE]
  /\ calc = [p \in Procs |-> "none"]
  /\ rows = [p \in Procs |-> Unranked]
  /\ todo = [p \in Procs |-> {}]
  /\ cur = [p \in Procs |-> NoRun]
  /\ got = [p \in Procs |-> "none"]
  /\ ops = 0
  /\ faults = 0

----------------------------------------------------------------------------
(* Control state of a process.                                             *)

Goto(p, l) == pc' = [pc EXCEPT ![p] = l]

Finish(p) ==
  /\ pc' = [pc EXCEPT ![p] = "idle"]
  /\ flow' = [flow EXCEPT ![p] = "none"]
  /\ last' = [last EXCEPT ![p] = FALSE]
  /\ calc' = [calc EXCEPT ![p] = "none"]
  /\ rows' = [rows EXCEPT ![p] = Unranked]
  /\ todo' = [todo EXCEPT ![p] = {}]
  /\ cur' = [cur EXCEPT ![p] = NoRun]
  /\ got' = [got EXCEPT ![p] = "none"]

Begin(p, f) ==
  /\ pc[p] = "idle"
  /\ pc' = [pc EXCEPT ![p] = "read"]
  /\ flow' = [flow EXCEPT ![p] = f]
  /\ UNCHANGED <<last, calc, rows, todo, cur, got>>

Fault(kind) == kind \in Faults /\ faults < MaxFaults /\ faults' = faults + 1 /\ UNCHANGED ops

\* retry_failed and restart_cancelled end with a dispatch message of their own.
Return(p) ==
  /\ Finish(p)
  /\ msgs' = IF flow[p] = "again" THEN 1 ELSE msgs

----------------------------------------------------------------------------
(* refresh: read the items, freeze a selection, write the batch status and *)
(* certify a walk-forward batch.                                           *)

\* Mutant: a batch with a failed item takes the item's status.
MutStatusOf(st, cancelled) ==
  IF \A i \in Items : st[i] \in TERMINAL
  THEN IF \E i \in Items : st[i] = "failed" THEN "failed" ELSE "success"
  ELSE "running"

\* The batch status of item statuses st, given cancel_requested.
StatusOf(st, cancelled) ==
  LET some(S) == \E i \in Items : st[i] \in S IN
  CASE \A i \in Items : st[i] \in TERMINAL ->
         IF cancelled /\ ~ some({"success"}) THEN "cancelled"
         ELSE IF some({"failed", "cancelled"}) THEN "partial" ELSE "success"
    [] \E i \in Items : st[i] \notin TERMINAL ->
         IF some({"failed"}) /\ ~ some(ACTIVE \cup {"pending"}) THEN "partial"
         ELSE IF some(ACTIVE \cup {"success", "failed"}) THEN "running" ELSE "queued"

\* Mutant: a missing metric does not keep the fold from being ranked.
MutRankable == WalkForward /\ ~ cancelReq /\ \A i \in Validation : item[i] = "success"

\* _advance_walk_forward_selection ranks a fold whose validation items have all
\* succeeded with a metric.
Rankable ==
  /\ WalkForward /\ ~ cancelReq
  /\ \A i \in Validation : item[i] = "success" /\ <<i, result[i]>> \notin unscored

ReadItems(p) ==
  /\ pc[p] = "read"
  /\ calc' = [calc EXCEPT ![p] = StatusOf(item, cancelReq)]
  /\ rows' = [rows EXCEPT ![p] = IF Rankable THEN [i \in Validation |-> result[i]] ELSE Unranked]
  /\ Goto(p, IF Rankable THEN "select" ELSE "write")
  /\ UNCHANGED <<rowVars, childVars, hookVars, msgs, flow, last, todo, cur, got, countVars>>

\* The first refresh to get here freezes the best candidate: its out-of-sample
\* item may run, the others are skipped.  A later one changes nothing.
SelectCandidate(p) ==
  /\ pc[p] = "select"
  /\ \/ /\ selected = NoCandidate
        /\ \E c \in Candidates :
             /\ selected' = c
             /\ ranking' = rows[p]
             /\ item' = [i \in Items |->
                           IF i[1] = "oos" /\ item[i] = SELECTION_BLOCKED
                           THEN IF i[2] = c THEN "pending" ELSE "skipped" ELSE item[i]]
        /\ oosEval' = "pending"
        /\ wfRun' = "oos_pending"
        /\ Goto(p, "reread")
     \/ /\ selected # NoCandidate
        /\ Goto(p, "write")
        /\ UNCHANGED <<item, selected, ranking, oosEval, wfRun>>
  /\ rows' = [rows EXCEPT ![p] = Unranked]
  /\ UNCHANGED <<related, result, unscored, batch, cancelReq, oosRun, cert, childVars, hookVars,
                 msgs, flow, last, calc, todo, cur, got, countVars>>

\* The items are read again, but not the batch row and its cancel_requested.
RereadItems(p) ==
  /\ pc[p] = "reread"
  /\ calc' = [calc EXCEPT ![p] = StatusOf(item, FALSE)]
  /\ Goto(p, "write")
  /\ UNCHANGED <<rowVars, childVars, hookVars, msgs, flow, last, rows, todo, cur, got, countVars>>

\* Where a refresh returns to.
Refreshed(p) ==
  IF last[p] \/ flow[p] = "view" THEN Return(p)
  ELSE Goto(p, "load") /\ UNCHANGED <<flow, last, calc, rows, todo, cur, got, msgs>>

WriteBatch(p) ==
  /\ pc[p] = "write"
  /\ batch' = calc[p]
  /\ wfRun' = IF WalkForward /\ calc[p] \in ENDED
              THEN IF calc[p] = "success" THEN "completed" ELSE "failed" ELSE wfRun
  /\ IF calc[p] = "success" /\ WalkForward
     THEN Goto(p, "certify") /\ UNCHANGED <<flow, last, calc, rows, todo, cur, got, msgs>>
     ELSE Refreshed(p)
  /\ UNCHANGED <<item, related, result, unscored, cancelReq, selected, ranking, oosEval, oosRun,
                 cert, childVars, hookVars, countVars>>

\* Incomplete lineage or evidence raises, and ends the caller with it.
issue_walk_forward_certificate(p) ==
  LET earned == wfRun = "completed" /\ selected # NoCandidate /\ oosEval = "completed" IN
  /\ pc[p] = "certify"
  /\ \/ /\ cert # 0 \/ earned
        /\ cert' = IF cert # 0 THEN cert ELSE oosRun
        /\ Refreshed(p)
     \/ /\ cert = 0 /\ ~ earned
        /\ Finish(p)
        /\ UNCHANGED <<cert, msgs>>
  /\ UNCHANGED <<item, related, result, unscored, batch, cancelReq, selected, ranking, oosEval,
                 oosRun, wfRun, childVars, hookVars, countVars>>

----------------------------------------------------------------------------
(* Who calls: Celery, beat and the user.                                   *)

dispatch_experiment_batch(p) ==
  /\ msgs = 1
  /\ msgs' = 0
  /\ Begin(p, "dispatch")
  /\ UNCHANGED <<rowVars, childVars, hookVars, countVars>>

\* Mutant: beat only looks at batches that have not started.
Mut_reconcile_experiment_batches(p) ==
  /\ batch = "queued"
  /\ ~ cancelReq
  /\ Begin(p, "dispatch")
  /\ UNCHANGED <<rowVars, childVars, hookVars, msgs, countVars>>

reconcile_experiment_batches(p) ==
  /\ batch \in {"queued", "running"}
  /\ ~ cancelReq
  /\ Begin(p, "dispatch")
  /\ UNCHANGED <<rowVars, childVars, hookVars, msgs, countVars>>

UserRequest(p) ==
  /\ ops < MaxOps
  /\ ops' = ops + 1
  /\ \E op \in UserOps : Begin(p, op)
  /\ UNCHANGED <<rowVars, childVars, hookVars, msgs, faults>>

\* What the caller does with the batch it has read (detail).
Requeueable(f) == IF f = "retry" THEN {"failed"} ELSE {"cancelled", "failed", "skipped"}

LoadRequeue(p) ==
  /\ pc[p] = "load" /\ flow[p] \in {"retry", "restart"}
  /\ IF /\ batch \in ENDED
        /\ flow[p] = "restart" => cancelReq
        /\ \E i \in Items : item[i] \in Requeueable(flow[p])
     THEN Goto(p, "requeue") /\ UNCHANGED <<flow, last, calc, rows, todo, cur, got>>
     ELSE Finish(p)
  /\ UNCHANGED <<rowVars, childVars, hookVars, msgs, countVars>>

LoadCancel(p) ==
  /\ pc[p] = "load" /\ flow[p] = "cancel"
  /\ todo' = [todo EXCEPT ![p] = {<<i, related[i]>> : i \in {j \in Items : item[j] \in ACTIVE
                                                                      /\ related[j] # 0}}]
  /\ Goto(p, "cancelItems")
  /\ UNCHANGED <<rowVars, childVars, hookVars, msgs, flow, last, calc, rows, cur, got, countVars>>

\* dispatch_window; which pending items come first is left open.
LoadDispatch(p) ==
  LET pending == {i \in Items : item[i] = "pending"}
      active == Cardinality({i \in Items : item[i] \in ACTIVE})
      available == IF active < Window THEN Window - active ELSE 0
      chosen == {S \in SUBSET pending :
                   Cardinality(S) = IF Cardinality(pending) < available
                                    THEN Cardinality(pending) ELSE available}
  IN
  /\ pc[p] = "load" /\ flow[p] \in {"dispatch", "again"}
  /\ IF cancelReq \/ batch \in TERMINAL
     THEN Return(p)
     ELSE /\ \E S \in chosen : todo' = [todo EXCEPT ![p] = S \X {0}]
          /\ Goto(p, "item")
          /\ UNCHANGED <<flow, last, calc, rows, cur, got, msgs>>
  /\ UNCHANGED <<rowVars, childVars, hookVars, countVars>>

\* The transaction of retry_failed and restart_cancelled.
Requeue(p) ==
  LET again == {i \in Items : item[i] \in Requeueable(flow[p])} IN
  /\ pc[p] = "requeue"
  /\ batch' = "queued"
  /\ cancelReq' = FALSE
  /\ item' = [i \in Items |-> IF i \in again THEN "pending" ELSE item[i]]
  /\ related' = [i \in Items |-> IF i \in again THEN 0 ELSE related[i]]
  /\ flow' = [flow EXCEPT ![p] = "again"]
  /\ Goto(p, "read")
  /\ UNCHANGED <<result, unscored, selectionVars, childVars, hookVars, msgs, last, calc, rows,
                 todo, cur, got, countVars>>

----------------------------------------------------------------------------
(* _dispatch_item.                                                         *)

InHand(p) == ItemOf(cur[p])
NextRun(i) == <<i, Cardinality({r \in born : ItemOf(r) = i}) + 1>>

\* Mutant: the item is taken without looking at its status.
MutTakeItem(p) ==
  /\ pc[p] = "item"
  /\ \E x \in todo[p] :
       /\ todo' = [todo EXCEPT ![p] = @ \ {x}]
       /\ item' = [item EXCEPT ![ItemOf(x)] = "dispatching"]
       /\ cur' = [cur EXCEPT ![p] = x]
       /\ Goto(p, "create")
  /\ UNCHANGED <<related, result, unscored, batch, cancelReq, selectionVars, childVars, hookVars,
                 msgs, flow, last, calc, rows, got, countVars>>

\* UPDATE ... WHERE status='pending': one process gets the item.
TakeItem(p) ==
  /\ pc[p] = "item"
  /\ \E x \in todo[p] :
       /\ todo' = [todo EXCEPT ![p] = @ \ {x}]
       /\ \/ /\ item[ItemOf(x)] = "pending"
             /\ item' = [item EXCEPT ![ItemOf(x)] = "dispatching"]
             /\ cur' = [cur EXCEPT ![p] = x]
             /\ Goto(p, "create")
          \/ /\ item[ItemOf(x)] # "pending"
             /\ UNCHANGED <<item, cur, pc>>
  /\ UNCHANGED <<related, result, unscored, batch, cancelReq, selectionVars, childVars, hookVars,
                 msgs, flow, last, calc, rows, got, countVars>>

\* dispatch_window ends with a refresh, and so does cancel.
LastRefresh(p) ==
  /\ pc[p] \in {"item", "cancelRuns"}
  /\ todo[p] = {}
  /\ last' = [last EXCEPT ![p] = TRUE]
  /\ cur' = [cur EXCEPT ![p] = NoRun]
  /\ got' = [got EXCEPT ![p] = "none"]
  /\ Goto(p, "read")
  /\ UNCHANGED <<rowVars, childVars, hookVars, msgs, flow, calc, rows, todo, countVars>>

CreateChild(p) ==
  LET r == NextRun(InHand(p)) IN
  /\ pc[p] = "create"
  /\ cur' = [cur EXCEPT ![p] = r]
  /\ \/ /\ Child!Create(r, "created")
        /\ Goto(p, "link")
        /\ UNCHANGED countVars
     \/ /\ Fault("rejected")
        /\ Child!Create(r, "failed")
        /\ Goto(p, "reject")
  /\ UNCHANGED <<rowVars, hookVars, msgs, flow, last, calc, rows, todo, got>>

\* The item is written whatever became of it since it was taken.
LinkChild(p, s) ==
  /\ item' = [item EXCEPT ![InHand(p)] = s]
  /\ related' = [related EXCEPT ![InHand(p)] = cur[p][2]]
  /\ UNCHANGED <<result, unscored, batch, cancelReq, selectionVars, childVars, hookVars, flow,
                 last, calc, rows, todo, cur, got, countVars>>

Link(p) ==
  /\ pc[p] = "link"
  /\ LinkChild(p, "queued")
  /\ Goto(p, "publish")
  /\ UNCHANGED msgs

LinkRejected(p) ==
  /\ pc[p] = "reject"
  /\ LinkChild(p, "failed")
  /\ Goto(p, "item")
  /\ msgs' = 1

\* Mutant: the item of a child that could not be published is not reconciled.
MutPublishChild(p) ==
  /\ pc[p] = "publish"
  /\ \/ /\ status' = [status EXCEPT ![cur[p]] = "queued"]
        /\ UNCHANGED countVars
     \/ /\ Fault("broker_down")
        /\ status' = [status EXCEPT ![cur[p]] = "failed"]
  /\ Goto(p, "item")
  /\ UNCHANGED <<rowVars, born, hookVars, msgs, flow, last, calc, rows, todo, cur, got>>

\* apply_async, update_task and mark_backtest_queued, which writes queued over
\* whatever status the child has; or the broker refuses and the child fails.
PublishChild(p) ==
  /\ pc[p] = "publish"
  /\ \/ /\ status' = [status EXCEPT ![cur[p]] = "queued"]
        /\ Goto(p, "item")
        /\ UNCHANGED countVars
     \/ /\ Fault("broker_down")
        /\ status' = [status EXCEPT ![cur[p]] = "failed"]
        /\ Goto(p, "hookRead")
  /\ UNCHANGED <<rowVars, born, hookVars, msgs, flow, last, calc, rows, todo, cur, got>>

----------------------------------------------------------------------------
(* cancel.                                                                 *)

CancelItems(p) ==
  /\ pc[p] = "cancelItems"
  /\ cancelReq' = TRUE
  /\ item' = [i \in Items |->
                IF item[i] \in {"pending", "dispatching", "queued", SELECTION_BLOCKED}
                THEN "cancelled" ELSE item[i]]
  /\ Goto(p, "cancelRuns")
  /\ UNCHANGED <<related, result, unscored, batch, selectionVars, childVars, hookVars, msgs, flow,
                 last, calc, rows, todo, cur, got, countVars>>

\* cancel_backtest, for each active child of the batch as it was read.
CancelRun(p) ==
  /\ pc[p] = "cancelRuns"
  /\ \E r \in todo[p] :
       /\ todo' = [todo EXCEPT ![p] = @ \ {r}]
       /\ \/ /\ Child!End(r, "cancelled")
             /\ cur' = [cur EXCEPT ![p] = r]
             /\ Goto(p, "hookRead")
          \/ /\ status[r] \in Child!Terminal
             /\ UNCHANGED <<childVars, cur, pc>>
  /\ UNCHANGED <<rowVars, hookVars, msgs, flow, last, calc, rows, got, countVars>>

----------------------------------------------------------------------------
(* reconcile_backtest, called inline by a process or by the child's worker. *)

ItemStatus(s) == IF s \in TERMINAL \cup {"queued", "running"} THEN s ELSE "failed"

\* The item of run r takes the status read earlier.
WriteItem(r, s) ==
  /\ item' = [item EXCEPT ![ItemOf(r)] = ItemStatus(s)]
  /\ result' = [result EXCEPT ![ItemOf(r)] = r[2]]

\* The evaluation of the selected out-of-sample item follows, and an ended item
\* asks for the next dispatch.
persist_oos_evaluation(r, s) ==
  /\ IF ItemOf(r) = <<"oos", selected>>
     THEN /\ oosEval' = IF ItemStatus(s) = "success" THEN "completed" ELSE "failed"
          /\ oosRun' = r[2]
     ELSE UNCHANGED <<oosEval, oosRun>>
  /\ msgs' = IF ItemStatus(s) \in TERMINAL THEN 1 ELSE msgs

HookRead(p) ==
  /\ pc[p] = "hookRead"
  /\ got' = [got EXCEPT ![p] = status[cur[p]]]
  /\ Goto(p, "hookWrite")
  /\ UNCHANGED <<rowVars, childVars, hookVars, msgs, flow, last, calc, rows, todo, cur,
                 countVars>>

HookWrite(p) ==
  /\ pc[p] = "hookWrite"
  /\ WriteItem(cur[p], got[p])
  /\ Goto(p, "hookOos")
  /\ UNCHANGED <<related, unscored, batch, cancelReq, selectionVars, childVars, hookVars, msgs,
                 flow, last, calc, rows, todo, cur, got, countVars>>

HookOos(p) ==
  /\ pc[p] = "hookOos"
  /\ persist_oos_evaluation(cur[p], got[p])
  /\ Goto(p, IF flow[p] = "cancel" THEN "cancelRuns" ELSE "item")
  /\ UNCHANGED <<item, related, result, unscored, batch, cancelReq, selected, ranking, wfRun,
                 cert, childVars, hookVars, flow, last, calc, rows, todo, cur, got, countVars>>

----------------------------------------------------------------------------
(* The worker of a child, as far as the batch sees it.                     *)

At(r, l) == hook' = [hook EXCEPT ![r] = l] /\ UNCHANGED seen

\* Mutant: a delivered run is executed whatever its status.
MutChildStart(r) ==
  /\ hook[r] = "none"
  /\ status[r] \notin {"absent", "created"}
  /\ status' = [status EXCEPT ![r] = "running"]
  /\ At(r, "startRead")
  /\ UNCHANGED <<rowVars, born, msgs, procVars, countVars>>

ChildStart(r) ==
  /\ hook[r] = "none"
  /\ status[r] \in {"queued", "running"}
  /\ Child!Progress(r, "running")
  /\ At(r, "startRead")
  /\ UNCHANGED <<rowVars, msgs, procVars, countVars>>

ChildRead(r) ==
  /\ hook[r] \in {"startRead", "endRead"}
  /\ seen' = [seen EXCEPT ![r] = status[r]]
  /\ hook' = [hook EXCEPT ![r] = IF @ = "startRead" THEN "startWrite" ELSE "endWrite"]
  /\ UNCHANGED <<rowVars, childVars, msgs, procVars, countVars>>

ChildWrite(r) ==
  /\ hook[r] \in {"startWrite", "endWrite"}
  /\ WriteItem(r, seen[r])
  /\ At(r, IF hook[r] = "startWrite" THEN "startOos" ELSE "endOos")
  /\ UNCHANGED <<related, unscored, batch, cancelReq, selectionVars, childVars, msgs, procVars,
                 countVars>>

ChildOos(r) ==
  /\ hook[r] \in {"startOos", "endOos"}
  /\ persist_oos_evaluation(r, seen[r])
  /\ hook' = [hook EXCEPT ![r] = IF @ = "startOos" THEN "execute" ELSE "none"]
  /\ seen' = [seen EXCEPT ![r] = "none"]
  /\ UNCHANGED <<item, related, result, unscored, batch, cancelReq, selected, ranking, wfRun,
                 cert, childVars, procVars, countVars>>

\* LEAN ends, or its worker finds the run cancelled.
ChildEnd(r) ==
  /\ hook[r] = "execute"
  /\ At(r, "endRead")
  /\ \/ \E s \in {"success", "failed"} : Child!End(r, s) /\ UNCHANGED <<unscored, countVars>>
     \/ Child!End(r, "success") /\ unscored' = unscored \cup {r} /\ Fault("no_metric")
     \/ status[r] = "cancelled" /\ UNCHANGED <<childVars, unscored, countVars>>
  /\ UNCHANGED <<item, related, result, batch, cancelReq, selectionVars, msgs, procVars>>

\* The worker of a cancelled run is terminated, with or without its last hook.
ChildKilled(r) ==
  /\ hook[r] # "none"
  /\ status[r] = "cancelled"
  /\ hook' = [hook EXCEPT ![r] = "none"]
  /\ seen' = [seen EXCEPT ![r] = "none"]
  /\ UNCHANGED <<rowVars, childVars, msgs, procVars, countVars>>

\* A lost worker: the run is delivered again, but the redelivery of an ended
\* run only repairs the task row and calls no hook.
ChildCrash(r) ==
  /\ hook[r] # "none"
  /\ Fault("crash")
  /\ hook' = [hook EXCEPT ![r] = "none"]
  /\ seen' = [seen EXCEPT ![r] = "none"]
  /\ UNCHANGED <<rowVars, childVars, msgs, procVars>>

\* reconcile_backtest_runs ends the run, and calls no hook either.
ChildReconciled(r) ==
  /\ hook[r] = "execute"
  /\ Fault("over_budget")
  /\ Child!End(r, "failed")
  /\ At(r, "none")
  /\ UNCHANGED <<rowVars, msgs, procVars>>

ProcCrash(p) ==
  /\ pc[p] # "idle"
  /\ Fault("crash")
  /\ Finish(p)
  /\ UNCHANGED <<rowVars, childVars, hookVars, msgs>>

----------------------------------------------------------------------------

ProcStep(p) ==
  \/ ReadItems(p) \/ SelectCandidate(p) \/ RereadItems(p) \/ WriteBatch(p)
  \/ issue_walk_forward_certificate(p)
  \/ LoadRequeue(p) \/ LoadCancel(p) \/ LoadDispatch(p) \/ Requeue(p)
  \/ TakeItem(p) \/ LastRefresh(p) \/ CreateChild(p) \/ Link(p) \/ LinkRejected(p)
  \/ PublishChild(p) \/ CancelItems(p) \/ CancelRun(p)
  \/ HookRead(p) \/ HookWrite(p) \/ HookOos(p)

ChildStep(r) ==
  ChildStart(r) \/ ChildRead(r) \/ ChildWrite(r) \/ ChildOos(r) \/ ChildEnd(r)

Next ==
  \/ \E p \in Procs : \/ dispatch_experiment_batch(p) \/ reconcile_experiment_batches(p)
                      \/ UserRequest(p) \/ ProcStep(p) \/ ProcCrash(p)
  \/ \E r \in ChildRuns : ChildStep(r) \/ ChildKilled(r) \/ ChildCrash(r) \/ ChildReconciled(r)

Spec == Init /\ [][Next]_vars

\* Processes go on, children end (BacktestContract), the broker delivers, and
\* beat comes round every minute.
Fairness ==
  /\ \A p \in Procs : WF_vars(ProcStep(p))
  /\ \A r \in ChildRuns : WF_vars(ChildStep(r))
  /\ SF_vars(\E p \in Procs : dispatch_experiment_batch(p))
  /\ SF_vars(\E p \in Procs : reconcile_experiment_batches(p))

FairSpec == Spec /\ Fairness

----------------------------------------------------------------------------
(* Properties.                                                             *)

\* Only validation selects parameters: no out-of-sample child exists for a
\* candidate other than the one that was frozen.
OosWaitsForSelection == \A r \in born : ItemOf(r)[1] = "oos" => ItemOf(r)[2] = selected

\* A walk-forward certificate rests on evidence that is still there: the run of
\* the out-of-sample evaluation it certifies succeeded, and so did, with a metric to rank, the
\* run of every validation result in the frozen ranking.
CertificateIsEarned ==
  cert # 0 => /\ status[<<<<"oos", selected>>, cert>>] = "success"
              /\ \A i \in Validation : /\ status[<<i, ranking[i]>>] = "success"
                                       /\ <<i, ranking[i]>> \notin unscored

\* An item never has two children at work.
OneLiveChild ==
  \A r, t \in ChildRuns :
    r # t /\ ItemOf(r) = ItemOf(t) => ~ (status[r] \in Child!Active /\ status[t] \in Child!Active)

\* Nobody is about to write the item: no process has it in hand, and no worker.
ItemAtRest(i) ==
  /\ \A p \in Procs : cur[p][1] # i
  /\ \A r \in ChildRuns : ItemOf(r) = i => hook[r] = "none"

\* An item at rest agrees with its child: the hooks of a child, inline or in its
\* worker, leave no stale status behind however they interleave.
ItemFollowsChild ==
  \A i \in Items : ItemAtRest(i) /\ related[i] # 0 => item[i] = status[<<i, related[i]>>]

\* The batch ends, and its status is then that of its items.
BatchEnds == <>[](batch \in ENDED /\ batch = StatusOf(item, cancelReq))

\* The children keep the contract of a backtest: nothing the batch does takes a
\* terminal status back.
ChildrenKeepContract == Child!Spec

=============================================================================
