----------------------------- MODULE PaperOrders -----------------------------
(***************************************************************************)
(* finalize_walkforward_run of a v2 Paper run: the orders LEAN produced    *)
(* for one trading date become intents, constraint decisions, fills and    *)
(* ledger entries, the read model is projected from the ledger, and six    *)
(* checkpoints guard what a repeated finalization may find.                *)
(*                                                                         *)
(* An action is one transaction with the local control flow up to the      *)
(* next.  Several Celery workers may finalize the same run: the broker     *)
(* redelivers, and recover_paper_finalizations dispatches a replacement.   *)
(*                                                                         *)
(* One symbol, lots of one share, a price of Price and a fee of Fee: what  *)
(* the constraints tell apart is cash, the position and T+1.               *)
(***************************************************************************)
EXTENDS Integers, Sequences, FiniteSets

CONSTANTS
  N,               \* number of orders of the day
  Kinds,           \* what an order may be, see OrderKinds
  OpeningCash, OpeningPosition,  \* the account before the first finalization
  Price, Fee,      \* of every order
  Workers,         \* Celery workers that finalize the run
  MaxFaults,       \* bound: kinds of fault in a behaviour, each once
  Faults           \* the disturbances a behaviour may contain, see FaultKinds

OrderKinds ==
  { "buy", "sell",
    "blocked",     \* a buy that the market data refuses (halted, limit up, QA...)
    "unmarketable" }  \* a buy below the market, which does not fill

FaultKinds ==
  { "crash",           \* a worker is lost between two transactions
    "checkpoint_crash",\* a worker is lost right after a checkpoint
    "overlap",         \* a delivery while another worker is at it
    "error",           \* a transaction fails and the finalization raises
    "history_drift" }  \* LEAN's history differs from the last run's

ASSUME OrdersAssumption == N \in Nat /\ Kinds \subseteq OrderKinds /\ Kinds # {}
ASSUME MoneyAssumption == {OpeningCash, OpeningPosition, Price, Fee} \subseteq Nat
ASSUME OrderFaultsAssumption == Faults \subseteq FaultKinds /\ MaxFaults \in Nat

Orders == 1 .. N

ORDER_STATES ==
  {"INTENT_CREATED", "VALIDATION_PENDING", "REJECTED", "ACCEPTED", "MATCHING", "FILLED",
   "EXPIRED", "RECONCILIATION_PENDING", "RECONCILED", "RECONCILIATION_FAILED"}

\* The transitions the v2 finalization uses; "none" is an intent without any.
LEGAL_TRANSITIONS ==
  [ none |-> {"INTENT_CREATED"},
    INTENT_CREATED |-> {"VALIDATION_PENDING"},
    VALIDATION_PENDING |-> {"ACCEPTED", "REJECTED"},
    ACCEPTED |-> {"MATCHING", "EXPIRED"},
    MATCHING |-> {"FILLED", "EXPIRED"},
    FILLED |-> {"RECONCILIATION_PENDING"},
    REJECTED |-> {"RECONCILIATION_PENDING"},
    EXPIRED |-> {"RECONCILIATION_PENDING"},
    RECONCILIATION_PENDING |-> {"RECONCILED", "RECONCILIATION_FAILED"},
    RECONCILED |-> {},
    RECONCILIATION_FAILED |-> {} ]

\* The idempotency key of a transition: accepting and rejecting share one.
KeyOf(s) == IF s \in {"ACCEPTED", "REJECTED"} THEN "constraint_result" ELSE s

RUN_PHASES == {"intent_capture", "constraint_validation", "matching", "ledger",
               "snapshot_report", "reconciliation"}

Reasons == {"market_data", "insufficient_cash", "insufficient_position", "t_plus_1"}
OrderStatuses == {"filled", "expired"} \cup Reasons
None == "none"

VARIABLES
  book,      \* the orders of the day, the same for every finalization
  run,       \* paper_walkforward_runs.status
  cursor,    \* has paper_sessions.last_processed_date reached the date
  opened,    \* opening entries of paper_ledger_entries
  posted,    \* per order: fills with their ledger entries
  intents,   \* orders with a row in paper_order_intents
  trail,     \* per order: paper_order_transitions, oldest first
  decision,  \* per order: paper_constraint_decisions, with its digest's inputs
  order,     \* per order: paper_orders.status, with the reason of a rejection
  cash, holding,  \* paper_sessions.cash and paper_positions, the read model
  marked,    \* has paper_sessions.equity been written for the date
  snap,      \* snapshot and daily report of the date
  record,    \* paper_reconciliation_records of the date
  points,    \* per phase: payload of paper_run_checkpoints
  msgs,      \* finalize_paper_walkforward messages
  pc, at,    \* per worker: control state and the order in hand
  size,      \* per worker: number of orders it finalizes
  sight,     \* per worker: what it has read and not yet used
  verdict,   \* per worker: constraint result of the order in hand
  done,      \* per worker: outcomes of the orders it has been through
  balance,   \* per worker: cash and position it reports
  faults     \* the faults so far

ledgerVars == <<opened, posted>>
orderVars == <<intents, trail, decision, order>>
modelVars == <<cash, holding, marked>>
dayVars == <<snap, record>>
localVars == <<at, size, sight, verdict, done, balance>>
rowVars == <<book, run, cursor, ledgerVars, orderVars, modelVars, dayVars, points>>
vars == <<rowVars, msgs, pc, localVars, faults>>

----------------------------------------------------------------------------
(* The ledger and what it projects.                                        *)

Sells(o) == book[o] = "sell"

\* The fills with their ledger entries: those of sales, or those of purchases.
Fills(sold) == UNION {{o} \X (1 .. posted[o]) : o \in {x \in Orders : Sells(x) <=> sold}}
Sold == Cardinality(Fills(TRUE))
Bought == Cardinality(Fills(FALSE))

LedgerCash == opened * OpeningCash + Sold * (Price - Fee) - Bought * (Price + Fee)
LedgerPosition == opened * OpeningPosition + Bought - Sold

\* A position, with last_buy_date: was any of it bought today?
Holding(q) == [quantity |-> q, today |-> q > 0 /\ \E o \in Orders : posted[o] > 0 /\ ~ Sells(o)]

Projection == [cash |-> LedgerCash, holding |-> Holding(LedgerPosition), marked |-> FALSE]
ReadModel == [cash |-> cash, holding |-> holding, marked |-> marked]

----------------------------------------------------------------------------

NoView == [cash |-> 0, holding |-> [quantity |-> 0, today |-> FALSE], marked |-> FALSE]
\* A row that may be missing is a sequence of at most one element.
Missing == <<>>
Undone == [o \in Orders |-> None]

CheckpointPcs == {"atCreated", "atDecided", "atMatched", "atPosted", "atReported", "atReconciled"}
OrderPcs == {"look", "row", "pend", "sense", "decide", "judge", "match", "expire", "fillCheck",
             "fill", "fillProject", "fillApply", "filled", "project", "pendReconcile"}
WorkerPcs == {"idle", "load", "open", "readLedger", "apply", "intent", "created", "balance",
              "snapshot", "readLedger2", "reconcile", "settle", "settled", "finish"}
               \cup CheckpointPcs \cup OrderPcs

Views == [cash : Int, holding : [quantity : Int, today : BOOLEAN], marked : BOOLEAN]

TypeOK ==
  /\ book \in [Orders -> Kinds]
  /\ run \in {"running", "success", "failed"}
  /\ cursor \in BOOLEAN
  /\ opened \in Nat
  /\ posted \in [Orders -> Nat]
  /\ intents \subseteq Orders
  /\ \A o \in Orders : trail[o] \in Seq(ORDER_STATES)
  /\ \A o \in Orders : Len(decision[o]) <= 1
  /\ order \in [Orders -> OrderStatuses \cup {None}]
  /\ ReadModel \in Views
  /\ marked \in BOOLEAN
  /\ Len(snap) <= 1 /\ Len(record) <= 1
  /\ DOMAIN points = RUN_PHASES /\ \A p \in RUN_PHASES : Len(points[p]) <= 1
  /\ msgs \in {0, 1}
  /\ pc \in [Workers -> WorkerPcs]
  /\ at \in [Workers -> 1 .. N + 1]
  /\ size \in [Workers -> 0 .. N]
  /\ sight \in [Workers -> Views]
  /\ verdict \in [Workers -> {None, "ok"} \cup Reasons]
  /\ done \in [Workers -> [Orders -> OrderStatuses \cup {None}]]
  /\ balance \in [Workers -> Views]
  /\ faults \subseteq Faults

\* The run is marked running, LEAN has succeeded and the first finalization has
\* been published.  The read model shows the account as it was opened.
Init ==
  /\ book \in [Orders -> Kinds]
  /\ run = "running"
  /\ cursor = FALSE
  /\ opened = 0
  /\ posted = [o \in Orders |-> 0]
  /\ intents = {}
  /\ trail = [o \in Orders |-> <<>>]
  /\ decision = [o \in Orders |-> Missing]
  /\ order = [o \in Orders |-> None]
  /\ cash = OpeningCash
  /\ holding = [quantity |-> OpeningPosition, today |-> FALSE]
  /\ marked = FALSE
  /\ snap = Missing
  /\ record = Missing
  /\ points = [p \in RUN_PHASES |-> Missing]
  /\ msgs = 1
  /\ pc = [w \in Workers |-> "idle"]
  /\ at = [w \in Workers |-> 1]
  /\ size = [w \in Workers |-> 0]
  /\ sight = [w \in Workers |-> NoView]
  /\ verdict = [w \in Workers |-> None]
  /\ done = [w \in Workers |-> Undone]
  /\ balance = [w \in Workers |-> NoView]
  /\ faults = {}

----------------------------------------------------------------------------
(* Control state of a worker.                                              *)

Goto(w, l) == pc' = [pc EXCEPT ![w] = l]

\* The finalization returns or raises; its message is gone.
Leave(w) ==
  /\ pc' = [pc EXCEPT ![w] = "idle"]
  /\ at' = [at EXCEPT ![w] = 1]
  /\ size' = [size EXCEPT ![w] = 0]
  /\ sight' = [sight EXCEPT ![w] = NoView]
  /\ verdict' = [verdict EXCEPT ![w] = None]
  /\ done' = [done EXCEPT ![w] = Undone]
  /\ balance' = [balance EXCEPT ![w] = NoView]

Look(w, view) == sight' = [sight EXCEPT ![w] = view]

\* Continue at l, with the next intent, or with the next order.
On(w, l) == Goto(w, l) /\ UNCHANGED localVars

NextIntent(w) ==
  /\ IF at[w] < size[w]
     THEN at' = [at EXCEPT ![w] = @ + 1] /\ Goto(w, "intent")
     ELSE at' = [at EXCEPT ![w] = 1] /\ Goto(w, "atCreated")
  /\ UNCHANGED <<size, sight, verdict, done, balance>>

\* The outcome of the order in hand is noted.
NextOrder(w, outcome) ==
  /\ done' = [done EXCEPT ![w][at[w]] = outcome]
  /\ IF at[w] < size[w]
     THEN at' = [at EXCEPT ![w] = @ + 1] /\ Goto(w, "look")
     ELSE at' = [at EXCEPT ![w] = 1] /\ Goto(w, "atDecided")
  /\ verdict' = [verdict EXCEPT ![w] = None]
  /\ UNCHANGED <<size, sight, balance>>

Fault(kind) ==
  /\ kind \in Faults \ faults
  /\ Cardinality(faults) < MaxFaults
  /\ faults' = faults \cup {kind}

----------------------------------------------------------------------------
(* Deliveries.                                                             *)

Busy == \E w \in Workers : pc[w] # "idle"

\* finalize_walkforward_run reads the run; a successful one is left alone.
finalize_walkforward_run(w) ==
  /\ pc[w] = "idle"
  /\ msgs = 1
  /\ msgs' = 0
  /\ Goto(w, IF run = "success" THEN "idle" ELSE "load")
  /\ UNCHANGED <<rowVars, localVars, faults>>

\* recover_paper_finalizations: a running run whose last checkpoint is old.
recover_paper_finalizations ==
  /\ run = "running"
  /\ \E p \in RUN_PHASES : points[p] # Missing
  /\ ~ Busy
  /\ msgs = 0
  /\ msgs' = 1
  /\ UNCHANGED <<rowVars, pc, localVars, faults>>

\* The broker redelivers, or the recovery dispatches, while a worker is at it.
DeliverAgain ==
  /\ Busy
  /\ msgs = 0
  /\ Fault("overlap")
  /\ msgs' = 1
  /\ UNCHANGED <<rowVars, pc, localVars>>

\* A failed run is started again: create_walkforward_run, mark_walkforward_running.
RetryRun ==
  /\ run = "failed"
  /\ ~ Busy
  /\ msgs = 0
  /\ ~ cursor
  /\ run' = "running"
  /\ msgs' = 1
  /\ UNCHANGED <<book, cursor, ledgerVars, orderVars, modelVars, dayVars, points, pc, localVars,
                 faults>>

\* Where _fault_pause_after_checkpoint lets a worker be killed.
AfterCheckpoint(w) ==
  \/ pc[w] \in {"look", "settle"} /\ at[w] = 1
  \/ pc[w] \in {"atMatched", "atPosted", "balance", "finish"}

\* The message of a lost worker goes back to the broker (acks_late).
Crash(w) ==
  /\ pc[w] # "idle"
  /\ \/ Fault("crash")
     \/ AfterCheckpoint(w) /\ Fault("checkpoint_crash")
  /\ msgs' = 1
  /\ Leave(w)
  /\ UNCHANGED rowVars

\* A unique index or the connection fails: the exception ends the task.
Error(w) ==
  /\ pc[w] # "idle"
  /\ Fault("error")
  /\ Leave(w)
  /\ UNCHANGED <<rowVars, msgs>>

----------------------------------------------------------------------------
(* Helpers of paper_order_pipeline.                                        *)

InHand(w) == at[w]
State(o) == IF trail[o] = <<>> THEN None ELSE trail[o][Len(trail[o])]
Reached(o) == {trail[o][k] : k \in DOMAIN trail[o]}

\* append_transition: a key that is there already must carry the same state;
\* a new one must be a legal step from the latest state.  Otherwise it raises.
append_transition(w, s, continue) ==
  LET o == InHand(w) IN
  \/ /\ s \in Reached(o)
     /\ UNCHANGED trail
     /\ continue
  \/ /\ \A t \in Reached(o) : KeyOf(t) # KeyOf(s)
     /\ s \in LEGAL_TRANSITIONS[State(o)]
     /\ trail' = [trail EXCEPT ![o] = Append(@, s)]
     /\ continue
  \/ /\ s \notin Reached(o)
     /\ \/ \E t \in Reached(o) : KeyOf(t) = KeyOf(s)
        \/ s \notin LEGAL_TRANSITIONS[State(o)]
     /\ UNCHANGED trail
     /\ Leave(w)

\* An action that only appends a transition.
Transition(w, l, s, continue) ==
  /\ pc[w] = l
  /\ append_transition(w, s, continue)
  /\ UNCHANGED <<book, run, cursor, ledgerVars, intents, decision, order, modelVars, dayVars,
                 points, msgs, faults>>

\* Mutant: no look at the checkpoint that is there.
MutAppendCheckpoint(w, l, phase, payload, next) ==
  /\ pc[w] = l
  /\ points' = [points EXCEPT ![phase] = Append(@, payload)]
  /\ On(w, next)
  /\ UNCHANGED <<book, run, cursor, ledgerVars, orderVars, modelVars, dayVars, msgs, faults>>

\* Mutant: a checkpoint that is there is an error.
MutInsertCheckpoint(w, l, phase, payload, next) ==
  /\ pc[w] = l
  /\ \/ /\ points[phase] = Missing
        /\ points' = [points EXCEPT ![phase] = <<payload>>]
        /\ On(w, next)
     \/ /\ points[phase] # Missing
        /\ UNCHANGED points
        /\ Leave(w)
  /\ UNCHANGED <<book, run, cursor, ledgerVars, orderVars, modelVars, dayVars, msgs, faults>>

\* complete_checkpoint: written once, and never with another payload.
complete_checkpoint(w, l, phase, payload, next) ==
  /\ pc[w] = l
  /\ \/ /\ points[phase] \in {Missing, <<payload>>}
        /\ points' = [points EXCEPT ![phase] = <<payload>>]
        /\ On(w, next)
     \/ /\ points[phase] \notin {Missing, <<payload>>}
        /\ UNCHANGED points
        /\ Leave(w)
  /\ UNCHANGED <<book, run, cursor, ledgerVars, orderVars, modelVars, dayVars, msgs, faults>>

\* An action of the finalization that writes no row.
Reads == UNCHANGED <<rowVars, msgs, faults>>

----------------------------------------------------------------------------
(* _process_v2_lean_intents: opening ledger, read model, intents.          *)

\* The orders after last_processed_date; a session already advanced has none.
LoadSession(w) ==
  /\ pc[w] = "load"
  /\ \/ /\ size' = [size EXCEPT ![w] = IF cursor THEN 0 ELSE N]
        /\ Goto(w, "open")
        /\ UNCHANGED <<run, at, sight, verdict, done, balance, faults>>
     \/ /\ Fault("history_drift")
        /\ run' = "failed"
        /\ Leave(w)
  /\ UNCHANGED <<book, cursor, ledgerVars, orderVars, modelVars, dayVars, points, msgs>>

ensure_opening_ledger(w) ==
  /\ pc[w] = "open"
  /\ opened' = IF opened = 0 THEN 1 ELSE opened
  /\ On(w, "readLedger")
  /\ UNCHANGED <<book, run, cursor, posted, orderVars, modelVars, dayVars, points, msgs, faults>>

\* _apply_v2_ledger_projection: the projection is read in one transaction ...
ReadLedger(w) ==
  /\ pc[w] \in {"readLedger", "fillProject", "readLedger2"}
  /\ Look(w, Projection)
  /\ Goto(w, CASE pc[w] = "readLedger" -> "apply"
               [] pc[w] = "fillProject" -> "fillApply"
               [] pc[w] = "readLedger2" -> "reconcile")
  /\ Reads
  /\ UNCHANGED <<at, size, verdict, done, balance>>

\* Mutant: the read model is not refreshed after a fill.
MutApplyProjection(w) ==
  /\ pc[w] \in {"apply", "fillApply"}
  /\ cash' = IF pc[w] = "apply" THEN sight[w].cash ELSE cash
  /\ holding' = IF pc[w] = "apply" THEN sight[w].holding ELSE holding
  /\ Goto(w, IF pc[w] = "fillApply" THEN "filled" ELSE IF size[w] = 0 THEN "atCreated" ELSE "intent")
  /\ Look(w, NoView)
  /\ UNCHANGED <<book, run, cursor, ledgerVars, orderVars, marked, dayVars, points, msgs, faults,
                 at, size, verdict, done, balance>>

\* ... and written to paper_positions and paper_sessions in another.
ApplyProjection(w) ==
  /\ pc[w] \in {"apply", "fillApply"}
  /\ cash' = sight[w].cash
  /\ holding' = sight[w].holding
  /\ Goto(w, IF pc[w] = "fillApply" THEN "filled" ELSE IF size[w] = 0 THEN "atCreated" ELSE "intent")
  /\ Look(w, NoView)
  /\ UNCHANGED <<book, run, cursor, ledgerVars, orderVars, marked, dayVars, points, msgs, faults,
                 at, size, verdict, done, balance>>

\* record_intent: an intent that exists is returned as it is.
record_intent(w) ==
  LET o == InHand(w) IN
  /\ pc[w] = "intent"
  /\ \/ /\ o \notin intents
        /\ intents' = intents \cup {o}
        /\ On(w, "created")
     \/ /\ o \in intents
        /\ UNCHANGED intents
        /\ NextIntent(w)
  /\ UNCHANGED <<book, run, cursor, ledgerVars, trail, decision, order, modelVars, dayVars, points,
                 msgs, faults>>

IntentCreated(w) == Transition(w, "created", "INTENT_CREATED", NextIntent(w))

CaptureDone(w) ==
  complete_checkpoint(w, "atCreated", "intent_capture", size[w],
                      IF size[w] = 0 THEN "atDecided" ELSE "look")

----------------------------------------------------------------------------
(* _process_v2_lean_intents: one order after the other.                    *)

\* An order that was begun by an earlier finalization is not begun again ...
LookAtOrder(w) ==
  /\ pc[w] = "look"
  /\ On(w, IF State(InHand(w)) = "INTENT_CREATED" THEN "pend" ELSE "row")
  /\ Reads

\* ... its outcome is taken from paper_orders; without one it raises.
TakeOutcome(w) ==
  /\ pc[w] = "row"
  /\ \/ order[InHand(w)] # None /\ NextOrder(w, order[InHand(w)])
     \/ order[InHand(w)] = None /\ Leave(w)
  /\ Reads

ValidationPending(w) == Transition(w, "pend", "VALIDATION_PENDING", On(w, "sense"))

\* _lean_intent_rejection, given the read model.
lean_intent_rejection(o, view) ==
  CASE book[o] = "blocked" -> "market_data"
    [] book[o] \in {"buy", "unmarketable"} /\ view.cash < Price + Fee -> "insufficient_cash"
    [] book[o] = "sell" /\ view.holding.quantity < 1 -> "insufficient_position"
    [] book[o] = "sell" /\ view.holding.quantity >= 1 /\ view.holding.today -> "t_plus_1"
    [] OTHER -> "ok"

Sense(w) ==
  /\ pc[w] = "sense"
  /\ Look(w, ReadModel)
  /\ verdict' = [verdict EXCEPT ![w] = lean_intent_rejection(InHand(w), ReadModel)]
  /\ Goto(w, "decide")
  /\ Reads
  /\ UNCHANGED <<at, size, done, balance>>

\* The decision is immutable, with the portfolio it was made on.
record_constraint_decision(w) ==
  LET o == InHand(w)
      d == [result |-> verdict[w], portfolio |-> sight[w]]
  IN
  /\ pc[w] = "decide"
  /\ \/ /\ decision[o] \in {Missing, <<d>>}
        /\ decision' = [decision EXCEPT ![o] = <<d>>]
        /\ Goto(w, "judge")
        /\ Look(w, NoView)
        /\ UNCHANGED <<at, size, verdict, done, balance>>
     \/ /\ decision[o] \notin {Missing, <<d>>}
        /\ UNCHANGED decision
        /\ Leave(w)
  /\ UNCHANGED <<book, run, cursor, ledgerVars, intents, trail, order, modelVars, dayVars, points,
                 msgs, faults>>

Judge(w) ==
  IF verdict[w] = "ok" THEN Transition(w, "judge", "ACCEPTED", On(w, "match"))
                       ELSE Transition(w, "judge", "REJECTED", On(w, "project"))

\* _deterministic_v2_match_price decides what follows.
Match(w) ==
  Transition(w, "match", "MATCHING",
             On(w, IF book[InHand(w)] = "unmarketable" THEN "expire" ELSE "fillCheck"))

Expire(w) == Transition(w, "expire", "EXPIRED", On(w, "project"))

\* record_fill_and_ledger: the state is checked before the transaction ...
CheckFill(w) ==
  /\ pc[w] = "fillCheck"
  /\ \/ State(InHand(w)) = "MATCHING" /\ On(w, "fill")
     \/ State(InHand(w)) # "MATCHING" /\ Leave(w)
  /\ Reads

\* Mutant: a fill is posted whether or not it exists.
Mut_record_fill_and_ledger(w) ==
  /\ pc[w] = "fill"
  /\ posted' = [posted EXCEPT ![InHand(w)] = @ + 1]
  /\ On(w, "fillProject")
  /\ UNCHANGED <<book, run, cursor, opened, orderVars, modelVars, dayVars, points, msgs, faults>>

\* ... in which a fill that exists is returned, and a new one posted.
record_fill_and_ledger(w) ==
  /\ pc[w] = "fill"
  /\ posted' = IF posted[InHand(w)] > 0 THEN posted ELSE [posted EXCEPT ![InHand(w)] = @ + 1]
  /\ On(w, "fillProject")
  /\ UNCHANGED <<book, run, cursor, opened, orderVars, modelVars, dayVars, points, msgs, faults>>

Filled(w) == Transition(w, "filled", "FILLED", On(w, "project"))

Outcome(w) ==
  CASE verdict[w] # "ok" -> verdict[w]
    [] verdict[w] = "ok" /\ book[InHand(w)] = "unmarketable" -> "expired"
    [] verdict[w] = "ok" /\ book[InHand(w)] # "unmarketable" -> "filled"

project_v2_order(w) ==
  LET o == InHand(w) IN
  /\ pc[w] = "project"
  /\ order' = IF order[o] = None THEN [order EXCEPT ![o] = Outcome(w)] ELSE order
  /\ IF Outcome(w) = "filled" THEN On(w, "pendReconcile") ELSE NextOrder(w, Outcome(w))
  /\ UNCHANGED <<book, run, cursor, ledgerVars, intents, trail, decision, modelVars, dayVars, points,
                 msgs, faults>>

PendReconcile(w) ==
  Transition(w, "pendReconcile", "RECONCILIATION_PENDING", NextOrder(w, "filled"))

DecisionsDone(w) ==
  complete_checkpoint(w, "atDecided", "constraint_validation", done[w], "atMatched")

MatchingDone(w) ==
  complete_checkpoint(w, "atMatched", "matching", {o \in Orders : done[w][o] = "filled"}, "atPosted")

LedgerDone(w) == complete_checkpoint(w, "atPosted", "ledger", size[w], "balance")

----------------------------------------------------------------------------
(* The rest of finalize_walkforward_run: report, reconcile, conclude.      *)

ReadBalance(w) ==
  /\ pc[w] = "balance"
  /\ balance' = [balance EXCEPT ![w] = ReadModel]
  /\ Goto(w, "snapshot")
  /\ Reads
  /\ UNCHANGED <<at, size, sight, verdict, done>>

\* Snapshot, daily report and the session's cash and equity, in one transaction.
WriteSnapshot(w) ==
  /\ pc[w] = "snapshot"
  /\ snap' = <<balance[w].cash>>
  /\ cash' = balance[w].cash
  /\ marked' = TRUE
  /\ On(w, "readLedger2")
  /\ UNCHANGED <<book, run, cursor, ledgerVars, orderVars, holding, record, points, msgs, faults>>

\* reconcile_session_day compares the ledger, the read model, the fills and the
\* snapshot.  The record is immutable: another digest raises.
reconcile_session_day(w) ==
  LET fills == {o \in Orders : posted[o] > 0}
      filled == {o \in Orders : "FILLED" \in Reached(o)}
      digest == [closing |-> cash, expected |-> LedgerCash,
                 drift |-> sight[w].holding.quantity - holding.quantity,
                 filled |-> Cardinality(filled), fills |-> Cardinality(fills)]
      passed == /\ digest.closing = digest.expected /\ digest.drift = 0
                /\ digest.filled = digest.fills
                /\ snap = <<cash>> /\ cash = sight[w].cash
  IN
  /\ pc[w] = "reconcile"
  /\ \/ /\ record = Missing
        /\ record' = <<[passed |-> passed, digest |-> digest]>>
        /\ Goto(w, "atReported")
        /\ Look(w, NoView)
        /\ UNCHANGED <<at, size, verdict, done, balance>>
     \/ /\ record # Missing
        /\ record[1].digest = digest
        /\ Goto(w, "atReported")
        /\ Look(w, NoView)
        /\ UNCHANGED <<record, at, size, verdict, done, balance>>
     \/ /\ record # Missing
        /\ record[1].digest # digest
        /\ Leave(w)
        /\ UNCHANGED record
  /\ UNCHANGED <<book, run, cursor, ledgerVars, orderVars, modelVars, snap, points, msgs, faults>>

ReportDone(w) ==
  complete_checkpoint(w, "atReported", "snapshot_report", <<size[w], balance[w].cash, balance[w].holding>>,
                      IF size[w] = 0 THEN "atReconciled" ELSE "settle")

Passed == record[1].passed

NextSettle(w) ==
  /\ IF at[w] < size[w]
     THEN at' = [at EXCEPT ![w] = @ + 1] /\ Goto(w, "settle")
     ELSE at' = [at EXCEPT ![w] = 1] /\ Goto(w, "atReconciled")
  /\ UNCHANGED <<size, sight, verdict, done, balance>>

\* Mutant: expired intents are forgotten.
MutSettle(w) ==
  IF State(InHand(w)) \in {"FILLED", "REJECTED"}
  THEN Transition(w, "settle", "RECONCILIATION_PENDING", On(w, "settled"))
  ELSE pc[w] = "settle" /\ On(w, "settled") /\ Reads

\* Every intent that has ended is reconciled, or has failed to be.
Settle(w) ==
  IF State(InHand(w)) \in {"FILLED", "REJECTED", "EXPIRED"}
  THEN Transition(w, "settle", "RECONCILIATION_PENDING", On(w, "settled"))
  ELSE pc[w] = "settle" /\ On(w, "settled") /\ Reads

Settled(w) ==
  IF State(InHand(w)) = "RECONCILIATION_PENDING"
  THEN Transition(w, "settled", IF Passed THEN "RECONCILED" ELSE "RECONCILIATION_FAILED",
                  NextSettle(w))
  ELSE pc[w] = "settled" /\ NextSettle(w) /\ Reads

ReconciliationDone(w) ==
  complete_checkpoint(w, "atReconciled", "reconciliation",
                      IF Passed THEN [o \in 1 .. size[w] |-> State(o)] ELSE <<>>, "finish")

\* Mutant: the session's cash is written as it was when the date began.
MutFinish(w) ==
  /\ pc[w] = "finish"
  /\ \/ /\ Passed
        /\ run' = "success"
        /\ cursor' = TRUE
        /\ cash' = OpeningCash
     \/ /\ ~ Passed
        /\ run' = "failed"
        /\ UNCHANGED <<cursor, cash>>
  /\ Leave(w)
  /\ UNCHANGED <<book, ledgerVars, orderVars, holding, marked, dayVars, points, msgs, faults>>

\* The run succeeds and the session moves on; or fail_walkforward_run.
Finish(w) ==
  /\ pc[w] = "finish"
  /\ \/ /\ Passed
        /\ run' = "success"
        /\ cursor' = TRUE
        /\ cash' = balance[w].cash
     \/ /\ ~ Passed
        /\ run' = "failed"
        /\ UNCHANGED <<cursor, cash>>
  /\ Leave(w)
  /\ UNCHANGED <<book, ledgerVars, orderVars, holding, marked, dayVars, points, msgs, faults>>

----------------------------------------------------------------------------

WorkerStep(w) ==
  \/ LoadSession(w) \/ ensure_opening_ledger(w) \/ ReadLedger(w) \/ ApplyProjection(w)
  \/ record_intent(w) \/ IntentCreated(w) \/ CaptureDone(w)
  \/ LookAtOrder(w) \/ TakeOutcome(w) \/ ValidationPending(w) \/ Sense(w)
  \/ record_constraint_decision(w) \/ Judge(w) \/ Match(w) \/ Expire(w) \/ CheckFill(w)
  \/ record_fill_and_ledger(w) \/ Filled(w) \/ project_v2_order(w) \/ PendReconcile(w)
  \/ DecisionsDone(w) \/ MatchingDone(w) \/ LedgerDone(w)
  \/ ReadBalance(w) \/ WriteSnapshot(w) \/ reconcile_session_day(w) \/ ReportDone(w)
  \/ Settle(w) \/ Settled(w) \/ ReconciliationDone(w) \/ Finish(w)

Next ==
  \/ \E w \in Workers : finalize_walkforward_run(w) \/ WorkerStep(w) \/ Crash(w) \/ Error(w)
  \/ recover_paper_finalizations \/ DeliverAgain \/ RetryRun

Spec == Init /\ [][Next]_vars

\* Workers go on, the broker delivers, and beat runs the recovery.
Fairness ==
  /\ \A w \in Workers : WF_vars(WorkerStep(w))
  /\ WF_vars(\E w \in Workers : finalize_walkforward_run(w))
  /\ WF_vars(recover_paper_finalizations)

FairSpec == Spec /\ Fairness

----------------------------------------------------------------------------
(* Properties.                                                             *)

\* However often the day is finalized, by whom and with which crashes, the
\* ledger has one opening and at most one fill of an order, and only of an order
\* that was accepted and sent to matching.
LedgerOnce ==
  /\ opened <= 1
  /\ \A o \in Orders :
       posted[o] > 0 => /\ posted[o] = 1
                        /\ decision[o] # Missing /\ decision[o][1].result = "ok"
                        /\ "MATCHING" \in Reached(o)

\* No two finalizations have overlapped, and none was lost within a phase.
Undisturbed == faults \subseteq {"checkpoint_crash", "history_drift"}

\* The account is not overdrawn, sells only what it holds and nothing it bought
\* the same day: the constraints hold of the ledger, though they are checked on a
\* read model that lags behind it.  (A redelivered finalization is to be a no-op.)
AccountSound ==
  opened > 0 => /\ LedgerCash >= 0
                /\ Sold <= OpeningPosition

\* Crashes at checkpoints leave the account sound.
NoOverspend == Undisturbed => AccountSound

\* A successful run has all six checkpoints, a passed reconciliation, and every
\* order of the day reconciled, with a fill exactly if its projection says so.
SuccessIsReconciled ==
  run = "success" =>
    /\ \A p \in RUN_PHASES : points[p] # Missing
    /\ record # Missing /\ Passed
    /\ \A o \in Orders : State(o) = "RECONCILED" /\ (order[o] = "filled" <=> posted[o] = 1)

\* Once an undisturbed finalization is over the read model is the projection of
\* the ledger, and so is the day's snapshot.
ReadModelFollowsLedger ==
  Undisturbed /\ run = "success" /\ ~ Busy =>
    /\ cash = LedgerCash /\ holding.quantity = LedgerPosition
    /\ snap = <<LedgerCash>>

\* An undisturbed finalization ends: every checkpoint can be resumed from.
RunEnds == run = "running" ~> run # "running" \/ ~ Undisturbed

=============================================================================
