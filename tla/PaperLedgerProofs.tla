-------------------------- MODULE PaperLedgerProofs --------------------------
(***************************************************************************)
(* What TLAPS proves of the account of PaperOrders while no finalization   *)
(* overlaps another and none is lost within a phase (Undisturbed): the     *)
(* read model the constraints are checked on is the projection of the      *)
(* ledger whenever it is read, so what they let pass the ledger affords.   *)
(***************************************************************************)
EXTENDS PaperOrdersProofs

\* Where the read model is in step with the ledger.
InStepPcs == WorkerPcs \ {"idle", "load", "open", "readLedger", "apply", "fillProject", "fillApply"}
\* From the constraints of an order to its fill.
PermitPcs == {"decide", "judge", "match", "expire", "fillCheck", "fill"}
\* From the snapshot of the date to the end.
SnapPcs == {"readLedger2", "reconcile", "atReported"} \cup After5
BalancePcs == {"snapshot"} \cup SnapPcs

InStep == cash = LedgerCash /\ holding = Holding(LedgerPosition)

Affordable(o) ==
  /\ ~ Sells(o) => LedgerCash >= Price + Fee
  /\ Sells(o) => LedgerPosition >= 1 /\ Bought = 0

QuietWorker(w) ==
  pc[w] # "idle" =>
    /\ msgs = 0 /\ run # "success"
    /\ \A q \in Workers : pc[q] # "idle" => q = w
    /\ pc[w] \in InStepPcs => InStep
    /\ pc[w] \in {"apply", "fillApply"} => sight[w] = Projection
    /\ pc[w] \in PermitPcs /\ verdict[w] = "ok" => \A o \in Orders : o = at[w] => Affordable(o)
    /\ pc[w] \in BalancePcs => balance[w].cash = LedgerCash
    /\ pc[w] \in SnapPcs => snap = <<LedgerCash>>

QuietInv ==
  /\ run = "success" => InStep /\ snap = <<LedgerCash>>
  /\ \A w \in Workers : QuietWorker(w)

UInv == Undisturbed => QuietInv
SInv == Undisturbed => AccountSound

----------------------------------------------------------------------------
(* The ledger.                                                             *)

\* What the ledger projects is a matter of its entries.
LEMMA LedgerKept ==
  ASSUME UNCHANGED <<book, opened, posted>>
  PROVE  /\ UNCHANGED <<LedgerCash, LedgerPosition, Sold, Bought, Projection>>
         /\ UNCHANGED Holding(LedgerPosition)
         /\ \A o \in Orders : Affordable(o) => Affordable(o)'
<1>1. UNCHANGED <<Sold, Bought>>
  BY DEF Sold, Bought, Fills, Sells
<1>2. UNCHANGED <<LedgerCash, LedgerPosition>>
  BY <1>1 DEF LedgerCash, LedgerPosition
<1>3. UNCHANGED Holding(LedgerPosition)
  BY <1>2 DEF Holding, Sells
<1>4. UNCHANGED Projection
  BY <1>2, <1>3 DEF Projection
<1> QED
  BY <1>1, <1>2, <1>3, <1>4 DEF Affordable, Sells

\* Without fills the account is as it was opened.
LEMMA EmptyLedger ==
  ASSUME RowsType, \A o \in Orders : posted[o] = 0
  PROVE  Sold = 0 /\ Bought = 0
<1>1. Fills(TRUE) = {} /\ Fills(FALSE) = {}
  BY DEF Fills
<1> QED
  BY <1>1, FS_EmptySet DEF Sold, Bought

\* A position none of which was bought today: there is no fill of a purchase.
LEMMA NothingBought ==
  ASSUME RowsType, \A o \in Orders : posted[o] > 0 => Sells(o)
  PROVE  Bought = 0
<1>1. ASSUME NEW o \in Orders, ~ Sells(o) PROVE 1 .. posted[o] = {}
  <2>1. posted[o] \in {0, 1}
    BY DEF RowsType
  <2>2. ~ (posted[o] > 0)
    BY <1>1
  <2> QED
    BY <2>1, <2>2
<1>2. Fills(FALSE) = {}
  BY <1>1 DEF Fills
<1> QED
  BY <1>2, FS_EmptySet DEF Bought

\* A new fill is one entry more, of a sale or of a purchase.
LEMMA NewFill ==
  ASSUME RowsType, NEW o \in Orders, posted[o] = 0, UNCHANGED book,
         posted' = [posted EXCEPT ![o] = 1]
  PROVE  /\ Sells(o) => Sold' = Sold + 1 /\ Bought' = Bought
         /\ ~ Sells(o) => Sold' = Sold /\ Bought' = Bought + 1
<1>1. ASSUME NEW b \in BOOLEAN
      PROVE  Fills(b)' = IF Sells(o) <=> b THEN Fills(b) \cup {<<o, 1>>} ELSE Fills(b)
  <2>1. /\ 1 .. posted'[o] = {1} /\ 1 .. posted[o] = {}
        /\ \A q \in Orders \ {o} : posted'[q] = posted[q]
        /\ \A q \in Orders : Sells(q)' <=> Sells(q)
    BY DEF RowsType, Sells
  <2>2. \A x : x \in Fills(b) <=> \E q \in Orders : (Sells(q) <=> b) /\ x \in {q} \X (1 .. posted[q])
    BY DEF Fills
  <2>3. \A x : x \in Fills(b)' <=>
                 \E q \in Orders : (Sells(q)' <=> b) /\ x \in {q} \X (1 .. posted'[q])
    BY DEF Fills
  <2>4. \A x : x \in Fills(b)' <=> x \in Fills(b) \/ ((Sells(o) <=> b) /\ x = <<o, 1>>)
    BY <2>1, <2>2, <2>3
  <2> QED
    BY <2>4
<1>2. ASSUME NEW b \in BOOLEAN PROVE <<o, 1>> \notin Fills(b) /\ IsFiniteSet(Fills(b))
  <2>1. <<o, 1>> \notin Fills(b)
    <3> SUFFICES ASSUME <<o, 1>> \in Fills(b) PROVE FALSE
      OBVIOUS
    <3>1. PICK q \in Orders : <<o, 1>> \in {q} \X (1 .. posted[q])
      BY DEF Fills
    <3>2. 1 \in 1 .. posted[o]
      BY <3>1
    <3> QED
      BY <3>2
  <2>2. IsFiniteSet(Fills(b))
    BY FillsFinite
  <2> QED
    BY <2>1, <2>2
<1>3. ASSUME NEW b \in BOOLEAN
      PROVE  Cardinality(Fills(b))' =
               IF Sells(o) <=> b THEN Cardinality(Fills(b)) + 1 ELSE Cardinality(Fills(b))
  BY <1>1, <1>2, FS_AddElement
<1> QED
  BY <1>3 DEF Sold, Bought

----------------------------------------------------------------------------
(* One worker at a time.                                                   *)

\* While w is at it nobody else is: its own step is all there is to check.
LEMMA OnlyOne ==
  ASSUME QuietInv, NEW w \in Workers, pc[w] # "idle", Alone(w), QuietWorker(w)',
         run' = "success" => (InStep /\ snap = <<LedgerCash>>)'
  PROVE  QuietInv'
<1>1. ASSUME NEW q \in Workers, q # w PROVE QuietWorker(q)'
  <2>1. pc[q] = "idle"
    BY <1>1 DEF QuietInv, QuietWorker
  <2>2. pc'[q] = "idle"
    BY <1>1, <2>1 DEF Alone, Still
  <2> QED
    BY <2>2 DEF QuietWorker
<1> QED
  BY <1>1 DEF QuietInv

\* w ends, without success.
LEMMA Ends ==
  ASSUME QuietInv, NEW w \in Workers, pc[w] # "idle", Alone(w), pc'[w] = "idle", run' # "success"
  PROVE  QuietInv'
<1>1. QuietWorker(w)'
  BY DEF QuietWorker
<1> QED
  BY <1>1, OnlyOne

\* w goes on, and neither the ledger nor what follows it is written.
LEMMA GoesOn ==
  ASSUME QuietInv, NEW w \in Workers, pc[w] \in InStepPcs, Alone(w),
         UNCHANGED <<book, opened, posted, cash, holding, snap, msgs, run>>,
         pc'[w] \notin {"apply", "fillApply"},
         pc'[w] \in PermitPcs => \/ pc[w] \in PermitPcs /\ verdict'[w] = verdict[w] /\ at'[w] = at[w]
                                 \/ verdict'[w] # "ok",
         pc'[w] \in BalancePcs => pc[w] \in BalancePcs /\ balance'[w] = balance[w],
         pc'[w] \in SnapPcs => pc[w] \in SnapPcs
  PROVE  QuietInv'
<1>1. pc[w] # "idle"
  BY DEF InStepPcs
<1>2. /\ UNCHANGED <<LedgerCash, LedgerPosition>> /\ UNCHANGED Holding(LedgerPosition)
      /\ \A o \in Orders : Affordable(o) => Affordable(o)'
  BY LedgerKept
<1>3. QuietWorker(w) /\ run # "success" /\ msgs = 0 /\ InStep
  BY <1>1 DEF QuietInv, QuietWorker
<1>4. \A q \in Workers : pc'[q] # "idle" => q = w
  BY <1>1, <1>3 DEF QuietWorker, Alone, Still
<1>5. InStep'
  BY <1>2, <1>3 DEF InStep
<1>6. pc'[w] \in PermitPcs /\ verdict'[w] = "ok" => \A o \in Orders : o = at'[w] => Affordable(o)'
  BY <1>1, <1>2, <1>3 DEF QuietWorker
<1>7. /\ pc'[w] \in BalancePcs => balance'[w].cash = LedgerCash'
      /\ pc'[w] \in SnapPcs => snap' = <<LedgerCash'>>
  BY <1>1, <1>2, <1>3 DEF QuietWorker
<1>8. QuietWorker(w)'
  BY <1>3, <1>4, <1>5, <1>6, <1>7 DEF QuietWorker
<1> QED
  BY <1>1, <1>3, <1>8, OnlyOne

\* Where the control of a worker goes.
LEMMA Hops ==
  ASSUME LocalsType, NEW w \in Workers
  PROVE  /\ \A l : On(w, l) => /\ pc'[w] = l /\ at'[w] = at[w] /\ verdict'[w] = verdict[w]
                               /\ balance'[w] = balance[w]
         /\ Leave(w) => pc'[w] = "idle"
         /\ NextIntent(w) => pc'[w] \in {"intent", "atCreated"}
         /\ \A r : NextOrder(w, r) => pc'[w] \in {"look", "atDecided"}
         /\ NextSettle(w) => pc'[w] \in {"settle", "atReconciled"} /\ balance'[w] = balance[w]
BY DEF LocalsType, On, Goto, localVars, Leave, NextIntent, NextOrder, NextSettle

\* Intents are captured, an order is taken up or put down, phases are completed.
LEMMA CaptureQuiet ==
  ASSUME OInv, QuietInv, NEW w \in Workers, Alone(w),
         \/ record_intent(w) \/ IntentCreated(w) \/ CaptureDone(w) \/ LookAtOrder(w)
         \/ TakeOutcome(w) \/ ValidationPending(w) \/ PendReconcile(w) \/ DecisionsDone(w)
         \/ MatchingDone(w) \/ LedgerDone(w)
  PROVE  QuietInv'
<1>1. UNCHANGED <<book, opened, posted, cash, holding, snap, msgs, run>>
  BY DEF record_intent, IntentCreated, CaptureDone, LookAtOrder, TakeOutcome, ValidationPending,
         PendReconcile, DecisionsDone, MatchingDone, LedgerDone, Transition, complete_checkpoint,
         Reads, rowVars, ledgerVars, modelVars, dayVars
<1>2. pc[w] \in {"intent", "created", "atCreated", "look", "row", "pend", "pendReconcile",
                 "atDecided", "atMatched", "atPosted"}
  BY DEF record_intent, IntentCreated, CaptureDone, LookAtOrder, TakeOutcome, ValidationPending,
         PendReconcile, DecisionsDone, MatchingDone, LedgerDone, Transition, complete_checkpoint
<1>3. \/ \E l \in {"created", "atDecided", "look", "pend", "row", "sense", "atMatched", "atPosted",
                   "balance"} : On(w, l)
      \/ Leave(w) \/ NextIntent(w) \/ \E r : NextOrder(w, r)
  BY DEF record_intent, IntentCreated, CaptureDone, LookAtOrder, TakeOutcome, ValidationPending,
         PendReconcile, DecisionsDone, MatchingDone, LedgerDone, Transition, complete_checkpoint,
         append_transition
<1>4. pc'[w] \in {"created", "atDecided", "look", "pend", "row", "sense", "atMatched", "atPosted",
                  "balance", "idle", "intent", "atCreated"}
  BY <1>3, Hops DEF OInv
<1>5. /\ pc[w] \in InStepPcs
      /\ pc'[w] \notin {"apply", "fillApply"} \cup PermitPcs \cup BalancePcs \cup SnapPcs
  BY <1>2, <1>4 DEF InStepPcs, WorkerPcs, OrderPcs, CheckpointPcs, PermitPcs, BalancePcs, SnapPcs,
                    After5, After6
<1> QED
  BY <1>1, <1>5, GoesOn

\* An order on its way from the decision to the matching and out.
LEMMA PermitQuiet ==
  ASSUME OInv, QuietInv, NEW w \in Workers, Alone(w),
         \/ record_constraint_decision(w) \/ Judge(w) \/ Match(w) \/ Expire(w) \/ CheckFill(w)
         \/ Filled(w) \/ project_v2_order(w)
  PROVE  QuietInv'
<1>1. UNCHANGED <<book, opened, posted, cash, holding, snap, msgs, run>>
  BY DEF record_constraint_decision, Judge, Match, Expire, CheckFill, Filled, project_v2_order,
         Transition, Reads, rowVars, ledgerVars, modelVars, dayVars
<1>2. /\ pc[w] \in {"decide", "judge", "match", "expire", "fillCheck", "filled", "project"}
      /\ \/ pc[w] \in PermitPcs /\ \E l \in {"match", "project", "expire", "fillCheck", "fill"} : On(w, l)
         \/ /\ pc[w] \in PermitPcs /\ Goto(w, "judge")
            /\ UNCHANGED <<at, verdict>>
         \/ \E l \in {"project", "pendReconcile"} : On(w, l)
         \/ Leave(w) \/ \E r : NextOrder(w, r)
  BY DEF record_constraint_decision, Judge, Match, Expire, CheckFill, Filled, project_v2_order,
         Transition, append_transition, PermitPcs
<1>3. /\ pc'[w] \in {"judge", "match", "expire", "fillCheck", "fill", "project", "pendReconcile",
                     "idle", "look", "atDecided"}
      /\ pc'[w] \in PermitPcs => /\ pc[w] \in PermitPcs
                                 /\ verdict'[w] = verdict[w] /\ at'[w] = at[w]
  <2>1. CASE pc[w] \in PermitPcs /\ Goto(w, "judge") /\ UNCHANGED <<at, verdict>>
    BY <2>1 DEF Goto, OInv, LocalsType
  <2> QED
    BY <1>2, <2>1, Hops DEF OInv, PermitPcs
<1>4. /\ pc[w] \in InStepPcs
      /\ pc'[w] \notin {"apply", "fillApply"} \cup BalancePcs \cup SnapPcs
  BY <1>2, <1>3 DEF InStepPcs, WorkerPcs, OrderPcs, CheckpointPcs, BalancePcs, SnapPcs, After5,
                    After6
<1> QED
  BY <1>1, <1>3, <1>4, GoesOn

\* From the reconciliation of the day to the last checkpoint.
LEMMA SnapQuiet ==
  ASSUME OInv, QuietInv, NEW w \in Workers, Alone(w),
         \/ reconcile_session_day(w) \/ ReportDone(w) \/ Settle(w) \/ Settled(w)
         \/ ReconciliationDone(w)
  PROVE  QuietInv'
<1>1. UNCHANGED <<book, opened, posted, cash, holding, snap, msgs, run>>
  BY DEF reconcile_session_day, ReportDone, Settle, Settled, ReconciliationDone,
         complete_checkpoint, Transition, Reads, rowVars, ledgerVars, modelVars, dayVars
<1>2. /\ pc[w] \in {"reconcile", "atReported", "settle", "settled", "atReconciled"}
      /\ \/ Goto(w, "atReported") /\ UNCHANGED balance
         \/ \E l \in {"atReconciled", "settle", "settled", "finish"} : On(w, l)
         \/ NextSettle(w) \/ Leave(w)
  BY DEF reconcile_session_day, ReportDone, Settle, Settled, ReconciliationDone,
         complete_checkpoint, Transition, append_transition
<1>3. /\ pc'[w] \in {"atReported", "atReconciled", "settle", "settled", "finish", "idle"}
      /\ pc'[w] # "idle" => balance'[w] = balance[w]
  <2>1. CASE Goto(w, "atReported") /\ UNCHANGED balance
    BY <2>1 DEF Goto, OInv, LocalsType
  <2> QED
    BY <1>2, <2>1, Hops DEF OInv
<1>4. /\ pc[w] \in InStepPcs /\ pc[w] \in SnapPcs /\ pc[w] \in BalancePcs
      /\ pc'[w] \notin {"apply", "fillApply"} \cup PermitPcs
      /\ pc'[w] \in BalancePcs => pc'[w] # "idle"
  BY <1>2, <1>3 DEF InStepPcs, WorkerPcs, OrderPcs, CheckpointPcs, BalancePcs, SnapPcs, PermitPcs,
                    After5, After6
<1> QED
  BY <1>1, <1>3, <1>4, GoesOn

----------------------------------------------------------------------------
(* The steps that write the ledger or the read model, or read them.        *)

LEMMA LoadQuiet ==
  ASSUME OInv, QuietInv, NEW w \in Workers, Alone(w), LoadSession(w) \/ ensure_opening_ledger(w)
  PROVE  QuietInv'
<1>1. /\ pc[w] # "idle" /\ msgs' = msgs /\ (run' = run \/ run' = "failed")
      /\ pc'[w] \in {"idle", "open", "readLedger"}
  BY Hops DEF LoadSession, ensure_opening_ledger, Goto, OInv, LocalsType
<1>2. run' # "success" /\ msgs' = 0
  BY <1>1 DEF QuietInv, QuietWorker
<1>3. \A q \in Workers : pc'[q] # "idle" => q = w
  BY <1>1 DEF QuietInv, QuietWorker, Alone, Still
<1>4. pc'[w] \notin InStepPcs \cup {"apply", "fillApply"} \cup PermitPcs \cup BalancePcs \cup SnapPcs
  BY <1>1 DEF InStepPcs, PermitPcs, BalancePcs, SnapPcs, After5, After6
<1>5. QuietWorker(w)'
  BY <1>2, <1>3, <1>4 DEF QuietWorker
<1> QED
  BY <1>1, <1>2, <1>5, OnlyOne

LEMMA ReadLedgerQuiet ==
  ASSUME OInv, QuietInv, NEW w \in Workers, Alone(w), ReadLedger(w)
  PROVE  QuietInv'
<1>1. /\ UNCHANGED <<book, opened, posted, cash, holding, snap, msgs, run, balance>>
      /\ sight' = [sight EXCEPT ![w] = Projection]
      /\ \/ pc[w] = "readLedger" /\ pc' = [pc EXCEPT ![w] = "apply"]
         \/ pc[w] = "fillProject" /\ pc' = [pc EXCEPT ![w] = "fillApply"]
         \/ pc[w] = "readLedger2" /\ pc' = [pc EXCEPT ![w] = "reconcile"]
  BY DEF ReadLedger, Goto, Look, Reads, rowVars, ledgerVars, modelVars, dayVars
<1>2. /\ sight'[w] = Projection /\ Projection' = Projection
      /\ \/ pc[w] = "readLedger" /\ pc'[w] = "apply"
         \/ pc[w] = "fillProject" /\ pc'[w] = "fillApply"
         \/ pc[w] = "readLedger2" /\ pc'[w] = "reconcile"
  BY <1>1, LedgerKept DEF OInv, LocalsType
<1>3. CASE pc[w] = "readLedger2"
  <2>1. /\ pc[w] \in InStepPcs /\ pc[w] \in SnapPcs /\ pc[w] \in BalancePcs
        /\ pc'[w] \notin {"apply", "fillApply"} \cup PermitPcs
    BY <1>2, <1>3 DEF InStepPcs, WorkerPcs, PermitPcs, BalancePcs, SnapPcs
  <2> QED
    BY <1>1, <2>1, GoesOn
<1>4. CASE pc[w] # "readLedger2"
  <2>1. pc[w] # "idle"
    BY <1>2
  <2>2. run' # "success" /\ msgs' = 0
    BY <1>1, <2>1 DEF QuietInv, QuietWorker
  <2>3. \A q \in Workers : pc'[q] # "idle" => q = w
    BY <2>1 DEF QuietInv, QuietWorker, Alone, Still
  <2>4. pc'[w] \notin InStepPcs \cup PermitPcs \cup BalancePcs \cup SnapPcs
    BY <1>2, <1>4 DEF InStepPcs, PermitPcs, BalancePcs, SnapPcs, After5, After6
  <2>5. QuietWorker(w)'
    BY <1>2, <2>2, <2>3, <2>4 DEF QuietWorker
  <2> QED
    BY <2>1, <2>2, <2>5, OnlyOne
<1> QED
  BY <1>3, <1>4

\* The read model is brought in step.
LEMMA ApplyQuiet ==
  ASSUME OInv, QuietInv, NEW w \in Workers, Alone(w), ApplyProjection(w)
  PROVE  QuietInv'
<1>1. /\ UNCHANGED <<book, opened, posted, msgs, run>>
      /\ cash' = sight[w].cash /\ holding' = sight[w].holding
      /\ pc[w] \in {"apply", "fillApply"}
      /\ \E l \in {"filled", "atCreated", "intent"} : pc' = [pc EXCEPT ![w] = l]
  BY DEF ApplyProjection, Goto, ledgerVars
<1>2. pc'[w] \in {"filled", "atCreated", "intent"} /\ pc[w] # "idle"
  BY <1>1 DEF OInv, LocalsType
<1>3. sight[w] = Projection
  BY <1>1, <1>2 DEF QuietInv, QuietWorker
<1>4. UNCHANGED <<LedgerCash, LedgerPosition>> /\ UNCHANGED Holding(LedgerPosition)
  BY <1>1, LedgerKept
<1>5. InStep'
  BY <1>1, <1>3, <1>4 DEF InStep, Projection
<1>6. run' # "success" /\ msgs' = 0
  BY <1>1, <1>2 DEF QuietInv, QuietWorker
<1>7. \A q \in Workers : pc'[q] # "idle" => q = w
  BY <1>2 DEF QuietInv, QuietWorker, Alone, Still
<1>8. pc'[w] \notin {"apply", "fillApply"} \cup PermitPcs \cup BalancePcs \cup SnapPcs
  BY <1>2 DEF PermitPcs, BalancePcs, SnapPcs, After5, After6
<1>9. QuietWorker(w)'
  BY <1>5, <1>6, <1>7, <1>8 DEF QuietWorker
<1> QED
  BY <1>2, <1>6, <1>9, OnlyOne

\* What the constraints let pass on a read model in step, the ledger affords.
LEMMA PermittedIsAffordable ==
  ASSUME RowsType, InStep, NEW o \in Orders, lean_intent_rejection(o, ReadModel) = "ok"
  PROVE  Affordable(o)
<1>1. /\ book[o] \in OrderKinds /\ cash = LedgerCash /\ LedgerCash \in Int /\ LedgerPosition \in Int
      /\ Price \in Nat /\ Fee \in Nat
      /\ holding = Holding(LedgerPosition)
  BY LedgerTyped, OrdersAssumption, MoneyAssumption DEF RowsType, InStep
<1>2. /\ ReadModel.cash = LedgerCash
      /\ ReadModel.holding.quantity = LedgerPosition
      /\ ReadModel.holding.today = (LedgerPosition > 0 /\ \E q \in Orders : posted[q] > 0 /\ ~ Sells(q))
  BY <1>1 DEF ReadModel, Holding
<1>3. book[o] # "blocked"
  BY Zenon DEF lean_intent_rejection
<1>4. book[o] \in {"buy", "unmarketable"} => ~ (ReadModel.cash < Price + Fee)
  BY <1>3, Zenon DEF lean_intent_rejection
<1>5. book[o] = "sell" => ~ (ReadModel.holding.quantity < 1)
  BY <1>3, <1>4, Zenon DEF lean_intent_rejection
<1>6. book[o] = "sell" => ~ (ReadModel.holding.quantity >= 1 /\ ReadModel.holding.today)
  BY <1>3, <1>4, <1>5, Zenon DEF lean_intent_rejection
<1>7. ~ Sells(o) => LedgerCash >= Price + Fee
  BY <1>1, <1>2, <1>3, <1>4 DEF Sells, OrderKinds
<1>8. ASSUME Sells(o) PROVE LedgerPosition >= 1 /\ Bought = 0
  <2>1. LedgerPosition >= 1
    BY <1>1, <1>2, <1>5, <1>8 DEF Sells
  <2>2. \A q \in Orders : posted[q] > 0 => Sells(q)
    <3>1. ReadModel.holding.quantity >= 1 /\ LedgerPosition > 0
      BY <1>1, <1>2, <2>1
    <3>2. ~ ReadModel.holding.today
      BY <1>6, <1>8, <3>1 DEF Sells
    <3>3. ~ \E q \in Orders : posted[q] > 0 /\ ~ Sells(q)
      BY <1>2, <3>1, <3>2
    <3> QED
      BY <3>3
  <2> QED
    BY <2>1, <2>2, NothingBought
<1> QED
  BY <1>7, <1>8 DEF Affordable

LEMMA SenseQuiet ==
  ASSUME OInv, QuietInv, NEW w \in Workers, Alone(w), Sense(w)
  PROVE  QuietInv'
<1>1. /\ UNCHANGED <<book, opened, posted, cash, holding, snap, msgs, run, at>>
      /\ pc[w] = "sense" /\ pc' = [pc EXCEPT ![w] = "decide"]
      /\ verdict' = [verdict EXCEPT ![w] = lean_intent_rejection(at[w], ReadModel)]
  BY DEF Sense, Goto, InHand, Reads, rowVars, ledgerVars, modelVars, dayVars
<1>2. pc'[w] = "decide" /\ verdict'[w] = lean_intent_rejection(at[w], ReadModel) /\ at'[w] = at[w]
  BY <1>1 DEF OInv, LocalsType
<1>3. pc[w] \in InStepPcs /\ pc[w] # "idle" /\ QuietWorker(w)
  BY <1>1 DEF InStepPcs, WorkerPcs, OrderPcs, QuietInv
<1>4. InStep /\ run' # "success" /\ msgs' = 0
  BY <1>1, <1>3 DEF QuietWorker
<1>5. /\ UNCHANGED <<LedgerCash, LedgerPosition>> /\ UNCHANGED Holding(LedgerPosition)
      /\ \A o \in Orders : Affordable(o) => Affordable(o)'
  BY <1>1, LedgerKept
<1>6. ASSUME NEW o \in Orders, o = at'[w], verdict'[w] = "ok" PROVE Affordable(o)'
  BY <1>2, <1>4, <1>5, <1>6, PermittedIsAffordable DEF OInv
<1>7. InStep'
  BY <1>1, <1>4, <1>5 DEF InStep
<1>8. \A q \in Workers : pc'[q] # "idle" => q = w
  BY <1>3 DEF QuietWorker, Alone, Still
<1>9. pc'[w] \notin {"apply", "fillApply"} \cup BalancePcs \cup SnapPcs
  BY <1>2 DEF BalancePcs, SnapPcs, After5, After6
<1>10. QuietWorker(w)'
  BY <1>4, <1>6, <1>7, <1>8, <1>9 DEF QuietWorker
<1> QED
  BY <1>3, <1>4, <1>10, OnlyOne

LEMMA FillQuiet ==
  ASSUME OInv, QuietInv, NEW w \in Workers, Alone(w), record_fill_and_ledger(w)
  PROVE  QuietInv'
<1>1. pc[w] = "fill" /\ pc'[w] = "fillProject" /\ UNCHANGED <<msgs, run>>
  BY Hops DEF record_fill_and_ledger, OInv
<1>2. run' # "success" /\ msgs' = 0
  BY <1>1 DEF QuietInv, QuietWorker
<1>3. \A q \in Workers : pc'[q] # "idle" => q = w
  BY <1>1 DEF QuietInv, QuietWorker, Alone, Still
<1>4. pc'[w] \notin InStepPcs \cup {"apply", "fillApply"} \cup PermitPcs \cup BalancePcs \cup SnapPcs
  BY <1>1 DEF InStepPcs, PermitPcs, BalancePcs, SnapPcs, After5, After6
<1>5. QuietWorker(w)'
  BY <1>2, <1>3, <1>4 DEF QuietWorker
<1> QED
  BY <1>1, <1>2, <1>5, OnlyOne

\* The balance that is reported and written back is the ledger's.
LEMMA BalanceQuiet ==
  ASSUME OInv, QuietInv, NEW w \in Workers, Alone(w), ReadBalance(w) \/ WriteSnapshot(w)
  PROVE  QuietInv'
<1>1. /\ UNCHANGED <<book, opened, posted, holding, msgs, run>>
      /\ \/ /\ pc[w] = "balance" /\ pc' = [pc EXCEPT ![w] = "snapshot"]
            /\ balance' = [balance EXCEPT ![w] = ReadModel] /\ cash' = cash
         \/ /\ pc[w] = "snapshot" /\ pc' = [pc EXCEPT ![w] = "readLedger2"]
            /\ balance' = balance /\ cash' = balance[w].cash /\ snap' = <<balance[w].cash>>
  BY DEF ReadBalance, WriteSnapshot, On, Goto, localVars, Reads, rowVars, ledgerVars, modelVars
<1>2. \/ /\ pc[w] = "balance" /\ pc'[w] = "snapshot"
         /\ balance'[w] = ReadModel /\ cash' = cash
      \/ /\ pc[w] = "snapshot" /\ pc'[w] = "readLedger2"
         /\ balance'[w] = balance[w] /\ cash' = balance[w].cash /\ snap' = <<balance[w].cash>>
  BY <1>1 DEF OInv, LocalsType
<1>3. pc[w] \in InStepPcs /\ pc[w] # "idle" /\ QuietWorker(w)
  BY <1>2 DEF InStepPcs, WorkerPcs, QuietInv
<1>4. InStep /\ run' # "success" /\ msgs' = 0
  BY <1>1, <1>3 DEF QuietWorker
<1>5. UNCHANGED <<LedgerCash, LedgerPosition>> /\ UNCHANGED Holding(LedgerPosition)
  BY <1>1, LedgerKept
<1>6. pc[w] = "snapshot" => balance[w].cash = LedgerCash
  BY <1>3 DEF QuietWorker, BalancePcs
<1>7. InStep'
  BY <1>1, <1>2, <1>4, <1>5, <1>6 DEF InStep
<1>8. balance'[w].cash = LedgerCash'
  BY <1>2, <1>4, <1>5, <1>6 DEF InStep, ReadModel
<1>9. pc'[w] \in SnapPcs => snap' = <<LedgerCash'>>
  BY <1>2, <1>5, <1>6 DEF SnapPcs, After5, After6
<1>10. \A q \in Workers : pc'[q] # "idle" => q = w
  BY <1>3 DEF QuietWorker, Alone, Still
<1>11. pc'[w] \notin {"apply", "fillApply"} \cup PermitPcs
  BY <1>2 DEF PermitPcs
<1>12. QuietWorker(w)'
  BY <1>4, <1>7, <1>8, <1>9, <1>10, <1>11 DEF QuietWorker
<1> QED
  BY <1>3, <1>4, <1>12, OnlyOne

LEMMA FinishQuiet ==
  ASSUME OInv, QuietInv, NEW w \in Workers, Alone(w), Finish(w)
  PROVE  QuietInv'
<1>1. /\ pc[w] = "finish" /\ pc'[w] = "idle"
      /\ UNCHANGED <<book, opened, posted, holding, snap>>
      /\ \/ run' = "success" /\ cash' = balance[w].cash
         \/ run' = "failed"
  BY Hops DEF Finish, OInv, ledgerVars, dayVars
<1>2. QuietWorker(w) /\ pc[w] \in InStepPcs /\ pc[w] \in BalancePcs /\ pc[w] \in SnapPcs
  BY <1>1 DEF QuietInv, InStepPcs, WorkerPcs, BalancePcs, SnapPcs, After5, After6
<1>3. InStep /\ balance[w].cash = LedgerCash /\ snap = <<LedgerCash>>
  BY <1>1, <1>2 DEF QuietWorker
<1>4. UNCHANGED <<LedgerCash, LedgerPosition>> /\ UNCHANGED Holding(LedgerPosition)
  BY <1>1, LedgerKept
<1>5. run' = "success" => (InStep /\ snap = <<LedgerCash>>)'
  BY <1>1, <1>3, <1>4 DEF InStep
<1>6. QuietWorker(w)'
  BY <1>1 DEF QuietWorker
<1> QED
  BY <1>1, <1>5, <1>6, OnlyOne

----------------------------------------------------------------------------
(* The whole system.                                                       *)

LEMMA WorkerQuiet ==
  ASSUME OInv, QuietInv, NEW w \in Workers, WorkerStep(w)
  PROVE  QuietInv'
<1>1. Alone(w)
  BY WorkerStepOK DEF StepOK
<1> QED
  BY <1>1, LoadQuiet, ReadLedgerQuiet, ApplyQuiet, CaptureQuiet, SenseQuiet, PermitQuiet, FillQuiet,
     BalanceQuiet, SnapQuiet, FinishQuiet
     DEF WorkerStep

\* A message is taken only while everybody is idle.
LEMMA DeliveryQuiet ==
  ASSUME OInv, QuietInv, NEW w \in Workers, finalize_walkforward_run(w)
  PROVE  QuietInv'
<1>1. /\ msgs = 1 /\ msgs' = 0 /\ UNCHANGED <<book, opened, posted, cash, holding, snap, run>>
      /\ pc' = [pc EXCEPT ![w] = IF run = "success" THEN "idle" ELSE "load"]
  BY DEF finalize_walkforward_run, Goto, rowVars, ledgerVars, modelVars, dayVars
<1>2. \A q \in Workers : pc[q] = "idle"
  BY <1>1 DEF QuietInv, QuietWorker
<1>3. /\ \A q \in Workers : pc'[q] # "idle" => q = w /\ pc'[q] = "load" /\ run' # "success"
  BY <1>1, <1>2 DEF OInv, LocalsType
<1>4. UNCHANGED <<LedgerCash, LedgerPosition>> /\ UNCHANGED Holding(LedgerPosition)
  BY <1>1, LedgerKept
<1>5. ASSUME NEW q \in Workers PROVE QuietWorker(q)'
  <2>1. pc'[q] \in {"idle", "load"}
    BY <1>3
  <2>2. pc'[q] \notin InStepPcs \cup {"apply", "fillApply"} \cup PermitPcs \cup BalancePcs \cup SnapPcs
    BY <2>1 DEF InStepPcs, PermitPcs, BalancePcs, SnapPcs, After5, After6
  <2> QED
    BY <1>1, <1>3, <2>2 DEF QuietWorker
<1>6. run' = "success" => (InStep /\ snap = <<LedgerCash>>)'
  BY <1>1, <1>4 DEF QuietInv, InStep
<1> QED
  BY <1>5, <1>6 DEF QuietInv

\* A worker lost at a checkpoint leaves nobody at it.
LEMMA CrashQuiet ==
  ASSUME OInv, QuietInv, NEW w \in Workers, Crash(w)
  PROVE  QuietInv'
<1>1. pc[w] # "idle" /\ pc'[w] = "idle" /\ run' = run /\ Alone(w)
  BY LossStep, Hops DEF Crash, rowVars, OInv, StepOK
<1>2. run' # "success"
  BY <1>1 DEF QuietInv, QuietWorker
<1> QED
  BY <1>1, <1>2, Ends

LEMMA DispatchQuiet ==
  ASSUME QuietInv, recover_paper_finalizations \/ RetryRun
  PROVE  QuietInv'
<1>1. /\ \A q \in Workers : pc[q] = "idle"
      /\ pc' = pc /\ run' = "running"
  BY DEF recover_paper_finalizations, RetryRun, Busy, rowVars
<1> QED
  BY <1>1 DEF QuietInv, QuietWorker

LEMMA SameQuiet ==
  ASSUME QuietInv, UNCHANGED vars
  PROVE  QuietInv'
<1>1. UNCHANGED <<book, opened, posted, cash, holding, snap, msgs, run, pc, at, sight, verdict, balance>>
  BY DEF vars, rowVars, ledgerVars, modelVars, dayVars, localVars
<1>2. /\ UNCHANGED <<LedgerCash, Projection>> /\ UNCHANGED Holding(LedgerPosition)
      /\ \A o \in Orders : Affordable(o) => Affordable(o)'
  BY <1>1, LedgerKept
<1>3. InStep => InStep'
  BY <1>1, <1>2 DEF InStep
<1>4. ASSUME NEW w \in Workers PROVE QuietWorker(w)'
  BY <1>1, <1>2, <1>3 DEF QuietInv, QuietWorker
<1> QED
  BY <1>1, <1>2, <1>3, <1>4 DEF QuietInv

\* Faults are only added to.
LEMMA FaultsGrow ==
  ASSUME [Next]_vars
  PROVE  faults \subseteq faults'
<1>1. CASE \E w \in Workers : finalize_walkforward_run(w) \/ WorkerStep(w)
  BY <1>1 DEF finalize_walkforward_run, WorkerStep, LoadSession, ensure_opening_ledger, ReadLedger,
     ApplyProjection, record_intent, IntentCreated, CaptureDone, LookAtOrder, TakeOutcome,
     ValidationPending, Sense, record_constraint_decision, Judge, Match, Expire, CheckFill,
     record_fill_and_ledger, Filled, project_v2_order, PendReconcile, DecisionsDone, MatchingDone,
     LedgerDone, ReadBalance, WriteSnapshot, reconcile_session_day, ReportDone, Settle, Settled,
     ReconciliationDone, Finish, Transition, complete_checkpoint, Reads, Fault
<1>2. CASE \E w \in Workers : Crash(w) \/ Error(w)
  BY <1>2 DEF Crash, Error, Fault
<1>3. CASE recover_paper_finalizations \/ DeliverAgain \/ RetryRun \/ UNCHANGED vars
  BY <1>3 DEF recover_paper_finalizations, DeliverAgain, RetryRun, Fault, vars
<1> QED
  BY <1>1, <1>2, <1>3 DEF Next

\* UInv is inductive.
LEMMA UStep ==
  ASSUME OInv, UInv, [Next]_vars
  PROVE  UInv'
<1> SUFFICES ASSUME Undisturbed' PROVE QuietInv'
  BY DEF UInv
<1> QuietInv
  BY FaultsGrow DEF UInv, Undisturbed
<1>1. CASE \E w \in Workers : finalize_walkforward_run(w) \/ WorkerStep(w) \/ Crash(w)
  BY <1>1, DeliveryQuiet, WorkerQuiet, CrashQuiet
<1>2. CASE (\E w \in Workers : Error(w)) \/ DeliverAgain
  BY <1>2 DEF Error, DeliverAgain, Fault, Undisturbed
<1>3. CASE recover_paper_finalizations \/ RetryRun
  BY <1>3, DispatchQuiet
<1>4. CASE UNCHANGED vars
  BY <1>4, SameQuiet
<1> QED
  BY <1>1, <1>2, <1>3, <1>4 DEF Next

\* The read model starts in step.
LEMMA UInit ==
  ASSUME Init
  PROVE  UInv
<1>1. run # "success" /\ \A w \in Workers : pc[w] = "idle"
  BY DEF Init
<1> QED
  BY <1>1 DEF UInv, QuietInv, QuietWorker

\* UInv always holds.
LEMMA UInvariant == Spec => []UInv
<1>1. Init => UInv
  BY UInit
<1>2. OInv /\ UInv /\ [Next]_vars => UInv'
  BY UStep
<1> QED
  BY <1>1, <1>2, OInvariant, PTL DEF Spec

\* Once an undisturbed finalization has succeeded, paper_sessions.cash and
\* paper_positions are the projection of the ledger, and so is the snapshot of
\* the date: neither a lost worker nor a retry leaves a read model behind.
THEOREM ReadModelInStep == Spec => []ReadModelFollowsLedger
<1>1. UInv => ReadModelFollowsLedger
  BY DEF UInv, QuietInv, InStep, Holding, ReadModelFollowsLedger
<1> QED
  BY <1>1, UInvariant, PTL

----------------------------------------------------------------------------
(* The account.                                                            *)

\* The opening and the fills are the only steps that write the ledger.
LEMMA LedgerWriters ==
  ASSUME [Next]_vars
  PROVE  \/ UNCHANGED <<book, opened, posted>>
         \/ \E w \in Workers : ensure_opening_ledger(w) \/ record_fill_and_ledger(w)
<1> USE DEF rowVars, ledgerVars
<1>1. CASE UNCHANGED vars
  BY <1>1 DEF vars
<1>2. CASE recover_paper_finalizations \/ DeliverAgain \/ RetryRun
  BY <1>2 DEF recover_paper_finalizations, DeliverAgain, RetryRun
<1>3. CASE \E w \in Workers : finalize_walkforward_run(w) \/ Crash(w) \/ Error(w)
  BY <1>3 DEF finalize_walkforward_run, Crash, Error
<1>4. CASE \E w \in Workers : WorkerStep(w)
  BY <1>4 DEF WorkerStep, LoadSession, ReadLedger,
       ApplyProjection, record_intent, IntentCreated, CaptureDone, LookAtOrder, TakeOutcome,
       ValidationPending, Sense, record_constraint_decision, Judge, Match, Expire, CheckFill,
       Filled, project_v2_order, PendReconcile, DecisionsDone, MatchingDone,
       LedgerDone, ReadBalance, WriteSnapshot, reconcile_session_day, ReportDone, Settle, Settled,
       ReconciliationDone, Finish, Transition, complete_checkpoint, Reads
<1> QED
  BY <1>1, <1>2, <1>3, <1>4 DEF Next

\* Opening the ledger: nothing has been filled before.
LEMMA OpenSound ==
  ASSUME OInv, AccountSound, NEW w \in Workers, ensure_opening_ledger(w)
  PROVE  AccountSound'
<1>1. UNCHANGED <<book, posted>> /\ opened' = 1 /\ opened \in {0, 1}
  BY DEF ensure_opening_ledger, OInv, RowsType
<1>2. CASE opened = 1
  BY <1>1, <1>2, LedgerKept DEF AccountSound
<1>3. CASE opened = 0
  <2>1. \A o \in Orders : posted[o] = 0
    BY <1>3 DEF OInv, RowsType, RowsOK, RowOK
  <2>2. Sold = 0 /\ Bought = 0
    BY <2>1, EmptyLedger DEF OInv
  <2>3. Sold' = 0 /\ Bought' = 0
    BY <1>1, <2>2 DEF Sold, Bought, Fills, Sells
  <2>4. LedgerCash' = OpeningCash
    BY <1>1, <2>3, MoneyAssumption DEF LedgerCash
  <2> QED
    BY <2>3, <2>4, MoneyAssumption DEF AccountSound
<1> QED
  BY <1>1, <1>2, <1>3

\* A fill the constraints let pass, on a ledger that affords it.
LEMMA FillSound ==
  ASSUME Fee <= Price, OInv, AccountSound, NEW w \in Workers, NEW o \in Orders, o = at[w],
         record_fill_and_ledger(w), Affordable(o), opened = 1
  PROVE  AccountSound'
<1>1. /\ UNCHANGED <<book, opened>> /\ posted[o] \in {0, 1} /\ RowsType /\ RowsType'
      /\ posted' = IF posted[o] > 0 THEN posted ELSE [posted EXCEPT ![o] = @ + 1]
  BY FillStep DEF record_fill_and_ledger, OInv, RowsType, InHand, StepOK
<1>2. CASE posted[o] = 1
  BY <1>1, <1>2, LedgerKept DEF AccountSound
<1>3. CASE posted[o] = 0
  <2>1. posted' = [posted EXCEPT ![o] = 1]
    BY <1>1, <1>3
  <2>2. /\ Sells(o) => Sold' = Sold + 1 /\ Bought' = Bought
        /\ ~ Sells(o) => Sold' = Sold /\ Bought' = Bought + 1
    BY <1>1, <1>3, <2>1, NewFill
  <2>3. /\ Sold \in Int /\ Bought \in Int /\ LedgerCash \in Int
        /\ Price \in Int /\ Fee \in Int /\ OpeningCash \in Int /\ OpeningPosition \in Int
        /\ LedgerCash >= 0 /\ Sold <= OpeningPosition
        /\ 0 <= Price /\ 0 <= Fee
    BY <1>1, LedgerTyped, MoneyAssumption DEF AccountSound
  <2>4. /\ LedgerCash = OpeningCash + Sold * (Price - Fee) - Bought * (Price + Fee)
        /\ LedgerCash' = OpeningCash + Sold' * (Price - Fee) - Bought' * (Price + Fee)
        /\ LedgerPosition = OpeningPosition + Bought - Sold
    BY <1>1, <2>3 DEF LedgerCash, LedgerPosition
  <2>5. CASE Sells(o)
    <3>1. Sold' * (Price - Fee) = Sold * (Price - Fee) + (Price - Fee)
      BY <2>2, <2>3, <2>5
    <3>2. LedgerCash' = LedgerCash + (Price - Fee)
      BY <2>2, <2>3, <2>4, <2>5, <3>1
    <3>3. Sold + 1 <= OpeningPosition
      BY <2>3, <2>4, <2>5 DEF Affordable
    <3> QED
      BY <2>2, <2>3, <2>5, <3>2, <3>3 DEF AccountSound
  <2>6. CASE ~ Sells(o)
    <3>1. Bought' * (Price + Fee) = Bought * (Price + Fee) + (Price + Fee)
      BY <2>2, <2>3, <2>6
    <3>2. LedgerCash' = LedgerCash - (Price + Fee)
      BY <2>2, <2>3, <2>4, <2>6, <3>1
    <3>3. LedgerCash >= Price + Fee
      BY <2>6 DEF Affordable
    <3> QED
      BY <2>2, <2>3, <2>6, <3>2, <3>3 DEF AccountSound
  <2> QED
    BY <2>5, <2>6
<1> QED
  BY <1>1, <1>2, <1>3

\* An undisturbed finalization does not overdraw the account, sell more than it
\* held, or anything bought the same day, though the constraints look at the
\* read model and not at the ledger.  A sale must be worth its fee: the
\* constraints of _lean_intent_rejection do not look at the proceeds of a sale.
THEOREM Solvent ==
  ASSUME Fee <= Price
  PROVE  Spec => []NoOverspend
<1>1. Init => SInv
  BY DEF Init, SInv, AccountSound
<1>2. OInv /\ UInv /\ SInv /\ [Next]_vars => SInv'
  <2> SUFFICES ASSUME OInv, UInv, SInv, [Next]_vars, Undisturbed' PROVE AccountSound'
    BY DEF SInv
  <2>1. CASE UNCHANGED <<book, opened, posted>>
    <3>1. faults \subseteq faults'
      BY FaultsGrow
    <3>2. AccountSound
      BY <3>1 DEF SInv, Undisturbed
    <3> QED
      BY <2>1, <3>2, LedgerKept DEF AccountSound
  <2>2. ASSUME NEW w \in Workers, ensure_opening_ledger(w) PROVE AccountSound'
    <3>1. AccountSound
      BY <2>2 DEF ensure_opening_ledger, SInv, Undisturbed
    <3> QED
      BY <2>2, <3>1, OpenSound
  <2>3. ASSUME NEW w \in Workers, record_fill_and_ledger(w) PROVE AccountSound'
    <3>1. AccountSound /\ QuietInv /\ pc[w] = "fill"
      BY <2>3 DEF record_fill_and_ledger, SInv, UInv, Undisturbed
    <3>2. at[w] \in Orders
      BY <3>1, InHandIsOrder DEF LoopPcs, OrderPcs
    <3>3. verdict[w] = "ok" /\ opened = 1
      BY <3>1 DEF OInv, WorkerOK, ControlOK, AcceptedPcs
    <3>4. Affordable(at[w])
      BY <3>1, <3>2, <3>3 DEF QuietInv, QuietWorker, PermitPcs
    <3> QED
      BY <2>3, <3>1, <3>2, <3>3, <3>4, FillSound
  <2> QED
    BY <2>1, <2>2, <2>3, LedgerWriters
<1>3. SInv => NoOverspend
  BY DEF SInv, NoOverspend
<1> QED
  BY <1>1, <1>2, <1>3, OInvariant, UInvariant, PTL DEF Spec

=============================================================================
