-------------------------- MODULE PaperOrdersProofs --------------------------
(***************************************************************************)
(* What TLAPS proves of PaperOrders, for every number and kind of orders,  *)
(* every account and every set of workers, with any of the faults: the     *)
(* types, the ledger posted once, and what a successful run has behind it. *)
(*                                                                         *)
(* The rows only go forward, so a worker that is overtaken still knows     *)
(* what it knew (Bystander); what is left is each worker's own step.       *)
(***************************************************************************)
EXTENDS PaperOrders, TLAPS, FiniteSetTheorems

\* States an intent does not leave: the outcome is known, its reconciliation has
\* begun, its reconciliation is over.  Each is closed under LEGAL_TRANSITIONS.
FinalStates == {"RECONCILED", "RECONCILIATION_FAILED"}
SettledStates == {"RECONCILIATION_PENDING"} \cup FinalStates
EndStates == {"FILLED", "REJECTED", "EXPIRED"} \cup SettledStates

TrailOK(o) ==
  /\ Reached(o) \cap FinalStates # {} => State(o) \in FinalStates
  /\ Reached(o) \cap SettledStates # {} => State(o) \in SettledStates
  /\ Reached(o) \cap EndStates # {} => State(o) \in EndStates

Results == {"ok"} \cup Reasons
Decisions == [result : Results, portfolio : Views]

Decided(o, r) == decision[o] # Missing /\ decision[o][1].result = r

\* What paper_orders shows of an order, given the result of its constraints.
Shown(o, r) ==
  IF r # "ok" THEN r ELSE IF book[o] = "unmarketable" THEN "expired" ELSE "filled"

RowsType ==
  /\ book \in [Orders -> Kinds]
  /\ run \in {"running", "success", "failed"}
  /\ cursor \in BOOLEAN
  /\ opened \in {0, 1}
  /\ posted \in [Orders -> {0, 1}]
  /\ intents \subseteq Orders
  /\ trail \in [Orders -> Seq(ORDER_STATES)]
  /\ decision \in [Orders -> {Missing} \cup {<<d>> : d \in Decisions}]
  /\ order \in [Orders -> OrderStatuses \cup {None}]
  /\ cash \in Int
  /\ holding \in [quantity : Int, today : BOOLEAN]
  /\ marked \in BOOLEAN
  /\ Len(snap) <= 1 /\ Len(record) <= 1
  /\ DOMAIN points = RUN_PHASES /\ \A p \in RUN_PHASES : Len(points[p]) <= 1
  /\ msgs \in {0, 1}
  /\ faults \subseteq Faults

LocalsType ==
  /\ pc \in [Workers -> WorkerPcs]
  /\ at \in [Workers -> 1 .. N + 1]
  /\ size \in [Workers -> 0 .. N]
  /\ sight \in [Workers -> Views]
  /\ verdict \in [Workers -> {None} \cup Results]
  /\ done \in [Workers -> [Orders -> OrderStatuses \cup {None}]]
  /\ balance \in [Workers -> Views]

\* The rows of one order.
RowOK(o) ==
  /\ TrailOK(o)
  /\ "MATCHING" \in Reached(o) => Decided(o, "ok")
  /\ posted[o] = 1 => opened = 1 /\ book[o] # "unmarketable" /\ "MATCHING" \in Reached(o)
  /\ order[o] # None =>
       /\ \E r \in Results : Decided(o, r) /\ order[o] = Shown(o, r)
       /\ State(o) \in EndStates
       /\ order[o] = "filled" => posted[o] = 1
  /\ State(o) = "RECONCILIATION_FAILED" => record # Missing /\ ~ Passed

DayDone ==
  /\ \A p \in RUN_PHASES : points[p] # Missing
  /\ record # Missing /\ Passed
  /\ \A o \in Orders : State(o) = "RECONCILED" /\ order[o] # None

\* Where a worker goes through the orders one by one.
LoopPcs == OrderPcs \cup {"intent", "created", "settle", "settled"}
\* Behind the checkpoints intent_capture, ..., reconciliation.
After6 == {"finish"}
After5 == {"settle", "settled", "atReconciled"} \cup After6
After4 == {"balance", "snapshot", "readLedger2", "reconcile", "atReported"} \cup After5
After3 == {"atPosted"} \cup After4
After2 == {"atMatched"} \cup After3
After1 == {"atDecided"} \cup After2 \cup OrderPcs
\* The constraints have let the order in hand pass.
AcceptedPcs == {"match", "expire", "fillCheck", "fill", "fillProject", "fillApply", "filled"}
DecidedPcs == {"judge", "project", "pendReconcile"} \cup AcceptedPcs
FillPcs == {"fillCheck", "fill", "fillProject", "fillApply", "filled"}

ControlOK(w) ==
  /\ IF pc[w] \in LoopPcs THEN at[w] <= size[w] ELSE at[w] = 1
  /\ pc[w] \notin {"idle", "load"} => size[w] = N \/ (size[w] = 0 /\ cursor)
  /\ pc[w] \notin {"idle", "load", "open"} => opened = 1
  /\ pc[w] \in {"decide"} \cup DecidedPcs => verdict[w] \in Results
  /\ pc[w] \in AcceptedPcs => verdict[w] = "ok"

PointsOK(w) ==
  /\ pc[w] \in After1 => points["intent_capture"] # Missing
  /\ pc[w] \in After2 => points["constraint_validation"] # Missing
  /\ pc[w] \in After3 => points["matching"] # Missing
  /\ pc[w] \in After4 => points["ledger"] # Missing
  /\ pc[w] \in After5 => points["snapshot_report"] # Missing
  /\ pc[w] \in After6 => points["reconciliation"] # Missing
  /\ pc[w] \in {"atReported"} \cup After5 => record # Missing

\* What a worker knows of the order it has in hand.
HandOK(w, o) ==
  /\ pc[w] \in DecidedPcs => Decided(o, verdict[w])
  /\ pc[w] \in FillPcs => book[o] # "unmarketable"
  /\ pc[w] = "expire" => book[o] = "unmarketable"
  /\ pc[w] = "fill" => "MATCHING" \in Reached(o)
  /\ pc[w] \in {"fillProject", "fillApply", "filled"} => posted[o] = 1
  /\ pc[w] = "project" =>
       State(o) \in EndStates /\ (Shown(o, verdict[w]) = "filled" => posted[o] = 1)
  /\ pc[w] = "pendReconcile" => order[o] # None
  /\ pc[w] = "settled" => State(o) \in SettledStates

\* What a worker knows of the orders it has been through.
BehindOK(w, o) ==
  /\ pc[w] \in OrderPcs /\ o < at[w] => order[o] # None
  /\ pc[w] \in {"atDecided"} \cup After2 /\ o <= size[w] => order[o] # None
  /\ pc[w] \in {"settle", "settled"} /\ o < at[w] => State(o) \in FinalStates
  /\ pc[w] \in {"atReconciled", "finish"} /\ o <= size[w] => State(o) \in FinalStates

WorkerOK(w) ==
  /\ ControlOK(w)
  /\ PointsOK(w)
  /\ \A o \in Orders : (o = at[w] => HandOK(w, o)) /\ BehindOK(w, o)

RowsOK ==
  /\ \A o \in Orders : RowOK(o)
  /\ run = "success" \/ cursor => DayDone

OInv == RowsType /\ LocalsType /\ RowsOK /\ \A w \in Workers : WorkerOK(w)

----------------------------------------------------------------------------
(* Rows go forward, and a worker that does not move keeps what it knows.   *)

OrderForward(o) ==
  /\ order[o] # None => order'[o] = order[o]
  /\ decision[o] # Missing => decision'[o] = decision[o]
  /\ posted[o] = 1 => posted'[o] = 1
  /\ "MATCHING" \in Reached(o) => "MATCHING" \in Reached(o)'
  /\ State(o) \in EndStates => State(o)' \in EndStates
  /\ State(o) \in SettledStates => State(o)' \in SettledStates
  /\ State(o) \in FinalStates => State(o)' \in FinalStates
  /\ State(o) = "RECONCILED" => State(o)' = "RECONCILED"

Forward ==
  /\ book' = book
  /\ opened = 1 => opened' = 1
  /\ cursor => cursor'
  /\ \A p \in RUN_PHASES : points[p] # Missing => points'[p] # Missing
  /\ record # Missing => record' = record
  /\ \A o \in Orders : OrderForward(o)

\* Control state of a worker, as far as WorkerOK reads it.
Still(q) == pc'[q] = pc[q] /\ at'[q] = at[q] /\ size'[q] = size[q] /\ verdict'[q] = verdict[q]

\* Nobody but w moves.
Alone(w) == \A q \in Workers \ {w} : Still(q)

\* A worker that does not move keeps what it knows, whatever the others do.
LEMMA Bystander ==
  ASSUME NEW w \in Workers, WorkerOK(w), Forward, Still(w)
  PROVE  WorkerOK(w)'
<1>1. ControlOK(w)'
  BY DEF WorkerOK, ControlOK, Forward, Still
<1>2. PointsOK(w)'
  BY DEF WorkerOK, PointsOK, Forward, Still, RUN_PHASES
<1>3. ASSUME NEW o \in Orders
      PROVE  (o = at[w] => HandOK(w, o))' /\ BehindOK(w, o)'
  <2>1. OrderForward(o) /\ book' = book /\ BehindOK(w, o) /\ (o = at[w] => HandOK(w, o))
    BY DEF Forward, WorkerOK
  <2>2. (o = at[w] => HandOK(w, o))'
    BY <2>1 DEF OrderForward, HandOK, Still, Decided, Shown
  <2>3. BehindOK(w, o)'
    BY <2>1 DEF OrderForward, BehindOK, Still
  <2> QED
    BY <2>2, <2>3
<1> QED
  BY <1>1, <1>2, <1>3 DEF WorkerOK

\* What the day of a successful run has behind it stays.
LEMMA DayKept ==
  ASSUME DayDone, Forward
  PROVE  DayDone'
BY DEF DayDone, Forward, OrderForward, Passed

\* A step of w as the proof of invariance needs it.
StepOK(w) ==
  /\ RowsType' /\ LocalsType' /\ RowsOK' /\ WorkerOK(w)'
  /\ Forward /\ Alone(w)

\* It is enough to look at the worker that moves.
LEMMA StepSuffices ==
  ASSUME OInv, NEW w \in Workers, StepOK(w)
  PROVE  OInv'
<1>1. ASSUME NEW q \in Workers PROVE WorkerOK(q)'
  <2>1. CASE q = w
    BY <2>1 DEF StepOK
  <2>2. CASE q # w
    BY <2>2, Bystander DEF OInv, StepOK, Alone
  <2> QED
    BY <2>1, <2>2
<1> QED
  BY <1>1 DEF OInv, StepOK

\* No row of the day, the ledger or the orders is written.
LEMMA FrameRows ==
  ASSUME OInv, UNCHANGED rowVars, msgs' \in {0, 1}, faults' \subseteq Faults
  PROVE  RowsType' /\ RowsOK' /\ Forward
<1> USE DEF rowVars, ledgerVars, orderVars, modelVars, dayVars
<1>1. RowsType'
  BY DEF OInv, RowsType
<1>2. \A o \in Orders : State(o)' = State(o) /\ Reached(o)' = Reached(o)
  BY DEF State, Reached
<1>3. Forward
  BY <1>2 DEF Forward, OrderForward
<1>4. ASSUME NEW o \in Orders PROVE RowOK(o)'
  <2>1. RowOK(o)
    BY DEF OInv, RowsOK
  <2> QED
    BY <1>2, <2>1 DEF RowOK, TrailOK, Decided, Shown, Passed
<1>5. RowsOK'
  BY <1>3, <1>4, DayKept DEF OInv, RowsOK
<1> QED
  BY <1>1, <1>3, <1>5

----------------------------------------------------------------------------
(* Control state.                                                          *)

LEMMA LeaveLocal ==
  ASSUME LocalsType, NEW w \in Workers, Leave(w)
  PROVE  LocalsType' /\ Alone(w) /\ WorkerOK(w)'
<1>1. NoView \in Views /\ Undone \in [Orders -> OrderStatuses \cup {None}]
  BY DEF NoView, Views, Undone
<1>2. LocalsType'
  BY <1>1, OrdersAssumption DEF LocalsType, Leave, WorkerPcs
<1>3. Alone(w)
  BY DEF LocalsType, Leave, Alone, Still
<1>4. pc'[w] = "idle" /\ at'[w] = 1
  BY DEF LocalsType, Leave
<1>5. WorkerOK(w)'
  BY <1>4 DEF WorkerOK, ControlOK, PointsOK, HandOK, BehindOK, LoopPcs, OrderPcs, DecidedPcs,
              AcceptedPcs, FillPcs, After1, After2, After3, After4, After5, After6
<1> QED
  BY <1>2, <1>3, <1>5

LEMMA OnLocal ==
  ASSUME LocalsType, NEW w \in Workers, NEW l \in WorkerPcs, On(w, l)
  PROVE  /\ LocalsType' /\ Alone(w)
         /\ pc'[w] = l
         /\ at'[w] = at[w] /\ size'[w] = size[w] /\ verdict'[w] = verdict[w]
BY DEF On, Goto, LocalsType, localVars, Alone, Still

\* Counting through the orders of the day.
LEMMA Counting ==
  ASSUME NEW a \in 1 .. N + 1, NEW b \in 0 .. N, a <= b
  PROVE  /\ 1 \in 1 .. N + 1 /\ a + 1 \in 1 .. N + 1
         /\ a < b => a + 1 <= b
         /\ ~ (a < b) => b = a
BY OrdersAssumption

\* The next intent, or the end of the capture.
LEMMA NextIntentLocal ==
  ASSUME LocalsType, NEW w \in Workers, WorkerOK(w), Forward,
         pc[w] \in {"intent", "created"}, NextIntent(w)
  PROVE  LocalsType' /\ Alone(w) /\ WorkerOK(w)'
<1>1. /\ at[w] \in 1 .. N + 1 /\ size[w] \in 0 .. N /\ at[w] <= size[w]
      /\ size[w] = N \/ (size[w] = 0 /\ cursor)
      /\ opened = 1
  BY DEF LocalsType, WorkerOK, ControlOK, LoopPcs
<1>2. \/ /\ at[w] < size[w] /\ at[w] + 1 <= size[w] /\ at[w] + 1 \in 1 .. N + 1
         /\ at' = [at EXCEPT ![w] = at[w] + 1] /\ pc' = [pc EXCEPT ![w] = "intent"]
      \/ /\ size[w] = at[w] /\ 1 \in 1 .. N + 1
         /\ at' = [at EXCEPT ![w] = 1] /\ pc' = [pc EXCEPT ![w] = "atCreated"]
  BY <1>1, Counting DEF NextIntent, Goto
<1>3. /\ LocalsType' /\ Alone(w)
      /\ size'[w] = size[w]
      /\ \/ pc'[w] = "intent" /\ at'[w] <= size[w]
         \/ pc'[w] = "atCreated" /\ at'[w] = 1
  BY <1>2 DEF LocalsType, NextIntent, Alone, Still, WorkerPcs, CheckpointPcs
<1>4. ControlOK(w)'
  BY <1>1, <1>3 DEF ControlOK, Forward, LoopPcs, OrderPcs, DecidedPcs, AcceptedPcs
<1>5. PointsOK(w)'
  BY <1>3 DEF PointsOK, After1, After2, After3, After4, After5, After6, OrderPcs
<1>6. \A o \in Orders : (o = at[w] => HandOK(w, o))' /\ BehindOK(w, o)'
  BY <1>3 DEF HandOK, BehindOK, DecidedPcs, AcceptedPcs, FillPcs, OrderPcs, After2, After3,
              After4, After5, After6
<1> QED
  BY <1>3, <1>4, <1>5, <1>6 DEF WorkerOK

\* The next order, or the end of the loop: the one in hand has its row.
LEMMA NextOrderLocal ==
  ASSUME LocalsType, NEW w \in Workers, WorkerOK(w), Forward, pc[w] \in OrderPcs,
         NEW outcome \in OrderStatuses, NextOrder(w, outcome),
         \A o \in Orders : o = at[w] => order'[o] # None
  PROVE  LocalsType' /\ Alone(w) /\ WorkerOK(w)'
<1>1. /\ at[w] \in 1 .. N + 1 /\ size[w] \in 0 .. N /\ at[w] <= size[w]
      /\ size[w] = N \/ (size[w] = 0 /\ cursor)
      /\ opened = 1
      /\ points["intent_capture"] # Missing
  BY DEF LocalsType, WorkerOK, ControlOK, PointsOK, LoopPcs, OrderPcs, After1
<1>2. /\ done \in [Workers -> [Orders -> OrderStatuses \cup {None}]]
      /\ done' = [done EXCEPT ![w][at[w]] = outcome]
  BY DEF LocalsType, NextOrder
<1>3. done' \in [Workers -> [Orders -> OrderStatuses \cup {None}]]
  BY <1>2
<1>4. \/ /\ at[w] + 1 <= size[w] /\ at[w] + 1 \in 1 .. N + 1
         /\ at' = [at EXCEPT ![w] = at[w] + 1] /\ pc' = [pc EXCEPT ![w] = "look"]
      \/ /\ size[w] = at[w] /\ 1 \in 1 .. N + 1
         /\ at' = [at EXCEPT ![w] = 1] /\ pc' = [pc EXCEPT ![w] = "atDecided"]
  BY <1>1, Counting DEF NextOrder, Goto
<1>5. /\ LocalsType' /\ Alone(w)
      /\ size'[w] = size[w]
      /\ \/ pc'[w] = "look" /\ at'[w] <= size[w] /\ at'[w] = at[w] + 1
         \/ pc'[w] = "atDecided" /\ at'[w] = 1 /\ size[w] = at[w]
  <2>1. /\ verdict' = [verdict EXCEPT ![w] = None]
        /\ UNCHANGED <<size, sight, balance>>
    BY DEF NextOrder
  <2>2. LocalsType'
    BY <1>3, <1>4, <2>1 DEF LocalsType, WorkerPcs, CheckpointPcs, OrderPcs
  <2>3. Alone(w)
    BY <1>4, <2>1 DEF LocalsType, Alone, Still
  <2> QED
    BY <1>4, <2>1, <2>2, <2>3 DEF LocalsType
<1>6. ControlOK(w)'
  BY <1>1, <1>5 DEF ControlOK, Forward, LoopPcs, OrderPcs, DecidedPcs, AcceptedPcs
<1>7. PointsOK(w)'
  BY <1>1, <1>5 DEF PointsOK, Forward, RUN_PHASES, After1, After2, After3, After4, After5, After6,
                    OrderPcs
<1>8. ASSUME NEW o \in Orders
      PROVE  (o = at[w] => HandOK(w, o))' /\ BehindOK(w, o)'
  <2>1. (o = at[w] => HandOK(w, o))'
    BY <1>5 DEF HandOK, DecidedPcs, AcceptedPcs, FillPcs
  <2>2. o <= at[w] => order'[o] # None
    <3>1. o \in Int /\ at[w] \in Int
      BY <1>1, OrdersAssumption DEF Orders
    <3>2. o < at[w] => order[o] # None
      BY DEF WorkerOK, BehindOK
    <3> QED
      BY <3>1, <3>2 DEF Forward, OrderForward
  <2>3. BehindOK(w, o)'
    <3>1. o \in Int /\ at[w] \in Int
      BY <1>1, OrdersAssumption DEF Orders
    <3> QED
      BY <1>5, <2>2, <3>1 DEF BehindOK, OrderPcs, After2, After3, After4, After5, After6
  <2> QED
    BY <2>1, <2>3
<1> QED
  BY <1>5, <1>6, <1>7, <1>8 DEF WorkerOK

\* The next order to settle: the reconciliation of the one in hand is over.
LEMMA NextSettleLocal ==
  ASSUME LocalsType, NEW w \in Workers, WorkerOK(w), Forward, pc[w] = "settled", NextSettle(w),
         \A o \in Orders : o = at[w] => State(o)' \in FinalStates
  PROVE  LocalsType' /\ Alone(w) /\ WorkerOK(w)'
<1>1. /\ at[w] \in 1 .. N + 1 /\ size[w] \in 0 .. N /\ at[w] <= size[w]
      /\ size[w] = N \/ (size[w] = 0 /\ cursor)
      /\ opened = 1
      /\ PointsOK(w)
  BY DEF LocalsType, WorkerOK, ControlOK, LoopPcs
<1>2. \/ /\ at[w] + 1 <= size[w] /\ at[w] + 1 \in 1 .. N + 1
         /\ at' = [at EXCEPT ![w] = at[w] + 1] /\ pc' = [pc EXCEPT ![w] = "settle"]
      \/ /\ size[w] = at[w] /\ 1 \in 1 .. N + 1
         /\ at' = [at EXCEPT ![w] = 1] /\ pc' = [pc EXCEPT ![w] = "atReconciled"]
  BY <1>1, Counting DEF NextSettle, Goto
<1>3. /\ LocalsType' /\ Alone(w)
      /\ size'[w] = size[w]
      /\ \/ pc'[w] = "settle" /\ at'[w] <= size[w] /\ at'[w] = at[w] + 1
         \/ pc'[w] = "atReconciled" /\ at'[w] = 1 /\ size[w] = at[w]
  BY <1>2 DEF LocalsType, NextSettle, Alone, Still, WorkerPcs, CheckpointPcs
<1>4. ControlOK(w)'
  BY <1>1, <1>3 DEF ControlOK, Forward, LoopPcs, OrderPcs, DecidedPcs, AcceptedPcs
<1>5. PointsOK(w)'
  BY <1>1, <1>3 DEF PointsOK, Forward, RUN_PHASES, After1, After2, After3, After4, After5, After6,
                    OrderPcs
<1>6. ASSUME NEW o \in Orders
      PROVE  (o = at[w] => HandOK(w, o))' /\ BehindOK(w, o)'
  <2>1. (o = at[w] => HandOK(w, o))'
    BY <1>3 DEF HandOK, DecidedPcs, AcceptedPcs, FillPcs
  <2>2. o \in Int /\ at[w] \in Int
    BY <1>1, OrdersAssumption DEF Orders
  <2>3. /\ o < at[w] => State(o) \in FinalStates
        /\ o <= size[w] => order[o] # None
    BY DEF WorkerOK, BehindOK, After2, After3, After4, After5
  <2>4. /\ o <= at[w] => State(o)' \in FinalStates
        /\ o <= size[w] => order'[o] # None
    BY <2>2, <2>3 DEF Forward, OrderForward
  <2>5. BehindOK(w, o)'
    BY <1>3, <2>2, <2>4 DEF BehindOK, OrderPcs
  <2> QED
    BY <2>1, <2>5
<1> QED
  BY <1>3, <1>4, <1>5, <1>6 DEF WorkerOK

----------------------------------------------------------------------------
(* paper_order_transitions and paper_run_checkpoints.                      *)

\* The sets of states an intent does not leave are closed.
LEMMA ClosedStates ==
  /\ \A s \in EndStates : LEGAL_TRANSITIONS[s] \subseteq EndStates
  /\ \A s \in SettledStates : LEGAL_TRANSITIONS[s] \subseteq SettledStates
  /\ \A s \in FinalStates : LEGAL_TRANSITIONS[s] = {}
BY DEF EndStates, SettledStates, FinalStates, LEGAL_TRANSITIONS

\* append_transition when it does not raise.
Appends(o, s) ==
  \/ s \in Reached(o) /\ UNCHANGED trail
  \/ s \in LEGAL_TRANSITIONS[State(o)] /\ trail' = [trail EXCEPT ![o] = Append(@, s)]

\* An appended transition is the latest, and the others are kept.
LEMMA AppendedTrail ==
  ASSUME trail \in [Orders -> Seq(ORDER_STATES)], NEW o \in Orders, NEW s \in ORDER_STATES,
         trail' = [trail EXCEPT ![o] = Append(@, s)]
  PROVE  /\ trail' \in [Orders -> Seq(ORDER_STATES)]
         /\ State(o)' = s /\ Reached(o)' = Reached(o) \cup {s}
         /\ \A q \in Orders \ {o} : State(q)' = State(q) /\ Reached(q)' = Reached(q)
<1>1. trail'[o] = Append(trail[o], s) /\ trail[o] \in Seq(ORDER_STATES)
  OBVIOUS
<1>2. /\ Len(trail[o]) \in Nat /\ Len(trail'[o]) = Len(trail[o]) + 1
      /\ DOMAIN trail'[o] = 1 .. Len(trail[o]) + 1 /\ DOMAIN trail[o] = 1 .. Len(trail[o])
  BY <1>1
<1>3. /\ trail'[o][Len(trail[o]) + 1] = s
      /\ \A k \in 1 .. Len(trail[o]) : trail'[o][k] = trail[o][k]
  BY <1>1
<1>4. State(o)' = s
  BY <1>1, <1>2, <1>3 DEF State
<1>5. Reached(o)' = Reached(o) \cup {s}
  BY <1>2, <1>3 DEF Reached
<1>6. \A q \in Orders \ {o} : trail'[q] = trail[q]
  OBVIOUS
<1>7. \A q \in Orders \ {o} : State(q)' = State(q) /\ Reached(q)' = Reached(q)
  BY <1>6 DEF State, Reached
<1> QED
  BY <1>4, <1>5, <1>7

\* A trail after append_transition: nothing reached is lost, and the states an
\* intent does not leave are not left.
LEMMA AppendForward ==
  ASSUME trail \in [Orders -> Seq(ORDER_STATES)], NEW o \in Orders, NEW s \in ORDER_STATES,
         Appends(o, s), \A q \in Orders : TrailOK(q)
  PROVE  /\ trail' \in [Orders -> Seq(ORDER_STATES)]
         /\ s \in Reached(o)'
         /\ \A q \in Orders : /\ TrailOK(q)'
                              /\ State(q) \in EndStates => State(q)' \in EndStates
                              /\ State(q) \in SettledStates => State(q)' \in SettledStates
                              /\ State(q) \in FinalStates => State(q)' = State(q)
                              /\ State(q)' # State(q) => q = o /\ State(q)' = s
                              /\ Reached(q) \subseteq Reached(q)'
                              /\ \A r \in Reached(q)' : r \in Reached(q) \/ (q = o /\ r = s)
<1>1. CASE s \in Reached(o) /\ UNCHANGED trail
  <2>1. \A q \in Orders : State(q)' = State(q) /\ Reached(q)' = Reached(q)
    BY <1>1 DEF State, Reached
  <2> QED
    BY <1>1, <2>1 DEF TrailOK
<1>2. CASE s \in LEGAL_TRANSITIONS[State(o)] /\ trail' = [trail EXCEPT ![o] = Append(@, s)]
  <2>1. /\ trail' \in [Orders -> Seq(ORDER_STATES)]
        /\ State(o)' = s /\ Reached(o)' = Reached(o) \cup {s}
        /\ \A q \in Orders \ {o} : State(q)' = State(q) /\ Reached(q)' = Reached(q)
    BY <1>2, AppendedTrail
  <2>2. /\ State(o) \in EndStates => s \in EndStates
        /\ State(o) \in SettledStates => s \in SettledStates
        /\ State(o) \notin FinalStates
    BY <1>2, ClosedStates
  <2>3. TrailOK(o)'
    BY <2>1, <2>2 DEF TrailOK
  <2>4. \A q \in Orders \ {o} : TrailOK(q)'
    BY <2>1 DEF TrailOK
  <2> QED
    BY <2>1, <2>2, <2>3, <2>4
<1> QED
  BY <1>1, <1>2 DEF Appends

\* The rows after an appended transition.
LEMMA AppendRows ==
  ASSUME OInv, NEW o \in Orders, NEW s \in ORDER_STATES, Appends(o, s),
         UNCHANGED <<book, run, cursor, ledgerVars, intents, decision, order, modelVars, dayVars,
                     points, msgs, faults>>,
         s = "MATCHING" => Decided(o, "ok"),
         s = "RECONCILIATION_FAILED" => record # Missing /\ ~ Passed
  PROVE  RowsType' /\ RowsOK' /\ Forward /\ s \in Reached(o)' /\ TrailOK(o)'
<1> USE DEF ledgerVars, modelVars, dayVars
<1>1. trail \in [Orders -> Seq(ORDER_STATES)] /\ \A q \in Orders : TrailOK(q)
  BY DEF OInv, RowsType, RowsOK, RowOK
<1>2. /\ trail' \in [Orders -> Seq(ORDER_STATES)]
      /\ s \in Reached(o)'
      /\ \A q \in Orders : /\ TrailOK(q)'
                           /\ State(q) \in EndStates => State(q)' \in EndStates
                           /\ State(q) \in SettledStates => State(q)' \in SettledStates
                           /\ State(q) \in FinalStates => State(q)' = State(q)
                           /\ State(q)' # State(q) => q = o /\ State(q)' = s
                           /\ Reached(q) \subseteq Reached(q)'
                           /\ \A r \in Reached(q)' : r \in Reached(q) \/ (q = o /\ r = s)
  BY <1>1, AppendForward
<1>3. RowsType'
  BY <1>2 DEF OInv, RowsType
<1>4. Forward
  BY <1>2 DEF Forward, OrderForward, FinalStates
<1>5. ASSUME NEW q \in Orders PROVE RowOK(q)'
  <2>1. RowOK(q)
    BY DEF OInv, RowsOK
  <2>2. (State(q) = "RECONCILIATION_FAILED" => record # Missing /\ ~ Passed)'
    BY <1>2, <2>1 DEF RowOK, Passed
  <2>3. ("MATCHING" \in Reached(q) => Decided(q, "ok"))'
    BY <1>2, <2>1 DEF RowOK, Decided
  <2> QED
    BY <1>2, <2>1, <2>2, <2>3 DEF RowOK, Decided, Shown
<1>6. RowsOK'
  BY <1>4, <1>5, DayKept DEF OInv, RowsOK
<1> QED
  BY <1>2, <1>3, <1>4, <1>6

\* complete_checkpoint: the phase has its checkpoint, or the finalization ends.
LEMMA CheckpointRows ==
  ASSUME OInv, NEW w, NEW l, NEW phase \in RUN_PHASES, NEW payload, NEW next,
         complete_checkpoint(w, l, phase, payload, next)
  PROVE  /\ RowsType' /\ RowsOK' /\ Forward
         /\ (On(w, next) /\ points'[phase] # Missing) \/ Leave(w)
<1>1. UNCHANGED <<book, run, cursor, ledgerVars, orderVars, modelVars, dayVars, msgs, faults>>
  BY DEF complete_checkpoint
<1>2. \/ /\ points' = [points EXCEPT ![phase] = <<payload>>]
         /\ On(w, next)
      \/ UNCHANGED points /\ Leave(w)
  BY DEF complete_checkpoint
<1>3. DOMAIN points = RUN_PHASES /\ \A p \in RUN_PHASES : Len(points[p]) <= 1
  BY DEF OInv, RowsType
<1>4. <<payload>> # Missing /\ Len(<<payload>>) <= 1
  BY DEF Missing
<1>5. /\ DOMAIN points' = RUN_PHASES
      /\ \A p \in RUN_PHASES : points'[p] = points[p] \/ points'[p] = <<payload>>
      /\ points' = [points EXCEPT ![phase] = <<payload>>] => points'[phase] = <<payload>>
  BY <1>2, <1>3
<1>6. RowsType'
  <2>1. \A p \in RUN_PHASES : Len(points'[p]) <= 1
    BY <1>3, <1>4, <1>5
  <2> QED
    BY <1>1, <1>5, <2>1 DEF OInv, RowsType, ledgerVars, orderVars, modelVars, dayVars
<1>7. \A o \in Orders : State(o)' = State(o) /\ Reached(o)' = Reached(o)
  BY <1>1 DEF State, Reached, orderVars
<1>8. Forward
  BY <1>1, <1>4, <1>5, <1>7 DEF Forward, OrderForward, ledgerVars, orderVars, dayVars
<1>9. ASSUME NEW o \in Orders PROVE RowOK(o)'
  <2>1. RowOK(o)
    BY DEF OInv, RowsOK
  <2> QED
    BY <1>1, <1>7, <2>1
       DEF RowOK, TrailOK, Decided, Shown, Passed, ledgerVars, orderVars, dayVars
<1>10. RowsOK'
  BY <1>1, <1>8, <1>9, DayKept DEF OInv, RowsOK
<1>11. (On(w, next) /\ points'[phase] # Missing) \/ Leave(w)
  BY <1>2, <1>4, <1>5
<1> QED
  BY <1>6, <1>8, <1>10, <1>11

----------------------------------------------------------------------------
(* The steps of a worker.                                                  *)

\* The order in hand is one of the day.
LEMMA InHandIsOrder ==
  ASSUME OInv, NEW w \in Workers, pc[w] \in LoopPcs
  PROVE  at[w] \in Orders /\ RowOK(at[w]) /\ HandOK(w, at[w])
<1>1. at[w] \in 1 .. N + 1 /\ size[w] \in 0 .. N /\ at[w] <= size[w]
  BY DEF OInv, LocalsType, WorkerOK, ControlOK
<1>2. at[w] \in Orders
  BY <1>1, OrdersAssumption DEF Orders
<1> QED
  BY <1>2 DEF OInv, RowsOK, WorkerOK

\* Within the handling of an order, only what is known of that order changes.
LEMMA OrderMove ==
  ASSUME NEW w \in Workers, WorkerOK(w), Forward, pc[w] \in OrderPcs, pc'[w] \in OrderPcs,
         at'[w] = at[w], size'[w] = size[w],
         pc'[w] \in {"decide"} \cup DecidedPcs => verdict'[w] \in Results,
         pc'[w] \in AcceptedPcs => verdict'[w] = "ok",
         \A o \in Orders : o = at[w] => HandOK(w, o)'
  PROVE  WorkerOK(w)'
<1>1. ControlOK(w)'
  BY DEF WorkerOK, ControlOK, Forward, LoopPcs, OrderPcs
<1>2. PointsOK(w)'
  BY DEF WorkerOK, PointsOK, Forward, RUN_PHASES, OrderPcs, After1, After2, After3, After4, After5,
         After6
<1>3. ASSUME NEW o \in Orders PROVE BehindOK(w, o)'
  BY DEF WorkerOK, BehindOK, Forward, OrderForward, OrderPcs, After2, After3, After4, After5, After6
<1>4. \A o \in Orders : (o = at[w] => HandOK(w, o))'
  OBVIOUS
<1> QED
  BY <1>1, <1>2, <1>3, <1>4 DEF WorkerOK

\* Between the loops: the steps from a checkpoint to the next.
LEMMA PhaseMove ==
  ASSUME NEW w \in Workers, WorkerOK(w), Forward,
         pc[w] \in WorkerPcs \ (LoopPcs \cup {"idle", "load"}),
         pc'[w] \in WorkerPcs \ (LoopPcs \cup {"idle", "load"}),
         at'[w] = at[w], size'[w] = size[w], opened' = 1,
         PointsOK(w)', \A o \in Orders : BehindOK(w, o)'
  PROVE  WorkerOK(w)'
<1>1. ControlOK(w)'
  BY DEF WorkerOK, ControlOK, Forward, LoopPcs, OrderPcs, DecidedPcs, AcceptedPcs
<1>2. \A o \in Orders : (o = at[w] => HandOK(w, o))'
  BY DEF HandOK, LoopPcs, OrderPcs, DecidedPcs, AcceptedPcs, FillPcs
<1> QED
  BY <1>1, <1>2 DEF WorkerOK

\* The ledger is finite: no order has more than one fill.
LEMMA FillsFinite ==
  ASSUME RowsType, NEW b \in BOOLEAN
  PROVE  IsFiniteSet(Fills(b))
<1>1. IsFiniteSet(Orders \X (0 .. 1))
  <2>1. 0 \in Int /\ 1 \in Int /\ N \in Int
    BY OrdersAssumption
  <2>2. IsFiniteSet(1 .. N) /\ IsFiniteSet(0 .. 1)
    BY <2>1, FS_Interval
  <2> QED
    BY <2>2, FS_Product DEF Orders
<1>2. ASSUME NEW x \in Fills(b) PROVE x \in Orders \X (0 .. 1)
  <2>1. PICK o \in Orders : x \in {o} \X (1 .. posted[o])
    BY <1>2 DEF Fills
  <2>2. 1 .. posted[o] \subseteq 0 .. 1
    BY DEF RowsType
  <2> QED
    BY <2>1, <2>2
<1> QED
  BY <1>1, <1>2, FS_Subset

\* What the ledger projects is typed.
LEMMA LedgerTyped ==
  ASSUME RowsType
  PROVE  /\ Sold \in Nat /\ Bought \in Nat
         /\ LedgerCash \in Int /\ LedgerPosition \in Int
         /\ Projection \in Views /\ ReadModel \in Views
<1>1. IsFiniteSet(Fills(TRUE)) /\ IsFiniteSet(Fills(FALSE))
  BY FillsFinite
<1>2. OpeningCash \in Nat /\ OpeningPosition \in Nat /\ Price \in Nat /\ Fee \in Nat
  BY MoneyAssumption
<1>3. Sold \in Nat /\ Bought \in Nat
  BY <1>1, FS_CardinalityType DEF Sold, Bought
<1>4. /\ opened \in Int /\ opened * OpeningCash \in Int /\ opened * OpeningPosition \in Int
      /\ Sold * (Price - Fee) \in Int /\ Bought * (Price + Fee) \in Int
  BY <1>2, <1>3 DEF RowsType
<1>5. LedgerCash \in Int /\ LedgerPosition \in Int
  BY <1>3, <1>4 DEF LedgerCash, LedgerPosition
<1>6. Projection \in Views
  BY <1>5 DEF Projection, Views, Holding
<1>7. ReadModel \in Views
  BY DEF ReadModel, Views, RowsType
<1> QED
  BY <1>3, <1>5, <1>6, <1>7

\* The rows of the orders, the checkpoints and the record are left alone.
LEMMA KeepOrders ==
  ASSUME OInv, UNCHANGED <<book, cursor, posted, trail, decision, order, record, points>>,
         opened' \in {opened, 1}, run' # "success" \/ run' = run
  PROVE  RowsOK' /\ Forward
<1>1. \A o \in Orders : State(o)' = State(o) /\ Reached(o)' = Reached(o)
  BY DEF State, Reached
<1>2. Forward
  BY <1>1 DEF Forward, OrderForward
<1>3. ASSUME NEW o \in Orders PROVE RowOK(o)'
  <2>1. RowOK(o)
    BY DEF OInv, RowsOK
  <2> QED
    BY <1>1, <2>1 DEF RowOK, TrailOK, Decided, Shown, Passed
<1> QED
  BY <1>2, <1>3, DayKept DEF OInv, RowsOK

\* LoadSession: from here on the orders of the day are all of them, or none
\* because the session has moved on.
LEMMA LoadStep ==
  ASSUME OInv, NEW w \in Workers, LoadSession(w)
  PROVE  StepOK(w)
<1> USE DEF ledgerVars, orderVars, modelVars, dayVars
<1>1. UNCHANGED <<book, cursor, ledgerVars, orderVars, modelVars, dayVars, points, msgs>>
  BY DEF LoadSession
<1>2. /\ run' \in {"running", "success", "failed"} /\ faults' \subseteq Faults
      /\ run' = run \/ run' = "failed"
  BY DEF LoadSession, Fault, OInv, RowsType
<1>3. RowsType'
  BY <1>1, <1>2 DEF OInv, RowsType
<1>4. RowsOK' /\ Forward
  BY <1>1, <1>2, KeepOrders
<1>5. CASE Leave(w)
  BY <1>3, <1>4, <1>5, LeaveLocal DEF OInv, StepOK
<1>6. CASE /\ size' = [size EXCEPT ![w] = IF cursor THEN 0 ELSE N]
           /\ Goto(w, "open")
           /\ UNCHANGED <<at, sight, verdict, done, balance>>
  <2>1. LocalsType' /\ Alone(w)
    BY <1>6, OrdersAssumption DEF OInv, LocalsType, Goto, Alone, Still, WorkerPcs
  <2>2. /\ pc'[w] = "open" /\ at'[w] = at[w]
        /\ size'[w] = N \/ (size'[w] = 0 /\ cursor')
    BY <1>1, <1>6 DEF OInv, LocalsType, Goto
  <2>3. at[w] = 1
    BY DEF OInv, WorkerOK, ControlOK, LoadSession, LoopPcs, OrderPcs
  <2>4. WorkerOK(w)'
    BY <2>2, <2>3 DEF WorkerOK, ControlOK, PointsOK, HandOK, BehindOK, LoopPcs, OrderPcs,
       DecidedPcs, AcceptedPcs, FillPcs, After1, After2, After3, After4, After5, After6
  <2> QED
    BY <1>3, <1>4, <2>1, <2>4 DEF StepOK
<1> QED
  BY <1>5, <1>6 DEF LoadSession

\* The opening entry is written once.
LEMMA OpenStep ==
  ASSUME OInv, NEW w \in Workers, ensure_opening_ledger(w)
  PROVE  StepOK(w)
<1> USE DEF orderVars, modelVars, dayVars
<1>1. /\ UNCHANGED <<book, run, cursor, posted, orderVars, modelVars, dayVars, points, msgs, faults>>
      /\ opened' = 1
      /\ On(w, "readLedger") /\ pc[w] = "open"
  BY DEF ensure_opening_ledger, OInv, RowsType
<1>2. RowsType'
  BY <1>1 DEF OInv, RowsType
<1>3. RowsOK' /\ Forward
  BY <1>1, KeepOrders
<1>4. /\ LocalsType' /\ Alone(w)
      /\ pc'[w] = "readLedger" /\ at'[w] = at[w] /\ size'[w] = size[w]
  BY <1>1, OnLocal DEF OInv, WorkerPcs
<1>5. PointsOK(w)' /\ \A o \in Orders : BehindOK(w, o)'
  BY <1>4 DEF PointsOK, BehindOK, OrderPcs, After1, After2, After3, After4, After5, After6
<1>6. WorkerOK(w)'
  BY <1>1, <1>3, <1>4, <1>5, PhaseMove DEF OInv, WorkerPcs, LoopPcs, OrderPcs
<1> QED
  BY <1>2, <1>3, <1>4, <1>6 DEF StepOK

\* The projection of the ledger is read.
LEMMA ReadLedgerStep ==
  ASSUME OInv, NEW w \in Workers, ReadLedger(w)
  PROVE  StepOK(w)
<1>1. /\ UNCHANGED <<rowVars, msgs, faults>> /\ UNCHANGED <<at, size, verdict, done, balance>>
      /\ sight' = [sight EXCEPT ![w] = Projection]
  BY DEF ReadLedger, Reads, Look
<1>2. RowsType' /\ RowsOK' /\ Forward
  BY <1>1, FrameRows DEF OInv, RowsType
<1>3. \/ pc[w] = "readLedger" /\ pc' = [pc EXCEPT ![w] = "apply"]
      \/ pc[w] = "fillProject" /\ pc' = [pc EXCEPT ![w] = "fillApply"]
      \/ pc[w] = "readLedger2" /\ pc' = [pc EXCEPT ![w] = "reconcile"]
  BY DEF ReadLedger, Goto
<1>4. Projection \in Views
  BY LedgerTyped DEF OInv
<1>5. LocalsType' /\ Alone(w)
  BY <1>1, <1>3, <1>4 DEF OInv, LocalsType, Alone, Still, WorkerPcs, OrderPcs
<1>6. /\ at'[w] = at[w] /\ size'[w] = size[w] /\ verdict'[w] = verdict[w]
      /\ \/ pc[w] = "readLedger" /\ pc'[w] = "apply"
         \/ pc[w] = "fillProject" /\ pc'[w] = "fillApply"
         \/ pc[w] = "readLedger2" /\ pc'[w] = "reconcile"
  BY <1>1, <1>3 DEF OInv, LocalsType
<1>7. WorkerOK(w) /\ opened' = opened
  BY <1>1 DEF OInv, rowVars, ledgerVars
<1>8. CASE pc[w] = "fillProject"
  <2>1. pc[w] \in OrderPcs /\ pc'[w] \in OrderPcs /\ pc'[w] = "fillApply"
    BY <1>6, <1>8 DEF OrderPcs
  <2>2. verdict'[w] = "ok"
    BY <1>6, <1>7, <1>8 DEF WorkerOK, ControlOK, AcceptedPcs
  <2>3. ASSUME NEW o \in Orders, o = at[w] PROVE HandOK(w, o)'
    <3>1. HandOK(w, o) /\ OrderForward(o) /\ book' = book
      BY <1>2, <1>7, <2>3 DEF WorkerOK, Forward
    <3> QED
      BY <1>6, <1>8, <2>1, <3>1 DEF HandOK, OrderForward, Decided, DecidedPcs, AcceptedPcs, FillPcs
  <2> QED
    BY <1>2, <1>5, <1>6, <1>7, <2>1, <2>2, <2>3, OrderMove DEF StepOK, Results
<1>9. CASE pc[w] # "fillProject"
  <2>1. PointsOK(w)'
    BY <1>2, <1>6, <1>7, <1>9 DEF WorkerOK, PointsOK, Forward, RUN_PHASES, OrderPcs, After1, After2,
          After3, After4, After5, After6
  <2>2. ASSUME NEW o \in Orders PROVE BehindOK(w, o)'
    BY <1>2, <1>6, <1>7, <1>9 DEF WorkerOK, BehindOK, Forward, OrderForward, OrderPcs, After2,
          After3, After4, After5, After6
  <2>3. opened' = 1
    BY <1>6, <1>7 DEF WorkerOK, ControlOK
  <2> QED
    BY <1>2, <1>5, <1>6, <1>7, <1>9, <2>1, <2>2, <2>3, PhaseMove
       DEF StepOK, WorkerPcs, LoopPcs, OrderPcs
<1> QED
  BY <1>8, <1>9

\* It is written to the read model.
LEMMA ApplyStep ==
  ASSUME OInv, NEW w \in Workers, ApplyProjection(w)
  PROVE  StepOK(w)
<1> USE DEF ledgerVars, orderVars, dayVars
<1>1. /\ UNCHANGED <<book, run, cursor, ledgerVars, orderVars, marked, dayVars, points, msgs, faults>>
      /\ UNCHANGED <<at, size, verdict, done, balance>>
      /\ cash' = sight[w].cash /\ holding' = sight[w].holding
      /\ sight' = [sight EXCEPT ![w] = NoView]
      /\ pc[w] \in {"apply", "fillApply"}
  BY DEF ApplyProjection, Look
<1>2. sight[w] \in Views /\ NoView \in Views
  BY DEF OInv, LocalsType, Views, NoView
<1>3. RowsType'
  BY <1>1, <1>2 DEF OInv, RowsType, Views
<1>4. RowsOK' /\ Forward
  BY <1>1, KeepOrders
<1>5. \/ pc[w] = "fillApply" /\ pc' = [pc EXCEPT ![w] = "filled"]
      \/ pc[w] = "apply" /\ size[w] = 0 /\ pc' = [pc EXCEPT ![w] = "atCreated"]
      \/ pc[w] = "apply" /\ size[w] # 0 /\ pc' = [pc EXCEPT ![w] = "intent"]
  BY DEF ApplyProjection, Goto
<1>6. LocalsType' /\ Alone(w)
  BY <1>1, <1>2, <1>5 DEF OInv, LocalsType, Alone, Still, WorkerPcs, OrderPcs, CheckpointPcs
<1>7. /\ at'[w] = at[w] /\ size'[w] = size[w] /\ verdict'[w] = verdict[w]
      /\ \/ pc[w] = "fillApply" /\ pc'[w] = "filled"
         \/ pc[w] = "apply" /\ size[w] = 0 /\ pc'[w] = "atCreated"
         \/ pc[w] = "apply" /\ size[w] # 0 /\ pc'[w] = "intent"
  BY <1>1, <1>5 DEF OInv, LocalsType
<1>8. WorkerOK(w) /\ opened' = opened /\ size[w] \in 0 .. N
  BY <1>1 DEF OInv, LocalsType
<1>9. CASE pc[w] = "fillApply"
  <2>1. pc[w] \in OrderPcs /\ pc'[w] \in OrderPcs /\ pc'[w] = "filled"
    BY <1>7, <1>9 DEF OrderPcs
  <2>2. verdict'[w] = "ok"
    BY <1>7, <1>8, <1>9 DEF WorkerOK, ControlOK, AcceptedPcs
  <2>3. ASSUME NEW o \in Orders, o = at[w] PROVE HandOK(w, o)'
    <3>1. HandOK(w, o) /\ OrderForward(o) /\ book' = book
      BY <1>4, <1>8, <2>3 DEF WorkerOK, Forward
    <3> QED
      BY <1>7, <1>9, <2>1, <3>1 DEF HandOK, OrderForward, Decided, DecidedPcs, AcceptedPcs, FillPcs
  <2> QED
    BY <1>3, <1>4, <1>6, <1>7, <1>8, <2>1, <2>2, <2>3, OrderMove DEF StepOK, Results
<1>10. CASE pc[w] = "apply"
  <2>1. /\ at[w] = 1 /\ opened = 1
        /\ size[w] = N \/ (size[w] = 0 /\ cursor)
    BY <1>8, <1>10 DEF WorkerOK, ControlOK, LoopPcs, OrderPcs
  <2>2. size[w] # 0 => 1 <= size[w]
    BY <1>8, OrdersAssumption
  <2>3. ControlOK(w)'
    BY <1>1, <1>7, <1>8, <1>10, <2>1, <2>2
       DEF ControlOK, LoopPcs, OrderPcs, DecidedPcs, AcceptedPcs
  <2>4. PointsOK(w)' /\ \A o \in Orders : (o = at[w] => HandOK(w, o))' /\ BehindOK(w, o)'
    BY <1>7, <1>10 DEF PointsOK, HandOK, BehindOK, OrderPcs, DecidedPcs, AcceptedPcs, FillPcs,
          After1, After2, After3, After4, After5, After6
  <2> QED
    BY <1>3, <1>4, <1>6, <2>3, <2>4 DEF StepOK, WorkerOK
<1> QED
  BY <1>1, <1>9, <1>10

\* A finalization that ends without writing: it returns, raises or is lost.
LEMMA LeaveStep ==
  ASSUME OInv, NEW w \in Workers, Leave(w), UNCHANGED rowVars, msgs' \in {0, 1},
         faults' \subseteq Faults
  PROVE  StepOK(w)
BY FrameRows, LeaveLocal DEF OInv, StepOK

\* What a transition changes when it does not raise, and that it ends the
\* finalization when it does.
TransitionRest ==
  UNCHANGED <<book, run, cursor, ledgerVars, intents, decision, order, modelVars, dayVars, points,
              msgs, faults>>

LEMMA RaiseStep ==
  ASSUME OInv, NEW w \in Workers, TransitionRest, UNCHANGED trail, Leave(w)
  PROVE  StepOK(w)
<1>1. UNCHANGED rowVars /\ msgs' \in {0, 1} /\ faults' \subseteq Faults
  BY DEF TransitionRest, rowVars, orderVars, OInv, RowsType
<1> QED
  BY <1>1, LeaveStep

\* record_intent and the first transition of an intent.
LEMMA IntentStep ==
  ASSUME OInv, NEW w \in Workers, record_intent(w)
  PROVE  StepOK(w)
<1> USE DEF ledgerVars, modelVars, dayVars
<1>1. /\ pc[w] = "intent"
      /\ intents' \subseteq intents \cup {at[w]}
      /\ On(w, "created") \/ NextIntent(w)
      /\ UNCHANGED <<book, run, cursor, ledgerVars, trail, decision, order, modelVars, dayVars,
                     points, msgs, faults>>
  BY DEF record_intent, InHand
<1>2. at[w] \in Orders
  BY <1>1, InHandIsOrder DEF LoopPcs
<1>3. RowsType'
  BY <1>1, <1>2 DEF OInv, RowsType
<1>4. RowsOK' /\ Forward
  BY <1>1, KeepOrders
<1>5. CASE NextIntent(w)
  BY <1>1, <1>3, <1>4, <1>5, NextIntentLocal DEF OInv, StepOK
<1>6. CASE On(w, "created")
  <2>1. /\ LocalsType' /\ Alone(w)
        /\ pc'[w] = "created" /\ at'[w] = at[w] /\ size'[w] = size[w]
    BY <1>6, OnLocal DEF OInv, WorkerPcs
  <2>2. ControlOK(w)'
    BY <1>1, <1>4, <2>1 DEF OInv, WorkerOK, ControlOK, Forward, LoopPcs, OrderPcs, DecidedPcs,
          AcceptedPcs
  <2>3. PointsOK(w)' /\ \A o \in Orders : (o = at[w] => HandOK(w, o))' /\ BehindOK(w, o)'
    BY <2>1 DEF PointsOK, HandOK, BehindOK, OrderPcs, DecidedPcs, AcceptedPcs, FillPcs,
          After1, After2, After3, After4, After5, After6
  <2> QED
    BY <1>3, <1>4, <2>1, <2>2, <2>3 DEF StepOK, WorkerOK
<1> QED
  BY <1>1, <1>5, <1>6

LEMMA CreatedStep ==
  ASSUME OInv, NEW w \in Workers, IntentCreated(w)
  PROVE  StepOK(w)
<1>1. pc[w] = "created" /\ TransitionRest
  BY DEF IntentCreated, Transition, TransitionRest
<1>2. \/ Appends(at[w], "INTENT_CREATED") /\ NextIntent(w)
      \/ UNCHANGED trail /\ Leave(w)
  BY DEF IntentCreated, Transition, append_transition, Appends, InHand
<1>3. CASE Appends(at[w], "INTENT_CREATED") /\ NextIntent(w)
  <2>1. at[w] \in Orders /\ "INTENT_CREATED" \in ORDER_STATES
    BY <1>1, InHandIsOrder DEF LoopPcs, ORDER_STATES
  <2>2. RowsType' /\ RowsOK' /\ Forward
    BY <1>1, <1>3, <2>1, AppendRows DEF TransitionRest
  <2> QED
    BY <1>1, <1>3, <2>2, NextIntentLocal DEF OInv, StepOK
<1> QED
  BY <1>1, <1>2, <1>3, RaiseStep

\* The first checkpoint; the orders of the day follow.
LEMMA CaptureStep ==
  ASSUME OInv, NEW w \in Workers, CaptureDone(w)
  PROVE  StepOK(w)
<1> DEFINE l == IF size[w] = 0 THEN "atDecided" ELSE "look"
<1>1. /\ RowsType' /\ RowsOK' /\ Forward
      /\ (On(w, l) /\ points'["intent_capture"] # Missing) \/ Leave(w)
  BY CheckpointRows DEF CaptureDone, RUN_PHASES
<1>2. pc[w] = "atCreated"
  BY DEF CaptureDone, complete_checkpoint
<1>3. CASE Leave(w)
  BY <1>1, <1>3, LeaveLocal DEF OInv, StepOK
<1>4. CASE On(w, l) /\ points'["intent_capture"] # Missing
  <2>1. /\ LocalsType' /\ Alone(w)
        /\ pc'[w] = l /\ at'[w] = at[w] /\ size'[w] = size[w]
    BY <1>4, OnLocal DEF OInv, WorkerPcs, CheckpointPcs, OrderPcs
  <2>2. /\ at[w] = 1 /\ opened = 1 /\ size[w] \in 0 .. N
        /\ size[w] = N \/ (size[w] = 0 /\ cursor)
    BY <1>2 DEF OInv, LocalsType, WorkerOK, ControlOK, LoopPcs, OrderPcs
  <2>3. size[w] # 0 => 1 <= size[w]
    BY <2>2, OrdersAssumption
  <2>4. ControlOK(w)'
    BY <1>1, <2>1, <2>2, <2>3
       DEF ControlOK, Forward, LoopPcs, OrderPcs, DecidedPcs, AcceptedPcs
  <2>5. PointsOK(w)'
    BY <1>4, <2>1 DEF PointsOK, OrderPcs, After1, After2, After3, After4, After5, After6
  <2>6. ASSUME NEW o \in Orders PROVE (o = at[w] => HandOK(w, o))' /\ BehindOK(w, o)'
    <3>1. o \in Int /\ 1 <= o
      BY OrdersAssumption DEF Orders
    <3> QED
      BY <2>1, <2>2, <3>1 DEF HandOK, BehindOK, OrderPcs, DecidedPcs, AcceptedPcs, FillPcs,
            After2, After3, After4, After5, After6
  <2> QED
    BY <1>1, <2>1, <2>4, <2>5, <2>6 DEF StepOK, WorkerOK
<1> QED
  BY <1>1, <1>3, <1>4

\* An order begun earlier is told from a new one, and its outcome taken over.
LEMMA LookStep ==
  ASSUME OInv, NEW w \in Workers, LookAtOrder(w) \/ TakeOutcome(w)
  PROVE  StepOK(w)
<1>1. UNCHANGED rowVars /\ msgs' \in {0, 1} /\ faults' \subseteq Faults
  BY DEF LookAtOrder, TakeOutcome, Reads, OInv, RowsType
<1>2. RowsType' /\ RowsOK' /\ Forward
  BY <1>1, FrameRows
<1>3. WorkerOK(w) /\ pc[w] \in OrderPcs /\ pc[w] \in {"look", "row"}
  BY DEF OInv, LookAtOrder, TakeOutcome, OrderPcs
<1>4. CASE LookAtOrder(w)
  <2>1. PICK l \in {"pend", "row"} : On(w, l)
    BY <1>4 DEF LookAtOrder
  <2>2. /\ LocalsType' /\ Alone(w)
        /\ pc'[w] = l /\ at'[w] = at[w] /\ size'[w] = size[w] /\ pc'[w] \in OrderPcs
    BY <2>1, OnLocal DEF OInv, WorkerPcs, OrderPcs
  <2>3. \A o \in Orders : o = at[w] => HandOK(w, o)'
    BY <2>2 DEF HandOK, DecidedPcs, AcceptedPcs, FillPcs
  <2>4. pc'[w] \notin {"decide"} \cup DecidedPcs /\ pc'[w] \notin AcceptedPcs
    BY <2>2 DEF DecidedPcs, AcceptedPcs
  <2> QED
    BY <1>2, <1>3, <2>2, <2>3, <2>4, OrderMove DEF StepOK
<1>5. CASE TakeOutcome(w)
  <2>1. at[w] \in Orders
    BY <1>3, InHandIsOrder DEF LoopPcs
  <2>2. CASE order[at[w]] # None /\ NextOrder(w, order[at[w]])
    <3>1. order[at[w]] \in OrderStatuses /\ order' = order
      BY <1>1, <2>1, <2>2 DEF OInv, RowsType, rowVars, orderVars
    <3> QED
      BY <1>2, <1>3, <2>2, <3>1, NextOrderLocal DEF OInv, StepOK
  <2> QED
    BY <1>1, <1>5, <2>2, LeaveStep DEF TakeOutcome, InHand
<1> QED
  BY <1>4, <1>5

\* A transition of the order in hand that leads to the next step with it.
LEMMA TransitOrder ==
  ASSUME OInv, NEW w \in Workers, NEW s \in ORDER_STATES \ {"RECONCILIATION_FAILED"},
         NEW l \in OrderPcs, pc[w] \in OrderPcs, TransitionRest, Appends(at[w], s), On(w, l),
         s = "MATCHING" => pc[w] \in AcceptedPcs,
         l \in DecidedPcs => pc[w] \in DecidedPcs,
         l \in AcceptedPcs => verdict[w] = "ok",
         l \notin {"decide", "fill", "fillProject", "fillApply", "filled", "pendReconcile"},
         l = "fillCheck" => book[at[w]] # "unmarketable",
         l = "expire" => book[at[w]] = "unmarketable",
         l = "project" => /\ s \in EndStates
                          /\ Shown(at[w], verdict[w]) = "filled" => posted[at[w]] = 1
  PROVE  StepOK(w)
<1>1. at[w] \in Orders /\ HandOK(w, at[w]) /\ WorkerOK(w)
  BY InHandIsOrder DEF LoopPcs, OInv
<1>2. s = "MATCHING" => Decided(at[w], "ok")
  BY <1>1 DEF HandOK, WorkerOK, ControlOK, DecidedPcs
<1>3. /\ RowsType' /\ RowsOK' /\ Forward
      /\ \A o \in Orders : o = at[w] => s \in Reached(o)' /\ TrailOK(o)'
  BY <1>1, <1>2, AppendRows DEF TransitionRest
<1>4. /\ LocalsType' /\ Alone(w)
      /\ pc'[w] = l /\ at'[w] = at[w] /\ size'[w] = size[w] /\ verdict'[w] = verdict[w]
  BY OnLocal DEF OInv, WorkerPcs
<1>5. ASSUME NEW o \in Orders, o = at[w] PROVE HandOK(w, o)'
  <2>1. /\ HandOK(w, o) /\ book' = book /\ posted' = posted /\ decision' = decision
    BY <1>1, <1>5 DEF TransitionRest, ledgerVars
  <2>2. l \in DecidedPcs => Decided(o, verdict[w])'
    BY <1>4, <2>1 DEF HandOK, Decided
  <2>3. s \in EndStates => State(o)' \in EndStates
    BY <1>3, <1>5 DEF TrailOK
  <2>4. /\ l \in FillPcs => book'[o] # "unmarketable"
        /\ l = "expire" => book'[o] = "unmarketable"
    BY <1>5, <2>1 DEF FillPcs
  <2>5. l = "project" =>
          State(o)' \in EndStates /\ (Shown(o, verdict[w])' = "filled" => posted'[o] = 1)
    BY <1>4, <1>5, <2>1, <2>3 DEF Shown
  <2>6. l # "settled"
    BY DEF OrderPcs
  <2> QED
    BY <1>4, <2>2, <2>4, <2>5, <2>6 DEF HandOK
<1>6. pc'[w] \in {"decide"} \cup DecidedPcs => verdict'[w] \in Results
  BY <1>1, <1>4 DEF WorkerOK, ControlOK
<1>7. WorkerOK(w)'
  BY <1>1, <1>3, <1>4, <1>5, <1>6, OrderMove
<1> QED
  BY <1>3, <1>4, <1>7 DEF StepOK

LEMMA PendStep ==
  ASSUME OInv, NEW w \in Workers, ValidationPending(w)
  PROVE  StepOK(w)
<1>1. pc[w] = "pend" /\ TransitionRest
  BY DEF ValidationPending, Transition, TransitionRest
<1>2. \/ Appends(at[w], "VALIDATION_PENDING") /\ On(w, "sense")
      \/ UNCHANGED trail /\ Leave(w)
  BY DEF ValidationPending, Transition, append_transition, Appends, InHand
<1> QED
  BY <1>1, <1>2, TransitOrder, RaiseStep
     DEF ORDER_STATES, OrderPcs, DecidedPcs, AcceptedPcs

\* _lean_intent_rejection has a result for every order.
LEMMA RejectionTyped ==
  ASSUME NEW o, NEW view
  PROVE  lean_intent_rejection(o, view) \in Results
BY Zenon DEF lean_intent_rejection, Results, Reasons

LEMMA SenseStep ==
  ASSUME OInv, NEW w \in Workers, Sense(w)
  PROVE  StepOK(w)
<1>1. /\ UNCHANGED <<rowVars, msgs, faults>> /\ UNCHANGED <<at, size, done, balance>>
      /\ sight' = [sight EXCEPT ![w] = ReadModel]
      /\ pc[w] = "sense" /\ pc' = [pc EXCEPT ![w] = "decide"]
  BY DEF Sense, Reads, Look, Goto
<1>2. PICK r \in Results : verdict' = [verdict EXCEPT ![w] = r]
  BY RejectionTyped DEF Sense
<1>3. RowsType' /\ RowsOK' /\ Forward
  BY <1>1, FrameRows DEF OInv, RowsType
<1>4. ReadModel \in Views
  BY LedgerTyped DEF OInv
<1>5. LocalsType' /\ Alone(w)
  BY <1>1, <1>2, <1>4 DEF OInv, LocalsType, Alone, Still, WorkerPcs, OrderPcs
<1>6. at'[w] = at[w] /\ size'[w] = size[w] /\ pc'[w] = "decide" /\ verdict'[w] = r
  BY <1>1, <1>2 DEF OInv, LocalsType
<1>7. \A o \in Orders : o = at[w] => HandOK(w, o)'
  BY <1>6 DEF HandOK, DecidedPcs, AcceptedPcs, FillPcs
<1>8. WorkerOK(w)'
  <2>1. pc[w] \in OrderPcs /\ pc'[w] \in OrderPcs /\ pc'[w] \notin AcceptedPcs /\ WorkerOK(w)
    BY <1>1, <1>6 DEF OrderPcs, AcceptedPcs, OInv
  <2> QED
    BY <1>2, <1>3, <1>6, <1>7, <2>1, OrderMove
<1> QED
  BY <1>3, <1>5, <1>8 DEF StepOK

\* record_constraint_decision: a decision that is there is never another one.
LEMMA DecideStep ==
  ASSUME OInv, NEW w \in Workers, record_constraint_decision(w)
  PROVE  StepOK(w)
<1> DEFINE d == [result |-> verdict[w], portfolio |-> sight[w]]
<1>1. /\ pc[w] = "decide"
      /\ UNCHANGED <<book, run, cursor, ledgerVars, intents, trail, order, modelVars, dayVars,
                     points, msgs, faults>>
  BY DEF record_constraint_decision
<1>2. at[w] \in Orders /\ WorkerOK(w) /\ pc[w] \in OrderPcs
  BY <1>1, InHandIsOrder DEF LoopPcs, OrderPcs, OInv
<1>3. CASE UNCHANGED decision /\ Leave(w)
  <2>1. UNCHANGED rowVars /\ msgs' \in {0, 1} /\ faults' \subseteq Faults
    BY <1>1, <1>3 DEF rowVars, orderVars, OInv, RowsType
  <2> QED
    BY <1>3, <2>1, LeaveStep
<1>4. CASE /\ decision[at[w]] \in {Missing, <<d>>}
           /\ decision' = [decision EXCEPT ![at[w]] = <<d>>]
           /\ Goto(w, "judge")
           /\ Look(w, NoView)
           /\ UNCHANGED <<at, size, verdict, done, balance>>
  <2>1. d \in Decisions /\ verdict[w] \in Results
    BY <1>1, <1>2 DEF WorkerOK, ControlOK, OInv, LocalsType, Decisions
  <2>2. /\ decision' \in [Orders -> {Missing} \cup {<<e>> : e \in Decisions}]
        /\ decision'[at[w]] = <<d>>
        /\ \A o \in Orders : decision[o] # Missing => decision'[o] = decision[o]
        /\ \A o \in Orders : decision[o] = Missing /\ o # at[w] => decision'[o] = Missing
    BY <1>2, <1>4, <2>1 DEF OInv, RowsType
  <2>3. RowsType'
    BY <1>1, <2>2 DEF OInv, RowsType, ledgerVars, modelVars, dayVars
  <2>4. \A o \in Orders : State(o)' = State(o) /\ Reached(o)' = Reached(o)
    BY <1>1 DEF State, Reached
  <2>5. Forward
    BY <1>1, <2>2, <2>4 DEF Forward, OrderForward, ledgerVars, dayVars
  <2>6. ASSUME NEW o \in Orders PROVE RowOK(o)'
    <3>1. RowOK(o)
      BY DEF OInv, RowsOK
    <3> QED
      BY <1>1, <2>2, <2>4, <3>1 DEF RowOK, TrailOK, Decided, Shown, Passed, ledgerVars, dayVars
  <2>7. RowsOK'
    BY <1>1, <2>5, <2>6, DayKept DEF OInv, RowsOK
  <2>8. NoView \in Views
    BY DEF NoView, Views
  <2>9. LocalsType' /\ Alone(w)
    BY <1>4, <2>8 DEF Goto, Look, OInv, LocalsType, Alone, Still, WorkerPcs, OrderPcs
  <2>10. pc'[w] = "judge" /\ at'[w] = at[w] /\ size'[w] = size[w] /\ verdict'[w] = verdict[w]
    BY <1>4 DEF Goto, OInv, LocalsType
  <2>11. <<d>> # Missing /\ <<d>>[1].result = verdict[w]
    BY DEF Missing
  <2>12. ASSUME NEW o \in Orders, o = at[w] PROVE HandOK(w, o)'
    <3>1. Decided(o, verdict[w])'
      BY <2>2, <2>10, <2>11, <2>12 DEF Decided
    <3> QED
      BY <2>10, <3>1 DEF HandOK, FillPcs
  <2>13. WorkerOK(w)'
    <3>1. pc'[w] \in OrderPcs /\ pc'[w] \notin AcceptedPcs
      BY <2>10 DEF OrderPcs, AcceptedPcs
    <3> QED
      BY <1>2, <2>1, <2>5, <2>10, <2>12, <3>1, OrderMove
  <2> QED
    BY <2>3, <2>5, <2>7, <2>9, <2>13 DEF StepOK
<1> QED
  BY <1>3, <1>4 DEF record_constraint_decision, InHand

\* The result becomes the order's state: accepted, sent to matching, expired.
LEMMA JudgeStep ==
  ASSUME OInv, NEW w \in Workers, Judge(w)
  PROVE  StepOK(w)
<1>1. pc[w] = "judge" /\ TransitionRest
  BY DEF Judge, Transition, TransitionRest
<1>2. \/ verdict[w] = "ok" /\ Appends(at[w], "ACCEPTED") /\ On(w, "match")
      \/ verdict[w] # "ok" /\ Appends(at[w], "REJECTED") /\ On(w, "project")
      \/ UNCHANGED trail /\ Leave(w)
  BY DEF Judge, Transition, append_transition, Appends, InHand
<1>3. CASE verdict[w] = "ok" /\ Appends(at[w], "ACCEPTED") /\ On(w, "match")
  BY <1>1, <1>3, TransitOrder DEF ORDER_STATES, OrderPcs, DecidedPcs, AcceptedPcs
<1>4. CASE verdict[w] # "ok" /\ Appends(at[w], "REJECTED") /\ On(w, "project")
  <2>1. verdict[w] # "filled"
    BY <1>1 DEF OInv, WorkerOK, ControlOK, DecidedPcs, Results, Reasons
  <2>2. Shown(at[w], verdict[w]) # "filled"
    BY <1>4, <2>1 DEF Shown
  <2> QED
    BY <1>1, <1>4, <2>2, TransitOrder
       DEF ORDER_STATES, OrderPcs, DecidedPcs, AcceptedPcs, EndStates
<1> QED
  BY <1>1, <1>2, <1>3, <1>4, RaiseStep

LEMMA MatchStep ==
  ASSUME OInv, NEW w \in Workers, Match(w)
  PROVE  StepOK(w)
<1>1. pc[w] = "match" /\ TransitionRest
  BY DEF Match, Transition, TransitionRest
<1>2. \/ /\ Appends(at[w], "MATCHING")
         /\ \/ book[at[w]] = "unmarketable" /\ On(w, "expire")
            \/ book[at[w]] # "unmarketable" /\ On(w, "fillCheck")
      \/ UNCHANGED trail /\ Leave(w)
  BY DEF Match, Transition, append_transition, Appends, InHand
<1>3. verdict[w] = "ok"
  BY <1>1 DEF OInv, WorkerOK, ControlOK, AcceptedPcs
<1> QED
  BY <1>1, <1>2, <1>3, TransitOrder, RaiseStep DEF ORDER_STATES, OrderPcs, DecidedPcs, AcceptedPcs

LEMMA ExpireStep ==
  ASSUME OInv, NEW w \in Workers, Expire(w)
  PROVE  StepOK(w)
<1>1. pc[w] = "expire" /\ TransitionRest
  BY DEF Expire, Transition, TransitionRest
<1>2. \/ Appends(at[w], "EXPIRED") /\ On(w, "project")
      \/ UNCHANGED trail /\ Leave(w)
  BY DEF Expire, Transition, append_transition, Appends, InHand
<1>3. verdict[w] = "ok" /\ book[at[w]] = "unmarketable"
  BY <1>1, InHandIsOrder DEF OInv, WorkerOK, ControlOK, HandOK, AcceptedPcs, LoopPcs, OrderPcs
<1>4. Shown(at[w], verdict[w]) # "filled"
  BY <1>3 DEF Shown
<1> QED
  BY <1>1, <1>2, <1>4, TransitOrder, RaiseStep
     DEF ORDER_STATES, OrderPcs, DecidedPcs, AcceptedPcs, EndStates

\* record_fill_and_ledger: the check of the state, then the fill.
LEMMA CheckFillStep ==
  ASSUME OInv, NEW w \in Workers, CheckFill(w)
  PROVE  StepOK(w)
<1>1. /\ pc[w] = "fillCheck" /\ UNCHANGED rowVars /\ msgs' \in {0, 1} /\ faults' \subseteq Faults
      /\ (State(at[w]) = "MATCHING" /\ On(w, "fill")) \/ Leave(w)
  BY DEF CheckFill, Reads, OInv, RowsType, InHand
<1>2. CASE State(at[w]) = "MATCHING" /\ On(w, "fill")
  <2>1. RowsType' /\ RowsOK' /\ Forward
    BY <1>1, FrameRows
  <2>2. /\ at[w] \in Orders /\ HandOK(w, at[w]) /\ WorkerOK(w) /\ pc[w] \in OrderPcs
    BY <1>1, InHandIsOrder DEF OInv, LoopPcs, OrderPcs
  <2>3. "MATCHING" \in Reached(at[w])
    <3>1. trail[at[w]] \in Seq(ORDER_STATES) /\ trail[at[w]] # <<>>
      BY <1>2, <2>2 DEF OInv, RowsType, State, None
    <3>2. Len(trail[at[w]]) \in DOMAIN trail[at[w]]
      BY <3>1
    <3> QED
      BY <1>2, <3>1, <3>2 DEF State, Reached
  <2>4. /\ LocalsType' /\ Alone(w)
        /\ pc'[w] = "fill" /\ at'[w] = at[w] /\ size'[w] = size[w] /\ verdict'[w] = verdict[w]
    BY <1>2, OnLocal DEF OInv, WorkerPcs, OrderPcs
  <2>5. ASSUME NEW o \in Orders, o = at[w] PROVE HandOK(w, o)'
    <3>1. HandOK(w, o) /\ "MATCHING" \in Reached(o) /\ OrderForward(o) /\ book' = book
      BY <2>1, <2>2, <2>3, <2>5 DEF Forward
    <3> QED
      BY <1>1, <2>4, <3>1 DEF HandOK, OrderForward, Decided, DecidedPcs, AcceptedPcs, FillPcs
  <2>6. verdict'[w] = "ok" /\ pc'[w] \in OrderPcs
    BY <1>1, <2>2, <2>4 DEF WorkerOK, ControlOK, AcceptedPcs, OrderPcs
  <2> QED
    BY <2>1, <2>2, <2>4, <2>5, <2>6, OrderMove DEF StepOK, Results
<1> QED
  BY <1>1, <1>2, LeaveStep

LEMMA FillStep ==
  ASSUME OInv, NEW w \in Workers, record_fill_and_ledger(w)
  PROVE  StepOK(w)
<1>1. /\ pc[w] = "fill" /\ On(w, "fillProject")
      /\ posted' = IF posted[at[w]] > 0 THEN posted ELSE [posted EXCEPT ![at[w]] = posted[at[w]] + 1]
      /\ UNCHANGED <<book, run, cursor, opened, orderVars, modelVars, dayVars, points, msgs, faults>>
  BY DEF record_fill_and_ledger, InHand
<1>2. at[w] \in Orders /\ HandOK(w, at[w]) /\ WorkerOK(w) /\ pc[w] \in OrderPcs
  BY <1>1, InHandIsOrder DEF OInv, LoopPcs, OrderPcs
<1>3. /\ posted' \in [Orders -> {0, 1}] /\ posted'[at[w]] = 1
      /\ \A o \in Orders : posted[o] = 1 => posted'[o] = 1
      /\ \A o \in Orders : o # at[w] => posted'[o] = posted[o]
  BY <1>1, <1>2 DEF OInv, RowsType
<1>4. RowsType'
  BY <1>1, <1>3 DEF OInv, RowsType, orderVars, modelVars, dayVars
<1>5. \A o \in Orders : State(o)' = State(o) /\ Reached(o)' = Reached(o)
  BY <1>1 DEF State, Reached, orderVars
<1>6. Forward
  BY <1>1, <1>3, <1>5 DEF Forward, OrderForward, orderVars, dayVars
<1>7. opened = 1 /\ verdict[w] = "ok"
  BY <1>1, <1>2 DEF WorkerOK, ControlOK, AcceptedPcs
<1>8. ASSUME NEW o \in Orders PROVE RowOK(o)'
  <2>1. RowOK(o)
    BY DEF OInv, RowsOK
  <2>2. o = at[w] => book[o] # "unmarketable" /\ "MATCHING" \in Reached(o)
    BY <1>1, <1>2 DEF HandOK, FillPcs
  <2>3. (posted[o] = 1 => opened = 1 /\ book[o] # "unmarketable" /\ "MATCHING" \in Reached(o))'
    BY <1>1, <1>3, <1>5, <1>7, <2>1, <2>2 DEF RowOK
  <2>4. (order[o] = "filled" => posted[o] = 1)'
    BY <1>1, <1>3, <2>1 DEF RowOK, orderVars, None
  <2> QED
    BY <1>1, <1>5, <2>1, <2>3, <2>4 DEF RowOK, TrailOK, Decided, Shown, Passed, orderVars, dayVars
<1>9. RowsOK'
  BY <1>1, <1>6, <1>8, DayKept DEF OInv, RowsOK
<1>10. /\ LocalsType' /\ Alone(w)
       /\ pc'[w] = "fillProject" /\ at'[w] = at[w] /\ size'[w] = size[w] /\ verdict'[w] = verdict[w]
  BY <1>1, OnLocal DEF OInv, WorkerPcs, OrderPcs
<1>11. ASSUME NEW o \in Orders, o = at[w] PROVE HandOK(w, o)'
  <2>1. HandOK(w, o) /\ posted'[o] = 1 /\ book' = book /\ decision' = decision
    BY <1>1, <1>2, <1>3, <1>11 DEF orderVars
  <2> QED
    BY <1>1, <1>10, <2>1 DEF HandOK, Decided, DecidedPcs, AcceptedPcs, FillPcs
<1>12. WorkerOK(w)'
  <2>1. pc'[w] \in OrderPcs /\ verdict'[w] = "ok" /\ verdict'[w] \in Results
    BY <1>7, <1>10 DEF OrderPcs, Results
  <2> QED
    BY <1>2, <1>6, <1>10, <1>11, <2>1, OrderMove
<1> QED
  BY <1>4, <1>6, <1>9, <1>10, <1>12 DEF StepOK

LEMMA FilledStep ==
  ASSUME OInv, NEW w \in Workers, Filled(w)
  PROVE  StepOK(w)
<1>1. pc[w] = "filled" /\ TransitionRest
  BY DEF Filled, Transition, TransitionRest
<1>2. \/ Appends(at[w], "FILLED") /\ On(w, "project")
      \/ UNCHANGED trail /\ Leave(w)
  BY DEF Filled, Transition, append_transition, Appends, InHand
<1>3. posted[at[w]] = 1
  BY <1>1, InHandIsOrder DEF HandOK, LoopPcs, OrderPcs
<1> QED
  BY <1>1, <1>2, <1>3, TransitOrder, RaiseStep
     DEF ORDER_STATES, OrderPcs, DecidedPcs, AcceptedPcs, EndStates

\* The projection of an order shows what its constraints said.
LEMMA ProjectStep ==
  ASSUME OInv, NEW w \in Workers, project_v2_order(w)
  PROVE  StepOK(w)
<1>1. /\ pc[w] = "project"
      /\ order' = IF order[at[w]] = None THEN [order EXCEPT ![at[w]] = Outcome(w)] ELSE order
      /\ \/ Outcome(w) = "filled" /\ On(w, "pendReconcile")
         \/ NextOrder(w, Outcome(w))
      /\ UNCHANGED <<book, run, cursor, ledgerVars, intents, trail, decision, modelVars, dayVars,
                     points, msgs, faults>>
  BY DEF project_v2_order, InHand
<1>2. at[w] \in Orders /\ HandOK(w, at[w]) /\ WorkerOK(w) /\ pc[w] \in OrderPcs
  BY <1>1, InHandIsOrder DEF OInv, LoopPcs, OrderPcs
<1>3. verdict[w] \in Results /\ Decided(at[w], verdict[w])
  BY <1>1, <1>2 DEF WorkerOK, ControlOK, HandOK, DecidedPcs
<1>4. Outcome(w) = Shown(at[w], verdict[w])
  BY Zenon DEF Outcome, Shown, InHand
<1>5. Outcome(w) \in OrderStatuses /\ Outcome(w) # None
  BY <1>3, <1>4 DEF Shown, OrderStatuses, Results, Reasons, None
<1>6. /\ order' \in [Orders -> OrderStatuses \cup {None}] /\ order'[at[w]] # None
      /\ \A o \in Orders : order[o] # None => order'[o] = order[o]
      /\ \A o \in Orders : order'[o] # order[o] => o = at[w] /\ order'[o] = Outcome(w)
  BY <1>1, <1>2, <1>5 DEF OInv, RowsType
<1>7. RowsType'
  BY <1>1, <1>6 DEF OInv, RowsType, ledgerVars, modelVars, dayVars
<1>8. \A o \in Orders : State(o)' = State(o) /\ Reached(o)' = Reached(o)
  BY <1>1 DEF State, Reached
<1>9. Forward
  BY <1>1, <1>6, <1>8 DEF Forward, OrderForward, ledgerVars, dayVars
<1>10. ASSUME NEW o \in Orders PROVE RowOK(o)'
  <2>1. RowOK(o)
    BY DEF OInv, RowsOK
  <2>2. (order[o] # None => /\ \E r \in Results : Decided(o, r) /\ order[o] = Shown(o, r)
                            /\ State(o) \in EndStates
                            /\ order[o] = "filled" => posted[o] = 1)'
    <3>1. CASE order'[o] = order[o]
      BY <1>1, <1>8, <2>1, <3>1 DEF RowOK, Decided, Shown, ledgerVars
    <3>2. CASE o = at[w] /\ order'[o] = Outcome(w)
      <4>1. /\ Decided(o, verdict[w]) /\ order'[o] = Shown(o, verdict[w])
            /\ State(o) \in EndStates
            /\ Shown(o, verdict[w]) = "filled" => posted[o] = 1
        BY <1>1, <1>2, <1>3, <1>4, <3>2 DEF HandOK
      <4> QED
        BY <1>1, <1>3, <1>8, <4>1 DEF Decided, Shown, ledgerVars
    <3> QED
      BY <1>6, <3>1, <3>2
  <2> QED
    BY <1>1, <1>8, <2>1, <2>2 DEF RowOK, TrailOK, Decided, Passed, ledgerVars, dayVars
<1>11. RowsOK'
  BY <1>1, <1>9, <1>10, DayKept DEF OInv, RowsOK
<1>12. CASE Outcome(w) = "filled" /\ On(w, "pendReconcile")
  <2>1. /\ LocalsType' /\ Alone(w)
        /\ pc'[w] = "pendReconcile" /\ at'[w] = at[w] /\ size'[w] = size[w]
        /\ verdict'[w] = verdict[w]
    BY <1>12, OnLocal DEF OInv, WorkerPcs, OrderPcs
  <2>2. ASSUME NEW o \in Orders, o = at[w] PROVE HandOK(w, o)'
    <3>1. Decided(o, verdict[w]) /\ order'[o] # None /\ decision' = decision
      BY <1>1, <1>3, <1>6, <2>2
    <3> QED
      BY <2>1, <3>1 DEF HandOK, Decided, FillPcs
  <2>3. WorkerOK(w)'
    <3>1. pc'[w] \in OrderPcs /\ pc'[w] \notin AcceptedPcs /\ verdict'[w] \in Results
      BY <1>3, <2>1 DEF OrderPcs, AcceptedPcs
    <3> QED
      BY <1>2, <1>9, <2>1, <2>2, <3>1, OrderMove
  <2> QED
    BY <1>7, <1>9, <1>11, <2>1, <2>3 DEF StepOK
<1>13. CASE NextOrder(w, Outcome(w))
  BY <1>2, <1>5, <1>6, <1>7, <1>9, <1>11, <1>13, NextOrderLocal DEF OInv, StepOK
<1> QED
  BY <1>1, <1>12, <1>13

LEMMA PendReconcileStep ==
  ASSUME OInv, NEW w \in Workers, PendReconcile(w)
  PROVE  StepOK(w)
<1>1. pc[w] = "pendReconcile" /\ TransitionRest
  BY DEF PendReconcile, Transition, TransitionRest
<1>2. \/ Appends(at[w], "RECONCILIATION_PENDING") /\ NextOrder(w, "filled")
      \/ UNCHANGED trail /\ Leave(w)
  BY DEF PendReconcile, Transition, append_transition, Appends, InHand
<1>3. at[w] \in Orders /\ HandOK(w, at[w]) /\ WorkerOK(w) /\ pc[w] \in OrderPcs
  BY <1>1, InHandIsOrder DEF OInv, LoopPcs, OrderPcs
<1>4. CASE Appends(at[w], "RECONCILIATION_PENDING") /\ NextOrder(w, "filled")
  <2>1. RowsType' /\ RowsOK' /\ Forward
    BY <1>1, <1>3, <1>4, AppendRows DEF TransitionRest, ORDER_STATES
  <2>2. \A o \in Orders : o = at[w] => order'[o] # None
    BY <1>1, <1>3 DEF HandOK, TransitionRest
  <2> QED
    BY <1>3, <1>4, <2>1, <2>2, NextOrderLocal DEF OInv, StepOK, OrderStatuses
<1> QED
  BY <1>1, <1>2, <1>4, RaiseStep

\* The checkpoints of the constraints, the matching and the ledger.
LEMMA PhaseStep ==
  ASSUME OInv, NEW w \in Workers, DecisionsDone(w) \/ MatchingDone(w) \/ LedgerDone(w)
  PROVE  StepOK(w)
<1>1. PICK l \in {"atDecided", "atMatched", "atPosted"}, phase \in RUN_PHASES, next \in WorkerPcs :
        /\ \E payload : complete_checkpoint(w, l, phase, payload, next)
        /\ <<l, phase, next>> \in {<<"atDecided", "constraint_validation", "atMatched">>,
                                   <<"atMatched", "matching", "atPosted">>,
                                   <<"atPosted", "ledger", "balance">>}
  BY DEF DecisionsDone, MatchingDone, LedgerDone, RUN_PHASES, WorkerPcs, CheckpointPcs
<1>2. /\ RowsType' /\ RowsOK' /\ Forward
      /\ (On(w, next) /\ points'[phase] # Missing) \/ Leave(w)
  BY <1>1, CheckpointRows
<1>3. pc[w] = l /\ WorkerOK(w)
  BY <1>1 DEF complete_checkpoint, OInv
<1>4. CASE Leave(w)
  BY <1>2, <1>4, LeaveLocal DEF OInv, StepOK
<1>5. CASE On(w, next) /\ points'[phase] # Missing
  <2>1. /\ LocalsType' /\ Alone(w)
        /\ pc'[w] = next /\ at'[w] = at[w] /\ size'[w] = size[w]
    BY <1>5, OnLocal DEF OInv
  <2>2. PointsOK(w)'
    BY <1>1, <1>2, <1>3, <1>5, <2>1 DEF WorkerOK, PointsOK, Forward, RUN_PHASES, OrderPcs, After1,
          After2, After3, After4, After5, After6
  <2>3. ASSUME NEW o \in Orders PROVE BehindOK(w, o)'
    BY <1>1, <1>2, <1>3, <2>1 DEF WorkerOK, BehindOK, Forward, OrderForward, OrderPcs, After2,
          After3, After4, After5, After6
  <2>4. opened' = 1
    BY <1>1, <1>2, <1>3 DEF WorkerOK, ControlOK, Forward
  <2>5. WorkerOK(w)'
    BY <1>1, <1>2, <1>3, <2>1, <2>2, <2>3, <2>4, PhaseMove DEF WorkerPcs, CheckpointPcs, LoopPcs,
          OrderPcs
  <2> QED
    BY <1>2, <2>1, <2>5 DEF StepOK
<1> QED
  BY <1>2, <1>4, <1>5

\* The balance is read, and written with the snapshot of the date.
LEMMA BalanceStep ==
  ASSUME OInv, NEW w \in Workers, ReadBalance(w) \/ WriteSnapshot(w)
  PROVE  StepOK(w)
<1>1. /\ UNCHANGED <<book, run, cursor, ledgerVars, orderVars, holding, record, points, msgs, faults>>
      /\ cash' \in {cash, balance[w].cash} /\ marked' \in {marked, TRUE}
      /\ snap' \in {snap, <<balance[w].cash>>}
  BY DEF ReadBalance, WriteSnapshot, Reads, rowVars, modelVars, dayVars
<1>2. balance[w] \in Views /\ ReadModel \in Views
  BY LedgerTyped DEF OInv, LocalsType
<1>3. RowsType'
  <2>1. cash' \in Int /\ marked' \in BOOLEAN
    BY <1>1, <1>2 DEF OInv, RowsType, Views
  <2>2. \A x : Len(<<x>>) <= 1
    OBVIOUS
  <2>3. Len(snap') <= 1
    BY <1>1, <2>2 DEF OInv, RowsType
  <2> QED
    BY <1>1, <2>1, <2>3 DEF OInv, RowsType, ledgerVars, orderVars
<1>4. RowsOK' /\ Forward
  BY <1>1, KeepOrders DEF ledgerVars, orderVars
<1>5. /\ UNCHANGED <<at, size, sight, verdict, done>>
      /\ balance' \in {balance, [balance EXCEPT ![w] = ReadModel]}
      /\ \/ pc[w] = "balance" /\ pc' = [pc EXCEPT ![w] = "snapshot"]
         \/ pc[w] = "snapshot" /\ pc' = [pc EXCEPT ![w] = "readLedger2"]
  BY DEF ReadBalance, WriteSnapshot, On, Goto, localVars
<1>6. LocalsType' /\ Alone(w)
  BY <1>2, <1>5 DEF OInv, LocalsType, Alone, Still, WorkerPcs
<1>7. /\ at'[w] = at[w] /\ size'[w] = size[w] /\ WorkerOK(w)
      /\ \/ pc[w] = "balance" /\ pc'[w] = "snapshot"
         \/ pc[w] = "snapshot" /\ pc'[w] = "readLedger2"
  BY <1>5 DEF OInv, LocalsType
<1>8. PointsOK(w)'
  BY <1>4, <1>7 DEF WorkerOK, PointsOK, Forward, RUN_PHASES, OrderPcs, After1, After2, After3,
        After4, After5, After6
<1>9. ASSUME NEW o \in Orders PROVE BehindOK(w, o)'
  BY <1>4, <1>7 DEF WorkerOK, BehindOK, Forward, OrderForward, OrderPcs, After2, After3, After4,
        After5, After6
<1>10. opened' = 1
  BY <1>4, <1>7 DEF WorkerOK, ControlOK, Forward
<1>11. WorkerOK(w)'
  BY <1>4, <1>7, <1>8, <1>9, <1>10, PhaseMove DEF WorkerPcs, LoopPcs, OrderPcs
<1> QED
  BY <1>3, <1>4, <1>6, <1>11 DEF StepOK

\* The reconciliation of the day is recorded once.
LEMMA ReconcileStep ==
  ASSUME OInv, NEW w \in Workers, reconcile_session_day(w)
  PROVE  StepOK(w)
<1>1. /\ pc[w] = "reconcile"
      /\ UNCHANGED <<book, run, cursor, ledgerVars, orderVars, modelVars, snap, points, msgs, faults>>
  BY DEF reconcile_session_day
<1>2. \/ /\ record' # Missing /\ Len(record') <= 1
         /\ record # Missing => record' = record
         /\ Goto(w, "atReported")
         /\ Look(w, NoView)
         /\ UNCHANGED <<at, size, verdict, done, balance>>
      \/ UNCHANGED record /\ Leave(w)
  <2>1. Len(record) <= 1
    BY DEF OInv, RowsType
  <2>2. \A r : <<r>> # Missing /\ Len(<<r>>) <= 1
    BY DEF Missing
  <2> QED
    BY <2>1, <2>2 DEF reconcile_session_day
<1>3. CASE UNCHANGED record /\ Leave(w)
  <2>1. UNCHANGED rowVars /\ msgs' \in {0, 1} /\ faults' \subseteq Faults
    BY <1>1, <1>3 DEF rowVars, dayVars, OInv, RowsType
  <2> QED
    BY <1>3, <2>1, LeaveStep
<1>4. CASE /\ record' # Missing /\ Len(record') <= 1
           /\ record # Missing => record' = record
           /\ Goto(w, "atReported")
           /\ Look(w, NoView)
           /\ UNCHANGED <<at, size, verdict, done, balance>>
  <2>1. RowsType'
    BY <1>1, <1>4 DEF OInv, RowsType, ledgerVars, orderVars, modelVars
  <2>2. \A o \in Orders : State(o)' = State(o) /\ Reached(o)' = Reached(o)
    BY <1>1 DEF State, Reached, orderVars
  <2>3. Forward
    BY <1>1, <1>4, <2>2 DEF Forward, OrderForward, ledgerVars, orderVars
  <2>4. ASSUME NEW o \in Orders PROVE RowOK(o)'
    <3>1. RowOK(o)
      BY DEF OInv, RowsOK
    <3> QED
      BY <1>1, <1>4, <2>2, <3>1 DEF RowOK, TrailOK, Decided, Shown, Passed, ledgerVars, orderVars
  <2>5. RowsOK'
    BY <1>1, <2>3, <2>4, DayKept DEF OInv, RowsOK
  <2>6. LocalsType' /\ Alone(w)
    <3>1. NoView \in Views
      BY DEF NoView, Views
    <3> QED
      BY <1>4, <3>1 DEF Goto, Look, OInv, LocalsType, Alone, Still, WorkerPcs, CheckpointPcs
  <2>7. pc'[w] = "atReported" /\ at'[w] = at[w] /\ size'[w] = size[w] /\ WorkerOK(w)
    BY <1>4 DEF Goto, OInv, LocalsType
  <2>8. PointsOK(w)'
    BY <1>1, <1>4, <2>3, <2>7 DEF WorkerOK, PointsOK, Forward, RUN_PHASES, OrderPcs, After1, After2,
          After3, After4, After5, After6
  <2>9. ASSUME NEW o \in Orders PROVE BehindOK(w, o)'
    BY <1>1, <2>3, <2>7 DEF WorkerOK, BehindOK, Forward, OrderForward, OrderPcs, After2, After3,
          After4, After5, After6
  <2>10. opened' = 1
    BY <1>1, <2>3, <2>7 DEF WorkerOK, ControlOK, Forward
  <2>11. WorkerOK(w)'
    BY <1>1, <2>3, <2>7, <2>8, <2>9, <2>10, PhaseMove DEF WorkerPcs, CheckpointPcs, LoopPcs, OrderPcs
  <2> QED
    BY <2>1, <2>3, <2>5, <2>6, <2>11 DEF StepOK
<1> QED
  BY <1>2, <1>3, <1>4

\* The report has its checkpoint; the orders of the day are settled next.
LEMMA ReportStep ==
  ASSUME OInv, NEW w \in Workers, ReportDone(w)
  PROVE  StepOK(w)
<1> DEFINE l == IF size[w] = 0 THEN "atReconciled" ELSE "settle"
<1>1. /\ RowsType' /\ RowsOK' /\ Forward
      /\ (On(w, l) /\ points'["snapshot_report"] # Missing) \/ Leave(w)
  BY CheckpointRows DEF ReportDone, RUN_PHASES
<1>2. pc[w] = "atReported" /\ WorkerOK(w)
  BY DEF ReportDone, complete_checkpoint, OInv
<1>3. CASE Leave(w)
  BY <1>1, <1>3, LeaveLocal DEF OInv, StepOK
<1>4. CASE On(w, l) /\ points'["snapshot_report"] # Missing
  <2>1. /\ LocalsType' /\ Alone(w)
        /\ pc'[w] = l /\ at'[w] = at[w] /\ size'[w] = size[w]
    BY <1>4, OnLocal DEF OInv, WorkerPcs, CheckpointPcs
  <2>2. /\ at[w] = 1 /\ opened = 1 /\ size[w] \in 0 .. N
        /\ size[w] = N \/ (size[w] = 0 /\ cursor)
    BY <1>2 DEF OInv, LocalsType, WorkerOK, ControlOK, LoopPcs, OrderPcs
  <2>3. size[w] # 0 => 1 <= size[w]
    BY <2>2, OrdersAssumption
  <2>4. ControlOK(w)'
    BY <1>1, <2>1, <2>2, <2>3
       DEF ControlOK, Forward, LoopPcs, OrderPcs, DecidedPcs, AcceptedPcs
  <2>5. PointsOK(w)'
    BY <1>1, <1>2, <1>4, <2>1 DEF WorkerOK, PointsOK, Forward, RUN_PHASES, OrderPcs, After1, After2,
          After3, After4, After5, After6
  <2>6. ASSUME NEW o \in Orders PROVE (o = at[w] => HandOK(w, o))' /\ BehindOK(w, o)'
    <3>1. o \in Int /\ 1 <= o
      BY OrdersAssumption DEF Orders
    <3>2. o <= size[w] => order'[o] # None
      BY <1>1, <1>2 DEF WorkerOK, BehindOK, Forward, OrderForward, After2, After3, After4
    <3> QED
      BY <2>1, <2>2, <3>1, <3>2 DEF HandOK, BehindOK, OrderPcs, DecidedPcs, AcceptedPcs, FillPcs
  <2> QED
    BY <1>1, <2>1, <2>4, <2>5, <2>6 DEF StepOK, WorkerOK
<1> QED
  BY <1>1, <1>3, <1>4

\* Every order of the day is settled: it has an outcome, so its reconciliation
\* begins or has begun.
LEMMA SettleStep ==
  ASSUME OInv, NEW w \in Workers, Settle(w)
  PROVE  StepOK(w)
<1>1. /\ pc[w] = "settle"
      /\ \/ /\ TransitionRest
            /\ \/ Appends(at[w], "RECONCILIATION_PENDING") /\ On(w, "settled")
               \/ UNCHANGED trail /\ Leave(w)
         \/ /\ State(at[w]) \notin {"FILLED", "REJECTED", "EXPIRED"}
            /\ On(w, "settled") /\ Reads
  BY DEF Settle, Transition, append_transition, Appends, TransitionRest, InHand
<1>2. at[w] \in Orders /\ RowOK(at[w]) /\ WorkerOK(w)
  BY <1>1, InHandIsOrder DEF OInv, LoopPcs
<1>3. order[at[w]] # None
  <2>1. at[w] <= size[w]
    BY <1>1, <1>2 DEF WorkerOK, ControlOK, LoopPcs
  <2> QED
    BY <1>1, <1>2, <2>1 DEF WorkerOK, BehindOK, After2, After3, After4, After5
<1>4. ASSUME On(w, "settled"), RowsType', RowsOK', Forward,
             \A o \in Orders : o = at[w] => State(o)' \in SettledStates
      PROVE  StepOK(w)
  <2>1. /\ LocalsType' /\ Alone(w)
        /\ pc'[w] = "settled" /\ at'[w] = at[w] /\ size'[w] = size[w]
    BY <1>4, OnLocal DEF OInv, WorkerPcs
  <2>2. ControlOK(w)'
    BY <1>1, <1>2, <1>4, <2>1 DEF WorkerOK, ControlOK, Forward, LoopPcs, OrderPcs, DecidedPcs,
          AcceptedPcs
  <2>3. PointsOK(w)'
    BY <1>1, <1>2, <1>4, <2>1 DEF WorkerOK, PointsOK, Forward, RUN_PHASES, OrderPcs, After1, After2,
          After3, After4, After5, After6
  <2>4. ASSUME NEW o \in Orders PROVE (o = at[w] => HandOK(w, o))' /\ BehindOK(w, o)'
    <3>1. (o = at[w] => HandOK(w, o))'
      BY <1>4, <2>1 DEF HandOK, DecidedPcs, AcceptedPcs, FillPcs
    <3>2. BehindOK(w, o)'
      BY <1>1, <1>2, <1>4, <2>1 DEF WorkerOK, BehindOK, Forward, OrderForward, OrderPcs, After2,
            After3, After4, After5
    <3> QED
      BY <3>1, <3>2
  <2> QED
    BY <1>4, <2>1, <2>2, <2>3, <2>4 DEF StepOK, WorkerOK
<1>5. CASE TransitionRest /\ Appends(at[w], "RECONCILIATION_PENDING") /\ On(w, "settled")
  <2>1. /\ RowsType' /\ RowsOK' /\ Forward
        /\ \A o \in Orders : o = at[w] => "RECONCILIATION_PENDING" \in Reached(o)' /\ TrailOK(o)'
    BY <1>2, <1>5, AppendRows DEF TransitionRest, ORDER_STATES
  <2>2. \A o \in Orders : o = at[w] => State(o)' \in SettledStates
    BY <2>1 DEF TrailOK, SettledStates
  <2> QED
    BY <1>4, <1>5, <2>1, <2>2
<1>6. CASE /\ State(at[w]) \notin {"FILLED", "REJECTED", "EXPIRED"}
           /\ On(w, "settled") /\ Reads
  <2>1. RowsType' /\ RowsOK' /\ Forward
    BY <1>6, FrameRows DEF Reads, OInv, RowsType
  <2>2. State(at[w]) \in SettledStates
    BY <1>2, <1>3, <1>6 DEF RowOK, EndStates
  <2>3. \A o \in Orders : o = at[w] => State(o)' \in SettledStates
    BY <2>1, <2>2 DEF Forward, OrderForward
  <2> QED
    BY <1>4, <1>6, <2>1, <2>3
<1> QED
  BY <1>1, <1>5, <1>6, RaiseStep

LEMMA SettledStep ==
  ASSUME OInv, NEW w \in Workers, Settled(w)
  PROVE  StepOK(w)
<1> PICK s : s = IF Passed THEN "RECONCILED" ELSE "RECONCILIATION_FAILED"
  OBVIOUS
<1>1. /\ pc[w] = "settled"
      /\ \/ /\ TransitionRest
            /\ \/ Appends(at[w], s) /\ NextSettle(w)
               \/ UNCHANGED trail /\ Leave(w)
         \/ /\ State(at[w]) # "RECONCILIATION_PENDING"
            /\ NextSettle(w) /\ Reads
  BY DEF Settled, Transition, append_transition, Appends, TransitionRest, InHand
<1>2. at[w] \in Orders /\ RowOK(at[w]) /\ HandOK(w, at[w]) /\ WorkerOK(w) /\ LocalsType
  BY <1>1, InHandIsOrder DEF OInv, LoopPcs
<1>3. record # Missing
  BY <1>1, <1>2 DEF WorkerOK, PointsOK, After5
<1>4. /\ s \in ORDER_STATES /\ s \in FinalStates /\ s # "MATCHING"
      /\ s = "RECONCILIATION_FAILED" => record # Missing /\ ~ Passed
  BY <1>3 DEF ORDER_STATES, FinalStates
<1>5. CASE TransitionRest /\ Appends(at[w], s) /\ NextSettle(w)
  <2>1. /\ RowsType' /\ RowsOK' /\ Forward
        /\ \A o \in Orders : o = at[w] => s \in Reached(o)' /\ TrailOK(o)'
    BY <1>2, <1>4, <1>5, AppendRows DEF TransitionRest
  <2>2. \A o \in Orders : o = at[w] => State(o)' \in FinalStates
    BY <1>4, <2>1 DEF TrailOK
  <2> QED
    BY <1>1, <1>2, <1>5, <2>1, <2>2, NextSettleLocal DEF StepOK
<1>6. CASE State(at[w]) # "RECONCILIATION_PENDING" /\ NextSettle(w) /\ Reads
  <2>1. RowsType' /\ RowsOK' /\ Forward
    BY <1>6, FrameRows DEF Reads, OInv, RowsType
  <2>2. State(at[w]) \in FinalStates
    BY <1>1, <1>2, <1>6 DEF HandOK, SettledStates
  <2>3. \A o \in Orders : o = at[w] => State(o)' \in FinalStates
    BY <2>1, <2>2 DEF Forward, OrderForward
  <2> QED
    BY <1>1, <1>2, <1>6, <2>1, <2>3, NextSettleLocal DEF StepOK
<1> QED
  BY <1>1, <1>5, <1>6, RaiseStep

LEMMA LastCheckpointStep ==
  ASSUME OInv, NEW w \in Workers, ReconciliationDone(w)
  PROVE  StepOK(w)
<1>1. /\ RowsType' /\ RowsOK' /\ Forward
      /\ (On(w, "finish") /\ points'["reconciliation"] # Missing) \/ Leave(w)
  BY CheckpointRows DEF ReconciliationDone, RUN_PHASES
<1>2. pc[w] = "atReconciled" /\ WorkerOK(w)
  BY DEF ReconciliationDone, complete_checkpoint, OInv
<1>3. CASE Leave(w)
  BY <1>1, <1>3, LeaveLocal DEF OInv, StepOK
<1>4. CASE On(w, "finish") /\ points'["reconciliation"] # Missing
  <2>1. /\ LocalsType' /\ Alone(w)
        /\ pc'[w] = "finish" /\ at'[w] = at[w] /\ size'[w] = size[w]
    BY <1>4, OnLocal DEF OInv, WorkerPcs
  <2>2. PointsOK(w)'
    BY <1>1, <1>2, <1>4, <2>1 DEF WorkerOK, PointsOK, Forward, RUN_PHASES, OrderPcs, After1,
          After2, After3, After4, After5, After6
  <2>3. ASSUME NEW o \in Orders PROVE BehindOK(w, o)'
    BY <1>1, <1>2, <2>1 DEF WorkerOK, BehindOK, Forward, OrderForward, OrderPcs, After2,
          After3, After4, After5, After6
  <2>4. opened' = 1
    BY <1>1, <1>2 DEF WorkerOK, ControlOK, Forward
  <2>5. WorkerOK(w)'
    BY <1>1, <1>2, <2>1, <2>2, <2>3, <2>4, PhaseMove DEF WorkerPcs, CheckpointPcs, LoopPcs,
          OrderPcs
  <2> QED
    BY <1>1, <2>1, <2>5 DEF StepOK
<1> QED
  BY <1>1, <1>3, <1>4

\* Success is declared with the day done.
LEMMA FinishStep ==
  ASSUME OInv, NEW w \in Workers, Finish(w)
  PROVE  StepOK(w)
<1>1. /\ pc[w] = "finish" /\ Leave(w)
      /\ UNCHANGED <<book, ledgerVars, orderVars, holding, marked, dayVars, points, msgs, faults>>
      /\ \/ Passed /\ run' = "success" /\ cursor' = TRUE /\ cash' = balance[w].cash
         \/ run' = "failed" /\ UNCHANGED <<cursor, cash>>
  BY DEF Finish
<1>2. WorkerOK(w) /\ balance[w].cash \in Int
  BY DEF OInv, LocalsType, Views
<1>3. RowsType'
  BY <1>1, <1>2 DEF OInv, RowsType, ledgerVars, orderVars, dayVars
<1>4. \A o \in Orders : State(o)' = State(o) /\ Reached(o)' = Reached(o)
  BY <1>1 DEF State, Reached, orderVars
<1>5. Forward
  BY <1>1, <1>4 DEF Forward, OrderForward, ledgerVars, orderVars, dayVars
<1>6. ASSUME NEW o \in Orders PROVE RowOK(o)'
  <2>1. RowOK(o)
    BY DEF OInv, RowsOK
  <2> QED
    BY <1>1, <1>4, <2>1 DEF RowOK, TrailOK, Decided, Shown, Passed, ledgerVars, orderVars, dayVars
<1>7. Passed => DayDone
  <2>1. CASE size[w] = N /\ Passed
    <3>1. \A p \in RUN_PHASES : points[p] # Missing
      BY <1>1, <1>2 DEF WorkerOK, PointsOK, RUN_PHASES, After1, After2, After3, After4, After5,
            After6
    <3>2. record # Missing
      BY <1>1, <1>2 DEF WorkerOK, PointsOK, After5, After6
    <3>3. ASSUME NEW o \in Orders PROVE State(o) = "RECONCILED" /\ order[o] # None
      <4>1. o <= size[w]
        BY <2>1, OrdersAssumption DEF Orders
      <4>2. State(o) \in FinalStates /\ order[o] # None
        BY <1>1, <1>2, <4>1 DEF WorkerOK, BehindOK, After2, After3, After4, After5, After6
      <4>3. State(o) # "RECONCILIATION_FAILED"
        BY <2>1 DEF OInv, RowsOK, RowOK
      <4> QED
        BY <4>2, <4>3 DEF FinalStates
    <3> QED
      BY <2>1, <3>1, <3>2, <3>3 DEF DayDone
  <2>2. CASE cursor
    BY <2>2 DEF OInv, RowsOK
  <2> QED
    BY <1>1, <1>2, <2>1, <2>2 DEF WorkerOK, ControlOK
<1>8. RowsOK'
  BY <1>1, <1>5, <1>6, <1>7, DayKept DEF OInv, RowsOK
<1> QED
  BY <1>1, <1>3, <1>5, <1>8, LeaveLocal DEF OInv, StepOK

----------------------------------------------------------------------------
(* The whole system.                                                       *)

\* Every step of a worker keeps OInv.
LEMMA WorkerStepOK ==
  ASSUME OInv, NEW w \in Workers, WorkerStep(w)
  PROVE  StepOK(w)
BY LoadStep, OpenStep, ReadLedgerStep, ApplyStep, IntentStep, CreatedStep, CaptureStep, LookStep,
   PendStep, SenseStep, DecideStep, JudgeStep, MatchStep, ExpireStep, CheckFillStep, FillStep,
   FilledStep, ProjectStep, PendReconcileStep, PhaseStep, BalanceStep, ReconcileStep, ReportStep,
   SettleStep, SettledStep, LastCheckpointStep, FinishStep
   DEF WorkerStep

\* A delivery starts a worker, or finds the run successful and starts nothing.
LEMMA DeliveryStep ==
  ASSUME OInv, NEW w \in Workers, finalize_walkforward_run(w)
  PROVE  StepOK(w)
<1>1. /\ pc[w] = "idle" /\ UNCHANGED <<rowVars, localVars, faults>> /\ msgs' = 0
      /\ \E l \in {"idle", "load"} : pc' = [pc EXCEPT ![w] = l]
  BY DEF finalize_walkforward_run, Goto
<1>2. RowsType' /\ RowsOK' /\ Forward
  BY <1>1, FrameRows DEF OInv, RowsType
<1>3. LocalsType' /\ Alone(w)
  BY <1>1 DEF OInv, LocalsType, localVars, Alone, Still, WorkerPcs
<1>4. pc'[w] \in {"idle", "load"} /\ at'[w] = 1
  BY <1>1 DEF OInv, LocalsType, localVars, WorkerOK, ControlOK, LoopPcs, OrderPcs
<1>5. WorkerOK(w)'
  BY <1>4 DEF WorkerOK, ControlOK, PointsOK, HandOK, BehindOK, LoopPcs, OrderPcs, DecidedPcs,
              AcceptedPcs, FillPcs, After1, After2, After3, After4, After5, After6
<1> QED
  BY <1>2, <1>3, <1>5 DEF StepOK

\* A lost worker, and one whose finalization raises.
LEMMA LossStep ==
  ASSUME OInv, NEW w \in Workers, Crash(w) \/ Error(w)
  PROVE  StepOK(w)
<1>1. UNCHANGED rowVars /\ msgs' \in {0, 1} /\ faults' \subseteq Faults /\ Leave(w)
  BY DEF Crash, Error, Fault, OInv, RowsType
<1> QED
  BY <1>1, LeaveStep

\* The dispatchers: no worker moves.
LEMMA DispatchStep ==
  ASSUME OInv, recover_paper_finalizations \/ DeliverAgain \/ RetryRun
  PROVE  OInv'
<1>1. /\ UNCHANGED <<book, cursor, ledgerVars, orderVars, modelVars, dayVars, points, pc, localVars>>
      /\ msgs' = 1 /\ faults' \subseteq Faults /\ run' \in {run, "running"}
  BY DEF recover_paper_finalizations, DeliverAgain, RetryRun, Fault, rowVars, OInv, RowsType
<1>2. RowsType'
  BY <1>1 DEF OInv, RowsType, ledgerVars, orderVars, modelVars, dayVars
<1>3. RowsOK' /\ Forward
  BY <1>1, KeepOrders DEF ledgerVars, orderVars, dayVars
<1>4. LocalsType'
  BY <1>1 DEF OInv, LocalsType, localVars
<1>5. \A w \in Workers : WorkerOK(w)'
  BY <1>1, <1>3, Bystander DEF OInv, Still, localVars
<1> QED
  BY <1>2, <1>3, <1>4, <1>5 DEF OInv

\* At first there is no order.
LEMMA OInit ==
  ASSUME Init
  PROVE  OInv
<1>1. RowsType
  <2>1. /\ trail \in [Orders -> Seq(ORDER_STATES)]
        /\ decision \in [Orders -> {Missing} \cup {<<d>> : d \in Decisions}]
        /\ order \in [Orders -> OrderStatuses \cup {None}]
    BY DEF Init
  <2>2. cash \in Int /\ holding \in [quantity : Int, today : BOOLEAN]
    BY MoneyAssumption DEF Init
  <2>3. Len(Missing) <= 1
    BY DEF Missing
  <2>4. posted \in [Orders -> {0, 1}] /\ intents \subseteq Orders
    BY DEF Init
  <2> QED
    BY <2>1, <2>2, <2>3, <2>4 DEF Init, RowsType
<1>2. LocalsType
  <2>1. NoView \in Views /\ Undone \in [Orders -> OrderStatuses \cup {None}]
    BY DEF NoView, Views, Undone
  <2> QED
    BY <2>1, OrdersAssumption DEF Init, LocalsType, WorkerPcs
<1>3. ASSUME NEW o \in Orders PROVE RowOK(o)
  <2>1. State(o) = None /\ Reached(o) = {} /\ posted[o] = 0 /\ order[o] = None
    BY DEF Init, State, Reached
  <2> QED
    BY <2>1 DEF RowOK, TrailOK, None
<1>4. RowsOK
  BY <1>3 DEF Init, RowsOK
<1>5. ASSUME NEW w \in Workers PROVE WorkerOK(w)
  <2>1. pc[w] = "idle" /\ at[w] = 1
    BY DEF Init
  <2> QED
    BY <2>1 DEF WorkerOK, ControlOK, PointsOK, HandOK, BehindOK, LoopPcs, OrderPcs, DecidedPcs,
                AcceptedPcs, FillPcs, After1, After2, After3, After4, After5, After6
<1> QED
  BY <1>1, <1>2, <1>4, <1>5 DEF OInv

\* OInv is inductive.
LEMMA OStep ==
  ASSUME OInv, [Next]_vars
  PROVE  OInv'
<1>1. CASE \E w \in Workers : finalize_walkforward_run(w) \/ WorkerStep(w) \/ Crash(w) \/ Error(w)
  BY <1>1, DeliveryStep, WorkerStepOK, LossStep, StepSuffices
<1>2. CASE recover_paper_finalizations \/ DeliverAgain \/ RetryRun
  BY <1>2, DispatchStep
<1>3. CASE UNCHANGED vars
  <2>1. RowsType' /\ RowsOK' /\ Forward
    BY <1>3, FrameRows DEF vars, OInv, RowsType
  <2>2. LocalsType'
    BY <1>3 DEF vars, localVars, OInv, LocalsType
  <2>3. \A w \in Workers : WorkerOK(w)'
    BY <1>3, <2>1, Bystander DEF OInv, Still, vars, localVars
  <2> QED
    BY <2>1, <2>2, <2>3 DEF OInv
<1> QED
  BY <1>1, <1>2, <1>3 DEF Next

\* OInv always holds.
LEMMA OInvariant == Spec => []OInv
<1>1. Init => OInv
  BY OInit
<1>2. OInv /\ [Next]_vars => OInv'
  BY OStep
<1> QED
  BY <1>1, <1>2, PTL DEF Spec

\* The rows and the workers stay within their types, however the finalizations
\* interleave and fail; in particular the projected cash and position are numbers.
THEOREM OrderTypes == Spec => []TypeOK
<1>1. OInv => TypeOK
  <2> SUFFICES ASSUME OInv PROVE TypeOK
    OBVIOUS
  <2> USE DEF OInv
  <2>1. ReadModel \in Views
    BY LedgerTyped
  <2>2. \A o \in Orders : Len(decision[o]) <= 1
    <3>1. ASSUME NEW o \in Orders PROVE Len(decision[o]) <= 1
      <4>1. CASE decision[o] = Missing
        BY <4>1 DEF Missing
      <4>2. CASE \E d \in Decisions : decision[o] = <<d>>
        <5>1. PICK d \in Decisions : decision[o] = <<d>>
          BY <4>2
        <5>2. Len(<<d>>) = 1
          OBVIOUS
        <5> QED
          BY <5>1, <5>2
      <4> QED
        BY <4>1, <4>2 DEF RowsType
    <3> QED
      BY <3>1
  <2>3. opened \in Nat /\ posted \in [Orders -> Nat]
    BY DEF RowsType
  <2>4. verdict \in [Workers -> {None, "ok"} \cup Reasons]
    BY DEF LocalsType, Results
  <2> QED
    BY <2>1, <2>2, <2>3, <2>4 DEF TypeOK, RowsType, LocalsType
<1> QED
  BY <1>1, OInvariant, PTL

\* However often a day is finalized, by whom and with which crashes, the ledger
\* has one opening and at most one fill of an order, and only of an order that
\* its constraints let pass and that was sent to matching (record_fill_and_ledger).
THEOREM FillsOnce == Spec => []LedgerOnce
<1>1. OInv => LedgerOnce
  <2> SUFFICES ASSUME OInv PROVE LedgerOnce
    OBVIOUS
  <2>1. opened <= 1
    BY DEF OInv, RowsType
  <2>2. ASSUME NEW o \in Orders, posted[o] > 0
        PROVE  /\ posted[o] = 1
               /\ decision[o] # Missing /\ decision[o][1].result = "ok"
               /\ "MATCHING" \in Reached(o)
    <3>1. posted[o] = 1
      BY <2>2 DEF OInv, RowsType
    <3> QED
      BY <3>1 DEF OInv, RowsOK, RowOK, Decided
  <2> QED
    BY <2>1, <2>2 DEF LedgerOnce
<1> QED
  BY <1>1, OInvariant, PTL

\* A run is successful only with all six checkpoints, a passed reconciliation and
\* every order of the day reconciled, with a fill exactly if paper_orders says so:
\* no interleaving of finalizations declares success early (finalize_walkforward_run).
THEOREM SuccessReconciled == Spec => []SuccessIsReconciled
<1>1. OInv => SuccessIsReconciled
  <2> SUFFICES ASSUME OInv, run = "success" PROVE SuccessIsReconciled
    BY DEF SuccessIsReconciled
  <2>1. DayDone
    BY DEF OInv, RowsOK
  <2>2. ASSUME NEW o \in Orders PROVE order[o] = "filled" <=> posted[o] = 1
    <3>1. RowOK(o) /\ order[o] # None
      BY <2>1 DEF OInv, RowsOK, DayDone
    <3>2. posted[o] = 1 => order[o] = "filled"
      BY <3>1 DEF RowOK, Decided, Shown
    <3> QED
      BY <3>1, <3>2 DEF RowOK
  <2> QED
    BY <2>1, <2>2 DEF SuccessIsReconciled, DayDone
<1> QED
  BY <1>1, OInvariant, PTL

=============================================================================
