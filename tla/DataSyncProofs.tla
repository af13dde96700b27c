--------------------------- MODULE DataSyncProofs ---------------------------
(***************************************************************************)
(* Theorems about DataSync, for every number of units, workers, tasks and  *)
(* faults.                                                                 *)
(*                                                                         *)
(* The canonical store only grows, so what one worker has written stays    *)
(* written whatever the others do.  The argument is therefore about the    *)
(* units a worker still has in hand: by date, units are buffered in order, *)
(* and every unit is written, buffered, still to fetch, or the one whose   *)
(* fetch has failed.                                                       *)
(***************************************************************************)
EXTENDS DataSync, FiniteSetTheorems, WellFoundedInduction, TLAPS

(***************************************************************************)
(* The inductive invariant.                                                *)
(***************************************************************************)
\* Until it has planned its units a worker has none in hand; a unit that has
\* failed is dealt with before the next one is fetched; a batch that is being
\* written is not empty, and once it is written it is in the store.
HandOK(w) ==
  /\ pc[w] \in {"idle", "markTask", "claim", "prepare", "plan"} => loc[w].buf = {}
  /\ pc[w] \in {"idle", "markTask", "claim", "prepare", "plan", "activity", "fetch"} => loc[w].bad = 0
  /\ pc[w] \in {"write", "meta", "progress"} => loc[w].buf # {}
  /\ pc[w] \in {"meta", "progress"} => loc[w].buf \subseteq data
  /\ pc[w] = "activity" => mode # "date"

\* By date nothing below a buffered unit is missing, and before a failure no
\* unit is lost sight of.
LoadingPcs == {"fetch", "write", "meta", "progress"}
InOrder(w) ==
  mode = "date" /\ pc[w] \in LoadingPcs =>
    /\ \A b \in loc[w].buf : \A u \in 1 .. b : u \in data \cup loc[w].buf
    /\ loc[w].bad = 0 => \A u \in Units : u \in loc[w].todo \cup loc[w].buf \cup data

\* The outcome of a run when it is written: one of four.
Outcomes == {"cancelled", "failed", "partial", "success"}
OutcomeOK(w) == pc[w] = "finish" => loc[w].out \in Outcomes

\* Task ids in use are those created; the API binds and publishes the last one.
\* The task that recovery takes over is the one the run was bound to.
BoundOK ==
  /\ api \in {"bind", "publish", "queued", "fail"} => tasks # 0
  /\ rec \in {"queue", "mark"} => rtask # 0

WorkerOK(w) == HandOK(w) /\ InOrder(w) /\ OutcomeOK(w)

\* Every committed work row and, by date, every unit up to the watermark is in
\* the store.
DInv ==
  /\ TypeOK
  /\ BoundOK
  /\ \A w \in Workers : WorkerOK(w)
  /\ EvidenceIsBacked

(***************************************************************************)
(* What makes a run ready, when a run that was cancelled is never resumed. *)
(***************************************************************************)
\* Task ids that somebody may have read: all but the one that is not bound yet.
Known == IF api = "bind" THEN tasks - 1 ELSE tasks

\* The run was cancelled or given to another task: w's result will not count.
Halted(w) == loc[w].task # run.task \/ run.cancel

KnownOK ==
  /\ run.task <= Known
  /\ rtask <= Known
  /\ \A t \in TaskIds : msgs[t] > 0 => t <= Known
  /\ \A w \in Workers : InSync(w) => loc[w].task \in 1 .. Known
  /\ api = "resume" => tasks < MaxTasks

CancelOK ==
  /\ run.status = "cancelled" => run.cancel
  /\ "cancel" \notin Faults => ~run.cancel /\ can = "idle"

ReadyOK(w) ==
  /\ pc[w] = "loaded" => Halted(w) \/ loc[w].fails \/ data = Units
  /\ pc[w] = "itemDone" => loc[w].fails \/ data = Units
  /\ pc[w] = "finish" => (loc[w].out = "success" => data = Units)
  /\ pc[w] = "finish" => (loc[w].out = "cancelled" => Halted(w))

RInv ==
  /\ KnownOK
  /\ CancelOK
  /\ \A w \in Workers : ReadyOK(w)
  /\ item.status = "success" => data = Units
  /\ ReadyIsComplete

(***************************************************************************)
(* Least and greatest elements of finite sets of numbers.                  *)
(***************************************************************************)
\* A set of natural numbers that is not empty has a least element.
LEMMA LeastExists ==
  ASSUME NEW S \in SUBSET Nat, S # {}
  PROVE  \E x \in S : \A y \in S : x <= y
PROOF
<1>1. PICK x \in S : \A y \in S : ~(<<y, x>> \in OpToRel(<, Nat))
  BY WFMin, NatLessThanWellFounded, Zenon
<1>2. \A y \in S : ~(y < x)
  BY <1>1 DEF OpToRel
<1> QED
  BY <1>2

\* Min returns it: the unit that Fetch takes is the first of those left.
LEMMA MinIsLeast ==
  ASSUME NEW S \in SUBSET Nat, S # {}
  PROVE  /\ Min(S) \in S
         /\ \A y \in S : Min(S) <= y
PROOF
<1>1. \E x \in S : \A y \in S : x =< y
  BY LeastExists
<1> QED
  BY <1>1, Zenon DEF Min

\* A bounded one has a greatest element, the least of its upper bounds.
LEMMA GreatestExists ==
  ASSUME NEW n \in Nat, NEW S \in SUBSET (0 .. n), S # {}
  PROVE  \E x \in S : \A y \in S : x >= y
PROOF
<1> DEFINE Bounds == {m \in 0 .. n : \A y \in S : y <= m}
<1>1. n \in Bounds
  OBVIOUS
<1>2. PICK m \in Bounds : \A k \in Bounds : m <= k
  <2>1. Bounds \in SUBSET Nat /\ Bounds # {}
    BY <1>1
  <2> QED
    BY <2>1, LeastExists
<1>3. m \in S
  <2> SUFFICES ASSUME m \notin S
               PROVE  FALSE
    OBVIOUS
  <2>1. m > 0
    <3>1. PICK y \in S : TRUE
      OBVIOUS
    <3> QED
      BY <3>1
  <2>2. m - 1 \in 0 .. n
    BY <2>1
  <2>3. \A y \in S : y <= m - 1
    OBVIOUS
  <2>4. m - 1 \in Bounds
    BY <2>2, <2>3
  <2> QED
    BY <1>2, <2>4, m - 1 < m
<1> QED
  BY <1>3

\* Max returns it: the watermark and the checkpoint after a batch.
LEMMA MaxIsGreatest ==
  ASSUME NEW n \in Nat, NEW S \in SUBSET (0 .. n), S # {}
  PROVE  /\ Max(S) \in S
         /\ \A y \in S : Max(S) >= y
PROOF
<1>1. \E x \in S : \A y \in S : x >= y
  BY GreatestExists
<1> QED
  BY <1>1, Zenon DEF Max

\* A set of units is finite and no larger than the scope.
LEMMA UnitsCount ==
  ASSUME NEW S \in SUBSET Units
  PROVE  /\ IsFiniteSet(S)
         /\ Cardinality(S) \in 0 .. N
PROOF
<1>1. N \in Nat /\ N >= 1
  BY SyncBoundsAssumption
<1>2. IsFiniteSet(1 .. N) /\ Cardinality(1 .. N) = N
  BY <1>1, FS_Interval
<1>3. IsFiniteSet(S) /\ Cardinality(S) <= N
  BY <1>2, FS_Subset DEF Units
<1>4. Cardinality(S) \in Nat
  BY <1>3, FS_CardinalityType
<1> QED
  BY <1>1, <1>3, <1>4

\* The message counters stay within their bound.
LEMMA OneMoreType ==
  ASSUME NEW n \in 0 .. MaxCopies
  PROVE  OneMore(n) \in 0 .. MaxCopies
PROOF
<1>1. MaxCopies \in Nat
  BY SyncBoundsAssumption
<1>2. {MaxCopies, n + 1} \in SUBSET Nat /\ {MaxCopies, n + 1} # {}
  BY <1>1
<1> DEFINE m == Min({MaxCopies, n + 1})
<1>3. m \in {MaxCopies, n + 1} /\ m <= MaxCopies
  BY <1>2, MinIsLeast
<1> QED
  BY <1>1, <1>3 DEF OneMore

(***************************************************************************)
(* How a worker moves, and what is left to show of a step.                 *)
(***************************************************************************)
Places == pc \in [Workers -> WorkerPcs] /\ loc \in [Workers -> Locals]

\* The other workers keep their place and their local variables.
Alone(w) == \A v \in Workers : v # w => pc'[v] = pc[v] /\ loc'[v] = loc[v]

\* A jump moves one worker.
LEMMA GotoMoves ==
  ASSUME NEW w \in Workers, NEW p \in WorkerPcs, Places, Goto(w, p)
  PROVE  /\ pc' \in [Workers -> WorkerPcs]
         /\ pc'[w] = p
         /\ \A v \in Workers : v # w => pc'[v] = pc[v]
PROOF
  BY DEF Places, Goto

\* An assignment to the locals moves one worker.
LEMMA LocalMoves ==
  ASSUME NEW w \in Workers, NEW r \in Locals, Places, loc' = [loc EXCEPT ![w] = r]
  PROVE  /\ loc' \in [Workers -> Locals]
         /\ loc'[w] = r
         /\ \A v \in Workers : v # w => loc'[v] = loc[v]
PROOF
  BY DEF Places

\* Goto alone, and Goto with an assignment of local variables.
LEMMA StepMoves ==
  ASSUME NEW w \in Workers, NEW p \in WorkerPcs, Places, Goto(w, p), UNCHANGED loc
  PROVE  Places' /\ Alone(w) /\ pc'[w] = p /\ loc'[w] = loc[w]
PROOF
  BY GotoMoves DEF Places, Alone

\* A jump with an assignment.
LEMMA AssignMoves ==
  ASSUME NEW w \in Workers, NEW p \in WorkerPcs, NEW r \in Locals, Places,
         Goto(w, p), loc' = [loc EXCEPT ![w] = r]
  PROVE  Places' /\ Alone(w) /\ pc'[w] = p /\ loc'[w] = r
PROOF
<1>1. /\ pc' \in [Workers -> WorkerPcs]
      /\ pc'[w] = p
      /\ \A v \in Workers : v # w => pc'[v] = pc[v]
  BY GotoMoves
<1>2. /\ loc' \in [Workers -> Locals]
      /\ loc'[w] = r
      /\ \A v \in Workers : v # w => loc'[v] = loc[v]
  BY LocalMoves
<1> QED
  BY <1>1, <1>2 DEF Places, Alone

\* The locals of a new task are in range.
LEMMA BlankType == Blank \in Locals
PROOF
  BY SyncBoundsAssumption DEF Blank, Locals, RunStates, NoDerived, DerivedRows, DerivedStates

\* So is a new work item.
LEMMA FreshItemType == FreshItem \in ItemRows
PROOF
  BY SyncBoundsAssumption DEF FreshItem, ItemRows, ItemStates

\* A worker that returns has blank locals.
LEMMA ReturnMoves ==
  ASSUME NEW w \in Workers, Places, Return(w)
  PROVE  Places' /\ Alone(w) /\ pc'[w] = "idle" /\ loc'[w] = Blank
PROOF
<1>1. "idle" \in WorkerPcs
  BY DEF WorkerPcs
<1> QED
  BY <1>1, BlankType DEF Places, Return, Alone

\* The type invariant says where the workers are.
LEMMA TypeGivesPlaces ==
  ASSUME TypeOK
  PROVE  Places
PROOF
  BY DEF TypeOK, Places

\* A worker that returns has nothing in hand.
LEMMA ReturnedOK ==
  ASSUME NEW w \in Workers, pc'[w] = "idle", loc'[w] = Blank
  PROVE  WorkerOK(w)'
PROOF
  BY DEF WorkerOK, HandOK, InOrder, OutcomeOK, LoadingPcs, Blank

\* What a worker has in hand is not disturbed by the others: the store grows.
LEMMA Bystander ==
  ASSUME NEW v \in Workers, WorkerOK(v), pc'[v] = pc[v], loc'[v] = loc[v],
         data \subseteq data', UNCHANGED mode
  PROVE  WorkerOK(v)'
PROOF
<1>1. HandOK(v)'
  BY DEF WorkerOK, HandOK
<1>2. OutcomeOK(v)'
  BY DEF WorkerOK, OutcomeOK
<1>3. InOrder(v)'
  BY DEF WorkerOK, InOrder, Units
<1> QED
  BY <1>1, <1>2, <1>3 DEF WorkerOK

\* A worker's step: its own place and the evidence remain to be shown ...
LEMMA StepSuffices ==
  ASSUME DInv, NEW w \in Workers, TypeOK', Alone(w), WorkerOK(w)',
         data \subseteq data', UNCHANGED <<mode, api, tasks, rec, rtask>>, EvidenceIsBacked'
  PROVE  DInv'
PROOF
<1>1. ASSUME NEW v \in Workers
      PROVE  WorkerOK(v)'
  <2>1. CASE v = w
    BY <2>1
  <2>2. CASE v # w
    BY <2>2, Bystander DEF Alone, DInv
  <2> QED
    BY <2>1, <2>2
<1>2. BoundOK'
  BY DEF DInv, BoundOK
<1> QED
  BY <1>1, <1>2 DEF DInv

\* ... and only its place, when it touches neither data nor evidence.
LEMMA QuietSuffices ==
  ASSUME DInv, NEW w \in Workers, TypeOK', Alone(w), WorkerOK(w)',
         UNCHANGED <<mode, api, tasks, rec, rtask, work, data, watermark>>
  PROVE  DInv'
PROOF
<1>1. EvidenceIsBacked'
  BY DEF DInv, EvidenceIsBacked, Units
<1> QED
  BY <1>1, StepSuffices

\* A step that is no worker's.
LEMMA OutsideSuffices ==
  ASSUME DInv, TypeOK', BoundOK', UNCHANGED <<mode, data, watermark, pc, loc>>,
         \A u \in Units : work'[u] = "committed" => work[u] = "committed"
  PROVE  DInv'
PROOF
<1>1. ASSUME NEW v \in Workers
      PROVE  WorkerOK(v)'
  BY Bystander DEF DInv
<1>2. EvidenceIsBacked'
  BY DEF DInv, EvidenceIsBacked, Units
<1> QED
  BY <1>1, <1>2 DEF DInv

\* create_sync_run, prepare_resume and what the API does around them.
LEMMA ApiPreserves ==
  ASSUME DInv
  PROVE  /\ create_sync_run => DInv'
         /\ ResumeRead => DInv'
         /\ prepare_resume => DInv'
         /\ CreateTask => DInv'
         /\ bind_task => DInv'
         /\ Publish => DInv'
         /\ PublishFails => DInv'
         /\ FailCreate => DInv'
         /\ MarkQueued => DInv'
         /\ ApiCrash => DInv'
PROOF
<1> USE SyncBoundsAssumption
<1>0. TypeOK /\ BoundOK
  BY DEF DInv
<1>1. ASSUME create_sync_run
      PROVE  DInv'
  <2>1. run' \in RunRows
    BY <1>1, <1>0 DEF create_sync_run, TypeOK, RunRows, RunStates, ACTIVE, RESUMABLE
  <2>2. api' \in ApiPcs
    BY <1>1, <1>0 DEF create_sync_run, ApiPcs
  <2>3. TypeOK'
    BY <1>1, <1>0, <2>1, <2>2
    DEF TypeOK, create_sync_run, taskVars, msgVars, workerVars, cancelVars, recoverVars
  <2>4. BoundOK'
    BY <1>1, <1>0 DEF BoundOK, TypeOK, create_sync_run, taskVars, recoverVars
  <2> QED
    BY <1>1, <2>3, <2>4, OutsideSuffices DEF create_sync_run, workerVars
<1>2. ASSUME ResumeRead
      PROVE  DInv'
  <2>1. snap' \in ItemRows
    BY <1>2, <1>0 DEF ResumeRead, TypeOK
  <2>2. api' \in ApiPcs
    BY <1>2, <1>0 DEF ResumeRead, ApiPcs
  <2>3. TypeOK'
    BY <1>2, <1>0, <2>1, <2>2
    DEF TypeOK, ResumeRead, rowVars, taskVars, msgVars, workerVars, cancelVars, recoverVars
  <2>4. BoundOK'
    BY <1>2, <1>0 DEF BoundOK, TypeOK, ResumeRead, rowVars, taskVars, recoverVars
  <2> QED
    BY <1>2, <2>3, <2>4, OutsideSuffices DEF ResumeRead, rowVars, workerVars
<1>3. ASSUME prepare_resume
      PROVE  DInv'
  <2>1. run' \in RunRows
    BY <1>3, <1>0 DEF prepare_resume, TypeOK, RunRows, RunStates, ACTIVE, RESUMABLE
  <2>2. item' \in ItemRows
    <3>1. item' \in {FreshItem, Requeued(item), [item EXCEPT !.status = "queued"], item}
      BY <1>3, Zenon DEF prepare_resume
    <3>2. /\ Requeued(item) \in ItemRows
          /\ [item EXCEPT !.status = "queued"] \in ItemRows
      BY <1>0 DEF TypeOK, ItemRows, ItemStates, Requeued
    <3> QED
      BY <1>0, <3>1, <3>2, FreshItemType DEF TypeOK
  <2>3. snap' \in ItemRows
    BY <1>3, <1>0, FreshItemType DEF prepare_resume, TypeOK
  <2>4. work' \in [Units -> WorkStates]
    BY <1>3, <1>0 DEF prepare_resume, TypeOK, WorkStates
  <2>5. api' \in ApiPcs
    BY <1>3, <1>0 DEF prepare_resume, ApiPcs
  <2>6. TypeOK'
    BY <1>3, <1>0, <2>1, <2>2, <2>3, <2>4, <2>5
    DEF TypeOK, prepare_resume, taskVars, msgVars, workerVars, cancelVars, recoverVars
  <2>7. BoundOK'
    BY <1>3, <1>0 DEF BoundOK, TypeOK, prepare_resume, taskVars, recoverVars
  <2> QED
    BY <1>3, <2>6, <2>7, OutsideSuffices DEF prepare_resume, workerVars
<1>4. ASSUME CreateTask
      PROVE  DInv'
  <2>1. tasks' \in 0 .. MaxTasks
    BY <1>4, <1>0 DEF CreateTask, TypeOK
  <2>2. task' \in [TaskIds -> TaskStates]
    BY <1>4, <1>0 DEF CreateTask, TypeOK, TaskStates, TaskEnded
  <2>3. api' \in ApiPcs
    BY <1>4, <1>0 DEF CreateTask, ApiPcs
  <2>4. TypeOK'
    BY <1>4, <1>0, <2>1, <2>2, <2>3
    DEF TypeOK, CreateTask, rowVars, msgVars, workerVars, cancelVars, recoverVars
  <2>5. BoundOK'
    BY <1>4, <1>0 DEF BoundOK, TypeOK, CreateTask, rowVars, recoverVars
  <2> QED
    BY <1>4, <2>4, <2>5, OutsideSuffices DEF CreateTask, rowVars, workerVars
<1>5. ASSUME bind_task
      PROVE  DInv'
  <2>1. run' \in RunRows
    BY <1>5, <1>0 DEF bind_task, TypeOK, RunRows, RunStates, ACTIVE, RESUMABLE
  <2>2. api' \in ApiPcs
    BY <1>5, <1>0 DEF bind_task, ApiPcs
  <2>3. TypeOK'
    BY <1>5, <1>0, <2>1, <2>2
    DEF TypeOK, bind_task, taskVars, msgVars, workerVars, cancelVars, recoverVars
  <2>4. BoundOK'
    BY <1>5, <1>0 DEF BoundOK, TypeOK, bind_task, taskVars, recoverVars
  <2> QED
    BY <1>5, <2>3, <2>4, OutsideSuffices DEF bind_task, workerVars
<1>6. ASSUME Publish
      PROVE  DInv'
  <2>1. msgs' \in [TaskIds -> 0 .. MaxCopies]
    BY <1>6, <1>0, OneMoreType DEF Publish, TypeOK, TaskIds
  <2>2. api' \in ApiPcs
    BY <1>6, <1>0 DEF Publish, ApiPcs
  <2>3. TypeOK'
    BY <1>6, <1>0, <2>1, <2>2
    DEF TypeOK, Publish, rowVars, taskVars, workerVars, cancelVars, recoverVars
  <2>4. BoundOK'
    BY <1>6, <1>0 DEF BoundOK, TypeOK, Publish, rowVars, taskVars, recoverVars
  <2> QED
    BY <1>6, <2>3, <2>4, OutsideSuffices DEF Publish, rowVars, workerVars
<1>7. ASSUME PublishFails
      PROVE  DInv'
  <2>1. task' \in [TaskIds -> TaskStates]
    BY <1>7, <1>0 DEF PublishFails, TypeOK, TaskStates, TaskEnded
  <2>2. api' \in ApiPcs
    BY <1>7, <1>0 DEF PublishFails, ApiPcs
  <2>3. faults' \in 0 .. MaxFaults
    BY <1>7, <1>0 DEF PublishFails, TypeOK, Fault
  <2>4. TypeOK'
    BY <1>7, <1>0, <2>1, <2>2, <2>3
    DEF TypeOK, PublishFails, rowVars, msgVars, workerVars, cancelVars, recoverVars
  <2>5. BoundOK'
    BY <1>7, <1>0 DEF BoundOK, TypeOK, PublishFails, rowVars, recoverVars
  <2> QED
    BY <1>7, <2>4, <2>5, OutsideSuffices DEF PublishFails, rowVars, workerVars
<1>8. ASSUME FailCreate
      PROVE  DInv'
  <2>1. run' \in RunRows
    BY <1>8, <1>0 DEF FailCreate, TypeOK, RunRows, RunStates, ACTIVE, RESUMABLE, FailedRun
  <2>2. api' \in ApiPcs
    BY <1>8, <1>0 DEF FailCreate, ApiPcs
  <2>3. TypeOK'
    BY <1>8, <1>0, <2>1, <2>2
    DEF TypeOK, FailCreate, taskVars, msgVars, workerVars, cancelVars, recoverVars
  <2>4. BoundOK'
    BY <1>8, <1>0 DEF BoundOK, TypeOK, FailCreate, taskVars, recoverVars
  <2> QED
    BY <1>8, <2>3, <2>4, OutsideSuffices DEF FailCreate, workerVars
<1>9. ASSUME MarkQueued
      PROVE  DInv'
  <2>1. task' \in [TaskIds -> TaskStates]
    BY <1>9, <1>0 DEF MarkQueued, TypeOK, TaskStates, TaskEnded
  <2>2. celery' \subseteq TaskIds
    BY <1>9, <1>0 DEF MarkQueued, TypeOK, TaskIds, BoundOK
  <2>3. api' \in ApiPcs
    BY <1>9, <1>0 DEF MarkQueued, ApiPcs
  <2>4. TypeOK'
    BY <1>9, <1>0, <2>1, <2>2, <2>3
    DEF TypeOK, MarkQueued, rowVars, msgVars, workerVars, cancelVars, recoverVars
  <2>5. BoundOK'
    BY <1>9, <1>0 DEF BoundOK, TypeOK, MarkQueued, rowVars, recoverVars
  <2> QED
    BY <1>9, <2>4, <2>5, OutsideSuffices DEF MarkQueued, rowVars, workerVars
<1>10. ASSUME ApiCrash
      PROVE  DInv'
  <2>1. snap' \in ItemRows
    BY <1>10, <1>0, FreshItemType DEF ApiCrash, TypeOK
  <2>2. api' \in ApiPcs
    BY <1>10, <1>0 DEF ApiCrash, ApiPcs
  <2>3. faults' \in 0 .. MaxFaults
    BY <1>10, <1>0 DEF ApiCrash, TypeOK, Fault
  <2>4. TypeOK'
    BY <1>10, <1>0, <2>1, <2>2, <2>3
    DEF TypeOK, ApiCrash, rowVars, taskVars, msgVars, workerVars, cancelVars, recoverVars
  <2>5. BoundOK'
    BY <1>10, <1>0 DEF BoundOK, TypeOK, ApiCrash, rowVars, taskVars, recoverVars
  <2> QED
    BY <1>10, <2>4, <2>5, OutsideSuffices DEF ApiCrash, rowVars, workerVars
<1> QED
  BY <1>1, <1>2, <1>3, <1>4, <1>5, <1>6, <1>7, <1>8, <1>9, <1>10

\* cancel_run: the request and _cancel_data_sync.
LEMMA CancelPreserves ==
  ASSUME DInv
  PROVE  /\ CancelRead => DInv'
         /\ CancelFlag => DInv'
         /\ CancelRevoke => DInv'
         /\ CancelDataSync => DInv'
         /\ CancelTaskRow => DInv'
         /\ CancelCrash => DInv'
PROOF
<1> USE SyncBoundsAssumption
<1>0. TypeOK /\ BoundOK
  BY DEF DInv
<1>1. ASSUME CancelRead
      PROVE  DInv'
  <2>1. can' \in CancelPcs
    BY <1>1, <1>0 DEF CancelRead, CancelPcs
  <2>2. ctask' \in 0 .. MaxTasks
    BY <1>1, <1>0 DEF CancelRead, TypeOK, RunRows
  <2>3. faults' \in 0 .. MaxFaults
    BY <1>1, <1>0 DEF CancelRead, TypeOK, Fault
  <2>4. TypeOK'
    BY <1>1, <1>0, <2>1, <2>2, <2>3
    DEF TypeOK, CancelRead, rowVars, taskVars, msgVars, workerVars, apiVars, recoverVars
  <2>5. BoundOK'
    BY <1>1, <1>0 DEF BoundOK, TypeOK, CancelRead, rowVars, taskVars, apiVars, recoverVars
  <2> QED
    BY <1>1, <2>4, <2>5, OutsideSuffices DEF CancelRead, rowVars, workerVars
<1>2. ASSUME CancelFlag
      PROVE  DInv'
  <2>1. run' \in RunRows
    BY <1>2, <1>0 DEF CancelFlag, TypeOK, RunRows, RunStates, ACTIVE, RESUMABLE, CancelRowsOf
  <2>2. can' \in CancelPcs
    BY <1>2, <1>0 DEF CancelFlag, CancelPcs
  <2>3. TypeOK'
    BY <1>2, <1>0, <2>1, <2>2
    DEF TypeOK, CancelFlag, taskVars, msgVars, workerVars, apiVars, recoverVars
  <2>4. BoundOK'
    BY <1>2, <1>0 DEF BoundOK, TypeOK, CancelFlag, taskVars, apiVars, recoverVars
  <2> QED
    BY <1>2, <2>3, <2>4, OutsideSuffices DEF CancelFlag, workerVars
<1>3. ASSUME CancelRevoke
      PROVE  DInv'
  <2>1. revoked' \subseteq TaskIds
    BY <1>3, <1>0 DEF CancelRevoke, TypeOK
  <2>2. can' \in CancelPcs
    BY <1>3, <1>0 DEF CancelRevoke, CancelPcs
  <2>3. TypeOK'
    BY <1>3, <1>0, <2>1, <2>2
    DEF TypeOK, CancelRevoke, rowVars, msgVars, workerVars, apiVars, recoverVars
  <2>4. BoundOK'
    BY <1>3, <1>0 DEF BoundOK, TypeOK, CancelRevoke, rowVars, apiVars, recoverVars
  <2> QED
    BY <1>3, <2>3, <2>4, OutsideSuffices DEF CancelRevoke, rowVars, workerVars
<1>4. ASSUME CancelDataSync
      PROVE  DInv'
  <2>1. run' \in RunRows
    BY <1>4, <1>0 DEF CancelDataSync, TypeOK, RunRows, RunStates, ACTIVE, RESUMABLE, CancelRowsOf
  <2>2. item' \in ItemRows
    BY <1>4, <1>0 DEF CancelDataSync, TypeOK, ItemRows, ItemStates, CancelItems
  <2>3. can' \in CancelPcs
    BY <1>4, <1>0 DEF CancelDataSync, CancelPcs
  <2>4. ctask' \in 0 .. MaxTasks
    BY <1>4, <1>0 DEF CancelDataSync, TypeOK, RunRows
  <2>5. TypeOK'
    BY <1>4, <1>0, <2>1, <2>2, <2>3, <2>4
    DEF TypeOK, CancelDataSync, taskVars, msgVars, workerVars, apiVars, recoverVars
  <2>6. BoundOK'
    BY <1>4, <1>0 DEF BoundOK, TypeOK, CancelDataSync, taskVars, apiVars, recoverVars
  <2> QED
    BY <1>4, <2>5, <2>6, OutsideSuffices DEF CancelDataSync, workerVars
<1>5. ASSUME CancelTaskRow
      PROVE  DInv'
  <2>1. task' \in [TaskIds -> TaskStates]
    BY <1>5, <1>0 DEF CancelTaskRow, TypeOK, TaskStates, TaskEnded
  <2>2. can' \in CancelPcs
    BY <1>5, <1>0 DEF CancelTaskRow, CancelPcs
  <2>3. TypeOK'
    BY <1>5, <1>0, <2>1, <2>2
    DEF TypeOK, CancelTaskRow, rowVars, msgVars, workerVars, apiVars, recoverVars
  <2>4. BoundOK'
    BY <1>5, <1>0 DEF BoundOK, TypeOK, CancelTaskRow, rowVars, apiVars, recoverVars
  <2> QED
    BY <1>5, <2>3, <2>4, OutsideSuffices DEF CancelTaskRow, rowVars, workerVars
<1>6. ASSUME CancelCrash
      PROVE  DInv'
  <2>1. can' \in CancelPcs
    BY <1>6, <1>0 DEF CancelCrash, CancelPcs
  <2>2. ctask' \in 0 .. MaxTasks
    BY <1>6, <1>0 DEF CancelCrash, TypeOK, RunRows
  <2>3. TypeOK'
    BY <1>6, <1>0, <2>1, <2>2
    DEF TypeOK, CancelCrash, rowVars, taskVars, msgVars, workerVars, apiVars, recoverVars
  <2>4. BoundOK'
    BY <1>6, <1>0 DEF BoundOK, TypeOK, CancelCrash, rowVars, taskVars, apiVars, recoverVars
  <2> QED
    BY <1>6, <2>3, <2>4, OutsideSuffices DEF CancelCrash, rowVars, workerVars
<1> QED
  BY <1>1, <1>2, <1>3, <1>4, <1>5, <1>6

\* recover_data_sync and the thresholds it waits for.
LEMMA RecoveryPreserves ==
  ASSUME DInv
  PROVE  /\ Age => DInv'
         /\ AgeDerived => DInv'
         /\ RecoverRead => DInv'
         /\ fail_stale_unbound_run => DInv'
         /\ queue_stale_run_for_recovery => DInv'
         /\ RecoverMark => DInv'
         /\ finalize_stale_cancellation => DInv'
         /\ queue_stale_derived_for_recovery => DInv'
PROOF
<1> USE SyncBoundsAssumption
<1>0. TypeOK /\ BoundOK
  BY DEF DInv
<1>1. ASSUME Age
      PROVE  DInv'
  <2>1. faults' \in 0 .. MaxFaults
    BY <1>1, <1>0 DEF Age, TypeOK, Fault
  <2>2. TypeOK'
    BY <1>1, <1>0, <2>1
    DEF TypeOK, Age, taskVars, msgVars, workerVars, apiVars, cancelVars, recoverVars, nonWorker
  <2>3. BoundOK'
    BY <1>1, <1>0 DEF BoundOK, TypeOK, Age, taskVars, apiVars, recoverVars, nonWorker
  <2> QED
    BY <1>1, <2>2, <2>3, OutsideSuffices DEF Age, workerVars, nonWorker
<1>2. ASSUME AgeDerived
      PROVE  DInv'
  <2>1. TypeOK'
    BY <1>2, <1>0
    DEF TypeOK, AgeDerived, taskVars, msgVars, workerVars, apiVars, cancelVars, recoverVars,
        nonWorker
  <2>2. BoundOK'
    BY <1>2, <1>0 DEF BoundOK, TypeOK, AgeDerived, taskVars, apiVars, recoverVars, nonWorker
  <2> QED
    BY <1>2, <2>1, <2>2, OutsideSuffices DEF AgeDerived, workerVars, nonWorker
<1>3. ASSUME RecoverRead
      PROVE  DInv'
  <2>1. rec' \in RecoverPcs
    BY <1>3, <1>0 DEF RecoverRead, RecoverPcs
  <2>2. rtask' \in 0 .. MaxTasks
    BY <1>3, <1>0 DEF RecoverRead, TypeOK, RunRows
  <2>3. rsnap' \in DerivedRows
    BY <1>3, <1>0 DEF RecoverRead, TypeOK
  <2>4. TypeOK'
    BY <1>3, <1>0, <2>1, <2>2, <2>3
    DEF TypeOK, RecoverRead, rowVars, taskVars, msgVars, workerVars, apiVars, cancelVars, nonRecover
  <2>5. BoundOK'
    BY <1>3, <1>0 DEF BoundOK, TypeOK, RecoverRead, rowVars, taskVars, apiVars, nonRecover
  <2> QED
    BY <1>3, <2>4, <2>5, OutsideSuffices DEF RecoverRead, rowVars, workerVars, nonRecover
<1>4. ASSUME fail_stale_unbound_run
      PROVE  DInv'
  <2>1. run' \in RunRows
    BY <1>4, <1>0
    DEF fail_stale_unbound_run, TypeOK, RunRows, RunStates, ACTIVE, RESUMABLE, FailedRun
  <2>2. rec' \in RecoverPcs
    BY <1>4, <1>0 DEF fail_stale_unbound_run, RecoverPcs
  <2>3. TypeOK'
    BY <1>4, <1>0, <2>1, <2>2
    DEF TypeOK, fail_stale_unbound_run, taskVars, msgVars, workerVars, apiVars, cancelVars,
        nonRecover
  <2>4. BoundOK'
    BY <1>4, <1>0 DEF BoundOK, TypeOK, fail_stale_unbound_run, taskVars, apiVars, nonRecover
  <2> QED
    BY <1>4, <2>3, <2>4, OutsideSuffices DEF fail_stale_unbound_run, workerVars, nonRecover
<1>5. ASSUME queue_stale_run_for_recovery
      PROVE  DInv'
  <2>1. run' \in RunRows
    BY <1>5, <1>0 DEF queue_stale_run_for_recovery, TypeOK, RunRows, RunStates, ACTIVE, RESUMABLE
  <2>2. msgs' \in [TaskIds -> 0 .. MaxCopies]
    BY <1>5, <1>0, OneMoreType DEF queue_stale_run_for_recovery, TypeOK, TaskIds
  <2>3. revoked' \subseteq TaskIds
    BY <1>5, <1>0 DEF queue_stale_run_for_recovery, TypeOK
  <2>4. rec' \in RecoverPcs
    BY <1>5, <1>0 DEF queue_stale_run_for_recovery, RecoverPcs
  <2>5. rtask' \in 0 .. MaxTasks
    BY <1>5, <1>0 DEF queue_stale_run_for_recovery, TypeOK, RunRows
  <2>6. TypeOK'
    BY <1>5, <1>0, <2>1, <2>2, <2>3, <2>4, <2>5
    DEF TypeOK, queue_stale_run_for_recovery, workerVars, apiVars, cancelVars, nonRecover
  <2>7. BoundOK'
    BY <1>5, <1>0 DEF BoundOK, TypeOK, queue_stale_run_for_recovery, apiVars, nonRecover
  <2> QED
    BY <1>5, <2>6, <2>7, OutsideSuffices DEF queue_stale_run_for_recovery, workerVars, nonRecover
<1>6. ASSUME RecoverMark
      PROVE  DInv'
  <2>1. task' \in [TaskIds -> TaskStates]
    BY <1>6, <1>0 DEF RecoverMark, TypeOK, TaskStates, TaskEnded
  <2>2. celery' \subseteq TaskIds
    BY <1>6, <1>0 DEF RecoverMark, TypeOK, TaskIds, BoundOK
  <2>3. rec' \in RecoverPcs
    BY <1>6, <1>0 DEF RecoverMark, RecoverPcs
  <2>4. rtask' \in 0 .. MaxTasks
    BY <1>6, <1>0 DEF RecoverMark, TypeOK, RunRows
  <2>5. TypeOK'
    BY <1>6, <1>0, <2>1, <2>2, <2>3, <2>4
    DEF TypeOK, RecoverMark, rowVars, msgVars, workerVars, apiVars, cancelVars, nonRecover
  <2>6. BoundOK'
    BY <1>6, <1>0 DEF BoundOK, TypeOK, RecoverMark, rowVars, apiVars, nonRecover
  <2> QED
    BY <1>6, <2>5, <2>6, OutsideSuffices DEF RecoverMark, rowVars, workerVars, nonRecover
<1>7. ASSUME finalize_stale_cancellation
      PROVE  DInv'
  <2>1. run' \in RunRows
    BY <1>7, <1>0 DEF finalize_stale_cancellation, TypeOK, RunRows, RunStates, ACTIVE, RESUMABLE
  <2>2. rec' \in RecoverPcs
    BY <1>7, <1>0 DEF finalize_stale_cancellation, RecoverPcs
  <2>3. TypeOK'
    BY <1>7, <1>0, <2>1, <2>2
    DEF TypeOK, finalize_stale_cancellation, taskVars, msgVars, workerVars, apiVars, cancelVars,
        nonRecover
  <2>4. BoundOK'
    BY <1>7, <1>0 DEF BoundOK, TypeOK, finalize_stale_cancellation, taskVars, apiVars, nonRecover
  <2> QED
    BY <1>7, <2>3, <2>4, OutsideSuffices DEF finalize_stale_cancellation, workerVars, nonRecover
<1>8. ASSUME queue_stale_derived_for_recovery
      PROVE  DInv'
  <2>1. derived' \in DerivedRows
    BY <1>8, <1>0 DEF queue_stale_derived_for_recovery, TypeOK, DerivedRows, DerivedStates
  <2>2. mats' \in 0 .. MaxCopies
    BY <1>8, <1>0, OneMoreType DEF queue_stale_derived_for_recovery, TypeOK
  <2>3. rec' \in RecoverPcs
    BY <1>8, <1>0 DEF queue_stale_derived_for_recovery, RecoverPcs
  <2>4. rsnap' \in DerivedRows
    BY <1>8, <1>0
    DEF queue_stale_derived_for_recovery, TypeOK, NoDerived, DerivedRows, DerivedStates
  <2>5. TypeOK'
    BY <1>8, <1>0, <2>1, <2>2, <2>3, <2>4
    DEF TypeOK, queue_stale_derived_for_recovery, taskVars, workerVars, apiVars, cancelVars,
        nonRecover
  <2>6. BoundOK'
    BY <1>8, <1>0
    DEF BoundOK, TypeOK, queue_stale_derived_for_recovery, taskVars, apiVars, nonRecover
  <2> QED
    BY <1>8, <2>5, <2>6, OutsideSuffices
    DEF queue_stale_derived_for_recovery, workerVars, nonRecover
<1> QED
  BY <1>1, <1>2, <1>3, <1>4, <1>5, <1>6, <1>7, <1>8

\* The control states a step may go to.
LEMMA PcsInUse ==
  /\ "idle" \in WorkerPcs /\ "markTask" \in WorkerPcs /\ "claim" \in WorkerPcs
  /\ "finishTask" \in WorkerPcs /\ "raiseTask" \in WorkerPcs /\ "raiseMark" \in WorkerPcs
  /\ "prepare" \in WorkerPcs /\ "plan" \in WorkerPcs /\ "itemCancelled" \in WorkerPcs
  /\ "itemDone" \in WorkerPcs /\ "itemFailed" \in WorkerPcs /\ "evidence" \in WorkerPcs
  /\ "finish" \in WorkerPcs /\ "enqueue" \in WorkerPcs /\ "pauseItem" \in WorkerPcs
  /\ "pauseRun" \in WorkerPcs /\ "raiseRun" \in WorkerPcs /\ "activity" \in WorkerPcs
  /\ "fetch" \in WorkerPcs /\ "write" \in WorkerPcs /\ "meta" \in WorkerPcs
  /\ "progress" \in WorkerPcs /\ "markFailed" \in WorkerPcs /\ "loaded" \in WorkerPcs
  /\ "matRead" \in WorkerPcs /\ "matPersist" \in WorkerPcs /\ "matEnd" \in WorkerPcs
PROOF
  BY DEF WorkerPcs, SyncPcs, LoadPcs, MatPcs

\* A delivery begins: the message, the task row, the claim of the run.
LEMMA StartPreserves ==
  ASSUME DInv, NEW w \in Workers
  PROVE  /\ MarkTask(w) => DInv'
         /\ Claim(w) => DInv'
         /\ Prepare(w) => DInv'
         /\ PrepareRaises(w) => DInv'
         /\ RequiredFails(w) => DInv'
PROOF
<1> USE SyncBoundsAssumption
<1>0. TypeOK /\ Places /\ WorkerOK(w)
  BY TypeGivesPlaces DEF DInv
<1>1. ASSUME MarkTask(w)
      PROVE  DInv'
  <2>1. Places' /\ Alone(w) /\ \/ pc'[w] = "idle" /\ loc'[w] = Blank
                               \/ pc'[w] = "claim" /\ loc'[w] = loc[w]
    <3>1. CASE task[loc[w].task] = "cancelled"
      BY <1>1, <1>0, <3>1, ReturnMoves DEF MarkTask
    <3>2. CASE task[loc[w].task] # "cancelled"
      BY <1>1, <1>0, <3>2, StepMoves, PcsInUse DEF MarkTask
    <3> QED
      BY <3>1, <3>2
  <2>2. task' \in [TaskIds -> TaskStates]
    BY <1>1, <1>0 DEF MarkTask, TypeOK, TaskStates, TaskEnded
  <2>3. TypeOK'
    BY <1>1, <1>0, <2>1, <2>2
    DEF TypeOK, MarkTask, Places, rowVars, msgVars, apiVars, cancelVars, recoverVars, nonWorker
  <2>4. WorkerOK(w)'
    BY <1>1, <1>0, <2>1 DEF WorkerOK, HandOK, InOrder, OutcomeOK, LoadingPcs, MarkTask, Blank
  <2> QED
    BY <1>1, <2>1, <2>3, <2>4, QuietSuffices
    DEF MarkTask, rowVars, msgVars, apiVars, cancelVars, recoverVars, nonWorker
<1>2. ASSUME Claim(w)
      PROVE  DInv'
  <2>1. Places' /\ Alone(w) /\ /\ pc'[w] \in {"finishTask", "prepare"}
                               /\ loc'[w].buf = loc[w].buf
                               /\ loc'[w].bad = loc[w].bad
    <3>1. ASSUME NEW s \in RunStates, Goto(w, "finishTask"), Local(w, "out", s)
          PROVE  /\ Places' /\ Alone(w)
                 /\ pc'[w] \in {"finishTask", "prepare"}
                 /\ loc'[w].buf = loc[w].buf
                 /\ loc'[w].bad = loc[w].bad
      <4>1. loc' = [loc EXCEPT ![w] = [loc[w] EXCEPT !.out = s]]
        BY <3>1 DEF Local
      <4>2. [loc[w] EXCEPT !.out = s] \in Locals
        BY <1>0 DEF Places, Locals
      <4>3. Places' /\ Alone(w) /\ pc'[w] = "finishTask" /\ loc'[w] = [loc[w] EXCEPT !.out = s]
        BY <1>0, <3>1, <4>1, <4>2, AssignMoves, PcsInUse
      <4> QED
        BY <1>0, <4>3 DEF Places, Locals
    <3>2. CASE Cancelled(loc[w].task)
      BY <1>2, <1>0, <3>1, <3>2 DEF Claim, RunStates, RESUMABLE
    <3>3. CASE ~Cancelled(loc[w].task) /\ run.status \notin {"queued", "running"}
      BY <1>2, <1>0, <3>1, <3>3 DEF Claim, TypeOK, RunRows
    <3>4. CASE ~Cancelled(loc[w].task) /\ run.status \in {"queued", "running"}
      BY <1>2, <1>0, <3>4, StepMoves, PcsInUse DEF Claim
    <3> QED
      BY <3>2, <3>3, <3>4
  <2>2. run' \in RunRows
    BY <1>2, <1>0 DEF Claim, TypeOK, RunRows, RunStates, ACTIVE, RESUMABLE
  <2>3. fresh' \in BOOLEAN
    BY <1>2, <1>0 DEF Claim, TypeOK, Beat
  <2>4. TypeOK'
    BY <1>2, <1>0, <2>1, <2>2, <2>3
    DEF TypeOK, Claim, Places, taskVars, msgVars, apiVars, cancelVars, recoverVars, nonWorker
  <2>5. WorkerOK(w)'
    BY <1>2, <1>0, <2>1 DEF WorkerOK, HandOK, InOrder, OutcomeOK, LoadingPcs, Claim
  <2> QED
    BY <1>2, <2>1, <2>4, <2>5, QuietSuffices
    DEF Claim, taskVars, msgVars, apiVars, cancelVars, recoverVars, nonWorker
<1>3. ASSUME Prepare(w)
      PROVE  DInv'
  <2>1. Places' /\ Alone(w) /\ pc'[w] \in {"evidence", "plan"} /\ loc'[w] = loc[w]
    BY <1>3, <1>0, StepMoves, PcsInUse DEF Prepare
  <2>2. item' \in ItemRows
    BY <1>3, <1>0 DEF Prepare, TypeOK, ItemRows, ItemStates
  <2>3. fresh' \in BOOLEAN
    BY <1>3, <1>0 DEF Prepare, TypeOK, Beat
  <2>4. TypeOK'
    BY <1>3, <1>0, <2>1, <2>2, <2>3
    DEF TypeOK, Prepare, Places, taskVars, msgVars, apiVars, cancelVars, recoverVars, nonWorker
  <2>5. WorkerOK(w)'
    BY <1>3, <1>0, <2>1 DEF WorkerOK, HandOK, InOrder, OutcomeOK, LoadingPcs, Prepare
  <2> QED
    BY <1>3, <2>1, <2>4, <2>5, QuietSuffices
    DEF Prepare, taskVars, msgVars, apiVars, cancelVars, recoverVars, nonWorker
<1>4. ASSUME PrepareRaises(w)
      PROVE  DInv'
  <2>1. Places' /\ Alone(w) /\ pc'[w] = "raiseRun"
    BY <1>4, <1>0, StepMoves, PcsInUse DEF PrepareRaises
  <2>2. faults' \in 0 .. MaxFaults
    BY <1>4, <1>0 DEF PrepareRaises, TypeOK, Fault
  <2>3. TypeOK'
    BY <1>4, <1>0, <2>1, <2>2
    DEF TypeOK, PrepareRaises, Places, rowVars, taskVars, msgVars, apiVars, cancelVars,
        recoverVars, nonWorker
  <2>4. WorkerOK(w)'
    BY <1>4, <1>0, <2>1 DEF WorkerOK, HandOK, InOrder, OutcomeOK, LoadingPcs
  <2> QED
    BY <1>4, <2>1, <2>3, <2>4, QuietSuffices
    DEF PrepareRaises, rowVars, taskVars, msgVars, apiVars, cancelVars, recoverVars, nonWorker
<1>5. ASSUME RequiredFails(w)
      PROVE  DInv'
  <2>1. Places' /\ Alone(w) /\ pc'[w] = "evidence"
    <3>1. loc' = [loc EXCEPT ![w] = [loc[w] EXCEPT !.out = "failed"]]
      BY <1>5, <1>0 DEF RequiredFails, Local
    <3>2. [loc[w] EXCEPT !.out = "failed"] \in Locals
      BY <1>0 DEF Places, Locals, RunStates, RESUMABLE
    <3> QED
      BY <1>5, <1>0, <3>1, <3>2, AssignMoves, PcsInUse DEF RequiredFails
  <2>2. faults' \in 0 .. MaxFaults
    BY <1>5, <1>0 DEF RequiredFails, TypeOK, Fault
  <2>3. TypeOK'
    BY <1>5, <1>0, <2>1, <2>2
    DEF TypeOK, RequiredFails, Places, rowVars, taskVars, msgVars, apiVars, cancelVars,
        recoverVars, nonWorker
  <2>4. WorkerOK(w)'
    BY <1>5, <1>0, <2>1 DEF WorkerOK, HandOK, InOrder, OutcomeOK, LoadingPcs
  <2> QED
    BY <1>5, <2>1, <2>3, <2>4, QuietSuffices
    DEF RequiredFails, rowVars, taskVars, msgVars, apiVars, cancelVars, recoverVars, nonWorker
<1> QED
  BY <1>1, <1>2, <1>3, <1>4, <1>5

\* _item with a checkpoint keeps the item's row well formed.
LEMMA CheckpointType ==
  ASSUME TypeOK, NEW index \in 0 .. N, NEW processed \in 0 .. N, NEW failed \in BOOLEAN,
         CheckpointItem(index, processed, failed)
  PROVE  item' \in ItemRows /\ fresh' \in BOOLEAN
PROOF
<1>1. CASE item.ck /\ item.index > index
  BY <1>1 DEF CheckpointItem, TypeOK
<1>2. CASE ~(item.ck /\ item.index > index)
  <2>1. item' = [item EXCEPT !.index = index, !.ck = TRUE, !.failed = @ \/ failed,
                             !.processed = IF @ > processed THEN @ ELSE processed]
    BY <1>2 DEF CheckpointItem
  <2>2. item' \in ItemRows
    BY <2>1 DEF TypeOK, ItemRows
  <2>3. fresh' \in BOOLEAN
    BY <1>2 DEF CheckpointItem, Beat, TypeOK
  <2> QED
    BY <2>2, <2>3
<1> QED
  BY <1>1, <1>2

\* Plan: what is not committed is to be fetched, so no unit is lost sight of.
LEMMA PlanPreserves ==
  ASSUME DInv, NEW w \in Workers, Plan(w)
  PROVE  DInv'
PROOF
<1> USE SyncBoundsAssumption
<1> DEFINE resume == IF mode = "symbol" THEN item.index ELSE 0
           scope == {u \in Units : u > resume}
           todo == {u \in scope : work[u] # "committed"}
           committed == Cardinality({u \in Units : work[u] = "committed"})
           done == IF mode = "symbol" THEN Max({item.processed, committed}) ELSE committed
           index == IF mode = "symbol" THEN Max({resume, done}) ELSE done
           r == [loc[w] EXCEPT !.todo = todo, !.done = done, !.index = index, !.fails = item.failed]
           p == IF mode = "symbol" THEN "activity" ELSE "fetch"
<1>0. TypeOK /\ Places /\ WorkerOK(w) /\ EvidenceIsBacked
  BY TypeGivesPlaces DEF DInv
<1>1. /\ work' = [u \in Units |-> IF u \in scope /\ work[u] = "absent" THEN "pending" ELSE work[u]]
      /\ loc' = [loc EXCEPT ![w] = r]
      /\ Goto(w, p)
  BY Zenon DEF Plan
<1>2. committed \in 0 .. N
  BY UnitsCount
<1>3. done \in 0 .. N
  <2>1. {item.processed, committed} \in SUBSET (0 .. N)
    BY <1>0, <1>2 DEF TypeOK, ItemRows
  <2>2. Max({item.processed, committed}) \in {item.processed, committed}
    BY <2>1, MaxIsGreatest
  <2> QED
    BY <1>2, <2>1, <2>2
<1>4. index \in 0 .. N
  <2>1. {resume, done} \in SUBSET (0 .. N)
    BY <1>0, <1>3 DEF TypeOK, ItemRows
  <2>2. Max({resume, done}) \in {resume, done}
    BY <2>1, MaxIsGreatest
  <2> QED
    BY <1>3, <2>1, <2>2
<1>5. r \in Locals
  <2>1. item.failed \in BOOLEAN
    BY <1>0 DEF TypeOK, ItemRows
  <2> HIDE DEF done, index
  <2> QED
    BY <1>0, <1>3, <1>4, <2>1 DEF Places, Locals
<1>6. p \in WorkerPcs
  BY PcsInUse
<1>7. Places' /\ Alone(w) /\ pc'[w] = p /\ loc'[w] = r
  <2> HIDE DEF r, p
  <2> QED
    BY <1>0, <1>1, <1>5, <1>6, AssignMoves
<1>8. work' \in [Units -> WorkStates]
  BY <1>0, <1>1 DEF TypeOK, WorkStates
<1>9. TypeOK'
  BY <1>0, <1>7, <1>8
  DEF TypeOK, Plan, Places, taskVars, msgVars, apiVars, cancelVars, recoverVars, nonWorker
<1>10. UNCHANGED <<mode, data, watermark, api, tasks, rec, rtask>>
  BY DEF Plan, nonWorker, taskVars, apiVars, recoverVars
<1>11. EvidenceIsBacked'
  BY <1>0, <1>1, <1>10 DEF EvidenceIsBacked, Units
<1>12. /\ loc'[w].todo = todo
       /\ loc'[w].buf = {} /\ loc'[w].bad = 0
  BY <1>0, <1>7 DEF Places, Locals, WorkerOK, HandOK, Plan
<1>13. WorkerOK(w)'
  <2>1. HandOK(w)' /\ OutcomeOK(w)'
    BY <1>7, <1>10, <1>12 DEF HandOK, OutcomeOK
  <2>2. ASSUME mode = "date", NEW u \in Units
        PROVE  u \in loc'[w].todo \cup data
    BY <1>0, <1>12, <2>2 DEF EvidenceIsBacked, Units
  <2>3. InOrder(w)'
    BY <1>10, <1>12, <2>2 DEF InOrder, Units
  <2> QED
    BY <2>1, <2>3 DEF WorkerOK
<1> QED
  BY <1>7, <1>9, <1>10, <1>11, <1>13, StepSuffices

\* One unit is fetched: the first of those left, so nothing below it is missing.
LEMMA FetchPreserves ==
  ASSUME DInv, NEW w \in Workers, Fetch(w)
  PROVE  DInv'
PROOF
<1> USE SyncBoundsAssumption
<1> DEFINE u == Min(loc[w].todo)
           more == Cardinality(loc[w].buf) + 1 >= BatchUnits
<1>0. TypeOK /\ Places /\ WorkerOK(w) /\ EvidenceIsBacked
  BY TypeGivesPlaces DEF DInv
<1>1. /\ loc[w] \in Locals
      /\ loc[w].todo \in SUBSET Units /\ loc[w].buf \in SUBSET Units
      /\ loc[w].bad = 0
  BY <1>0 DEF Places, Locals, WorkerOK, HandOK, Fetch
<1>2. /\ UNCHANGED <<mode, data, work, watermark, api, tasks, rec, rtask>>
      /\ Places' => TypeOK'
  BY <1>0
  DEF TypeOK, Fetch, Places, rowVars, taskVars, msgVars, apiVars, cancelVars, recoverVars,
      nonWorker
<1>3. CASE loc[w].todo = {} \/ StopsLoading(w)
  <2> DEFINE p == IF loc[w].buf = {} THEN "loaded" ELSE "write"
             r == [loc[w] EXCEPT !.todo = {}]
  <2>1. loc' = [loc EXCEPT ![w] = r] /\ Goto(w, p)
    BY <1>3 DEF Fetch, Local
  <2>2. r \in Locals /\ p \in WorkerPcs
    BY <1>1, PcsInUse DEF Locals
  <2>3. Places' /\ Alone(w) /\ pc'[w] = p /\ loc'[w] = r
    <3> HIDE DEF r, p
    <3> QED
      BY <1>0, <2>1, <2>2, AssignMoves
  <2>4. loc'[w].buf = loc[w].buf /\ loc'[w].todo = {} /\ loc'[w].bad = 0
    BY <1>1, <2>3 DEF Locals
  <2>5. HandOK(w)' /\ OutcomeOK(w)'
    BY <2>3, <2>4 DEF HandOK, OutcomeOK
  <2>6. InOrder(w)'
    <3>1. SUFFICES ASSUME mode = "date", loc[w].buf # {}
                   PROVE  /\ \A b \in loc[w].buf : \A v \in 1 .. b : v \in data \cup loc[w].buf
                          /\ \A v \in Units : v \in loc[w].buf \cup data
      BY <1>2, <2>3, <2>4 DEF InOrder, LoadingPcs, Units
    <3>2. loc[w].todo = {}
      BY <1>3, <3>1 DEF StopsLoading
    <3> QED
      BY <1>0, <1>1, <3>1, <3>2 DEF WorkerOK, InOrder, LoadingPcs, Fetch
  <2>7. WorkerOK(w)'
    BY <2>5, <2>6 DEF WorkerOK
  <2> QED
    BY <1>2, <2>3, <2>7, QuietSuffices
<1>4. CASE ~(loc[w].todo = {} \/ StopsLoading(w))
  <2> DEFINE p == IF more THEN "write" ELSE "fetch"
             r == [loc[w] EXCEPT !.todo = @ \ {u}, !.buf = @ \cup {u}]
  <2>1. loc' = [loc EXCEPT ![w] = r] /\ Goto(w, p)
    BY <1>4 DEF Fetch
  <2>2. u \in loc[w].todo /\ \A v \in loc[w].todo : u <= v
    <3>1. loc[w].todo \in SUBSET Nat /\ loc[w].todo # {}
      BY <1>1, <1>4 DEF Units
    <3> QED
      BY <3>1, MinIsLeast
  <2> HIDE DEF u, more
  <2>3. r \in Locals /\ p \in WorkerPcs
    BY <1>1, <2>2, PcsInUse DEF Locals
  <2>4. Places' /\ Alone(w) /\ pc'[w] = p /\ loc'[w] = r
    <3> HIDE DEF r, p
    <3> QED
      BY <1>0, <2>1, <2>3, AssignMoves
  <2>5. /\ loc'[w].buf = loc[w].buf \cup {u} /\ loc'[w].todo = loc[w].todo \ {u}
        /\ loc'[w].bad = 0
    BY <1>1, <2>4 DEF Locals
  <2>6. HandOK(w)' /\ OutcomeOK(w)'
    BY <2>4, <2>5 DEF HandOK, OutcomeOK
  <2>7. ASSUME mode = "date"
        PROVE  /\ \A b \in loc[w].buf : \A v \in 1 .. b : v \in data \cup loc[w].buf
               /\ \A v \in Units : v \in loc[w].todo \cup loc[w].buf \cup data
    BY <1>0, <1>1, <2>7 DEF WorkerOK, InOrder, LoadingPcs, Fetch
  <2>8. ASSUME mode = "date", NEW v \in 1 .. u
        PROVE  v \in data \cup loc'[w].buf
    <3>1. v \in Units
      BY <1>1, <2>2 DEF Units
    <3>2. v = u \/ v \notin loc[w].todo
      BY <1>1, <2>2, <3>1 DEF Units
    <3> QED
      BY <2>5, <2>7, <2>8, <3>1, <3>2
  <2>9. InOrder(w)'
    BY <1>2, <2>5, <2>7, <2>8 DEF InOrder, Units
  <2>10. WorkerOK(w)'
    BY <2>6, <2>9 DEF WorkerOK
  <2> QED
    BY <1>2, <2>4, <2>10, QuietSuffices
<1> QED
  BY <1>3, <1>4

\* A unit fails: it is remembered, and by date the batch before it is written.
LEMMA FetchFailsPreserves ==
  ASSUME DInv, NEW w \in Workers, FetchFails(w)
  PROVE  DInv'
PROOF
<1> USE SyncBoundsAssumption
<1> DEFINE u == Min(loc[w].todo)
           p == IF mode = "date" /\ loc[w].buf # {} THEN "write" ELSE "markFailed"
           r == [loc[w] EXCEPT !.todo = loc[w].todo \ {u}, !.bad = u]
<1>0. TypeOK /\ Places /\ WorkerOK(w)
  BY TypeGivesPlaces DEF DInv
<1>1. loc[w] \in Locals /\ loc[w].todo \in SUBSET Units
  BY <1>0 DEF Places, Locals
<1>2. loc' = [loc EXCEPT ![w] = r] /\ Goto(w, p)
  BY DEF FetchFails
<1>3. u \in Units
  <2>1. loc[w].todo \in SUBSET Nat /\ loc[w].todo # {}
    BY <1>1 DEF Units, FetchFails
  <2> QED
    BY <1>1, <2>1, MinIsLeast
<1> HIDE DEF u
<1>4. r \in Locals /\ p \in WorkerPcs
  <2>1. u \in 0 .. N /\ loc[w].todo \ {u} \in SUBSET Units
    BY <1>1, <1>3 DEF Units
  <2>2. r \in Locals
    BY <1>1, <2>1 DEF Locals
  <2> QED
    BY <2>2, PcsInUse
<1>5. Places' /\ Alone(w) /\ pc'[w] = p /\ loc'[w] = r
  <2> HIDE DEF r, p
  <2> QED
    BY <1>0, <1>2, <1>4, AssignMoves
<1>6. faults' \in 0 .. MaxFaults
  BY <1>0 DEF FetchFails, Fault, TypeOK
<1>7. TypeOK'
  BY <1>0, <1>5, <1>6
  DEF TypeOK, FetchFails, Places, rowVars, taskVars, msgVars, apiVars, cancelVars, recoverVars,
      nonWorker
<1>8. UNCHANGED <<mode, data, work, watermark, api, tasks, rec, rtask>>
  BY DEF FetchFails, nonWorker, rowVars, taskVars, apiVars, recoverVars
<1>9. loc'[w].buf = loc[w].buf /\ loc'[w].bad # 0
  BY <1>1, <1>3, <1>5 DEF Locals, Units
<1>10. HandOK(w)' /\ OutcomeOK(w)'
  BY <1>5, <1>9 DEF HandOK, OutcomeOK
<1>11. InOrder(w)'
  BY <1>0, <1>5, <1>8, <1>9 DEF WorkerOK, InOrder, LoadingPcs, FetchFails
<1> QED
  BY <1>5, <1>7, <1>8, <1>10, <1>11, QuietSuffices DEF WorkerOK

\* The batch is written to the canonical store.
LEMMA WriteBatchPreserves ==
  ASSUME DInv, NEW w \in Workers, WriteBatch(w)
  PROVE  DInv'
PROOF
<1>0. TypeOK /\ Places /\ WorkerOK(w) /\ EvidenceIsBacked
  BY TypeGivesPlaces DEF DInv
<1>1. Places' /\ Alone(w) /\ pc'[w] = "meta" /\ loc'[w] = loc[w]
  BY <1>0, StepMoves, PcsInUse DEF WriteBatch
<1>2. data' = data \cup loc[w].buf /\ loc[w].buf \subseteq Units
  BY <1>0 DEF WriteBatch, Places, Locals
<1>3. TypeOK'
  BY <1>0, <1>1, <1>2
  DEF TypeOK, WriteBatch, Places, taskVars, msgVars, apiVars, cancelVars, recoverVars, nonWorker
<1>4. UNCHANGED <<mode, work, watermark, api, tasks, rec, rtask>>
  BY DEF WriteBatch, nonWorker, taskVars, apiVars, recoverVars
<1>5. HandOK(w)' /\ OutcomeOK(w)'
  BY <1>0, <1>1, <1>2 DEF WorkerOK, HandOK, OutcomeOK, WriteBatch
<1>6. InOrder(w)'
  BY <1>0, <1>1, <1>2, <1>4 DEF WorkerOK, InOrder, LoadingPcs, WriteBatch, Units
<1>7. EvidenceIsBacked'
  BY <1>0, <1>2, <1>4 DEF EvidenceIsBacked, Units
<1> QED
  BY <1>1, <1>2, <1>3, <1>4, <1>5, <1>6, <1>7, StepSuffices DEF WorkerOK

\* Its metadata follow: the batch is in the store, and by date nothing below
\* its last unit is missing, so the watermark may move there.
LEMMA PersistMetadataPreserves ==
  ASSUME DInv, NEW w \in Workers, PersistMetadata(w)
  PROVE  DInv'
PROOF
<1> USE SyncBoundsAssumption
<1> DEFINE S == {watermark} \cup loc[w].buf
<1>0. TypeOK /\ Places /\ WorkerOK(w) /\ EvidenceIsBacked
  BY TypeGivesPlaces DEF DInv
<1>1. Places' /\ Alone(w) /\ pc'[w] = "progress" /\ loc'[w] = loc[w]
  BY <1>0, StepMoves, PcsInUse DEF PersistMetadata
<1>2. /\ work' = [u \in Units |-> IF u \in loc[w].buf THEN "committed" ELSE work[u]]
      /\ watermark' = Max(S)
  BY DEF PersistMetadata
<1>3. S \in SUBSET (0 .. N) /\ S # {}
  BY <1>0 DEF TypeOK, Places, Locals, Units
<1>4. watermark' \in S
  <2> HIDE DEF S
  <2> QED
    BY <1>2, <1>3, MaxIsGreatest
<1>5. work' \in [Units -> WorkStates]
  BY <1>0, <1>2 DEF TypeOK, WorkStates
<1>6. TypeOK'
  BY <1>0, <1>1, <1>3, <1>4, <1>5
  DEF TypeOK, PersistMetadata, Places, taskVars, msgVars, apiVars, cancelVars, recoverVars,
      nonWorker
<1>7. UNCHANGED <<mode, data, api, tasks, rec, rtask>>
  BY DEF PersistMetadata, nonWorker, taskVars, apiVars, recoverVars
<1>8. loc[w].buf \subseteq data
  BY <1>0 DEF WorkerOK, HandOK, PersistMetadata
<1>9. HandOK(w)' /\ OutcomeOK(w)'
  BY <1>0, <1>1, <1>7, <1>8 DEF WorkerOK, HandOK, OutcomeOK, PersistMetadata
<1>10. InOrder(w)'
  BY <1>0, <1>1, <1>7 DEF WorkerOK, InOrder, LoadingPcs, PersistMetadata
<1>11. EvidenceIsBacked'
  <2>1. ASSUME mode = "date", NEW u \in 1 .. watermark'
        PROVE  u \in data
    <3>1. CASE watermark' = watermark
      BY <1>0, <2>1, <3>1 DEF EvidenceIsBacked
    <3>2. CASE watermark' \in loc[w].buf
      BY <1>0, <1>8, <2>1, <3>2 DEF WorkerOK, InOrder, LoadingPcs, PersistMetadata
    <3> QED
      BY <1>4, <3>1, <3>2
  <2>2. ASSUME NEW u \in Units, work'[u] = "committed"
        PROVE  u \in data
    BY <1>0, <1>2, <1>8, <2>2 DEF EvidenceIsBacked
  <2> QED
    BY <1>7, <2>1, <2>2 DEF EvidenceIsBacked, Units
<1> QED
  BY <1>1, <1>6, <1>7, <1>9, <1>10, <1>11, StepSuffices DEF WorkerOK

\* The counters and the checkpoint follow.
LEMMA PublishProgressPreserves ==
  ASSUME DInv, NEW w \in Workers, PublishProgress(w)
  PROVE  DInv'
PROOF
<1> USE SyncBoundsAssumption
<1> DEFINE done == Min({N, loc[w].done + Cardinality(loc[w].buf)})
           index == IF mode = "date" THEN done ELSE Max(loc[w].buf)
           p == IF loc[w].bad # 0 THEN "markFailed" ELSE "fetch"
           r == [loc[w] EXCEPT !.buf = {}, !.done = done, !.index = index]
<1>0. TypeOK /\ Places /\ WorkerOK(w)
  BY TypeGivesPlaces DEF DInv
<1>1. /\ loc[w] \in Locals
      /\ loc[w].buf \in SUBSET Units /\ loc[w].buf # {} /\ loc[w].buf \subseteq data
  BY <1>0 DEF Places, Locals, WorkerOK, HandOK, PublishProgress
<1>2. /\ CheckpointItem(index, done, loc[w].fails)
      /\ loc' = [loc EXCEPT ![w] = r]
      /\ Goto(w, p)
  BY DEF PublishProgress
<1>3. done \in 0 .. N
  <2>1. Cardinality(loc[w].buf) \in 0 .. N
    BY <1>1, UnitsCount
  <2>2. loc[w].done \in 0 .. N
    BY <1>1 DEF Locals
  <2> DEFINE S == {N, loc[w].done + Cardinality(loc[w].buf)}
  <2>3. S \in SUBSET Nat /\ S # {}
    BY <2>1, <2>2
  <2>4. Min(S) \in S /\ Min(S) <= N
    BY <2>3, MinIsLeast
  <2> QED
    BY <2>3, <2>4
<1>4. index \in 0 .. N
  <2>1. loc[w].buf \in SUBSET (0 .. N)
    BY <1>1 DEF Units
  <2>2. Max(loc[w].buf) \in loc[w].buf
    BY <1>1, <2>1, MaxIsGreatest
  <2> QED
    BY <1>3, <2>1, <2>2
<1> HIDE DEF done, index
<1>5. r \in Locals /\ p \in WorkerPcs /\ loc[w].fails \in BOOLEAN
  BY <1>1, <1>3, <1>4, PcsInUse DEF Locals
<1>6. Places' /\ Alone(w) /\ pc'[w] = p /\ loc'[w] = r
  <2> HIDE DEF r, p
  <2> QED
    BY <1>0, <1>2, <1>5, AssignMoves
<1>7. item' \in ItemRows /\ fresh' \in BOOLEAN
  BY <1>0, <1>2, <1>3, <1>4, <1>5, CheckpointType
<1>8. TypeOK'
  BY <1>0, <1>6, <1>7
  DEF TypeOK, PublishProgress, Places, taskVars, msgVars, apiVars, cancelVars, recoverVars,
      nonWorker
<1>9. UNCHANGED <<mode, data, work, watermark, api, tasks, rec, rtask>>
  BY DEF PublishProgress, nonWorker, taskVars, apiVars, recoverVars
<1>10. /\ loc'[w].buf = {} /\ loc'[w].bad = loc[w].bad
       /\ loc'[w].todo = loc[w].todo
  BY <1>1, <1>6 DEF Locals
<1>11. HandOK(w)' /\ OutcomeOK(w)'
  BY <1>6, <1>10 DEF HandOK, OutcomeOK
<1>12. InOrder(w)'
  BY <1>0, <1>1, <1>6, <1>9, <1>10 DEF WorkerOK, InOrder, LoadingPcs, PublishProgress, Units
<1> QED
  BY <1>6, <1>8, <1>9, <1>11, <1>12, QuietSuffices DEF WorkerOK

\* The failed unit is recorded.
LEMMA MarkFailedPreserves ==
  ASSUME DInv, NEW w \in Workers, MarkFailed(w)
  PROVE  DInv'
PROOF
<1> USE SyncBoundsAssumption
<1> DEFINE done == Min({N, loc[w].done + 1})
           p == IF mode = "date" THEN "loaded" ELSE "activity"
           todo == IF mode = "date" THEN {} ELSE loc[w].todo
           index == IF mode = "symbol" THEN loc[w].bad ELSE loc[w].index
           r == [loc[w] EXCEPT !.fails = TRUE, !.done = done, !.todo = todo, !.index = index, !.bad = 0]
<1>0. TypeOK /\ Places /\ WorkerOK(w) /\ EvidenceIsBacked
  BY TypeGivesPlaces DEF DInv
<1>1. loc[w] \in Locals
  BY <1>0 DEF Places
<1>2. /\ work' = [work EXCEPT ![loc[w].bad] = "failed"]
      /\ loc' = [loc EXCEPT ![w] = r]
      /\ Goto(w, p)
  BY DEF MarkFailed
<1>3. done \in 0 .. N
  <2>1. loc[w].done \in 0 .. N
    BY <1>1 DEF Locals
  <2> DEFINE S == {N, loc[w].done + 1}
  <2>2. S \in SUBSET Nat /\ S # {}
    BY <2>1
  <2>3. Min(S) \in S /\ Min(S) <= N
    BY <2>2, MinIsLeast
  <2> QED
    BY <2>2, <2>3
<1>4. r \in Locals /\ p \in WorkerPcs
  <2>1. todo \in SUBSET Units /\ index \in 0 .. N /\ 0 \in 0 .. N
    BY <1>1 DEF Locals
  <2>2. r \in Locals
    <3> HIDE DEF done, todo, index
    <3> QED
      BY <1>1, <1>3, <2>1 DEF Locals
  <2> QED
    BY <2>2, PcsInUse
<1> HIDE DEF done, todo, index
<1>5. Places' /\ Alone(w) /\ pc'[w] = p /\ loc'[w] = r
  <2> HIDE DEF r, p
  <2> QED
    BY <1>0, <1>2, <1>4, AssignMoves
<1>6. work' \in [Units -> WorkStates]
  BY <1>0, <1>2 DEF TypeOK, WorkStates
<1>7. TypeOK'
  BY <1>0, <1>5, <1>6
  DEF TypeOK, MarkFailed, Places, taskVars, msgVars, apiVars, cancelVars, recoverVars, nonWorker
<1>8. UNCHANGED <<mode, data, watermark, api, tasks, rec, rtask>>
  BY DEF MarkFailed, nonWorker, taskVars, apiVars, recoverVars
<1>9. loc'[w].bad = 0
  BY <1>1, <1>5 DEF Locals
<1>10. WorkerOK(w)'
  BY <1>5, <1>8, <1>9 DEF WorkerOK, HandOK, OutcomeOK, InOrder, LoadingPcs
<1>11. EvidenceIsBacked'
  BY <1>0, <1>2, <1>8 DEF EvidenceIsBacked, TypeOK, Units
<1> QED
  BY <1>5, <1>7, <1>8, <1>10, <1>11, StepSuffices

\* The derived payloads that are written.
LEMMA DerivedTypes ==
  /\ [status |-> "blocked", failed |-> FALSE] \in DerivedRows
  /\ [status |-> "queued", failed |-> FALSE] \in DerivedRows
  /\ [status |-> "enqueue_failed", failed |-> FALSE] \in DerivedRows
  /\ \A f \in BOOLEAN : \A d \in {"running", "partial", "ready"} : [status |-> d, failed |-> f] \in DerivedRows
PROOF
  BY DEF DerivedRows, DerivedStates

\* Progress, the end of the dataset, and the exceptions of the load.
LEMMA ItemPreserves ==
  ASSUME DInv, NEW w \in Workers
  PROVE  /\ PublishActivity(w) => DInv'
         /\ AfterDataset(w) => DInv'
         /\ EndItem(w) => DInv'
         /\ LoadRaises(w) => DInv'
         /\ ItemFailed(w) => DInv'
         /\ PauseItem(w) => DInv'
         /\ PauseRun(w) => DInv'
PROOF
<1> USE SyncBoundsAssumption
<1>0. TypeOK /\ Places /\ WorkerOK(w)
  BY TypeGivesPlaces DEF DInv
<1>1. ASSUME PublishActivity(w)
      PROVE  DInv'
  <2>1. Places' /\ Alone(w) /\ pc'[w] = "fetch" /\ loc'[w] = loc[w]
    BY <1>1, <1>0, StepMoves, PcsInUse DEF PublishActivity
  <2>2. item' \in ItemRows /\ fresh' \in BOOLEAN
    BY <1>1, <1>0, CheckpointType DEF PublishActivity, Places, Locals
  <2>3. TypeOK'
    BY <1>1, <1>0, <2>1, <2>2
    DEF TypeOK, PublishActivity, Places, taskVars, msgVars, apiVars, cancelVars, recoverVars,
        nonWorker
  <2>4. WorkerOK(w)'
    BY <1>1, <1>0, <2>1
    DEF WorkerOK, HandOK, InOrder, OutcomeOK, LoadingPcs, PublishActivity, nonWorker
  <2> QED
    BY <1>1, <2>1, <2>3, <2>4, QuietSuffices
    DEF PublishActivity, taskVars, msgVars, apiVars, cancelVars, recoverVars, nonWorker
<1>2. ASSUME AfterDataset(w)
      PROVE  DInv'
  <2>1. Places' /\ Alone(w) /\ pc'[w] \in {"itemDone", "itemCancelled", "evidence"}
    BY <1>2, <1>0, StepMoves, PcsInUse DEF AfterDataset
  <2>2. TypeOK'
    BY <1>2, <1>0, <2>1
    DEF TypeOK, AfterDataset, Places, rowVars, taskVars, msgVars, apiVars, cancelVars, recoverVars,
        nonWorker
  <2>3. WorkerOK(w)'
    BY <1>2, <1>0, <2>1 DEF WorkerOK, HandOK, InOrder, OutcomeOK, LoadingPcs
  <2> QED
    BY <1>2, <2>1, <2>2, <2>3, QuietSuffices
    DEF AfterDataset, rowVars, taskVars, msgVars, apiVars, cancelVars, recoverVars, nonWorker
<1>3. ASSUME EndItem(w)
      PROVE  DInv'
  <2>1. Places' /\ Alone(w) /\ pc'[w] = "evidence"
    BY <1>3, <1>0, StepMoves, PcsInUse DEF EndItem
  <2>2. item' \in ItemRows
    BY <1>3, <1>0 DEF EndItem, TypeOK, ItemRows, ItemStates, ItemResult, Places, Locals
  <2>3. fresh' \in BOOLEAN
    BY <1>3, <1>0 DEF EndItem, TypeOK, Beat
  <2>4. TypeOK'
    BY <1>3, <1>0, <2>1, <2>2, <2>3
    DEF TypeOK, EndItem, Places, taskVars, msgVars, apiVars, cancelVars, recoverVars, nonWorker
  <2>5. WorkerOK(w)'
    BY <1>3, <1>0, <2>1 DEF WorkerOK, HandOK, InOrder, OutcomeOK, LoadingPcs
  <2> QED
    BY <1>3, <2>1, <2>4, <2>5, QuietSuffices
    DEF EndItem, taskVars, msgVars, apiVars, cancelVars, recoverVars, nonWorker
<1>4. ASSUME LoadRaises(w)
      PROVE  DInv'
  <2>1. Places' /\ Alone(w) /\ pc'[w] \in {"pauseItem", "itemFailed"}
    <3>1. loc' = [loc EXCEPT ![w] = [loc[w] EXCEPT !.buf = {}]]
      BY <1>4, <1>0 DEF LoadRaises, Local
    <3>2. [loc[w] EXCEPT !.buf = {}] \in Locals
      BY <1>0 DEF Places, Locals
    <3> QED
      BY <1>4, <1>0, <3>1, <3>2, AssignMoves, PcsInUse DEF LoadRaises
  <2>2. faults' \in 0 .. MaxFaults
    BY <1>4, <1>0 DEF LoadRaises, TypeOK, Fault
  <2>3. TypeOK'
    BY <1>4, <1>0, <2>1, <2>2
    DEF TypeOK, LoadRaises, Places, rowVars, taskVars, msgVars, apiVars, cancelVars, recoverVars,
        nonWorker
  <2>4. WorkerOK(w)'
    BY <1>4, <1>0, <2>1 DEF WorkerOK, HandOK, InOrder, OutcomeOK, LoadingPcs
  <2> QED
    BY <1>4, <2>1, <2>3, <2>4, QuietSuffices
    DEF LoadRaises, rowVars, taskVars, msgVars, apiVars, cancelVars, recoverVars, nonWorker
<1>5. ASSUME ItemFailed(w)
      PROVE  DInv'
  <2>1. Places' /\ Alone(w) /\ pc'[w] = "evidence"
    <3>1. loc' = [loc EXCEPT ![w] = [loc[w] EXCEPT !.fails = TRUE]]
      BY <1>5, <1>0 DEF ItemFailed, Local
    <3>2. [loc[w] EXCEPT !.fails = TRUE] \in Locals
      BY <1>0 DEF Places, Locals
    <3> QED
      BY <1>5, <1>0, <3>1, <3>2, AssignMoves, PcsInUse DEF ItemFailed
  <2>2. item' \in ItemRows
    BY <1>5, <1>0 DEF ItemFailed, TypeOK, ItemRows, ItemStates
  <2>3. fresh' \in BOOLEAN
    BY <1>5, <1>0 DEF ItemFailed, TypeOK, Beat
  <2>4. TypeOK'
    BY <1>5, <1>0, <2>1, <2>2, <2>3
    DEF TypeOK, ItemFailed, Places, taskVars, msgVars, apiVars, cancelVars, recoverVars, nonWorker
  <2>5. WorkerOK(w)'
    BY <1>5, <1>0, <2>1 DEF WorkerOK, HandOK, InOrder, OutcomeOK, LoadingPcs
  <2> QED
    BY <1>5, <2>1, <2>4, <2>5, QuietSuffices
    DEF ItemFailed, taskVars, msgVars, apiVars, cancelVars, recoverVars, nonWorker
<1>6. ASSUME PauseItem(w)
      PROVE  DInv'
  <2>1. Places' /\ Alone(w) /\ pc'[w] = "pauseRun"
    BY <1>6, <1>0, StepMoves, PcsInUse DEF PauseItem
  <2>2. item' \in ItemRows
    BY <1>6, <1>0 DEF PauseItem, TypeOK, ItemRows, ItemStates
  <2>3. fresh' \in BOOLEAN
    BY <1>6, <1>0 DEF PauseItem, TypeOK, Beat
  <2>4. TypeOK'
    BY <1>6, <1>0, <2>1, <2>2, <2>3
    DEF TypeOK, PauseItem, Places, taskVars, msgVars, apiVars, cancelVars, recoverVars, nonWorker
  <2>5. WorkerOK(w)'
    BY <1>6, <1>0, <2>1 DEF WorkerOK, HandOK, InOrder, OutcomeOK, LoadingPcs
  <2> QED
    BY <1>6, <2>1, <2>4, <2>5, QuietSuffices
    DEF PauseItem, taskVars, msgVars, apiVars, cancelVars, recoverVars, nonWorker
<1>7. ASSUME PauseRun(w)
      PROVE  DInv'
  <2>1. Places' /\ Alone(w) /\ pc'[w] = "finishTask"
    <3>1. loc' = [loc EXCEPT ![w] = [loc[w] EXCEPT !.out = "paused"]]
      BY <1>7, <1>0 DEF PauseRun, Local
    <3>2. [loc[w] EXCEPT !.out = "paused"] \in Locals
      BY <1>0 DEF Places, Locals, RunStates, RESUMABLE
    <3> QED
      BY <1>7, <1>0, <3>1, <3>2, AssignMoves, PcsInUse DEF PauseRun
  <2>2. run' \in RunRows
    BY <1>7, <1>0 DEF PauseRun, TypeOK, RunRows, RunStates, ACTIVE, RESUMABLE
  <2>3. derived' \in DerivedRows
    BY <1>7, <1>0, DerivedTypes DEF PauseRun, TypeOK
  <2>4. TypeOK'
    BY <1>7, <1>0, <2>1, <2>2, <2>3
    DEF TypeOK, PauseRun, Places, taskVars, msgVars, apiVars, cancelVars, recoverVars, nonWorker
  <2>5. WorkerOK(w)'
    BY <1>7, <1>0, <2>1 DEF WorkerOK, HandOK, InOrder, OutcomeOK, LoadingPcs
  <2> QED
    BY <1>7, <2>1, <2>4, <2>5, QuietSuffices
    DEF PauseRun, taskVars, msgVars, apiVars, cancelVars, recoverVars, nonWorker
<1> QED
  BY <1>1, <1>2, <1>3, <1>4, <1>5, <1>6, <1>7

\* The outcome of the run, its task row, and the handlers of exceptions.
LEMMA SettlePreserves ==
  ASSUME DInv, NEW w \in Workers
  PROVE  /\ Evidence(w) => DInv'
         /\ Finish(w) => DInv'
         /\ EnqueueMaterialization(w) => DInv'
         /\ FinishTask(w) => DInv'
         /\ RaiseRun(w) => DInv'
         /\ RaiseTask(w) => DInv'
         /\ MarkRunFailed(w) => DInv'
PROOF
<1> USE SyncBoundsAssumption
<1>0. TypeOK /\ Places /\ WorkerOK(w)
  BY TypeGivesPlaces DEF DInv
<1>1. ASSUME Evidence(w)
      PROVE  DInv'
  <2>1. Places' /\ Alone(w) /\ pc'[w] = "finish" /\ loc'[w].out \in Outcomes
    <3> DEFINE degraded == loc[w].fails \/ item.status # "success" \/ item.failed \/ watermark = 0
               out == CASE Cancelled(loc[w].task) -> "cancelled"
                        [] loc[w].out = "failed" -> "failed"
                        [] degraded -> "partial"
                        [] OTHER -> "success"
               r == [loc[w] EXCEPT !.out = out, !.derived = derived]
    <3>1. loc' = [loc EXCEPT ![w] = r] /\ Goto(w, "finish")
      BY <1>1, <1>0 DEF Evidence
    <3>2. out \in Outcomes
      <4> HIDE DEF degraded
      <4> QED
        BY Zenon DEF Outcomes
    <3> HIDE DEF out
    <3>3. r \in Locals /\ r.out = out
      BY <1>0, <3>2 DEF Places, Locals, TypeOK, Outcomes, RunStates, RESUMABLE
    <3> QED
      <4> HIDE DEF r
      <4> QED
        BY <1>0, <3>1, <3>2, <3>3, AssignMoves, PcsInUse
  <2>2. TypeOK'
    BY <1>1, <1>0, <2>1
    DEF TypeOK, Evidence, Places, rowVars, taskVars, msgVars, apiVars, cancelVars, recoverVars,
        nonWorker
  <2>3. WorkerOK(w)'
    BY <1>1, <1>0, <2>1 DEF WorkerOK, HandOK, InOrder, OutcomeOK, LoadingPcs
  <2> QED
    BY <1>1, <2>1, <2>2, <2>3, QuietSuffices
    DEF Evidence, rowVars, taskVars, msgVars, apiVars, cancelVars, recoverVars, nonWorker
<1>2. ASSUME Finish(w)
      PROVE  DInv'
  <2>1. Places' /\ Alone(w) /\ pc'[w] \in {"enqueue", "finishTask"}
    BY <1>2, <1>0, StepMoves, PcsInUse DEF Finish
  <2>2. run' \in RunRows
    BY <1>2, <1>0
    DEF Finish, TypeOK, RunRows, RunStates, ACTIVE, RESUMABLE, CanonicalOf, WorkerOK, OutcomeOK,
        Outcomes
  <2>3. derived' \in DerivedRows
    <3>1. loc[w].derived \in DerivedRows /\ derived \in DerivedRows
      BY <1>0 DEF TypeOK, Places, Locals
    <3>2. \/ derived' = derived \/ derived' = loc[w].derived
          \/ derived' = [status |-> "blocked", failed |-> FALSE]
          \/ derived' = [status |-> "queued", failed |-> FALSE]
      BY <1>2, Zenon DEF Finish
    <3> QED
      BY <3>1, <3>2, DerivedTypes
  <2>4. TypeOK'
    BY <1>2, <1>0, <2>1, <2>2, <2>3
    DEF TypeOK, Finish, Places, taskVars, msgVars, apiVars, cancelVars, recoverVars, nonWorker
  <2>5. WorkerOK(w)'
    BY <1>2, <1>0, <2>1 DEF WorkerOK, HandOK, InOrder, OutcomeOK, LoadingPcs
  <2> QED
    BY <1>2, <2>1, <2>4, <2>5, QuietSuffices
    DEF Finish, taskVars, msgVars, apiVars, cancelVars, recoverVars, nonWorker
<1>3. ASSUME EnqueueMaterialization(w)
      PROVE  DInv'
  <2>1. Places' /\ Alone(w) /\ pc'[w] = "finishTask"
    BY <1>3, <1>0, StepMoves, PcsInUse DEF EnqueueMaterialization
  <2>2. derived' \in DerivedRows
    BY <1>3, <1>0, DerivedTypes DEF EnqueueMaterialization, TypeOK
  <2>3. mats' \in 0 .. MaxCopies
    BY <1>3, <1>0, OneMoreType DEF EnqueueMaterialization, TypeOK
  <2>4. faults' \in 0 .. MaxFaults
    BY <1>3, <1>0 DEF EnqueueMaterialization, TypeOK, Fault
  <2>5. TypeOK'
    BY <1>3, <1>0, <2>1, <2>2, <2>3, <2>4
    DEF TypeOK, EnqueueMaterialization, Places, taskVars, apiVars, cancelVars, recoverVars,
        nonWorker
  <2>6. WorkerOK(w)'
    BY <1>3, <1>0, <2>1 DEF WorkerOK, HandOK, InOrder, OutcomeOK, LoadingPcs
  <2> QED
    BY <1>3, <2>1, <2>5, <2>6, QuietSuffices
    DEF EnqueueMaterialization, taskVars, apiVars, cancelVars, recoverVars, nonWorker
<1>4. ASSUME FinishTask(w)
      PROVE  DInv'
  <2>1. Places' /\ Alone(w) /\ pc'[w] = "idle" /\ loc'[w] = Blank
    BY <1>4, <1>0, ReturnMoves DEF FinishTask
  <2>2. task' \in [TaskIds -> TaskStates]
    BY <1>4, <1>0 DEF FinishTask, TypeOK, TaskStates, TaskEnded, TaskResult
  <2>3. TypeOK'
    BY <1>4, <1>0, <2>1, <2>2
    DEF TypeOK, FinishTask, Places, rowVars, msgVars, apiVars, cancelVars, recoverVars, nonWorker
  <2>4. WorkerOK(w)'
    BY <2>1, ReturnedOK
  <2> QED
    BY <1>4, <2>1, <2>3, <2>4, QuietSuffices
    DEF FinishTask, rowVars, msgVars, apiVars, cancelVars, recoverVars, nonWorker
<1>5. ASSUME RaiseRun(w)
      PROVE  DInv'
  <2>1. Places' /\ Alone(w) /\ pc'[w] = "raiseTask"
    BY <1>5, <1>0, StepMoves, PcsInUse DEF RaiseRun
  <2>2. run' \in RunRows
    BY <1>5, <1>0 DEF RaiseRun, TypeOK, RunRows, RunStates, ACTIVE, RESUMABLE, FailedRun
  <2>3. TypeOK'
    BY <1>5, <1>0, <2>1, <2>2
    DEF TypeOK, RaiseRun, Places, taskVars, msgVars, apiVars, cancelVars, recoverVars, nonWorker
  <2>4. WorkerOK(w)'
    BY <1>5, <1>0, <2>1 DEF WorkerOK, HandOK, InOrder, OutcomeOK, LoadingPcs
  <2> QED
    BY <1>5, <2>1, <2>3, <2>4, QuietSuffices
    DEF RaiseRun, taskVars, msgVars, apiVars, cancelVars, recoverVars, nonWorker
<1>6. ASSUME RaiseTask(w)
      PROVE  DInv'
  <2>1. Places' /\ Alone(w) /\ pc'[w] = "raiseMark"
    BY <1>6, <1>0, StepMoves, PcsInUse DEF RaiseTask
  <2>2. task' \in [TaskIds -> TaskStates]
    BY <1>6, <1>0 DEF RaiseTask, TypeOK, TaskStates, TaskEnded
  <2>3. TypeOK'
    BY <1>6, <1>0, <2>1, <2>2
    DEF TypeOK, RaiseTask, Places, rowVars, msgVars, apiVars, cancelVars, recoverVars, nonWorker
  <2>4. WorkerOK(w)'
    BY <1>6, <1>0, <2>1 DEF WorkerOK, HandOK, InOrder, OutcomeOK, LoadingPcs
  <2> QED
    BY <1>6, <2>1, <2>3, <2>4, QuietSuffices
    DEF RaiseTask, rowVars, msgVars, apiVars, cancelVars, recoverVars, nonWorker
<1>7. ASSUME MarkRunFailed(w)
      PROVE  DInv'
  <2>1. Places' /\ Alone(w) /\ pc'[w] = "idle" /\ loc'[w] = Blank
    BY <1>7, <1>0, ReturnMoves DEF MarkRunFailed
  <2>2. run' \in RunRows
    BY <1>7, <1>0 DEF MarkRunFailed, TypeOK, RunRows, RunStates, ACTIVE, RESUMABLE, FailedRun
  <2>3. TypeOK'
    BY <1>7, <1>0, <2>1, <2>2
    DEF TypeOK, MarkRunFailed, Places, taskVars, msgVars, apiVars, cancelVars, recoverVars,
        nonWorker
  <2>4. WorkerOK(w)'
    BY <2>1, ReturnedOK
  <2> QED
    BY <1>7, <2>1, <2>3, <2>4, QuietSuffices
    DEF MarkRunFailed, taskVars, msgVars, apiVars, cancelVars, recoverVars, nonWorker
<1> QED
  BY <1>1, <1>2, <1>3, <1>4, <1>5, <1>6, <1>7

\* materialize_sync_data, and the loss of a worker.
LEMMA MaterializePreserves ==
  ASSUME DInv, NEW w \in Workers
  PROVE  /\ ReceiveMaterialize(w) => DInv'
         /\ MaterializeRead(w) => DInv'
         /\ MaterializePersist(w) => DInv'
         /\ MaterializeEnd(w) => DInv'
         /\ Crash(w) => DInv'
         /\ Terminate(w) => DInv'
PROOF
<1> USE SyncBoundsAssumption
<1>0. TypeOK /\ Places /\ WorkerOK(w)
  BY TypeGivesPlaces DEF DInv
<1>1. ASSUME ReceiveMaterialize(w)
      PROVE  DInv'
  <2>1. Places' /\ Alone(w) /\ /\ pc'[w] \in {"idle", "matRead"}
                               /\ pc[w] = "idle" /\ loc'[w] = loc[w]
    <3>1. CASE lock = Nobody
      BY <1>1, <1>0, <3>1, StepMoves, PcsInUse DEF ReceiveMaterialize
    <3>2. CASE lock # Nobody
      BY <1>1, <1>0, <3>2 DEF ReceiveMaterialize, Places, Alone
    <3> QED
      BY <3>1, <3>2
  <2>2. mats' \in 0 .. MaxCopies
    BY <1>1, <1>0 DEF ReceiveMaterialize, TypeOK
  <2>3. lock' \in Workers \cup {Nobody}
    BY <1>1, <1>0 DEF ReceiveMaterialize, TypeOK
  <2>4. TypeOK'
    BY <1>1, <1>0, <2>1, <2>2, <2>3
    DEF TypeOK, ReceiveMaterialize, Places, rowVars, taskVars, apiVars, cancelVars, recoverVars,
        nonWorker
  <2>5. WorkerOK(w)'
    BY <1>1, <1>0, <2>1 DEF WorkerOK, HandOK, InOrder, OutcomeOK, LoadingPcs
  <2> QED
    BY <1>1, <2>1, <2>4, <2>5, QuietSuffices
    DEF ReceiveMaterialize, rowVars, taskVars, apiVars, cancelVars, recoverVars, nonWorker
<1>2. ASSUME MaterializeRead(w)
      PROVE  DInv'
  <2>1. Places' /\ Alone(w) /\ \/ pc'[w] = "idle" /\ loc'[w] = Blank
                               \/ pc'[w] = "matPersist"
    <3>1. CASE derived.status = "ready"
      BY <1>2, <1>0, <3>1, ReturnMoves DEF MaterializeRead
    <3>2. CASE derived.status # "ready"
      <4> DEFINE f == derived.status \in {"queued", "running"} /\ derived.failed
      <4>1. loc' = [loc EXCEPT ![w] = [loc[w] EXCEPT !.fails = f]]
        BY <1>2, <1>0, <3>2 DEF MaterializeRead, Local
      <4>2. f \in BOOLEAN
        BY <1>0 DEF TypeOK, DerivedRows
      <4> HIDE DEF f
      <4>3. [loc[w] EXCEPT !.fails = f] \in Locals
        BY <1>0, <4>2 DEF Places, Locals
      <4> QED
        BY <1>2, <1>0, <3>2, <4>1, <4>3, AssignMoves, PcsInUse DEF MaterializeRead
    <3> QED
      BY <3>1, <3>2
  <2>2. lock' \in Workers \cup {Nobody}
    BY <1>2, <1>0 DEF MaterializeRead, TypeOK
  <2>3. TypeOK'
    BY <1>2, <1>0, <2>1, <2>2
    DEF TypeOK, MaterializeRead, Places, rowVars, taskVars, msgVars, apiVars, cancelVars,
        recoverVars, nonWorker
  <2>4. WorkerOK(w)'
    BY <1>2, <1>0, <2>1 DEF WorkerOK, HandOK, InOrder, OutcomeOK, LoadingPcs, Blank
  <2> QED
    BY <1>2, <2>1, <2>3, <2>4, QuietSuffices
    DEF MaterializeRead, rowVars, taskVars, msgVars, apiVars, cancelVars, recoverVars, nonWorker
<1>3. ASSUME MaterializePersist(w)
      PROVE  DInv'
  <2>1. Places' /\ Alone(w) /\ pc'[w] = "matEnd"
    <3>0. loc[w].fails \in BOOLEAN
      BY <1>0 DEF Places, Locals
    <3>1. PICK f \in {loc[w].fails, TRUE} : loc' = [loc EXCEPT ![w] = [loc[w] EXCEPT !.fails = f]]
      BY <1>3, <1>0 DEF MaterializePersist, Local
    <3>2. [loc[w] EXCEPT !.fails = f] \in Locals
      BY <1>0, <3>0, <3>1 DEF Places, Locals
    <3> QED
      BY <1>3, <1>0, <3>1, <3>2, AssignMoves, PcsInUse DEF MaterializePersist
  <2>2. derived' \in DerivedRows
    BY <1>3, <1>0, DerivedTypes DEF MaterializePersist, TypeOK, Places, Locals
  <2>3. TypeOK'
    BY <1>3, <1>0, <2>1, <2>2
    DEF TypeOK, MaterializePersist, Places, taskVars, msgVars, apiVars, cancelVars, recoverVars,
        nonWorker
  <2>4. WorkerOK(w)'
    BY <1>3, <1>0, <2>1 DEF WorkerOK, HandOK, InOrder, OutcomeOK, LoadingPcs
  <2> QED
    BY <1>3, <2>1, <2>3, <2>4, QuietSuffices
    DEF MaterializePersist, taskVars, msgVars, apiVars, cancelVars, recoverVars, nonWorker
<1>4. ASSUME MaterializeEnd(w)
      PROVE  DInv'
  <2>1. Places' /\ Alone(w) /\ pc'[w] = "idle" /\ loc'[w] = Blank
    BY <1>4, <1>0, ReturnMoves DEF MaterializeEnd
  <2>2. derived' \in DerivedRows
    BY <1>4, <1>0, DerivedTypes DEF MaterializeEnd, TypeOK, Places, Locals
  <2>3. TypeOK'
    BY <1>4, <1>0, <2>1, <2>2
    DEF TypeOK, MaterializeEnd, Places, taskVars, msgVars, apiVars, cancelVars, recoverVars,
        nonWorker
  <2>4. WorkerOK(w)'
    BY <2>1, ReturnedOK
  <2> QED
    BY <1>4, <2>1, <2>3, <2>4, QuietSuffices
    DEF MaterializeEnd, taskVars, msgVars, apiVars, cancelVars, recoverVars, nonWorker
<1>5. ASSUME Crash(w)
      PROVE  DInv'
  <2>1. Places' /\ Alone(w) /\ pc'[w] = "idle" /\ loc'[w] = Blank
    BY <1>5, <1>0, ReturnMoves DEF Crash
  <2>2. msgs' \in [TaskIds -> 0 .. MaxCopies]
    BY <1>5, <1>0, OneMoreType DEF Crash, TypeOK
  <2>3. mats' \in 0 .. MaxCopies
    BY <1>5, <1>0, OneMoreType DEF Crash, TypeOK
  <2>4. lock' \in Workers \cup {Nobody}
    BY <1>5, <1>0 DEF Crash, TypeOK
  <2>5. faults' \in 0 .. MaxFaults
    BY <1>5, <1>0 DEF Crash, TypeOK, Fault
  <2>6. TypeOK'
    BY <1>5, <1>0, <2>1, <2>2, <2>3, <2>4, <2>5
    DEF TypeOK, Crash, Places, rowVars, taskVars, apiVars, cancelVars, recoverVars, nonWorker
  <2>7. WorkerOK(w)'
    BY <2>1, ReturnedOK
  <2> QED
    BY <1>5, <2>1, <2>6, <2>7, QuietSuffices
    DEF Crash, rowVars, taskVars, apiVars, cancelVars, recoverVars, nonWorker
<1>6. ASSUME Terminate(w)
      PROVE  DInv'
  <2>1. Places' /\ Alone(w) /\ pc'[w] = "idle" /\ loc'[w] = Blank
    BY <1>6, <1>0, ReturnMoves DEF Terminate
  <2>2. TypeOK'
    BY <1>6, <1>0, <2>1
    DEF TypeOK, Terminate, Places, rowVars, taskVars, msgVars, apiVars, cancelVars, recoverVars,
        nonWorker
  <2>3. WorkerOK(w)'
    BY <2>1, ReturnedOK
  <2> QED
    BY <1>6, <2>1, <2>2, <2>3, QuietSuffices
    DEF Terminate, rowVars, taskVars, msgVars, apiVars, cancelVars, recoverVars, nonWorker
<1> QED
  BY <1>1, <1>2, <1>3, <1>4, <1>5, <1>6

\* sync_all_data is delivered; a revoked message is discarded.
LEMMA ReceivePreserves ==
  ASSUME DInv, NEW w \in Workers, NEW t \in TaskIds
  PROVE  /\ Receive(w, t) => DInv'
PROOF
<1> USE SyncBoundsAssumption
<1>0. TypeOK /\ Places /\ WorkerOK(w)
  BY TypeGivesPlaces DEF DInv
<1>1. ASSUME Receive(w, t)
      PROVE  DInv'
  <2>1. Places' /\ Alone(w) /\ /\ pc'[w] \in {"idle", "markTask"}
                               /\ loc'[w].buf = {} /\ loc'[w].bad = 0
    <3>0. loc[w] \in Locals /\ loc[w].buf = {} /\ loc[w].bad = 0
      BY <1>1, <1>0 DEF Receive, WorkerOK, HandOK, Places
    <3>3. t \in 0 .. MaxTasks
      BY DEF TaskIds
    <3>1. CASE t \in revoked
      BY <1>1, <1>0, <3>0, <3>1 DEF Receive, workerVars, Places, Alone
    <3>2. CASE t \notin revoked
      <4>1. loc' = [loc EXCEPT ![w] = [loc[w] EXCEPT !.task = t]]
        BY <1>1, <1>0, <3>2 DEF Receive, Local
      <4>2. [loc[w] EXCEPT !.task = t] \in Locals
        BY <3>0, <3>3 DEF Locals
      <4>3. Places' /\ Alone(w) /\ pc'[w] = "markTask" /\ loc'[w] = [loc[w] EXCEPT !.task = t]
        BY <1>1, <1>0, <3>2, <4>1, <4>2, AssignMoves, PcsInUse DEF Receive
      <4> QED
        BY <3>0, <4>3 DEF Locals
    <3> QED
      BY <3>1, <3>2
  <2>2. msgs' \in [TaskIds -> 0 .. MaxCopies]
    BY <1>1, <1>0 DEF Receive, TypeOK
  <2>3. TypeOK'
    BY <1>1, <1>0, <2>1, <2>2
    DEF TypeOK, Receive, Places, rowVars, taskVars, workerVars, apiVars, cancelVars, recoverVars,
        nonWorker
  <2>4. WorkerOK(w)'
    BY <1>1, <1>0, <2>1 DEF WorkerOK, HandOK, InOrder, OutcomeOK, LoadingPcs
  <2> QED
    BY <1>1, <2>1, <2>3, <2>4, QuietSuffices
    DEF Receive, rowVars, taskVars, workerVars, apiVars, cancelVars, recoverVars, nonWorker
<1> QED
  BY <1>1

(***************************************************************************)
(* The theorems.                                                           *)
(***************************************************************************)
LEMMA InitDInv == Init => DInv
PROOF
<1> SUFFICES ASSUME Init
             PROVE  DInv
  OBVIOUS
<1> USE SyncBoundsAssumption
<1>1. run \in RunRows /\ derived \in DerivedRows /\ rsnap \in DerivedRows
  BY DEF Init, RunRows, RunStates, NoDerived, DerivedRows, DerivedStates
<1>2. item \in ItemRows /\ snap \in ItemRows
  BY FreshItemType DEF Init
<1>3. work \in [Units -> WorkStates] /\ task \in [TaskIds -> TaskStates]
  BY DEF Init, WorkStates, TaskStates
<1>4. pc \in [Workers -> WorkerPcs] /\ loc \in [Workers -> Locals]
  BY BlankType, PcsInUse DEF Init
<1>5. api \in ApiPcs /\ can \in CancelPcs /\ rec \in RecoverPcs
  BY DEF Init, ApiPcs, CancelPcs, RecoverPcs
<1>6. msgs \in [TaskIds -> 0 .. MaxCopies] /\ mats \in 0 .. MaxCopies
  BY DEF Init
<1>7. /\ mode \in Modes /\ base \in BaseModes /\ data \subseteq Units /\ watermark \in 0 .. N
      /\ fresh \in BOOLEAN /\ dfresh \in BOOLEAN
  BY DEF Init
<1>8. /\ celery \subseteq TaskIds /\ revoked \subseteq TaskIds /\ tasks \in 0 .. MaxTasks
      /\ lock \in Workers \cup {Nobody} /\ ctask \in 0 .. MaxTasks /\ rtask \in 0 .. MaxTasks
      /\ faults \in 0 .. MaxFaults
  BY DEF Init
<1>9. TypeOK
  BY <1>1, <1>2, <1>3, <1>4, <1>5, <1>6, <1>7, <1>8 DEF TypeOK
<1>10. BoundOK
  BY DEF Init, BoundOK
<1>11. ASSUME NEW w \in Workers
       PROVE  WorkerOK(w)
  BY DEF Init, WorkerOK, HandOK, InOrder, OutcomeOK, LoadingPcs, Blank
<1>12. EvidenceIsBacked
  BY DEF Init, EvidenceIsBacked, Units
<1> QED
  BY <1>9, <1>10, <1>11, <1>12 DEF DInv

\* DInv is inductive.
LEMMA NextDInv == DInv /\ [Next]_vars => DInv'
PROOF
<1> SUFFICES ASSUME DInv, [Next]_vars
             PROVE  DInv'
  OBVIOUS
<1>1. ASSUME create_sync_run \/ ResumeRead \/ ApiStep \/ PublishFails \/ ApiCrash
      PROVE  DInv'
  BY <1>1, ApiPreserves DEF ApiStep
<1>2. ASSUME CancelRead \/ CancelStep \/ CancelCrash
      PROVE  DInv'
  BY <1>2, CancelPreserves DEF CancelStep
<1>3. ASSUME Age \/ AgeDerived \/ RecoverRead \/ RecoverStep
      PROVE  DInv'
  BY <1>3, RecoveryPreserves DEF RecoverStep
<1>4. ASSUME NEW w \in Workers, NEW t \in TaskIds, Receive(w, t)
      PROVE  DInv'
  BY <1>4, ReceivePreserves
<1>5. ASSUME NEW w \in Workers, SyncStep(w)
      PROVE  DInv'
  BY <1>5, StartPreserves, PlanPreserves, FetchPreserves, WriteBatchPreserves,
     PersistMetadataPreserves, PublishProgressPreserves, MarkFailedPreserves, ItemPreserves,
     SettlePreserves DEF SyncStep
<1>6. ASSUME NEW w \in Workers,
             PrepareRaises(w) \/ RequiredFails(w) \/ FetchFails(w) \/ LoadRaises(w)
      PROVE  DInv'
  BY <1>6, StartPreserves, FetchFailsPreserves, ItemPreserves
<1>7. ASSUME NEW w \in Workers,
             ReceiveMaterialize(w) \/ MaterializeStep(w) \/ Crash(w) \/ Terminate(w)
      PROVE  DInv'
  BY <1>7, MaterializePreserves DEF MaterializeStep
<1>8. ASSUME UNCHANGED vars
      PROVE  DInv'
  <2>1. TypeOK' /\ BoundOK'
    BY <1>8 DEF DInv, TypeOK, BoundOK, vars, rowVars, taskVars, msgVars, workerVars, apiVars,
                cancelVars, recoverVars
  <2> QED
    BY <1>8, <2>1, OutsideSuffices DEF vars, rowVars, workerVars
<1> QED
  BY <1>1, <1>2, <1>3, <1>4, <1>5, <1>6, <1>7, <1>8 DEF Next, WorkerStep

\* DInv always holds.
LEMMA AlwaysDInv == Spec => []DInv
PROOF
  BY InitDInv, NextDInv, PTL DEF Spec

\* Every row, message count and local variable of a synchronization keeps its
\* type, whatever the requests, workers and recoveries do.
THEOREM SyncTypes == Spec => []TypeOK
PROOF
<1>1. DInv => TypeOK
  BY DEF DInv
<1> QED
  BY <1>1, AlwaysDInv, PTL

\* The market watermark never passes a date that was not loaded, and a
\* committed work row stands for written rows (flush): in every mode, with any
\* number of executors of the same run, lost workers, failing fetches,
\* cancellations and resumptions.
THEOREM EvidenceBacked == Spec => []EvidenceIsBacked
PROOF
<1>1. DInv => EvidenceIsBacked
  BY DEF DInv
<1> QED
  BY <1>1, AlwaysDInv, PTL

(***************************************************************************)
(* A run is ready only when it is complete: by trade date, when a run that *)
(* was cancelled is never resumed.                                         *)
(***************************************************************************)
ByDate == Modes \subseteq {"date"}
NoCancelledResume == "cancel" \notin Faults \/ MaxTasks = 1

\* A worker's step keeps the run's task and its cancellation; what it may do to
\* the rows, and whose task it works on.
RowsKept ==
  /\ run'.task = run.task /\ run'.cancel = run.cancel
  /\ run'.status = "cancelled" => run.cancel
  /\ run'.canon = "ready" => run.canon = "ready" \/ data = Units
  /\ item'.status = "success" => item.status = "success" \/ data = Units
  /\ \A t \in TaskIds : msgs'[t] > 0 => msgs[t] > 0 \/ t <= Known
  /\ UNCHANGED <<mode, api, tasks, rtask, can>>
SameTask(w) == InSync(w)' => loc'[w].task \in 1 .. Known

\* What the others know of their result stays true.
LEMMA ReadyBystander ==
  ASSUME TypeOK', NEW v \in Workers, ReadyOK(v), pc'[v] = pc[v], loc'[v] = loc[v],
         data \subseteq data',
         pc[v] \in {"loaded", "finish"} => (Halted(v) => Halted(v)')
  PROVE  ReadyOK(v)'
PROOF
<1>1. data = Units => data' = Units
  BY DEF TypeOK
<1> QED
  BY <1>1 DEF ReadyOK

\* A worker whose result would be true keeps RInv by a step that takes no rows back.
LEMMA ReadyStep ==
  ASSUME DInv, RInv, DInv', NEW w \in Workers, Alone(w), data \subseteq data',
         RowsKept, SameTask(w), ReadyOK(w)'
  PROVE  RInv'
PROOF
<1>0. TypeOK /\ TypeOK'
  BY DEF DInv
<1>1. data = Units => data' = Units
  BY <1>0 DEF TypeOK
<1>2. Known' = Known
  BY DEF RowsKept, Known
<1>3. KnownOK'
  <2>1. ASSUME NEW v \in Workers, InSync(v)'
        PROVE  loc'[v].task \in 1 .. Known
    <3>1. CASE v = w
      BY <2>1, <3>1 DEF SameTask
    <3>2. CASE v # w
      BY <2>1, <3>2 DEF Alone, InSync, RInv, KnownOK
    <3> QED
      BY <3>1, <3>2
  <2>2. run'.task <= Known /\ rtask' <= Known
    BY DEF RowsKept, RInv, KnownOK
  <2>3. \A t \in TaskIds : msgs'[t] > 0 => t <= Known
    BY DEF RowsKept, RInv, KnownOK
  <2>4. api' = "resume" => tasks' < MaxTasks
    BY DEF RowsKept, RInv, KnownOK
  <2> QED
    BY <1>2, <2>1, <2>2, <2>3, <2>4 DEF KnownOK
<1>4. CancelOK'
  BY DEF RowsKept, RInv, CancelOK
<1>5. ASSUME NEW v \in Workers
      PROVE  ReadyOK(v)'
  <2>1. CASE v = w
    BY <2>1
  <2>2. CASE v # w
    <3>1. pc'[v] = pc[v] /\ loc'[v] = loc[v] /\ ReadyOK(v)
      BY <2>2 DEF Alone, RInv
    <3>2. Halted(v) => Halted(v)'
      BY <3>1 DEF Halted, RowsKept
    <3> QED
      BY <1>0, <3>1, <3>2, ReadyBystander
  <2> QED
    BY <2>1, <2>2
<1>6. item'.status = "success" => data' = Units
  BY <1>1 DEF RowsKept, RInv
<1>7. ReadyIsComplete'
  BY <1>1 DEF RowsKept, RInv, ReadyIsComplete
<1> QED
  BY <1>3, <1>4, <1>5, <1>6, <1>7 DEF RInv

\* The same for a step that is no worker's.
LEMMA ReadyOutside ==
  ASSUME DInv, RInv, DInv', UNCHANGED <<mode, pc, loc, data>>,
         Known <= Known', run'.task <= Known', rtask' <= Known',
         \A t \in TaskIds : msgs'[t] > 0 => t <= Known',
         api' = "resume" => tasks' < MaxTasks, CancelOK',
         \A v \in Workers : pc[v] \in {"loaded", "finish"} => (Halted(v) => Halted(v)'),
         item'.status = "success" => item.status = "success",
         run'.canon = "ready" => run.canon = "ready"
  PROVE  RInv'
PROOF
<1>0. TypeOK /\ TypeOK'
  BY DEF DInv
<1>1. ASSUME NEW v \in Workers
      PROVE  ReadyOK(v)'
  BY <1>0, ReadyBystander DEF RInv
<1>2. KnownOK'
  <2>1. Known \in Int /\ Known' \in Int
    BY <1>0 DEF TypeOK, Known
  <2>2. ASSUME NEW v \in Workers, InSync(v)'
        PROVE  loc'[v].task \in 1 .. Known'
    <3>1. loc[v].task \in 1 .. Known
      BY <2>2 DEF InSync, RInv, KnownOK
    <3> QED
      BY <2>1, <3>1
  <2> QED
    BY <2>2 DEF KnownOK
<1> QED
  BY <1>1, <1>2 DEF RInv, ReadyIsComplete

\* The beginning of a delivery.
LEMMA ReadyStart ==
  ASSUME DInv, RInv, DInv', NEW w \in Workers
  PROVE  /\ MarkTask(w) => RInv'
         /\ Claim(w) => RInv'
         /\ Prepare(w) => RInv'
         /\ PrepareRaises(w) => RInv'
         /\ RequiredFails(w) => RInv'
         /\ Plan(w) => RInv'
PROOF
<1>0. TypeOK /\ Places /\ WorkerOK(w) /\ RInv
  BY TypeGivesPlaces DEF DInv
<1>1. ASSUME MarkTask(w)
      PROVE  RInv'
  <2>1. Alone(w)
    BY <1>1, <1>0 DEF MarkTask, Goto, Local, Return, Places, Alone, workerVars
  <2>2. SameTask(w)
    BY <1>1, <1>0
    DEF MarkTask, SameTask, InSync, MatPcs, Goto, Local, Return, Places, Locals, RInv, KnownOK,
        workerVars
  <2>3. RowsKept
    BY <1>1, <1>0
    DEF MarkTask, RowsKept, RInv, CancelOK, TypeOK, RunRows, ItemRows, rowVars, msgVars, apiVars,
        cancelVars, recoverVars, nonWorker
  <2>4. ReadyOK(w)'
    BY <1>1, <1>0 DEF MarkTask, ReadyOK, Goto, Return, Places, workerVars
  <2> QED
    BY <1>1, <2>1, <2>2, <2>3, <2>4, ReadyStep DEF MarkTask, rowVars, nonWorker
<1>2. ASSUME Claim(w)
      PROVE  RInv'
  <2>1. Alone(w)
    BY <1>2, <1>0 DEF Claim, Goto, Local, Return, Places, Alone, workerVars, Cancelled
  <2>2. SameTask(w)
    BY <1>2, <1>0
    DEF Claim, SameTask, InSync, MatPcs, Goto, Local, Return, Places, Locals, RInv, KnownOK,
        workerVars, Cancelled
  <2>3. RowsKept
    BY <1>2, <1>0
    DEF Claim, RowsKept, RInv, CancelOK, TypeOK, RunRows, ItemRows, taskVars, msgVars, apiVars,
        cancelVars, recoverVars, nonWorker, Cancelled
  <2>4. ReadyOK(w)'
    BY <1>2, <1>0 DEF Claim, ReadyOK, Goto, Return, Places, workerVars, Cancelled
  <2> QED
    BY <1>2, <2>1, <2>2, <2>3, <2>4, ReadyStep DEF Claim, rowVars, nonWorker
<1>3. ASSUME Prepare(w)
      PROVE  RInv'
  <2>1. Alone(w)
    BY <1>3, <1>0 DEF Prepare, Goto, Local, Return, Places, Alone, workerVars
  <2>2. SameTask(w)
    BY <1>3, <1>0
    DEF Prepare, SameTask, InSync, MatPcs, Goto, Local, Return, Places, Locals, RInv, KnownOK,
        workerVars
  <2>3. RowsKept
    BY <1>3, <1>0
    DEF Prepare, RowsKept, RInv, CancelOK, TypeOK, RunRows, ItemRows, taskVars, msgVars, apiVars,
        cancelVars, recoverVars, nonWorker
  <2>4. ReadyOK(w)'
    BY <1>3, <1>0 DEF Prepare, ReadyOK, Goto, Return, Places, workerVars
  <2> QED
    BY <1>3, <2>1, <2>2, <2>3, <2>4, ReadyStep DEF Prepare, rowVars, nonWorker
<1>4. ASSUME PrepareRaises(w)
      PROVE  RInv'
  <2>1. Alone(w)
    BY <1>4, <1>0 DEF PrepareRaises, Goto, Local, Return, Places, Alone, workerVars
  <2>2. SameTask(w)
    BY <1>4, <1>0
    DEF PrepareRaises, SameTask, InSync, MatPcs, Goto, Local, Return, Places, Locals, RInv, KnownOK,
        workerVars
  <2>3. RowsKept
    BY <1>4, <1>0
    DEF PrepareRaises, RowsKept, RInv, CancelOK, TypeOK, RunRows, ItemRows, rowVars, taskVars,
        msgVars, apiVars, cancelVars, recoverVars, nonWorker
  <2>4. ReadyOK(w)'
    BY <1>4, <1>0 DEF PrepareRaises, ReadyOK, Goto, Return, Places, workerVars
  <2> QED
    BY <1>4, <2>1, <2>2, <2>3, <2>4, ReadyStep DEF PrepareRaises, rowVars, nonWorker
<1>5. ASSUME RequiredFails(w)
      PROVE  RInv'
  <2>1. Alone(w)
    BY <1>5, <1>0 DEF RequiredFails, Goto, Local, Return, Places, Alone, workerVars
  <2>2. SameTask(w)
    BY <1>5, <1>0
    DEF RequiredFails, SameTask, InSync, MatPcs, Goto, Local, Return, Places, Locals, RInv, KnownOK,
        workerVars
  <2>3. RowsKept
    BY <1>5, <1>0
    DEF RequiredFails, RowsKept, RInv, CancelOK, TypeOK, RunRows, ItemRows, rowVars, taskVars,
        msgVars, apiVars, cancelVars, recoverVars, nonWorker
  <2>4. ReadyOK(w)'
    BY <1>5, <1>0 DEF RequiredFails, ReadyOK, Goto, Return, Places, workerVars
  <2> QED
    BY <1>5, <2>1, <2>2, <2>3, <2>4, ReadyStep DEF RequiredFails, rowVars, nonWorker
<1>6. ASSUME Plan(w)
      PROVE  RInv'
  <2>1. Alone(w)
    BY <1>6, <1>0 DEF Plan, Goto, Local, Return, Places, Alone, workerVars
  <2>2. SameTask(w)
    BY <1>6, <1>0
    DEF Plan, SameTask, InSync, MatPcs, Goto, Local, Return, Places, Locals, RInv, KnownOK,
        workerVars
  <2>3. RowsKept
    BY <1>6, <1>0
    DEF Plan, RowsKept, RInv, CancelOK, TypeOK, RunRows, ItemRows, taskVars, msgVars, apiVars,
        cancelVars, recoverVars, nonWorker
  <2>4. ReadyOK(w)'
    BY <1>6, <1>0 DEF Plan, ReadyOK, Goto, Return, Places, workerVars
  <2> QED
    BY <1>6, <2>1, <2>2, <2>3, <2>4, ReadyStep DEF Plan, rowVars, nonWorker
<1> QED
  BY <1>1, <1>2, <1>3, <1>4, <1>5, <1>6

\* Loading and its exceptions.
LEMMA ReadyLoad ==
  ASSUME DInv, RInv, DInv', NEW w \in Workers
  PROVE  /\ PublishActivity(w) => RInv'
         /\ FetchFails(w) => RInv'
         /\ WriteBatch(w) => RInv'
         /\ PersistMetadata(w) => RInv'
         /\ PublishProgress(w) => RInv'
         /\ LoadRaises(w) => RInv'
         /\ ItemFailed(w) => RInv'
         /\ PauseItem(w) => RInv'
         /\ PauseRun(w) => RInv'
PROOF
<1>0. TypeOK /\ Places /\ WorkerOK(w) /\ RInv
  BY TypeGivesPlaces DEF DInv
<1>1. ASSUME PublishActivity(w)
      PROVE  RInv'
  <2>1. Alone(w)
    BY <1>1, <1>0 DEF PublishActivity, Goto, Local, Return, Places, Alone, workerVars
  <2>2. SameTask(w)
    BY <1>1, <1>0
    DEF PublishActivity, SameTask, InSync, MatPcs, Goto, Local, Return, Places, Locals, RInv,
        KnownOK,
        workerVars
  <2>3. RowsKept
    BY <1>1, <1>0
    DEF PublishActivity, RowsKept, RInv, CancelOK, TypeOK, RunRows, ItemRows, taskVars, msgVars,
        apiVars, cancelVars, recoverVars, nonWorker, CheckpointItem
  <2>4. ReadyOK(w)'
    BY <1>1, <1>0 DEF PublishActivity, ReadyOK, Goto, Return, Places, workerVars
  <2> QED
    BY <1>1, <2>1, <2>2, <2>3, <2>4, ReadyStep DEF PublishActivity, rowVars, nonWorker
<1>2. ASSUME FetchFails(w)
      PROVE  RInv'
  <2>1. Alone(w)
    BY <1>2, <1>0 DEF FetchFails, Goto, Local, Return, Places, Alone, workerVars
  <2>2. SameTask(w)
    BY <1>2, <1>0
    DEF FetchFails, SameTask, InSync, MatPcs, Goto, Local, Return, Places, Locals, RInv, KnownOK,
        workerVars
  <2>3. RowsKept
    BY <1>2, <1>0
    DEF FetchFails, RowsKept, RInv, CancelOK, TypeOK, RunRows, ItemRows, rowVars, taskVars,
        msgVars, apiVars, cancelVars, recoverVars, nonWorker
  <2>4. ReadyOK(w)'
    BY <1>2, <1>0 DEF FetchFails, ReadyOK, Goto, Return, Places, workerVars
  <2> QED
    BY <1>2, <2>1, <2>2, <2>3, <2>4, ReadyStep DEF FetchFails, rowVars, nonWorker
<1>3. ASSUME WriteBatch(w)
      PROVE  RInv'
  <2>1. Alone(w)
    BY <1>3, <1>0 DEF WriteBatch, Goto, Local, Return, Places, Alone, workerVars
  <2>2. SameTask(w)
    BY <1>3, <1>0
    DEF WriteBatch, SameTask, InSync, MatPcs, Goto, Local, Return, Places, Locals, RInv, KnownOK,
        workerVars
  <2>3. RowsKept
    BY <1>3, <1>0
    DEF WriteBatch, RowsKept, RInv, CancelOK, TypeOK, RunRows, ItemRows, taskVars, msgVars,
        apiVars, cancelVars, recoverVars, nonWorker
  <2>4. ReadyOK(w)'
    BY <1>3, <1>0 DEF WriteBatch, ReadyOK, Goto, Return, Places, workerVars
  <2> QED
    BY <1>3, <2>1, <2>2, <2>3, <2>4, ReadyStep DEF WriteBatch, rowVars, nonWorker
<1>4. ASSUME PersistMetadata(w)
      PROVE  RInv'
  <2>1. Alone(w)
    BY <1>4, <1>0 DEF PersistMetadata, Goto, Local, Return, Places, Alone, workerVars
  <2>2. SameTask(w)
    BY <1>4, <1>0
    DEF PersistMetadata, SameTask, InSync, MatPcs, Goto, Local, Return, Places, Locals, RInv,
        KnownOK,
        workerVars
  <2>3. RowsKept
    BY <1>4, <1>0
    DEF PersistMetadata, RowsKept, RInv, CancelOK, TypeOK, RunRows, ItemRows, taskVars, msgVars,
        apiVars, cancelVars, recoverVars, nonWorker
  <2>4. ReadyOK(w)'
    BY <1>4, <1>0 DEF PersistMetadata, ReadyOK, Goto, Return, Places, workerVars
  <2> QED
    BY <1>4, <2>1, <2>2, <2>3, <2>4, ReadyStep DEF PersistMetadata, rowVars, nonWorker
<1>5. ASSUME PublishProgress(w)
      PROVE  RInv'
  <2>1. Alone(w)
    BY <1>5, <1>0 DEF PublishProgress, Goto, Local, Return, Places, Alone, workerVars
  <2>2. SameTask(w)
    BY <1>5, <1>0
    DEF PublishProgress, SameTask, InSync, MatPcs, Goto, Local, Return, Places, Locals, RInv,
        KnownOK,
        workerVars
  <2>3. RowsKept
    BY <1>5, <1>0
    DEF PublishProgress, RowsKept, RInv, CancelOK, TypeOK, RunRows, ItemRows, taskVars, msgVars,
        apiVars, cancelVars, recoverVars, nonWorker, CheckpointItem
  <2>4. ReadyOK(w)'
    BY <1>5, <1>0 DEF PublishProgress, ReadyOK, Goto, Return, Places, workerVars
  <2> QED
    BY <1>5, <2>1, <2>2, <2>3, <2>4, ReadyStep DEF PublishProgress, rowVars, nonWorker
<1>6. ASSUME LoadRaises(w)
      PROVE  RInv'
  <2>1. Alone(w)
    BY <1>6, <1>0 DEF LoadRaises, Goto, Local, Return, Places, Alone, workerVars
  <2>2. SameTask(w)
    BY <1>6, <1>0
    DEF LoadRaises, SameTask, InSync, MatPcs, Goto, Local, Return, Places, Locals, RInv, KnownOK,
        workerVars
  <2>3. RowsKept
    BY <1>6, <1>0
    DEF LoadRaises, RowsKept, RInv, CancelOK, TypeOK, RunRows, ItemRows, rowVars, taskVars,
        msgVars, apiVars, cancelVars, recoverVars, nonWorker
  <2>4. ReadyOK(w)'
    BY <1>6, <1>0 DEF LoadRaises, ReadyOK, Goto, Return, Places, workerVars
  <2> QED
    BY <1>6, <2>1, <2>2, <2>3, <2>4, ReadyStep DEF LoadRaises, rowVars, nonWorker
<1>7. ASSUME ItemFailed(w)
      PROVE  RInv'
  <2>1. Alone(w)
    BY <1>7, <1>0 DEF ItemFailed, Goto, Local, Return, Places, Alone, workerVars
  <2>2. SameTask(w)
    BY <1>7, <1>0
    DEF ItemFailed, SameTask, InSync, MatPcs, Goto, Local, Return, Places, Locals, RInv, KnownOK,
        workerVars
  <2>3. RowsKept
    BY <1>7, <1>0
    DEF ItemFailed, RowsKept, RInv, CancelOK, TypeOK, RunRows, ItemRows, taskVars, msgVars,
        apiVars, cancelVars, recoverVars, nonWorker
  <2>4. ReadyOK(w)'
    BY <1>7, <1>0 DEF ItemFailed, ReadyOK, Goto, Return, Places, workerVars
  <2> QED
    BY <1>7, <2>1, <2>2, <2>3, <2>4, ReadyStep DEF ItemFailed, rowVars, nonWorker
<1>8. ASSUME PauseItem(w)
      PROVE  RInv'
  <2>1. Alone(w)
    BY <1>8, <1>0 DEF PauseItem, Goto, Local, Return, Places, Alone, workerVars
  <2>2. SameTask(w)
    BY <1>8, <1>0
    DEF PauseItem, SameTask, InSync, MatPcs, Goto, Local, Return, Places, Locals, RInv, KnownOK,
        workerVars
  <2>3. RowsKept
    BY <1>8, <1>0
    DEF PauseItem, RowsKept, RInv, CancelOK, TypeOK, RunRows, ItemRows, taskVars, msgVars, apiVars,
        cancelVars, recoverVars, nonWorker
  <2>4. ReadyOK(w)'
    BY <1>8, <1>0 DEF PauseItem, ReadyOK, Goto, Return, Places, workerVars
  <2> QED
    BY <1>8, <2>1, <2>2, <2>3, <2>4, ReadyStep DEF PauseItem, rowVars, nonWorker
<1>9. ASSUME PauseRun(w)
      PROVE  RInv'
  <2>1. Alone(w)
    BY <1>9, <1>0 DEF PauseRun, Goto, Local, Return, Places, Alone, workerVars
  <2>2. SameTask(w)
    BY <1>9, <1>0
    DEF PauseRun, SameTask, InSync, MatPcs, Goto, Local, Return, Places, Locals, RInv, KnownOK,
        workerVars
  <2>3. RowsKept
    BY <1>9, <1>0
    DEF PauseRun, RowsKept, RInv, CancelOK, TypeOK, RunRows, ItemRows, taskVars, msgVars, apiVars,
        cancelVars, recoverVars, nonWorker
  <2>4. ReadyOK(w)'
    BY <1>9, <1>0 DEF PauseRun, ReadyOK, Goto, Return, Places, workerVars
  <2> QED
    BY <1>9, <2>1, <2>2, <2>3, <2>4, ReadyStep DEF PauseRun, rowVars, nonWorker
<1> QED
  BY <1>1, <1>2, <1>3, <1>4, <1>5, <1>6, <1>7, <1>8, <1>9

\* The task row, the handlers and the materialization.
LEMMA ReadySettle ==
  ASSUME DInv, RInv, DInv', NEW w \in Workers
  PROVE  /\ EnqueueMaterialization(w) => RInv'
         /\ FinishTask(w) => RInv'
         /\ RaiseRun(w) => RInv'
         /\ RaiseTask(w) => RInv'
         /\ MarkRunFailed(w) => RInv'
         /\ ReceiveMaterialize(w) => RInv'
         /\ MaterializeRead(w) => RInv'
         /\ MaterializePersist(w) => RInv'
         /\ MaterializeEnd(w) => RInv'
         /\ Crash(w) => RInv'
         /\ Terminate(w) => RInv'
PROOF
<1>0. TypeOK /\ Places /\ WorkerOK(w) /\ RInv
  BY TypeGivesPlaces DEF DInv
<1>1. ASSUME EnqueueMaterialization(w)
      PROVE  RInv'
  <2>1. Alone(w)
    BY <1>1, <1>0 DEF EnqueueMaterialization, Goto, Local, Return, Places, Alone, workerVars
  <2>2. SameTask(w)
    BY <1>1, <1>0
    DEF EnqueueMaterialization, SameTask, InSync, MatPcs, Goto, Local, Return, Places, Locals,
        RInv, KnownOK,
        workerVars
  <2>3. RowsKept
    BY <1>1, <1>0
    DEF EnqueueMaterialization, RowsKept, RInv, CancelOK, TypeOK, RunRows, ItemRows, taskVars,
        apiVars, cancelVars, recoverVars, nonWorker
  <2>4. ReadyOK(w)'
    BY <1>1, <1>0 DEF EnqueueMaterialization, ReadyOK, Goto, Return, Places, workerVars
  <2> QED
    BY <1>1, <2>1, <2>2, <2>3, <2>4, ReadyStep DEF EnqueueMaterialization, rowVars, nonWorker
<1>2. ASSUME FinishTask(w)
      PROVE  RInv'
  <2>1. Alone(w)
    BY <1>2, <1>0 DEF FinishTask, Goto, Local, Return, Places, Alone, workerVars
  <2>2. SameTask(w)
    BY <1>2, <1>0
    DEF FinishTask, SameTask, InSync, MatPcs, Goto, Local, Return, Places, Locals, RInv, KnownOK,
        workerVars
  <2>3. RowsKept
    BY <1>2, <1>0
    DEF FinishTask, RowsKept, RInv, CancelOK, TypeOK, RunRows, ItemRows, rowVars, msgVars, apiVars,
        cancelVars, recoverVars, nonWorker
  <2>4. ReadyOK(w)'
    BY <1>2, <1>0 DEF FinishTask, ReadyOK, Goto, Return, Places, workerVars
  <2> QED
    BY <1>2, <2>1, <2>2, <2>3, <2>4, ReadyStep DEF FinishTask, rowVars, nonWorker
<1>3. ASSUME RaiseRun(w)
      PROVE  RInv'
  <2>1. Alone(w)
    BY <1>3, <1>0 DEF RaiseRun, Goto, Local, Return, Places, Alone, workerVars
  <2>2. SameTask(w)
    BY <1>3, <1>0
    DEF RaiseRun, SameTask, InSync, MatPcs, Goto, Local, Return, Places, Locals, RInv, KnownOK,
        workerVars
  <2>3. RowsKept
    BY <1>3, <1>0
    DEF RaiseRun, RowsKept, RInv, CancelOK, TypeOK, RunRows, ItemRows, taskVars, msgVars, apiVars,
        cancelVars, recoverVars, nonWorker, FailedRun
  <2>4. ReadyOK(w)'
    BY <1>3, <1>0 DEF RaiseRun, ReadyOK, Goto, Return, Places, workerVars
  <2> QED
    BY <1>3, <2>1, <2>2, <2>3, <2>4, ReadyStep DEF RaiseRun, rowVars, nonWorker
<1>4. ASSUME RaiseTask(w)
      PROVE  RInv'
  <2>1. Alone(w)
    BY <1>4, <1>0 DEF RaiseTask, Goto, Local, Return, Places, Alone, workerVars
  <2>2. SameTask(w)
    BY <1>4, <1>0
    DEF RaiseTask, SameTask, InSync, MatPcs, Goto, Local, Return, Places, Locals, RInv, KnownOK,
        workerVars
  <2>3. RowsKept
    BY <1>4, <1>0
    DEF RaiseTask, RowsKept, RInv, CancelOK, TypeOK, RunRows, ItemRows, rowVars, msgVars, apiVars,
        cancelVars, recoverVars, nonWorker
  <2>4. ReadyOK(w)'
    BY <1>4, <1>0 DEF RaiseTask, ReadyOK, Goto, Return, Places, workerVars
  <2> QED
    BY <1>4, <2>1, <2>2, <2>3, <2>4, ReadyStep DEF RaiseTask, rowVars, nonWorker
<1>5. ASSUME MarkRunFailed(w)
      PROVE  RInv'
  <2>1. Alone(w)
    BY <1>5, <1>0 DEF MarkRunFailed, Goto, Local, Return, Places, Alone, workerVars
  <2>2. SameTask(w)
    BY <1>5, <1>0
    DEF MarkRunFailed, SameTask, InSync, MatPcs, Goto, Local, Return, Places, Locals, RInv, KnownOK,
        workerVars
  <2>3. RowsKept
    BY <1>5, <1>0
    DEF MarkRunFailed, RowsKept, RInv, CancelOK, TypeOK, RunRows, ItemRows, taskVars, msgVars,
        apiVars, cancelVars, recoverVars, nonWorker, FailedRun
  <2>4. ReadyOK(w)'
    BY <1>5, <1>0 DEF MarkRunFailed, ReadyOK, Goto, Return, Places, workerVars
  <2> QED
    BY <1>5, <2>1, <2>2, <2>3, <2>4, ReadyStep DEF MarkRunFailed, rowVars, nonWorker
<1>6. ASSUME ReceiveMaterialize(w)
      PROVE  RInv'
  <2>1. Alone(w)
    BY <1>6, <1>0 DEF ReceiveMaterialize, Goto, Local, Return, Places, Alone, workerVars
  <2>2. SameTask(w)
    BY <1>6, <1>0
    DEF ReceiveMaterialize, SameTask, InSync, MatPcs, Goto, Local, Return, Places, Locals, RInv,
        KnownOK,
        workerVars
  <2>3. RowsKept
    BY <1>6, <1>0
    DEF ReceiveMaterialize, RowsKept, RInv, CancelOK, TypeOK, RunRows, ItemRows, rowVars, taskVars,
        apiVars, cancelVars, recoverVars, nonWorker
  <2>4. ReadyOK(w)'
    BY <1>6, <1>0 DEF ReceiveMaterialize, ReadyOK, Goto, Return, Places, workerVars
  <2> QED
    BY <1>6, <2>1, <2>2, <2>3, <2>4, ReadyStep DEF ReceiveMaterialize, rowVars, nonWorker
<1>7. ASSUME MaterializeRead(w)
      PROVE  RInv'
  <2>1. Alone(w)
    BY <1>7, <1>0 DEF MaterializeRead, Goto, Local, Return, Places, Alone, workerVars
  <2>2. SameTask(w)
    BY <1>7, <1>0
    DEF MaterializeRead, SameTask, InSync, MatPcs, Goto, Local, Return, Places, Locals, RInv,
        KnownOK,
        workerVars
  <2>3. RowsKept
    BY <1>7, <1>0
    DEF MaterializeRead, RowsKept, RInv, CancelOK, TypeOK, RunRows, ItemRows, rowVars, taskVars,
        msgVars, apiVars, cancelVars, recoverVars, nonWorker
  <2>4. ReadyOK(w)'
    BY <1>7, <1>0 DEF MaterializeRead, ReadyOK, Goto, Return, Places, workerVars
  <2> QED
    BY <1>7, <2>1, <2>2, <2>3, <2>4, ReadyStep DEF MaterializeRead, rowVars, nonWorker
<1>8. ASSUME MaterializePersist(w)
      PROVE  RInv'
  <2>1. Alone(w)
    BY <1>8, <1>0 DEF MaterializePersist, Goto, Local, Return, Places, Alone, workerVars
  <2>2. SameTask(w)
    BY <1>8, <1>0
    DEF MaterializePersist, SameTask, InSync, MatPcs, Goto, Local, Return, Places, Locals, RInv,
        KnownOK,
        workerVars
  <2>3. RowsKept
    BY <1>8, <1>0
    DEF MaterializePersist, RowsKept, RInv, CancelOK, TypeOK, RunRows, ItemRows, taskVars, msgVars,
        apiVars, cancelVars, recoverVars, nonWorker
  <2>4. ReadyOK(w)'
    BY <1>8, <1>0 DEF MaterializePersist, ReadyOK, Goto, Return, Places, workerVars
  <2> QED
    BY <1>8, <2>1, <2>2, <2>3, <2>4, ReadyStep DEF MaterializePersist, rowVars, nonWorker
<1>9. ASSUME MaterializeEnd(w)
      PROVE  RInv'
  <2>1. Alone(w)
    BY <1>9, <1>0 DEF MaterializeEnd, Goto, Local, Return, Places, Alone, workerVars
  <2>2. SameTask(w)
    BY <1>9, <1>0
    DEF MaterializeEnd, SameTask, InSync, MatPcs, Goto, Local, Return, Places, Locals, RInv,
        KnownOK,
        workerVars
  <2>3. RowsKept
    BY <1>9, <1>0
    DEF MaterializeEnd, RowsKept, RInv, CancelOK, TypeOK, RunRows, ItemRows, taskVars, msgVars,
        apiVars, cancelVars, recoverVars, nonWorker
  <2>4. ReadyOK(w)'
    BY <1>9, <1>0 DEF MaterializeEnd, ReadyOK, Goto, Return, Places, workerVars
  <2> QED
    BY <1>9, <2>1, <2>2, <2>3, <2>4, ReadyStep DEF MaterializeEnd, rowVars, nonWorker
<1>10. ASSUME Crash(w)
      PROVE  RInv'
  <2>1. Alone(w)
    BY <1>10, <1>0 DEF Crash, Goto, Local, Return, Places, Alone, workerVars
  <2>2. SameTask(w)
    BY <1>10, <1>0
    DEF Crash, SameTask, InSync, MatPcs, Goto, Local, Return, Places, Locals, RInv, KnownOK,
        workerVars
  <2>3. RowsKept
    BY <1>10, <1>0
    DEF Crash, RowsKept, RInv, CancelOK, TypeOK, RunRows, ItemRows, rowVars, taskVars, apiVars,
        cancelVars, recoverVars, nonWorker, InSync, InMaterialize, KnownOK
  <2>4. ReadyOK(w)'
    BY <1>10, <1>0 DEF Crash, ReadyOK, Goto, Return, Places, workerVars
  <2> QED
    BY <1>10, <2>1, <2>2, <2>3, <2>4, ReadyStep DEF Crash, rowVars, nonWorker
<1>11. ASSUME Terminate(w)
      PROVE  RInv'
  <2>1. Alone(w)
    BY <1>11, <1>0 DEF Terminate, Goto, Local, Return, Places, Alone, workerVars
  <2>2. SameTask(w)
    BY <1>11, <1>0
    DEF Terminate, SameTask, InSync, MatPcs, Goto, Local, Return, Places, Locals, RInv, KnownOK,
        workerVars
  <2>3. RowsKept
    BY <1>11, <1>0
    DEF Terminate, RowsKept, RInv, CancelOK, TypeOK, RunRows, ItemRows, rowVars, taskVars, msgVars,
        apiVars, cancelVars, recoverVars, nonWorker
  <2>4. ReadyOK(w)'
    BY <1>11, <1>0 DEF Terminate, ReadyOK, Goto, Return, Places, workerVars
  <2> QED
    BY <1>11, <2>1, <2>2, <2>3, <2>4, ReadyStep DEF Terminate, rowVars, nonWorker
<1> QED
  BY <1>1, <1>2, <1>3, <1>4, <1>5, <1>6, <1>7, <1>8, <1>9, <1>10, <1>11

\* A message of a task that is known.
LEMMA ReadyReceive ==
  ASSUME DInv, RInv, DInv', NEW w \in Workers, NEW t \in TaskIds
  PROVE  /\ Receive(w, t) => RInv'
PROOF
<1>0. TypeOK /\ Places /\ WorkerOK(w) /\ RInv
  BY TypeGivesPlaces DEF DInv
<1>1. ASSUME Receive(w, t)
      PROVE  RInv'
  <2>1. Alone(w)
    BY <1>1, <1>0 DEF Receive, Goto, Local, Return, Places, Alone, workerVars
  <2>2. SameTask(w)
    <3>1. t \in 1 .. Known
      BY <1>1, <1>0 DEF Receive, RInv, KnownOK, TaskIds, Known, TypeOK
    <3>2. \/ pc'[w] = "idle"
          \/ pc'[w] = "markTask" /\ loc'[w].task = t
      BY <1>1, <1>0 DEF Receive, Goto, Local, Places, Locals, workerVars
    <3> QED
      BY <3>1, <3>2 DEF SameTask, InSync
  <2>3. RowsKept
    BY <1>1, <1>0
    DEF Receive, RowsKept, RInv, CancelOK, TypeOK, RunRows, ItemRows, rowVars, taskVars,
        workerVars, apiVars, cancelVars, recoverVars, nonWorker
  <2>4. ReadyOK(w)'
    BY <1>1, <1>0 DEF Receive, ReadyOK, Goto, Return, Places, workerVars
  <2> QED
    BY <1>1, <2>1, <2>2, <2>3, <2>4, ReadyStep DEF Receive, rowVars, nonWorker
<1> QED
  BY <1>1

\* A worker that was told to stop knows that its result will not count.
LEMMA CancelledIsHalted ==
  ASSUME RInv, NEW w \in Workers
  PROVE  Cancelled(loc[w].task) <=> Halted(w)
PROOF
  BY DEF RInv, CancelOK, Cancelled, Halted

\* Loading by date ends with every unit in the store, unless the run was taken
\* away or a unit has failed.
LEMMA ReadyFetch ==
  ASSUME DInv, RInv, DInv', ByDate, NEW w \in Workers, Fetch(w)
  PROVE  RInv'
PROOF
<1>0. TypeOK /\ Places /\ WorkerOK(w) /\ loc[w] \in Locals /\ pc[w] = "fetch"
  BY TypeGivesPlaces DEF DInv, Places, Fetch
<1>1. mode = "date"
  BY <1>0 DEF TypeOK, ByDate
<1>2. RowsKept
  BY <1>0
  DEF Fetch, RowsKept, RInv, CancelOK, rowVars, taskVars, msgVars, apiVars, cancelVars,
      recoverVars, nonWorker
<1>3. CASE loc[w].todo = {} \/ StopsLoading(w)
  <2> DEFINE p == IF loc[w].buf = {} THEN "loaded" ELSE "write"
  <2>1. /\ loc' = [loc EXCEPT ![w] = [loc[w] EXCEPT !.todo = {}]]
        /\ pc' = [pc EXCEPT ![w] = p]
    BY <1>3 DEF Fetch, Local, Goto
  <2>2. pc'[w] = p /\ loc'[w].task = loc[w].task /\ Alone(w)
    BY <1>0, <2>1 DEF Places, Locals, Alone
  <2>3. SameTask(w)
    BY <1>0, <2>2 DEF SameTask, InSync, MatPcs, RInv, KnownOK
  <2>4. ASSUME loc[w].buf = {}
        PROVE  Halted(w) \/ data = Units
    <3>1. CASE StopsLoading(w)
      BY <3>1, CancelledIsHalted DEF StopsLoading
    <3>2. CASE loc[w].todo = {}
      <4>1. loc[w].bad = 0
        BY <1>0 DEF WorkerOK, HandOK
      <4>2. \A u \in Units : u \in loc[w].todo \cup loc[w].buf \cup data
        BY <1>0, <1>1, <4>1 DEF WorkerOK, InOrder, LoadingPcs
      <4> QED
        BY <1>0, <2>4, <3>2, <4>2 DEF TypeOK
    <3> QED
      BY <1>3, <3>1, <3>2
  <2>5. ReadyOK(w)'
    BY <2>2, <2>4 DEF ReadyOK, Halted, Fetch, rowVars
  <2> QED
    BY <1>2, <2>2, <2>3, <2>5, ReadyStep DEF Fetch, rowVars
<1>4. CASE ~(loc[w].todo = {} \/ StopsLoading(w))
  <2> DEFINE u == Min(loc[w].todo)
             p == IF Cardinality(loc[w].buf) + 1 >= BatchUnits THEN "write" ELSE "fetch"
  <2>1. /\ loc' = [loc EXCEPT ![w] = [loc[w] EXCEPT !.todo = loc[w].todo \ {u}, !.buf = loc[w].buf \cup {u}]]
        /\ pc' = [pc EXCEPT ![w] = p]
    BY <1>4 DEF Fetch, Goto
  <2> HIDE DEF u
  <2>2. p \in {"write", "fetch"}
    OBVIOUS
  <2> HIDE DEF p
  <2>3. pc'[w] = p /\ loc'[w].task = loc[w].task /\ Alone(w)
    BY <1>0, <2>1 DEF Places, Locals, Alone
  <2>4. SameTask(w)
    BY <1>0, <2>3 DEF SameTask, InSync, MatPcs, RInv, KnownOK
  <2>5. ReadyOK(w)'
    BY <2>2, <2>3 DEF ReadyOK
  <2> QED
    BY <1>2, <2>3, <2>4, <2>5, ReadyStep DEF Fetch, rowVars
<1> QED
  BY <1>3, <1>4

\* The end of the dataset and the outcome of the run.
LEMMA ReadyEnd ==
  ASSUME DInv, RInv, DInv', NEW w \in Workers
  PROVE  /\ MarkFailed(w) => RInv'
         /\ AfterDataset(w) => RInv'
         /\ EndItem(w) => RInv'
         /\ Evidence(w) => RInv'
         /\ Finish(w) => RInv'
PROOF
<1>0. TypeOK /\ Places /\ WorkerOK(w) /\ RInv
  BY TypeGivesPlaces DEF DInv
<1>1. ASSUME MarkFailed(w)
      PROVE  RInv'
  <2>1. Alone(w)
    BY <1>1, <1>0 DEF MarkFailed, Goto, Local, Return, Places, Alone, workerVars
  <2>2. SameTask(w)
    BY <1>1, <1>0
    DEF MarkFailed, SameTask, InSync, MatPcs, Goto, Local, Return, Places, Locals, RInv, KnownOK,
        workerVars
  <2>3. RowsKept
    BY <1>1, <1>0
    DEF MarkFailed, RowsKept, RInv, CancelOK, TypeOK, RunRows, ItemRows, taskVars, msgVars,
        apiVars, cancelVars, recoverVars, nonWorker
  <2>4. ReadyOK(w)'
    <3>1. pc'[w] \in {"loaded", "activity"} /\ loc'[w].fails = TRUE
      BY <1>1, <1>0 DEF MarkFailed, Goto, Places, Locals
    <3> QED
      BY <3>1 DEF ReadyOK
  <2> QED
    BY <1>1, <2>1, <2>2, <2>3, <2>4, ReadyStep DEF MarkFailed, rowVars, nonWorker
<1>2. ASSUME AfterDataset(w)
      PROVE  RInv'
  <2>1. Alone(w)
    BY <1>2, <1>0 DEF AfterDataset, Goto, Local, Return, Places, Alone, workerVars
  <2>2. SameTask(w)
    BY <1>2, <1>0
    DEF AfterDataset, SameTask, InSync, MatPcs, Goto, Local, Return, Places, Locals, RInv, KnownOK,
        workerVars
  <2>3. RowsKept
    BY <1>2, <1>0
    DEF AfterDataset, RowsKept, RInv, CancelOK, TypeOK, RunRows, ItemRows, rowVars, taskVars,
        msgVars, apiVars, cancelVars, recoverVars, nonWorker
  <2>4. ReadyOK(w)'
    <3>1. loc'[w] = loc[w] /\ data' = data
      BY <1>2, <1>0 DEF AfterDataset, rowVars
    <3>2. pc'[w] \in {"itemDone", "itemCancelled", "evidence"}
      BY <1>2, <1>0 DEF AfterDataset, Goto, Places
    <3>3. pc'[w] = "itemDone" => ~Halted(w)
      BY <1>2, <1>0, CancelledIsHalted DEF AfterDataset, Goto, Places
    <3> QED
      BY <1>2, <1>0, <3>1, <3>2, <3>3 DEF ReadyOK, RInv, AfterDataset
  <2> QED
    BY <1>2, <2>1, <2>2, <2>3, <2>4, ReadyStep DEF AfterDataset, rowVars, nonWorker
<1>3. ASSUME EndItem(w)
      PROVE  RInv'
  <2>1. Alone(w)
    BY <1>3, <1>0 DEF EndItem, Goto, Local, Return, Places, Alone, workerVars
  <2>2. SameTask(w)
    BY <1>3, <1>0
    DEF EndItem, SameTask, InSync, MatPcs, Goto, Local, Return, Places, Locals, RInv, KnownOK,
        workerVars
  <2>3. RowsKept
    BY <1>3, <1>0
    DEF EndItem, RowsKept, RInv, CancelOK, TypeOK, RunRows, ItemRows, taskVars, msgVars, apiVars,
        cancelVars, recoverVars, nonWorker, ItemResult, ReadyOK, Places, Locals
  <2>4. ReadyOK(w)'
    BY <1>3, <1>0 DEF EndItem, ReadyOK, Goto, Return, Places, workerVars
  <2> QED
    BY <1>3, <2>1, <2>2, <2>3, <2>4, ReadyStep DEF EndItem, rowVars, nonWorker
<1>4. ASSUME Evidence(w)
      PROVE  RInv'
  <2>1. Alone(w)
    BY <1>4, <1>0 DEF Evidence, Goto, Local, Return, Places, Alone, workerVars
  <2>2. SameTask(w)
    BY <1>4, <1>0
    DEF Evidence, SameTask, InSync, MatPcs, Goto, Local, Return, Places, Locals, RInv, KnownOK,
        workerVars
  <2>3. RowsKept
    BY <1>4, <1>0
    DEF Evidence, RowsKept, RInv, CancelOK, TypeOK, RunRows, ItemRows, rowVars, taskVars, msgVars,
        apiVars, cancelVars, recoverVars, nonWorker
  <2>4. ReadyOK(w)'
    <3> DEFINE degraded == loc[w].fails \/ item.status # "success" \/ item.failed \/ watermark = 0
               out == CASE Cancelled(loc[w].task) -> "cancelled"
                        [] loc[w].out = "failed" -> "failed"
                        [] degraded -> "partial"
                        [] OTHER -> "success"
    <3>1. loc' = [loc EXCEPT ![w] = [loc[w] EXCEPT !.out = out, !.derived = derived]]
      BY <1>4, <1>0 DEF Evidence
    <3>2. /\ out = "success" => item.status = "success"
          /\ out = "cancelled" => Cancelled(loc[w].task)
      <4> DEFINE good == item.status = "success"
      <4>1. ~good => degraded
        OBVIOUS
      <4> HIDE DEF degraded, good
      <4>2. /\ out = "success" => good
            /\ out = "cancelled" => Cancelled(loc[w].task)
        BY <4>1
      <4> QED
        BY <4>2 DEF good
    <3> HIDE DEF out
    <3>3. loc'[w].out = out /\ loc'[w].task = loc[w].task /\ pc'[w] = "finish"
      BY <1>4, <1>0, <3>1 DEF Evidence, Goto, Places, Locals
    <3>4. UNCHANGED <<run, data>>
      BY <1>4, <1>0 DEF Evidence, rowVars
    <3> QED
      BY <1>4, <1>0, <3>2, <3>3, <3>4, CancelledIsHalted DEF ReadyOK, Halted, RInv
  <2> QED
    BY <1>4, <2>1, <2>2, <2>3, <2>4, ReadyStep DEF Evidence, rowVars, nonWorker
<1>5. ASSUME Finish(w)
      PROVE  RInv'
  <2>1. Alone(w)
    BY <1>5, <1>0 DEF Finish, Goto, Local, Return, Places, Alone, workerVars, Enqueues
  <2>2. SameTask(w)
    BY <1>5, <1>0
    DEF Finish, SameTask, InSync, MatPcs, Goto, Local, Return, Places, Locals, RInv, KnownOK,
        workerVars, Enqueues
  <2>3. RowsKept
    BY <1>5, <1>0
    DEF Finish, RowsKept, RInv, CancelOK, TypeOK, RunRows, ItemRows, taskVars, msgVars, apiVars,
        cancelVars, recoverVars, nonWorker, ReadyOK, Halted, CanonicalOf, WorkerOK, OutcomeOK,
        Outcomes
  <2>4. ReadyOK(w)'
    BY <1>5, <1>0 DEF Finish, ReadyOK, Goto, Return, Places, workerVars, Enqueues
  <2> QED
    BY <1>5, <2>1, <2>2, <2>3, <2>4, ReadyStep DEF Finish, rowVars, nonWorker
<1> QED
  BY <1>1, <1>2, <1>3, <1>4, <1>5

\* The API: a task is bound before anybody knows it, and a cancellation is
\* cleared only when nobody works for the run.
LEMMA ReadyApi ==
  ASSUME DInv, RInv, DInv', NoCancelledResume
  PROVE  /\ create_sync_run => RInv'
         /\ ResumeRead => RInv'
         /\ prepare_resume => RInv'
         /\ CreateTask => RInv'
         /\ bind_task => RInv'
         /\ Publish => RInv'
         /\ PublishFails => RInv'
         /\ FailCreate => RInv'
         /\ MarkQueued => RInv'
         /\ ApiCrash => RInv'
PROOF
<1>0. TypeOK /\ BoundOK /\ KnownOK /\ CancelOK /\ TypeOK'
  BY DEF DInv, RInv
<1>1. ASSUME create_sync_run
      PROVE  RInv'
  <2>1. UNCHANGED <<mode, pc, loc, data>>
    BY <1>1 DEF create_sync_run, taskVars, msgVars, workerVars, cancelVars, recoverVars
  <2>2. /\ Known <= Known' /\ run'.task <= Known' /\ rtask' <= Known'
        /\ \A t \in TaskIds : msgs'[t] > 0 => t <= Known'
        /\ api' = "resume" => tasks' < MaxTasks
    BY <1>1, <1>0
    DEF create_sync_run, Known, KnownOK, TypeOK, BoundOK, RunRows, TaskIds, taskVars, msgVars,
        workerVars, cancelVars, recoverVars
  <2>3. CancelOK'
    BY <1>1, <1>0
    DEF create_sync_run, CancelOK, TypeOK, RunRows, taskVars, msgVars, workerVars, cancelVars,
        recoverVars
  <2>4. ASSUME NEW v \in Workers, pc[v] \in {"loaded", "finish"}, Halted(v)
        PROVE  Halted(v)'
    BY <1>1, <1>0, <2>1, <2>4
    DEF create_sync_run, Halted, TypeOK, RunRows, taskVars, msgVars, workerVars, cancelVars,
        recoverVars
  <2>5. /\ item'.status = "success" => item.status = "success"
        /\ run'.canon = "ready" => run.canon = "ready"
    BY <1>1, <1>0
    DEF create_sync_run, TypeOK, RunRows, ItemRows, taskVars, msgVars, workerVars, cancelVars,
        recoverVars
  <2> QED
    BY <2>1, <2>2, <2>3, <2>4, <2>5, ReadyOutside
<1>2. ASSUME ResumeRead
      PROVE  RInv'
  <2>1. UNCHANGED <<mode, pc, loc, data>>
    BY <1>2 DEF ResumeRead, rowVars, taskVars, msgVars, workerVars, cancelVars, recoverVars
  <2>2. /\ Known <= Known' /\ run'.task <= Known' /\ rtask' <= Known'
        /\ \A t \in TaskIds : msgs'[t] > 0 => t <= Known'
        /\ api' = "resume" => tasks' < MaxTasks
    BY <1>2, <1>0
    DEF ResumeRead, Known, KnownOK, TypeOK, BoundOK, RunRows, TaskIds, rowVars, taskVars, msgVars,
        workerVars, cancelVars, recoverVars
  <2>3. CancelOK'
    BY <1>2, <1>0
    DEF ResumeRead, CancelOK, TypeOK, RunRows, rowVars, taskVars, msgVars, workerVars, cancelVars,
        recoverVars
  <2>4. ASSUME NEW v \in Workers, pc[v] \in {"loaded", "finish"}, Halted(v)
        PROVE  Halted(v)'
    BY <1>2, <1>0, <2>1, <2>4
    DEF ResumeRead, Halted, TypeOK, RunRows, rowVars, taskVars, msgVars, workerVars, cancelVars,
        recoverVars
  <2>5. /\ item'.status = "success" => item.status = "success"
        /\ run'.canon = "ready" => run.canon = "ready"
    BY <1>2, <1>0
    DEF ResumeRead, TypeOK, RunRows, ItemRows, rowVars, taskVars, msgVars, workerVars, cancelVars,
        recoverVars
  <2> QED
    BY <2>1, <2>2, <2>3, <2>4, <2>5, ReadyOutside
<1>3. ASSUME prepare_resume
      PROVE  RInv'
  <2>1. UNCHANGED <<mode, pc, loc, data>>
    BY <1>3 DEF prepare_resume, taskVars, msgVars, workerVars, cancelVars, recoverVars
  <2>2. /\ Known <= Known' /\ run'.task <= Known' /\ rtask' <= Known'
        /\ \A t \in TaskIds : msgs'[t] > 0 => t <= Known'
        /\ api' = "resume" => tasks' < MaxTasks
    BY <1>3, <1>0
    DEF prepare_resume, Known, KnownOK, TypeOK, BoundOK, RunRows, TaskIds, taskVars, msgVars,
        workerVars, cancelVars, recoverVars, FreshItem, Requeued
  <2>3. CancelOK'
    BY <1>3, <1>0
    DEF prepare_resume, CancelOK, TypeOK, RunRows, taskVars, msgVars, workerVars, cancelVars,
        recoverVars, FreshItem, Requeued
  <2>4. ASSUME NEW v \in Workers, pc[v] \in {"loaded", "finish"}, Halted(v)
        PROVE  Halted(v)'
    <3>1. loc[v].task \in 1 .. Known
      BY <1>0, <2>4 DEF KnownOK, InSync, MatPcs
    <3>2. "cancel" \notin Faults
      <4>1. tasks < MaxTasks /\ Known = tasks
        BY <1>3, <1>0 DEF prepare_resume, KnownOK, Known
      <4> QED
        BY <1>0, <3>1, <4>1 DEF NoCancelledResume, TypeOK
    <3>3. ~run.cancel
      BY <1>0, <3>2 DEF CancelOK
    <3> QED
      BY <1>3, <1>0, <2>1, <2>4, <3>3 DEF prepare_resume, Halted, TypeOK, RunRows
  <2>5. /\ item'.status = "success" => item.status = "success"
        /\ run'.canon = "ready" => run.canon = "ready"
    BY <1>3, <1>0
    DEF prepare_resume, TypeOK, RunRows, ItemRows, taskVars, msgVars, workerVars, cancelVars,
        recoverVars, FreshItem, Requeued
  <2> QED
    BY <2>1, <2>2, <2>3, <2>4, <2>5, ReadyOutside
<1>4. ASSUME CreateTask
      PROVE  RInv'
  <2>1. UNCHANGED <<mode, pc, loc, data>>
    BY <1>4 DEF CreateTask, rowVars, msgVars, workerVars, cancelVars, recoverVars
  <2>2. /\ Known <= Known' /\ run'.task <= Known' /\ rtask' <= Known'
        /\ \A t \in TaskIds : msgs'[t] > 0 => t <= Known'
        /\ api' = "resume" => tasks' < MaxTasks
    BY <1>4, <1>0
    DEF CreateTask, Known, KnownOK, TypeOK, BoundOK, RunRows, TaskIds, rowVars, msgVars,
        workerVars, cancelVars, recoverVars
  <2>3. CancelOK'
    BY <1>4, <1>0
    DEF CreateTask, CancelOK, TypeOK, RunRows, rowVars, msgVars, workerVars, cancelVars,
        recoverVars
  <2>4. ASSUME NEW v \in Workers, pc[v] \in {"loaded", "finish"}, Halted(v)
        PROVE  Halted(v)'
    BY <1>4, <1>0, <2>1, <2>4
    DEF CreateTask, Halted, TypeOK, RunRows, rowVars, msgVars, workerVars, cancelVars, recoverVars
  <2>5. /\ item'.status = "success" => item.status = "success"
        /\ run'.canon = "ready" => run.canon = "ready"
    BY <1>4, <1>0
    DEF CreateTask, TypeOK, RunRows, ItemRows, rowVars, msgVars, workerVars, cancelVars,
        recoverVars
  <2> QED
    BY <2>1, <2>2, <2>3, <2>4, <2>5, ReadyOutside
<1>5. ASSUME bind_task
      PROVE  RInv'
  <2>1. UNCHANGED <<mode, pc, loc, data>>
    BY <1>5 DEF bind_task, taskVars, msgVars, workerVars, cancelVars, recoverVars
  <2>2. /\ Known <= Known' /\ run'.task <= Known' /\ rtask' <= Known'
        /\ \A t \in TaskIds : msgs'[t] > 0 => t <= Known'
        /\ api' = "resume" => tasks' < MaxTasks
    BY <1>5, <1>0
    DEF bind_task, Known, KnownOK, TypeOK, BoundOK, RunRows, TaskIds, taskVars, msgVars,
        workerVars, cancelVars, recoverVars
  <2>3. CancelOK'
    BY <1>5, <1>0
    DEF bind_task, CancelOK, TypeOK, RunRows, taskVars, msgVars, workerVars, cancelVars,
        recoverVars
  <2>4. ASSUME NEW v \in Workers, pc[v] \in {"loaded", "finish"}, Halted(v)
        PROVE  Halted(v)'
    <3>1. loc[v].task \in 1 .. Known
      BY <1>0, <2>4 DEF KnownOK, InSync, MatPcs
    <3>2. Known = tasks - 1 /\ run'.task = tasks
      BY <1>5, <1>0 DEF bind_task, Known, TypeOK, RunRows
    <3> QED
      BY <1>0, <2>1, <3>1, <3>2 DEF Halted, TypeOK
  <2>5. /\ item'.status = "success" => item.status = "success"
        /\ run'.canon = "ready" => run.canon = "ready"
    BY <1>5, <1>0
    DEF bind_task, TypeOK, RunRows, ItemRows, taskVars, msgVars, workerVars, cancelVars,
        recoverVars
  <2> QED
    BY <2>1, <2>2, <2>3, <2>4, <2>5, ReadyOutside
<1>6. ASSUME Publish
      PROVE  RInv'
  <2>1. UNCHANGED <<mode, pc, loc, data>>
    BY <1>6 DEF Publish, rowVars, taskVars, workerVars, cancelVars, recoverVars
  <2>2. /\ Known <= Known' /\ run'.task <= Known' /\ rtask' <= Known'
        /\ \A t \in TaskIds : msgs'[t] > 0 => t <= Known'
        /\ api' = "resume" => tasks' < MaxTasks
    BY <1>6, <1>0
    DEF Publish, Known, KnownOK, TypeOK, BoundOK, RunRows, TaskIds, rowVars, taskVars, workerVars,
        cancelVars, recoverVars
  <2>3. CancelOK'
    BY <1>6, <1>0
    DEF Publish, CancelOK, TypeOK, RunRows, rowVars, taskVars, workerVars, cancelVars, recoverVars
  <2>4. ASSUME NEW v \in Workers, pc[v] \in {"loaded", "finish"}, Halted(v)
        PROVE  Halted(v)'
    BY <1>6, <1>0, <2>1, <2>4
    DEF Publish, Halted, TypeOK, RunRows, rowVars, taskVars, workerVars, cancelVars, recoverVars
  <2>5. /\ item'.status = "success" => item.status = "success"
        /\ run'.canon = "ready" => run.canon = "ready"
    BY <1>6, <1>0
    DEF Publish, TypeOK, RunRows, ItemRows, rowVars, taskVars, workerVars, cancelVars, recoverVars
  <2> QED
    BY <2>1, <2>2, <2>3, <2>4, <2>5, ReadyOutside
<1>7. ASSUME PublishFails
      PROVE  RInv'
  <2>1. UNCHANGED <<mode, pc, loc, data>>
    BY <1>7 DEF PublishFails, rowVars, msgVars, workerVars, cancelVars, recoverVars
  <2>2. /\ Known <= Known' /\ run'.task <= Known' /\ rtask' <= Known'
        /\ \A t \in TaskIds : msgs'[t] > 0 => t <= Known'
        /\ api' = "resume" => tasks' < MaxTasks
    BY <1>7, <1>0
    DEF PublishFails, Known, KnownOK, TypeOK, BoundOK, RunRows, TaskIds, rowVars, msgVars,
        workerVars, cancelVars, recoverVars
  <2>3. CancelOK'
    BY <1>7, <1>0
    DEF PublishFails, CancelOK, TypeOK, RunRows, rowVars, msgVars, workerVars, cancelVars,
        recoverVars
  <2>4. ASSUME NEW v \in Workers, pc[v] \in {"loaded", "finish"}, Halted(v)
        PROVE  Halted(v)'
    BY <1>7, <1>0, <2>1, <2>4
    DEF PublishFails, Halted, TypeOK, RunRows, rowVars, msgVars, workerVars, cancelVars,
        recoverVars
  <2>5. /\ item'.status = "success" => item.status = "success"
        /\ run'.canon = "ready" => run.canon = "ready"
    BY <1>7, <1>0
    DEF PublishFails, TypeOK, RunRows, ItemRows, rowVars, msgVars, workerVars, cancelVars,
        recoverVars
  <2> QED
    BY <2>1, <2>2, <2>3, <2>4, <2>5, ReadyOutside
<1>8. ASSUME FailCreate
      PROVE  RInv'
  <2>1. UNCHANGED <<mode, pc, loc, data>>
    BY <1>8 DEF FailCreate, taskVars, msgVars, workerVars, cancelVars, recoverVars
  <2>2. /\ Known <= Known' /\ run'.task <= Known' /\ rtask' <= Known'
        /\ \A t \in TaskIds : msgs'[t] > 0 => t <= Known'
        /\ api' = "resume" => tasks' < MaxTasks
    BY <1>8, <1>0
    DEF FailCreate, Known, KnownOK, TypeOK, BoundOK, RunRows, TaskIds, taskVars, msgVars,
        workerVars, cancelVars, recoverVars, FailedRun
  <2>3. CancelOK'
    BY <1>8, <1>0
    DEF FailCreate, CancelOK, TypeOK, RunRows, taskVars, msgVars, workerVars, cancelVars,
        recoverVars, FailedRun
  <2>4. ASSUME NEW v \in Workers, pc[v] \in {"loaded", "finish"}, Halted(v)
        PROVE  Halted(v)'
    BY <1>8, <1>0, <2>1, <2>4
    DEF FailCreate, Halted, TypeOK, RunRows, taskVars, msgVars, workerVars, cancelVars,
        recoverVars, FailedRun
  <2>5. /\ item'.status = "success" => item.status = "success"
        /\ run'.canon = "ready" => run.canon = "ready"
    BY <1>8, <1>0
    DEF FailCreate, TypeOK, RunRows, ItemRows, taskVars, msgVars, workerVars, cancelVars,
        recoverVars, FailedRun
  <2> QED
    BY <2>1, <2>2, <2>3, <2>4, <2>5, ReadyOutside
<1>9. ASSUME MarkQueued
      PROVE  RInv'
  <2>1. UNCHANGED <<mode, pc, loc, data>>
    BY <1>9 DEF MarkQueued, rowVars, msgVars, workerVars, cancelVars, recoverVars
  <2>2. /\ Known <= Known' /\ run'.task <= Known' /\ rtask' <= Known'
        /\ \A t \in TaskIds : msgs'[t] > 0 => t <= Known'
        /\ api' = "resume" => tasks' < MaxTasks
    BY <1>9, <1>0
    DEF MarkQueued, Known, KnownOK, TypeOK, BoundOK, RunRows, TaskIds, rowVars, msgVars,
        workerVars, cancelVars, recoverVars
  <2>3. CancelOK'
    BY <1>9, <1>0
    DEF MarkQueued, CancelOK, TypeOK, RunRows, rowVars, msgVars, workerVars, cancelVars,
        recoverVars
  <2>4. ASSUME NEW v \in Workers, pc[v] \in {"loaded", "finish"}, Halted(v)
        PROVE  Halted(v)'
    BY <1>9, <1>0, <2>1, <2>4
    DEF MarkQueued, Halted, TypeOK, RunRows, rowVars, msgVars, workerVars, cancelVars, recoverVars
  <2>5. /\ item'.status = "success" => item.status = "success"
        /\ run'.canon = "ready" => run.canon = "ready"
    BY <1>9, <1>0
    DEF MarkQueued, TypeOK, RunRows, ItemRows, rowVars, msgVars, workerVars, cancelVars,
        recoverVars
  <2> QED
    BY <2>1, <2>2, <2>3, <2>4, <2>5, ReadyOutside
<1>10. ASSUME ApiCrash
      PROVE  RInv'
  <2>1. UNCHANGED <<mode, pc, loc, data>>
    BY <1>10 DEF ApiCrash, rowVars, taskVars, msgVars, workerVars, cancelVars, recoverVars
  <2>2. /\ Known <= Known' /\ run'.task <= Known' /\ rtask' <= Known'
        /\ \A t \in TaskIds : msgs'[t] > 0 => t <= Known'
        /\ api' = "resume" => tasks' < MaxTasks
    BY <1>10, <1>0
    DEF ApiCrash, Known, KnownOK, TypeOK, BoundOK, RunRows, TaskIds, rowVars, taskVars, msgVars,
        workerVars, cancelVars, recoverVars
  <2>3. CancelOK'
    BY <1>10, <1>0
    DEF ApiCrash, CancelOK, TypeOK, RunRows, rowVars, taskVars, msgVars, workerVars, cancelVars,
        recoverVars
  <2>4. ASSUME NEW v \in Workers, pc[v] \in {"loaded", "finish"}, Halted(v)
        PROVE  Halted(v)'
    BY <1>10, <1>0, <2>1, <2>4
    DEF ApiCrash, Halted, TypeOK, RunRows, rowVars, taskVars, msgVars, workerVars, cancelVars,
        recoverVars
  <2>5. /\ item'.status = "success" => item.status = "success"
        /\ run'.canon = "ready" => run.canon = "ready"
    BY <1>10, <1>0
    DEF ApiCrash, TypeOK, RunRows, ItemRows, rowVars, taskVars, msgVars, workerVars, cancelVars,
        recoverVars
  <2> QED
    BY <2>1, <2>2, <2>3, <2>4, <2>5, ReadyOutside
<1> QED
  BY <1>1, <1>2, <1>3, <1>4, <1>5, <1>6, <1>7, <1>8, <1>9, <1>10

\* Cancellation: a flag that stays.
LEMMA ReadyCancel ==
  ASSUME DInv, RInv, DInv', NoCancelledResume
  PROVE  /\ CancelRead => RInv'
         /\ CancelFlag => RInv'
         /\ CancelRevoke => RInv'
         /\ CancelDataSync => RInv'
         /\ CancelTaskRow => RInv'
         /\ CancelCrash => RInv'
PROOF
<1>0. TypeOK /\ BoundOK /\ KnownOK /\ CancelOK /\ TypeOK'
  BY DEF DInv, RInv
<1>1. ASSUME CancelRead
      PROVE  RInv'
  <2>1. UNCHANGED <<mode, pc, loc, data>>
    BY <1>1 DEF CancelRead, rowVars, taskVars, msgVars, workerVars, apiVars, recoverVars
  <2>2. /\ Known <= Known' /\ run'.task <= Known' /\ rtask' <= Known'
        /\ \A t \in TaskIds : msgs'[t] > 0 => t <= Known'
        /\ api' = "resume" => tasks' < MaxTasks
    BY <1>1, <1>0
    DEF CancelRead, Known, KnownOK, TypeOK, BoundOK, RunRows, TaskIds, rowVars, taskVars, msgVars,
        workerVars, apiVars, recoverVars, Fault
  <2>3. CancelOK'
    BY <1>1, <1>0
    DEF CancelRead, CancelOK, TypeOK, RunRows, rowVars, taskVars, msgVars, workerVars, apiVars,
        recoverVars, Fault
  <2>4. ASSUME NEW v \in Workers, pc[v] \in {"loaded", "finish"}, Halted(v)
        PROVE  Halted(v)'
    BY <1>1, <1>0, <2>1, <2>4
    DEF CancelRead, Halted, TypeOK, RunRows, rowVars, taskVars, msgVars, workerVars, apiVars,
        recoverVars, Fault
  <2>5. /\ item'.status = "success" => item.status = "success"
        /\ run'.canon = "ready" => run.canon = "ready"
    BY <1>1, <1>0
    DEF CancelRead, TypeOK, RunRows, ItemRows, rowVars, taskVars, msgVars, workerVars, apiVars,
        recoverVars, Fault
  <2> QED
    BY <2>1, <2>2, <2>3, <2>4, <2>5, ReadyOutside
<1>2. ASSUME CancelFlag
      PROVE  RInv'
  <2>1. UNCHANGED <<mode, pc, loc, data>>
    BY <1>2 DEF CancelFlag, taskVars, msgVars, workerVars, apiVars, recoverVars
  <2>2. /\ Known <= Known' /\ run'.task <= Known' /\ rtask' <= Known'
        /\ \A t \in TaskIds : msgs'[t] > 0 => t <= Known'
        /\ api' = "resume" => tasks' < MaxTasks
    BY <1>2, <1>0
    DEF CancelFlag, Known, KnownOK, TypeOK, BoundOK, RunRows, TaskIds, taskVars, msgVars,
        workerVars, apiVars, recoverVars, CancelRowsOf
  <2>3. CancelOK'
    BY <1>2, <1>0
    DEF CancelFlag, CancelOK, TypeOK, RunRows, taskVars, msgVars, workerVars, apiVars, recoverVars,
        CancelRowsOf
  <2>4. ASSUME NEW v \in Workers, pc[v] \in {"loaded", "finish"}, Halted(v)
        PROVE  Halted(v)'
    BY <1>2, <1>0, <2>1, <2>4
    DEF CancelFlag, Halted, TypeOK, RunRows, taskVars, msgVars, workerVars, apiVars, recoverVars,
        CancelRowsOf
  <2>5. /\ item'.status = "success" => item.status = "success"
        /\ run'.canon = "ready" => run.canon = "ready"
    BY <1>2, <1>0
    DEF CancelFlag, TypeOK, RunRows, ItemRows, taskVars, msgVars, workerVars, apiVars, recoverVars,
        CancelRowsOf
  <2> QED
    BY <2>1, <2>2, <2>3, <2>4, <2>5, ReadyOutside
<1>3. ASSUME CancelRevoke
      PROVE  RInv'
  <2>1. UNCHANGED <<mode, pc, loc, data>>
    BY <1>3 DEF CancelRevoke, rowVars, msgVars, workerVars, apiVars, recoverVars
  <2>2. /\ Known <= Known' /\ run'.task <= Known' /\ rtask' <= Known'
        /\ \A t \in TaskIds : msgs'[t] > 0 => t <= Known'
        /\ api' = "resume" => tasks' < MaxTasks
    BY <1>3, <1>0
    DEF CancelRevoke, Known, KnownOK, TypeOK, BoundOK, RunRows, TaskIds, rowVars, msgVars,
        workerVars, apiVars, recoverVars
  <2>3. CancelOK'
    BY <1>3, <1>0
    DEF CancelRevoke, CancelOK, TypeOK, RunRows, rowVars, msgVars, workerVars, apiVars, recoverVars
  <2>4. ASSUME NEW v \in Workers, pc[v] \in {"loaded", "finish"}, Halted(v)
        PROVE  Halted(v)'
    BY <1>3, <1>0, <2>1, <2>4
    DEF CancelRevoke, Halted, TypeOK, RunRows, rowVars, msgVars, workerVars, apiVars, recoverVars
  <2>5. /\ item'.status = "success" => item.status = "success"
        /\ run'.canon = "ready" => run.canon = "ready"
    BY <1>3, <1>0
    DEF CancelRevoke, TypeOK, RunRows, ItemRows, rowVars, msgVars, workerVars, apiVars, recoverVars
  <2> QED
    BY <2>1, <2>2, <2>3, <2>4, <2>5, ReadyOutside
<1>4. ASSUME CancelDataSync
      PROVE  RInv'
  <2>1. UNCHANGED <<mode, pc, loc, data>>
    BY <1>4 DEF CancelDataSync, taskVars, msgVars, workerVars, apiVars, recoverVars
  <2>2. /\ Known <= Known' /\ run'.task <= Known' /\ rtask' <= Known'
        /\ \A t \in TaskIds : msgs'[t] > 0 => t <= Known'
        /\ api' = "resume" => tasks' < MaxTasks
    BY <1>4, <1>0
    DEF CancelDataSync, Known, KnownOK, TypeOK, BoundOK, RunRows, TaskIds, taskVars, msgVars,
        workerVars, apiVars, recoverVars, CancelRowsOf, CancelItems
  <2>3. CancelOK'
    BY <1>4, <1>0
    DEF CancelDataSync, CancelOK, TypeOK, RunRows, taskVars, msgVars, workerVars, apiVars,
        recoverVars, CancelRowsOf, CancelItems
  <2>4. ASSUME NEW v \in Workers, pc[v] \in {"loaded", "finish"}, Halted(v)
        PROVE  Halted(v)'
    BY <1>4, <1>0, <2>1, <2>4
    DEF CancelDataSync, Halted, TypeOK, RunRows, taskVars, msgVars, workerVars, apiVars,
        recoverVars, CancelRowsOf, CancelItems
  <2>5. /\ item'.status = "success" => item.status = "success"
        /\ run'.canon = "ready" => run.canon = "ready"
    BY <1>4, <1>0
    DEF CancelDataSync, TypeOK, RunRows, ItemRows, taskVars, msgVars, workerVars, apiVars,
        recoverVars, CancelRowsOf, CancelItems
  <2> QED
    BY <2>1, <2>2, <2>3, <2>4, <2>5, ReadyOutside
<1>5. ASSUME CancelTaskRow
      PROVE  RInv'
  <2>1. UNCHANGED <<mode, pc, loc, data>>
    BY <1>5 DEF CancelTaskRow, rowVars, msgVars, workerVars, apiVars, recoverVars
  <2>2. /\ Known <= Known' /\ run'.task <= Known' /\ rtask' <= Known'
        /\ \A t \in TaskIds : msgs'[t] > 0 => t <= Known'
        /\ api' = "resume" => tasks' < MaxTasks
    BY <1>5, <1>0
    DEF CancelTaskRow, Known, KnownOK, TypeOK, BoundOK, RunRows, TaskIds, rowVars, msgVars,
        workerVars, apiVars, recoverVars
  <2>3. CancelOK'
    BY <1>5, <1>0
    DEF CancelTaskRow, CancelOK, TypeOK, RunRows, rowVars, msgVars, workerVars, apiVars,
        recoverVars
  <2>4. ASSUME NEW v \in Workers, pc[v] \in {"loaded", "finish"}, Halted(v)
        PROVE  Halted(v)'
    BY <1>5, <1>0, <2>1, <2>4
    DEF CancelTaskRow, Halted, TypeOK, RunRows, rowVars, msgVars, workerVars, apiVars, recoverVars
  <2>5. /\ item'.status = "success" => item.status = "success"
        /\ run'.canon = "ready" => run.canon = "ready"
    BY <1>5, <1>0
    DEF CancelTaskRow, TypeOK, RunRows, ItemRows, rowVars, msgVars, workerVars, apiVars,
        recoverVars
  <2> QED
    BY <2>1, <2>2, <2>3, <2>4, <2>5, ReadyOutside
<1>6. ASSUME CancelCrash
      PROVE  RInv'
  <2>1. UNCHANGED <<mode, pc, loc, data>>
    BY <1>6 DEF CancelCrash, rowVars, taskVars, msgVars, workerVars, apiVars, recoverVars
  <2>2. /\ Known <= Known' /\ run'.task <= Known' /\ rtask' <= Known'
        /\ \A t \in TaskIds : msgs'[t] > 0 => t <= Known'
        /\ api' = "resume" => tasks' < MaxTasks
    BY <1>6, <1>0
    DEF CancelCrash, Known, KnownOK, TypeOK, BoundOK, RunRows, TaskIds, rowVars, taskVars, msgVars,
        workerVars, apiVars, recoverVars
  <2>3. CancelOK'
    BY <1>6, <1>0
    DEF CancelCrash, CancelOK, TypeOK, RunRows, rowVars, taskVars, msgVars, workerVars, apiVars,
        recoverVars
  <2>4. ASSUME NEW v \in Workers, pc[v] \in {"loaded", "finish"}, Halted(v)
        PROVE  Halted(v)'
    BY <1>6, <1>0, <2>1, <2>4
    DEF CancelCrash, Halted, TypeOK, RunRows, rowVars, taskVars, msgVars, workerVars, apiVars,
        recoverVars
  <2>5. /\ item'.status = "success" => item.status = "success"
        /\ run'.canon = "ready" => run.canon = "ready"
    BY <1>6, <1>0
    DEF CancelCrash, TypeOK, RunRows, ItemRows, rowVars, taskVars, msgVars, workerVars, apiVars,
        recoverVars
  <2> QED
    BY <2>1, <2>2, <2>3, <2>4, <2>5, ReadyOutside
<1> QED
  BY <1>1, <1>2, <1>3, <1>4, <1>5, <1>6

\* Recovery publishes the task that the run was bound to.
LEMMA ReadyRecovery ==
  ASSUME DInv, RInv, DInv', NoCancelledResume
  PROVE  /\ Age => RInv'
         /\ AgeDerived => RInv'
         /\ RecoverRead => RInv'
         /\ fail_stale_unbound_run => RInv'
         /\ queue_stale_run_for_recovery => RInv'
         /\ RecoverMark => RInv'
         /\ finalize_stale_cancellation => RInv'
         /\ queue_stale_derived_for_recovery => RInv'
PROOF
<1>0. TypeOK /\ BoundOK /\ KnownOK /\ CancelOK /\ TypeOK'
  BY DEF DInv, RInv
<1>1. ASSUME Age
      PROVE  RInv'
  <2>1. UNCHANGED <<mode, pc, loc, data>>
    BY <1>1 DEF Age, taskVars, msgVars, workerVars, apiVars, cancelVars, recoverVars, nonWorker
  <2>2. /\ Known <= Known' /\ run'.task <= Known' /\ rtask' <= Known'
        /\ \A t \in TaskIds : msgs'[t] > 0 => t <= Known'
        /\ api' = "resume" => tasks' < MaxTasks
    BY <1>1, <1>0
    DEF Age, Known, KnownOK, TypeOK, BoundOK, RunRows, TaskIds, taskVars, msgVars, workerVars,
        apiVars, cancelVars, recoverVars, nonWorker
  <2>3. CancelOK'
    BY <1>1, <1>0
    DEF Age, CancelOK, TypeOK, RunRows, taskVars, msgVars, workerVars, apiVars, cancelVars,
        recoverVars, nonWorker
  <2>4. ASSUME NEW v \in Workers, pc[v] \in {"loaded", "finish"}, Halted(v)
        PROVE  Halted(v)'
    BY <1>1, <1>0, <2>1, <2>4
    DEF Age, Halted, TypeOK, RunRows, taskVars, msgVars, workerVars, apiVars, cancelVars,
        recoverVars, nonWorker
  <2>5. /\ item'.status = "success" => item.status = "success"
        /\ run'.canon = "ready" => run.canon = "ready"
    BY <1>1, <1>0
    DEF Age, TypeOK, RunRows, ItemRows, taskVars, msgVars, workerVars, apiVars, cancelVars,
        recoverVars, nonWorker
  <2> QED
    BY <2>1, <2>2, <2>3, <2>4, <2>5, ReadyOutside
<1>2. ASSUME AgeDerived
      PROVE  RInv'
  <2>1. UNCHANGED <<mode, pc, loc, data>>
    BY <1>2
    DEF AgeDerived, taskVars, msgVars, workerVars, apiVars, cancelVars, recoverVars, nonWorker
  <2>2. /\ Known <= Known' /\ run'.task <= Known' /\ rtask' <= Known'
        /\ \A t \in TaskIds : msgs'[t] > 0 => t <= Known'
        /\ api' = "resume" => tasks' < MaxTasks
    BY <1>2, <1>0
    DEF AgeDerived, Known, KnownOK, TypeOK, BoundOK, RunRows, TaskIds, taskVars, msgVars,
        workerVars, apiVars, cancelVars, recoverVars, nonWorker
  <2>3. CancelOK'
    BY <1>2, <1>0
    DEF AgeDerived, CancelOK, TypeOK, RunRows, taskVars, msgVars, workerVars, apiVars, cancelVars,
        recoverVars, nonWorker
  <2>4. ASSUME NEW v \in Workers, pc[v] \in {"loaded", "finish"}, Halted(v)
        PROVE  Halted(v)'
    BY <1>2, <1>0, <2>1, <2>4
    DEF AgeDerived, Halted, TypeOK, RunRows, taskVars, msgVars, workerVars, apiVars, cancelVars,
        recoverVars, nonWorker
  <2>5. /\ item'.status = "success" => item.status = "success"
        /\ run'.canon = "ready" => run.canon = "ready"
    BY <1>2, <1>0
    DEF AgeDerived, TypeOK, RunRows, ItemRows, taskVars, msgVars, workerVars, apiVars, cancelVars,
        recoverVars, nonWorker
  <2> QED
    BY <2>1, <2>2, <2>3, <2>4, <2>5, ReadyOutside
<1>3. ASSUME RecoverRead
      PROVE  RInv'
  <2>1. UNCHANGED <<mode, pc, loc, data>>
    BY <1>3 DEF RecoverRead, rowVars, taskVars, msgVars, workerVars, apiVars, cancelVars, nonRecover
  <2>2. /\ Known <= Known' /\ run'.task <= Known' /\ rtask' <= Known'
        /\ \A t \in TaskIds : msgs'[t] > 0 => t <= Known'
        /\ api' = "resume" => tasks' < MaxTasks
    BY <1>3, <1>0
    DEF RecoverRead, Known, KnownOK, TypeOK, BoundOK, RunRows, TaskIds, rowVars, taskVars, msgVars,
        workerVars, apiVars, cancelVars, nonRecover
  <2>3. CancelOK'
    BY <1>3, <1>0
    DEF RecoverRead, CancelOK, TypeOK, RunRows, rowVars, taskVars, msgVars, workerVars, apiVars,
        cancelVars, nonRecover
  <2>4. ASSUME NEW v \in Workers, pc[v] \in {"loaded", "finish"}, Halted(v)
        PROVE  Halted(v)'
    BY <1>3, <1>0, <2>1, <2>4
    DEF RecoverRead, Halted, TypeOK, RunRows, rowVars, taskVars, msgVars, workerVars, apiVars,
        cancelVars, nonRecover
  <2>5. /\ item'.status = "success" => item.status = "success"
        /\ run'.canon = "ready" => run.canon = "ready"
    BY <1>3, <1>0
    DEF RecoverRead, TypeOK, RunRows, ItemRows, rowVars, taskVars, msgVars, workerVars, apiVars,
        cancelVars, nonRecover
  <2> QED
    BY <2>1, <2>2, <2>3, <2>4, <2>5, ReadyOutside
<1>4. ASSUME fail_stale_unbound_run
      PROVE  RInv'
  <2>1. UNCHANGED <<mode, pc, loc, data>>
    BY <1>4
    DEF fail_stale_unbound_run, taskVars, msgVars, workerVars, apiVars, cancelVars, nonRecover
  <2>2. /\ Known <= Known' /\ run'.task <= Known' /\ rtask' <= Known'
        /\ \A t \in TaskIds : msgs'[t] > 0 => t <= Known'
        /\ api' = "resume" => tasks' < MaxTasks
    BY <1>4, <1>0
    DEF fail_stale_unbound_run, Known, KnownOK, TypeOK, BoundOK, RunRows, TaskIds, taskVars,
        msgVars, workerVars, apiVars, cancelVars, nonRecover, FailedRun
  <2>3. CancelOK'
    BY <1>4, <1>0
    DEF fail_stale_unbound_run, CancelOK, TypeOK, RunRows, taskVars, msgVars, workerVars, apiVars,
        cancelVars, nonRecover, FailedRun
  <2>4. ASSUME NEW v \in Workers, pc[v] \in {"loaded", "finish"}, Halted(v)
        PROVE  Halted(v)'
    BY <1>4, <1>0, <2>1, <2>4
    DEF fail_stale_unbound_run, Halted, TypeOK, RunRows, taskVars, msgVars, workerVars, apiVars,
        cancelVars, nonRecover, FailedRun
  <2>5. /\ item'.status = "success" => item.status = "success"
        /\ run'.canon = "ready" => run.canon = "ready"
    BY <1>4, <1>0
    DEF fail_stale_unbound_run, TypeOK, RunRows, ItemRows, taskVars, msgVars, workerVars, apiVars,
        cancelVars, nonRecover, FailedRun
  <2> QED
    BY <2>1, <2>2, <2>3, <2>4, <2>5, ReadyOutside
<1>5. ASSUME queue_stale_run_for_recovery
      PROVE  RInv'
  <2>1. UNCHANGED <<mode, pc, loc, data>>
    BY <1>5 DEF queue_stale_run_for_recovery, workerVars, apiVars, cancelVars, nonRecover
  <2>2. /\ Known <= Known' /\ run'.task <= Known' /\ rtask' <= Known'
        /\ \A t \in TaskIds : msgs'[t] > 0 => t <= Known'
        /\ api' = "resume" => tasks' < MaxTasks
    <3>1. Known' = Known /\ run'.task = run.task /\ (rtask' = rtask \/ rtask' = 0)
      BY <1>5, <1>0 DEF queue_stale_run_for_recovery, Known, TypeOK, RunRows, apiVars, nonRecover
    <3>2. Known \in Nat
      BY <1>0 DEF Known, TypeOK, BoundOK
    <3>3. ASSUME NEW t \in TaskIds, msgs'[t] > 0
          PROVE  t <= Known
      <4>1. t = rtask \/ msgs'[t] = msgs[t]
        BY <1>5, <1>0 DEF queue_stale_run_for_recovery, TypeOK
      <4> QED
        BY <1>0, <3>3, <4>1 DEF KnownOK
    <3>4. api' = api /\ tasks' = tasks
      BY <1>5 DEF queue_stale_run_for_recovery, apiVars, nonRecover
    <3> QED
      BY <1>0, <3>1, <3>2, <3>3, <3>4 DEF KnownOK
  <2>3. CancelOK'
    BY <1>5, <1>0
    DEF queue_stale_run_for_recovery, CancelOK, TypeOK, RunRows, workerVars, apiVars, cancelVars,
        nonRecover
  <2>4. ASSUME NEW v \in Workers, pc[v] \in {"loaded", "finish"}, Halted(v)
        PROVE  Halted(v)'
    BY <1>5, <1>0, <2>1, <2>4
    DEF queue_stale_run_for_recovery, Halted, TypeOK, RunRows, workerVars, apiVars, cancelVars,
        nonRecover
  <2>5. /\ item'.status = "success" => item.status = "success"
        /\ run'.canon = "ready" => run.canon = "ready"
    BY <1>5, <1>0
    DEF queue_stale_run_for_recovery, TypeOK, RunRows, ItemRows, workerVars, apiVars, cancelVars,
        nonRecover
  <2> QED
    BY <2>1, <2>2, <2>3, <2>4, <2>5, ReadyOutside
<1>6. ASSUME RecoverMark
      PROVE  RInv'
  <2>1. UNCHANGED <<mode, pc, loc, data>>
    BY <1>6 DEF RecoverMark, rowVars, msgVars, workerVars, apiVars, cancelVars, nonRecover
  <2>2. /\ Known <= Known' /\ run'.task <= Known' /\ rtask' <= Known'
        /\ \A t \in TaskIds : msgs'[t] > 0 => t <= Known'
        /\ api' = "resume" => tasks' < MaxTasks
    BY <1>6, <1>0
    DEF RecoverMark, Known, KnownOK, TypeOK, BoundOK, RunRows, TaskIds, rowVars, msgVars,
        workerVars, apiVars, cancelVars, nonRecover
  <2>3. CancelOK'
    BY <1>6, <1>0
    DEF RecoverMark, CancelOK, TypeOK, RunRows, rowVars, msgVars, workerVars, apiVars, cancelVars,
        nonRecover
  <2>4. ASSUME NEW v \in Workers, pc[v] \in {"loaded", "finish"}, Halted(v)
        PROVE  Halted(v)'
    BY <1>6, <1>0, <2>1, <2>4
    DEF RecoverMark, Halted, TypeOK, RunRows, rowVars, msgVars, workerVars, apiVars, cancelVars,
        nonRecover
  <2>5. /\ item'.status = "success" => item.status = "success"
        /\ run'.canon = "ready" => run.canon = "ready"
    BY <1>6, <1>0
    DEF RecoverMark, TypeOK, RunRows, ItemRows, rowVars, msgVars, workerVars, apiVars, cancelVars,
        nonRecover
  <2> QED
    BY <2>1, <2>2, <2>3, <2>4, <2>5, ReadyOutside
<1>7. ASSUME finalize_stale_cancellation
      PROVE  RInv'
  <2>1. UNCHANGED <<mode, pc, loc, data>>
    BY <1>7
    DEF finalize_stale_cancellation, taskVars, msgVars, workerVars, apiVars, cancelVars, nonRecover
  <2>2. /\ Known <= Known' /\ run'.task <= Known' /\ rtask' <= Known'
        /\ \A t \in TaskIds : msgs'[t] > 0 => t <= Known'
        /\ api' = "resume" => tasks' < MaxTasks
    BY <1>7, <1>0
    DEF finalize_stale_cancellation, Known, KnownOK, TypeOK, BoundOK, RunRows, TaskIds, taskVars,
        msgVars, workerVars, apiVars, cancelVars, nonRecover
  <2>3. CancelOK'
    BY <1>7, <1>0
    DEF finalize_stale_cancellation, CancelOK, TypeOK, RunRows, taskVars, msgVars, workerVars,
        apiVars, cancelVars, nonRecover
  <2>4. ASSUME NEW v \in Workers, pc[v] \in {"loaded", "finish"}, Halted(v)
        PROVE  Halted(v)'
    BY <1>7, <1>0, <2>1, <2>4
    DEF finalize_stale_cancellation, Halted, TypeOK, RunRows, taskVars, msgVars, workerVars,
        apiVars, cancelVars, nonRecover
  <2>5. /\ item'.status = "success" => item.status = "success"
        /\ run'.canon = "ready" => run.canon = "ready"
    BY <1>7, <1>0
    DEF finalize_stale_cancellation, TypeOK, RunRows, ItemRows, taskVars, msgVars, workerVars,
        apiVars, cancelVars, nonRecover
  <2> QED
    BY <2>1, <2>2, <2>3, <2>4, <2>5, ReadyOutside
<1>8. ASSUME queue_stale_derived_for_recovery
      PROVE  RInv'
  <2>1. UNCHANGED <<mode, pc, loc, data>>
    BY <1>8
    DEF queue_stale_derived_for_recovery, taskVars, workerVars, apiVars, cancelVars, nonRecover
  <2>2. /\ Known <= Known' /\ run'.task <= Known' /\ rtask' <= Known'
        /\ \A t \in TaskIds : msgs'[t] > 0 => t <= Known'
        /\ api' = "resume" => tasks' < MaxTasks
    BY <1>8, <1>0
    DEF queue_stale_derived_for_recovery, Known, KnownOK, TypeOK, BoundOK, RunRows, TaskIds,
        taskVars, workerVars, apiVars, cancelVars, nonRecover
  <2>3. CancelOK'
    BY <1>8, <1>0
    DEF queue_stale_derived_for_recovery, CancelOK, TypeOK, RunRows, taskVars, workerVars, apiVars,
        cancelVars, nonRecover
  <2>4. ASSUME NEW v \in Workers, pc[v] \in {"loaded", "finish"}, Halted(v)
        PROVE  Halted(v)'
    BY <1>8, <1>0, <2>1, <2>4
    DEF queue_stale_derived_for_recovery, Halted, TypeOK, RunRows, taskVars, workerVars, apiVars,
        cancelVars, nonRecover
  <2>5. /\ item'.status = "success" => item.status = "success"
        /\ run'.canon = "ready" => run.canon = "ready"
    BY <1>8, <1>0
    DEF queue_stale_derived_for_recovery, TypeOK, RunRows, ItemRows, taskVars, workerVars, apiVars,
        cancelVars, nonRecover
  <2> QED
    BY <2>1, <2>2, <2>3, <2>4, <2>5, ReadyOutside
<1> QED
  BY <1>1, <1>2, <1>3, <1>4, <1>5, <1>6, <1>7, <1>8


\* Nothing has been computed at first.
LEMMA InitRInv == Init => RInv
PROOF
<1> SUFFICES ASSUME Init
             PROVE  RInv
  OBVIOUS
<1>1. KnownOK
  BY SyncBoundsAssumption DEF Init, KnownOK, Known, InSync
<1>2. CancelOK /\ ReadyIsComplete /\ item.status # "success"
  BY DEF Init, CancelOK, ReadyIsComplete, FreshItem
<1>3. ASSUME NEW w \in Workers
      PROVE  ReadyOK(w)
  BY DEF Init, ReadyOK
<1> QED
  BY <1>1, <1>2, <1>3 DEF RInv

\* RInv is inductive under the two hypotheses.
LEMMA NextRInv ==
  ASSUME ByDate, NoCancelledResume
  PROVE  DInv /\ RInv /\ [Next]_vars => RInv'
PROOF
<1> SUFFICES ASSUME DInv, RInv, [Next]_vars
             PROVE  RInv'
  OBVIOUS
<1>0. DInv'
  BY NextDInv
<1>1. ASSUME create_sync_run \/ ResumeRead \/ ApiStep \/ PublishFails \/ ApiCrash
      PROVE  RInv'
  BY <1>0, <1>1, ReadyApi DEF ApiStep
<1>2. ASSUME CancelRead \/ CancelStep \/ CancelCrash
      PROVE  RInv'
  BY <1>0, <1>2, ReadyCancel DEF CancelStep
<1>3. ASSUME Age \/ AgeDerived \/ RecoverRead \/ RecoverStep
      PROVE  RInv'
  BY <1>0, <1>3, ReadyRecovery DEF RecoverStep
<1>4. ASSUME NEW w \in Workers, NEW t \in TaskIds, Receive(w, t)
      PROVE  RInv'
  BY <1>0, <1>4, ReadyReceive
<1>5. ASSUME NEW w \in Workers, SyncStep(w)
      PROVE  RInv'
  BY <1>0, <1>5, ReadyStart, ReadyLoad, ReadyFetch, ReadyEnd, ReadySettle DEF SyncStep
<1>6. ASSUME NEW w \in Workers,
             PrepareRaises(w) \/ RequiredFails(w) \/ FetchFails(w) \/ LoadRaises(w)
      PROVE  RInv'
  BY <1>0, <1>6, ReadyStart, ReadyLoad
<1>7. ASSUME NEW w \in Workers,
             ReceiveMaterialize(w) \/ MaterializeStep(w) \/ Crash(w) \/ Terminate(w)
      PROVE  RInv'
  BY <1>0, <1>7, ReadySettle DEF MaterializeStep
<1>8. ASSUME UNCHANGED vars
      PROVE  RInv'
  <2>1. KnownOK'
    BY <1>8
    DEF RInv, KnownOK, Known, InSync, vars, rowVars, taskVars, msgVars, workerVars, apiVars,
        recoverVars
  <2>2. CancelOK' /\ ReadyIsComplete' /\ (item'.status = "success" => data' = Units)
    BY <1>8 DEF RInv, CancelOK, ReadyIsComplete, vars, rowVars, cancelVars
  <2>3. ASSUME NEW w \in Workers
        PROVE  ReadyOK(w)'
    BY <1>8 DEF RInv, ReadyOK, Halted, vars, rowVars, workerVars
  <2> QED
    BY <2>1, <2>2, <2>3 DEF RInv
<1> QED
  BY <1>1, <1>2, <1>3, <1>4, <1>5, <1>6, <1>7, <1>8 DEF Next, WorkerStep

\* A run fetched by trade date is canonically ready only when every session of
\* its scope is in the store (run_sync's final update), with any number of
\* executors, lost workers, lost requests, failing fetches, pauses and
\* resumptions, as long as a run that was cancelled is not resumed: the model
\* checker shows how that resumption, and a resumed run by symbol, break it.
THEOREM ReadyByDate ==
  ASSUME ByDate, NoCancelledResume
  PROVE  Spec => []ReadyIsComplete
PROOF
<1>1. DInv /\ RInv /\ [Next]_vars => RInv'
  BY NextRInv
<1>2. RInv => ReadyIsComplete
  BY DEF RInv
<1> QED
  BY <1>1, <1>2, InitRInv, AlwaysDInv, PTL DEF Spec

=============================================================================
