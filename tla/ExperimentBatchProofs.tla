------------------------ MODULE ExperimentBatchProofs ------------------------
(***************************************************************************)
(* Theorems about ExperimentBatch, for every number of candidates,         *)
(* processes, children, requests and faults.                               *)
(*                                                                         *)
(* The argument rests on what cannot be taken back: a child that has       *)
(* succeeded stays so, because nobody publishes it a second time.  What a  *)
(* hook, a refresh or a row has read of a success is therefore still true  *)
(* when it is used.                                                        *)
(***************************************************************************)
EXTENDS ExperimentBatch, TLAPS

(***************************************************************************)
(* The inductive invariant.                                                *)
(***************************************************************************)
\* A run that exists and has succeeded, and one that can be ranked as well.
Succeeded(r) == r \in born /\ status[r] = "success"
Scored(r) == Succeeded(r) /\ r \notin unscored

\* A run without a row has no worker.
BirthOK ==
  /\ \A r \in ChildRuns : r \notin born => status[r] = "absent" /\ hook[r] = "none"
  /\ \A r \in born : status[r] # "absent"

\* A child that is about to be published has no worker yet.
Unpublished(r) == status[r] \in {"created", "cancelled"} /\ hook[r] = "none"

\* Between its creation and its publication a child is in one process's hands;
\* what a process has read of a success is still true.
Linking == {"link", "publish"}
ProcOK(p) ==
  /\ pc[p] = "create" => cur[p] \in Slots
  /\ pc[p] \in Linking \cup {"reject"} \cup HookPcs => cur[p] \in born
  /\ pc[p] \in Linking => Unpublished(cur[p])
  /\ pc[p] \in {"hookWrite", "hookOos"} => (got[p] = "success" => Succeeded(cur[p]))
  /\ pc[p] = "select" => \A i \in Validation : Scored(<<i, rows[p][i]>>)
  /\ pc[p] \in {"select", "write"} => calc[p] # "none"
Separate == \A p, q \in Procs : p # q /\ pc[p] \in Linking /\ pc[q] \in Linking => cur[p] # cur[q]

\* The same for the hook of a child's own worker.
ChildOK(r) ==
  hook[r] \in {"startWrite", "startOos", "endWrite", "endOos"} =>
    (seen[r] = "success" => Succeeded(r))

\* And for the rows: results, the frozen ranking, the evaluation, the certificate.
RowsOK ==
  /\ \A i \in Items : item[i] = "success" => Succeeded(<<i, result[i]>>)
  /\ selected # NoCandidate => \A i \in Validation : Scored(<<i, ranking[i]>>)
  /\ oosEval = "completed" => selected # NoCandidate /\ Succeeded(<<<<"oos", selected>>, oosRun>>)
  /\ cert # 0 => selected # NoCandidate /\ Succeeded(<<<<"oos", selected>>, cert>>)

BInv ==
  /\ TypeOK
  /\ BirthOK
  /\ \A p \in Procs : ProcOK(p)
  /\ Separate
  /\ \A r \in ChildRuns : ChildOK(r)
  /\ RowsOK

(***************************************************************************)
(* What holds as long as the user does not ask for certain things.         *)
(***************************************************************************)
\* Without cancellation, a child that is about to be published is as created.
CInv ==
  \A p \in Procs : /\ flow[p] # "cancel"
                   /\ pc[p] \notin {"cancelItems", "cancelRuns"}
                   /\ pc[p] \in Linking => status[cur[p]] = "created"

\* Without restarts, an out-of-sample item that was not selected is never taken.
IsOos(i) == i[1] = "oos" /\ i[2] # selected
SInv ==
  /\ \A p \in Procs : /\ flow[p] # "restart"
                      /\ pc[p] = "requeue" => flow[p] = "retry"
                      /\ pc[p] = "create" => ~IsOos(InHand(p))
  /\ \A i \in Items : IsOos(i) => item[i] \in {SELECTION_BLOCKED, "skipped", "cancelled"}
  /\ \A r \in born : ~IsOos(ItemOf(r))

\* Without retries and restarts, an item is taken once.
OInv ==
  /\ \A p \in Procs : flow[p] \notin {"retry", "restart"} /\ pc[p] # "requeue"
  /\ \A p \in Procs : pc[p] = "create" =>
       /\ item[InHand(p)] \notin {"pending", SELECTION_BLOCKED}
       /\ \A r \in born : ItemOf(r) # InHand(p)
  /\ \A p, q \in Procs : p # q /\ pc[p] = "create" /\ pc[q] = "create" => InHand(p) # InHand(q)
  /\ \A r \in born : item[ItemOf(r)] \notin {"pending", SELECTION_BLOCKED}
  /\ \A r, t \in born : ItemOf(r) = ItemOf(t) => r = t

(***************************************************************************)
(* Types.                                                                  *)
(***************************************************************************)
RunStatuses == Child!Active \cup Child!Terminal
ProcTypes ==
  /\ pc \in [Procs -> ProcPcs] /\ flow \in [Procs -> Flows] /\ last \in [Procs -> BOOLEAN]
  /\ calc \in [Procs -> BatchStates \cup {"none"}]
  /\ rows \in [Procs -> [Validation -> 0 .. MaxRuns]]
  /\ todo \in [Procs -> SUBSET Slots] /\ cur \in [Procs -> Slots \cup {NoRun}]
  /\ got \in [Procs -> RunStatuses \cup {"none"}]
ItemTypes ==
  /\ item \in [Items -> ItemStates]
  /\ related \in [Items -> 0 .. MaxRuns] /\ result \in [Items -> 0 .. MaxRuns]
  /\ unscored \subseteq ChildRuns /\ batch \in BatchStates /\ cancelReq \in BOOLEAN
SelectionTypes ==
  /\ selected \in Candidates \cup {NoCandidate} /\ ranking \in [Validation -> 0 .. MaxRuns]
  /\ oosRun \in 0 .. MaxRuns /\ oosEval \in {"none", "pending", "completed", "failed"}
  /\ wfRun \in {"none", "validation_pending", "oos_pending", "completed", "failed"}
  /\ cert \in 0 .. MaxRuns
HookStates == {"none", "execute", "startRead", "startWrite", "startOos", "endRead", "endWrite", "endOos"}
ChildTypes ==
  /\ status \in [ChildRuns -> RunStatuses \cup {"absent"}] /\ born \subseteq ChildRuns
  /\ hook \in [ChildRuns -> HookStates] /\ seen \in [ChildRuns -> RunStatuses \cup {"none"}]
CountTypes == msgs \in {0, 1} /\ ops \in 0 .. MaxOps /\ faults \in 0 .. MaxFaults

\* The type invariant by groups of variables.
LEMMA TypeGroups ==
  TypeOK <=> ItemTypes /\ SelectionTypes /\ ChildTypes /\ ProcTypes /\ CountTypes
PROOF
  BY DEF TypeOK, ItemTypes, SelectionTypes, ChildTypes, ProcTypes, CountTypes, RunStatuses,
         HookStates, Child!TypeOK

\* The same in the next state.
LEMMA TypeGroupsNext ==
  TypeOK' <=> ItemTypes' /\ SelectionTypes' /\ ChildTypes' /\ ProcTypes' /\ CountTypes'
PROOF
  BY TypeGroups, PTL

\* The places and flows the steps name.
LEMMA PcIn ==
  /\ "idle" \in ProcPcs /\ "read" \in ProcPcs /\ "select" \in ProcPcs /\ "reread" \in ProcPcs
  /\ "write" \in ProcPcs /\ "certify" \in ProcPcs /\ "load" \in ProcPcs /\ "item" \in ProcPcs
  /\ "create" \in ProcPcs /\ "link" \in ProcPcs /\ "reject" \in ProcPcs /\ "publish" \in ProcPcs
  /\ "requeue" \in ProcPcs /\ "cancelItems" \in ProcPcs /\ "cancelRuns" \in ProcPcs
  /\ "hookRead" \in ProcPcs /\ "hookWrite" \in ProcPcs /\ "hookOos" \in ProcPcs
  /\ "none" \in Flows /\ "dispatch" \in Flows /\ "again" \in Flows
PROOF
  BY DEF ProcPcs, RefreshPcs, DispatchPcs, UserPcs, HookPcs, Flows

\* The empty ranking is in range.
LEMMA UnrankedType == Unranked \in [Validation -> 0 .. MaxRuns]
PROOF
  BY BatchBoundsAssumption DEF Unranked

\* refresh computes a batch status.
LEMMA StatusType ==
  ASSUME NEW st, NEW c
  PROVE  StatusOf(st, c) \in BatchStates
PROOF
<1> DEFINE ended == \A i \in Items : st[i] \in TERMINAL
           open == \E i \in Items : st[i] \notin TERMINAL
           some(S) == \E i \in Items : st[i] \in S
           A == IF c /\ ~ some({"success"}) THEN "cancelled"
                ELSE IF some({"failed", "cancelled"}) THEN "partial" ELSE "success"
           B == IF some({"failed"}) /\ ~ some(ACTIVE \cup {"pending"}) THEN "partial"
                ELSE IF some(ACTIVE \cup {"success", "failed"}) THEN "running" ELSE "queued"
<1>1. A \in BatchStates /\ B \in BatchStates
  BY DEF BatchStates
<1>2. ended \/ open
  OBVIOUS
<1>3. StatusOf(st, c) = CASE ended -> A [] open -> B
  BY DEF StatusOf
<1> HIDE DEF ended, open, A, B
<1> QED
  BY <1>1, <1>2, <1>3

\* The run in hand has a number.
LEMMA CurType ==
  ASSUME TypeOK, NEW p \in Procs, cur[p] \in born
  PROVE  cur[p] \in ChildRuns /\ ItemOf(cur[p]) \in Items /\ cur[p][2] \in 1 .. MaxRuns
PROOF
  BY DEF TypeOK, Child!TypeOK, ChildRuns, ItemOf

\* reconcile_backtest writes an item status.
LEMMA ItemStatusType ==
  ASSUME NEW s
  PROVE  ItemStatus(s) \in ItemStates \ {"pending", "dispatching", SELECTION_BLOCKED}
PROOF
  BY DEF ItemStatus, ItemStates, TERMINAL, ACTIVE, SELECTION_BLOCKED

\* Moves of a process.
LEMMA GotoTypes ==
  ASSUME ProcTypes, NEW p \in Procs, NEW l \in ProcPcs, Goto(p, l),
         UNCHANGED <<flow, last, calc, rows, todo, cur, got>>
  PROVE  ProcTypes'
PROOF
  BY DEF Goto, ProcTypes

\* A process that ends is well formed.
LEMMA FinishTypes ==
  ASSUME ProcTypes, NEW p \in Procs, Finish(p)
  PROVE  ProcTypes'
PROOF
<1>1. rows' \in [Procs -> [Validation -> 0 .. MaxRuns]]
  BY UnrankedType DEF Finish, ProcTypes
<1>2. todo' \in [Procs -> SUBSET Slots]
  BY DEF Finish, ProcTypes
<1> QED
  BY <1>1, <1>2, PcIn DEF Finish, ProcTypes

\* So is one after a refresh.
LEMMA RefreshedTypes ==
  ASSUME ProcTypes, NEW p \in Procs, Refreshed(p)
  PROVE  ProcTypes'
PROOF
<1>1. CASE Return(p)
  BY <1>1, FinishTypes DEF Return
<1>2. CASE ~Return(p)
  BY <1>2, GotoTypes, PcIn DEF Refreshed
<1> QED
  BY <1>1, <1>2

\* reconcile_backtest keeps the types of the rows.
LEMMA WriteItemTypes ==
  ASSUME ItemTypes, NEW r \in ChildRuns, NEW s, WriteItem(r, s),
         UNCHANGED <<related, unscored, batch, cancelReq>>
  PROVE  ItemTypes'
PROOF
<1>1. ItemOf(r) \in Items /\ r[2] \in 0 .. MaxRuns
  BY BatchBoundsAssumption DEF ChildRuns, ItemOf
<1>2. ItemStatus(s) \in ItemStates
  BY ItemStatusType
<1> QED
  BY <1>1, <1>2 DEF WriteItem, ItemTypes

\* persist_oos_evaluation writes values in range.
LEMMA PersistTypes ==
  ASSUME SelectionTypes, NEW r \in ChildRuns, NEW s, persist_oos_evaluation(r, s),
         UNCHANGED <<selected, ranking, wfRun, cert>>
  PROVE  SelectionTypes'
PROOF
<1>1. r[2] \in 0 .. MaxRuns
  BY BatchBoundsAssumption DEF ChildRuns
<1> QED
  BY <1>1 DEF persist_oos_evaluation, SelectionTypes

\* The refresh and its callers.
LEMMA RefreshTypes ==
  ASSUME BInv, NEW p \in Procs
  PROVE  /\ ReadItems(p) => TypeOK'
         /\ SelectCandidate(p) => TypeOK'
         /\ RereadItems(p) => TypeOK'
         /\ WriteBatch(p) => TypeOK'
         /\ issue_walk_forward_certificate(p) => TypeOK'
         /\ dispatch_experiment_batch(p) => TypeOK'
         /\ reconcile_experiment_batches(p) => TypeOK'
         /\ UserRequest(p) => TypeOK'
         /\ ProcCrash(p) => TypeOK'
PROOF
<1> USE BatchBoundsAssumption
<1>0. /\ TypeOK /\ ProcOK(p) /\ BirthOK
      /\ ItemTypes /\ SelectionTypes /\ ChildTypes /\ ProcTypes /\ CountTypes
  BY TypeGroups DEF BInv
<1>1. ASSUME ReadItems(p)
      PROVE  TypeOK'
  <2>1. ItemTypes'
    BY <1>1, <1>0
    DEF ReadItems, selectionVars, childVars, hookVars, countVars, rowVars, ItemTypes
  <2>2. SelectionTypes'
    BY <1>1, <1>0
    DEF ReadItems, selectionVars, childVars, hookVars, countVars, rowVars, SelectionTypes
  <2>3. ChildTypes'
    BY <1>1, <1>0
    DEF ReadItems, selectionVars, childVars, hookVars, countVars, rowVars, ChildTypes
  <2>4. ProcTypes'
    <3>1. rows[p]' \in [Validation -> 0 .. MaxRuns] /\ rows' \in [Procs -> [Validation -> 0 .. MaxRuns]]
      <4> DEFINE e == IF Rankable THEN [i \in Validation |-> result[i]] ELSE Unranked
      <4>1. e \in [Validation -> 0 .. MaxRuns]
        BY <1>0, UnrankedType DEF ItemTypes, Validation
      <4>2. rows' = [rows EXCEPT ![p] = e]
        BY <1>1 DEF ReadItems
      <4> HIDE DEF e
      <4> QED
        BY <4>1, <4>2, <1>0 DEF ProcTypes
    <3>2. calc' \in [Procs -> BatchStates \cup {"none"}]
      <4> DEFINE e == StatusOf(item, cancelReq)
      <4>1. e \in BatchStates
        BY StatusType
      <4>2. calc' = [calc EXCEPT ![p] = e]
        BY <1>1 DEF ReadItems
      <4> HIDE DEF e
      <4> QED
        BY <4>1, <4>2, <1>0 DEF ProcTypes
    <3>3. pc' \in [Procs -> ProcPcs]
      BY <1>1, <1>0, PcIn DEF ReadItems, Goto, ProcTypes
    <3> QED
      BY <3>1, <3>2, <3>3, <1>1, <1>0 DEF ReadItems, ProcTypes
  <2>5. CountTypes'
    BY <1>1, <1>0
    DEF ReadItems, selectionVars, childVars, hookVars, countVars, rowVars, CountTypes
  <2> QED
    BY <2>1, <2>2, <2>3, <2>4, <2>5, TypeGroupsNext
<1>2. ASSUME SelectCandidate(p)
      PROVE  TypeOK'
  <2>1. ItemTypes'
    <3>1. item' \in [Items -> ItemStates]
      <4>1. ASSUME NEW c \in Candidates,
                   item' = [i \in Items |-> IF i[1] = "oos" /\ item[i] = SELECTION_BLOCKED
                                            THEN IF i[2] = c THEN "pending" ELSE "skipped" ELSE item[i]]
            PROVE  item' \in [Items -> ItemStates]
        <5>1. "pending" \in ItemStates /\ "skipped" \in ItemStates
          BY DEF ItemStates, TERMINAL
        <5> QED
          BY <4>1, <5>1, <1>0 DEF ItemTypes
      <4> QED
        BY <4>1, <1>2, <1>0 DEF SelectCandidate, ItemTypes
    <3> QED
      BY <3>1, <1>2, <1>0 DEF SelectCandidate, ItemTypes
  <2>2. SelectionTypes'
    <3>1. ranking' \in [Validation -> 0 .. MaxRuns]
      BY <1>2, <1>0 DEF SelectCandidate, SelectionTypes, ProcTypes
    <3> QED
      BY <3>1, <1>2, <1>0 DEF SelectCandidate, SelectionTypes
  <2>3. ChildTypes'
    BY <1>2, <1>0
    DEF SelectCandidate, childVars, hookVars, countVars, ChildTypes
  <2>4. ProcTypes'
    BY <1>2, <1>0, UnrankedType, PcIn
    DEF SelectCandidate, Goto, childVars, hookVars, countVars, ProcTypes
  <2>5. CountTypes'
    BY <1>2, <1>0
    DEF SelectCandidate, childVars, hookVars, countVars, CountTypes
  <2> QED
    BY <2>1, <2>2, <2>3, <2>4, <2>5, TypeGroupsNext
<1>3. ASSUME RereadItems(p)
      PROVE  TypeOK'
  <2>1. ItemTypes'
    BY <1>3, <1>0
    DEF RereadItems, selectionVars, childVars, hookVars, countVars, rowVars, ItemTypes
  <2>2. SelectionTypes'
    BY <1>3, <1>0
    DEF RereadItems, selectionVars, childVars, hookVars, countVars, rowVars, SelectionTypes
  <2>3. ChildTypes'
    BY <1>3, <1>0
    DEF RereadItems, selectionVars, childVars, hookVars, countVars, rowVars, ChildTypes
  <2>4. ProcTypes'
    BY <1>3, <1>0, StatusType, PcIn
    DEF RereadItems, Goto, selectionVars, childVars, hookVars, countVars, rowVars, ProcTypes
  <2>5. CountTypes'
    BY <1>3, <1>0
    DEF RereadItems, selectionVars, childVars, hookVars, countVars, rowVars, CountTypes
  <2> QED
    BY <2>1, <2>2, <2>3, <2>4, <2>5, TypeGroupsNext
<1>4. ASSUME WriteBatch(p)
      PROVE  TypeOK'
  <2>1. ItemTypes'
    <3>1. calc[p] \in BatchStates
      BY <1>4, <1>0 DEF WriteBatch, ProcOK, ProcTypes
    <3> QED
      BY <3>1, <1>4, <1>0 DEF WriteBatch, ItemTypes
  <2>2. SelectionTypes'
    BY <1>4, <1>0
    DEF WriteBatch, Goto, Refreshed, Return, Finish, childVars, hookVars, countVars, SelectionTypes
  <2>3. ChildTypes'
    BY <1>4, <1>0
    DEF WriteBatch, Refreshed, Return, childVars, hookVars, countVars, ChildTypes
  <2>4. ProcTypes'
    BY <1>4, <1>0, RefreshedTypes, GotoTypes, PcIn DEF WriteBatch
  <2>5. CountTypes'
    BY <1>4, <1>0
    DEF WriteBatch, Goto, Refreshed, Return, Finish, childVars, hookVars, countVars, CountTypes
  <2> QED
    BY <2>1, <2>2, <2>3, <2>4, <2>5, TypeGroupsNext
<1>5. ASSUME issue_walk_forward_certificate(p)
      PROVE  TypeOK'
  <2>1. ItemTypes'
    BY <1>5, <1>0
    DEF issue_walk_forward_certificate, Refreshed, Return, childVars, hookVars, countVars, ItemTypes
  <2>2. SelectionTypes'
    BY <1>5, <1>0
    DEF issue_walk_forward_certificate, Goto, Refreshed, Return, Finish, childVars, hookVars, countVars, SelectionTypes
  <2>3. ChildTypes'
    BY <1>5, <1>0
    DEF issue_walk_forward_certificate, Refreshed, Return, childVars, hookVars, countVars, ChildTypes
  <2>4. ProcTypes'
    BY <1>5, <1>0, RefreshedTypes, FinishTypes DEF issue_walk_forward_certificate
  <2>5. CountTypes'
    BY <1>5, <1>0
    DEF issue_walk_forward_certificate, Goto, Refreshed, Return, Finish, childVars, hookVars, countVars, CountTypes
  <2> QED
    BY <2>1, <2>2, <2>3, <2>4, <2>5, TypeGroupsNext
<1>6. ASSUME dispatch_experiment_batch(p)
      PROVE  TypeOK'
  <2>1. ItemTypes'
    BY <1>6, <1>0
    DEF dispatch_experiment_batch, Begin, selectionVars, childVars, hookVars, countVars, rowVars, ItemTypes
  <2>2. SelectionTypes'
    BY <1>6, <1>0
    DEF dispatch_experiment_batch, Begin, selectionVars, childVars, hookVars, countVars, rowVars, SelectionTypes
  <2>3. ChildTypes'
    BY <1>6, <1>0
    DEF dispatch_experiment_batch, Begin, selectionVars, childVars, hookVars, countVars, rowVars, ChildTypes
  <2>4. ProcTypes'
    BY <1>6, <1>0, PcIn
    DEF dispatch_experiment_batch, Begin, selectionVars, childVars, hookVars, countVars, rowVars, ProcTypes
  <2>5. CountTypes'
    BY <1>6, <1>0
    DEF dispatch_experiment_batch, Begin, selectionVars, childVars, hookVars, countVars, rowVars, CountTypes
  <2> QED
    BY <2>1, <2>2, <2>3, <2>4, <2>5, TypeGroupsNext
<1>7. ASSUME reconcile_experiment_batches(p)
      PROVE  TypeOK'
  <2>1. ItemTypes'
    BY <1>7, <1>0
    DEF reconcile_experiment_batches, Begin, selectionVars, childVars, hookVars, countVars, rowVars, ItemTypes
  <2>2. SelectionTypes'
    BY <1>7, <1>0
    DEF reconcile_experiment_batches, Begin, selectionVars, childVars, hookVars, countVars, rowVars, SelectionTypes
  <2>3. ChildTypes'
    BY <1>7, <1>0
    DEF reconcile_experiment_batches, Begin, selectionVars, childVars, hookVars, countVars, rowVars, ChildTypes
  <2>4. ProcTypes'
    BY <1>7, <1>0, PcIn
    DEF reconcile_experiment_batches, Begin, selectionVars, childVars, hookVars, countVars, rowVars, ProcTypes
  <2>5. CountTypes'
    BY <1>7, <1>0
    DEF reconcile_experiment_batches, Begin, selectionVars, childVars, hookVars, countVars, rowVars, CountTypes
  <2> QED
    BY <2>1, <2>2, <2>3, <2>4, <2>5, TypeGroupsNext
<1>8. ASSUME UserRequest(p)
      PROVE  TypeOK'
  <2>1. ItemTypes'
    BY <1>8, <1>0
    DEF UserRequest, Begin, selectionVars, childVars, hookVars, rowVars, ItemTypes
  <2>2. SelectionTypes'
    BY <1>8, <1>0
    DEF UserRequest, Begin, selectionVars, childVars, hookVars, rowVars, SelectionTypes
  <2>3. ChildTypes'
    BY <1>8, <1>0
    DEF UserRequest, Begin, selectionVars, childVars, hookVars, rowVars, ChildTypes
  <2>4. ProcTypes'
    BY <1>8, <1>0, PcIn, BatchFaultsAssumption
    DEF UserRequest, Begin, selectionVars, childVars, hookVars, rowVars, ProcTypes, Flows
  <2>5. CountTypes'
    BY <1>8, <1>0
    DEF UserRequest, Begin, selectionVars, childVars, hookVars, rowVars, CountTypes
  <2> QED
    BY <2>1, <2>2, <2>3, <2>4, <2>5, TypeGroupsNext
<1>9. ASSUME ProcCrash(p)
      PROVE  TypeOK'
  <2>1. ItemTypes'
    BY <1>9, <1>0
    DEF ProcCrash, Fault, selectionVars, childVars, hookVars, rowVars, ItemTypes
  <2>2. SelectionTypes'
    BY <1>9, <1>0
    DEF ProcCrash, Fault, selectionVars, childVars, hookVars, rowVars, SelectionTypes
  <2>3. ChildTypes'
    BY <1>9, <1>0
    DEF ProcCrash, Fault, selectionVars, childVars, hookVars, rowVars, ChildTypes
  <2>4. ProcTypes'
    BY <1>9, <1>0, UnrankedType, PcIn
    DEF ProcCrash, Fault, Finish, selectionVars, childVars, hookVars, rowVars, ProcTypes
  <2>5. CountTypes'
    BY <1>9, <1>0
    DEF ProcCrash, Fault, Finish, selectionVars, childVars, hookVars, rowVars, CountTypes
  <2> QED
    BY <2>1, <2>2, <2>3, <2>4, <2>5, TypeGroupsNext
<1> QED
  BY <1>1, <1>2, <1>3, <1>4, <1>5, <1>6, <1>7, <1>8, <1>9

\* Dispatch, requeueing and cancellation.
LEMMA DispatchTypes ==
  ASSUME BInv, NEW p \in Procs
  PROVE  /\ LoadRequeue(p) => TypeOK'
         /\ LoadCancel(p) => TypeOK'
         /\ LoadDispatch(p) => TypeOK'
         /\ Requeue(p) => TypeOK'
         /\ TakeItem(p) => TypeOK'
         /\ LastRefresh(p) => TypeOK'
         /\ Link(p) => TypeOK'
         /\ LinkRejected(p) => TypeOK'
         /\ CreateChild(p) => TypeOK'
         /\ PublishChild(p) => TypeOK'
         /\ CancelItems(p) => TypeOK'
         /\ CancelRun(p) => TypeOK'
PROOF
<1> USE BatchBoundsAssumption
<1>0. /\ TypeOK /\ ProcOK(p) /\ BirthOK
      /\ ItemTypes /\ SelectionTypes /\ ChildTypes /\ ProcTypes /\ CountTypes
  BY TypeGroups DEF BInv
<1>1. ASSUME LoadRequeue(p)
      PROVE  TypeOK'
  <2>1. ItemTypes'
    BY <1>1, <1>0
    DEF LoadRequeue, selectionVars, childVars, hookVars, countVars, rowVars, ItemTypes
  <2>2. SelectionTypes'
    BY <1>1, <1>0
    DEF LoadRequeue, selectionVars, childVars, hookVars, countVars, rowVars, SelectionTypes
  <2>3. ChildTypes'
    BY <1>1, <1>0
    DEF LoadRequeue, selectionVars, childVars, hookVars, countVars, rowVars, ChildTypes
  <2>4. ProcTypes'
    BY <1>1, <1>0, FinishTypes, GotoTypes, PcIn DEF LoadRequeue
  <2>5. CountTypes'
    BY <1>1, <1>0
    DEF LoadRequeue, selectionVars, childVars, hookVars, countVars, rowVars, CountTypes
  <2> QED
    BY <2>1, <2>2, <2>3, <2>4, <2>5, TypeGroupsNext
<1>2. ASSUME LoadCancel(p)
      PROVE  TypeOK'
  <2>1. ItemTypes'
    BY <1>2, <1>0
    DEF LoadCancel, selectionVars, childVars, hookVars, countVars, rowVars, ItemTypes
  <2>2. SelectionTypes'
    BY <1>2, <1>0
    DEF LoadCancel, selectionVars, childVars, hookVars, countVars, rowVars, SelectionTypes
  <2>3. ChildTypes'
    BY <1>2, <1>0
    DEF LoadCancel, selectionVars, childVars, hookVars, countVars, rowVars, ChildTypes
  <2>4. ProcTypes'
    <3>1. {<<i, related[i]>> : i \in {j \in Items : item[j] \in ACTIVE /\ related[j] # 0}} \in SUBSET Slots
      BY <1>0 DEF ItemTypes, Slots
    <3>2. todo' \in [Procs -> SUBSET Slots]
      <4> DEFINE e == {<<i, related[i]>> : i \in {j \in Items : item[j] \in ACTIVE /\ related[j] # 0}}
      <4>1. todo' = [todo EXCEPT ![p] = e]
        BY <1>2 DEF LoadCancel
      <4>2. e \in SUBSET Slots
        BY <3>1
      <4> HIDE DEF e
      <4> QED
        BY <4>1, <4>2, <1>0 DEF ProcTypes
    <3> QED
      BY <3>2, <1>2, <1>0, PcIn DEF LoadCancel, Goto, ProcTypes
  <2>5. CountTypes'
    BY <1>2, <1>0
    DEF LoadCancel, selectionVars, childVars, hookVars, countVars, rowVars, CountTypes
  <2> QED
    BY <2>1, <2>2, <2>3, <2>4, <2>5, TypeGroupsNext
<1>3. ASSUME LoadDispatch(p)
      PROVE  TypeOK'
  <2>1. ItemTypes'
    BY <1>3, <1>0
    DEF LoadDispatch, Return, selectionVars, childVars, hookVars, countVars, rowVars, ItemTypes
  <2>2. SelectionTypes'
    BY <1>3, <1>0
    DEF LoadDispatch, Return, selectionVars, childVars, hookVars, countVars, rowVars, SelectionTypes
  <2>3. ChildTypes'
    BY <1>3, <1>0
    DEF LoadDispatch, Return, selectionVars, childVars, hookVars, countVars, rowVars, ChildTypes
  <2>4. ProcTypes'
    <3>1. CASE Return(p)
      BY <3>1, <1>0, FinishTypes DEF Return
    <3>2. CASE ~Return(p)
      <4>1. PICK S \in SUBSET Items : todo' = [todo EXCEPT ![p] = S \X {0}]
        BY <1>3, <3>2 DEF LoadDispatch
      <4>2. S \X {0} \in SUBSET Slots
        BY DEF Slots
      <4>3. todo' \in [Procs -> SUBSET Slots]
        <5> DEFINE e == S \X {0}
        <5>1. e \in SUBSET Slots /\ todo' = [todo EXCEPT ![p] = e]
          BY <4>1, <4>2
        <5> HIDE DEF e
        <5> QED
          BY <5>1, <1>0 DEF ProcTypes
      <4>4. Goto(p, "item") /\ UNCHANGED <<flow, last, calc, rows, cur, got>>
        BY <1>3, <3>2 DEF LoadDispatch
      <4> QED
        BY <4>3, <4>4, <1>0, PcIn DEF Goto, ProcTypes
    <3> QED
      BY <3>1, <3>2
  <2>5. CountTypes'
    BY <1>3, <1>0
    DEF LoadDispatch, Goto, Return, Finish, selectionVars, childVars, hookVars, countVars, rowVars, CountTypes
  <2> QED
    BY <2>1, <2>2, <2>3, <2>4, <2>5, TypeGroupsNext
<1>4. ASSUME Requeue(p)
      PROVE  TypeOK'
  <2>1. ItemTypes'
    <3> DEFINE again == {i \in Items : item[i] \in Requeueable(flow[p])}
    <3>1. /\ item' = [i \in Items |-> IF i \in again THEN "pending" ELSE item[i]]
          /\ related' = [i \in Items |-> IF i \in again THEN 0 ELSE related[i]]
          /\ batch' = "queued" /\ cancelReq' = FALSE /\ UNCHANGED <<result, unscored>>
      BY <1>4 DEF Requeue
    <3> HIDE DEF again
    <3>2. "pending" \in ItemStates /\ "queued" \in BatchStates
      BY DEF ItemStates, BatchStates
    <3>3. item' \in [Items -> ItemStates]
      BY <3>1, <3>2, <1>0 DEF ItemTypes
    <3>4. related' \in [Items -> 0 .. MaxRuns]
      BY <3>1, <1>0 DEF ItemTypes
    <3> QED
      BY <3>1, <3>2, <3>3, <3>4, <1>0 DEF ItemTypes
  <2>2. SelectionTypes'
    BY <1>4, <1>0
    DEF Requeue, selectionVars, childVars, hookVars, countVars, SelectionTypes
  <2>3. ChildTypes'
    BY <1>4, <1>0
    DEF Requeue, selectionVars, childVars, hookVars, countVars, ChildTypes
  <2>4. ProcTypes'
    BY <1>4, <1>0, PcIn
    DEF Requeue, Goto, selectionVars, childVars, hookVars, countVars, ProcTypes
  <2>5. CountTypes'
    BY <1>4, <1>0
    DEF Requeue, selectionVars, childVars, hookVars, countVars, CountTypes
  <2> QED
    BY <2>1, <2>2, <2>3, <2>4, <2>5, TypeGroupsNext
<1>5. ASSUME TakeItem(p)
      PROVE  TypeOK'
  <2>1. ItemTypes'
    <3>1. "dispatching" \in ItemStates
      BY DEF ItemStates, ACTIVE
    <3> QED
      BY <3>1, <1>5, <1>0 DEF TakeItem, ItemTypes
  <2>2. SelectionTypes'
    BY <1>5, <1>0
    DEF TakeItem, selectionVars, childVars, hookVars, countVars, SelectionTypes
  <2>3. ChildTypes'
    BY <1>5, <1>0
    DEF TakeItem, selectionVars, childVars, hookVars, countVars, ChildTypes
  <2>4. ProcTypes'
    <3>1. PICK x \in todo[p] : /\ todo' = [todo EXCEPT ![p] = @ \ {x}]
                               /\ \/ cur' = [cur EXCEPT ![p] = x] /\ Goto(p, "create")
                                  \/ UNCHANGED <<cur, pc>>
      BY <1>5 DEF TakeItem
    <3>2. x \in Slots /\ todo[p] \ {x} \in SUBSET Slots
      BY <1>0 DEF ProcTypes
    <3>3. todo' \in [Procs -> SUBSET Slots]
      BY <3>1, <3>2, <1>0 DEF ProcTypes
    <3>4. cur' \in [Procs -> Slots \cup {NoRun}]
      BY <3>1, <3>2, <1>0 DEF ProcTypes
    <3>5. pc' \in [Procs -> ProcPcs]
      BY <3>1, <1>0, PcIn DEF Goto, ProcTypes
    <3> QED
      BY <3>3, <3>4, <3>5, <1>5, <1>0 DEF TakeItem, ProcTypes
  <2>5. CountTypes'
    BY <1>5, <1>0
    DEF TakeItem, selectionVars, childVars, hookVars, countVars, CountTypes
  <2> QED
    BY <2>1, <2>2, <2>3, <2>4, <2>5, TypeGroupsNext
<1>6. ASSUME LastRefresh(p)
      PROVE  TypeOK'
  <2>1. ItemTypes'
    BY <1>6, <1>0
    DEF LastRefresh, selectionVars, childVars, hookVars, countVars, rowVars, ItemTypes
  <2>2. SelectionTypes'
    BY <1>6, <1>0
    DEF LastRefresh, selectionVars, childVars, hookVars, countVars, rowVars, SelectionTypes
  <2>3. ChildTypes'
    BY <1>6, <1>0
    DEF LastRefresh, selectionVars, childVars, hookVars, countVars, rowVars, ChildTypes
  <2>4. ProcTypes'
    BY <1>6, <1>0, PcIn
    DEF LastRefresh, Goto, selectionVars, childVars, hookVars, countVars, rowVars, ProcTypes
  <2>5. CountTypes'
    BY <1>6, <1>0
    DEF LastRefresh, selectionVars, childVars, hookVars, countVars, rowVars, CountTypes
  <2> QED
    BY <2>1, <2>2, <2>3, <2>4, <2>5, TypeGroupsNext
<1>7. ASSUME Link(p)
      PROVE  TypeOK'
  <2>1. ItemTypes'
    <3>1. cur[p] \in born
      BY <1>7, <1>0 DEF Link, ProcOK, Linking
    <3>2. InHand(p) \in Items /\ cur[p][2] \in 0 .. MaxRuns
      BY <3>1, <1>0, CurType DEF InHand
    <3>3. "queued" \in ItemStates
      BY DEF ItemStates, ACTIVE, TERMINAL
    <3> QED
      BY <3>2, <3>3, <1>7, <1>0 DEF Link, LinkChild, ItemTypes
  <2>2. SelectionTypes'
    BY <1>7, <1>0
    DEF Link, LinkChild, selectionVars, childVars, hookVars, countVars, SelectionTypes
  <2>3. ChildTypes'
    BY <1>7, <1>0
    DEF Link, LinkChild, selectionVars, childVars, hookVars, countVars, ChildTypes
  <2>4. ProcTypes'
    BY <1>7, <1>0, PcIn
    DEF Link, Goto, LinkChild, selectionVars, childVars, hookVars, countVars, ProcTypes
  <2>5. CountTypes'
    BY <1>7, <1>0
    DEF Link, LinkChild, selectionVars, childVars, hookVars, countVars, CountTypes
  <2> QED
    BY <2>1, <2>2, <2>3, <2>4, <2>5, TypeGroupsNext
<1>8. ASSUME LinkRejected(p)
      PROVE  TypeOK'
  <2>1. ItemTypes'
    <3>1. cur[p] \in born
      BY <1>8, <1>0 DEF LinkRejected, ProcOK, Linking
    <3>2. InHand(p) \in Items /\ cur[p][2] \in 0 .. MaxRuns
      BY <3>1, <1>0, CurType DEF InHand
    <3>3. "failed" \in ItemStates
      BY DEF ItemStates, ACTIVE, TERMINAL
    <3> QED
      BY <3>2, <3>3, <1>8, <1>0 DEF LinkRejected, LinkChild, ItemTypes
  <2>2. SelectionTypes'
    BY <1>8, <1>0
    DEF LinkRejected, LinkChild, selectionVars, childVars, hookVars, countVars, SelectionTypes
  <2>3. ChildTypes'
    BY <1>8, <1>0
    DEF LinkRejected, LinkChild, selectionVars, childVars, hookVars, countVars, ChildTypes
  <2>4. ProcTypes'
    BY <1>8, <1>0, PcIn
    DEF LinkRejected, Goto, LinkChild, selectionVars, childVars, hookVars, countVars, ProcTypes
  <2>5. CountTypes'
    BY <1>8, <1>0
    DEF LinkRejected, Goto, LinkChild, selectionVars, childVars, hookVars, countVars, CountTypes
  <2> QED
    BY <2>1, <2>2, <2>3, <2>4, <2>5, TypeGroupsNext
<1>9. ASSUME CreateChild(p)
      PROVE  TypeOK'
  <2>1. ItemTypes'
    BY <1>9, <1>0
    DEF CreateChild, Fault, selectionVars, hookVars, countVars, rowVars, ItemTypes
  <2>2. SelectionTypes'
    BY <1>9, <1>0
    DEF CreateChild, Fault, selectionVars, hookVars, countVars, rowVars, SelectionTypes
  <2>3. ChildTypes'
    BY <1>9, <1>0 DEF CreateChild, Child!Create, ChildTypes, RunStatuses, Child!Active, Child!Terminal, hookVars
  <2>4. ProcTypes'
    <3>1. NextRun(InHand(p)) \in Slots
      BY <1>9, <1>0 DEF CreateChild, Child!Create, ChildRuns, Slots
    <3> DEFINE r == NextRun(InHand(p))
    <3>2. cur' = [cur EXCEPT ![p] = r] /\ (Goto(p, "link") \/ Goto(p, "reject"))
          /\ UNCHANGED <<flow, last, calc, rows, todo, got>>
      BY <1>9 DEF CreateChild
    <3> HIDE DEF r
    <3> QED
      BY <3>1, <3>2, <1>0, PcIn DEF r, Goto, ProcTypes
  <2>5. CountTypes'
    BY <1>9, <1>0
    DEF CreateChild, Goto, Fault, selectionVars, hookVars, countVars, rowVars, CountTypes
  <2> QED
    BY <2>1, <2>2, <2>3, <2>4, <2>5, TypeGroupsNext
<1>10. ASSUME PublishChild(p)
      PROVE  TypeOK'
  <2>1. ItemTypes'
    BY <1>10, <1>0
    DEF PublishChild, Fault, selectionVars, hookVars, countVars, rowVars, ItemTypes
  <2>2. SelectionTypes'
    BY <1>10, <1>0
    DEF PublishChild, Fault, selectionVars, hookVars, countVars, rowVars, SelectionTypes
  <2>3. ChildTypes'
    BY <1>10, <1>0
    DEF PublishChild, Goto, Fault, selectionVars, hookVars, countVars, rowVars, ChildTypes, RunStatuses, Child!Active, Child!Terminal
  <2>4. ProcTypes'
    BY <1>10, <1>0, PcIn
    DEF PublishChild, Goto, Fault, selectionVars, hookVars, countVars, rowVars, ProcTypes
  <2>5. CountTypes'
    BY <1>10, <1>0
    DEF PublishChild, Goto, Fault, selectionVars, hookVars, countVars, rowVars, CountTypes
  <2> QED
    BY <2>1, <2>2, <2>3, <2>4, <2>5, TypeGroupsNext
<1>11. ASSUME CancelItems(p)
      PROVE  TypeOK'
  <2>1. ItemTypes'
    BY <1>11, <1>0
    DEF CancelItems, Goto, selectionVars, childVars, hookVars, countVars, ItemTypes, ItemStates, TERMINAL
  <2>2. SelectionTypes'
    BY <1>11, <1>0
    DEF CancelItems, selectionVars, childVars, hookVars, countVars, SelectionTypes
  <2>3. ChildTypes'
    BY <1>11, <1>0
    DEF CancelItems, selectionVars, childVars, hookVars, countVars, ChildTypes
  <2>4. ProcTypes'
    BY <1>11, <1>0, PcIn
    DEF CancelItems, Goto, selectionVars, childVars, hookVars, countVars, ProcTypes
  <2>5. CountTypes'
    BY <1>11, <1>0
    DEF CancelItems, selectionVars, childVars, hookVars, countVars, CountTypes
  <2> QED
    BY <2>1, <2>2, <2>3, <2>4, <2>5, TypeGroupsNext
<1>12. ASSUME CancelRun(p)
      PROVE  TypeOK'
  <2>1. ItemTypes'
    BY <1>12, <1>0
    DEF CancelRun, selectionVars, childVars, hookVars, countVars, rowVars, ItemTypes
  <2>2. SelectionTypes'
    BY <1>12, <1>0
    DEF CancelRun, selectionVars, childVars, hookVars, countVars, rowVars, SelectionTypes
  <2>3. ChildTypes'
    BY <1>12, <1>0 DEF CancelRun, Child!End, ChildTypes, RunStatuses, Child!Terminal, hookVars, childVars, Child!Active
  <2>4. ProcTypes'
    <3>1. PICK r \in todo[p] : /\ todo' = [todo EXCEPT ![p] = @ \ {r}]
                               /\ \/ cur' = [cur EXCEPT ![p] = r] /\ Goto(p, "hookRead")
                                  \/ UNCHANGED <<cur, pc>>
      BY <1>12 DEF CancelRun
    <3>2. r \in Slots /\ todo[p] \ {r} \in SUBSET Slots
      BY <1>0 DEF ProcTypes
    <3>3. todo' \in [Procs -> SUBSET Slots]
      BY <3>1, <3>2, <1>0 DEF ProcTypes
    <3>4. cur' \in [Procs -> Slots \cup {NoRun}]
      BY <3>1, <3>2, <1>0 DEF ProcTypes
    <3>5. pc' \in [Procs -> ProcPcs]
      BY <3>1, <1>0, PcIn DEF Goto, ProcTypes
    <3> QED
      BY <3>3, <3>4, <3>5, <1>12, <1>0 DEF CancelRun, ProcTypes
  <2>5. CountTypes'
    BY <1>12, <1>0
    DEF CancelRun, selectionVars, childVars, hookVars, countVars, rowVars, CountTypes
  <2> QED
    BY <2>1, <2>2, <2>3, <2>4, <2>5, TypeGroupsNext
<1> QED
  BY <1>1, <1>2, <1>3, <1>4, <1>5, <1>6, <1>7, <1>8, <1>9, <1>10, <1>11, <1>12

\* reconcile_backtest, called inline.
LEMMA HookTypes ==
  ASSUME BInv, NEW p \in Procs
  PROVE  /\ HookRead(p) => TypeOK'
         /\ HookWrite(p) => TypeOK'
         /\ HookOos(p) => TypeOK'
PROOF
<1> USE BatchBoundsAssumption
<1>0. /\ TypeOK /\ ProcOK(p) /\ BirthOK
      /\ ItemTypes /\ SelectionTypes /\ ChildTypes /\ ProcTypes /\ CountTypes
  BY TypeGroups DEF BInv
<1>1. ASSUME HookRead(p)
      PROVE  TypeOK'
  <2>1. ItemTypes'
    BY <1>1, <1>0
    DEF HookRead, selectionVars, childVars, hookVars, countVars, rowVars, ItemTypes
  <2>2. SelectionTypes'
    BY <1>1, <1>0
    DEF HookRead, selectionVars, childVars, hookVars, countVars, rowVars, SelectionTypes
  <2>3. ChildTypes'
    BY <1>1, <1>0
    DEF HookRead, selectionVars, childVars, hookVars, countVars, rowVars, ChildTypes
  <2>4. ProcTypes'
    <3>1. cur[p] \in born /\ born \subseteq ChildRuns /\ status[cur[p]] # "absent"
      BY <1>1, <1>0 DEF HookRead, ProcOK, HookPcs, ChildTypes, BirthOK
    <3>2. status[cur[p]] \in RunStatuses
      BY <3>1, <1>0 DEF ChildTypes
    <3> QED
      BY <3>2, <1>1, <1>0, PcIn DEF HookRead, Goto, ProcTypes
  <2>5. CountTypes'
    BY <1>1, <1>0
    DEF HookRead, selectionVars, childVars, hookVars, countVars, rowVars, CountTypes
  <2> QED
    BY <2>1, <2>2, <2>3, <2>4, <2>5, TypeGroupsNext
<1>2. ASSUME HookWrite(p)
      PROVE  TypeOK'
  <2>1. ItemTypes'
    <3>1. cur[p] \in born
      BY <1>2, <1>0 DEF HookWrite, ProcOK, HookPcs
    <3> QED
      BY <3>1, <1>2, <1>0, WriteItemTypes, CurType DEF HookWrite
  <2>2. SelectionTypes'
    BY <1>2, <1>0
    DEF HookWrite, selectionVars, childVars, hookVars, countVars, SelectionTypes
  <2>3. ChildTypes'
    BY <1>2, <1>0
    DEF HookWrite, selectionVars, childVars, hookVars, countVars, ChildTypes
  <2>4. ProcTypes'
    BY <1>2, <1>0, PcIn
    DEF HookWrite, Goto, WriteItem, selectionVars, childVars, hookVars, countVars, ProcTypes
  <2>5. CountTypes'
    BY <1>2, <1>0
    DEF HookWrite, selectionVars, childVars, hookVars, countVars, CountTypes
  <2> QED
    BY <2>1, <2>2, <2>3, <2>4, <2>5, TypeGroupsNext
<1>3. ASSUME HookOos(p)
      PROVE  TypeOK'
  <2>1. ItemTypes'
    BY <1>3, <1>0
    DEF HookOos, persist_oos_evaluation, childVars, hookVars, countVars, ItemTypes
  <2>2. SelectionTypes'
    <3>1. cur[p] \in born
      BY <1>3, <1>0 DEF HookOos, ProcOK, HookPcs
    <3> QED
      BY <3>1, <1>3, <1>0, PersistTypes, CurType DEF HookOos
  <2>3. ChildTypes'
    BY <1>3, <1>0
    DEF HookOos, persist_oos_evaluation, childVars, hookVars, countVars, ChildTypes
  <2>4. ProcTypes'
    BY <1>3, <1>0, PcIn
    DEF HookOos, Goto, persist_oos_evaluation, childVars, hookVars, countVars, ProcTypes
  <2>5. CountTypes'
    BY <1>3, <1>0
    DEF HookOos, Goto, persist_oos_evaluation, childVars, hookVars, countVars, CountTypes
  <2> QED
    BY <2>1, <2>2, <2>3, <2>4, <2>5, TypeGroupsNext
<1> QED
  BY <1>1, <1>2, <1>3

\* The worker of a child.
LEMMA ChildTypesKept ==
  ASSUME BInv, NEW r \in ChildRuns
  PROVE  /\ ChildStep(r) => TypeOK'
         /\ ChildKilled(r) \/ ChildCrash(r) \/ ChildReconciled(r) => TypeOK'
PROOF
<1> USE BatchBoundsAssumption
<1> DEFINE child == ChildStep(r) \/ ChildKilled(r) \/ ChildCrash(r) \/ ChildReconciled(r)
<1>0. /\ TypeOK /\ BirthOK /\ ItemTypes /\ SelectionTypes /\ ChildTypes /\ ProcTypes /\ CountTypes
  BY TypeGroups DEF BInv
<1> SUFFICES ASSUME child
             PROVE  TypeOK'
  OBVIOUS
<1>1. ProcTypes'
  BY <1>0 DEF ChildStep, ChildStart, ChildRead, ChildWrite, ChildOos, ChildEnd, ChildKilled, ChildCrash,
              ChildReconciled, procVars, ProcTypes
<1>2. SelectionTypes'
  <2>1. CASE ChildOos(r)
    BY <1>0, <2>1, PersistTypes DEF ChildOos
  <2>2. CASE ~ChildOos(r)
    BY <1>0, <2>2 DEF ChildStep, ChildStart, ChildRead, ChildWrite, ChildEnd, ChildKilled, ChildCrash,
                      ChildReconciled, rowVars, selectionVars, SelectionTypes
  <2> QED
    BY <2>1, <2>2
<1>3. ItemTypes'
  <2>1. CASE ChildWrite(r)
    BY <1>0, <2>1, WriteItemTypes DEF ChildWrite
  <2>2. CASE ~ChildWrite(r)
    BY <1>0, <2>2 DEF ChildStep, ChildStart, ChildRead, ChildOos, ChildEnd, ChildKilled, ChildCrash,
                      ChildReconciled, rowVars, ItemTypes
  <2> QED
    BY <2>1, <2>2
<1>4. CountTypes'
  BY <1>0 DEF ChildStep, ChildStart, ChildRead, ChildWrite, ChildOos, ChildEnd, ChildKilled, ChildCrash,
              ChildReconciled, countVars, CountTypes, Fault, persist_oos_evaluation
<1>5. born' \subseteq ChildRuns /\ status' \in [ChildRuns -> RunStatuses \cup {"absent"}]
  BY <1>0 DEF ChildStep, ChildStart, ChildRead, ChildWrite, ChildOos, ChildEnd, ChildKilled, ChildCrash,
              ChildReconciled, childVars, ChildTypes, Child!Progress, Child!End, RunStatuses,
              Child!Active, Child!Terminal
<1>6. hook' \in [ChildRuns -> HookStates]
  BY <1>0 DEF ChildStep, ChildStart, ChildRead, ChildWrite, ChildOos, ChildEnd, ChildKilled, ChildCrash,
              ChildReconciled, ChildTypes, HookStates, At
<1>7. seen' \in [ChildRuns -> RunStatuses \cup {"none"}]
  <2>1. CASE ChildRead(r)
    <3>1. status[r] \in RunStatuses
      BY <1>0, <2>1 DEF ChildRead, BirthOK, ChildTypes
    <3> QED
      BY <1>0, <2>1, <3>1 DEF ChildRead, ChildTypes
  <2>2. CASE ~ChildRead(r)
    BY <1>0, <2>2 DEF ChildStep, ChildStart, ChildWrite, ChildOos, ChildEnd, ChildKilled, ChildCrash,
                      ChildReconciled, ChildTypes, At
  <2> QED
    BY <2>1, <2>2
<1> QED
  BY <1>1, <1>2, <1>3, <1>4, <1>5, <1>6, <1>7, TypeGroupsNext DEF ChildTypes

(***************************************************************************)
(* Who changes what.                                                       *)
(***************************************************************************)
ProcAny(p) ==
  \/ dispatch_experiment_batch(p) \/ reconcile_experiment_batches(p)
  \/ UserRequest(p) \/ ProcStep(p) \/ ProcCrash(p)
ChildAny(r) == ChildStep(r) \/ ChildKilled(r) \/ ChildCrash(r) \/ ChildReconciled(r)

\* A step is one of a process, of a child's worker or of nobody.
LEMMA NextCases ==
  ASSUME [Next]_vars
  PROVE  \/ \E p \in Procs : ProcAny(p)
         \/ \E r \in ChildRuns : ChildAny(r)
         \/ UNCHANGED vars
PROOF
  BY DEF Next, ProcAny, ChildAny

\* A process writes only its own control state, and no worker's.
LEMMA ProcFrame ==
  ASSUME BInv, NEW p \in Procs, ProcAny(p)
  PROVE  /\ UNCHANGED <<hook, seen, unscored>>
         /\ \A q \in Procs \ {p} :
              /\ pc'[q] = pc[q] /\ flow'[q] = flow[q] /\ calc'[q] = calc[q] /\ rows'[q] = rows[q]
              /\ cur'[q] = cur[q] /\ got'[q] = got[q] /\ todo'[q] = todo[q]
PROOF
<1>0. ProcTypes
  BY TypeGroups DEF BInv
<1>1. UNCHANGED <<hook, seen, unscored>>
  BY DEF ProcAny, ProcStep, dispatch_experiment_batch, reconcile_experiment_batches, UserRequest, ProcCrash,
         ReadItems, SelectCandidate, RereadItems, WriteBatch, issue_walk_forward_certificate, LoadRequeue,
         LoadCancel, LoadDispatch, Requeue, TakeItem, LastRefresh, CreateChild, Link, LinkRejected,
         LinkChild, PublishChild, CancelItems, CancelRun, HookRead, HookWrite, HookOos, rowVars, hookVars
<1> SUFFICES ASSUME NEW q \in Procs, q # p
             PROVE  /\ pc'[q] = pc[q] /\ flow'[q] = flow[q] /\ calc'[q] = calc[q] /\ rows'[q] = rows[q]
                    /\ cur'[q] = cur[q] /\ got'[q] = got[q] /\ todo'[q] = todo[q]
  BY <1>1
<1>2. CASE dispatch_experiment_batch(p) \/ reconcile_experiment_batches(p) \/ UserRequest(p) \/ ProcCrash(p)
  BY <1>0, <1>2 DEF dispatch_experiment_batch, reconcile_experiment_batches, UserRequest, ProcCrash, Begin,
                    Finish, ProcTypes
<1>3. CASE ReadItems(p) \/ SelectCandidate(p) \/ RereadItems(p)
  BY <1>0, <1>3 DEF ReadItems, SelectCandidate, RereadItems, Goto, ProcTypes
<1>4. CASE WriteBatch(p) \/ issue_walk_forward_certificate(p)
  BY <1>0, <1>4 DEF WriteBatch, issue_walk_forward_certificate, Refreshed, Return, Finish, Goto, ProcTypes
<1>5. CASE LoadRequeue(p) \/ LoadCancel(p) \/ Requeue(p)
  BY <1>0, <1>5 DEF LoadRequeue, LoadCancel, Requeue, Finish, Goto, ProcTypes
<1>6. CASE LoadDispatch(p)
  <2>1. CASE Return(p)
    BY <1>0, <2>1 DEF Return, Finish, ProcTypes
  <2>2. CASE ~Return(p)
    <3>1. PICK S : todo' = [todo EXCEPT ![p] = S]
      BY <1>6, <2>2 DEF LoadDispatch
    <3>2. Goto(p, "item") /\ UNCHANGED <<flow, last, calc, rows, cur, got>>
      BY <1>6, <2>2 DEF LoadDispatch
    <3> QED
      BY <1>0, <3>1, <3>2 DEF Goto, ProcTypes
  <2> QED
    BY <2>1, <2>2
<1>7. CASE TakeItem(p) \/ LastRefresh(p) \/ CreateChild(p) \/ Link(p) \/ LinkRejected(p) \/ PublishChild(p)
  BY <1>0, <1>7 DEF TakeItem, LastRefresh, CreateChild, Link, LinkRejected, LinkChild, PublishChild, Goto,
                    ProcTypes
<1>8. CASE CancelItems(p) \/ CancelRun(p) \/ HookRead(p) \/ HookWrite(p) \/ HookOos(p)
  BY <1>0, <1>8 DEF CancelItems, CancelRun, HookRead, HookWrite, HookOos, Goto, ProcTypes
<1> QED
  BY <1>2, <1>3, <1>4, <1>5, <1>6, <1>7, <1>8 DEF ProcAny, ProcStep

\* What a process does to the children.
LEMMA ProcRuns ==
  ASSUME BInv, NEW p \in Procs, ProcAny(p)
  PROVE  \/ UNCHANGED childVars
         \/ /\ CreateChild(p)
            /\ \E r \in ChildRuns \ born, s \in {"created", "failed"} :
                 status' = [status EXCEPT ![r] = s] /\ born' = born \cup {r}
         \/ /\ PublishChild(p)
            /\ cur[p] \in born /\ Unpublished(cur[p]) /\ born' = born
            /\ \E s \in {"queued", "failed"} : status' = [status EXCEPT ![cur[p]] = s]
         \/ /\ CancelRun(p)
            /\ \E r \in born : status[r] \in Child!Active /\ status' = [status EXCEPT ![r] = "cancelled"]
            /\ born' = born
PROOF
<1>1. CASE CreateChild(p)
  BY <1>1 DEF CreateChild, Child!Create
<1>2. CASE PublishChild(p)
  BY <1>2 DEF PublishChild, BInv, ProcOK, Linking
<1>3. CASE CancelRun(p)
  BY <1>3 DEF CancelRun, Child!End, BInv, BirthOK, childVars, Child!Active
<1>4. CASE ~CreateChild(p) /\ ~PublishChild(p) /\ ~CancelRun(p)
  BY <1>4 DEF ProcAny, ProcStep, dispatch_experiment_batch, reconcile_experiment_batches, UserRequest,
         ProcCrash, ReadItems, SelectCandidate, RereadItems, WriteBatch, issue_walk_forward_certificate,
         LoadRequeue, LoadCancel, LoadDispatch, Requeue, TakeItem, LastRefresh, Link, LinkRejected,
         LinkChild, CancelItems, HookRead, HookWrite, HookOos
<1> QED
  BY <1>1, <1>2, <1>3, <1>4

\* What a child's worker does to the children: it starts a published run and
\* ends an active one.
LEMMA ChildFrame ==
  ASSUME BInv, NEW r \in ChildRuns, ChildAny(r)
  PROVE  /\ UNCHANGED <<procVars, born, selected, ranking, cert, related>>
         /\ \A x \in ChildRuns \ {r} : status'[x] = status[x] /\ hook'[x] = hook[x] /\ seen'[x] = seen[x]
         /\ \/ status' = status /\ unscored' = unscored
            \/ /\ r \in born /\ status[r] \in Child!Active /\ status'[r] \in RunStatuses
               /\ unscored' \subseteq unscored \cup {r}
         /\ r \in born
         /\ ~Unpublished(r)
PROOF
<1>0. ChildTypes
  BY TypeGroups DEF BInv
<1>1. UNCHANGED <<procVars, born, selected, ranking, cert, related>>
  BY DEF ChildAny, ChildStep, ChildStart, ChildRead, ChildWrite, ChildOos, ChildEnd, ChildKilled, ChildCrash,
         ChildReconciled, rowVars, selectionVars, childVars, Child!Progress, Child!End
<1>2. \A x \in ChildRuns \ {r} : status'[x] = status[x] /\ hook'[x] = hook[x] /\ seen'[x] = seen[x]
  BY <1>0 DEF ChildAny, ChildStep, ChildStart, ChildRead, ChildWrite, ChildOos, ChildEnd, ChildKilled,
         ChildCrash, ChildReconciled, childVars, Child!Progress, Child!End, At, ChildTypes
<1>3. r \in born /\ ~Unpublished(r)
  BY DEF ChildAny, ChildStep, ChildStart, ChildRead, ChildWrite, ChildOos, ChildEnd, ChildKilled,
         ChildCrash, ChildReconciled, BInv, BirthOK, Unpublished
<1>4. \/ status' = status /\ unscored' = unscored
      \/ /\ status[r] \in Child!Active /\ status'[r] \in RunStatuses
         /\ unscored' \subseteq unscored \cup {r}
  BY <1>0 DEF ChildAny, ChildStep, ChildStart, ChildRead, ChildWrite, ChildOos, ChildEnd, ChildKilled,
         ChildCrash, ChildReconciled, childVars, rowVars, Child!Progress, Child!End, ChildTypes, RunStatuses,
         Child!Active, Child!Terminal
<1> QED
  BY <1>1, <1>2, <1>3, <1>4

\* A child that exists goes on to exist, and one that has succeeded stays so and
\* keeps its metric: nothing publishes it again.
LEMMA RunsKept ==
  ASSUME BInv, [Next]_vars
  PROVE  /\ born \subseteq born'
         /\ \A x : Succeeded(x) => Succeeded(x)'
         /\ \A x : Scored(x) => Scored(x)'
PROOF
<1>0. ChildTypes
  BY TypeGroups DEF BInv
<1>1. ASSUME NEW p \in Procs, ProcAny(p)
      PROVE  /\ born \subseteq born' /\ unscored' = unscored
             /\ \A x \in born : status[x] = "success" => status'[x] = "success"
  BY <1>0, <1>1, ProcRuns, ProcFrame DEF ChildTypes, childVars, Unpublished, Child!Active
<1>2. ASSUME NEW r \in ChildRuns, ChildAny(r)
      PROVE  /\ born = born'
             /\ \A x \in born : status[x] = "success" => status'[x] = "success" /\ (x \in unscored' => x \in unscored)
  BY <1>0, <1>2, ChildFrame DEF ChildTypes, Child!Active
<1> QED
  BY <1>1, <1>2, NextCases DEF Succeeded, Scored, vars, childVars, rowVars

(***************************************************************************)
(* The parts of the invariant.                                             *)
(***************************************************************************)
\* Rows and workers exist together.
LEMMA NextBirth ==
  ASSUME BInv, [Next]_vars
  PROVE  BirthOK'
PROOF
<1>0. ChildTypes /\ BirthOK
  BY TypeGroups DEF BInv
<1>1. ASSUME NEW p \in Procs, ProcAny(p)
      PROVE  BirthOK'
  <2>1. hook' = hook
    BY <1>1, ProcFrame
  <2> QED
    BY <1>0, <1>1, <2>1, ProcRuns DEF ChildTypes, BirthOK, childVars
<1>2. ASSUME NEW r \in ChildRuns, ChildAny(r)
      PROVE  BirthOK'
  <2>1. status'[r] # "absent"
    BY <1>0, <1>2, ChildFrame DEF BirthOK, RunStatuses, Child!Active, Child!Terminal
  <2> QED
    BY <1>0, <1>2, <2>1, ChildFrame DEF ChildTypes, BirthOK
<1> QED
  BY <1>0, <1>1, <1>2, NextCases DEF BirthOK, vars, childVars, hookVars

\* A child in a process's hands before its publication is not touched by others.
LEMMA StillUnpublished ==
  ASSUME BInv, NEW p \in Procs, NEW q \in Procs, p # q, ProcAny(p), pc[q] \in Linking
  PROVE  Unpublished(cur[q])'
PROOF
<1>0. ChildTypes /\ cur[q] \in born /\ Unpublished(cur[q]) /\ Separate /\ ProcOK(p)
  BY TypeGroups DEF BInv, ProcOK, Linking
<1>1. cur'[q] = cur[q] /\ hook' = hook
  BY ProcFrame
<1>2. PublishChild(p) => cur[p] # cur[q]
  BY <1>0 DEF PublishChild, Separate, Linking
<1>3. status'[cur[q]] \in {"created", "cancelled"}
  BY <1>0, <1>2, ProcRuns DEF ChildTypes, childVars, Unpublished
<1> QED
  BY <1>0, <1>1, <1>3 DEF Unpublished

\* A process keeps what it knows while another one moves.
LEMMA OtherProc ==
  ASSUME BInv, [Next]_vars, NEW p \in Procs, NEW q \in Procs, p # q, ProcAny(p)
  PROVE  ProcOK(q)'
PROOF
<1>0. ProcOK(q)
  BY DEF BInv
<1>1. /\ pc'[q] = pc[q] /\ calc'[q] = calc[q] /\ rows'[q] = rows[q]
      /\ cur'[q] = cur[q] /\ got'[q] = got[q]
  BY ProcFrame
<1>2. pc[q] \in Linking => Unpublished(cur[q])'
  BY StillUnpublished
<1> QED
  BY <1>0, <1>1, <1>2, RunsKept DEF ProcOK

\* A process keeps what it knows while a child moves.
LEMMA ProcBesideChild ==
  ASSUME BInv, [Next]_vars, NEW r \in ChildRuns, NEW q \in Procs, ChildAny(r)
  PROVE  ProcOK(q)'
PROOF
<1>0. ProcOK(q) /\ ChildTypes
  BY TypeGroups DEF BInv
<1>1. UNCHANGED procVars
  BY ChildFrame
<1>2. pc[q] \in Linking => Unpublished(cur[q])'
  BY <1>0, <1>1, ChildFrame DEF ProcOK, Unpublished, procVars, ChildTypes
<1> QED
  BY <1>0, <1>1, <1>2, RunsKept DEF ProcOK, procVars

\* A process that is not dispatching, reconciling or ranking knows nothing.
Knowing == {"create", "link", "reject", "publish", "select", "write"} \cup HookPcs
\* So nothing is demanded of it.
LEMMA PlainProc ==
  ASSUME NEW p \in Procs, pc'[p] \notin Knowing
  PROVE  ProcOK(p)'
PROOF
  BY DEF ProcOK, Knowing, Linking, HookPcs

\* A process that moves knows what its next place demands.
LEMMA OwnProc ==
  ASSUME BInv, [Next]_vars, NEW p \in Procs, ProcAny(p)
  PROVE  ProcOK(p)'
PROOF
<1>0. /\ ProcOK(p) /\ BirthOK /\ RowsOK
      /\ ItemTypes /\ SelectionTypes /\ ChildTypes /\ ProcTypes
  BY TypeGroups DEF BInv
<1>1. CASE dispatch_experiment_batch(p) \/ reconcile_experiment_batches(p) \/ UserRequest(p) \/ ProcCrash(p)
  <2>1. pc'[p] \in {"read", "idle"}
    BY <1>0, <1>1 DEF dispatch_experiment_batch, reconcile_experiment_batches, UserRequest, ProcCrash, Begin,
                      Finish, ProcTypes
  <2> QED
    BY <2>1, PlainProc DEF Knowing, HookPcs
<1>2. CASE ReadItems(p)
  <2>1. calc'[p] # "none"
    <3>1. StatusOf(item, cancelReq) # "none"
      BY StatusType DEF BatchStates
    <3> QED
      BY <1>0, <1>2, <3>1 DEF ReadItems, ProcTypes
  <2>2. pc'[p] \in {"select", "write"}
    BY <1>0, <1>2 DEF ReadItems, Goto, ProcTypes
  <2>3. ASSUME pc'[p] = "select", NEW i \in Validation
        PROVE  Scored(<<i, rows[p][i]>>)'
    <3>1. Rankable
      BY <1>0, <1>2, <2>3 DEF ReadItems, Goto, ProcTypes
    <3>2. Scored(<<i, result[i]>>)
      BY <1>0, <3>1 DEF Rankable, RowsOK, Scored, Validation
    <3>3. rows'[p] = [j \in Validation |-> result[j]]
      BY <1>0, <1>2, <3>1 DEF ReadItems, ProcTypes
    <3>4. rows'[p][i] = result[i]
      BY <3>3
    <3> QED
      BY <3>2, <3>4, RunsKept
  <2> QED
    BY <2>1, <2>2, <2>3 DEF ProcOK, Linking, HookPcs
<1>3. CASE SelectCandidate(p)
  <2>1. pc'[p] \in {"reread", "write"} /\ calc'[p] = calc[p] /\ pc[p] = "select"
    BY <1>0, <1>3 DEF SelectCandidate, Goto, ProcTypes
  <2> QED
    BY <1>0, <2>1 DEF ProcOK, Linking, HookPcs
<1>4. CASE RereadItems(p)
  <2>1. pc'[p] = "write" /\ calc'[p] = StatusOf(item, FALSE)
    BY <1>0, <1>4 DEF RereadItems, Goto, ProcTypes
  <2>2. StatusOf(item, FALSE) # "none"
    BY StatusType DEF BatchStates
  <2> QED
    BY <2>1, <2>2 DEF ProcOK, Linking, HookPcs
<1>5. CASE WriteBatch(p) \/ issue_walk_forward_certificate(p)
  <2>1. pc'[p] \in {"certify", "load", "idle"}
    BY <1>0, <1>5 DEF WriteBatch, issue_walk_forward_certificate, Refreshed, Return, Finish, Goto, ProcTypes
  <2> QED
    BY <2>1, PlainProc DEF Knowing, HookPcs
<1>6. CASE LoadRequeue(p) \/ LoadCancel(p) \/ Requeue(p) \/ LastRefresh(p) \/ LinkRejected(p)
             \/ CancelItems(p) \/ HookOos(p)
  <2>1. pc'[p] \in {"requeue", "idle", "cancelItems", "read", "item", "cancelRuns"}
    BY <1>0, <1>6 DEF LoadRequeue, LoadCancel, Requeue, LastRefresh, LinkRejected, CancelItems, HookOos,
                      Finish, Goto, ProcTypes
  <2> QED
    BY <2>1, PlainProc DEF Knowing, HookPcs
<1>7. CASE LoadDispatch(p)
  <2>1. Return(p) \/ Goto(p, "item")
    BY <1>7 DEF LoadDispatch
  <2>2. pc'[p] \in {"item", "idle"}
    BY <1>0, <2>1 DEF Return, Finish, Goto, ProcTypes
  <2> QED
    BY <2>2, PlainProc DEF Knowing, HookPcs
<1>8. CASE TakeItem(p)
  <2>1. \/ pc'[p] = "create" /\ cur'[p] \in Slots
        \/ pc'[p] = "item"
    BY <1>0, <1>8 DEF TakeItem, Goto, ProcTypes
  <2> QED
    BY <2>1 DEF ProcOK, Linking, HookPcs
<1>9. CASE CreateChild(p)
  <2> DEFINE r == NextRun(InHand(p))
  <2>1. /\ r \in ChildRuns \ born /\ cur' = [cur EXCEPT ![p] = r] /\ born' = born \cup {r}
        /\ \/ status' = [status EXCEPT ![r] = "created"] /\ Goto(p, "link")
           \/ Goto(p, "reject")
    BY <1>9 DEF CreateChild, Child!Create
  <2> HIDE DEF r
  <2>2. hook'[r] = "none"
    BY <1>0, <2>1, ProcFrame DEF BirthOK
  <2>3. /\ cur'[p] = r /\ cur'[p] \in born' /\ pc'[p] \in {"link", "reject"}
        /\ pc'[p] = "link" => status'[r] = "created"
    BY <1>0, <2>1 DEF Goto, ProcTypes, ChildTypes
  <2> QED
    BY <2>2, <2>3 DEF ProcOK, Linking, HookPcs, Unpublished
<1>10. CASE Link(p)
  <2>1. pc'[p] = "publish" /\ cur'[p] = cur[p] /\ UNCHANGED <<born, status, hook>> /\ pc[p] = "link"
    BY <1>0, <1>10 DEF Link, LinkChild, Goto, ProcTypes, childVars, hookVars
  <2> QED
    BY <1>0, <2>1 DEF ProcOK, Linking, HookPcs, Unpublished
<1>11. CASE PublishChild(p)
  <2>1. pc'[p] \in {"item", "hookRead"} /\ cur'[p] = cur[p] /\ born' = born /\ pc[p] = "publish"
    BY <1>0, <1>11 DEF PublishChild, Goto, ProcTypes
  <2> QED
    BY <1>0, <2>1 DEF ProcOK, Linking, HookPcs
<1>12. CASE CancelRun(p)
  <2>1. \/ pc'[p] = "hookRead" /\ cur'[p] \in born'
        \/ pc'[p] = "cancelRuns"
    BY <1>0, <1>12 DEF CancelRun, Goto, ProcTypes, Child!End, BirthOK, Child!Active
  <2> QED
    BY <2>1 DEF ProcOK, Linking, HookPcs
<1>13. CASE HookRead(p)
  <2>1. /\ pc'[p] = "hookWrite" /\ cur'[p] = cur[p] /\ got'[p] = status[cur[p]] /\ pc[p] = "hookRead"
        /\ UNCHANGED <<born, status>>
    BY <1>0, <1>13 DEF HookRead, Goto, ProcTypes, childVars
  <2> QED
    BY <1>0, <2>1 DEF ProcOK, Linking, HookPcs, Succeeded
<1>14. CASE HookWrite(p)
  <2>1. /\ pc'[p] = "hookOos" /\ cur'[p] = cur[p] /\ got'[p] = got[p] /\ pc[p] = "hookWrite"
        /\ UNCHANGED <<born, status>>
    BY <1>0, <1>14 DEF HookWrite, Goto, ProcTypes, childVars
  <2> QED
    BY <1>0, <2>1 DEF ProcOK, Linking, HookPcs, Succeeded
<1> QED
  BY <1>1, <1>2, <1>3, <1>4, <1>5, <1>6, <1>7, <1>8, <1>9, <1>10, <1>11, <1>12, <1>13, <1>14
  DEF ProcAny, ProcStep

\* Two processes never have the same child between creation and publication.
LEMMA NextSeparate ==
  ASSUME BInv, [Next]_vars
  PROVE  Separate'
PROOF
<1>0. Separate /\ ProcTypes /\ \A q \in Procs : ProcOK(q)
  BY TypeGroups DEF BInv
<1>1. ASSUME NEW p \in Procs, ProcAny(p)
      PROVE  Separate'
  <2> SUFFICES ASSUME NEW q \in Procs, q # p, pc'[p] \in Linking, pc'[q] \in Linking
               PROVE  cur'[p] # cur'[q]
    BY <1>0, <1>1, ProcFrame DEF Separate
  <2>1. pc[q] \in Linking /\ cur'[q] = cur[q] /\ cur[q] \in born
    BY <1>0, <1>1, ProcFrame DEF ProcOK
  <2>2. CASE CreateChild(p)
    <3>1. cur'[p] \notin born
      BY <1>0, <2>2 DEF CreateChild, Child!Create, ProcTypes
    <3> QED
      BY <2>1, <3>1
  <2>3. CASE Link(p)
    <3>1. cur'[p] = cur[p] /\ pc[p] \in Linking
      BY <2>3 DEF Link, LinkChild, Linking
    <3> QED
      BY <1>0, <2>1, <3>1 DEF Separate
  <2>4. CASE ~CreateChild(p) /\ ~Link(p)
    <3>1. CASE LoadDispatch(p)
      <4>1. Return(p) \/ Goto(p, "item")
        BY <3>1 DEF LoadDispatch
      <4> QED
        BY <1>0, <4>1 DEF Return, Finish, Goto, ProcTypes, Linking
    <3>2. CASE ~LoadDispatch(p)
      BY <1>0, <1>1, <2>4, <3>2
      DEF ProcAny, ProcStep, dispatch_experiment_batch, reconcile_experiment_batches, UserRequest, ProcCrash,
         ReadItems, SelectCandidate, RereadItems, WriteBatch, issue_walk_forward_certificate, LoadRequeue,
         LoadCancel, Requeue, TakeItem, LastRefresh, LinkRejected,
         PublishChild, CancelItems, CancelRun, HookRead, HookWrite, HookOos, Begin, Goto, Finish, Return,
         Refreshed, ProcTypes, Linking
    <3> QED
      BY <3>1, <3>2
  <2> QED
    BY <2>2, <2>3, <2>4
<1>2. ASSUME NEW r \in ChildRuns, ChildAny(r)
      PROVE  Separate'
  BY <1>0, <1>2, ChildFrame DEF Separate, procVars
<1> QED
  BY <1>0, <1>1, <1>2, NextCases DEF Separate, vars, procVars

\* What a worker's hook has read of a success is still true.
LEMMA NextChildOK ==
  ASSUME BInv, [Next]_vars, NEW x \in ChildRuns
  PROVE  ChildOK(x)'
PROOF
<1>0. ChildOK(x) /\ ChildTypes
  BY TypeGroups DEF BInv
<1>1. CASE hook'[x] = hook[x] /\ seen'[x] = seen[x]
  BY <1>0, <1>1, RunsKept DEF ChildOK
<1>2. ASSUME NEW r \in ChildRuns, ChildAny(r)
      PROVE  ChildOK(x)'
  <2>1. CASE x # r
    BY <1>1, <1>2, <2>1, ChildFrame
  <2>2. CASE x = r /\ ChildRead(r)
    <3>1. seen'[r] = status[r] /\ UNCHANGED <<status, born>> /\ r \in born
      BY <1>0, <1>2, <2>2, ChildFrame DEF ChildRead, childVars, ChildTypes
    <3> QED
      BY <2>2, <3>1 DEF ChildOK, Succeeded
  <2>3. CASE x = r /\ ChildWrite(r)
    <3>1. seen' = seen /\ UNCHANGED <<status, born>> /\ hook[r] \in {"startWrite", "endWrite"}
      BY <2>3 DEF ChildWrite, childVars, At
    <3> QED
      BY <1>0, <2>3, <3>1 DEF ChildOK, Succeeded
  <2>4. CASE x = r /\ ~ChildRead(r) /\ ~ChildWrite(r)
    <3>1. hook'[r] \in {"startRead", "execute", "none", "endRead"}
      BY <1>0, <1>2, <2>4 DEF ChildAny, ChildStep, ChildStart, ChildOos, ChildEnd, ChildKilled,
             ChildCrash, ChildReconciled, At, ChildTypes
    <3> QED
      BY <2>4, <3>1 DEF ChildOK
  <2> QED
    BY <2>1, <2>2, <2>3, <2>4
<1>3. ASSUME NEW p \in Procs, ProcAny(p)
      PROVE  ChildOK(x)'
  BY <1>1, <1>3, ProcFrame
<1> QED
  BY <1>1, <1>2, <1>3, NextCases DEF vars, hookVars

(***************************************************************************)
(* The rows.                                                               *)
(***************************************************************************)
\* An item that leaves success, or stays in it with its result, disturbs nothing.
LEMMA RowsSuffices ==
  ASSUME BInv, [Next]_vars,
         \A i \in Items : item'[i] = "success" => item[i] = "success" /\ result'[i] = result[i],
         UNCHANGED <<selected, ranking, oosEval, oosRun, cert>>
  PROVE  RowsOK'
PROOF
  BY RunsKept DEF BInv, RowsOK

\* reconcile_backtest writes a success only of a run that has succeeded.
LEMMA WriteItemRows ==
  ASSUME BInv, [Next]_vars, NEW r \in ChildRuns, NEW s, WriteItem(r, s), s = "success" => Succeeded(r),
         UNCHANGED <<selected, ranking, oosEval, oosRun, cert>>
  PROVE  RowsOK'
PROOF
<1>0. ItemTypes /\ RowsOK
  BY TypeGroups DEF BInv
<1>1. ItemOf(r) \in Items /\ r = <<ItemOf(r), r[2]>>
  BY DEF ChildRuns, ItemOf
<1>2. ItemStatus(s) = "success" => s = "success"
  BY DEF ItemStatus
<1>3. ASSUME NEW i \in Items, item'[i] = "success"
      PROVE  Succeeded(<<i, result[i]>>)'
  <2>1. CASE i = ItemOf(r)
    <3>1. item'[i] = ItemStatus(s) /\ result'[i] = r[2]
      BY <1>0, <1>1, <2>1 DEF WriteItem, ItemTypes
    <3>2. Succeeded(r)'
      BY <1>2, <1>3, <3>1, RunsKept
    <3> QED
      BY <1>1, <2>1, <3>1, <3>2
  <2>2. CASE i # ItemOf(r)
    <3>1. item'[i] = item[i] /\ result'[i] = result[i]
      BY <1>0, <1>1, <2>2 DEF WriteItem, ItemTypes
    <3> QED
      BY <1>0, <1>3, <3>1, RunsKept DEF RowsOK
  <2> QED
    BY <2>1, <2>2
<1> QED
  BY <1>0, <1>3, RunsKept DEF RowsOK

\* And an evaluation is completed only by a run of the selected candidate that
\* has succeeded.
LEMMA PersistRows ==
  ASSUME BInv, [Next]_vars, NEW r \in ChildRuns, NEW s, persist_oos_evaluation(r, s),
         s = "success" => Succeeded(r), UNCHANGED <<item, result, selected, ranking, cert>>
  PROVE  RowsOK'
PROOF
<1>0. SelectionTypes /\ RowsOK
  BY TypeGroups DEF BInv
<1>1. ItemOf(r) \in Items /\ r = <<ItemOf(r), r[2]>>
  BY DEF ChildRuns, ItemOf
<1>2. ItemStatus(s) = "success" => s = "success"
  BY DEF ItemStatus
<1>3. ASSUME oosEval' = "completed"
      PROVE  selected # NoCandidate /\ Succeeded(<<<<"oos", selected>>, oosRun>>)'
  <2>1. CASE ItemOf(r) = <<"oos", selected>>
    <3>1. ItemStatus(s) = "success" /\ oosRun' = r[2]
      BY <1>3, <2>1 DEF persist_oos_evaluation
    <3>2. Succeeded(r)'
      BY <1>2, <3>1, RunsKept
    <3>3. selected # NoCandidate
      BY <1>1, <2>1, NoItemAssumption DEF Items
    <3> QED
      BY <1>1, <2>1, <3>1, <3>2, <3>3
  <2>2. CASE ItemOf(r) # <<"oos", selected>>
    BY <1>0, <1>3, <2>2, RunsKept DEF persist_oos_evaluation, RowsOK
  <2> QED
    BY <2>1, <2>2
<1> QED
  BY <1>0, <1>3, RunsKept DEF RowsOK

\* The rows name runs that succeeded after every step.
LEMMA NextRows ==
  ASSUME BInv, [Next]_vars
  PROVE  RowsOK'
PROOF
<1>0. RowsOK /\ ItemTypes /\ SelectionTypes /\ ChildTypes /\ ProcTypes /\ \A q \in Procs : ProcOK(q)
  BY TypeGroups DEF BInv
<1>1. CASE UNCHANGED <<item, result, selected, ranking, oosEval, oosRun, cert>>
  BY <1>1, RowsSuffices
<1>2. ASSUME NEW p \in Procs, ProcAny(p)
      PROVE  RowsOK'
  <2>1. CASE SelectCandidate(p)
    <3>1. CASE selected # NoCandidate
      BY <2>1, <3>1, <1>1 DEF SelectCandidate
    <3>2. CASE selected = NoCandidate
      <4>1. \A i \in Validation : Scored(<<i, rows[p][i]>>)
        BY <1>0, <2>1 DEF SelectCandidate, ProcOK
      <4>2. ranking' = rows[p] /\ oosEval' = "pending" /\ cert' = cert /\ result' = result
        BY <2>1, <3>2 DEF SelectCandidate
      <4>3. \A i \in Items : item'[i] = "success" => item[i] = "success"
        BY <2>1, <3>2 DEF SelectCandidate
      <4>4. cert = 0
        BY <1>0, <3>2 DEF RowsOK
      <4> QED
        BY <1>0, <4>1, <4>2, <4>3, <4>4, RunsKept DEF RowsOK
    <3> QED
      BY <3>1, <3>2
  <2>2. CASE issue_walk_forward_certificate(p)
    <3>1. UNCHANGED <<item, result, selected, ranking, oosEval, oosRun>>
      BY <2>2 DEF issue_walk_forward_certificate
    <3>2. cert' = cert \/ (cert' = oosRun /\ selected # NoCandidate /\ oosEval = "completed")
      BY <2>2 DEF issue_walk_forward_certificate
    <3> QED
      BY <1>0, <3>1, <3>2, RunsKept DEF RowsOK
  <2>3. CASE Requeue(p) \/ CancelItems(p)
    <3>1. /\ UNCHANGED <<selected, ranking, oosEval, oosRun, cert, result>>
          /\ \A i \in Items : item'[i] = "success" => item[i] = "success"
      BY <2>3 DEF Requeue, CancelItems, selectionVars
    <3> QED
      BY <3>1, RowsSuffices
  <2>4. CASE TakeItem(p) \/ Link(p) \/ LinkRejected(p)
    <3>1. UNCHANGED <<selected, ranking, oosEval, oosRun, cert, result>>
      BY <2>4 DEF TakeItem, Link, LinkRejected, LinkChild, selectionVars
    <3>2. \A i \in Items : item'[i] = "success" => item[i] = "success"
      BY <1>0, <2>4 DEF TakeItem, Link, LinkRejected, LinkChild, ItemTypes
    <3> QED
      BY <3>1, <3>2, RowsSuffices
  <2>5. CASE HookWrite(p)
    <3>1. cur[p] \in ChildRuns /\ (got[p] = "success" => Succeeded(cur[p]))
      BY <1>0, <2>5 DEF HookWrite, ProcOK, HookPcs, ChildTypes
    <3> QED
      BY <2>5, <3>1, WriteItemRows DEF HookWrite, selectionVars
  <2>6. CASE HookOos(p)
    <3>1. cur[p] \in ChildRuns /\ (got[p] = "success" => Succeeded(cur[p]))
      BY <1>0, <2>6 DEF HookOos, ProcOK, HookPcs, ChildTypes
    <3> QED
      BY <2>6, <3>1, PersistRows DEF HookOos
  <2>7. CASE /\ ~SelectCandidate(p) /\ ~issue_walk_forward_certificate(p) /\ ~Requeue(p) /\ ~CancelItems(p)
             /\ ~TakeItem(p) /\ ~Link(p) /\ ~LinkRejected(p) /\ ~HookWrite(p) /\ ~HookOos(p)
    <3>1. UNCHANGED <<item, result, selected, ranking, oosEval, oosRun, cert>>
      BY <1>2, <2>7
      DEF ProcAny, ProcStep, dispatch_experiment_batch, reconcile_experiment_batches, UserRequest,
         ProcCrash, ReadItems, RereadItems, WriteBatch, LoadRequeue, LoadCancel, LoadDispatch,
         LastRefresh, CreateChild, PublishChild, CancelRun, HookRead, rowVars, selectionVars
    <3> QED
      BY <3>1, <1>1
  <2> QED
    BY <2>1, <2>2, <2>3, <2>4, <2>5, <2>6, <2>7
<1>3. ASSUME NEW r \in ChildRuns, ChildAny(r)
      PROVE  RowsOK'
  <2>1. CASE ChildWrite(r)
    <3>1. seen[r] = "success" => Succeeded(r)
      BY <2>1 DEF ChildWrite, BInv, ChildOK
    <3> QED
      BY <2>1, <3>1, WriteItemRows DEF ChildWrite, selectionVars
  <2>2. CASE ChildOos(r)
    <3>1. seen[r] = "success" => Succeeded(r)
      BY <2>2 DEF ChildOos, BInv, ChildOK
    <3> QED
      BY <2>2, <3>1, PersistRows DEF ChildOos
  <2>3. CASE ~ChildWrite(r) /\ ~ChildOos(r)
    <3>1. UNCHANGED <<item, result, selected, ranking, oosEval, oosRun, cert>>
      BY <1>3, <2>3 DEF ChildAny, ChildStep, ChildStart, ChildRead, ChildEnd, ChildKilled, ChildCrash,
         ChildReconciled, rowVars, selectionVars
    <3> QED
      BY <3>1, <1>1
  <2> QED
    BY <2>1, <2>2, <2>3
<1>4. ASSUME UNCHANGED vars
      PROVE  RowsOK'
  BY <1>1, <1>4 DEF vars, rowVars, selectionVars
<1> QED
  BY <1>2, <1>3, <1>4, NextCases

(***************************************************************************)
(* The theorems.                                                           *)
(***************************************************************************)
LEMMA InitBInv == Init => BInv
PROOF
<1> SUFFICES ASSUME Init
             PROVE  BInv
  OBVIOUS
<1> USE BatchBoundsAssumption
<1>1. ItemTypes
  <2>1. "pending" \in ItemStates /\ SELECTION_BLOCKED \in ItemStates /\ "queued" \in BatchStates
    BY DEF ItemStates, BatchStates
  <2>2. item \in [Items -> ItemStates]
    BY <2>1 DEF Init
  <2>3. related \in [Items -> 0 .. MaxRuns] /\ result \in [Items -> 0 .. MaxRuns]
    BY DEF Init
  <2> QED
    BY <2>1, <2>2, <2>3 DEF Init, ItemTypes
<1>2. SelectionTypes
  BY UnrankedType DEF Init, SelectionTypes
<1>3. ChildTypes
  BY DEF Init, ChildTypes, HookStates, Child!Init
<1>4. ProcTypes
  <2>1. rows \in [Procs -> [Validation -> 0 .. MaxRuns]] /\ todo \in [Procs -> SUBSET Slots]
    BY UnrankedType DEF Init
  <2> QED
    BY <2>1, PcIn DEF Init, ProcTypes
<1>5. CountTypes
  BY DEF Init, CountTypes
<1>6. BirthOK /\ Separate /\ (\A p \in Procs : ProcOK(p)) /\ \A r \in ChildRuns : ChildOK(r)
  BY DEF Init, BirthOK, Separate, ProcOK, ChildOK, Child!Init, Linking, HookPcs
<1>7. RowsOK
  BY DEF Init, RowsOK, SELECTION_BLOCKED
<1> QED
  BY <1>1, <1>2, <1>3, <1>4, <1>5, <1>6, <1>7, TypeGroups DEF BInv

\* BInv is inductive.
LEMMA NextBInv == BInv /\ [Next]_vars => BInv'
PROOF
<1> SUFFICES ASSUME BInv, [Next]_vars
             PROVE  BInv'
  OBVIOUS
<1>1. TypeOK'
  <2>1. ASSUME NEW p \in Procs, ProcAny(p)
        PROVE  TypeOK'
    BY <2>1, RefreshTypes, DispatchTypes, HookTypes DEF ProcAny, ProcStep
  <2>2. ASSUME NEW r \in ChildRuns, ChildAny(r)
        PROVE  TypeOK'
    BY <2>2, ChildTypesKept DEF ChildAny
  <2>3. ASSUME UNCHANGED vars
        PROVE  TypeOK'
    BY <2>3 DEF BInv, TypeOK, Child!TypeOK, vars, rowVars, selectionVars, childVars, hookVars, procVars,
                countVars
  <2> QED
    BY <2>1, <2>2, <2>3, NextCases
<1>2. ASSUME NEW q \in Procs
      PROVE  ProcOK(q)'
  <2>1. ASSUME NEW p \in Procs, ProcAny(p)
        PROVE  ProcOK(q)'
    BY <2>1, OwnProc, OtherProc
  <2>2. ASSUME NEW r \in ChildRuns, ChildAny(r)
        PROVE  ProcOK(q)'
    BY <2>2, ProcBesideChild
  <2>3. ASSUME UNCHANGED vars
        PROVE  ProcOK(q)'
    BY <2>3 DEF BInv, ProcOK, Unpublished, Succeeded, Scored, vars, rowVars, childVars, hookVars, procVars
  <2> QED
    BY <2>1, <2>2, <2>3, NextCases
<1> QED
  BY <1>1, <1>2, NextBirth, NextSeparate, NextChildOK, NextRows DEF BInv

\* BInv always holds.
LEMMA AlwaysBInv == Spec => []BInv
PROOF
  BY InitBInv, NextBInv, PTL DEF Spec

\* Rows, hooks and processes of a batch keep their types, whatever the user asks
\* for and wherever processes and workers are lost.
THEOREM BatchTypes == Spec => []TypeOK
PROOF
<1>1. BInv => TypeOK
  BY DEF BInv
<1> QED
  BY <1>1, AlwaysBInv, PTL

\* A walk-forward certificate rests on runs that succeeded: the out-of-sample run
\* it was issued for, and a run with a metric for every entry of the ranking that
\* selected the candidate.  No cancellation, retry, restart, crash or late hook
\* takes that evidence away.
THEOREM CertificateEarned == Spec => []CertificateIsEarned
PROOF
<1>1. BInv => CertificateIsEarned
  BY DEF BInv, RowsOK, CertificateIsEarned, Succeeded, Scored
<1> QED
  BY <1>1, AlwaysBInv, PTL

\* A result is final: no step of the batch, of a worker or of the user changes
\* the status of a child that has succeeded or failed.
ResultsStay == [][\A r \in ChildRuns : status[r] \in {"success", "failed"} => status'[r] = status[r]]_vars

THEOREM ResultsAreFinal == Spec => ResultsStay
PROOF
<1>1. BInv /\ [Next]_vars =>
        [\A r \in ChildRuns : status[r] \in {"success", "failed"} => status'[r] = status[r]]_vars
  <2> SUFFICES ASSUME BInv, [Next]_vars, NEW x \in ChildRuns, status[x] \in {"success", "failed"}
               PROVE  status'[x] = status[x]
    OBVIOUS
  <2>0. ChildTypes /\ BirthOK
    BY TypeGroups DEF BInv
  <2>1. ASSUME NEW p \in Procs, ProcAny(p)
        PROVE  status'[x] = status[x]
    BY <2>0, <2>1, ProcRuns DEF ChildTypes, BirthOK, childVars, Unpublished, Child!Active
  <2>2. ASSUME NEW r \in ChildRuns, ChildAny(r)
        PROVE  status'[x] = status[x]
    BY <2>0, <2>2, ChildFrame DEF ChildTypes, Child!Active
  <2> QED
    BY <2>1, <2>2, NextCases DEF vars, childVars
<1> QED
  BY <1>1, AlwaysBInv, PTL DEF Spec, ResultsStay

(***************************************************************************)
(* Without cancellation the children keep the contract of a backtest.      *)
(***************************************************************************)
\* The user does not cancel the batch.
NoCancel == "cancel" \notin UserOps

\* What is about to be published stays as created.
LEMMA NextCInv ==
  ASSUME NoCancel, BInv, CInv, [Next]_vars
  PROVE  CInv'
PROOF
<1>0. ProcTypes /\ ChildTypes /\ \A q \in Procs : ProcOK(q)
  BY TypeGroups DEF BInv
<1>1. ASSUME NEW p \in Procs, ProcAny(p)
      PROVE  CInv'
  <2>1. flow'[p] # "cancel"
    <3>1. CASE LoadDispatch(p)
      <4>1. Return(p) \/ UNCHANGED flow
        BY <3>1 DEF LoadDispatch
      <4> QED
        BY <1>0, <4>1 DEF Return, Finish, ProcTypes, CInv
    <3>2. CASE ~LoadDispatch(p)
      BY <1>0, <1>1, <3>2
      DEF ProcAny, ProcStep, dispatch_experiment_batch, reconcile_experiment_batches, UserRequest, ProcCrash,
         ReadItems, SelectCandidate, RereadItems, WriteBatch, issue_walk_forward_certificate, LoadRequeue,
         LoadCancel, Requeue, TakeItem, LastRefresh, CreateChild, Link, LinkRejected, LinkChild,
         PublishChild, CancelItems, CancelRun, HookRead, HookWrite, HookOos, Begin, Finish, Return,
         Refreshed, ProcTypes, NoCancel, CInv
    <3> QED
      BY <3>1, <3>2
  <2>2. /\ pc'[p] \notin {"cancelItems", "cancelRuns"}
        /\ pc'[p] \in Linking => CreateChild(p) \/ Link(p)
    <3>1. CASE LoadDispatch(p)
      <4>1. Return(p) \/ Goto(p, "item")
        BY <3>1 DEF LoadDispatch
      <4> QED
        BY <1>0, <4>1 DEF Return, Finish, Goto, ProcTypes, Linking
    <3>2. CASE ~LoadDispatch(p)
      BY <1>0, <1>1, <3>2
      DEF ProcAny, ProcStep, dispatch_experiment_batch, reconcile_experiment_batches, UserRequest, ProcCrash,
         ReadItems, SelectCandidate, RereadItems, WriteBatch, issue_walk_forward_certificate, LoadRequeue,
         LoadCancel, Requeue, TakeItem, LastRefresh, CreateChild, Link, LinkRejected,
         PublishChild, CancelItems, CancelRun, HookRead, HookWrite, HookOos, Begin, Goto, Finish, Return,
         Refreshed, ProcTypes, CInv, Linking
    <3> QED
      BY <3>1, <3>2
  <2>3. ASSUME pc'[p] \in Linking
        PROVE  status'[cur'[p]] = "created"
    <3>1. CASE CreateChild(p)
      <4> DEFINE r == NextRun(InHand(p))
      <4>1. /\ r \in ChildRuns /\ cur' = [cur EXCEPT ![p] = r]
            /\ status' = [status EXCEPT ![r] = "created"] \/ Goto(p, "reject")
        BY <3>1 DEF CreateChild, Child!Create
      <4> HIDE DEF r
      <4> QED
        BY <1>0, <2>3, <4>1 DEF ProcTypes, ChildTypes, Goto, Linking
    <3>2. CASE Link(p)
      BY <1>0, <3>2 DEF Link, LinkChild, CInv, Linking, childVars
    <3> QED
      BY <2>2, <2>3, <3>1, <3>2
  <2>4. ASSUME NEW q \in Procs, q # p
        PROVE  /\ flow'[q] # "cancel" /\ pc'[q] \notin {"cancelItems", "cancelRuns"}
               /\ pc'[q] \in Linking => status'[cur'[q]] = "created"
    <3>1. pc'[q] = pc[q] /\ cur'[q] = cur[q] /\ flow'[q] = flow[q]
      BY <1>1, <2>4, ProcFrame
    <3>2. ASSUME pc[q] \in Linking
          PROVE  status'[cur[q]] = "created"
      <4>1. cur[q] \in born /\ status[cur[q]] = "created"
        BY <1>0, <3>2 DEF ProcOK, CInv
      <4>2. PublishChild(p) => cur[p] # cur[q]
        BY <2>4, <3>2 DEF BInv, PublishChild, Separate, Linking
      <4>3. ~CancelRun(p)
        BY DEF CancelRun, CInv
      <4> QED
        BY <1>0, <1>1, <4>1, <4>2, <4>3, ProcRuns DEF ChildTypes, childVars
    <3> QED
      BY <3>1, <3>2 DEF CInv
  <2> QED
    BY <2>1, <2>2, <2>3, <2>4 DEF CInv
<1>2. ASSUME NEW r \in ChildRuns, ChildAny(r)
      PROVE  CInv'
  <2>1. ASSUME NEW q \in Procs, pc[q] \in Linking
        PROVE  status'[cur[q]] = "created"
    <3>1. cur[q] \in born /\ status[cur[q]] = "created" /\ Unpublished(cur[q])
      BY <1>0, <2>1 DEF ProcOK, CInv
    <3> QED
      BY <1>0, <1>2, <3>1, ChildFrame DEF ChildTypes
  <2> QED
    BY <1>2, <2>1, ChildFrame DEF CInv, procVars
<1> QED
  BY <1>1, <1>2, NextCases DEF CInv, vars, childVars, procVars

\* The children of a batch that is never cancelled keep BacktestContract: created
\* once, then active, then ended for good, through retries, restarts, lost
\* workers and refused publications.
THEOREM ContractKept ==
  ASSUME NoCancel
  PROVE  Spec => ChildrenKeepContract
PROOF
<1>1. Init => CInv
  BY DEF Init, CInv, Linking
<1>2. BInv /\ CInv /\ [Next]_vars => CInv'
  BY NextCInv
<1>3. BInv /\ CInv /\ [Next]_vars => [Child!Next]_(Child!vars)
  <2> SUFFICES ASSUME BInv, CInv, [Next]_vars
               PROVE  [Child!Next]_(Child!vars)
    OBVIOUS
  <2>0. ChildTypes
    BY TypeGroups DEF BInv
  <2>1. ASSUME NEW p \in Procs, ProcAny(p)
        PROVE  [Child!Next]_(Child!vars)
    <3>1. CASE CreateChild(p)
      BY <3>1 DEF CreateChild, Child!Next, Child!Create
    <3>2. CASE PublishChild(p)
      <4>1. cur[p] \in ChildRuns /\ status[cur[p]] = "created"
        BY <2>0, <3>2 DEF PublishChild, BInv, ProcOK, CInv, Linking, ChildTypes
      <4>2. Child!Progress(cur[p], "queued") \/ Child!End(cur[p], "failed")
        BY <3>2, <4>1 DEF PublishChild, Child!Progress, Child!End, Child!Active, Child!Terminal
      <4> QED
        BY <4>1, <4>2 DEF Child!Next, Child!Terminal
    <3>3. CASE ~CreateChild(p) /\ ~PublishChild(p)
      <4>1. ~CancelRun(p)
        BY DEF CancelRun, CInv
      <4> QED
        BY <2>1, <3>3, <4>1, ProcRuns DEF childVars, Child!vars
    <3> QED
      BY <3>1, <3>2, <3>3
  <2>2. ASSUME NEW r \in ChildRuns, ChildAny(r)
        PROVE  [Child!Next]_(Child!vars)
    <3>1. \/ \E s \in {"queued", "running"} : Child!Progress(r, s)
          \/ \E s \in Child!Terminal : Child!End(r, s)
          \/ UNCHANGED childVars
      BY <2>2 DEF ChildAny, ChildStep, ChildStart, ChildRead, ChildWrite, ChildOos, ChildEnd, ChildKilled,
                  ChildCrash, ChildReconciled, Child!Terminal
    <3> QED
      BY <3>1 DEF Child!Next, childVars, Child!vars
  <2> QED
    BY <2>1, <2>2, NextCases DEF vars, childVars, Child!vars
<1>4. Init => Child!Init
  BY DEF Init
<1> QED
  BY <1>1, <1>2, <1>3, <1>4, AlwaysBInv, PTL DEF Spec, ChildrenKeepContract, Child!Spec

(***************************************************************************)
(* Without restarts the out-of-sample phase waits for the selection.       *)
(***************************************************************************)
\* The user does not restart a cancelled batch.
NoRestart == "restart" \notin UserOps

\* Where a process gets to, and who takes it there.
LEMMA ProcMoves ==
  ASSUME BInv, NEW p \in Procs, ProcAny(p)
  PROVE  /\ flow'[p] = flow[p] \/ flow'[p] \in {"none", "dispatch", "again"} \cup UserOps
         /\ pc'[p] = "requeue" => LoadRequeue(p) /\ flow'[p] = flow[p]
         /\ pc'[p] = "create" => TakeItem(p)
         /\ pc'[p] \in {"link", "reject"} => CreateChild(p)
         /\ pc'[p] = "publish" => Link(p)
         /\ pc'[p] = "hookRead" => PublishChild(p) \/ CancelRun(p)
         /\ pc'[p] = "hookWrite" => HookRead(p)
         /\ pc'[p] = "hookOos" => HookWrite(p)
         /\ pc'[p] = "cancelItems" => LoadCancel(p)
PROOF
<1>0. ProcTypes
  BY TypeGroups DEF BInv
<1>1. CASE LoadDispatch(p)
  <2>1. Return(p) \/ Goto(p, "item")
    BY <1>1 DEF LoadDispatch
  <2>2. Return(p) \/ UNCHANGED flow
    BY <1>1 DEF LoadDispatch
  <2> QED
    BY <1>0, <2>1, <2>2 DEF Return, Finish, Goto, ProcTypes
<1>2. CASE WriteBatch(p) \/ issue_walk_forward_certificate(p)
  BY <1>0, <1>2 DEF WriteBatch, issue_walk_forward_certificate, Refreshed, Return, Finish, Goto, ProcTypes
<1>3. CASE dispatch_experiment_batch(p) \/ reconcile_experiment_batches(p) \/ UserRequest(p) \/ ProcCrash(p)
  BY <1>0, <1>3 DEF dispatch_experiment_batch, reconcile_experiment_batches, UserRequest, ProcCrash, Begin,
                    Finish, ProcTypes
<1>4. CASE ReadItems(p) \/ SelectCandidate(p) \/ RereadItems(p)
  BY <1>0, <1>4 DEF ReadItems, SelectCandidate, RereadItems, Goto, ProcTypes
<1>5. CASE LoadRequeue(p) \/ LoadCancel(p) \/ Requeue(p)
  <2>1. CASE LoadRequeue(p)
    BY <1>0, <2>1 DEF LoadRequeue, Finish, Goto, ProcTypes
  <2>2. CASE LoadCancel(p)
    BY <1>0, <2>2 DEF LoadCancel, Goto, ProcTypes
  <2>3. CASE Requeue(p)
    BY <1>0, <2>3 DEF Requeue, Goto, ProcTypes
  <2> QED
    BY <1>5, <2>1, <2>2, <2>3
<1>7. CASE LastRefresh(p) \/ CancelItems(p) \/ CancelRun(p)
  BY <1>0, <1>7 DEF LastRefresh, CancelItems, CancelRun, Goto, ProcTypes
<1>6. CASE TakeItem(p) \/ CreateChild(p) \/ Link(p) \/ LinkRejected(p) \/ PublishChild(p)
             \/ HookRead(p) \/ HookWrite(p) \/ HookOos(p)
  BY <1>0, <1>6 DEF TakeItem, CreateChild, Link, LinkRejected, LinkChild, PublishChild, HookRead, HookWrite,
                    HookOos, Goto, ProcTypes
<1> QED
  BY <1>1, <1>2, <1>3, <1>4, <1>5, <1>6, <1>7 DEF ProcAny, ProcStep

\* Who writes the items, and what.
LEMMA ItemMoves ==
  ASSUME BInv, NEW p \in Procs, ProcAny(p), NEW i \in Items
  PROVE  \/ item'[i] = item[i]
         \/ /\ SelectCandidate(p) /\ selected = NoCandidate /\ item[i] = SELECTION_BLOCKED
            /\ \/ item'[i] = "skipped"
               \/ item'[i] = "pending" /\ (i[1] = "oos" => i[2] = selected')
         \/ Requeue(p) /\ item[i] \in Requeueable(flow[p]) /\ item'[i] = "pending"
         \/ TakeItem(p) /\ item[i] = "pending" /\ item'[i] = "dispatching" /\ i = ItemOf(cur'[p])
         \/ Link(p) /\ i = InHand(p) /\ item'[i] = "queued"
         \/ LinkRejected(p) /\ i = InHand(p) /\ item'[i] = "failed"
         \/ CancelItems(p) /\ item'[i] = "cancelled"
         \/ HookWrite(p) /\ i = InHand(p) /\ item'[i] = ItemStatus(got[p])
PROOF
<1>0. ItemTypes /\ ProcTypes
  BY TypeGroups DEF BInv
<1>1. CASE SelectCandidate(p)
  BY <1>0, <1>1 DEF SelectCandidate, ItemTypes
<1>2. CASE Requeue(p)
  BY <1>0, <1>2 DEF Requeue, ItemTypes
<1>3. CASE TakeItem(p)
  <2>1. PICK x \in todo[p] :
          \/ /\ item[ItemOf(x)] = "pending" /\ item' = [item EXCEPT ![ItemOf(x)] = "dispatching"]
             /\ cur' = [cur EXCEPT ![p] = x]
          \/ item' = item
    BY <1>3 DEF TakeItem
  <2> QED
    BY <1>0, <1>3, <2>1 DEF ItemTypes, ProcTypes
<1>4. CASE Link(p) \/ LinkRejected(p)
  BY <1>0, <1>4 DEF Link, LinkRejected, LinkChild, ItemTypes
<1>5. CASE CancelItems(p)
  BY <1>0, <1>5 DEF CancelItems, ItemTypes
<1>6. CASE HookWrite(p)
  BY <1>0, <1>6 DEF HookWrite, WriteItem, InHand, ItemTypes
<1>7. CASE ~SelectCandidate(p) /\ ~Requeue(p) /\ ~TakeItem(p) /\ ~Link(p) /\ ~LinkRejected(p)
           /\ ~CancelItems(p) /\ ~HookWrite(p)
  BY <1>7 DEF ProcAny, ProcStep, dispatch_experiment_batch, reconcile_experiment_batches, UserRequest,
         ProcCrash, ReadItems, RereadItems, WriteBatch, issue_walk_forward_certificate, LoadRequeue,
         LoadCancel, LoadDispatch, LastRefresh, CreateChild, PublishChild, CancelRun, HookRead, HookOos,
         rowVars
<1> QED
  BY <1>1, <1>2, <1>3, <1>4, <1>5, <1>6, <1>7

\* The same for the worker of a child.
LEMMA ChildItemMoves ==
  ASSUME BInv, NEW r \in ChildRuns, ChildAny(r), NEW i \in Items
  PROVE  \/ item'[i] = item[i]
         \/ ChildWrite(r) /\ i = ItemOf(r) /\ item'[i] = ItemStatus(seen[r])
PROOF
<1>0. ItemTypes
  BY TypeGroups DEF BInv
<1>1. CASE ChildWrite(r)
  BY <1>0, <1>1 DEF ChildWrite, WriteItem, ItemTypes
<1>2. CASE ~ChildWrite(r)
  BY <1>2 DEF ChildAny, ChildStep, ChildStart, ChildRead, ChildOos, ChildEnd, ChildKilled, ChildCrash,
         ChildReconciled, rowVars
<1> QED
  BY <1>1, <1>2

\* The selection is frozen: it is made once and is not taken back.
LEMMA SelectionFrozen ==
  ASSUME BInv, [Next]_vars
  PROVE  selected = NoCandidate \/ selected' = selected
PROOF
<1>1. ASSUME NEW p \in Procs, ProcAny(p)
      PROVE  selected = NoCandidate \/ selected' = selected
  BY <1>1 DEF ProcAny, ProcStep, dispatch_experiment_batch, reconcile_experiment_batches, UserRequest,
         ProcCrash, ReadItems, SelectCandidate, RereadItems, WriteBatch, issue_walk_forward_certificate,
         LoadRequeue, LoadCancel, LoadDispatch, Requeue, TakeItem, LastRefresh, CreateChild, Link,
         LinkRejected, LinkChild, PublishChild, CancelItems, CancelRun, HookRead, HookWrite, HookOos,
         rowVars, selectionVars
<1>2. ASSUME NEW r \in ChildRuns, ChildAny(r)
      PROVE  selected' = selected
  BY <1>2, ChildFrame
<1> QED
  BY <1>1, <1>2, NextCases DEF vars, rowVars, selectionVars

\* An item that may run goes on to be allowed to.
LEMMA AllowedStays ==
  ASSUME BInv, [Next]_vars, NEW i \in Items, ~IsOos(i)
  PROVE  ~IsOos(i)'
PROOF
<1>1. i[2] # NoCandidate
  BY NoItemAssumption DEF Items
<1> QED
  BY <1>1, SelectionFrozen DEF IsOos

\* SInv is inductive without restarts.
LEMMA NextSInv ==
  ASSUME NoRestart, BInv, SInv, [Next]_vars
  PROVE  SInv'
PROOF
<1>0. /\ ProcTypes /\ ChildTypes /\ ItemTypes /\ BirthOK
      /\ \A q \in Procs : ProcOK(q)
  BY TypeGroups DEF BInv
<1>00. \A x \in born : x \in ChildRuns /\ ItemOf(x) \in Items
  BY <1>0 DEF ChildTypes, ChildRuns, ItemOf
<1>01. \A x \in Slots : ItemOf(x) \in Items
  BY DEF Slots, ItemOf
<1>02. \A i \in Items : IsOos(i)' => IsOos(i)
  BY AllowedStays
<1>1. ASSUME NEW p \in Procs, ProcAny(p)
      PROVE  SInv'
  <2>1. ASSUME NEW q \in Procs
        PROVE  /\ flow'[q] # "restart"
               /\ pc'[q] = "requeue" => flow'[q] = "retry"
               /\ pc'[q] = "create" => ~IsOos(InHand(q))'
    <3>1. CASE q # p
      <4>1. pc'[q] = pc[q] /\ flow'[q] = flow[q] /\ cur'[q] = cur[q]
        BY <1>1, <3>1, ProcFrame
      <4>2. pc[q] = "create" => InHand(q) \in Items
        BY <1>0, <1>01 DEF ProcOK, InHand
      <4> QED
        BY <1>02, <4>1, <4>2 DEF SInv, InHand
    <3>2. CASE q = p
      <4>1. flow'[p] # "restart"
        BY <1>1, ProcMoves DEF SInv, NoRestart
      <4>2. ASSUME pc'[p] = "requeue"
            PROVE  flow'[p] = "retry"
        BY <1>1, <4>2, ProcMoves DEF LoadRequeue, SInv
      <4>3. ASSUME pc'[p] = "create"
            PROVE  ~IsOos(InHand(p))'
        <5>1. TakeItem(p)
          BY <1>1, <4>3, ProcMoves
        <5>2. PICK x \in todo[p] : cur'[p] = x /\ (item[ItemOf(x)] = "pending" \/ pc' = pc)
          BY <1>0, <4>3, <5>1 DEF TakeItem, ProcTypes
        <5>3. x \in Slots /\ item[ItemOf(x)] = "pending"
          BY <1>0, <4>3, <5>1, <5>2 DEF TakeItem, ProcTypes
        <5>4. ~IsOos(ItemOf(x))
          BY <1>01, <5>3 DEF SInv, SELECTION_BLOCKED
        <5> QED
          BY <1>01, <1>02, <5>2, <5>3, <5>4 DEF InHand
      <4> QED
        BY <3>2, <4>1, <4>2, <4>3
    <3> QED
      BY <3>1, <3>2
  <2>2. ASSUME NEW i \in Items, IsOos(i)'
        PROVE  item'[i] \in {SELECTION_BLOCKED, "skipped", "cancelled"}
    <3>1. IsOos(i) /\ item[i] \in {SELECTION_BLOCKED, "skipped", "cancelled"}
      BY <1>02, <2>2 DEF SInv
    <3>2. Requeue(p) => item[i] \notin Requeueable(flow[p])
      BY <3>1 DEF Requeue, Requeueable, SInv, SELECTION_BLOCKED
    <3>3. Link(p) \/ LinkRejected(p) \/ HookWrite(p) => i # InHand(p)
      <4>1. Link(p) \/ LinkRejected(p) \/ HookWrite(p) => cur[p] \in born
        BY <1>0 DEF Link, LinkRejected, HookWrite, ProcOK, Linking, HookPcs
      <4> QED
        BY <3>1, <4>1 DEF SInv, InHand
    <3>4. item[i] # "pending"
      BY <3>1 DEF SELECTION_BLOCKED
    <3>5. ~(i[1] = "oos" => i[2] = selected')
      BY <2>2 DEF IsOos
    <3> QED
      BY <1>1, <3>1, <3>2, <3>3, <3>4, <3>5, ItemMoves
  <2>3. ASSUME NEW r \in born'
        PROVE  ~IsOos(ItemOf(r))'
    <3>1. CASE r \in born
      BY <1>00, <1>02, <3>1 DEF SInv
    <3>2. CASE r \notin born
      <4>1. CreateChild(p) /\ r = NextRun(InHand(p))
        <5>1. CreateChild(p)
          BY <1>1, <2>3, <3>2, ProcRuns DEF childVars
        <5> QED
          BY <2>3, <3>2, <5>1 DEF CreateChild, Child!Create
      <4>2. ItemOf(r) = InHand(p) /\ InHand(p) \in Items /\ ~IsOos(InHand(p))
        BY <1>0, <1>01, <4>1 DEF CreateChild, NextRun, ItemOf, InHand, ProcOK, SInv
      <4> QED
        BY <1>02, <4>2
    <3> QED
      BY <3>1, <3>2
  <2> QED
    BY <2>1, <2>2, <2>3 DEF SInv
<1>2. ASSUME NEW r \in ChildRuns, ChildAny(r)
      PROVE  SInv'
  <2>0. UNCHANGED <<procVars, born, selected>> /\ r \in born
    BY <1>2, ChildFrame
  <2>1. ASSUME NEW i \in Items, IsOos(i)
        PROVE  item'[i] = item[i]
    <3>1. i # ItemOf(r)
      BY <2>0, <2>1 DEF SInv
    <3> QED
      BY <1>2, <3>1, ChildItemMoves
  <2>2. \A i \in Items : IsOos(i)' <=> IsOos(i)
    BY <2>0 DEF IsOos
  <2> QED
    BY <2>0, <2>1, <2>2 DEF SInv, procVars, InHand, IsOos
<1>3. ASSUME UNCHANGED vars
      PROVE  SInv'
  BY <1>3 DEF SInv, IsOos, InHand, vars, rowVars, selectionVars, childVars, procVars
<1> QED
  BY <1>1, <1>2, <1>3, NextCases

\* As long as the user restarts no cancelled batch, no out-of-sample child is ever
\* created for a candidate other than the one validation selected.
THEOREM OosWaits ==
  ASSUME NoRestart
  PROVE  Spec => []OosWaitsForSelection
PROOF
<1>1. Init => SInv
  BY DEF Init, SInv, Child!Init, IsOos
<1>2. BInv /\ SInv /\ [Next]_vars => SInv'
  BY NextSInv
<1>3. SInv => OosWaitsForSelection
  BY DEF SInv, OosWaitsForSelection, IsOos
<1> QED
  BY <1>1, <1>2, <1>3, AlwaysBInv, PTL DEF Spec

(***************************************************************************)
(* Without retries and restarts an item has one child.                     *)
(***************************************************************************)
\* The user neither retries nor restarts the batch.
NoRequeue == "retry" \notin UserOps /\ "restart" \notin UserOps

\* A new child is that of the item in hand.
LEMMA NewChild ==
  ASSUME BInv, NEW p \in Procs, ProcAny(p), NEW r \in born', r \notin born
  PROVE  /\ CreateChild(p) /\ r \in ChildRuns /\ cur'[p] = r /\ ItemOf(r) = InHand(p) /\ InHand(p) \in Items
         /\ born' = born \cup {r} /\ UNCHANGED <<item, related>>
PROOF
<1>0. ProcTypes /\ ChildTypes /\ ProcOK(p)
  BY TypeGroups DEF BInv
<1>1. CreateChild(p)
  BY ProcRuns DEF childVars
<1>2. r = NextRun(InHand(p)) /\ r \in ChildRuns /\ born' = born \cup {r}
  BY <1>1 DEF CreateChild, Child!Create
<1>3. cur'[p] = r /\ UNCHANGED <<item, related>>
  BY <1>0, <1>1, <1>2 DEF CreateChild, ProcTypes, rowVars
<1>4. ItemOf(r) = InHand(p) /\ InHand(p) \in Items
  BY <1>0, <1>1, <1>2 DEF CreateChild, ProcOK, InHand, ItemOf, NextRun, Slots
<1> QED
  BY <1>1, <1>2, <1>3, <1>4

\* An item that has been taken stays taken.
LEMMA TakenStays ==
  ASSUME BInv, OInv, [Next]_vars, NEW i \in Items, item[i] \notin {"pending", SELECTION_BLOCKED}
  PROVE  item'[i] \notin {"pending", SELECTION_BLOCKED}
PROOF
<1>1. ASSUME NEW p \in Procs, ProcAny(p)
      PROVE  item'[i] \notin {"pending", SELECTION_BLOCKED}
  <2>1. ~Requeue(p)
    BY DEF OInv, Requeue
  <2>2. ItemStatus(got[p]) \notin {"pending", SELECTION_BLOCKED}
    BY ItemStatusType
  <2> QED
    BY <1>1, <2>1, <2>2, ItemMoves DEF SELECTION_BLOCKED
<1>2. ASSUME NEW r \in ChildRuns, ChildAny(r)
      PROVE  item'[i] \notin {"pending", SELECTION_BLOCKED}
  <2>1. ItemStatus(seen[r]) \notin {"pending", SELECTION_BLOCKED}
    BY ItemStatusType
  <2> QED
    BY <1>2, <2>1, ChildItemMoves
<1> QED
  BY <1>1, <1>2, NextCases DEF vars, rowVars

\* The item a process takes was pending.
LEMMA TakenWasPending ==
  ASSUME BInv, NEW p \in Procs, ProcAny(p), pc'[p] = "create"
  PROVE  /\ InHand(p)' \in Items /\ item[InHand(p)'] = "pending"
         /\ item'[InHand(p)'] = "dispatching" /\ born' = born
PROOF
<1>0. ProcTypes /\ ItemTypes
  BY TypeGroups DEF BInv
<1>1. TakeItem(p)
  BY ProcMoves
<1>2. PICK x \in todo[p] :
        \/ /\ item[ItemOf(x)] = "pending" /\ item' = [item EXCEPT ![ItemOf(x)] = "dispatching"]
           /\ cur' = [cur EXCEPT ![p] = x]
        \/ pc' = pc
  BY <1>1 DEF TakeItem
<1>3. pc[p] = "item" /\ born' = born
  BY <1>1 DEF TakeItem, childVars
<1>4. x \in Slots /\ cur'[p] = x
  BY <1>0, <1>2, <1>3 DEF ProcTypes
<1>5. ItemOf(x) \in Items
  BY <1>4 DEF Slots, ItemOf
<1> QED
  BY <1>0, <1>2, <1>3, <1>4, <1>5 DEF InHand, ItemTypes

\* OInv is inductive when no item is requeued.
LEMMA NextOInv ==
  ASSUME NoRequeue, BInv, OInv, [Next]_vars
  PROVE  OInv'
PROOF
<1>0. /\ ProcTypes /\ ChildTypes /\ BirthOK
      /\ \A q \in Procs : ProcOK(q)
  BY TypeGroups DEF BInv
<1>00. \A x \in born : x \in ChildRuns /\ ItemOf(x) \in Items
  BY <1>0 DEF ChildTypes, ChildRuns, ItemOf
<1>01. \A q \in Procs : pc[q] = "create" => InHand(q) \in Items
  BY <1>0 DEF ProcOK, InHand, Slots, ItemOf
<1>1. ASSUME NEW p \in Procs, ProcAny(p)
      PROVE  OInv'
  <2>0. ASSUME NEW q \in Procs, q # p
        PROVE  pc'[q] = pc[q] /\ flow'[q] = flow[q] /\ cur'[q] = cur[q] /\ InHand(q)' = InHand(q)
    BY <1>1, <2>0, ProcFrame DEF InHand
  <2>1. ASSUME NEW q \in Procs
        PROVE  flow'[q] \notin {"retry", "restart"} /\ pc'[q] # "requeue"
    <3>1. CASE q # p
      BY <2>0, <3>1 DEF OInv
    <3>2. CASE q = p
      BY <1>1, <3>2, ProcMoves DEF OInv, NoRequeue, LoadRequeue
    <3> QED
      BY <3>1, <3>2
  <2>2. ASSUME NEW q \in Procs, pc'[q] = "create"
        PROVE  /\ item'[InHand(q)'] \notin {"pending", SELECTION_BLOCKED}
               /\ \A r \in born' : ItemOf(r) # InHand(q)'
    <3>1. CASE q # p
      <4>1. pc[q] = "create" /\ InHand(q)' = InHand(q) /\ InHand(q) \in Items
        BY <1>01, <2>0, <2>2, <3>1
      <4>2. item'[InHand(q)] \notin {"pending", SELECTION_BLOCKED}
        BY <4>1, TakenStays DEF OInv
      <4>3. ASSUME NEW r \in born'
            PROVE  ItemOf(r) # InHand(q)
        <5>1. CASE r \in born
          BY <4>1, <5>1 DEF OInv
        <5>2. CASE r \notin born
          <6>1. pc[p] = "create" /\ ItemOf(r) = InHand(p)
            BY <1>1, <5>2, NewChild DEF CreateChild
          <6> QED
            BY <3>1, <4>1, <6>1 DEF OInv
        <5> QED
          BY <5>1, <5>2
      <4> QED
        BY <4>1, <4>2, <4>3
    <3>2. CASE q = p
      <4>1. item[InHand(p)'] = "pending" /\ item'[InHand(p)'] = "dispatching" /\ born' = born
        BY <1>1, <2>2, <3>2, TakenWasPending
      <4> QED
        BY <3>2, <4>1 DEF OInv, SELECTION_BLOCKED
    <3> QED
      BY <3>1, <3>2
  <2>3. ASSUME NEW q \in Procs, NEW t \in Procs, q # t, pc'[q] = "create", pc'[t] = "create"
        PROVE  InHand(q)' # InHand(t)'
    <3>1. CASE q # p /\ t # p
      BY <2>0, <2>3, <3>1 DEF OInv
    <3>2. ASSUME NEW u \in Procs, u # p, pc'[u] = "create", pc'[p] = "create"
          PROVE  InHand(u)' # InHand(p)'
      <4>1. item[InHand(p)'] = "pending"
        BY <1>1, <3>2, TakenWasPending
      <4>2. pc[u] = "create" /\ InHand(u)' = InHand(u)
        BY <2>0, <3>2
      <4> QED
        BY <4>1, <4>2 DEF OInv
    <3> QED
      BY <2>3, <3>1, <3>2
  <2>4. ASSUME NEW r \in born'
        PROVE  /\ item'[ItemOf(r)] \notin {"pending", SELECTION_BLOCKED}
               /\ \A t \in born' : ItemOf(r) = ItemOf(t) => r = t
    <3>1. CASE r \in born
      <4>1. item'[ItemOf(r)] \notin {"pending", SELECTION_BLOCKED}
        BY <1>00, <3>1, TakenStays DEF OInv
      <4>2. ASSUME NEW t \in born', ItemOf(r) = ItemOf(t)
            PROVE  r = t
        <5>1. CASE t \in born
          BY <3>1, <4>2, <5>1 DEF OInv
        <5>2. CASE t \notin born
          <6>1. pc[p] = "create" /\ ItemOf(t) = InHand(p)
            BY <1>1, <5>2, NewChild DEF CreateChild
          <6> QED
            BY <3>1, <4>2, <6>1 DEF OInv
        <5> QED
          BY <5>1, <5>2
      <4> QED
        BY <4>1, <4>2
    <3>2. CASE r \notin born
      <4>1. /\ pc[p] = "create" /\ ItemOf(r) = InHand(p) /\ InHand(p) \in Items
            /\ born' = born \cup {r} /\ item' = item
        BY <1>1, <3>2, NewChild DEF CreateChild
      <4> QED
        BY <4>1 DEF OInv
    <3> QED
      BY <3>1, <3>2
  <2> QED
    BY <2>1, <2>2, <2>3, <2>4 DEF OInv
<1>2. ASSUME NEW r \in ChildRuns, ChildAny(r)
      PROVE  OInv'
  <2>0. UNCHANGED <<procVars, born>>
    BY <1>2, ChildFrame
  <2>1. \A x \in born : item'[ItemOf(x)] \notin {"pending", SELECTION_BLOCKED}
    BY <1>00, TakenStays DEF OInv
  <2>2. \A q \in Procs : pc[q] = "create" => item'[InHand(q)] \notin {"pending", SELECTION_BLOCKED}
    BY <1>01, TakenStays DEF OInv
  <2>3. \A q \in Procs : InHand(q)' = InHand(q)
    BY <2>0 DEF InHand, procVars
  <2> QED
    BY <2>0, <2>1, <2>2, <2>3 DEF OInv, procVars
<1>3. ASSUME UNCHANGED vars
      PROVE  OInv'
  BY <1>3 DEF OInv, InHand, vars, rowVars, childVars, procVars
<1> QED
  BY <1>1, <1>2, <1>3, NextCases

\* OInv always holds then.
LEMMA AlwaysOInv ==
  ASSUME NoRequeue
  PROVE  Spec => []OInv
PROOF
<1>1. Init => OInv
  BY DEF Init, OInv, Child!Init
<1>2. BInv /\ OInv /\ [Next]_vars => OInv'
  BY NextOInv
<1> QED
  BY <1>1, <1>2, AlwaysBInv, PTL DEF Spec

\* Until the user asks for a retry or a restart an item never has two children at
\* work, however many dispatches race for it, wherever they are lost, and whether
\* or not the batch is cancelled meanwhile.
THEOREM OneChild ==
  ASSUME NoRequeue
  PROVE  Spec => []OneLiveChild
PROOF
<1>1. BInv /\ OInv => OneLiveChild
  BY DEF BInv, BirthOK, OInv, OneLiveChild, Child!Active
<1> QED
  BY <1>1, AlwaysOInv, AlwaysBInv, PTL

(***************************************************************************)
(* Without disturbance an item at rest agrees with its child.              *)
(***************************************************************************)
\* The user only looks, no process and no worker is lost, and no run is ended
\* over its budget.  Requests may still be rejected and publications refused.
Undisturbed == UserOps \subseteq {"view"} /\ "crash" \notin Faults /\ "over_budget" \notin Faults

\* A process has a child in its hands from its creation until its publication, or
\* until its failure is reconciled.
Holding == {"link", "reject", "publish"} \cup HookPcs
HandOK(p) ==
  /\ pc[p] \in Holding => hook[cur[p]] = "none"
  /\ pc[p] \in {"reject"} \cup HookPcs => status[cur[p]] = "failed"
  /\ pc[p] \in {"publish"} \cup HookPcs => related[InHand(p)] = cur[p][2]
  /\ pc[p] = "publish" => item[InHand(p)] = "queued"
  /\ pc[p] \in {"hookWrite", "hookOos"} => got[p] = "failed"
  /\ pc[p] = "hookOos" => item[InHand(p)] = "failed"
Apart == \A p, q \in Procs : p # q /\ pc[p] \in Holding /\ pc[q] \in Holding => cur[p] # cur[q]

\* From then on the item follows the child's worker.
Following(r) ==
  LET i == ItemOf(r) IN
  /\ related[i] = r[2]
  /\ status[r] \in {"queued", "running", "success", "failed"}
  /\ hook[r] \in {"none", "startOos", "execute", "endOos"} => item[i] = status[r]
  /\ hook[r] \in {"startWrite", "endWrite"} => seen[r] = status[r]

FInv ==
  /\ \A p \in Procs : HandOK(p)
  /\ Apart
  /\ \A r \in born : (\A p \in Procs : pc[p] \in Holding => cur[p] # r) => Following(r)
  /\ \A i \in Items : related[i] # 0 => <<i, related[i]>> \in born

\* Only a dispatch links an item to a child.
LEMMA RelatedMoves ==
  ASSUME BInv, NEW p \in Procs, ProcAny(p), ~Requeue(p), NEW i \in Items
  PROVE  \/ related'[i] = related[i]
         \/ (Link(p) \/ LinkRejected(p)) /\ i = InHand(p) /\ related'[i] = cur[p][2]
PROOF
<1>0. ItemTypes
  BY TypeGroups DEF BInv
<1>1. CASE Link(p) \/ LinkRejected(p)
  BY <1>0, <1>1 DEF Link, LinkRejected, LinkChild, ItemTypes
<1>2. CASE ~Link(p) /\ ~LinkRejected(p)
  BY <1>2 DEF ProcAny, ProcStep, dispatch_experiment_batch, reconcile_experiment_batches, UserRequest,
         ProcCrash, ReadItems, SelectCandidate, RereadItems, WriteBatch, issue_walk_forward_certificate,
         LoadRequeue, LoadCancel, LoadDispatch, TakeItem, LastRefresh, CreateChild, PublishChild,
         CancelItems, CancelRun, HookRead, HookWrite, HookOos, rowVars
<1> QED
  BY <1>1, <1>2

\* What does not happen.
LEMMA Calm ==
  ASSUME Undisturbed, CInv, OInv
  PROVE  /\ \A p \in Procs : ~Requeue(p) /\ ~CancelItems(p) /\ ~CancelRun(p) /\ ~ProcCrash(p)
         /\ \A r \in ChildRuns : ~ChildCrash(r) /\ ~ChildReconciled(r)
PROOF
  BY DEF Undisturbed, CInv, OInv, Requeue, CancelItems, CancelRun, ProcCrash, ChildCrash, ChildReconciled, Fault

\* A child's run is named by its item and its number.
LEMMA RunNames ==
  ASSUME BInv
  PROVE  \A x \in born : x \in ChildRuns /\ ItemOf(x) \in Items /\ x = <<ItemOf(x), x[2]>>
PROOF
  BY TypeGroups DEF BInv, ChildTypes, ChildRuns, ItemOf

\* A process leaves alone every child but the one in its hands.
LEMMA Elsewhere ==
  ASSUME Undisturbed, BInv, CInv, OInv, NEW p \in Procs, ProcAny(p), NEW x \in born,
         pc[p] \in Holding => cur[p] # x
  PROVE  /\ item'[ItemOf(x)] = item[ItemOf(x)] /\ related'[ItemOf(x)] = related[ItemOf(x)]
         /\ status'[x] = status[x] /\ hook'[x] = hook[x] /\ seen'[x] = seen[x]
PROOF
<1>0. ProcOK(p) /\ ChildTypes
  BY TypeGroups DEF BInv
<1>1. ItemOf(x) \in Items /\ x \in ChildRuns
  BY RunNames
<1>2. ~Requeue(p) /\ ~CancelItems(p) /\ ~CancelRun(p)
  BY Calm
<1>3. Link(p) \/ LinkRejected(p) \/ HookWrite(p) => ItemOf(x) # InHand(p)
  BY <1>0 DEF Link, LinkRejected, HookWrite, ProcOK, OInv, InHand, Holding, HookPcs, Linking
<1>4. item[ItemOf(x)] \notin {"pending", SELECTION_BLOCKED}
  BY DEF OInv
<1>5. item'[ItemOf(x)] = item[ItemOf(x)]
  BY <1>1, <1>2, <1>3, <1>4, ItemMoves
<1>6. related'[ItemOf(x)] = related[ItemOf(x)]
  BY <1>1, <1>2, <1>3, RelatedMoves
<1>7. PublishChild(p) => cur[p] # x
  BY DEF PublishChild, Holding
<1>8. status'[x] = status[x]
  BY <1>0, <1>1, <1>2, <1>7, ProcRuns DEF ChildTypes, childVars
<1> QED
  BY <1>5, <1>6, <1>8, ProcFrame

\* A process that has a child in its hands had it before, or has just created it.
LEMMA HoldingMoves ==
  ASSUME Undisturbed, BInv, CInv, OInv, NEW p \in Procs, ProcAny(p), pc'[p] \in Holding
  PROVE  CreateChild(p) \/ (pc[p] \in Holding /\ cur'[p] = cur[p])
PROOF
<1>1. CreateChild(p) \/ Link(p) \/ PublishChild(p) \/ HookRead(p) \/ HookWrite(p)
  BY ProcMoves, Calm DEF Holding, HookPcs
<1> QED
  BY <1>1 DEF Link, LinkChild, PublishChild, HookRead, HookWrite, Holding, HookPcs

\* A process that moves knows of the child it holds what its new place demands.
LEMMA OwnHand ==
  ASSUME Undisturbed, BInv, CInv, OInv, FInv, NEW p \in Procs, ProcAny(p)
  PROVE  HandOK(p)'
PROOF
<1>0. /\ ProcTypes /\ ChildTypes /\ ItemTypes /\ ProcOK(p) /\ BirthOK /\ HandOK(p)
  BY TypeGroups DEF BInv, FInv
<1>1. CASE pc'[p] \notin Holding
  BY <1>1 DEF HandOK, Holding, HookPcs
<1>2. CASE CreateChild(p)
  <2> DEFINE r == NextRun(InHand(p))
  <2>1. /\ r \in ChildRuns \ born /\ cur' = [cur EXCEPT ![p] = r]
        /\ \/ Goto(p, "link")
           \/ status' = [status EXCEPT ![r] = "failed"] /\ Goto(p, "reject")
    BY <1>2 DEF CreateChild, Child!Create
  <2> HIDE DEF r
  <2>2. hook'[r] = "none"
    BY <1>0, <2>1, ProcFrame DEF BirthOK
  <2>3. /\ cur'[p] = r /\ pc'[p] \in {"link", "reject"}
        /\ pc'[p] = "reject" => status'[r] = "failed"
    BY <1>0, <2>1 DEF Goto, ProcTypes, ChildTypes
  <2> QED
    BY <2>2, <2>3 DEF HandOK, HookPcs
<1>3. CASE Link(p)
  <2>1. cur[p] \in born /\ InHand(p) \in Items
    BY <1>0, <1>3, RunNames DEF Link, ProcOK, Linking, InHand
  <2>2. /\ pc'[p] = "publish" /\ cur'[p] = cur[p] /\ hook' = hook /\ pc[p] = "link"
        /\ item'[InHand(p)] = "queued" /\ related'[InHand(p)] = cur[p][2]
    BY <1>0, <1>3, <2>1 DEF Link, LinkChild, Goto, ProcTypes, ItemTypes, hookVars
  <2> QED
    BY <1>0, <2>2 DEF HandOK, Holding, HookPcs, InHand
<1>4. CASE PublishChild(p) /\ pc'[p] \in Holding
  <2>1. cur[p] \in ChildRuns
    BY <1>0, <1>4, RunNames DEF PublishChild, ProcOK, Linking
  <2>2. /\ pc'[p] = "hookRead" /\ pc[p] = "publish" /\ status'[cur[p]] = "failed"
    BY <1>0, <1>4, <2>1 DEF PublishChild, Goto, ProcTypes, ChildTypes, Holding, HookPcs
  <2>3. UNCHANGED <<cur, hook, item, related>>
    BY <1>4 DEF PublishChild, rowVars, hookVars
  <2> QED
    BY <1>0, <2>2, <2>3 DEF HandOK, Holding, HookPcs, InHand
<1>5. CASE HookRead(p)
  <2>1. pc'[p] = "hookWrite" /\ pc[p] = "hookRead" /\ got'[p] = status[cur[p]]
    BY <1>0, <1>5 DEF HookRead, Goto, ProcTypes
  <2>2. UNCHANGED <<cur, hook, item, related, status>>
    BY <1>5 DEF HookRead, rowVars, hookVars, childVars
  <2> QED
    BY <1>0, <2>1, <2>2 DEF HandOK, Holding, HookPcs, InHand
<1>6. CASE HookWrite(p)
  <2>1. cur[p] \in born /\ InHand(p) \in Items
    BY <1>0, <1>6, RunNames DEF HookWrite, ProcOK, HookPcs, InHand
  <2>2. pc'[p] = "hookOos" /\ pc[p] = "hookWrite" /\ item'[InHand(p)] = ItemStatus(got[p])
    BY <1>0, <1>6, <2>1 DEF HookWrite, Goto, ProcTypes, WriteItem, ItemTypes, InHand
  <2>3. UNCHANGED <<cur, hook, got, related, status>>
    BY <1>6 DEF HookWrite, hookVars, childVars
  <2>4. ItemStatus("failed") = "failed"
    BY DEF ItemStatus
  <2> QED
    BY <1>0, <2>2, <2>3, <2>4 DEF HandOK, Holding, HookPcs, InHand
<1>7. pc'[p] \in Holding => CreateChild(p) \/ Link(p) \/ PublishChild(p) \/ HookRead(p) \/ HookWrite(p)
  BY ProcMoves, Calm DEF Holding, HookPcs
<1> QED
  BY <1>1, <1>2, <1>3, <1>4, <1>5, <1>6, <1>7

\* What a process leaves behind when it lets go of a child.
LEMMA LetGo ==
  ASSUME Undisturbed, BInv, CInv, OInv, FInv, NEW p \in Procs, ProcAny(p), pc[p] \in Holding,
         pc'[p] \notin Holding, NEW r, r = cur[p]
  PROVE  Following(r)'
PROOF
<1>0. /\ ProcTypes /\ ChildTypes /\ ItemTypes /\ ProcOK(p) /\ HandOK(p)
  BY TypeGroups DEF BInv, FInv
<1>1. r \in born /\ r \in ChildRuns /\ InHand(p) = ItemOf(r) /\ InHand(p) \in Items
  BY <1>0, RunNames DEF ProcOK, Holding, Linking, HookPcs, InHand
<1>2. hook'[r] = "none"
  BY <1>0, ProcFrame DEF HandOK
<1>3. LinkRejected(p) \/ PublishChild(p) \/ HookOos(p)
  <2>1. ~Link(p) /\ ~HookRead(p) /\ ~HookWrite(p)
    BY <1>0 DEF Link, HookRead, HookWrite, Goto, ProcTypes, Holding, HookPcs
  <2>2. ~ProcCrash(p)
    BY Calm
  <2> QED
    BY <2>1, <2>2
    DEF ProcAny, ProcStep, dispatch_experiment_batch, reconcile_experiment_batches, UserRequest, Begin,
        ReadItems, SelectCandidate, RereadItems, WriteBatch, issue_walk_forward_certificate, LoadRequeue,
        LoadCancel, LoadDispatch, Requeue, TakeItem, LastRefresh, CreateChild, CancelItems, CancelRun,
        Holding, HookPcs
<1>4. CASE LinkRejected(p)
  <2>1. status'[r] = "failed"
    BY <1>0, <1>4 DEF LinkRejected, LinkChild, HandOK, childVars
  <2>2. item'[ItemOf(r)] = "failed" /\ related'[ItemOf(r)] = r[2]
    BY <1>0, <1>1, <1>4 DEF LinkRejected, LinkChild, ItemTypes
  <2> QED
    BY <1>2, <2>1, <2>2 DEF Following
<1>5. CASE PublishChild(p)
  <2>1. /\ status'[r] = "queued" /\ UNCHANGED <<item, related>>
        /\ item[InHand(p)] = "queued" /\ related[InHand(p)] = r[2]
    BY <1>0, <1>1, <1>5 DEF PublishChild, HandOK, Goto, ProcTypes, ChildTypes, Holding, HookPcs, rowVars
  <2> QED
    BY <1>1, <1>2, <2>1 DEF Following
<1>6. CASE HookOos(p)
  <2>1. /\ status'[r] = "failed" /\ UNCHANGED <<item, related>>
        /\ item[InHand(p)] = "failed" /\ related[InHand(p)] = r[2]
    BY <1>0, <1>6 DEF HookOos, HandOK, HookPcs, childVars
  <2> QED
    BY <1>1, <1>2, <2>1 DEF Following
<1> QED
  BY <1>3, <1>4, <1>5, <1>6

\* The steps of a process keep FInv.
LEMMA ProcFInv ==
  ASSUME Undisturbed, BInv, CInv, OInv, FInv, NEW p \in Procs, ProcAny(p)
  PROVE  FInv'
PROOF
<1>0. \A q \in Procs : ProcOK(q) /\ HandOK(q) /\ (pc[q] \in Holding => cur[q] \in born)
  BY DEF BInv, FInv, ProcOK, Holding, Linking, HookPcs
<1>00. ~Requeue(p)
  BY Calm
<1>1. ASSUME NEW q \in Procs, q # p
      PROVE  pc'[q] = pc[q] /\ cur'[q] = cur[q] /\ got'[q] = got[q] /\ InHand(q)' = InHand(q)
  BY <1>1, ProcFrame DEF InHand
<1>2. ASSUME NEW q \in Procs
      PROVE  HandOK(q)'
  <2>1. CASE q = p
    BY <2>1, OwnHand
  <2>2. CASE q # p /\ pc[q] \in Holding
    <3>1. cur[q] \in born /\ (pc[p] \in Holding => cur[p] # cur[q])
      BY <1>0, <2>2 DEF FInv, Apart
    <3>2. /\ item'[InHand(q)] = item[InHand(q)] /\ related'[InHand(q)] = related[InHand(q)]
          /\ status'[cur[q]] = status[cur[q]] /\ hook'[cur[q]] = hook[cur[q]]
      BY <3>1, Elsewhere DEF InHand
    <3> QED
      BY <1>0, <1>1, <2>2, <3>2 DEF HandOK
  <2>3. CASE q # p /\ pc[q] \notin Holding
    BY <1>1, <2>3 DEF HandOK, Holding, HookPcs
  <2> QED
    BY <2>1, <2>2, <2>3
<1>3. Apart'
  <2> SUFFICES ASSUME NEW q \in Procs, q # p, pc'[p] \in Holding, pc'[q] \in Holding
               PROVE  cur'[p] # cur'[q]
    BY <1>1 DEF Apart, FInv
  <2>1. pc[q] \in Holding /\ cur'[q] = cur[q] /\ cur[q] \in born
    BY <1>0, <1>1
  <2>2. CASE CreateChild(p)
    <3>1. cur'[p] \notin born
      BY <2>2, TypeGroups DEF CreateChild, Child!Create, BInv, ProcTypes
    <3> QED
      BY <2>1, <3>1
  <2>3. CASE pc[p] \in Holding /\ cur'[p] = cur[p]
    BY <2>1, <2>3 DEF FInv, Apart
  <2> QED
    BY <2>2, <2>3, HoldingMoves
<1>4. ASSUME NEW x \in born', \A q \in Procs : pc'[q] \in Holding => cur'[q] # x
      PROVE  Following(x)'
  <2>1. x \in born
    <3>1. ASSUME x \notin born
          PROVE  FALSE
      <4>1. CreateChild(p) /\ cur'[p] = x
        BY <3>1, NewChild
      <4>2. pc'[p] \in {"link", "reject"}
        BY <4>1, TypeGroups DEF CreateChild, Goto, BInv, ProcTypes
      <4> QED
        BY <1>4, <4>1, <4>2 DEF Holding
    <3> QED
      BY <3>1
  <2>2. CASE pc[p] \in Holding /\ cur[p] = x
    <3>1. ~CreateChild(p)
      BY <2>2 DEF CreateChild, Holding, HookPcs
    <3>2. pc'[p] \notin Holding
      BY <1>4, <2>2, <3>1, HoldingMoves
    <3> QED
      BY <2>2, <3>2, LetGo
  <2>3. CASE pc[p] \in Holding => cur[p] # x
    <3>1. \A q \in Procs : pc[q] \in Holding => cur[q] # x
      BY <1>1, <1>4, <2>3
    <3>2. Following(x)
      BY <2>1, <3>1 DEF FInv
    <3> QED
      BY <2>1, <2>3, <3>2, Elsewhere DEF Following
  <2> QED
    BY <2>2, <2>3
<1>5. ASSUME NEW i \in Items, related'[i] # 0
      PROVE  <<i, related'[i]>> \in born'
  <2>1. born \subseteq born'
    BY ProcRuns DEF childVars
  <2>2. CASE related'[i] = related[i]
    BY <1>5, <2>1, <2>2 DEF FInv
  <2>3. CASE (Link(p) \/ LinkRejected(p)) /\ i = InHand(p) /\ related'[i] = cur[p][2]
    <3>1. cur[p] \in born
      BY <1>0, <2>3 DEF Link, LinkRejected, Holding
    <3>2. cur[p] = <<i, related'[i]>>
      BY <2>3, <3>1, RunNames DEF InHand
    <3> QED
      BY <2>1, <3>1, <3>2
  <2> QED
    BY <1>00, <2>2, <2>3, RelatedMoves
<1> QED
  BY <1>2, <1>3, <1>4, <1>5 DEF FInv

\* The worker of a child starts once the child is published, and the item it
\* writes is that of its child alone.
LEMMA ChildFInv ==
  ASSUME Undisturbed, BInv, CInv, OInv, FInv, NEW r \in ChildRuns, ChildAny(r)
  PROVE  FInv'
PROOF
<1>0. /\ \A q \in Procs : ProcOK(q) /\ HandOK(q) /\ (pc[q] \in Holding => cur[q] \in born)
      /\ ChildTypes /\ ItemTypes
  BY TypeGroups DEF BInv, FInv, ProcOK, Holding, Linking, HookPcs
<1>1. UNCHANGED <<procVars, born, related>> /\ r \in born
  BY ChildFrame
<1>2. ~ChildCrash(r) /\ ~ChildReconciled(r)
  BY Calm
<1>3. ASSUME NEW q \in Procs, pc[q] \in Holding
      PROVE  cur[q] # r
  <2>1. hook[cur[q]] = "none" /\ status[cur[q]] \in {"created", "failed"}
    BY <1>0, <1>3 DEF HandOK, CInv, Holding, Linking, HookPcs
  <2> QED
    BY <1>2, <2>1 DEF ChildAny, ChildStep, ChildStart, ChildRead, ChildWrite, ChildOos, ChildEnd, ChildKilled
<1>4. Following(r)
  BY <1>1, <1>3 DEF FInv
<1>5. ASSUME NEW x \in born, x # r
      PROVE  /\ item'[ItemOf(x)] = item[ItemOf(x)]
             /\ status'[x] = status[x] /\ hook'[x] = hook[x] /\ seen'[x] = seen[x]
  <2>1. ItemOf(x) # ItemOf(r) /\ ItemOf(x) \in Items /\ x \in ChildRuns
    BY <1>1, <1>5, RunNames DEF OInv
  <2> QED
    BY <1>5, <2>1, ChildFrame, ChildItemMoves
<1>6. Following(r)'
  <2>0. ItemOf(r) \in Items
    BY <1>1, RunNames
  <2>1. CASE ChildStart(r)
    <3>1. status'[r] = "running" /\ hook'[r] = "startRead" /\ related' = related
      BY <1>0, <1>1, <2>1 DEF ChildStart, Child!Progress, At, ChildTypes
    <3> QED
      BY <1>4, <3>1 DEF Following
  <2>2. CASE ChildRead(r)
    <3>1. /\ hook'[r] \in {"startWrite", "endWrite"} /\ seen'[r] = status[r] /\ status' = status
          /\ related' = related
      BY <1>0, <1>1, <2>2 DEF ChildRead, ChildTypes, childVars
    <3> QED
      BY <1>4, <3>1 DEF Following
  <2>3. CASE ChildWrite(r)
    <3>1. /\ hook'[r] \in {"startOos", "endOos"} /\ status' = status /\ related' = related
          /\ seen[r] = status[r]
      BY <1>0, <1>1, <1>4, <2>3 DEF ChildWrite, At, ChildTypes, childVars, Following
    <3>2. item'[ItemOf(r)] = ItemStatus(status[r])
      BY <1>0, <2>0, <2>3, <3>1 DEF ChildWrite, WriteItem, ItemTypes
    <3>3. ItemStatus(status[r]) = status[r]
      BY <1>4 DEF Following, ItemStatus, TERMINAL
    <3> QED
      BY <1>4, <3>1, <3>2, <3>3 DEF Following
  <2>4. CASE ChildOos(r)
    <3>1. /\ hook[r] \in {"startOos", "endOos"} /\ hook'[r] \in {"execute", "none"}
          /\ UNCHANGED <<status, item, related>>
      BY <1>0, <2>4 DEF ChildOos, ChildTypes, childVars
    <3> QED
      BY <1>4, <3>1 DEF Following
  <2>5. CASE ChildEnd(r)
    <3>1. hook'[r] = "endRead" /\ status'[r] \in {"success", "failed"} /\ related' = related
      BY <1>0, <1>1, <1>4, <2>5 DEF ChildEnd, At, ChildTypes, Child!End, Following
    <3> QED
      BY <1>4, <3>1 DEF Following
  <2>6. ~ChildKilled(r)
    BY <1>4 DEF ChildKilled, Following
  <2> QED
    BY <1>2, <2>1, <2>2, <2>3, <2>4, <2>5, <2>6 DEF ChildAny, ChildStep
<1>7. ASSUME NEW q \in Procs
      PROVE  HandOK(q)'
  <2>1. CASE pc[q] \in Holding
    <3>1. cur[q] \in born /\ cur[q] # r
      BY <1>0, <1>3, <2>1
    <3>2. /\ item'[InHand(q)] = item[InHand(q)]
          /\ status'[cur[q]] = status[cur[q]] /\ hook'[cur[q]] = hook[cur[q]]
      BY <1>5, <3>1 DEF InHand
    <3> QED
      BY <1>0, <1>1, <3>2 DEF HandOK, procVars, InHand
  <2>2. CASE pc[q] \notin Holding
    BY <1>1, <2>2 DEF HandOK, Holding, HookPcs, procVars
  <2> QED
    BY <2>1, <2>2
<1>8. ASSUME NEW x \in born, \A q \in Procs : pc[q] \in Holding => cur[q] # x
      PROVE  Following(x)'
  <2>1. CASE x = r
    BY <1>6, <2>1
  <2>2. CASE x # r
    <3>1. Following(x)
      BY <1>8 DEF FInv
    <3> QED
      BY <1>1, <1>5, <2>2, <3>1 DEF Following
  <2> QED
    BY <2>1, <2>2
<1>9. Apart' /\ \A i \in Items : related'[i] # 0 => <<i, related'[i]>> \in born'
  BY <1>1 DEF FInv, Apart, procVars
<1> QED
  BY <1>1, <1>7, <1>8, <1>9 DEF FInv, procVars

\* As long as the user only looks and nobody is lost, an item that nobody is about
\* to write has the status of its child: the inline hook of a refused publication
\* and the two hooks of the worker never leave a stale status behind.
THEOREM ItemsFollow ==
  ASSUME Undisturbed
  PROVE  Spec => []ItemFollowsChild
PROOF
<1>0. NoCancel /\ NoRequeue
  BY DEF Undisturbed, NoCancel, NoRequeue
<1>1. Init => CInv /\ FInv
  BY DEF Init, CInv, FInv, HandOK, Apart, Holding, HookPcs, Linking, Child!Init
<1>2. BInv /\ CInv /\ [Next]_vars => CInv'
  BY <1>0, NextCInv
<1>3. BInv /\ CInv /\ OInv /\ FInv /\ [Next]_vars => FInv'
  <2>1. ASSUME BInv, CInv, OInv, FInv, UNCHANGED vars
        PROVE  FInv'
    BY <2>1 DEF FInv, HandOK, Apart, Following, InHand, vars, rowVars, childVars, hookVars, procVars
  <2> QED
    BY <2>1, ProcFInv, ChildFInv, NextCases
<1>4. BInv /\ FInv => ItemFollowsChild
  <2> SUFFICES ASSUME BInv, FInv, NEW i \in Items, ItemAtRest(i), related[i] # 0
               PROVE  item[i] = status[<<i, related[i]>>]
    BY DEF ItemFollowsChild
  <2> DEFINE r == <<i, related[i]>>
  <2>1. r \in born /\ r \in ChildRuns /\ ItemOf(r) = i
    BY RunNames DEF FInv, ItemOf
  <2>2. \A p \in Procs : cur[p] # r
    BY DEF ItemAtRest
  <2>3. Following(r) /\ hook[r] = "none"
    BY <2>1, <2>2 DEF FInv, ItemAtRest
  <2> QED
    BY <2>1, <2>3 DEF Following
<1> QED
  BY <1>0, <1>1, <1>2, <1>3, <1>4, AlwaysBInv, AlwaysOInv, PTL DEF Spec

=============================================================================
