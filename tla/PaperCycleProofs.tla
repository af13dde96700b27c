--------------------------- MODULE PaperCycleProofs ---------------------------
(***************************************************************************)
(* What TLAPS proves of PaperCycle, for every set of deployments, dates,   *)
(* workers and disturbances.                                               *)
(***************************************************************************)
EXTENDS PaperCycle, FiniteSetTheorems, WellFoundedInduction, TLAPS

\* The status column alone: all the theorem below needs of TypeOK.
StatusType == status \in [Cycles -> CYCLE_STATES \cup {"absent"}]

\* An accounted day: its cycle succeeded, or the exchange was closed.
Accounted(c) == status[c] \in {"succeeded", "skipped"}

AccountedKept == \A c \in Cycles : Accounted(c) => status'[c] = status[c]

\* A conditional transition to a known status from states that are not final
\* neither leaves the type nor touches an accounted day (transition_cycle).
LEMMA TransitionKeeps ==
  ASSUME StatusType, NEW c, NEW to \in CYCLE_STATES, NEW expected,
         "succeeded" \notin expected, "skipped" \notin expected,
         transition_cycle(c, to, expected)
  PROVE  StatusType' /\ AccountedKept
BY DEF StatusType, AccountedKept, Accounted, transition_cycle

\* The same for the insertion of a row (ensure_cycle).
LEMMA EnsureKeeps ==
  ASSUME StatusType, NEW c, ensure_cycle(c)
  PROVE  StatusType' /\ AccountedKept
BY DEF StatusType, AccountedKept, Accounted, ensure_cycle, CYCLE_STATES

\* A step that leaves the column alone.
LEMMA FrameKeeps ==
  ASSUME StatusType, UNCHANGED status
  PROVE  StatusType' /\ AccountedKept
BY DEF StatusType, AccountedKept

\* The granted claim starts from a claimable row only (claim_cycle_for_worker).
LEMMA ClaimKeeps ==
  ASSUME StatusType, NEW w, NEW c, claim_cycle_for_worker(w, c)
  PROVE  StatusType' /\ AccountedKept
<1>1. CASE UNCHANGED status
  BY <1>1, FrameKeeps
<1>2. CASE /\ status[c] \in CLAIMABLE_CYCLE_STATES
           /\ status' = [status EXCEPT ![c] = "running"]
  BY <1>2 DEF StatusType, AccountedKept, Accounted, CLAIMABLE_CYCLE_STATES, CYCLE_STATES
<1> QED
  BY <1>1, <1>2 DEF claim_cycle_for_worker

\* The dispatchers: run_now and schedule_due_deployments up to the message.
LEMMA ClientKeeps ==
  ASSUME StatusType, NEW c,
         \/ run_now(c) \/ schedule_due_deployment(c) \/ ClientStep(c) \/ ClientCrash(c)
  PROVE  StatusType' /\ AccountedKept
<1>1. CASE run_now(c) \/ schedule_due_deployment(c)
  BY <1>1, EnsureKeeps DEF run_now, schedule_due_deployment
<1>2. "succeeded" \notin DispatchFrom(c) /\ "skipped" \notin DispatchFrom(c)
  BY DEF DispatchFrom
<1>3. CASE SkipClosedDate(c)
  <2>1. /\ "skipped" \in CYCLE_STATES
        /\ "succeeded" \notin DispatchFrom(c) \ {"failed"}
        /\ "skipped" \notin DispatchFrom(c) \ {"failed"}
    BY <1>2 DEF CYCLE_STATES
  <2>2. transition_cycle(c, "skipped", DispatchFrom(c) \ {"failed"})
    BY <1>3 DEF SkipClosedDate
  <2> QED
    BY <2>1, <2>2, TransitionKeeps
<1>4. CASE QueueCycle(c)
  <2>1. "queued" \in CYCLE_STATES
    BY DEF CYCLE_STATES
  <2>2. transition_cycle(c, "queued", DispatchFrom(c))
    BY <1>4 DEF QueueCycle
  <2> QED
    BY <1>2, <2>1, <2>2, TransitionKeeps
<1>5. CASE PublishCycle(c) \/ ClientCrash(c)
  BY <1>5, FrameKeeps DEF PublishCycle, ClientCrash
<1> QED
  BY <1>1, <1>3, <1>4, <1>5 DEF ClientStep

\* The steps of a worker: begin_cycle, finalize_cycle, fail_cycle and the
\* recovery, with the expected states each of them names.
LEMMA WorkerKeeps ==
  ASSUME StatusType, NEW w, WorkerStep(w)
  PROVE  StatusType' /\ AccountedKept
<1>1. CASE BeginCycle(w)
  <2>1. /\ "running" \in CYCLE_STATES
        /\ "succeeded" \notin CLAIMABLE_CYCLE_STATES
        /\ "skipped" \notin CLAIMABLE_CYCLE_STATES
    BY DEF CYCLE_STATES, CLAIMABLE_CYCLE_STATES
  <2>2. transition_cycle(job[w], "running", CLAIMABLE_CYCLE_STATES)
    BY <1>1 DEF BeginCycle
  <2> QED
    BY <2>1, <2>2, TransitionKeeps
<1>2. CASE YieldCycle(w)
  <2>1. "waiting_data" \in CYCLE_STATES
    BY DEF CYCLE_STATES
  <2>2. transition_cycle(job[w], "waiting_data", {"running"})
    BY <1>2 DEF YieldCycle
  <2> QED
    BY <2>1, <2>2, TransitionKeeps
<1>3. CASE FinMark(w)
  <2>1. "finalizing" \in CYCLE_STATES
    BY DEF CYCLE_STATES
  <2>2. transition_cycle(job[w], "finalizing", {"running", "queued"})
    BY <1>3 DEF FinMark
  <2> QED
    BY <2>1, <2>2, TransitionKeeps
<1>4. CASE FinSucceed(w)
  <2>1. "succeeded" \in CYCLE_STATES
    BY DEF CYCLE_STATES
  <2>2. transition_cycle(job[w], "succeeded", {"finalizing"})
    BY <1>4 DEF FinSucceed
  <2> QED
    BY <2>1, <2>2, TransitionKeeps
<1>5. CASE FailRow(w)
  <2>1. /\ "failed" \in CYCLE_STATES
        /\ "succeeded" \notin CYCLE_STATES \ TERMINAL_CYCLE_STATES
        /\ "skipped" \notin CYCLE_STATES \ TERMINAL_CYCLE_STATES
    BY DEF CYCLE_STATES, TERMINAL_CYCLE_STATES
  <2>2. transition_cycle(job[w], "failed", CYCLE_STATES \ TERMINAL_CYCLE_STATES)
    BY <1>5 DEF FailRow
  <2> QED
    BY <2>1, <2>2, TransitionKeeps
<1>6. CASE \/ BusyCheck(w) \/ create_walkforward_run(w) \/ StorePaperRun(w) \/ DispatchChain(w)
           \/ FinRead(w) \/ FinCheck(w) \/ FinAdvance(w) \/ FailCount(w)
           \/ RecoverDecide(w) \/ RecoverRun(w) \/ fail_walkforward_run(w)
  <2>1. UNCHANGED status
    BY <1>6 DEF BusyCheck, create_walkforward_run, StorePaperRun, DispatchChain, FinRead,
                FinCheck, FinAdvance, FailCount, RecoverDecide, RecoverRun,
                fail_walkforward_run
  <2> QED
    BY <2>1, FrameKeeps
<1> QED
  BY <1>1, <1>2, <1>3, <1>4, <1>5, <1>6 DEF WorkerStep

\* Every step of the system.
LEMMA StatusStep ==
  ASSUME StatusType, [Next]_vars
  PROVE  StatusType' /\ AccountedKept
<1>1. CASE \E c \in Cycles :
             run_now(c) \/ schedule_due_deployment(c) \/ ClientStep(c) \/ ClientCrash(c)
  BY <1>1, ClientKeeps
<1>2. CASE \E w \in Workers, c \in Cycles : Deliver(w, c)
  <2>1. PICK w \in Workers, c \in Cycles : Deliver(w, c)
    BY <1>2
  <2>2. CASE claim_cycle_for_worker(w, c)
    BY <2>2, ClaimKeeps
  <2>3. CASE FinalizeStart(w, c) \/ FailStart(w, c)
    BY <2>3, FrameKeeps DEF FinalizeStart, FailStart
  <2> QED
    BY <2>1, <2>2, <2>3 DEF Deliver
<1>3. CASE \E w \in Workers : WorkerStep(w) \/ Crash(w)
  <2>1. PICK w \in Workers : WorkerStep(w) \/ Crash(w)
    BY <1>3
  <2>2. CASE WorkerStep(w)
    BY <2>2, WorkerKeeps
  <2>3. CASE Crash(w)
    BY <2>3, FrameKeeps DEF Crash
  <2> QED
    BY <2>1, <2>2, <2>3
<1>4. CASE \E c \in Cycles : ChainStep(c) \/ RunnerEnds(c) \/ MarkLost(c) \/ Recovery(c)
  <2>1. PICK c \in Cycles : ChainStep(c) \/ RunnerEnds(c) \/ MarkLost(c) \/ Recovery(c)
    BY <1>4
  <2>2. CASE ChainStep(c)
    <3>1. UNCHANGED status
      BY <2>2 DEF ChainStep, mark_walkforward_running, LeanEnds, LeanRaises, FinalizeRun,
                  FinalizeRunRaises
    <3> QED
      BY <3>1, FrameKeeps
  <2>3. CASE RunnerEnds(c) \/ MarkLost(c) \/ Recovery(c)
    <3>1. UNCHANGED status
      BY <2>3 DEF RunnerEnds, MarkLost, Recovery, recover_stale_queued_dispatch,
                  recover_paper_finalization, RecoverPick
    <3> QED
      BY <3>1, FrameKeeps
  <2> QED
    BY <2>1, <2>2, <2>3
<1>5. CASE \E c \in Cycles, t \in Redelivered : Redeliver(c, t)
  BY <1>5, FrameKeeps DEF Redeliver
<1>6. CASE UNCHANGED vars
  BY <1>6, FrameKeeps DEF vars
<1> QED
  BY <1>1, <1>2, <1>3, <1>4, <1>5, <1>6 DEF Next

\* No duplicate delivery, late errback, retry or recovery ever touches a cycle
\* that succeeded or was skipped, with any number of workers, messages and
\* faults.
THEOREM AccountedDaysStay == Spec => SucceededForever
<1>1. Init => StatusType
  BY DEF Init, StatusType
<1>2. StatusType /\ [Next]_vars => StatusType'
  BY StatusStep
<1>3. StatusType /\ [Next]_vars =>
        [\A c \in Cycles : status[c] \in {"succeeded", "skipped"} => status'[c] = status[c]]_vars
  BY StatusStep DEF AccountedKept, Accounted
<1> QED
  BY <1>1, <1>2, <1>3, PTL DEF Spec, SucceededForever

(***************************************************************************)
(* Types.                                                                  *)
(***************************************************************************)
RowTypes ==
  /\ status \in [Cycles -> CYCLE_STATES \cup {"absent"}]
  /\ attempt \in [Cycles -> Nat] /\ stored \in [Cycles -> BOOLEAN]
  /\ client \in [Cycles -> {"none", "user", "beat", "publish"}] /\ faults \in Nat
RunTypes ==
  /\ prun \in [Cycles -> {"none", "queued", "running", "success", "failed"}]
  /\ child \in [Cycles -> {"none", "active", "success", "failed"}]
  /\ runner \in [Cycles -> {"none", "success", "failed"}]
DepTypes ==
  /\ dep \in [Deployments -> {"active", "error"}] /\ failures \in [Deployments -> 0 .. 3]
  /\ last \in [Deployments -> Dates \cup {0}] /\ processed \in [Deployments -> Dates \cup {0}]
MsgTypes == msgs \in [Cycles -> [Tasks -> Nat]]
ProcTypes ==
  /\ pc \in [Workers -> CyclePcs] /\ job \in [Workers -> Cycles \cup {NoCycle}]
  /\ task \in [Workers -> Tasks \cup {"beat", "none"}] /\ seen \in [Workers -> BOOLEAN]
  /\ \A w \in Workers : IF pc[w] = "idle" THEN job[w] = NoCycle ELSE job[w] \in Cycles

\* TypeOK, and exactly the workers that are not idle have a cycle in hand.
TInv == RowTypes /\ RunTypes /\ DepTypes /\ MsgTypes /\ ProcTypes

\* The groups make up the type invariant.
LEMMA TypeGroups == TInv => TypeOK
PROOF BY DEF TInv, RowTypes, RunTypes, DepTypes, MsgTypes, ProcTypes, TypeOK

\* A cycle is a deployment and a date.
LEMMA CycleParts ==
  ASSUME NEW c \in Cycles
  PROVE  /\ DeploymentOf(c) \in Deployments /\ DateOf(c) \in Dates
         /\ c = <<DeploymentOf(c), DateOf(c)>>
PROOF BY DEF Cycles, DeploymentOf, DateOf

\* What the broker holds after a message is added, taken, or taken and followed
\* by another one.
LEMMA PutIs ==
  ASSUME MsgTypes, NEW c \in Cycles, NEW t \in Tasks, Put(c, t)
  PROVE  /\ MsgTypes'
         /\ \A e \in Cycles : e # c => msgs'[e] = msgs[e]
         /\ \A u \in Tasks : msgs'[c][u] = IF u = t THEN msgs[c][u] + 1 ELSE msgs[c][u]
PROOF
<1>1. msgs' = [msgs EXCEPT ![c] = [msgs[c] EXCEPT ![t] = msgs[c][t] + 1]]
  BY DEF Put
<1>2. msgs[c] \in [Tasks -> Nat]
  BY DEF MsgTypes
<1>3. [msgs[c] EXCEPT ![t] = msgs[c][t] + 1] \in [Tasks -> Nat]
  BY <1>2
<1>4. msgs'[c] = [msgs[c] EXCEPT ![t] = msgs[c][t] + 1]
  BY <1>1 DEF MsgTypes
<1> QED
  BY <1>1, <1>2, <1>3, <1>4 DEF MsgTypes

\* Taking a message changes one counter.
LEMMA TakeIs ==
  ASSUME MsgTypes, NEW c \in Cycles, NEW t \in Tasks, Take(c, t)
  PROVE  /\ MsgTypes' /\ msgs[c][t] > 0
         /\ \A e \in Cycles : e # c => msgs'[e] = msgs[e]
         /\ \A u \in Tasks : msgs'[c][u] = IF u = t THEN msgs[c][u] - 1 ELSE msgs[c][u]
PROOF
<1>1. msgs[c][t] > 0 /\ msgs' = [msgs EXCEPT ![c] = [msgs[c] EXCEPT ![t] = msgs[c][t] - 1]]
  BY DEF Take
<1>2. msgs[c] \in [Tasks -> Nat]
  BY DEF MsgTypes
<1>3. [msgs[c] EXCEPT ![t] = msgs[c][t] - 1] \in [Tasks -> Nat]
  BY <1>1, <1>2
<1>4. msgs'[c] = [msgs[c] EXCEPT ![t] = msgs[c][t] - 1]
  BY <1>1 DEF MsgTypes
<1> QED
  BY <1>1, <1>2, <1>3, <1>4 DEF MsgTypes

\* Passing from one task to the next changes two.
LEMMA PassIs ==
  ASSUME MsgTypes, NEW c \in Cycles, NEW t \in Tasks, NEW v \in Tasks, t # v, Pass(c, t, v)
  PROVE  /\ MsgTypes' /\ msgs[c][t] > 0
         /\ \A e \in Cycles : e # c => msgs'[e] = msgs[e]
         /\ \A u \in Tasks : msgs'[c][u] = IF u = t THEN msgs[c][u] - 1
                                           ELSE IF u = v THEN msgs[c][u] + 1 ELSE msgs[c][u]
PROOF
<1> DEFINE m == [msgs[c] EXCEPT ![t] = msgs[c][t] - 1]
<1> DEFINE n == [m EXCEPT ![v] = m[v] + 1]
<1>1. msgs[c] \in [Tasks -> Nat] /\ msgs[c][t] > 0
  BY DEF MsgTypes, Pass
<1>2. m \in [Tasks -> Nat] /\ \A u \in Tasks : m[u] = IF u = t THEN msgs[c][u] - 1 ELSE msgs[c][u]
  BY <1>1
<1> HIDE DEF m
<1>3. n \in [Tasks -> Nat] /\ \A u \in Tasks : n[u] = IF u = v THEN m[u] + 1 ELSE m[u]
  BY <1>2
<1>4. msgs' = [msgs EXCEPT ![c] = n]
  BY DEF Pass, MsgTypes, m
<1> HIDE DEF n
<1> QED
  BY <1>1, <1>2, <1>3, <1>4 DEF MsgTypes

\* The LEAN messages of the run that is replaced become those of an old one.
Renamed(c) ==
  msgs' = [msgs EXCEPT ![c]["oldLean"] = @ + msgs[c]["lean"], ![c]["lean"] = 0,
                       ![c]["oldRelean"] = @ + msgs[c]["relean"], ![c]["relean"] = 0]

\* The counters after it.
LEMMA RenamedIs ==
  ASSUME MsgTypes, NEW c \in Cycles, Renamed(c)
  PROVE  /\ MsgTypes'
         /\ \A e \in Cycles : e # c => msgs'[e] = msgs[e]
         /\ \A u \in Tasks :
              msgs'[c][u] = IF u \in {"lean", "relean"} THEN 0
                            ELSE IF u = "oldLean" THEN msgs[c][u] + msgs[c]["lean"]
                            ELSE IF u = "oldRelean" THEN msgs[c][u] + msgs[c]["relean"]
                            ELSE msgs[c][u]
PROOF
<1> DEFINE m == [msgs[c] EXCEPT !["oldLean"] = msgs[c]["oldLean"] + msgs[c]["lean"]]
<1> DEFINE n == [m EXCEPT !["lean"] = 0]
<1> DEFINE o == [n EXCEPT !["oldRelean"] = n["oldRelean"] + msgs[c]["relean"]]
<1> DEFINE q == [o EXCEPT !["relean"] = 0]
<1>0. {"lean", "relean", "oldLean", "oldRelean"} \subseteq Tasks
  BY DEF Tasks
<1>1. msgs[c] \in [Tasks -> Nat]
  BY DEF MsgTypes
<1>2. /\ m \in [Tasks -> Nat]
      /\ \A u \in Tasks : m[u] = IF u = "oldLean" THEN msgs[c][u] + msgs[c]["lean"] ELSE msgs[c][u]
  BY <1>0, <1>1
<1> HIDE DEF m
<1>3. n \in [Tasks -> Nat] /\ \A u \in Tasks : n[u] = IF u = "lean" THEN 0 ELSE m[u]
  BY <1>0, <1>2
<1> HIDE DEF n
<1>4. /\ o \in [Tasks -> Nat]
      /\ \A u \in Tasks : o[u] = IF u = "oldRelean" THEN n[u] + msgs[c]["relean"] ELSE n[u]
  BY <1>0, <1>1, <1>3
<1> HIDE DEF o
<1>5. q \in [Tasks -> Nat] /\ \A u \in Tasks : q[u] = IF u = "relean" THEN 0 ELSE o[u]
  BY <1>0, <1>4
<1>6. msgs' = [msgs EXCEPT ![c] = q]
  BY DEF Renamed, MsgTypes, m, n, o
<1> HIDE DEF q
<1>7. msgs' \in [Cycles -> [Tasks -> Nat]] /\ msgs'[c] = q /\ \A e \in Cycles : e # c => msgs'[e] = msgs[e]
  BY <1>5, <1>6 DEF MsgTypes
<1>8. ASSUME NEW u \in Tasks
      PROVE  msgs'[c][u] = IF u \in {"lean", "relean"} THEN 0
                            ELSE IF u = "oldLean" THEN msgs[c][u] + msgs[c]["lean"]
                            ELSE IF u = "oldRelean" THEN msgs[c][u] + msgs[c]["relean"]
                            ELSE msgs[c][u]
  BY <1>2, <1>3, <1>4, <1>5, <1>7
<1> QED
  BY <1>7, <1>8 DEF MsgTypes

\* A lost worker gives the message of a late task back.
LEMMA CrashIs ==
  ASSUME MsgTypes, NEW w \in Workers, job[w] \in Cycles, Crash(w)
  PROVE  /\ MsgTypes'
         /\ \A e \in Cycles : e # job[w] => msgs'[e] = msgs[e]
         /\ \A u \in Tasks : msgs'[job[w]][u] =
              IF u = task[w] /\ u \in LateTasks THEN msgs[job[w]][u] + 1 ELSE msgs[job[w]][u]
PROOF
<1> DEFINE m == [t \in Tasks |-> msgs[job[w]][t] + (IF t \in Returned(w) THEN 1 ELSE 0)]
<1>1. msgs[job[w]] \in [Tasks -> Nat]
  BY DEF MsgTypes
<1>2. /\ m \in [Tasks -> Nat]
      /\ \A u \in Tasks : m[u] = IF u = task[w] /\ u \in LateTasks THEN msgs[job[w]][u] + 1
                                 ELSE msgs[job[w]][u]
  BY <1>1 DEF Returned
<1>3. msgs' = [msgs EXCEPT ![job[w]] = m]
  BY DEF Crash
<1> HIDE DEF m
<1> QED
  BY <1>1, <1>2, <1>3 DEF MsgTypes

\* The kinds of steps, by the actor that takes them.
ClientAny(c) ==
  \/ run_now(c) \/ schedule_due_deployment(c)
  \/ SkipClosedDate(c) \/ QueueCycle(c) \/ PublishCycle(c) \/ ClientCrash(c)
TakesUp(w, c) ==
  claim_cycle_for_worker(w, c) \/ FinalizeStart(w, c) \/ FailStart(w, c) \/ RecoverPick(w, c)
ChainAny(c) ==
  \/ mark_walkforward_running(c) \/ (\E t \in DOMAIN NextTask : LeanEnds(c, t)) \/ LeanRaises(c)
  \/ FinalizeRun(c) \/ FinalizeRunRaises(c) \/ RunnerEnds(c) \/ MarkLost(c)
  \/ recover_stale_queued_dispatch(c) \/ recover_paper_finalization(c)
  \/ \E t \in Redelivered : Redeliver(c, t)

\* A step is one of a client, of a worker that begins, goes on or is lost, or of the chain.
LEMMA NextCases ==
  ASSUME [Next]_vars
  PROVE  \/ \E c \in Cycles : ClientAny(c)
         \/ \E w \in Workers, c \in Cycles : TakesUp(w, c)
         \/ \E w \in Workers : WorkerStep(w)
         \/ \E w \in Workers : Crash(w)
         \/ \E c \in Cycles : ChainAny(c)
         \/ UNCHANGED vars
PROOF
<1>1. CASE \E c \in Cycles : ChainStep(c) \/ RunnerEnds(c) \/ MarkLost(c) \/ Recovery(c)
  BY <1>1 DEF ChainStep, Recovery, ChainAny, TakesUp
<1>2. CASE \E c \in Cycles :
             run_now(c) \/ schedule_due_deployment(c) \/ ClientStep(c) \/ ClientCrash(c)
  BY <1>2 DEF ClientStep, ClientAny
<1>3. CASE \E w \in Workers, c \in Cycles : Deliver(w, c)
  BY <1>3 DEF Deliver, TakesUp
<1>4. CASE \E c \in Cycles, t \in Redelivered : Redeliver(c, t)
  BY <1>4 DEF ChainAny
<1> QED
  BY <1>1, <1>2, <1>3, <1>4 DEF Next

\* Clients write the cycle's row, the broker and their own state only.
LEMMA ClientTypes ==
  ASSUME TInv, NEW c \in Cycles, ClientAny(c)
  PROVE  /\ attempt' = attempt /\ stored' = stored /\ faults' \in Nat /\ MsgTypes'
         /\ client' \in [Cycles -> {"none", "user", "beat", "publish"}]
         /\ UNCHANGED <<runVars, depVars, procVars>>
         /\ msgs' = msgs \/ Put(c, "run")
PROOF
<1>0. faults \in Nat /\ client \in [Cycles -> {"none", "user", "beat", "publish"}]
  BY DEF TInv, RowTypes
<1>1. CASE PublishCycle(c)
  <2>1. "run" \in Tasks
    BY DEF Tasks
  <2> QED
    BY <1>0, <1>1, <2>1, PutIs DEF PublishCycle, TInv
<1>2. CASE run_now(c) \/ ClientCrash(c)
  BY <1>0, <1>2 DEF run_now, ClientCrash, Fault, TInv, MsgTypes
<1>3. CASE schedule_due_deployment(c) \/ SkipClosedDate(c) \/ QueueCycle(c)
  BY <1>0, <1>3 DEF schedule_due_deployment, SkipClosedDate, QueueCycle, TInv, MsgTypes
<1> QED
  BY <1>1, <1>2, <1>3 DEF ClientAny

\* The chain writes the run, the broker and the date of the session only.
LEMMA ChainTypes ==
  ASSUME TInv, NEW c \in Cycles, ChainAny(c)
  PROVE  /\ UNCHANGED <<status, attempt, stored, client, dep, failures, last, procVars>>
         /\ faults' \in Nat /\ MsgTypes' /\ RunTypes' /\ DepTypes'
         /\ \A e \in Cycles : e # c => /\ msgs'[e] = msgs[e] /\ prun'[e] = prun[e]
                                       /\ child'[e] = child[e] /\ runner'[e] = runner[e]
PROOF
<1> USE DEF TInv
<1>0. {"run", "mark", "lean", "finalizeRun", "finalizeCycle", "relean", "refinalize",
       "oldLean", "oldRelean", "fail"} \subseteq Tasks /\ Redelivered \subseteq Tasks
  BY CycleFaultsAssumption DEF Tasks, LateTasks
<1>1. CASE mark_walkforward_running(c)
  BY <1>0, <1>1, PassIs DEF mark_walkforward_running, RunTypes, DepTypes, RowTypes, depVars
<1>2. CASE \E t \in DOMAIN NextTask : LeanEnds(c, t)
  <2>1. PICK t \in DOMAIN NextTask : LeanEnds(c, t)
    BY <1>2
  <2>2. t \in Tasks /\ NextTask[t] \in Tasks /\ t # NextTask[t]
    BY <1>0 DEF NextTask
  <2>3. /\ UNCHANGED <<status, attempt, stored, prun, runner, depVars, client, procVars, faults>>
        /\ Pass(c, t, NextTask[t])
    BY <2>1 DEF LeanEnds
  <2>4. child' = child \/ \E o \in ChildOutcomes(c) : child' = [child EXCEPT ![c] = o]
    BY <2>1 DEF LeanEnds
  <2>5. ChildOutcomes(c) \subseteq {"none", "active", "success", "failed"}
    BY DEF ChildOutcomes, RunTypes
  <2>6. RunTypes' /\ \A e \in Cycles : e # c => child'[e] = child[e]
    BY <2>3, <2>4, <2>5 DEF RunTypes
  <2>7. /\ MsgTypes' /\ \A e \in Cycles : e # c => msgs'[e] = msgs[e]
    BY <2>2, <2>3, PassIs
  <2> QED
    BY <2>3, <2>6, <2>7 DEF DepTypes, RowTypes, depVars
<1>3. CASE LeanRaises(c)
  BY <1>0, <1>3, PassIs DEF LeanRaises, RunTypes, DepTypes, RowTypes, depVars, runVars
<1>4. CASE FinalizeRun(c)
  <2>1. MsgTypes' /\ \A e \in Cycles : e # c => msgs'[e] = msgs[e]
    BY <1>0, <1>4, PassIs, TakeIs DEF FinalizeRun
  <2>2. PICK o \in FinalizedRun(c) :
          /\ prun' = [prun EXCEPT ![c] = o]
          /\ processed' = [processed EXCEPT ![DeploymentOf(c)] =
                             IF o = "success" /\ prun[c] # "success" THEN DateOf(c) ELSE @]
    BY <1>4 DEF FinalizeRun, finalize_walkforward_run
  <2>3. o \in {"success", "failed"}
    BY DEF FinalizedRun
  <2>4. UNCHANGED <<status, attempt, stored, child, runner, dep, failures, last, client, procVars,
                    faults>>
    BY <1>4 DEF FinalizeRun
  <2>5. RunTypes' /\ \A e \in Cycles : e # c => prun'[e] = prun[e]
    BY <2>2, <2>3, <2>4 DEF RunTypes
  <2>6. DepTypes'
    BY <2>2, <2>4, CycleParts DEF DepTypes
  <2> QED
    BY <2>1, <2>4, <2>5, <2>6 DEF RowTypes
<1>5. CASE FinalizeRunRaises(c)
  <2>1. MsgTypes' /\ \A e \in Cycles : e # c => msgs'[e] = msgs[e]
    BY <1>0, <1>5, PassIs, TakeIs DEF FinalizeRunRaises
  <2> QED
    BY <1>5, <2>1 DEF FinalizeRunRaises, RunTypes, DepTypes, RowTypes, depVars, runVars
<1>6. CASE RunnerEnds(c)
  BY <1>6 DEF RunnerEnds, RunTypes, DepTypes, RowTypes, depVars, MsgTypes
<1>7. CASE MarkLost(c)
  BY <1>0, <1>7, TakeIs DEF MarkLost, Fault, RunTypes, DepTypes, RowTypes, depVars, runVars
<1>8. CASE recover_stale_queued_dispatch(c) \/ recover_paper_finalization(c)
  <2>1. MsgTypes' /\ \A e \in Cycles : e # c => msgs'[e] = msgs[e]
    BY <1>0, <1>8, PutIs DEF recover_stale_queued_dispatch, recover_paper_finalization
  <2> QED
    BY <1>8, <2>1 DEF recover_stale_queued_dispatch, recover_paper_finalization,
                      RunTypes, DepTypes, RowTypes, depVars, runVars
<1>9. CASE \E t \in Redelivered : Redeliver(c, t)
  BY <1>0, <1>9, PutIs DEF Redeliver, Fault, RunTypes, DepTypes, RowTypes, depVars, runVars
<1> QED
  BY <1>1, <1>2, <1>3, <1>4, <1>5, <1>6, <1>7, <1>8, <1>9 DEF ChainAny

\* What is written of other cycles and of other workers: nothing.
OthersKept(c) ==
  \A e \in Cycles : e # c => /\ status'[e] = status[e] /\ stored'[e] = stored[e]
                             /\ prun'[e] = prun[e] /\ child'[e] = child[e]
                             /\ runner'[e] = runner[e] /\ msgs'[e] = msgs[e]
WorkersKept(w) ==
  \A v \in Workers : v # w => /\ pc'[v] = pc[v] /\ job'[v] = job[v]
                              /\ task'[v] = task[v] /\ seen'[v] = seen[v]

BusyPcs == CyclePcs \ {"idle"}

\* A jump keeps the workers in range.
LEMMA GotoTypes ==
  ASSUME ProcTypes, NEW w \in Workers, NEW l \in BusyPcs, pc[w] # "idle", Goto(w, l)
  PROVE  ProcTypes' /\ WorkersKept(w) /\ pc'[w] = l /\ job'[w] = job[w] /\ seen'[w] = seen[w]
         /\ task'[w] = task[w]
PROOF BY DEF ProcTypes, Goto, WorkersKept, BusyPcs

\* A worker that ends is well formed.
LEMMA IdleTypes ==
  ASSUME ProcTypes, NEW w \in Workers, Idle(w)
  PROVE  ProcTypes' /\ WorkersKept(w) /\ pc'[w] = "idle" /\ job'[w] = NoCycle
PROOF BY DEF ProcTypes, Idle, WorkersKept, CyclePcs

\* A worker that begins has a cycle.
LEMMA BeginTypes ==
  ASSUME ProcTypes, NEW w \in Workers, NEW c \in Cycles, NEW t \in Tasks \cup {"beat"},
         NEW l \in BusyPcs, Begin(w, c, t, l), seen' = seen
  PROVE  ProcTypes' /\ WorkersKept(w) /\ pc[w] = "idle" /\ pc'[w] = l /\ job'[w] = c
PROOF BY DEF ProcTypes, Begin, WorkersKept, BusyPcs

\* A worker that takes a message has its cycle.
LEMMA TakesTypes ==
  ASSUME TInv, NEW w \in Workers, NEW c \in Cycles, TakesUp(w, c)
  PROVE  /\ ProcTypes' /\ MsgTypes' /\ attempt' \in [Cycles -> Nat]
         /\ UNCHANGED <<stored, runVars, depVars, client, faults>>
         /\ OthersKept(c) /\ WorkersKept(w) /\ pc[w] = "idle"
PROOF
<1> USE DEF TInv
<1>0. {"run", "finalizeCycle", "fail"} \subseteq Tasks /\ {"begin", "finRead", "failRow", "decide"} \subseteq BusyPcs
  BY DEF Tasks, BusyPcs, CyclePcs, BeginPcs, FinalizePcs, RecoverPcs
<1>1. CASE claim_cycle_for_worker(w, c)
  <2>1. MsgTypes' /\ \A e \in Cycles : e # c => msgs'[e] = msgs[e]
    BY <1>0, <1>1, TakeIs DEF claim_cycle_for_worker
  <2>2. UNCHANGED <<stored, runVars, depVars, client, faults>> /\ pc[w] = "idle" /\ seen' = seen
    BY <1>1 DEF claim_cycle_for_worker
  <2>3. CASE /\ status' = [status EXCEPT ![c] = "running"]
             /\ attempt' = [attempt EXCEPT ![c] = @ + 1]
             /\ Begin(w, c, "run", "begin")
    <3>1. ProcTypes' /\ WorkersKept(w)
      BY <1>0, <2>2, <2>3, BeginTypes
    <3> QED
      BY <2>1, <2>2, <2>3, <3>1 DEF OthersKept, runVars, RowTypes
  <2>4. CASE UNCHANGED <<status, attempt, pc, job, task>>
    BY <2>1, <2>2, <2>4 DEF OthersKept, WorkersKept, runVars, RowTypes, ProcTypes
  <2> QED
    BY <1>1, <2>3, <2>4 DEF claim_cycle_for_worker
<1>2. CASE FinalizeStart(w, c) \/ FailStart(w, c)
  <2>1. MsgTypes' /\ \A e \in Cycles : e # c => msgs'[e] = msgs[e]
    BY <1>0, <1>2, TakeIs DEF FinalizeStart, FailStart
  <2>2. UNCHANGED <<status, attempt, stored, runVars, depVars, client, seen, faults>>
    BY <1>2 DEF FinalizeStart, FailStart
  <2>3. ProcTypes' /\ WorkersKept(w) /\ pc[w] = "idle"
    BY <1>0, <1>2, <2>2, BeginTypes DEF FinalizeStart, FailStart
  <2> QED
    BY <2>1, <2>2, <2>3 DEF OthersKept, runVars, RowTypes
<1>3. CASE RecoverPick(w, c)
  <2>1. UNCHANGED <<status, attempt, stored, runVars, depVars, msgs, client, faults>>
    BY <1>3 DEF RecoverPick
  <2>2. ProcTypes' /\ WorkersKept(w) /\ pc[w] = "idle"
    BY <1>0, <1>3 DEF RecoverPick, Begin, ProcTypes, RowTypes, WorkersKept, BusyPcs
  <2> QED
    BY <2>1, <2>2 DEF OthersKept, runVars, RowTypes, MsgTypes
<1> QED
  BY <1>1, <1>2, <1>3 DEF TakesUp

\* A lost worker leaves well-formed state.
LEMMA CrashTypes ==
  ASSUME TInv, NEW w \in Workers, Crash(w)
  PROVE  /\ job[w] \in Cycles /\ ProcTypes' /\ MsgTypes' /\ faults' \in Nat
         /\ UNCHANGED <<status, attempt, stored, runVars, depVars, client>>
         /\ OthersKept(job[w]) /\ WorkersKept(w) /\ pc'[w] = "idle" /\ job'[w] = NoCycle
PROOF
<1>1. job[w] \in Cycles
  BY DEF Crash, TInv, ProcTypes
<1>2. MsgTypes' /\ \A e \in Cycles : e # job[w] => msgs'[e] = msgs[e]
  BY <1>1, CrashIs DEF TInv
<1>3. ProcTypes' /\ WorkersKept(w) /\ pc'[w] = "idle" /\ job'[w] = NoCycle
  BY IdleTypes DEF Crash, TInv
<1> QED
  BY <1>1, <1>2, <1>3 DEF Crash, Fault, OthersKept, runVars, TInv, RowTypes

\* What a worker's step leaves alone.
WorkerFrame(w) ==
  /\ pc[w] # "idle" /\ job[w] \in Cycles /\ job'[w] \in {job[w], NoCycle}
  /\ OthersKept(job[w]) /\ WorkersKept(w) /\ UNCHANGED <<client, faults>>

\* The control states the steps name.
LEMMA PcNames ==
  /\ {"busy", "create", "store", "dispatch", "yield", "failRow", "failCount", "finRead", "finMark",
      "finCheck", "finSucceed", "finAdvance", "recRun", "recFail", "begin", "decide"} \subseteq BusyPcs
  /\ {"run", "mark", "lean", "finalizeRun", "finalizeCycle", "relean", "refinalize",
      "oldLean", "oldRelean", "fail"} \subseteq Tasks
PROOF BY DEF BusyPcs, CyclePcs, BeginPcs, FinalizePcs, RecoverPcs, Tasks

\* Steps that write the status of the cycle.
StatusWrite(w) == BeginCycle(w) \/ YieldCycle(w) \/ FinMark(w) \/ FinSucceed(w) \/ FailRow(w)

\* A transition writes a status in range.
LEMMA StatusWriteTypes ==
  ASSUME TInv, NEW w \in Workers, StatusWrite(w)
  PROVE  /\ ProcTypes' /\ attempt' \in [Cycles -> Nat] /\ WorkerFrame(w)
         /\ UNCHANGED <<stored, runVars, depVars, msgs>>
PROOF
<1>1. UNCHANGED <<stored, runVars, depVars, msgs, client, faults>> /\ pc[w] # "idle"
  BY DEF StatusWrite, BeginCycle, YieldCycle, FinMark, FinSucceed, FailRow
<1>2. job[w] \in Cycles
  BY <1>1 DEF TInv, ProcTypes
<1>3. ProcTypes' /\ WorkersKept(w) /\ job'[w] \in {job[w], NoCycle}
  <2>1. CASE YieldCycle(w)
    BY <2>1, IdleTypes DEF YieldCycle, TInv
  <2>2. CASE BeginCycle(w) \/ FinMark(w) \/ FinSucceed(w) \/ FailRow(w)
    BY <1>1, <2>2, GotoTypes, PcNames DEF BeginCycle, FinMark, FinSucceed, FailRow, TInv
  <2> QED
    BY <2>1, <2>2 DEF StatusWrite
<1>4. \A e \in Cycles : e # job[w] => status'[e] = status[e]
  BY DEF StatusWrite, BeginCycle, YieldCycle, FinMark, FinSucceed, FailRow, transition_cycle, TInv, RowTypes
<1>5. attempt' \in [Cycles -> Nat]
  <2>1. CASE BeginCycle(w)
    BY <2>1 DEF BeginCycle, TInv, RowTypes
  <2>2. CASE YieldCycle(w) \/ FinMark(w) \/ FinSucceed(w) \/ FailRow(w)
    BY <2>2 DEF YieldCycle, FinMark, FinSucceed, FailRow, TInv, RowTypes
  <2> QED
    BY <2>1, <2>2 DEF StatusWrite
<1> QED
  BY <1>1, <1>2, <1>3, <1>4, <1>5 DEF WorkerFrame, OthersKept, runVars

\* Steps that write neither the cycle nor its run.
QuietStep(w) ==
  \/ BusyCheck(w) \/ DispatchChain(w) \/ FinRead(w) \/ FinCheck(w) \/ FinAdvance(w)
  \/ FailCount(w) \/ RecoverDecide(w)

\* The steps that write no status.
LEMMA QuietTypes ==
  ASSUME TInv, NEW w \in Workers, QuietStep(w)
  PROVE  /\ ProcTypes' /\ MsgTypes' /\ DepTypes' /\ WorkerFrame(w)
         /\ UNCHANGED <<status, attempt, stored, runVars, processed>>
PROOF
<1>1. UNCHANGED <<status, attempt, stored, runVars, processed, client, faults>> /\ pc[w] # "idle"
  BY DEF QuietStep, BusyCheck, DispatchChain, FinRead, FinCheck, FinAdvance, FailCount, RecoverDecide,
         depVars
<1>2. job[w] \in Cycles
  BY <1>1 DEF TInv, ProcTypes
<1>3. ProcTypes' /\ WorkersKept(w) /\ job'[w] \in {job[w], NoCycle}
  <2>1. CASE Idle(w)
    BY <2>1, IdleTypes DEF TInv
  <2>2. CASE \E l \in BusyPcs : Goto(w, l)
    BY <1>1, <2>2, GotoTypes DEF TInv
  <2> QED
    BY <2>1, <2>2, PcNames DEF QuietStep, BusyCheck, DispatchChain, FinRead, FinCheck, FinAdvance,
                               FailCount, RecoverDecide
<1>4. MsgTypes' /\ \A e \in Cycles : e # job[w] => msgs'[e] = msgs[e]
  <2>1. CASE msgs' = msgs
    BY <2>1 DEF TInv, MsgTypes
  <2>2. CASE \E t \in Tasks : Put(job[w], t)
    BY <1>2, <2>2, PutIs DEF TInv
  <2> QED
    BY <2>1, <2>2, PcNames DEF QuietStep, BusyCheck, DispatchChain, FinRead, FinCheck, FinAdvance,
                               FailCount, RecoverDecide
<1>5. DepTypes'
  <2>1. DeploymentOf(job[w]) \in Deployments /\ DateOf(job[w]) \in Dates
    BY <1>2, CycleParts
  <2>2. CASE FinAdvance(w)
    BY <2>1, <2>2 DEF FinAdvance, TInv, DepTypes
  <2>3. CASE FailCount(w)
    <3>1. last' = last /\ processed' = processed
      BY <2>3 DEF FailCount
    <3>2. dep' \in [Deployments -> {"active", "error"}]
      BY <2>1, <2>3 DEF FailCount, TInv, DepTypes
    <3>3. failures' \in [Deployments -> 0 .. 3]
      BY <2>1, <2>3 DEF FailCount, TInv, DepTypes
    <3> QED
      BY <3>1, <3>2, <3>3 DEF DepTypes, TInv
  <2>4. CASE ~FinAdvance(w) /\ ~FailCount(w)
    <3>1. UNCHANGED depVars
      BY <2>4 DEF QuietStep, BusyCheck, DispatchChain, FinRead, FinCheck, RecoverDecide
    <3> QED
      BY <3>1 DEF depVars, TInv, DepTypes
  <2> QED
    BY <2>2, <2>3, <2>4
<1> QED
  BY <1>1, <1>2, <1>3, <1>4, <1>5 DEF WorkerFrame, OthersKept, runVars

\* Steps that write the run, or the cycle's reference to it.
RunWrite(w) ==
  create_walkforward_run(w) \/ StorePaperRun(w) \/ RecoverRun(w) \/ fail_walkforward_run(w)

\* The steps that write the run.
LEMMA RunWriteTypes ==
  ASSUME TInv, NEW w \in Workers, RunWrite(w)
  PROVE  /\ ProcTypes' /\ MsgTypes' /\ RunTypes' /\ DepTypes' /\ WorkerFrame(w)
         /\ stored' \in [Cycles -> BOOLEAN]
         /\ UNCHANGED <<status, attempt, dep, failures, last>>
PROOF
<1>1. UNCHANGED <<status, attempt, dep, failures, last, client, faults>> /\ pc[w] # "idle"
  BY DEF RunWrite, create_walkforward_run, StorePaperRun, RecoverRun, fail_walkforward_run, depVars
<1>2. job[w] \in Cycles /\ DeploymentOf(job[w]) \in Deployments /\ DateOf(job[w]) \in Dates
  BY <1>1, CycleParts DEF TInv, ProcTypes
<1>3. ProcTypes' /\ WorkersKept(w) /\ job'[w] \in {job[w], NoCycle}
  <2>1. \E l \in BusyPcs : Goto(w, l)
    BY PcNames DEF RunWrite, create_walkforward_run, StorePaperRun, RecoverRun, fail_walkforward_run
  <2> QED
    BY <1>1, <2>1, GotoTypes DEF TInv
<1>4. MsgTypes' /\ \A e \in Cycles : e # job[w] => msgs'[e] = msgs[e]
  <2>1. CASE msgs' = msgs
    BY <2>1 DEF TInv, MsgTypes
  <2>2. CASE Renamed(job[w])
    BY <1>2, <2>2, RenamedIs DEF TInv
  <2> QED
    BY <2>1, <2>2 DEF RunWrite, create_walkforward_run, StorePaperRun, RecoverRun,
                      fail_walkforward_run, Renamed
<1>5. /\ RunTypes' /\ DepTypes' /\ stored' \in [Cycles -> BOOLEAN]
      /\ \A e \in Cycles : e # job[w] => /\ prun'[e] = prun[e] /\ child'[e] = child[e]
                                         /\ runner'[e] = runner[e] /\ stored'[e] = stored[e]
  <2>1. CASE create_walkforward_run(w)
    <3>1. stored' = stored /\ UNCHANGED depVars
      BY <2>1 DEF create_walkforward_run
    <3>2. /\ prun' \in {prun, [prun EXCEPT ![job[w]] = "queued"]}
          /\ child' \in {child, [child EXCEPT ![job[w]] = "active"]}
          /\ runner' \in {runner, [runner EXCEPT ![job[w]] = "none"]}
      BY <2>1 DEF create_walkforward_run, runVars
    <3> QED
      BY <1>2, <3>1, <3>2 DEF TInv, RunTypes, DepTypes, RowTypes, depVars
  <2>2. CASE StorePaperRun(w)
    BY <2>2, <1>2 DEF StorePaperRun, TInv, RunTypes, DepTypes, RowTypes, depVars, runVars
  <2>3. CASE RecoverRun(w)
    <3>1. child' = child /\ runner' = runner /\ stored' = stored /\ UNCHANGED <<dep, failures, last>>
      BY <2>3 DEF RecoverRun
    <3>2. CASE UNCHANGED <<prun, processed>>
      BY <3>1, <3>2 DEF TInv, RunTypes, DepTypes, RowTypes
    <3>3. CASE finalize_walkforward_run(job[w])
      <4>1. PICK o \in FinalizedRun(job[w]) :
              /\ prun' = [prun EXCEPT ![job[w]] = o]
              /\ processed' = [processed EXCEPT ![DeploymentOf(job[w])] =
                    IF o = "success" /\ prun[job[w]] # "success" THEN DateOf(job[w]) ELSE @]
        BY <3>3 DEF finalize_walkforward_run
      <4>2. o \in {"success", "failed"}
        BY DEF FinalizedRun
      <4>3. RunTypes' /\ \A e \in Cycles : e # job[w] => prun'[e] = prun[e]
        BY <3>1, <4>1, <4>2 DEF TInv, RunTypes
      <4>4. DepTypes'
        BY <1>2, <3>1, <4>1 DEF TInv, DepTypes
      <4> QED
        BY <3>1, <4>3, <4>4 DEF TInv, RowTypes
    <3> QED
      BY <2>3, <3>2, <3>3 DEF RecoverRun
  <2>4. CASE fail_walkforward_run(w)
    BY <2>4, <1>2 DEF fail_walkforward_run, TInv, RunTypes, DepTypes, RowTypes, depVars
  <2> QED
    BY <2>1, <2>2, <2>3, <2>4 DEF RunWrite
<1> QED
  BY <1>1, <1>2, <1>3, <1>4, <1>5 DEF WorkerFrame, OthersKept

\* The steps of a worker, grouped.
LEMMA WorkerCases ==
  ASSUME NEW w, WorkerStep(w)
  PROVE  StatusWrite(w) \/ QuietStep(w) \/ RunWrite(w)
PROOF BY DEF WorkerStep, StatusWrite, QuietStep, RunWrite

\* TInv is inductive.
LEMMA TypeStep ==
  ASSUME TInv, [Next]_vars
  PROVE  TInv'
PROOF
<1>1. status' \in [Cycles -> CYCLE_STATES \cup {"absent"}]
  BY StatusStep DEF TInv, RowTypes, StatusType
<1>2. CASE \E c \in Cycles : ClientAny(c)
  BY <1>1, <1>2, ClientTypes DEF TInv, RowTypes, RunTypes, DepTypes, ProcTypes, runVars, depVars, procVars
<1>3. CASE \E w \in Workers, c \in Cycles : TakesUp(w, c)
  BY <1>1, <1>3, TakesTypes DEF TInv, RowTypes, RunTypes, DepTypes, runVars, depVars
<1>4. CASE \E w \in Workers : WorkerStep(w)
  <2>1. PICK w \in Workers : WorkerStep(w)
    BY <1>4
  <2>2. CASE StatusWrite(w)
    BY <1>1, <2>2, StatusWriteTypes DEF TInv, RowTypes, RunTypes, DepTypes, MsgTypes, runVars, depVars,
                                        WorkerFrame
  <2>3. CASE QuietStep(w)
    BY <1>1, <2>3, QuietTypes DEF TInv, RowTypes, RunTypes, runVars, WorkerFrame
  <2>4. CASE RunWrite(w)
    BY <1>1, <2>4, RunWriteTypes DEF TInv, RowTypes, WorkerFrame
  <2> QED
    BY <2>1, <2>2, <2>3, <2>4, WorkerCases
<1>5. CASE \E w \in Workers : Crash(w)
  BY <1>1, <1>5, CrashTypes DEF TInv, RowTypes, RunTypes, DepTypes, runVars, depVars
<1>6. CASE \E c \in Cycles : ChainAny(c)
  BY <1>1, <1>6, ChainTypes DEF TInv, RowTypes, ProcTypes, procVars
<1>7. CASE UNCHANGED vars
  BY <1>7 DEF vars, TInv, RowTypes, RunTypes, DepTypes, MsgTypes, ProcTypes
<1> QED
  BY <1>2, <1>3, <1>4, <1>5, <1>6, <1>7, NextCases

\* The initial state is in range.
LEMMA TypeInit == Init => TInv
PROOF BY DEF Init, TInv, RowTypes, RunTypes, DepTypes, MsgTypes, ProcTypes, CyclePcs

\* Every row, message counter and local variable stays in range, for every set
\* of deployments, dates, workers, recoveries and faults.
THEOREM CycleTypes == Spec => []TypeOK
PROOF
<1> QED
  BY TypeInit, TypeStep, TypeGroups, PTL DEF Spec

(***************************************************************************)
(* The inductive invariant, for users who do not run a failed cycle again. *)
(* A retry starts a second Paper run for a date while the messages of the  *)
(* first one may still be under way.                                       *)
(***************************************************************************)
NoRetry == "retry" \notin Faults

\* A run of the chain has been created and nothing of the chain has happened yet.
ChainTasks == Tasks \ {"run"}
Silent(c) == \A t \in ChainTasks : msgs[c][t] = 0
Fresh(c) == prun[c] = "queued" /\ child[c] = "active" /\ runner[c] = "none"

\* A claimed cycle is not given to a second delivery.
ClaimedStates == {"running", "finalizing", "succeeded", "failed"}
Claimed(c) == status[c] \in ClaimedStates

\* The run's backtest has not succeeded and will not.
Doomed(c) ==
  /\ prun[c] # "success" /\ child[c] # "success"
  /\ child[c] = "failed" \/ runner[c] = "failed"

\* A worker between the claim and the chain has its cycle for itself; before
\* create_walkforward_run there is no Paper run, after it nothing of the chain.  A
\* worker that finalizes has a Paper run that was marked, one that writes success has found it
\* successful, and one that is to fail it has found its backtest lost.
WorkerOK(w) ==
  LET c == job[w] IN
  /\ pc[w] # "idle" => Claimed(c)
  /\ pc[w] \in BeginPcs => status[c] = "running" /\ \A v \in Workers : v # w => job[v] # c
  /\ pc[w] \in {"begin", "busy", "create", "yield"} => prun[c] = "none"
  /\ pc[w] \in {"store", "dispatch"} => Fresh(c) /\ Silent(c)
  /\ pc[w] = "decide" => (seen[w] => prun[c] # "none")
  /\ pc[w] \in FinalizePcs \cup {"recRun", "recFail"} => prun[c] # "none" /\ msgs[c]["mark"] = 0
  /\ pc[w] \in {"finSucceed", "finAdvance"} => stored[c] /\ prun[c] = "success"
  /\ pc[w] = "recFail" => Doomed(c)

\* A cycle has one Paper run at most, for the date its session continues with.
CycleOK(c) ==
  /\ prun[c] = "none" => /\ child[c] = "none" /\ runner[c] = "none" /\ ~ stored[c] /\ Silent(c)
                         /\ status[c] # "finalizing"
  /\ prun[c] # "none" => Claimed(c)
  /\ msgs[c]["mark"] > 0 => /\ Fresh(c) /\ msgs[c]["mark"] = 1
                            /\ \A t \in ChainTasks \ {"mark"} : msgs[c][t] = 0
  /\ prun[c] \in {"queued", "running", "failed"} =>
       DateOf(c) = next_trade_date(processed[DeploymentOf(c)])
  /\ prun[c] = "success" => processed[DeploymentOf(c)] >= DateOf(c)
  /\ status[c] = "succeeded" => stored[c] /\ prun[c] = "success"

LastOK == \A d \in Deployments : last[d] # 0 => prun[<<d, last[d]>>] = "success"

\* The last task of the chain is in hand of the workers that finalize only.
TaskInv ==
  \A w \in Workers : /\ task[w] \in {"run", "finalizeCycle", "fail", "beat", "none"}
                     /\ task[w] = "finalizeCycle" => pc[w] \in FinalizePcs

PInv ==
  /\ TInv
  /\ TaskInv
  /\ \A w \in Workers : WorkerOK(w)
  /\ \A c \in Cycles : CycleOK(c)
  /\ LastOK

\* The date a session continues with lies after the one it has processed.
LEMMA NextIsLater ==
  ASSUME NEW n \in Dates \cup {0}
  PROVE  next_trade_date(n) \in Nat /\ next_trade_date(n) > n
PROOF
<1>1. CASE n = 0
  BY <1>1 DEF next_trade_date
<1>2. CASE n # 0
  <2> DEFINE S == {m \in 1 .. MaxDate + 1 : m > n /\ m \notin ClosedDates}
  <2>1. MaxDate + 1 \in S
    BY CalendarAssumption, <1>2 DEF Dates
  <2>0. S \subseteq Nat /\ S # {}
    BY <2>1, CalendarAssumption
  <2>2. PICK x \in S : \A y \in S : ~(<<y, x>> \in OpToRel(<, Nat))
    <3> HIDE DEF S
    <3> QED
      BY <2>0, WFMin, NatLessThanWellFounded, Zenon
  <2>3. \A y \in S : ~(y < x)
    <3> HIDE DEF S
    <3> QED
      BY <2>0, <2>2 DEF OpToRel
  <2>4. \A k \in Dates : n < k /\ k < x => k \in ClosedDates
    BY <2>3, CalendarAssumption DEF Dates
  <2>5. \E m \in 1 .. MaxDate + 1 :
          /\ m > n
          /\ m \notin ClosedDates
          /\ \A k \in Dates : n < k /\ k < m => k \in ClosedDates
    BY <2>4
  <2>6. next_trade_date(n) \in 1 .. MaxDate + 1 /\ next_trade_date(n) > n
    BY <1>2, <2>5 DEF next_trade_date
  <2> QED
    BY <2>6, CalendarAssumption
<1> QED
  BY <1>1, <1>2

\* What no step takes back.
Onward(c) ==
  /\ prun[c] # "none" => prun'[c] # "none"
  /\ stored[c] => stored'[c]
  /\ prun[c] = "success" => prun'[c] = "success"
  /\ msgs[c]["mark"] = 0 => msgs'[c]["mark"] = 0
  /\ Doomed(c) => /\ prun'[c] # "success" /\ child'[c] # "success"
                  /\ child'[c] = "failed" \/ runner'[c] = "failed"

\* Nothing has happened to the cycle or its chain.
ChainSame(c) ==
  /\ status'[c] = status[c] /\ stored'[c] = stored[c] /\ prun'[c] = prun[c]
  /\ child'[c] = child[c] /\ runner'[c] = runner[c]
  /\ \A t \in ChainTasks : msgs'[c][t] = msgs[c][t]

\* A step that leaves a cycle alone takes nothing back.
LEMMA SameIsOnward ==
  ASSUME NEW c, ChainSame(c)
  PROVE  Onward(c) /\ (Claimed(c) => status'[c] \in ClaimedStates)
PROOF BY PcNames DEF ChainSame, Onward, Doomed, Claimed, ChainTasks

\* A cycle whose state is left alone keeps what is said of it.
LEMMA CycleFrame ==
  ASSUME NEW c \in Cycles, CycleOK(c), ChainSame(c), processed'[DeploymentOf(c)] = processed[DeploymentOf(c)]
  PROVE  CycleOK(c)'
PROOF
<1>1. "mark" \in ChainTasks
  BY DEF ChainTasks, Tasks
<1> QED
  BY <1>1 DEF CycleOK, ChainSame, Silent, Fresh, Claimed

\* A worker past the chain, while others act.
LEMMA WorkerGoesOn ==
  ASSUME NEW v \in Workers, NEW c, WorkerOK(v), c = job[v], pc[v] \notin BeginPcs,
         pc'[v] = pc[v], job'[v] = job[v], seen'[v] = seen[v],
         pc[v] # "idle" => Onward(c) /\ (Claimed(c) => status'[c] \in ClaimedStates)
  PROVE  WorkerOK(v)'
PROOF
<1>1. CASE pc[v] = "idle"
  BY <1>1 DEF WorkerOK, BeginPcs, FinalizePcs
<1>2. CASE pc[v] # "idle"
  BY <1>2 DEF WorkerOK, BeginPcs, FinalizePcs, Onward, Claimed, Doomed
<1> QED
  BY <1>1, <1>2

\* A worker that prepares, while others act.
LEMMA WorkerPrepares ==
  ASSUME NEW v \in Workers, NEW c, WorkerOK(v), c = job[v], pc[v] \in BeginPcs,
         pc'[v] = pc[v], job'[v] = job[v], ChainSame(c),
         \A u \in Workers : u # v => job'[u] # c
  PROVE  WorkerOK(v)'
PROOF
  BY DEF WorkerOK, BeginPcs, FinalizePcs, ChainSame, Claimed, Silent, Fresh

\* At first there is no cycle.
LEMMA PInit == Init => PInv
PROOF
<1> SUFFICES ASSUME Init PROVE PInv
  OBVIOUS
<1>1. ASSUME NEW w \in Workers PROVE WorkerOK(w)
  BY DEF Init, WorkerOK, BeginPcs, FinalizePcs
<1>2. ASSUME NEW c \in Cycles PROVE CycleOK(c)
  <2>1. "mark" \in Tasks
    BY DEF Tasks
  <2> QED
    BY <2>1 DEF Init, CycleOK, Silent, ChainTasks
<1> QED
  BY <1>1, <1>2, TypeInit DEF PInv, Init, LastOK, TaskInv

\* TaskInv is inductive.
LEMMA TaskStep ==
  ASSUME TInv, TaskInv, [Next]_vars
  PROVE  TaskInv'
PROOF
<1>1. CASE \E c \in Cycles : ClientAny(c)
  BY <1>1, ClientTypes DEF TaskInv, procVars
<1>2. CASE \E w \in Workers, c \in Cycles : TakesUp(w, c)
  <2>1. PICK w \in Workers, c \in Cycles : TakesUp(w, c)
    BY <1>2
  <2>2. WorkersKept(w)
    BY <2>1, TakesTypes
  <2>3. \/ pc'[w] = pc[w] /\ task'[w] = task[w]
        \/ pc'[w] = "finRead" /\ task'[w] = "finalizeCycle"
        \/ task'[w] \in {"run", "fail", "beat"}
    BY <2>1 DEF TakesUp, claim_cycle_for_worker, FinalizeStart, FailStart, RecoverPick, Begin,
                TInv, ProcTypes
  <2> QED
    BY <2>2, <2>3 DEF TaskInv, WorkersKept, FinalizePcs
<1>3. CASE \E w \in Workers : WorkerStep(w)
  <2>1. PICK w \in Workers : WorkerStep(w)
    BY <1>3
  <2>2. WorkersKept(w)
    BY <2>1, WorkerCases, StatusWriteTypes, QuietTypes, RunWriteTypes DEF WorkerFrame
  <2>3. \/ task'[w] = "none"
        \/ task'[w] = task[w] /\ (pc[w] \in FinalizePcs => pc'[w] \in FinalizePcs \/ task[w] = "beat")
    <3>1. CASE StatusWrite(w)
      BY <3>1 DEF StatusWrite, BeginCycle, YieldCycle, FinMark, FinSucceed, FailRow, Goto, Idle,
                  TInv, ProcTypes, FinalizePcs
    <3>2. CASE QuietStep(w)
      BY <3>2 DEF QuietStep, BusyCheck, DispatchChain, FinRead, FinCheck, FinAdvance, FailCount,
                  RecoverDecide, Goto, Idle, TInv, ProcTypes, FinalizePcs
    <3>3. CASE RunWrite(w)
      BY <3>3 DEF RunWrite, create_walkforward_run, StorePaperRun, RecoverRun, fail_walkforward_run,
                  Goto, TInv, ProcTypes, FinalizePcs
    <3> QED
      BY <2>1, <3>1, <3>2, <3>3, WorkerCases
  <2> QED
    BY <2>2, <2>3 DEF TaskInv, WorkersKept
<1>4. CASE \E w \in Workers : Crash(w)
  BY <1>4 DEF Crash, Idle, TaskInv, TInv, ProcTypes
<1>5. CASE \E c \in Cycles : ChainAny(c)
  BY <1>5, ChainTypes DEF TaskInv, procVars
<1>6. CASE UNCHANGED vars
  BY <1>6 DEF vars, TaskInv
<1> QED
  BY <1>1, <1>2, <1>3, <1>4, <1>5, <1>6, NextCases

PParts == (\A w \in Workers : WorkerOK(w)) /\ (\A c \in Cycles : CycleOK(c)) /\ LastOK

\* A deployment that has advanced keeps its successful run.
LEMMA LastKept ==
  ASSUME TInv, LastOK, last' = last, \A c \in Cycles : prun[c] = "success" => prun'[c] = "success"
  PROVE  LastOK'
PROOF
<1> SUFFICES ASSUME NEW d \in Deployments, last[d] # 0 PROVE prun'[<<d, last[d]>>] = "success"
  BY DEF LastOK
<1>1. <<d, last[d]>> \in Cycles
  BY DEF TInv, DepTypes, Cycles
<1> QED
  BY <1>1 DEF LastOK

\* The dispatchers and the user.
LEMMA ClientP ==
  ASSUME PInv, NoRetry, NEW c \in Cycles, ClientAny(c)
  PROVE  PParts'
PROOF
<1> USE DEF PInv
<1>1. /\ stored' = stored /\ UNCHANGED <<runVars, depVars, procVars>>
      /\ msgs' = msgs \/ Put(c, "run")
  BY ClientTypes
<1>2. \A e \in Cycles, t \in ChainTasks : msgs'[e][t] = msgs[e][t]
  <2>1. CASE msgs' = msgs
    BY <2>1
  <2>2. CASE Put(c, "run")
    <3>1. /\ \A e \in Cycles : e # c => msgs'[e] = msgs[e]
          /\ \A u \in Tasks : msgs'[c][u] = IF u = "run" THEN msgs[c][u] + 1 ELSE msgs[c][u]
      BY <2>2, PutIs, PcNames DEF TInv
    <3> QED
      BY <3>1 DEF ChainTasks
  <2> QED
    BY <1>1, <2>1, <2>2
<1>3. \A e \in Cycles : \/ status'[e] = status[e]
                        \/ e = c /\ ~Claimed(e) /\ status'[e] \in {"scheduled", "skipped", "queued"}
  BY DEF ClientAny, run_now, schedule_due_deployment, SkipClosedDate, QueueCycle, PublishCycle,
         ClientCrash, ensure_cycle, transition_cycle, DispatchFrom, NoRetry, Claimed, ClaimedStates,
         TInv, RowTypes
<1>4. \A e \in Cycles : status'[e] = status[e] => ChainSame(e)
  BY <1>1, <1>2 DEF ChainSame, runVars
<1>5. ASSUME NEW v \in Workers PROVE WorkerOK(v)'
  <2>1. WorkerOK(v) /\ pc'[v] = pc[v] /\ job' = job /\ seen'[v] = seen[v]
    BY <1>1 DEF procVars
  <2>2. CASE pc[v] = "idle"
    BY <2>1, <2>2, WorkerGoesOn DEF BeginPcs
  <2>3. CASE pc[v] # "idle"
    <3>1. job[v] \in Cycles /\ Claimed(job[v])
      BY <2>1, <2>3 DEF TInv, ProcTypes, WorkerOK
    <3>2. ChainSame(job[v])
      BY <1>3, <1>4, <3>1
    <3>3. CASE pc[v] \in BeginPcs
      <4>1. \A u \in Workers : u # v => job'[u] # job[v]
        BY <2>1, <3>3 DEF WorkerOK
      <4> QED
        BY <2>1, <3>2, <3>3, <4>1, WorkerPrepares
    <3>4. CASE pc[v] \notin BeginPcs
      BY <2>1, <3>2, <3>4, WorkerGoesOn, SameIsOnward
    <3> QED
      BY <3>3, <3>4
  <2> QED
    BY <2>2, <2>3
<1>6. ASSUME NEW e \in Cycles PROVE CycleOK(e)'
  <2>1. CASE status'[e] = status[e]
    BY <1>1, <1>4, <2>1, CycleFrame DEF depVars
  <2>2. CASE ~Claimed(e) /\ status'[e] \in {"scheduled", "skipped", "queued"}
    <3>1. CycleOK(e) /\ prun[e] = "none" /\ "mark" \in ChainTasks
      BY <2>2 DEF CycleOK, ChainTasks, Tasks
    <3>2. child[e] = "none" /\ runner[e] = "none" /\ ~stored[e] /\ Silent(e)
      BY <3>1 DEF CycleOK
    <3>3. msgs'[e]["mark"] = 0 /\ \A t \in ChainTasks : msgs'[e][t] = 0
      BY <1>2, <3>1, <3>2 DEF Silent
    <3>4. prun' = prun /\ child' = child /\ runner' = runner
      BY <1>1 DEF runVars
    <3> QED
      BY <1>1, <2>2, <3>1, <3>2, <3>3, <3>4 DEF CycleOK, Silent
  <2> QED
    BY <1>3, <2>1, <2>2
<1>7. LastOK'
  BY <1>1, LastKept DEF depVars, runVars
<1> QED
  BY <1>5, <1>6, <1>7 DEF PParts

\* A message of the chain is evidence of a run, and that nobody prepares it.
LEMMA ChainAwake ==
  ASSUME PInv, NEW c \in Cycles, (\E t \in ChainTasks : msgs[c][t] > 0) \/ prun[c] = "running"
  PROVE  /\ prun[c] # "none" /\ Claimed(c)
         /\ \A v \in Workers : job[v] = c => pc[v] \notin BeginPcs
PROOF
<1> USE DEF PInv
<1>1. CycleOK(c) /\ (~Silent(c) \/ prun[c] = "running")
  BY DEF Silent
<1>2. prun[c] # "none" /\ Claimed(c)
  BY <1>1 DEF CycleOK
<1>3. ASSUME NEW v \in Workers, job[v] = c PROVE pc[v] \notin BeginPcs
  BY <1>1, <1>2, <1>3 DEF WorkerOK, BeginPcs, Fresh
<1> QED
  BY <1>2, <1>3

\* A delivery, an errback or a recovery is taken up.
LEMMA TakesP ==
  ASSUME PInv, NoRetry, NEW w \in Workers, NEW c \in Cycles, TakesUp(w, c)
  PROVE  PParts'
PROOF
<1> USE DEF PInv
<1>1. /\ UNCHANGED <<stored, runVars, depVars>> /\ OthersKept(c) /\ WorkersKept(w) /\ pc[w] = "idle"
  BY TakesTypes
<1>2. \A e \in Cycles : e # c => ChainSame(e)
  BY <1>1 DEF OthersKept, ChainSame
<1>3. ASSUME NEW e \in Cycles, e # c PROVE CycleOK(e)'
  BY <1>1, <1>2, <1>3, CycleFrame DEF depVars
<1>4. LastOK'
  BY <1>1, LastKept DEF depVars, runVars
<1>5. ASSUME NEW v \in Workers, v # w,
             job[v] = c /\ pc[v] # "idle" => \/ ChainSame(c) /\ job'[w] = job[w]
                                             \/ /\ pc[v] \notin BeginPcs /\ Onward(c)
                                                /\ status'[c] \in ClaimedStates,
             job'[w] \in {job[w], c}
      PROVE  WorkerOK(v)'
  <2>1. WorkerOK(v) /\ pc'[v] = pc[v] /\ job'[v] = job[v] /\ seen'[v] = seen[v]
    BY <1>1, <1>5 DEF WorkersKept
  <2>2. CASE pc[v] \notin BeginPcs
    <3>1. pc[v] # "idle" => Onward(job[v]) /\ (Claimed(job[v]) => status'[job[v]] \in ClaimedStates)
      BY <1>2, <1>5, SameIsOnward DEF TInv, ProcTypes
    <3> QED
      BY <2>1, <2>2, <3>1, WorkerGoesOn
  <2>3. CASE pc[v] \in BeginPcs
    <3>1. pc[v] # "idle" /\ job[v] \in Cycles
      BY <2>3 DEF BeginPcs, TInv, ProcTypes
    <3>2. ChainSame(job[v])
      BY <1>2, <1>5, <2>3, <3>1
    <3>3. \A u \in Workers : u # v => job[u] # job[v]
      BY <2>1, <2>3 DEF WorkerOK
    <3>4. \A u \in Workers : u # v => job'[u] # job[v]
      BY <1>1, <1>5, <2>3, <3>1, <3>3 DEF WorkersKept
    <3> QED
      BY <2>1, <2>3, <3>2, <3>4, WorkerPrepares
  <2> QED
    BY <2>2, <2>3
<1>6. CASE claim_cycle_for_worker(w, c)
  <2>1. \A t \in ChainTasks : msgs'[c][t] = msgs[c][t]
    BY <1>6, TakeIs, PcNames DEF claim_cycle_for_worker, ChainTasks, TInv
  <2>2. CASE UNCHANGED <<status, attempt, pc, job, task>>
    <3>1. ChainSame(c)
      BY <1>1, <2>1, <2>2 DEF ChainSame, runVars
    <3>2. CycleOK(c)'
      BY <1>1, <3>1, CycleFrame DEF depVars
    <3>3. WorkerOK(w)'
      BY <1>1, <2>2 DEF WorkerOK, BeginPcs, FinalizePcs
    <3> QED
      BY <1>3, <1>4, <1>5, <2>2, <3>1, <3>2, <3>3 DEF PParts
  <2>3. CASE /\ status[c] \in CLAIMABLE_CYCLE_STATES
             /\ status' = [status EXCEPT ![c] = "running"]
             /\ Begin(w, c, "run", "begin")
    <3>1. /\ status'[c] = "running" /\ ~Claimed(c) /\ CycleOK(c) /\ status[c] # "succeeded"
          /\ pc'[w] = "begin" /\ job'[w] = c
      BY <2>3 DEF CLAIMABLE_CYCLE_STATES, Claimed, ClaimedStates, TInv, RowTypes, Begin, ProcTypes
    <3>2. prun[c] = "none" /\ child[c] = "none" /\ runner[c] = "none" /\ ~stored[c] /\ Silent(c)
      BY <3>1 DEF CycleOK
    <3>3. \A v \in Workers : job[v] # c
      BY <3>1, NoCycleAssumption DEF WorkerOK, TInv, ProcTypes
    <3>4. WorkerOK(w)'
      <4>1. pc'[w] = "begin" /\ job'[w] = c /\ status'[c] = "running" /\ prun'[c] = "none"
        BY <1>1, <3>1, <3>2 DEF runVars
      <4>2. \A v \in Workers : v # w => job'[v] # c
        BY <1>1, <3>3 DEF WorkersKept
      <4> QED
        BY <4>1, <4>2 DEF WorkerOK, BeginPcs, FinalizePcs, Claimed, ClaimedStates
    <3>5. CycleOK(c)'
      <4>1. "mark" \in ChainTasks /\ \A t \in ChainTasks : msgs'[c][t] = 0
        BY <2>1, <3>2, PcNames DEF Silent, ChainTasks
      <4> QED
        BY <1>1, <3>1, <3>2, <4>1 DEF CycleOK, runVars, Silent
    <3> QED
      BY <1>3, <1>4, <1>5, <3>1, <3>3, <3>4, <3>5 DEF PParts
  <2> QED
    BY <1>6, <2>2, <2>3 DEF claim_cycle_for_worker
<1>7. CASE FinalizeStart(w, c) \/ FailStart(w, c)
  <2>1. PICK t \in {"finalizeCycle", "fail"} : Take(c, t)
    BY <1>7 DEF FinalizeStart, FailStart
  <2>2. /\ msgs[c][t] > 0 /\ t \in ChainTasks /\ t # "mark"
        /\ \A u \in Tasks : msgs'[c][u] = IF u = t THEN msgs[c][u] - 1 ELSE msgs[c][u]
    BY <2>1, TakeIs, PcNames DEF TInv, ChainTasks
  <2>3. /\ prun[c] # "none" /\ Claimed(c)
        /\ \A v \in Workers : job[v] = c => pc[v] \notin BeginPcs
    BY <2>2, ChainAwake
  <2>4. /\ UNCHANGED <<status, stored, prun, child, runner>>
        /\ pc'[w] \in {"finRead", "failRow"} /\ job'[w] = c
    BY <1>7 DEF FinalizeStart, FailStart, runVars, Begin, TInv, ProcTypes
  <2>0. msgs'[c]["mark"] = 0
    <3>1. CycleOK(c) /\ msgs'[c]["mark"] = msgs[c]["mark"] /\ msgs[c]["mark"] \in Nat
      BY <2>2, PcNames DEF TInv, MsgTypes
    <3> QED
      BY <2>2, <3>1 DEF CycleOK
  <2>5. CycleOK(c)'
    <3>1. CycleOK(c)
      OBVIOUS
    <3> QED
      BY <1>1, <2>0, <2>3, <2>4, <3>1 DEF CycleOK, depVars, Claimed
  <2>6. Onward(c) /\ status'[c] \in ClaimedStates
    BY <2>0, <2>3, <2>4 DEF Onward, Doomed, Claimed
  <2>7. WorkerOK(w)'
    BY <2>0, <2>3, <2>4 DEF WorkerOK, BeginPcs, FinalizePcs, Claimed
  <2> QED
    BY <1>3, <1>4, <1>5, <2>3, <2>4, <2>5, <2>6, <2>7 DEF PParts
<1>8. CASE RecoverPick(w, c)
  <2>1. /\ UNCHANGED <<status, stored, prun, child, runner, msgs>> /\ Claimed(c)
        /\ pc'[w] = "decide" /\ job'[w] = c /\ seen'[w] = stored[c]
        /\ \A v \in Workers : job[v] # c
    BY <1>8 DEF RecoverPick, runVars, Begin, TInv, ProcTypes, Claimed, ClaimedStates, Stale
  <2>2. CycleOK(c) /\ ChainSame(c)
    BY <2>1 DEF ChainSame
  <2>3. CycleOK(c)'
    BY <1>1, <2>2, CycleFrame DEF depVars
  <2>4. WorkerOK(w)'
    BY <2>1, <2>2 DEF WorkerOK, CycleOK, BeginPcs, FinalizePcs, Claimed
  <2> QED
    BY <1>3, <1>4, <1>5, <2>1, <2>3, <2>4 DEF PParts
<1> QED
  BY <1>6, <1>7, <1>8 DEF TakesUp

\* A step on a chain that is under way: what remains to be shown of it.
LEMMA ChainP ==
  ASSUME PInv, NEW c \in Cycles, UNCHANGED <<status, stored, procVars, last>>, OthersKept(c),
         \A v \in Workers : job[v] = c => pc[v] \notin BeginPcs,
         Onward(c), \A e \in Cycles : CycleOK(e)'
  PROVE  PParts'
PROOF
<1> USE DEF PInv
<1>1. \A e \in Cycles : e # c => ChainSame(e)
  BY DEF OthersKept, ChainSame
<1>2. ASSUME NEW v \in Workers PROVE WorkerOK(v)'
  <2>1. WorkerOK(v) /\ pc'[v] = pc[v] /\ job' = job /\ seen'[v] = seen[v]
    BY DEF procVars
  <2>2. CASE pc[v] \in BeginPcs
    <3>1. job[v] \in Cycles /\ job[v] # c
      BY <2>2 DEF TInv, ProcTypes, BeginPcs
    <3>2. \A u \in Workers : u # v => job'[u] # job[v]
      BY <2>1, <2>2 DEF WorkerOK
    <3> QED
      BY <1>1, <2>1, <2>2, <3>1, <3>2, WorkerPrepares
  <2>3. CASE pc[v] \notin BeginPcs
    <3>1. pc[v] # "idle" => Onward(job[v]) /\ (Claimed(job[v]) => status'[job[v]] \in ClaimedStates)
      BY <1>1, SameIsOnward DEF TInv, ProcTypes, Claimed
    <3> QED
      BY <2>1, <2>3, <3>1, WorkerGoesOn
  <2> QED
    BY <2>2, <2>3
<1>3. \A e \in Cycles : prun[e] = "success" => prun'[e] = "success"
  BY <1>1 DEF Onward, ChainSame
<1>4. LastOK'
  BY <1>3, LastKept
<1> QED
  BY <1>2, <1>4 DEF PParts

\* The other cycles, if the session has not moved.
LEMMA OthersFrame ==
  ASSUME PInv, NEW c \in Cycles, OthersKept(c), processed' = processed
  PROVE  \A e \in Cycles : e # c => CycleOK(e)'
PROOF
<1> SUFFICES ASSUME NEW e \in Cycles, e # c PROVE CycleOK(e)'
  OBVIOUS
<1>1. CycleOK(e) /\ ChainSame(e)
  BY DEF OthersKept, ChainSame, PInv
<1> QED
  BY <1>1, CycleFrame

\* finalize_walkforward_run: the session moves to the date of the run, which is
\* its next one, so that no other run waits for the same move.
LEMMA FinalizeP ==
  ASSUME PInv, NEW c \in Cycles, prun[c] # "none", finalize_walkforward_run(c), OthersKept(c),
         UNCHANGED <<status, stored, child, runner>>,
         msgs'[c]["mark"] = 0
  PROVE  Onward(c) /\ \A e \in Cycles : CycleOK(e)'
PROOF
<1> USE DEF PInv
<1> DEFINE d == DeploymentOf(c)
<1>1. PICK o \in FinalizedRun(c) :
        /\ prun' = [prun EXCEPT ![c] = o]
        /\ processed' = [processed EXCEPT ![d] = IF o = "success" /\ prun[c] # "success" THEN DateOf(c) ELSE @]
  BY DEF finalize_walkforward_run
<1>2. /\ prun'[c] = o /\ o \in {"success", "failed"}
      /\ prun[c] = "success" => o = "success"
      /\ o = "success" => prun[c] = "success" \/ child[c] = "success"
  BY <1>1 DEF FinalizedRun, TInv, RunTypes
<1>3. /\ d \in Deployments /\ DateOf(c) \in Dates /\ processed[d] \in Dates \cup {0}
      /\ next_trade_date(processed[d]) \in Nat /\ next_trade_date(processed[d]) > processed[d]
  BY CycleParts, NextIsLater DEF TInv, DepTypes
<1>4. CycleOK(c) /\ prun[c] \in {"queued", "running", "failed", "success"}
  BY DEF TInv, RunTypes
<1>5. Onward(c)
  BY <1>2 DEF Onward, Doomed
<1>6. CASE o = "success" /\ prun[c] # "success"
  <2>1. processed'[d] = DateOf(c) /\ \A f \in Deployments : f # d => processed'[f] = processed[f]
    BY <1>1, <1>3, <1>6 DEF TInv, DepTypes
  <2>2. DateOf(c) = next_trade_date(processed[d])
    BY <1>4, <1>6 DEF CycleOK
  <2>3. ASSUME NEW e \in Cycles, e # c PROVE CycleOK(e)'
    <3>1. CycleOK(e) /\ ChainSame(e) /\ DeploymentOf(e) \in Deployments /\ DateOf(e) \in Dates
      BY <2>3, CycleParts DEF OthersKept, ChainSame
    <3>2. CASE DeploymentOf(e) # d
      BY <2>1, <3>1, <3>2, CycleFrame
    <3>3. CASE DeploymentOf(e) = d
      <4>1. DateOf(e) # DateOf(c)
        BY <2>3, <3>3, CycleParts
      <4>2. prun[e] \notin {"queued", "running", "failed"}
        BY <2>2, <3>1, <3>3, <4>1 DEF CycleOK
      <4>3. prun[e] = "success" => processed'[DeploymentOf(e)] >= DateOf(e)
        <5>1. prun[e] = "success" => processed[d] >= DateOf(e)
          BY <3>1, <3>3 DEF CycleOK
        <5>2. DateOf(c) \in Nat /\ DateOf(e) \in Nat /\ processed[d] \in Nat
          BY <1>3, <3>1, CalendarAssumption DEF Dates
        <5> QED
          BY <1>3, <2>1, <2>2, <3>3, <5>1, <5>2
      <4>4. "mark" \in ChainTasks
        BY DEF ChainTasks, Tasks
      <4> QED
        BY <3>1, <4>2, <4>3, <4>4 DEF CycleOK, ChainSame, Silent, Fresh, Claimed
    <3> QED
      BY <3>2, <3>3
  <2>4. CycleOK(c)'
    BY <1>2, <1>3, <1>4, <1>6, <2>1, CalendarAssumption DEF CycleOK, Claimed, Dates
  <2> QED
    BY <1>5, <2>3, <2>4
<1>7. CASE ~(o = "success" /\ prun[c] # "success")
  <2>1. processed' = processed
    BY <1>1, <1>3, <1>7 DEF TInv, DepTypes
  <2>2. CycleOK(c)'
    BY <1>2, <1>4, <1>7, <2>1 DEF CycleOK, Claimed
  <2> QED
    BY <1>5, <2>1, <2>2, OthersFrame
<1> QED
  BY <1>6, <1>7

\* A step on the broker's messages of a chain, and perhaps on its backtest.
LEMMA MessageP ==
  ASSUME PInv, NEW c \in Cycles, UNCHANGED <<status, stored, procVars, depVars, prun>>,
         OthersKept(c), msgs[c]["mark"] = 0, msgs'[c]["mark"] = 0,
         prun[c] # "none", \A v \in Workers : job[v] = c => pc[v] \notin BeginPcs,
         Doomed(c) => /\ child'[c] # "success"
                      /\ child'[c] = "failed" \/ runner'[c] = "failed"
  PROVE  PParts'
PROOF
<1> USE DEF PInv
<1>1. Onward(c)
  BY DEF Onward, Doomed
<1>2. CycleOK(c) /\ processed' = processed
  BY DEF depVars
<1>3. CycleOK(c)'
  BY <1>2 DEF CycleOK, Claimed
<1>4. \A e \in Cycles : CycleOK(e)'
  BY <1>2, <1>3, OthersFrame
<1> QED
  BY <1>1, <1>4, ChainP DEF depVars

\* The chain, the runner and the recoveries keep the parts of PInv.
LEMMA ChainAnyP ==
  ASSUME PInv, NEW c \in Cycles, ChainAny(c)
  PROVE  PParts'
PROOF
<1> USE DEF PInv
<1>0. /\ UNCHANGED <<status, stored, last, procVars>> /\ OthersKept(c) /\ MsgTypes
  BY ChainTypes DEF OthersKept, TInv
<1>a. "mark" \in ChainTasks /\ CycleOK(c) /\ msgs[c] \in [Tasks -> Nat]
  BY PcNames DEF ChainTasks, TInv, MsgTypes
<1>b. ASSUME NEW t \in ChainTasks, t # "mark", msgs[c][t] > 0 PROVE msgs[c]["mark"] = 0
  <2>1. msgs[c]["mark"] \in Nat
    BY <1>a DEF ChainTasks
  <2> QED
    BY <1>a, <1>b, <2>1 DEF CycleOK
<1>1. CASE mark_walkforward_running(c)
  <2>1. /\ msgs[c]["mark"] > 0 /\ msgs'[c]["mark"] = msgs[c]["mark"] - 1
    BY <1>0, <1>1, PassIs, PcNames DEF mark_walkforward_running
  <2>2. /\ \A v \in Workers : job[v] = c => pc[v] \notin BeginPcs
    BY <1>a, <2>1, ChainAwake
  <2>3. /\ Fresh(c) /\ msgs[c]["mark"] = 1
    BY <1>a, <2>1 DEF CycleOK
  <2>4. prun'[c] = "running" /\ UNCHANGED <<child, runner, depVars>>
    BY <1>1 DEF mark_walkforward_running, TInv, RunTypes
  <2>5. Onward(c)
    BY <2>3, <2>4, <1>0 DEF Onward, Doomed, Fresh
  <2>6. CycleOK(c)'
    BY <1>0, <1>a, <2>1, <2>3, <2>4 DEF CycleOK, Fresh, Claimed, depVars
  <2>7. \A e \in Cycles : CycleOK(e)'
    BY <1>0, <2>4, <2>6, OthersFrame DEF depVars
  <2> QED
    BY <1>0, <2>2, <2>5, <2>7, ChainP
<1>2. CASE \E t \in DOMAIN NextTask : LeanEnds(c, t)
  <2>1. PICK t \in DOMAIN NextTask : LeanEnds(c, t)
    BY <1>2
  <2>2. t \in Tasks \ {"run", "mark"} /\ NextTask[t] \in Tasks \ {"run", "mark"} /\ t # NextTask[t]
    BY PcNames DEF NextTask
  <2>3. Pass(c, t, NextTask[t]) /\ UNCHANGED <<prun, runner, depVars>>
    BY <2>1 DEF LeanEnds
  <2>4. msgs[c][t] > 0 /\ msgs'[c]["mark"] = msgs[c]["mark"]
    BY <1>0, <2>2, <2>3, PassIs, PcNames
  <2>5. msgs[c]["mark"] = 0 /\ t \in ChainTasks
    BY <1>b, <2>2, <2>4 DEF ChainTasks
  <2>6. Doomed(c) => /\ child'[c] # "success"
                     /\ child'[c] = "failed" \/ runner'[c] = "failed"
    BY <2>1, <2>3 DEF LeanEnds, ChildOutcomes, Doomed, TInv, RunTypes
  <2> QED
    BY <1>0, <2>3, <2>4, <2>5, <2>6, ChainAwake, MessageP
<1>3. CASE LeanRaises(c)
  <2>1. msgs[c]["lean"] > 0 /\ msgs'[c]["mark"] = msgs[c]["mark"] /\ "lean" \in ChainTasks
    BY <1>0, <1>3, PassIs, PcNames DEF LeanRaises, ChainTasks
  <2>2. UNCHANGED <<prun, child, runner, depVars>>
    BY <1>3 DEF LeanRaises, runVars
  <2>3. msgs[c]["mark"] = 0
    BY <1>b, <2>1
  <2> QED
    BY <1>0, <2>1, <2>2, <2>3, ChainAwake, MessageP DEF Doomed
<1>4. CASE FinalizeRun(c)
  <2>1. \E t \in ChainTasks : t # "mark" /\ msgs[c][t] > 0 /\ msgs'[c]["mark"] = msgs[c]["mark"]
    BY <1>0, <1>4, PassIs, TakeIs, PcNames DEF FinalizeRun, ChainTasks
  <2>2. msgs[c]["mark"] = 0
    BY <1>b, <2>1
  <2>3. prun[c] # "none" /\ \A v \in Workers : job[v] = c => pc[v] \notin BeginPcs
    BY <2>1, ChainAwake
  <2>4. finalize_walkforward_run(c) /\ UNCHANGED <<child, runner>>
    BY <1>4 DEF FinalizeRun
  <2> QED
    BY <1>0, <2>1, <2>2, <2>3, <2>4, FinalizeP, ChainP
<1>5. CASE FinalizeRunRaises(c)
  <2>1. \E t \in ChainTasks : t # "mark" /\ msgs[c][t] > 0 /\ msgs'[c]["mark"] = msgs[c]["mark"]
    BY <1>0, <1>5, PassIs, TakeIs, PcNames DEF FinalizeRunRaises, ChainTasks
  <2>2. msgs[c]["mark"] = 0
    BY <1>b, <2>1
  <2>3. UNCHANGED <<prun, child, runner, depVars>>
    BY <1>5 DEF FinalizeRunRaises, runVars
  <2> QED
    BY <1>0, <2>1, <2>2, <2>3, ChainAwake, MessageP DEF Doomed
<1>6. CASE RunnerEnds(c)
  <2>1. \E t \in {"lean", "relean"} : msgs[c][t] > 0
    BY <1>6, <1>a, PcNames DEF RunnerEnds
  <2>2. msgs[c]["mark"] = 0 /\ \E t \in ChainTasks : msgs[c][t] > 0
    BY <1>b, <2>1, PcNames DEF ChainTasks
  <2>3. UNCHANGED <<prun, child, depVars, msgs>> /\ child[c] = "active" /\ runner[c] = "none"
    BY <1>6 DEF RunnerEnds
  <2> QED
    BY <1>0, <2>2, <2>3, ChainAwake, MessageP DEF Doomed
<1>7. CASE MarkLost(c)
  <2>1. msgs[c]["mark"] > 0 /\ msgs'[c]["mark"] = msgs[c]["mark"] - 1
    BY <1>0, <1>7, TakeIs, PcNames DEF MarkLost
  <2>2. prun[c] # "none" /\ \A v \in Workers : job[v] = c => pc[v] \notin BeginPcs
    BY <1>a, <2>1, ChainAwake
  <2>3. UNCHANGED <<prun, child, runner, depVars>> /\ msgs[c]["mark"] = 1
    BY <1>7, <1>a, <2>1 DEF MarkLost, runVars, CycleOK
  <2>4. Onward(c)
    BY <2>3, <1>0 DEF Onward, Doomed
  <2>5. CycleOK(c)'
    BY <1>0, <1>a, <2>1, <2>2, <2>3 DEF CycleOK, Claimed, depVars
  <2>6. \A e \in Cycles : CycleOK(e)'
    BY <1>0, <2>3, <2>5, OthersFrame DEF depVars
  <2> QED
    BY <1>0, <2>2, <2>4, <2>6, ChainP
<1>8. CASE recover_paper_finalization(c)
  <2>1. prun[c] = "running" /\ UNCHANGED <<prun, child, runner, depVars>>
    BY <1>8 DEF recover_paper_finalization, runVars
  <2>2. msgs'[c]["mark"] = msgs[c]["mark"]
    BY <1>0, <1>8, PutIs, PcNames DEF recover_paper_finalization
  <2>3. msgs[c]["mark"] = 0
    BY <1>a, <2>1, PcNames DEF CycleOK, Fresh
  <2> QED
    BY <1>0, <2>1, <2>2, <2>3, ChainAwake, MessageP DEF Doomed
<1>9. CASE recover_stale_queued_dispatch(c) \/ \E t \in Redelivered : Redeliver(c, t)
  <2>1. PICK t \in Redelivered \cup {"run"} : Put(c, t) /\ (t = "run" \/ msgs[c][t] \in 1 .. MaxCopies - 1)
    BY <1>9 DEF recover_stale_queued_dispatch, Redeliver
  <2>2. t \in Tasks /\ t # "mark" /\ UNCHANGED <<prun, child, runner, depVars>>
    BY <1>9, CycleFaultsAssumption, PcNames DEF LateTasks, recover_stale_queued_dispatch, Redeliver, runVars
  <2>3. \A u \in Tasks : msgs'[c][u] = IF u = t THEN msgs[c][u] + 1 ELSE msgs[c][u]
    BY <1>0, <2>1, <2>2, PutIs
  <2>4. CASE t # "run"
    <3>1. t \in ChainTasks /\ msgs[c][t] > 0
      BY <2>1, <2>2, <2>4, CycleBoundsAssumption DEF ChainTasks
    <3>2. msgs[c]["mark"] = 0 /\ msgs'[c]["mark"] = 0
      BY <1>b, <2>2, <2>3, <3>1, PcNames
    <3> QED
      BY <1>0, <2>2, <3>1, <3>2, ChainAwake, MessageP DEF Doomed
  <2>5. CASE t = "run"
    <3>1. ChainSame(c)
      BY <1>0, <2>2, <2>3, <2>5 DEF ChainSame, ChainTasks
    <3>2. \A e \in Cycles : ChainSame(e)
      BY <1>0, <3>1 DEF OthersKept, ChainSame
    <3>3. \A e \in Cycles : CycleOK(e)'
      BY <2>2, <3>2, CycleFrame DEF depVars
    <3>4. ASSUME NEW v \in Workers PROVE WorkerOK(v)'
      <4>1. WorkerOK(v) /\ pc'[v] = pc[v] /\ job' = job /\ seen'[v] = seen[v]
        BY <1>0 DEF procVars
      <4>2. CASE pc[v] \in BeginPcs
        <5>1. ChainSame(job[v])
          BY <3>2, <4>2 DEF TInv, ProcTypes, BeginPcs
        <5>2. \A u \in Workers : u # v => job'[u] # job[v]
          BY <4>1, <4>2 DEF WorkerOK
        <5> QED
          BY <4>1, <4>2, <5>1, <5>2, WorkerPrepares
      <4>3. CASE pc[v] \notin BeginPcs
        <5>1. pc[v] # "idle" => ChainSame(job[v])
          BY <3>2 DEF TInv, ProcTypes
        <5> QED
          BY <4>1, <4>3, <5>1, SameIsOnward, WorkerGoesOn
      <4> QED
        BY <4>2, <4>3
    <3>5. LastOK'
      BY <1>0, <2>2, LastKept
    <3> QED
      BY <3>3, <3>4, <3>5 DEF PParts
  <2> QED
    BY <2>4, <2>5
<1> QED
  BY <1>1, <1>2, <1>3, <1>4, <1>5, <1>6, <1>7, <1>8, <1>9 DEF ChainAny

\* The step of a worker: what remains to be shown of it.
LEMMA WorkerP ==
  ASSUME PInv, NEW w \in Workers, NEW c \in Cycles, c = job[w], pc[w] # "idle", OthersKept(c), WorkersKept(w),
         job'[w] \in {c, NoCycle},
         \/ Onward(c) /\ status'[c] \in ClaimedStates
         \/ \A v \in Workers : v # w => job[v] # c,
         WorkerOK(w)', \A e \in Cycles : CycleOK(e)', LastOK'
  PROVE  PParts'
PROOF
<1> USE DEF PInv
<1>1. \A e \in Cycles : e # c => ChainSame(e)
  BY DEF OthersKept, ChainSame
<1>2. ASSUME NEW v \in Workers, v # w PROVE WorkerOK(v)'
  <2>1. WorkerOK(v) /\ pc'[v] = pc[v] /\ job'[v] = job[v] /\ seen'[v] = seen[v]
    BY <1>2 DEF WorkersKept
  <2>2. CASE pc[v] \in BeginPcs
    <3>1. job[v] \in Cycles /\ job[v] # NoCycle /\ \A u \in Workers : u # v => job[u] # job[v]
      BY <2>1, <2>2, NoCycleAssumption DEF TInv, ProcTypes, BeginPcs, WorkerOK
    <3>2. job[v] # c /\ \A u \in Workers : u # v => job'[u] # job[v]
      BY <1>2, <3>1 DEF WorkersKept
    <3> QED
      BY <1>1, <2>1, <2>2, <3>1, <3>2, WorkerPrepares
  <2>3. CASE pc[v] \notin BeginPcs
    <3>1. pc[v] # "idle" => Onward(job[v]) /\ (Claimed(job[v]) => status'[job[v]] \in ClaimedStates)
      BY <1>1, <1>2, SameIsOnward DEF TInv, ProcTypes
    <3> QED
      BY <2>1, <2>3, <3>1, WorkerGoesOn
  <2> QED
    BY <2>2, <2>3
<1> QED
  BY <1>2 DEF PParts

\* Steps that write the status of the cycle.
LEMMA StatusWriteP ==
  ASSUME PInv, NEW w \in Workers, StatusWrite(w)
  PROVE  PParts'
PROOF
<1> USE DEF PInv
<1>0. PICK c \in Cycles : c = job[w]
  BY StatusWriteTypes DEF WorkerFrame
<1>1. /\ c = job[w] /\ c \in Cycles /\ pc[w] # "idle" /\ OthersKept(c) /\ WorkersKept(w)
      /\ job'[w] \in {c, NoCycle} /\ UNCHANGED <<stored, runVars, depVars, msgs>>
  BY <1>0, StatusWriteTypes DEF WorkerFrame
<1>2. UNCHANGED <<stored, prun, child, runner, processed, last, msgs>>
  BY <1>1 DEF runVars, depVars
<1>3. LastOK'
  BY <1>2, LastKept
<1>4. WorkerOK(w) /\ CycleOK(c) /\ Claimed(c)
  BY <1>1 DEF WorkerOK
<1>5. \A e \in Cycles : e # c => CycleOK(e)'
  BY <1>1, <1>2, OthersFrame
<1>6. Onward(c)
  BY <1>2 DEF Onward, Doomed
<1>7. CASE YieldCycle(w)
  <2>1. /\ pc[w] = "yield" /\ pc'[w] = "idle" /\ status'[c] = IF status[c] = "running" THEN "waiting_data" ELSE status[c]
    BY <1>1, <1>7 DEF YieldCycle, Idle, transition_cycle, TInv, RowTypes, ProcTypes
  <2>2. prun[c] = "none" /\ status[c] = "running" /\ \A v \in Workers : v # w => job[v] # c
    BY <1>0, <1>4, <2>1 DEF WorkerOK, BeginPcs
  <2>3. WorkerOK(w)'
    BY <2>1 DEF WorkerOK, BeginPcs, FinalizePcs
  <2>4. CycleOK(c)'
    BY <1>2, <1>4, <2>1, <2>2 DEF CycleOK, Silent, Fresh
  <2> QED
    BY <1>1, <1>3, <1>5, <2>2, <2>3, <2>4, WorkerP
<1>8. CASE BeginCycle(w)
  <2>1. /\ pc[w] = "begin" /\ pc'[w] = "busy" /\ job'[w] = c
        /\ status'[c] = IF status[c] \in CLAIMABLE_CYCLE_STATES THEN "running" ELSE status[c]
    BY <1>1, <1>8 DEF BeginCycle, Goto, transition_cycle, TInv, RowTypes, ProcTypes
  <2>2. prun[c] = "none" /\ status[c] = "running" /\ \A v \in Workers : v # w => job[v] # c
    BY <1>0, <1>4, <2>1 DEF WorkerOK, BeginPcs
  <2>3. \A v \in Workers : v # w => job'[v] # c
    BY <1>1, <2>2 DEF WorkersKept
  <2>4. status'[c] = "running"
    BY <2>1, <2>2 DEF CLAIMABLE_CYCLE_STATES
  <2>5. WorkerOK(w)'
    BY <1>2, <2>1, <2>2, <2>3, <2>4 DEF WorkerOK, BeginPcs, FinalizePcs, Claimed, ClaimedStates
  <2>6. CycleOK(c)'
    BY <1>2, <1>4, <2>2, <2>4 DEF CycleOK, Silent, Fresh, Claimed
  <2> QED
    BY <1>1, <1>3, <1>5, <2>2, <2>5, <2>6, WorkerP
<1>9. CASE FinMark(w) \/ FinSucceed(w) \/ FailRow(w)
  <2>1. /\ job'[w] = c
        /\ \/ /\ pc[w] = "finMark" /\ pc'[w] = "finCheck"
              /\ status'[c] = IF status[c] \in {"running", "queued"} THEN "finalizing" ELSE status[c]
           \/ /\ pc[w] = "finSucceed" /\ pc'[w] = "finAdvance"
              /\ status'[c] = IF status[c] = "finalizing" THEN "succeeded" ELSE status[c]
           \/ /\ pc[w] = "failRow" /\ pc'[w] = "failCount" /\ status'[c] \in {"failed", status[c]}
    BY <1>1, <1>9 DEF FinMark, FinSucceed, FailRow, Goto, transition_cycle, TInv, RowTypes, ProcTypes
  <2>2. status'[c] \in ClaimedStates
    BY <1>4, <2>1 DEF Claimed, ClaimedStates
  <2>3. WorkerOK(w)'
    BY <1>0, <1>2, <1>4, <2>1, <2>2 DEF WorkerOK, BeginPcs, FinalizePcs, Claimed
  <2>4. CycleOK(c)'
    BY <1>0, <1>2, <1>4, <2>1, <2>2 DEF WorkerOK, CycleOK, Silent, Fresh, Claimed, BeginPcs, FinalizePcs
  <2> QED
    BY <1>1, <1>3, <1>5, <1>6, <2>2, <2>3, <2>4, WorkerP
<1> QED
  BY <1>7, <1>8, <1>9 DEF StatusWrite

\* Steps that write neither the cycle nor its run.
LEMMA QuietP ==
  ASSUME PInv, NEW w \in Workers, QuietStep(w)
  PROVE  PParts'
PROOF
<1> USE DEF PInv
<1>0. PICK c \in Cycles : c = job[w]
  BY QuietTypes DEF WorkerFrame
<1>1. /\ pc[w] # "idle" /\ OthersKept(c) /\ WorkersKept(w) /\ job'[w] \in {c, NoCycle}
      /\ UNCHANGED <<status, stored, prun, child, runner, processed>> /\ MsgTypes /\ MsgTypes'
  BY <1>0, QuietTypes DEF WorkerFrame, runVars, TInv
<1>2. WorkerOK(w) /\ CycleOK(c) /\ Claimed(c) /\ status'[c] \in ClaimedStates
  BY <1>0, <1>1 DEF WorkerOK, Claimed
<1>3. \A e \in Cycles : e # c => CycleOK(e)'
  BY <1>1, OthersFrame
<1>4. pc'[w] = "idle" => WorkerOK(w)'
  BY DEF WorkerOK, BeginPcs, FinalizePcs
<1>5. CASE FinAdvance(w)
  <2>1. /\ pc[w] = "finAdvance" /\ pc'[w] = "idle" /\ msgs' = msgs
        /\ last' = [last EXCEPT ![DeploymentOf(c)] = DateOf(c)]
    BY <1>0, <1>5 DEF FinAdvance, Idle, TInv, ProcTypes
  <2>2. prun[c] = "success"
    BY <1>0, <1>2, <2>1 DEF WorkerOK
  <2>3. LastOK'
    <3> SUFFICES ASSUME NEW d \in Deployments, last'[d] # 0 PROVE prun'[<<d, last'[d]>>] = "success"
      BY DEF LastOK
    <3>1. CASE d = DeploymentOf(c)
      BY <1>1, <2>1, <2>2, <3>1, CycleParts DEF TInv, DepTypes
    <3>2. CASE d # DeploymentOf(c)
      BY <1>1, <2>1, <3>2 DEF TInv, DepTypes, LastOK
    <3> QED
      BY <3>1, <3>2
  <2>4. Onward(c) /\ ChainSame(c)
    BY <1>1, <2>1 DEF Onward, Doomed, ChainSame
  <2>5. CycleOK(c)'
    BY <1>1, <1>2, <2>4, CycleFrame
  <2> QED
    BY <1>0, <1>1, <1>2, <1>3, <1>4, <2>1, <2>3, <2>4, <2>5, WorkerP
<1>6. ASSUME ~FinAdvance(w) PROVE LastOK'
  <2>1. last' = last
    BY <1>6 DEF QuietStep, BusyCheck, DispatchChain, FinRead, FinCheck, FailCount, RecoverDecide, depVars
  <2> QED
    BY <1>1, <2>1, LastKept
<1>7. ASSUME msgs' = msgs, ~FinAdvance(w), WorkerOK(w)' PROVE PParts'
  <2>1. Onward(c) /\ ChainSame(c)
    BY <1>1, <1>7 DEF Onward, Doomed, ChainSame
  <2>2. CycleOK(c)'
    BY <1>1, <1>2, <2>1, CycleFrame
  <2> QED
    BY <1>0, <1>1, <1>2, <1>3, <1>6, <1>7, <2>1, <2>2, WorkerP
<1>8. ASSUME NEW t \in {"fail", "relean"}, Put(c, t), ~FinAdvance(w), pc'[w] = "idle",
             prun[c] # "none", msgs[c]["mark"] = 0
      PROVE  PParts'
  <2>1. msgs'[c]["mark"] = 0
    BY <1>1, <1>8, PutIs, PcNames
  <2>2. Onward(c)
    BY <1>1, <2>1 DEF Onward, Doomed
  <2>3. CycleOK(c)'
    BY <1>1, <1>2, <1>8, <2>1 DEF CycleOK, Claimed
  <2> QED
    BY <1>0, <1>1, <1>2, <1>3, <1>4, <1>6, <1>8, <2>2, <2>3, WorkerP
<1>9. CASE DispatchChain(w)
  <2>1. Put(c, "mark") /\ pc[w] = "dispatch" /\ pc'[w] = "idle"
    BY <1>0, <1>9 DEF DispatchChain, Idle, TInv, ProcTypes
  <2>2. Fresh(c) /\ Silent(c) /\ \A v \in Workers : v # w => job[v] # c
    BY <1>0, <1>2, <2>1 DEF WorkerOK, BeginPcs
  <2>3. \A u \in Tasks : msgs'[c][u] = IF u = "mark" THEN msgs[c][u] + 1 ELSE msgs[c][u]
    BY <1>1, <2>1, PutIs, PcNames
  <2>4. /\ msgs'[c]["mark"] = 1 /\ \A t \in ChainTasks \ {"mark"} : msgs'[c][t] = 0
    BY <2>2, <2>3, PcNames DEF Silent, ChainTasks
  <2>5. CycleOK(c)'
    BY <1>1, <1>2, <2>2, <2>4 DEF CycleOK, Fresh, Claimed
  <2>6. ~FinAdvance(w)
    BY <2>1 DEF FinAdvance
  <2> QED
    BY <1>0, <1>1, <1>3, <1>4, <1>6, <2>1, <2>2, <2>5, <2>6, WorkerP
<1>10. CASE BusyCheck(w)
  <2>1. /\ pc[w] = "busy" /\ pc'[w] \in {"yield", "create"} /\ job'[w] = c /\ msgs' = msgs
        /\ ~FinAdvance(w)
    BY <1>0, <1>10 DEF BusyCheck, Goto, TInv, ProcTypes, FinAdvance
  <2>2. /\ prun[c] = "none" /\ status[c] = "running" /\ \A v \in Workers : v # w => job[v] # c
    BY <1>0, <1>2, <2>1 DEF WorkerOK, BeginPcs
  <2>3. \A v \in Workers : v # w => job'[v] # c
    BY <1>1, <2>2 DEF WorkersKept
  <2>4. WorkerOK(w)'
    BY <1>1, <1>2, <2>1, <2>2, <2>3 DEF WorkerOK, BeginPcs, FinalizePcs, Claimed
  <2> QED
    BY <1>7, <2>1, <2>4
<1>11. CASE FinRead(w)
  <2>1. /\ pc[w] = "finRead" /\ msgs' = msgs /\ ~FinAdvance(w)
        /\ pc'[w] = "idle" \/ (pc'[w] = "finMark" /\ job'[w] = c)
    BY <1>0, <1>11 DEF FinRead, Goto, Idle, TInv, ProcTypes, FinAdvance
  <2>2. prun[c] # "none" /\ msgs[c]["mark"] = 0
    BY <1>0, <1>2, <2>1 DEF WorkerOK, FinalizePcs
  <2>3. WorkerOK(w)'
    BY <1>1, <1>2, <2>1, <2>2 DEF WorkerOK, BeginPcs, FinalizePcs, Claimed
  <2> QED
    BY <1>7, <2>1, <2>3
<1>12. CASE FailCount(w)
  <2>1. pc[w] = "failCount" /\ msgs' = msgs /\ ~FinAdvance(w) /\ pc'[w] = "idle"
    BY <1>12 DEF FailCount, Idle, TInv, ProcTypes, FinAdvance
  <2> QED
    BY <1>4, <1>7, <2>1
<1>13. CASE FinCheck(w)
  <2>1. /\ pc[w] = "finCheck" /\ ~FinAdvance(w)
        /\ \/ /\ stored[c] /\ prun[c] = "success" /\ pc'[w] = "finSucceed" /\ job'[w] = c /\ msgs' = msgs
           \/ /\ pc'[w] = "failRow" /\ job'[w] = c /\ msgs' = msgs
           \/ /\ Put(c, "fail") /\ pc'[w] = "idle"
    BY <1>0, <1>13 DEF FinCheck, Goto, Idle, TInv, ProcTypes, FinAdvance
  <2>2. prun[c] # "none" /\ msgs[c]["mark"] = 0
    BY <1>0, <1>2, <2>1 DEF WorkerOK, FinalizePcs
  <2>3. CASE msgs' = msgs /\ job'[w] = c
    <3>1. WorkerOK(w)'
      BY <1>1, <1>2, <1>4, <2>1, <2>2, <2>3 DEF WorkerOK, BeginPcs, FinalizePcs, Claimed
    <3> QED
      BY <1>7, <2>1, <2>3, <3>1
  <2>4. CASE Put(c, "fail") /\ pc'[w] = "idle"
    BY <1>8, <2>1, <2>2, <2>4
  <2> QED
    BY <2>1, <2>3, <2>4
<1>14. CASE RecoverDecide(w)
  <2>1. /\ pc[w] = "decide" /\ ~FinAdvance(w)
        /\ \/ /\ seen[w] /\ prun[c] = "success" /\ pc'[w] = "finRead" /\ job'[w] = c /\ msgs' = msgs
           \/ /\ seen[w] /\ child[c] = "success" /\ pc'[w] = "recRun" /\ job'[w] = c /\ msgs' = msgs
           \/ /\ seen[w] /\ runner[c] = "success" /\ Put(c, "relean") /\ pc'[w] = "idle"
           \/ /\ msgs' = msgs /\ pc'[w] = "idle"
           \/ /\ seen[w] /\ pc'[w] = "recFail" /\ Doomed(c) /\ job'[w] = c /\ msgs' = msgs
           \/ /\ pc'[w] = "failRow" /\ job'[w] = c /\ msgs' = msgs
    BY <1>0, <1>14 DEF RecoverDecide, Goto, Idle, TInv, ProcTypes, FinAdvance, Doomed
  <2>2. seen[w] => prun[c] # "none"
    BY <1>0, <1>2, <2>1 DEF WorkerOK
  <2>3. /\ msgs[c]["mark"] > 0 => Fresh(c)
        /\ msgs[c]["mark"] \in Nat
    BY <1>1, <1>2, PcNames DEF CycleOK, MsgTypes
  <2>4. CASE Put(c, "relean") /\ pc'[w] = "idle" /\ seen[w] /\ runner[c] = "success"
    BY <1>8, <2>1, <2>2, <2>3, <2>4 DEF Fresh
  <2>5. CASE msgs' = msgs
    <3>1. WorkerOK(w)'
      BY <1>1, <1>2, <1>4, <2>1, <2>2, <2>3, <2>4, <2>5 DEF WorkerOK, BeginPcs, FinalizePcs, Claimed, Fresh, Doomed
    <3> QED
      BY <1>7, <2>1, <2>5, <3>1
  <2> QED
    BY <2>1, <2>4, <2>5
<1> QED
  BY <1>5, <1>9, <1>10, <1>11, <1>12, <1>13, <1>14 DEF QuietStep

\* Steps that write the run, or the cycle's reference to it.
LEMMA RunWriteP ==
  ASSUME PInv, NEW w \in Workers, RunWrite(w)
  PROVE  PParts'
PROOF
<1> USE DEF PInv
<1>0. PICK c \in Cycles : c = job[w]
  BY RunWriteTypes DEF WorkerFrame
<1>1. /\ pc[w] # "idle" /\ OthersKept(c) /\ WorkersKept(w) /\ job'[w] \in {c, NoCycle}
      /\ UNCHANGED <<status, last>> /\ MsgTypes
  BY <1>0, RunWriteTypes DEF WorkerFrame, TInv
<1>2. WorkerOK(w) /\ CycleOK(c) /\ Claimed(c) /\ status'[c] \in ClaimedStates
  BY <1>0, <1>1 DEF WorkerOK, Claimed
<1>3. ASSUME prun[c] = "success" => prun'[c] = "success" PROVE LastOK'
  BY <1>1, <1>3, LastKept DEF OthersKept
<1>4. CASE create_walkforward_run(w)
  <2>1. /\ pc[w] = "create" /\ UNCHANGED <<stored, processed>>
        /\ \/ /\ DateOf(c) = next_trade_date(processed[DeploymentOf(c)])
              /\ prun'[c] = "queued" /\ child'[c] = "active" /\ runner'[c] = "none"
              /\ Renamed(c) /\ pc'[w] = "store" /\ job'[w] = c
           \/ /\ UNCHANGED <<prun, child, runner, msgs>> /\ pc'[w] \in {"yield", "failRow"} /\ job'[w] = c
    BY <1>0, <1>4 DEF create_walkforward_run, CanCreate, Renamed, Goto, runVars, depVars, TInv, ProcTypes, RunTypes
  <2>2. /\ prun[c] = "none" /\ status[c] = "running" /\ \A v \in Workers : v # w => job[v] # c
    BY <1>0, <1>2, <2>1 DEF WorkerOK, BeginPcs
  <2>3. \A v \in Workers : v # w => job'[v] # c
    BY <1>1, <2>2 DEF WorkersKept
  <2>4. LastOK' /\ \A e \in Cycles : e # c => CycleOK(e)'
    BY <1>1, <1>3, <2>1, <2>2, OthersFrame
  <2>5. CASE UNCHANGED <<prun, child, runner, msgs>> /\ pc'[w] \in {"yield", "failRow"} /\ job'[w] = c
    <3>1. ChainSame(c)
      BY <1>1, <2>1, <2>5 DEF ChainSame
    <3>2. CycleOK(c)'
      BY <1>2, <2>1, <3>1, CycleFrame
    <3>3. WorkerOK(w)'
      BY <1>1, <1>2, <2>2, <2>3, <2>5 DEF WorkerOK, BeginPcs, FinalizePcs, Claimed
    <3> QED
      BY <1>0, <1>1, <2>2, <2>4, <3>2, <3>3, WorkerP
  <2>6. CASE /\ DateOf(c) = next_trade_date(processed[DeploymentOf(c)])
             /\ prun'[c] = "queued" /\ child'[c] = "active" /\ runner'[c] = "none"
             /\ Renamed(c) /\ pc'[w] = "store" /\ job'[w] = c
    <3>1. Silent(c)
      BY <1>2, <2>2 DEF CycleOK
    <3>2. \A t \in ChainTasks : msgs'[c][t] = 0
      <4>1. /\ \A u \in Tasks :
                 msgs'[c][u] = IF u \in {"lean", "relean"} THEN 0
                               ELSE IF u = "oldLean" THEN msgs[c][u] + msgs[c]["lean"]
                               ELSE IF u = "oldRelean" THEN msgs[c][u] + msgs[c]["relean"]
                               ELSE msgs[c][u]
        BY <1>1, <2>6, RenamedIs
      <4> QED
        BY <3>1, <4>1, PcNames DEF Silent, ChainTasks
    <3>3. CycleOK(c)'
      <4>1. "mark" \in ChainTasks
        BY PcNames DEF ChainTasks
      <4> QED
        BY <1>1, <1>2, <2>1, <2>2, <2>6, <3>2, <4>1 DEF CycleOK, Claimed
    <3>4. WorkerOK(w)'
      BY <1>1, <1>2, <2>2, <2>3, <2>6, <3>2 DEF WorkerOK, BeginPcs, FinalizePcs, Claimed, Fresh, Silent
    <3> QED
      BY <1>0, <1>1, <2>2, <2>4, <3>3, <3>4, WorkerP
  <2> QED
    BY <2>1, <2>5, <2>6
<1>5. CASE StorePaperRun(w)
  <2>1. /\ pc[w] = "store" /\ pc'[w] = "dispatch" /\ job'[w] = c /\ UNCHANGED <<prun, child, runner, msgs, processed>>
        /\ stored'[c] = TRUE
    BY <1>0, <1>5 DEF StorePaperRun, Goto, runVars, depVars, TInv, ProcTypes, RowTypes
  <2>2. /\ Fresh(c) /\ Silent(c) /\ status[c] = "running" /\ \A v \in Workers : v # w => job[v] # c
    BY <1>0, <1>2, <2>1 DEF WorkerOK, BeginPcs
  <2>3. \A v \in Workers : v # w => job'[v] # c
    BY <1>1, <2>2 DEF WorkersKept
  <2>4. LastOK' /\ \A e \in Cycles : e # c => CycleOK(e)'
    BY <1>1, <1>3, <2>1, OthersFrame
  <2>5. CycleOK(c)'
    BY <1>1, <1>2, <2>1, <2>2 DEF CycleOK, Claimed, Fresh, Silent
  <2>6. WorkerOK(w)'
    BY <1>1, <1>2, <2>1, <2>2, <2>3 DEF WorkerOK, BeginPcs, FinalizePcs, Claimed, Fresh, Silent
  <2> QED
    BY <1>0, <1>1, <2>2, <2>4, <2>5, <2>6, WorkerP
<1>6. CASE RecoverRun(w)
  <2>1. /\ pc[w] = "recRun" /\ pc'[w] \in {"finRead", "failRow"} /\ job'[w] = c
        /\ UNCHANGED <<stored, child, runner, msgs>>
        /\ finalize_walkforward_run(c) \/ UNCHANGED <<prun, processed>>
    BY <1>0, <1>6 DEF RecoverRun, Goto, TInv, ProcTypes
  <2>2. prun[c] # "none" /\ msgs[c]["mark"] = 0
    BY <1>0, <1>2, <2>1 DEF WorkerOK, FinalizePcs
  <2>3. Onward(c) /\ \A e \in Cycles : CycleOK(e)'
    <3>1. CASE finalize_walkforward_run(c)
      BY <1>1, <2>1, <2>2, <3>1, FinalizeP
    <3>2. CASE UNCHANGED <<prun, processed>>
      <4>1. Onward(c) /\ ChainSame(c)
        BY <1>1, <2>1, <3>2 DEF Onward, Doomed, ChainSame
      <4> QED
        BY <1>1, <1>2, <3>2, <4>1, CycleFrame, OthersFrame
    <3> QED
      BY <2>1, <3>1, <3>2
  <2>4. LastOK'
    BY <1>3, <2>3 DEF Onward
  <2>5. prun'[c] # "none"
    BY <2>2, <2>3 DEF Onward
  <2>6. WorkerOK(w)'
    BY <1>2, <2>1, <2>2, <2>5 DEF WorkerOK, BeginPcs, FinalizePcs, Claimed
  <2> QED
    BY <1>0, <1>1, <1>2, <2>3, <2>4, <2>6, WorkerP
<1>7. CASE fail_walkforward_run(w)
  <2>1. /\ pc[w] = "recFail" /\ pc'[w] = "failRow" /\ job'[w] = c /\ prun'[c] = "failed"
        /\ UNCHANGED <<stored, child, runner, msgs, processed>>
    BY <1>0, <1>7 DEF fail_walkforward_run, Goto, depVars, TInv, ProcTypes, RunTypes
  <2>2. prun[c] # "none" /\ msgs[c]["mark"] = 0 /\ Doomed(c) /\ prun[c] \in {"queued", "running", "failed"}
    BY <1>0, <1>2, <2>1 DEF WorkerOK, FinalizePcs, Doomed, TInv, RunTypes
  <2>3. Onward(c)
    BY <2>1, <2>2 DEF Onward, Doomed
  <2>4. CycleOK(c)'
    BY <1>1, <1>2, <2>1, <2>2 DEF CycleOK, Claimed, Doomed
  <2>5. LastOK' /\ \A e \in Cycles : e # c => CycleOK(e)'
    BY <1>1, <1>3, <2>1, <2>3, OthersFrame DEF Onward
  <2>6. WorkerOK(w)'
    BY <1>2, <2>1 DEF WorkerOK, BeginPcs, FinalizePcs, Claimed
  <2> QED
    BY <1>0, <1>1, <1>2, <2>3, <2>4, <2>5, <2>6, WorkerP
<1> QED
  BY <1>4, <1>5, <1>6, <1>7 DEF RunWrite

\* A worker is lost.
LEMMA CrashP ==
  ASSUME PInv, NEW w \in Workers, Crash(w)
  PROVE  PParts'
PROOF
<1> USE DEF PInv
<1>0. PICK c \in Cycles : c = job[w]
  BY CrashTypes
<1>1. /\ pc[w] # "idle" /\ OthersKept(c) /\ WorkersKept(w) /\ job'[w] = NoCycle /\ pc'[w] = "idle"
      /\ UNCHANGED <<status, stored, prun, child, runner, processed, last>> /\ MsgTypes
  BY <1>0, CrashTypes DEF runVars, depVars, Crash, TInv
<1>2. WorkerOK(w) /\ CycleOK(c) /\ Claimed(c) /\ status'[c] \in ClaimedStates
  BY <1>0, <1>1 DEF WorkerOK, Claimed
<1>3. LastOK' /\ \A e \in Cycles : e # c => CycleOK(e)'
  BY <1>1, LastKept, OthersFrame
<1>4. WorkerOK(w)'
  BY <1>1 DEF WorkerOK, BeginPcs, FinalizePcs
<1>5. \A u \in Tasks : msgs'[c][u] = IF u = task[w] /\ u \in LateTasks THEN msgs[c][u] + 1 ELSE msgs[c][u]
  BY <1>0, <1>1, CrashIs
<1>6. Onward(c)
  BY <1>1, <1>5, PcNames DEF Onward, Doomed, LateTasks
<1>7. CycleOK(c)'
  <2>1. CASE task[w] = "finalizeCycle"
    <3>1. prun[c] # "none" /\ msgs[c]["mark"] = 0
      BY <1>0, <1>2, <2>1 DEF TaskInv, WorkerOK
    <3>2. msgs'[c]["mark"] = 0
      BY <3>1, <1>6 DEF Onward
    <3> QED
      BY <1>1, <1>2, <3>1, <3>2 DEF CycleOK, Claimed
  <2>2. CASE task[w] # "finalizeCycle"
    <3>1. task[w] \notin LateTasks \/ task[w] = "run"
      BY <2>2 DEF TaskInv, LateTasks
    <3>2. \A t \in ChainTasks : msgs'[c][t] = msgs[c][t]
      BY <1>5, <3>1 DEF ChainTasks
    <3>3. ChainSame(c)
      BY <1>1, <3>2 DEF ChainSame
    <3> QED
      BY <1>1, <1>2, <3>3, CycleFrame
  <2> QED
    BY <2>1, <2>2
<1> QED
  BY <1>0, <1>1, <1>2, <1>3, <1>4, <1>6, <1>7, WorkerP

\* Every step keeps the invariant.
LEMMA PStep ==
  ASSUME PInv, NoRetry, [Next]_vars
  PROVE  PInv'
PROOF
<1>1. TInv' /\ TaskInv'
  BY TypeStep, TaskStep DEF PInv
<1>2. PParts'
  <2>1. CASE \E w \in Workers : WorkerStep(w)
    BY <2>1, WorkerCases, StatusWriteP, QuietP, RunWriteP
  <2>2. CASE UNCHANGED vars
    <3>1. PParts /\ UNCHANGED <<status, stored, prun, child, runner, msgs, processed, last, pc, job, seen>>
      BY <2>2 DEF vars, PInv, PParts
    <3> QED
      BY <3>1 DEF PParts, WorkerOK, CycleOK, LastOK, Claimed, Silent, Fresh, Doomed
  <2> QED
    BY <2>1, <2>2, NextCases, ClientP, TakesP, CrashP, ChainAnyP
<1> QED
  BY <1>1, <1>2 DEF PInv, PParts

\* PInv always holds without retries.
LEMMA PInvariant ==
  ASSUME NoRetry
  PROVE  Spec => []PInv
PROOF
<1>1. PInv /\ [Next]_vars => PInv'
  BY PStep
<1> QED
  BY PInit, <1>1, PTL DEF Spec

\* A succeeded cycle has its stored, successful Paper run and a session that has
\* processed the date, for any number of deployments, dates and workers and with lost
\* workers, duplicate deliveries and recoveries, if the user does not run a
\* failed cycle again (transition_cycle, finalize_cycle, recover_orphaned_cycles).
THEOREM SucceededDaysAreRun ==
  ASSUME NoRetry
  PROVE  Spec => []SucceededHasRun
PROOF
<1>1. PInv => SucceededHasRun
  BY DEF PInv, CycleOK, SucceededHasRun
<1> QED
  BY <1>1, PInvariant, PTL

\* Under the same condition a deployment advances only over dates whose run
\* succeeded and which its session has processed.
THEOREM AdvanceFollowsRun ==
  ASSUME NoRetry
  PROVE  Spec => []AdvancedIsProcessed
PROOF
<1>1. PInv => AdvancedIsProcessed
  <2> SUFFICES ASSUME PInv, NEW d \in Deployments, last[d] # 0
               PROVE  prun[<<d, last[d]>>] = "success" /\ processed[d] >= last[d]
    BY DEF AdvancedIsProcessed
  <2>1. <<d, last[d]>> \in Cycles
    BY DEF PInv, TInv, DepTypes, Cycles
  <2>2. prun[<<d, last[d]>>] = "success" /\ CycleOK(<<d, last[d]>>)
    BY <2>1 DEF PInv, LastOK
  <2> QED
    BY <2>2 DEF CycleOK, DeploymentOf, DateOf
<1> QED
  BY <1>1, PInvariant, PTL

(***************************************************************************)
(* One execution at a time, for brokers that do not deliver the LEAN task  *)
(* twice.                                                                  *)
(***************************************************************************)
OneLean == "lean" \notin Redelivered

\* LEAN will not run (again) for the cycle.
Settled(c) == msgs[c]["mark"] = 0 /\ (msgs[c]["lean"] = 0 \/ runner[c] # "none")
LateEvidence == {"finalizeRun", "finalizeCycle", "relean", "refinalize", "fail"}

\* A cycle whose LEAN is still to come runs, has its run stored, and shows no
\* trace of an end.
Underway(c) ==
  /\ status[c] \in {"running", "finalizing"}
  /\ \A t \in LateEvidence : msgs[c][t] = 0
  /\ child[c] \notin {"success", "failed"} /\ prun[c] \notin {"success", "failed"} /\ stored[c]

CycleE(c) ==
  /\ msgs[c]["lean"] <= 1 /\ msgs[c]["oldLean"] = 0 /\ msgs[c]["oldRelean"] = 0
  /\ ~Settled(c) => Underway(c)

EndPcs == {"failRow", "failCount", "recRun", "recFail"} \cup FinalizePcs
WorkerE(w) ==
  /\ pc[w] \in EndPcs => Settled(job[w])
  /\ pc[w] = "decide" /\ ~seen[w] => Settled(job[w])
  /\ pc[w] = "dispatch" => stored[job[w]]

EInv == (\A c \in Cycles : CycleE(c)) /\ (\A w \in Workers : WorkerE(w))

\* The account executes the cycle.
Executing(c) == Preparing(c) # {} \/ ~Settled(c)
AInv == \A c, e \in Cycles : c # e => ~(Executing(c) /\ Executing(e))

\* A silent cycle is settled.
LEMMA SilentSettled ==
  ASSUME NEW c, Silent(c)
  PROVE  Settled(c)
PROOF BY PcNames DEF Silent, Settled, ChainTasks

\* So is one without a run.
LEMMA NoRunSettled ==
  ASSUME PInv, NEW c \in Cycles, prun[c] = "none"
  PROVE  Settled(c)
PROOF BY SilentSettled DEF PInv, CycleOK

\* What a step may do to the messages and the runner that LEAN depends on.
Steady(c) ==
  /\ runner'[c] = runner[c]
  /\ \A t \in {"mark", "lean", "oldLean", "oldRelean"} : msgs'[c][t] = msgs[c][t]

\* The clients leave alone what LEAN depends on.
LEMMA ClientSteady ==
  ASSUME TInv, NEW e \in Cycles, ClientAny(e), NEW c \in Cycles
  PROVE  Steady(c) /\ \A t \in ChainTasks : msgs'[c][t] = msgs[c][t]
PROOF
<1>1. UNCHANGED runVars /\ (msgs' = msgs \/ Put(e, "run"))
  BY ClientTypes
<1>2. \A t \in ChainTasks : msgs'[c][t] = msgs[c][t]
  <2>1. CASE msgs' = msgs
    BY <2>1
  <2>2. CASE Put(e, "run")
    <3>1. /\ \A f \in Cycles : f # e => msgs'[f] = msgs[f]
          /\ \A u \in Tasks : msgs'[e][u] = IF u = "run" THEN msgs[e][u] + 1 ELSE msgs[e][u]
      BY <2>2, PutIs, PcNames DEF TInv
    <3> QED
      BY <3>1 DEF ChainTasks
  <2> QED
    BY <1>1, <2>1, <2>2
<1> QED
  BY <1>1, <1>2, PcNames DEF Steady, runVars, ChainTasks

\* So does a worker that takes up a message.
LEMMA TakesSteady ==
  ASSUME TInv, NEW w \in Workers, NEW e \in Cycles, TakesUp(w, e), NEW c \in Cycles
  PROVE  /\ Steady(c) /\ \A t \in Tasks : msgs'[c][t] <= msgs[c][t]
         /\ FinalizeStart(w, e) => msgs[e]["finalizeCycle"] > 0
         /\ FailStart(w, e) => msgs[e]["fail"] > 0
PROOF
<1>1. OthersKept(e) /\ UNCHANGED runVars /\ msgs[c] \in [Tasks -> Nat]
  BY TakesTypes DEF TInv, MsgTypes
<1>2. CASE c # e
  <2>1. msgs'[c] = msgs[c]
    BY <1>1, <1>2 DEF OthersKept
  <2>2. Steady(c) /\ \A t \in Tasks : msgs'[c][t] <= msgs[c][t]
    BY <1>1, <2>1 DEF Steady, runVars
  <2>3. /\ FinalizeStart(w, e) => msgs[e]["finalizeCycle"] > 0
        /\ FailStart(w, e) => msgs[e]["fail"] > 0
    BY DEF FinalizeStart, FailStart, Take
  <2> QED
    BY <2>2, <2>3
<1>3. CASE c = e
  <2>1. CASE RecoverPick(w, e)
    <3>1. msgs' = msgs
      BY <2>1 DEF RecoverPick
    <3>2. /\ FinalizeStart(w, e) => msgs[e]["finalizeCycle"] > 0
          /\ FailStart(w, e) => msgs[e]["fail"] > 0
      BY DEF FinalizeStart, FailStart, Take
    <3> QED
      BY <1>1, <3>1, <3>2 DEF Steady, runVars
  <2>2. CASE ~RecoverPick(w, e)
    <3>1. PICK t \in {"run", "finalizeCycle", "fail"} :
            /\ Take(c, t)
            /\ FinalizeStart(w, e) => msgs[e]["finalizeCycle"] > 0
            /\ FailStart(w, e) => msgs[e]["fail"] > 0
      BY <1>3, <2>2 DEF TakesUp, claim_cycle_for_worker, FinalizeStart, FailStart, Take
    <3>2. \A u \in Tasks : msgs'[c][u] = IF u = t THEN msgs[c][u] - 1 ELSE msgs[c][u]
      BY <3>1, TakeIs, PcNames DEF TInv
    <3> QED
      BY <1>1, <3>1, <3>2, PcNames DEF Steady, runVars
  <2> QED
    BY <2>1, <2>2
<1> QED
  BY <1>2, <1>3

\* A lost worker gives a late message back only where one is evidence already.
LEMMA CrashSteady ==
  ASSUME PInv, EInv, NEW w \in Workers, Crash(w), NEW c \in Cycles
  PROVE  /\ Steady(c)
         /\ \A t \in LateEvidence : msgs'[c][t] = msgs[c][t] \/ Settled(c)
PROOF
<1> USE DEF PInv
<1>1. job[w] \in Cycles /\ OthersKept(job[w]) /\ UNCHANGED runVars /\ MsgTypes
  BY CrashTypes DEF TInv
<1>2. CASE c # job[w]
  BY <1>1, <1>2 DEF OthersKept, Steady, runVars
<1>3. CASE c = job[w]
  <2>1. \A u \in Tasks : msgs'[c][u] = IF u = task[w] /\ u \in LateTasks THEN msgs[c][u] + 1 ELSE msgs[c][u]
    BY <1>1, <1>3, CrashIs
  <2>2. task[w] \in LateTasks => task[w] \in {"run", "finalizeCycle"}
    BY DEF TaskInv, LateTasks
  <2>3. task[w] = "finalizeCycle" => Settled(c)
    BY <1>3 DEF TaskInv, EInv, WorkerE, EndPcs
  <2>4. LateEvidence \subseteq Tasks
    BY PcNames DEF LateEvidence
  <2> QED
    BY <1>1, <2>1, <2>2, <2>3, <2>4, PcNames DEF Steady, runVars, LateEvidence
<1> QED
  BY <1>2, <1>3

\* Such a step neither settles a cycle nor unsettles it.
LEMMA SteadySettled ==
  ASSUME NEW c, Steady(c)
  PROVE  Settled(c) <=> Settled(c)'
PROOF BY DEF Steady, Settled

\* A worker that does not move keeps what EInv says of it.
LEMMA WorkerEKept ==
  ASSUME NEW v \in Workers, NEW c, c = job[v], WorkerE(v),
         pc'[v] = pc[v], job'[v] = job[v], seen'[v] = seen[v],
         pc[v] # "idle" => (Settled(c) => Settled(c)') /\ (stored[c] => stored'[c])
  PROVE  WorkerE(v)'
PROOF
<1>1. job'[v] = c
  OBVIOUS
<1>2. pc[v] \in EndPcs => pc[v] # "idle"
  BY DEF EndPcs, FinalizePcs
<1> QED
  BY <1>1, <1>2 DEF WorkerE, Settled

\* A row that is under way is not written by dispatchers or deliveries.
LEMMA CycleEKept ==
  ASSUME TInv, NEW c \in Cycles, CycleE(c), Steady(c),
         status[c] \in {"running", "finalizing"} => status'[c] = status[c],
         prun'[c] = prun[c], child'[c] = child[c], stored'[c] = stored[c],
         MsgTypes', \A t \in LateEvidence : msgs'[c][t] <= msgs[c][t] \/ Settled(c)
  PROVE  CycleE(c)'
PROOF
<1>1. LateEvidence \subseteq Tasks
  BY PcNames DEF LateEvidence
<1>2. \A t \in LateEvidence : msgs'[c][t] \in Nat /\ msgs[c][t] \in Nat
  BY <1>1 DEF TInv, MsgTypes
<1>3. ~Settled(c)' => Underway(c)'
  <2> SUFFICES ASSUME ~Settled(c)' PROVE Underway(c)'
    OBVIOUS
  <2>1. ~Settled(c) /\ Underway(c)
    BY SteadySettled DEF CycleE
  <2>2. \A t \in LateEvidence : msgs'[c][t] = 0
    BY <1>2, <2>1 DEF Underway
  <2> QED
    BY <2>1, <2>2 DEF Underway
<1> QED
  BY <1>3 DEF CycleE, Steady

\* The clients keep EInv.
LEMMA ClientE ==
  ASSUME PInv, EInv, NoRetry, NEW e \in Cycles, ClientAny(e)
  PROVE  EInv'
PROOF
<1> USE DEF PInv
<1>1. /\ UNCHANGED <<stored, prun, child, runner, pc, job, seen>> /\ MsgTypes'
  BY ClientTypes DEF runVars, procVars
<1>2. \A c \in Cycles : status[c] \in {"running", "finalizing"} => status'[c] = status[c]
  BY DEF ClientAny, run_now, schedule_due_deployment, SkipClosedDate, QueueCycle, PublishCycle,
         ClientCrash, ensure_cycle, transition_cycle, DispatchFrom, NoRetry, TInv, RowTypes
<1>3. ASSUME NEW c \in Cycles PROVE CycleE(c)' /\ (Settled(c) => Settled(c)')
  <2>1. Steady(c) /\ (\A t \in ChainTasks : msgs'[c][t] = msgs[c][t]) /\ CycleE(c)
    BY ClientSteady DEF EInv
  <2>2. LateEvidence \subseteq ChainTasks /\ msgs[c] \in [Tasks -> Nat]
    BY PcNames DEF LateEvidence, ChainTasks, TInv, MsgTypes
  <2>3. \A t \in LateEvidence : msgs'[c][t] <= msgs[c][t]
    BY <2>1, <2>2 DEF ChainTasks
  <2> QED
    BY <1>1, <1>2, <2>1, <2>3, CycleEKept, SteadySettled
<1>4. ASSUME NEW v \in Workers PROVE WorkerE(v)'
  BY <1>1, <1>3, WorkerEKept DEF EInv, TInv, ProcTypes
<1> QED
  BY <1>3, <1>4 DEF EInv

\* Taking a message keeps it.
LEMMA TakesE ==
  ASSUME PInv, EInv, NEW w \in Workers, NEW e \in Cycles, TakesUp(w, e)
  PROVE  EInv'
PROOF
<1> USE DEF PInv
<1>1. /\ UNCHANGED <<stored, prun, child, runner>> /\ WorkersKept(w) /\ pc[w] = "idle" /\ MsgTypes'
  BY TakesTypes DEF runVars
<1>2. \A c \in Cycles : status[c] \in {"running", "finalizing"} => status'[c] = status[c]
  BY DEF TakesUp, claim_cycle_for_worker, FinalizeStart, FailStart, RecoverPick,
         CLAIMABLE_CYCLE_STATES, TInv, RowTypes
<1>3. ASSUME NEW c \in Cycles PROVE CycleE(c)' /\ (Settled(c) => Settled(c)')
  <2>1. Steady(c) /\ (\A t \in Tasks : msgs'[c][t] <= msgs[c][t]) /\ CycleE(c)
    BY TakesSteady DEF EInv
  <2>2. LateEvidence \subseteq Tasks
    BY PcNames DEF LateEvidence
  <2>3. \A t \in LateEvidence : msgs'[c][t] <= msgs[c][t]
    BY <2>1, <2>2
  <2> QED
    BY <1>1, <1>2, <2>1, <2>3, CycleEKept, SteadySettled
<1>4. ASSUME NEW v \in Workers, v # w PROVE WorkerE(v)'
  <2>1. WorkerE(v) /\ pc'[v] = pc[v] /\ job'[v] = job[v] /\ seen'[v] = seen[v]
    BY <1>1, <1>4 DEF EInv, WorkersKept
  <2> QED
    BY <1>1, <1>3, <2>1, WorkerEKept DEF TInv, ProcTypes
<1>5. WorkerE(w)'
  <2>1. CASE claim_cycle_for_worker(w, e)
    <3>1. pc'[w] \in {"idle", "begin"}
      BY <1>1, <2>1 DEF claim_cycle_for_worker, Begin, TInv, ProcTypes
    <3> QED
      BY <3>1 DEF WorkerE, EndPcs, FinalizePcs
  <2>2. CASE FinalizeStart(w, e) \/ FailStart(w, e)
    <3>1. job'[w] = e /\ pc'[w] \in {"finRead", "failRow"}
      BY <2>2 DEF FinalizeStart, FailStart, Begin, TInv, ProcTypes
    <3>2. CycleE(e) /\ (msgs[e]["finalizeCycle"] > 0 \/ msgs[e]["fail"] > 0)
      BY <2>2, TakesSteady DEF EInv
    <3>3. Settled(e)
      BY <3>2 DEF CycleE, Underway, LateEvidence
    <3>4. Settled(e)'
      BY <1>3, <3>3
    <3> QED
      BY <3>1, <3>4 DEF WorkerE, Settled
  <2>3. CASE RecoverPick(w, e)
    <3>1. job'[w] = e /\ pc'[w] = "decide" /\ seen'[w] = stored[e]
      BY <2>3 DEF RecoverPick, Begin, TInv, ProcTypes
    <3>2. ~stored[e] => Settled(e)'
      BY <1>3 DEF EInv, CycleE, Underway
    <3> QED
      BY <3>1, <3>2 DEF WorkerE, Settled, EndPcs, FinalizePcs
  <2> QED
    BY <2>1, <2>2, <2>3 DEF TakesUp
<1> QED
  BY <1>3, <1>4, <1>5 DEF EInv

\* Losing a worker keeps it.
LEMMA CrashE ==
  ASSUME PInv, EInv, NEW w \in Workers, Crash(w)
  PROVE  EInv'
PROOF
<1> USE DEF PInv
<1>1. /\ UNCHANGED <<status, stored, prun, child, runner>> /\ WorkersKept(w) /\ pc'[w] = "idle" /\ MsgTypes'
  BY CrashTypes DEF runVars
<1>2. ASSUME NEW c \in Cycles PROVE CycleE(c)' /\ (Settled(c) => Settled(c)')
  <2>1. Steady(c) /\ (\A t \in LateEvidence : msgs'[c][t] = msgs[c][t] \/ Settled(c)) /\ CycleE(c)
    BY CrashSteady DEF EInv
  <2>2. LateEvidence \subseteq Tasks /\ msgs[c] \in [Tasks -> Nat]
    BY PcNames DEF LateEvidence, TInv, MsgTypes
  <2>3. \A t \in LateEvidence : msgs'[c][t] <= msgs[c][t] \/ Settled(c)
    BY <2>1, <2>2
  <2> QED
    BY <1>1, <2>1, <2>3, CycleEKept, SteadySettled
<1>3. ASSUME NEW v \in Workers, v # w PROVE WorkerE(v)'
  <2>1. WorkerE(v) /\ pc'[v] = pc[v] /\ job'[v] = job[v] /\ seen'[v] = seen[v]
    BY <1>1, <1>3 DEF EInv, WorkersKept
  <2> QED
    BY <1>1, <1>2, <2>1, WorkerEKept DEF TInv, ProcTypes
<1>4. WorkerE(w)'
  BY <1>1 DEF WorkerE, EndPcs, FinalizePcs
<1> QED
  BY <1>2, <1>3, <1>4 DEF EInv

\* Only the publication of a chain unsettles a cycle.
SettledStays ==
  \A e \in Cycles : Settled(e) => \/ Settled(e)'
                                  \/ \E w \in Workers : DispatchChain(w) /\ job[w] = e

\* The chain, the runner and the recoveries keep it.
LEMMA ChainE ==
  ASSUME PInv, EInv, OneLean, NEW c \in Cycles, ChainAny(c)
  PROVE  EInv' /\ SettledStays
PROOF
<1> USE DEF PInv
<1>0. /\ UNCHANGED <<status, stored, procVars>> /\ OthersKept(c) /\ MsgTypes /\ MsgTypes'
  BY ChainTypes DEF OthersKept, TInv
<1>a. CycleOK(c) /\ CycleE(c) /\ msgs[c] \in [Tasks -> Nat]
  BY DEF TInv, MsgTypes, EInv
<1>b. \A t \in ChainTasks : t # "mark" /\ msgs[c][t] > 0 => msgs[c]["mark"] = 0
  BY <1>a, PcNames DEF CycleOK, ChainTasks
<1>c. \A t \in LateEvidence : msgs[c][t] > 0 => Settled(c)
  BY <1>a DEF CycleE, Underway
<1>1. ASSUME CycleE(c)', Settled(c) => Settled(c)' PROVE EInv' /\ SettledStays
  <2>1. ASSUME NEW e \in Cycles PROVE CycleE(e)' /\ (Settled(e) => Settled(e)')
    <3>1. CASE e = c
      BY <1>1, <3>1
    <3>2. CASE e # c
      <4>1. /\ status'[e] = status[e] /\ stored'[e] = stored[e] /\ prun'[e] = prun[e]
            /\ child'[e] = child[e] /\ runner'[e] = runner[e] /\ msgs'[e] = msgs[e] /\ CycleE(e)
        BY <1>0, <3>2 DEF OthersKept, EInv
      <4> QED
        BY <4>1 DEF CycleE, Settled, Underway
    <3> QED
      BY <3>1, <3>2
  <2>2. ASSUME NEW v \in Workers PROVE WorkerE(v)'
    <3>1. WorkerE(v) /\ pc'[v] = pc[v] /\ job'[v] = job[v] /\ seen'[v] = seen[v] /\ stored' = stored
      BY <1>0 DEF EInv, procVars
    <3> QED
      BY <2>1, <3>1, WorkerEKept DEF TInv, ProcTypes
  <2> QED
    BY <2>1, <2>2 DEF EInv, SettledStays
<1>2. ASSUME Settled(c)', msgs'[c]["lean"] <= 1,
             msgs'[c]["oldLean"] = 0, msgs'[c]["oldRelean"] = 0
      PROVE  EInv' /\ SettledStays
  BY <1>1, <1>2 DEF CycleE
<1>3. ASSUME Settled(c), Steady(c) PROVE EInv' /\ SettledStays
  BY <1>2, <1>3, <1>a, SteadySettled DEF Steady, CycleE
<1>4. CASE mark_walkforward_running(c)
  <2>1. /\ msgs[c]["mark"] > 0
        /\ \A u \in Tasks : msgs'[c][u] = IF u = "mark" THEN msgs[c][u] - 1
                                          ELSE IF u = "lean" THEN msgs[c][u] + 1 ELSE msgs[c][u]
    BY <1>0, <1>4, PassIs, PcNames DEF mark_walkforward_running
  <2>2. msgs[c]["mark"] = 1 /\ msgs[c]["lean"] = 0 /\ ~Settled(c)
    BY <1>a, <2>1, PcNames DEF CycleOK, ChainTasks, Settled
  <2>3. /\ msgs'[c]["lean"] = 1
        /\ msgs'[c]["oldLean"] = msgs[c]["oldLean"] /\ msgs'[c]["oldRelean"] = msgs[c]["oldRelean"]
        /\ \A t \in LateEvidence : msgs'[c][t] = msgs[c][t]
    BY <2>1, <2>2, PcNames DEF LateEvidence
  <2>4. prun'[c] = "running" /\ child' = child
    BY <1>4 DEF mark_walkforward_running, TInv, RunTypes
  <2>5. Underway(c)'
    BY <1>0, <1>a, <2>2, <2>3, <2>4 DEF CycleE, Underway
  <2>6. CycleE(c)'
    BY <1>a, <2>3, <2>5 DEF CycleE
  <2> QED
    BY <1>1, <2>2, <2>6
<1>5. CASE \E t \in DOMAIN NextTask : LeanEnds(c, t)
  <2>1. PICK t \in DOMAIN NextTask : LeanEnds(c, t)
    BY <1>5
  <2>2. /\ t \in {"lean", "oldLean", "relean", "oldRelean"}
        /\ NextTask[t] \in {"finalizeRun", "refinalize"}
    BY DEF NextTask
  <2>3. Pass(c, t, NextTask[t]) /\ runner' = runner
    BY <2>1 DEF LeanEnds
  <2>4. /\ msgs[c][t] > 0
        /\ \A u \in Tasks : msgs'[c][u] = IF u = t THEN msgs[c][u] - 1
                                          ELSE IF u = NextTask[t] THEN msgs[c][u] + 1 ELSE msgs[c][u]
    BY <1>0, <2>2, <2>3, PassIs, PcNames
  <2>5. t \in {"lean", "relean"}
    BY <1>a, <2>2, <2>4 DEF CycleE
  <2>6. /\ msgs[c]["mark"] = 0 /\ msgs'[c]["mark"] = 0
        /\ msgs'[c]["oldLean"] = 0 /\ msgs'[c]["oldRelean"] = 0
    BY <1>a, <1>b, <2>2, <2>4, <2>5, PcNames DEF CycleE, ChainTasks
  <2>7. CASE t = "lean"
    <3>1. msgs'[c]["lean"] = 0
      BY <1>a, <2>4, <2>7, PcNames DEF CycleE
    <3> QED
      BY <1>2, <2>6, <3>1 DEF Settled
  <2>8. CASE t = "relean"
    <3>1. Settled(c) /\ msgs'[c]["lean"] = msgs[c]["lean"]
      BY <1>c, <2>2, <2>4, <2>8, PcNames DEF LateEvidence
    <3> QED
      BY <1>2, <1>a, <2>3, <2>6, <3>1 DEF Settled, CycleE
  <2> QED
    BY <2>5, <2>7, <2>8
<1>6. CASE LeanRaises(c)
  <2>1. /\ msgs[c]["lean"] > 0
        /\ \A u \in Tasks : msgs'[c][u] = IF u = "lean" THEN msgs[c][u] - 1
                                          ELSE IF u = "fail" THEN msgs[c][u] + 1 ELSE msgs[c][u]
    BY <1>0, <1>6, PassIs, PcNames DEF LeanRaises
  <2>2. /\ msgs'[c]["lean"] = 0 /\ msgs'[c]["mark"] = 0
        /\ msgs'[c]["oldLean"] = 0 /\ msgs'[c]["oldRelean"] = 0
    BY <1>a, <1>b, <2>1, PcNames DEF CycleE, ChainTasks
  <2> QED
    BY <1>2, <2>2 DEF Settled
<1>7. CASE FinalizeRun(c) \/ FinalizeRunRaises(c)
  <2>1. runner' = runner
    BY <1>7 DEF FinalizeRun, FinalizeRunRaises, runVars
  <2>2. \/ \E u \in {"finalizeCycle", "fail"} : Pass(c, "finalizeRun", u)
        \/ Take(c, "refinalize")
    BY <1>7 DEF FinalizeRun, FinalizeRunRaises
  <2>3. /\ msgs[c]["finalizeRun"] > 0 \/ msgs[c]["refinalize"] > 0
        /\ \A t \in {"mark", "lean", "oldLean", "oldRelean"} : msgs'[c][t] = msgs[c][t]
    BY <1>0, <2>2, PassIs, TakeIs, PcNames
  <2> QED
    BY <1>3, <1>c, <2>1, <2>3 DEF Steady, LateEvidence
<1>8. CASE RunnerEnds(c)
  <2>1. /\ msgs' = msgs /\ runner'[c] # "none" /\ msgs[c]["lean"] + msgs[c]["relean"] > 0
    BY <1>8 DEF RunnerEnds, TInv, RunTypes
  <2>2. msgs[c]["lean"] > 0 \/ msgs[c]["relean"] > 0
    BY <1>a, <2>1, PcNames
  <2>3. msgs[c]["mark"] = 0
    BY <1>b, <2>2, PcNames DEF ChainTasks
  <2> QED
    BY <1>2, <1>a, <2>1, <2>3 DEF Settled, CycleE
<1>9. CASE MarkLost(c)
  <2>1. /\ msgs[c]["mark"] > 0
        /\ \A u \in Tasks : msgs'[c][u] = IF u = "mark" THEN msgs[c][u] - 1 ELSE msgs[c][u]
    BY <1>0, <1>9, TakeIs, PcNames DEF MarkLost
  <2>2. msgs[c]["mark"] = 1 /\ msgs[c]["lean"] = 0
    BY <1>a, <2>1, PcNames DEF CycleOK, ChainTasks
  <2>3. /\ msgs'[c]["mark"] = 0 /\ msgs'[c]["lean"] = 0
        /\ msgs'[c]["oldLean"] = 0 /\ msgs'[c]["oldRelean"] = 0
    BY <1>a, <2>1, <2>2, PcNames DEF CycleE
  <2> QED
    BY <1>2, <2>3 DEF Settled
<1>10. CASE \/ recover_stale_queued_dispatch(c) \/ recover_paper_finalization(c)
            \/ \E t \in Redelivered : Redeliver(c, t)
  <2>1. PICK t \in {"run", "finalizeRun", "finalizeCycle", "refinalize"} :
          Put(c, t) /\ (t = "run" \/ child[c] = "success" \/ msgs[c][t] > 0)
    <3>1. CASE \E u \in Redelivered : Redeliver(c, u)
      <4>1. PICK u \in Redelivered : Redeliver(c, u)
        BY <3>1
      <4>2. u \in {"run", "finalizeRun", "finalizeCycle"}
        BY CycleFaultsAssumption DEF LateTasks, OneLean
      <4>3. Put(c, u) /\ msgs[c][u] > 0
        BY <4>1, CycleBoundsAssumption DEF Redeliver
      <4> QED
        BY <4>2, <4>3
    <3>2. CASE recover_stale_queued_dispatch(c) \/ recover_paper_finalization(c)
      BY <3>2 DEF recover_stale_queued_dispatch, recover_paper_finalization
    <3> QED
      BY <1>10, <3>1, <3>2
  <2>2. UNCHANGED <<prun, child, runner>>
    BY <1>10 DEF recover_stale_queued_dispatch, recover_paper_finalization, Redeliver, runVars
  <2>3. \A u \in Tasks : msgs'[c][u] = IF u = t THEN msgs[c][u] + 1 ELSE msgs[c][u]
    BY <1>0, <2>1, PutIs, PcNames
  <2>4. Steady(c)
    BY <2>1, <2>2, <2>3, PcNames DEF Steady
  <2>5. CASE t = "run"
    <3>1. \A u \in LateEvidence : msgs'[c][u] <= msgs[c][u]
      BY <1>a, <2>3, <2>5, PcNames DEF LateEvidence
    <3>2. CycleE(c)'
      BY <1>0, <1>a, <2>2, <2>4, <3>1, CycleEKept
    <3> QED
      BY <1>1, <2>4, <3>2, SteadySettled
  <2>6. CASE t # "run"
    <3>1. Settled(c)
      BY <1>a, <1>c, <2>1, <2>6 DEF LateEvidence, CycleE, Underway
    <3> QED
      BY <1>3, <2>4, <3>1
  <2> QED
    BY <2>5, <2>6
<1> QED
  BY <1>4, <1>5, <1>6, <1>7, <1>8, <1>9, <1>10 DEF ChainAny

\* The step of a worker.
LEMMA WorkerStepE ==
  ASSUME PInv, EInv, NEW w \in Workers, WorkerStep(w)
  PROVE  EInv' /\ SettledStays
PROOF
<1> USE DEF PInv
<1>0. PICK c \in Cycles : c = job[w]
  BY WorkerCases, StatusWriteTypes, QuietTypes, RunWriteTypes DEF WorkerFrame
<1>1. /\ pc[w] # "idle" /\ OthersKept(c) /\ WorkersKept(w) /\ MsgTypes /\ MsgTypes'
  BY <1>0, WorkerCases, StatusWriteTypes, QuietTypes, RunWriteTypes DEF WorkerFrame, TInv, MsgTypes
<1>a. CycleOK(c) /\ CycleE(c) /\ WorkerOK(w) /\ WorkerE(w) /\ msgs[c] \in [Tasks -> Nat]
  BY <1>1 DEF EInv, MsgTypes
<1>b. prun[c] = "none" => Settled(c)
  BY NoRunSettled
<1>2. ASSUME CycleE(c)', WorkerE(w)',
             Settled(c) => Settled(c)' \/ DispatchChain(w),
             \/ (Settled(c) => Settled(c)') /\ (stored[c] => stored'[c])
             \/ \A v \in Workers : v # w => job[v] # c
      PROVE  EInv' /\ SettledStays
  <2>1. ASSUME NEW e \in Cycles, e # c
        PROVE  CycleE(e)' /\ (Settled(e) => Settled(e)') /\ stored'[e] = stored[e]
    <3>1. /\ status'[e] = status[e] /\ stored'[e] = stored[e] /\ prun'[e] = prun[e]
          /\ child'[e] = child[e] /\ runner'[e] = runner[e] /\ msgs'[e] = msgs[e] /\ CycleE(e)
      BY <1>1, <2>1 DEF OthersKept, EInv
    <3> QED
      BY <3>1 DEF CycleE, Settled, Underway
  <2>2. ASSUME NEW v \in Workers, v # w PROVE WorkerE(v)'
    <3>1. WorkerE(v) /\ pc'[v] = pc[v] /\ job'[v] = job[v] /\ seen'[v] = seen[v]
      BY <1>1, <2>2 DEF EInv, WorkersKept
    <3>2. pc[v] # "idle" => job[v] \in Cycles
      BY DEF TInv, ProcTypes
    <3>3. CASE job[v] = c
      BY <1>2, <2>2, <3>1, <3>3, WorkerEKept
    <3>4. CASE job[v] # c
      BY <2>1, <3>1, <3>2, <3>4, WorkerEKept
    <3> QED
      BY <3>3, <3>4
  <2> QED
    BY <1>0, <1>2, <2>1, <2>2 DEF EInv, SettledStays
<1>3. ASSUME NEW d \in Cycles, d = c, pc'[w] \in BusyPcs => job'[w] = d,
             pc'[w] = "dispatch" => stored'[d],
             pc'[w] \in EndPcs \/ (pc'[w] = "decide" /\ ~seen'[w]) => Settled(d)'
      PROVE  WorkerE(w)'
  <2>1. pc'[w] \in EndPcs \cup {"decide", "dispatch"} => job'[w] = d
    BY <1>3, PcNames DEF EndPcs, FinalizePcs
  <2> QED
    BY <1>3, <2>1 DEF WorkerE, Settled
<1>4. CASE StatusWrite(w)
  <2>1. UNCHANGED <<stored, prun, child, runner, msgs>>
    BY <1>4, StatusWriteTypes DEF runVars
  <2>2. Settled(c) <=> Settled(c)'
    BY <2>1 DEF Settled
  <2>3. /\ pc'[w] \in BusyPcs => job'[w] = c
        /\ \/ pc[w] = "yield" /\ pc'[w] = "idle"
           \/ pc[w] = "begin" /\ pc'[w] = "busy" /\ status'[c] \in {"running", status[c]}
           \/ pc[w] = "finMark" /\ pc'[w] = "finCheck"
           \/ pc[w] = "finSucceed" /\ pc'[w] = "finAdvance"
           \/ pc[w] = "failRow" /\ pc'[w] = "failCount"
    BY <1>0, <1>4 DEF StatusWrite, BeginCycle, YieldCycle, FinMark, FinSucceed, FailRow, Goto, Idle,
                  transition_cycle, TInv, ProcTypes, RowTypes, BusyPcs
  <2>4. pc[w] = "yield" => prun[c] = "none"
    BY <1>0, <1>a DEF WorkerOK
  <2>5. pc[w] \in {"finMark", "finSucceed", "failRow"} => Settled(c)
    BY <1>0, <1>a DEF WorkerE, EndPcs, FinalizePcs
  <2>6. CycleE(c)'
    <3>1. CASE Settled(c)
      BY <1>a, <2>1, <2>2, <3>1 DEF CycleE
    <3>2. CASE ~Settled(c)
      BY <1>a, <1>b, <2>1, <2>2, <2>3, <2>4, <2>5, <3>2 DEF CycleE, Underway
    <3> QED
      BY <3>1, <3>2
  <2>7. WorkerE(w)'
    BY <1>3, <2>2, <2>3, <2>5 DEF EndPcs, FinalizePcs
  <2> QED
    BY <1>2, <2>1, <2>2, <2>6, <2>7
<1>5. CASE QuietStep(w)
  <2>1. UNCHANGED <<status, stored, prun, child, runner>>
    BY <1>5, QuietTypes DEF runVars
  <2>2. CASE DispatchChain(w)
    <3>1. Put(c, "mark") /\ pc[w] = "dispatch" /\ pc'[w] = "idle"
      BY <1>0, <2>2 DEF DispatchChain, Idle, TInv, ProcTypes
    <3>2. /\ Fresh(c) /\ Silent(c) /\ status[c] = "running" /\ stored[c]
          /\ \A v \in Workers : v # w => job[v] # c
      BY <1>0, <1>a, <3>1 DEF WorkerOK, WorkerE, BeginPcs
    <3>3. \A u \in Tasks : msgs'[c][u] = IF u = "mark" THEN msgs[c][u] + 1 ELSE msgs[c][u]
      BY <1>1, <3>1, PutIs, PcNames
    <3>4. \A t \in ChainTasks \ {"mark"} : msgs'[c][t] = 0
      BY <3>2, <3>3 DEF Silent, ChainTasks
    <3>5. CycleE(c)'
      BY <2>1, <3>2, <3>4, PcNames DEF CycleE, Underway, LateEvidence, ChainTasks, Fresh
    <3>6. WorkerE(w)'
      BY <3>1 DEF WorkerE, EndPcs, FinalizePcs
    <3> QED
      BY <1>2, <2>2, <3>2, <3>5, <3>6
  <2>3. CASE ~DispatchChain(w)
    <3>1. /\ pc'[w] \in BusyPcs => job'[w] = c
          /\ \/ msgs' = msgs /\ pc'[w] \in {"idle", "yield", "create"}
             \/ msgs' = msgs /\ pc[w] \in FinalizePcs /\ pc'[w] \in EndPcs
             \/ msgs' = msgs /\ pc[w] = "decide" /\ pc'[w] \in EndPcs
                /\ (~seen[w] \/ child[c] \in {"success", "failed"} \/ runner[c] # "none"
                      \/ prun[c] \in {"none", "success", "failed"})
             \/ Put(c, "fail") /\ pc[w] = "finCheck" /\ pc'[w] = "idle"
             \/ Put(c, "relean") /\ runner[c] # "none" /\ pc'[w] = "idle"
      BY <1>0, <1>5, <2>3 DEF QuietStep, BusyCheck, FinRead, FinCheck, FinAdvance, FailCount,
           RecoverDecide, Goto, Idle, TInv, ProcTypes, RunTypes, BusyPcs, FinalizePcs, EndPcs
    <3>2. runner[c] # "none" => Settled(c)
      BY <1>a, PcNames DEF CycleOK, Fresh, Settled
    <3>3. pc[w] \in FinalizePcs \/ (pc[w] = "decide" /\ ~seen[w]) => Settled(c)
      BY <1>0, <1>a DEF WorkerE, EndPcs
    <3>4. child[c] \in {"success", "failed"} \/ prun[c] \in {"none", "success", "failed"} => Settled(c)
      BY <1>a, <1>b DEF CycleE, Underway
    <3>5. Steady(c)
      <4>1. CASE msgs' = msgs
        BY <2>1, <4>1 DEF Steady
      <4>2. CASE \E t \in {"fail", "relean"} : Put(c, t)
        BY <1>1, <2>1, <4>2, PutIs, PcNames DEF Steady
      <4> QED
        BY <3>1, <4>1, <4>2
    <3>6. Settled(c) <=> Settled(c)'
      BY <3>5, SteadySettled
    <3>7. CycleE(c)'
      <4>1. CASE Settled(c)
        BY <1>a, <3>5, <3>6, <4>1 DEF CycleE, Steady
      <4>2. CASE ~Settled(c)
        <5>1. msgs' = msgs
          BY <3>1, <3>2, <3>3, <4>2 DEF FinalizePcs
        <5> QED
          BY <1>a, <2>1, <3>6, <4>2, <5>1 DEF CycleE, Underway
      <4> QED
        BY <4>1, <4>2
    <3>8. WorkerE(w)'
      BY <1>3, <3>1, <3>2, <3>3, <3>4, <3>6 DEF EndPcs, FinalizePcs
    <3> QED
      BY <1>2, <2>1, <3>6, <3>7, <3>8
  <2> QED
    BY <2>2, <2>3
<1>6. CASE RunWrite(w)
  <2>0. status' = status
    BY <1>6, RunWriteTypes
  <2>1. CASE create_walkforward_run(w)
    <3>1. /\ pc[w] = "create" /\ stored' = stored /\ job'[w] = c
          /\ \/ Renamed(c) /\ pc'[w] = "store"
             \/ UNCHANGED <<prun, child, runner, msgs>> /\ pc'[w] \in {"yield", "failRow"}
      BY <1>0, <2>1 DEF create_walkforward_run, Renamed, Goto, runVars, TInv, ProcTypes
    <3>2. prun[c] = "none" /\ \A v \in Workers : v # w => job[v] # c
      BY <1>0, <1>a, <3>1 DEF WorkerOK, BeginPcs
    <3>3. Silent(c)
      BY <1>a, <3>2 DEF CycleOK
    <3>4. \A t \in ChainTasks : msgs'[c][t] = 0
      <4>1. CASE Renamed(c)
        <5>1. \A u \in Tasks :
                 msgs'[c][u] = IF u \in {"lean", "relean"} THEN 0
                               ELSE IF u = "oldLean" THEN msgs[c][u] + msgs[c]["lean"]
                               ELSE IF u = "oldRelean" THEN msgs[c][u] + msgs[c]["relean"]
                               ELSE msgs[c][u]
          BY <1>1, <4>1, RenamedIs
        <5> QED
          BY <3>3, <5>1, PcNames DEF Silent, ChainTasks
      <4>2. CASE msgs' = msgs
        BY <3>3, <4>2 DEF Silent
      <4> QED
        BY <3>1, <4>1, <4>2
    <3>5. Settled(c)' /\ CycleE(c)'
      BY <3>4, PcNames DEF Settled, CycleE, ChainTasks
    <3>6. WorkerE(w)'
      BY <1>3, <3>1, <3>5
    <3> QED
      BY <1>2, <3>2, <3>5, <3>6
  <2>2. CASE StorePaperRun(w)
    <3>1. /\ pc[w] = "store" /\ pc'[w] = "dispatch" /\ job'[w] = c /\ stored'[c]
          /\ UNCHANGED <<prun, child, runner, msgs>>
      BY <1>0, <2>2 DEF StorePaperRun, Goto, runVars, TInv, ProcTypes, RowTypes
    <3>2. Silent(c) /\ \A v \in Workers : v # w => job[v] # c
      BY <1>0, <1>a, <3>1 DEF WorkerOK, BeginPcs
    <3>3. Settled(c)' /\ CycleE(c)'
      BY <1>a, <3>1, <3>2, SilentSettled DEF Settled, CycleE
    <3>4. WorkerE(w)'
      BY <1>3, <3>1, <3>3
    <3> QED
      BY <1>2, <3>2, <3>3, <3>4
  <2>3. CASE RecoverRun(w) \/ fail_walkforward_run(w)
    <3>1. /\ pc[w] \in {"recRun", "recFail"} /\ pc'[w] \in {"finRead", "failRow"} /\ job'[w] = c
          /\ UNCHANGED <<stored, child, runner, msgs>>
      BY <1>0, <2>3 DEF RecoverRun, fail_walkforward_run, Goto, TInv, ProcTypes
    <3>2. Settled(c)
      BY <1>0, <1>a, <3>1 DEF WorkerE, EndPcs
    <3>3. Settled(c)' /\ CycleE(c)'
      BY <1>a, <3>1, <3>2 DEF Settled, CycleE
    <3>4. WorkerE(w)'
      BY <1>3, <3>1, <3>3
    <3> QED
      BY <1>2, <3>1, <3>3, <3>4
  <2> QED
    BY <1>6, <2>1, <2>2, <2>3 DEF RunWrite
<1> QED
  BY <1>4, <1>5, <1>6, WorkerCases

\* At first nothing executes.
LEMMA EInit == Init => EInv
PROOF
<1> SUFFICES ASSUME Init PROVE EInv
  OBVIOUS
<1>1. ASSUME NEW c \in Cycles PROVE CycleE(c)
  <2>1. \A t \in Tasks : msgs[c][t] = 0
    BY DEF Init
  <2> QED
    BY <2>1, PcNames DEF CycleE, Settled
<1>2. ASSUME NEW w \in Workers PROVE WorkerE(w)
  BY DEF Init, WorkerE, EndPcs, FinalizePcs
<1> QED
  BY <1>1, <1>2 DEF EInv

\* A settled cycle stays settled.
LEMMA SettledStep ==
  ASSUME PInv, EInv, NoRetry, OneLean, [Next]_vars
  PROVE  SettledStays
PROOF
<1>1. CASE \E e \in Cycles : ClientAny(e)
  BY <1>1, ClientSteady, SteadySettled DEF SettledStays, PInv
<1>2. CASE \E w \in Workers, e \in Cycles : TakesUp(w, e)
  BY <1>2, TakesSteady, SteadySettled DEF SettledStays, PInv
<1>3. CASE \E w \in Workers : Crash(w)
  BY <1>3, CrashSteady, SteadySettled DEF SettledStays
<1>4. CASE UNCHANGED vars
  BY <1>4 DEF SettledStays, Settled, vars
<1> QED
  BY <1>1, <1>2, <1>3, <1>4, NextCases, ChainE, WorkerStepE

\* EInv is inductive.
LEMMA EStep ==
  ASSUME PInv, EInv, NoRetry, OneLean, [Next]_vars
  PROVE  EInv'
PROOF
<1>1. CASE UNCHANGED vars
  <2>1. UNCHANGED <<status, stored, prun, child, runner, msgs, pc, job, seen>>
    BY <1>1 DEF vars
  <2> QED
    BY <2>1 DEF EInv, CycleE, WorkerE, Settled, Underway
<1> QED
  BY <1>1, NextCases, ClientE, TakesE, CrashE, ChainE, WorkerStepE

\* An execution of the account begins with a busy check only.
LEMMA ExecutingBegins ==
  ASSUME PInv, EInv, NoRetry, OneLean, [Next]_vars, NEW c \in Cycles, Executing(c)', ~Executing(c)
  PROVE  \E w \in Workers : BusyCheck(w) /\ job[w] = c /\ pc'[w] = "create"
PROOF
<1> USE DEF PInv
<1> DEFINE Busy == {"create", "store", "dispatch"}
<1>0. Settled(c) /\ \A w \in Workers : job[w] = c => pc[w] \notin Busy
  BY DEF Executing, Preparing
<1>1. Settled(c)'
  <2>1. \A w \in Workers : job[w] = c => ~DispatchChain(w)
    BY <1>0 DEF DispatchChain
  <2> QED
    BY <1>0, <2>1, SettledStep DEF SettledStays
<1>2. PICK w \in Workers : job'[w] = c /\ pc'[w] \in Busy
  BY <1>1 DEF Executing, Preparing
<1>3. pc'[w] # pc[w] \/ job'[w] # job[w]
  BY <1>0, <1>2
<1>4. CASE (\E e \in Cycles : ClientAny(e)) \/ (\E e \in Cycles : ChainAny(e)) \/ UNCHANGED vars
  BY <1>3, <1>4, ClientTypes, ChainTypes DEF procVars, vars
<1>5. CASE \E v \in Workers, e \in Cycles : TakesUp(v, e)
  <2>1. PICK v \in Workers, e \in Cycles : TakesUp(v, e)
    BY <1>5
  <2>2. v = w
    BY <1>3, <2>1, TakesTypes DEF WorkersKept
  <2>3. pc'[w] \in {"idle", "begin", "finRead", "failRow", "decide"}
    BY <2>1, <2>2 DEF TakesUp, claim_cycle_for_worker, FinalizeStart, FailStart, RecoverPick, Begin,
                      TInv, ProcTypes
  <2> QED
    BY <1>2, <2>3
<1>6. CASE \E v \in Workers : Crash(v)
  <2>1. PICK v \in Workers : Crash(v)
    BY <1>6
  <2>2. v = w /\ pc'[w] = "idle"
    BY <1>3, <2>1, CrashTypes DEF WorkersKept
  <2> QED
    BY <1>2, <2>2
<1>7. CASE \E v \in Workers : WorkerStep(v)
  <2>1. PICK v \in Workers : WorkerStep(v)
    BY <1>7
  <2>2. WorkersKept(v) /\ job'[v] \in {job[v], NoCycle}
    BY <2>1, WorkerCases, StatusWriteTypes, QuietTypes, RunWriteTypes DEF WorkerFrame
  <2>3. v = w /\ job[w] = c
    BY <1>2, <1>3, <2>2, NoCycleAssumption DEF WorkersKept
  <2>4. BusyCheck(w) \/ pc[w] \in Busy \/ pc'[w] \notin Busy
    BY <2>1, <2>3 DEF WorkerStep, BeginCycle, YieldCycle, create_walkforward_run, StorePaperRun,
         DispatchChain, FinRead, FinMark, FinCheck, FinSucceed, FinAdvance, FailRow, FailCount,
         RecoverDecide, RecoverRun, fail_walkforward_run, Goto, Idle, TInv, ProcTypes
  <2>5. BusyCheck(w)
    BY <1>0, <1>2, <2>3, <2>4
  <2>6. pc'[w] = "create"
    BY <1>2, <2>5 DEF BusyCheck, Goto, TInv, ProcTypes
  <2> QED
    BY <2>3, <2>5, <2>6
<1> QED
  BY <1>4, <1>5, <1>6, <1>7, NextCases

\* What the account executes has a row that says so.
LEMMA ExecutingRuns ==
  ASSUME PInv, EInv, NEW c \in Cycles, Executing(c)
  PROVE  status[c] \in {"running", "finalizing"}
PROOF
<1>1. CASE ~Settled(c)
  BY <1>1 DEF EInv, CycleE, Underway
<1>2. CASE Preparing(c) # {}
  <2>1. PICK w \in Workers : job[w] = c /\ pc[w] \in {"create", "store", "dispatch"}
    BY <1>2 DEF Preparing
  <2> QED
    BY <2>1 DEF PInv, WorkerOK, BeginPcs
<1> QED
  BY <1>1, <1>2 DEF Executing

\* AInv is inductive.
LEMMA AStep ==
  ASSUME PInv, EInv, AInv, NoRetry, OneLean, [Next]_vars
  PROVE  AInv'
PROOF
<1> SUFFICES ASSUME NEW c \in Cycles, NEW e \in Cycles, c # e, Executing(c)', Executing(e)'
             PROVE  FALSE
  BY DEF AInv
<1>1. Executing(c)
  <2> SUFFICES ASSUME ~Executing(c) PROVE FALSE
    OBVIOUS
  <2>1. PICK w \in Workers : BusyCheck(w) /\ job[w] = c /\ pc'[w] = "create"
    BY ExecutingBegins
  <2>2. status[e] \notin {"running", "finalizing"}
    BY <2>1 DEF BusyCheck, Goto, PInv, TInv, ProcTypes
  <2>3. ~Executing(e)
    BY <2>2, ExecutingRuns
  <2>4. PICK v \in Workers : BusyCheck(v) /\ job[v] = e /\ pc'[v] = "create"
    BY <2>3, ExecutingBegins
  <2> QED
    BY <2>1, <2>4 DEF BusyCheck, Goto, PInv, TInv, ProcTypes
<1>2. Executing(e)
  <2> SUFFICES ASSUME ~Executing(e) PROVE FALSE
    OBVIOUS
  <2>1. PICK w \in Workers : BusyCheck(w) /\ job[w] = e /\ pc'[w] = "create"
    BY ExecutingBegins
  <2>2. status[c] \notin {"running", "finalizing"}
    BY <2>1 DEF BusyCheck, Goto, PInv, TInv, ProcTypes
  <2> QED
    BY <1>1, <2>2, ExecutingRuns
<1> QED
  BY <1>1, <1>2 DEF AInv

\* At first no account is busy.
LEMMA AInit == Init => AInv
PROOF
<1> SUFFICES ASSUME Init, NEW c \in Cycles PROVE ~Executing(c)
  BY DEF AInv
<1>1. Settled(c)
  BY PcNames DEF Init, Settled
<1>2. Preparing(c) = {}
  BY DEF Init, Preparing
<1> QED
  BY <1>1, <1>2 DEF Executing

\* EInv and AInv always hold under the two hypotheses.
LEMMA EInvariant ==
  ASSUME NoRetry, OneLean
  PROVE  Spec => [](PInv /\ EInv /\ AInv)
PROOF
<1>1. PInv /\ EInv /\ AInv /\ [Next]_vars => (PInv /\ EInv /\ AInv)'
  BY PStep, EStep, AStep
<1> QED
  BY PInit, EInit, AInit, <1>1, PTL DEF Spec

\* One delivery at a time owns the execution of a cycle, for any number of
\* workers, with lost workers, recoveries and duplicates of every task but the
\* LEAN task, if the user does not run a failed cycle again
\* (claim_cycle_for_worker, recover_orphaned_cycles).
THEOREM OneFlight ==
  ASSUME NoRetry, OneLean
  PROVE  Spec => []SingleFlight
PROOF
<1>1. PInv /\ EInv => SingleFlight
  <2> SUFFICES ASSUME PInv, EInv, NEW c \in Cycles
               PROVE  Cardinality(Preparing(c)) + UnfinishedChains(c) <= 1
    BY DEF SingleFlight
  <2>0. /\ CycleOK(c) /\ CycleE(c)
        /\ msgs[c]["mark"] \in Nat /\ msgs[c]["lean"] \in Nat
    BY PcNames DEF PInv, EInv, TInv, MsgTypes
  <2>1. CASE Preparing(c) = {}
    <3>1. Cardinality(Preparing(c)) = 0
      BY <2>1, FS_EmptySet
    <3>2. UnfinishedChains(c) \in Nat /\ UnfinishedChains(c) <= 1
      <4>1. CASE msgs[c]["mark"] > 0
        <5>1. msgs[c]["mark"] = 1 /\ msgs[c]["lean"] = 0
          BY <2>0, <4>1, PcNames DEF CycleOK, ChainTasks
        <5> QED
          BY <5>1 DEF UnfinishedChains
      <4>2. CASE msgs[c]["mark"] = 0
        BY <2>0, <4>2 DEF UnfinishedChains, CycleE
      <4> QED
        BY <2>0, <4>1, <4>2
    <3> QED
      BY <3>1, <3>2
  <2>2. CASE Preparing(c) # {}
    <3>1. PICK w \in Workers : job[w] = c /\ pc[w] \in {"create", "store", "dispatch"}
      BY <2>2 DEF Preparing
    <3>2. WorkerOK(w) /\ pc[w] \in BeginPcs
      BY <3>1 DEF PInv, BeginPcs
    <3>3. Preparing(c) = {w}
      BY <3>1, <3>2 DEF Preparing, WorkerOK
    <3>4. Silent(c)
      BY <2>0, <3>1, <3>2 DEF WorkerOK, CycleOK
    <3>5. UnfinishedChains(c) = 0
      BY <3>4, PcNames DEF Silent, ChainTasks, UnfinishedChains
    <3>6. Cardinality(Preparing(c)) = 1
      BY <3>3, FS_Singleton
    <3> QED
      BY <3>5, <3>6
  <2> QED
    BY <2>1, <2>2
<1> QED
  BY <1>1, EInvariant, PTL

\* Two cycles of the account never execute at a time, under the same
\* conditions (account_execution_busy).
THEOREM OneCycleAtATime ==
  ASSUME NoRetry, OneLean
  PROVE  Spec => []AccountExclusive
PROOF
<1>1. PInv /\ AInv => AccountExclusive
  <2> SUFFICES ASSUME PInv, AInv, NEW c \in Cycles, NEW e \in Cycles, c # e
               PROVE  \/ Preparing(c) = {} /\ UnfinishedChains(c) = 0
                      \/ Preparing(e) = {} /\ UnfinishedChains(e) = 0
    BY DEF AccountExclusive
  <2>1. ~Executing(c) \/ ~Executing(e)
    BY DEF AInv
  <2>2. \A f \in Cycles : ~Executing(f) => Preparing(f) = {} /\ UnfinishedChains(f) = 0
    BY DEF Executing, Settled, UnfinishedChains
  <2> QED
    BY <2>1, <2>2
<1> QED
  BY <1>1, EInvariant, PTL

=============================================================================
