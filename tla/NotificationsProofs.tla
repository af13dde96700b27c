------------------------- MODULE NotificationsProofs -------------------------
(***************************************************************************)
(* Theorems about Notifications, for any number of overlapping outbox      *)
(* passes, every configuration of channels, every severity, and every      *)
(* number of attempts, user requests and lost processes.                   *)
(***************************************************************************)
EXTENDS Notifications, TLAPS

----------------------------------------------------------------------------
(* The strengthening: a dispatch works on configured channels only, an     *)
(* answer it still has to record was given by the channel in hand, and the *)
(* success it has seen, which alone leads it to mark the outbox, was real. *)

Dispatching == {"gate", "send", "record"}

InHandConfigured ==
  \A p \in Procs : pc[p] \in Dispatching => loc[p].left # {} /\ loc[p].left \subseteq Configured
AnswerIsReal ==
  \A p \in Procs : pc[p] = "record" /\ loc[p].answer => NextChannel(p) \in acked
SuccessIsReal == \A p \in Procs : loc[p].delivered => acked # {}
MarksAfterSuccess == \A p \in Procs : pc[p] \in {"cooldown", "mark"} => loc[p].delivered

NInv ==
  /\ TypeOK
  /\ InHandConfigured /\ AnswerIsReal /\ SuccessIsReal /\ MarksAfterSuccess
  /\ DeliveredIsAcknowledged

----------------------------------------------------------------------------
(* Operators.                                                              *)

\* The smaller of two numbers is one of them and not above either.
LEMMA MinPair ==
  ASSUME NEW a \in Nat, NEW b \in Nat
  PROVE  Min({a, b}) \in {a, b} /\ Min({a, b}) <= a /\ Min({a, b}) <= b
<1>1. \E x \in {a, b} : \A y \in {a, b} : x <= y
  BY SMT
<1> QED
  BY <1>1 DEF Min

\* Counting an attempt stays within the maximum.
LEMMA AttemptType ==
  ASSUME NEW n \in 0 .. MaxAttempts
  PROVE  OneMoreAttempt(n) \in 0 .. MaxAttempts
<1>1. MaxAttempts \in Nat /\ n + 1 \in Nat
  BY NotificationBoundsAssumption
<1> QED
  BY <1>1, MinPair DEF OneMoreAttempt

\* The channel in hand is one of the channels left.
LEMMA NextChannelLeft ==
  ASSUME NEW p \in Procs, NInv, pc[p] \in Dispatching
  PROVE  NextChannel(p) \in loc[p].left /\ NextChannel(p) \in Configured /\ NextChannel(p) \in Channels
BY ChannelsAssumption DEF NInv, InHandConfigured, NextChannel, Channels

\* The local state of every process: what NInv says of pc and loc.
LocalOK ==
  /\ pc \in [Procs -> Pcs] /\ loc \in [Procs -> Locals]
  /\ InHandConfigured /\ AnswerIsReal /\ SuccessIsReal /\ MarksAfterSuccess

\* A dispatch that goes on with configured channels, and has seen a success
\* only if there was one, keeps the local state sound.
LEMMA ContinueLocal ==
  ASSUME NInv, NEW p \in Procs, NEW left \in SUBSET Configured, NEW d \in BOOLEAN,
         d => acked # {}, acked \subseteq acked',
         Continue(p, left, d)
  PROVE  LocalOK'
<1> DEFINE next == CASE left # {} -> "gate"
                     [] left = {} /\ p \notin Deliverers -> "idle"
                     [] OTHER -> IF d THEN "cooldown" ELSE "fail"
           row == IF next = "idle" THEN Blank
                  ELSE [loc[p] EXCEPT !.left = left, !.delivered = d, !.answer = FALSE]
<1>1. pc' = [pc EXCEPT ![p] = next] /\ loc' = [loc EXCEPT ![p] = row]
  BY DEF Continue, Goto
<1>2. /\ next \in {"gate", "idle", "cooldown", "fail"}
      /\ next = "gate" => left # {}
      /\ next = "cooldown" => d
  BY Zenon
<1>3. /\ row \in Locals
      /\ next # "idle" => row.left = left /\ row.delivered = d
      /\ next = "idle" => row.delivered = FALSE
  <2>1. loc[p] \in Locals /\ left \in SUBSET Channels
    BY ChannelsAssumption DEF NInv, TypeOK
  <2>2. Blank \in Locals /\ Blank.delivered = FALSE
    BY NotificationBoundsAssumption DEF Locals, Blank
  <2>3. CASE next = "idle"
    BY <2>2, <2>3
  <2>4. CASE next # "idle"
    <3> HIDE DEF next
    <3>1. row = [loc[p] EXCEPT !.left = left, !.delivered = d, !.answer = FALSE]
      BY <2>4
    <3> HIDE DEF row
    <3> QED
      BY <2>1, <2>4, <3>1 DEF Locals
  <2> QED
    BY <2>3, <2>4
<1> HIDE DEF next, row
<1>4. /\ pc' \in [Procs -> Pcs] /\ loc' \in [Procs -> Locals]
      /\ pc'[p] = next /\ loc'[p] = row
      /\ \A q \in Procs \ {p} : pc'[q] = pc[q] /\ loc'[q] = loc[q]
  BY <1>1, <1>2, <1>3 DEF NInv, TypeOK, Pcs
<1>5. \A q \in Procs \ {p} : NextChannel(q)' = NextChannel(q)
  BY <1>4 DEF NextChannel
<1>6. InHandConfigured' /\ MarksAfterSuccess'
  BY <1>2, <1>3, <1>4 DEF NInv, InHandConfigured, MarksAfterSuccess, Dispatching
<1>7. AnswerIsReal' /\ SuccessIsReal'
  BY <1>2, <1>3, <1>4, <1>5 DEF NInv, AnswerIsReal, SuccessIsReal
<1> QED
  BY <1>4, <1>6, <1>7 DEF LocalOK

\* The same when a process returns or is lost.
LEMMA ReturnLocal ==
  ASSUME NInv, NEW p \in Procs, acked \subseteq acked', Return(p)
  PROVE  LocalOK'
<1>1. Blank \in Locals /\ Blank.delivered = FALSE
  BY NotificationBoundsAssumption DEF Locals, Blank
<1>2. /\ pc' \in [Procs -> Pcs] /\ loc' \in [Procs -> Locals]
      /\ pc'[p] = "idle" /\ loc'[p] = Blank
      /\ \A q \in Procs \ {p} : pc'[q] = pc[q] /\ loc'[q] = loc[q]
  BY <1>1 DEF NInv, TypeOK, Pcs, Return
<1>3. \A q \in Procs \ {p} : NextChannel(q)' = NextChannel(q)
  BY <1>2 DEF NextChannel
<1> QED
  BY <1>1, <1>2, <1>3 DEF LocalOK, NInv, InHandConfigured, AnswerIsReal, SuccessIsReal,
     MarksAfterSuccess, Dispatching

\* A process moves on without touching its local variables, to a control
\* state about which nothing is claimed or that claims what it already knew.
LEMMA GotoLocal ==
  ASSUME NInv, NEW p \in Procs, NEW l \in Pcs, acked' = acked, UNCHANGED loc, Goto(p, l),
         \/ l = "send" /\ pc[p] = "gate"
         \/ l = "mark" /\ pc[p] = "cooldown"
  PROVE  LocalOK'
<1>1. /\ pc' \in [Procs -> Pcs] /\ pc'[p] = l
      /\ \A q \in Procs \ {p} : pc'[q] = pc[q]
  BY DEF NInv, TypeOK, Goto
<1>2. \A q \in Procs : NextChannel(q)' = NextChannel(q)
  BY DEF NextChannel
<1> QED
  BY <1>1, <1>2 DEF LocalOK, NInv, TypeOK, InHandConfigured, AnswerIsReal, SuccessIsReal,
     MarksAfterSuccess, Dispatching

\* Steps that leave the processes and the endpoints alone.
LEMMA FrameLocal ==
  ASSUME NInv, UNCHANGED <<pc, loc, acked>>
  PROVE  LocalOK'
BY DEF NInv, TypeOK, LocalOK, InHandConfigured, AnswerIsReal, SuccessIsReal,
   MarksAfterSuccess, NextChannel

\* The rows: what NInv says of the other variables.
RowsOK ==
  /\ base \in Severities /\ outbox \in OutboxRows /\ alert \in AlertRows
  /\ delivery \in [Channels -> DeliveryRows]
  /\ acked \subseteq Configured /\ events \in 0 .. MaxEvents
  /\ DeliveredIsAcknowledged

\* NInv in two parts.
LEMMA Assembled ==
  /\ NInv <=> LocalOK /\ RowsOK
  /\ NInv' <=> LocalOK' /\ RowsOK'
BY DEF NInv, LocalOK, RowsOK, TypeOK

\* Rows that stay as they are
LEMMA FrameRows ==
  ASSUME NInv, UNCHANGED <<base, outbox, alert, delivery, acked>>, events' \in 0 .. MaxEvents
  PROVE  RowsOK'
BY DEF NInv, TypeOK, RowsOK, DeliveredIsAcknowledged

\* The number of events stays bounded.
LEMMA EventType ==
  ASSUME NInv, Event
  PROVE  events' \in 0 .. MaxEvents
BY NotificationBoundsAssumption DEF NInv, TypeOK, Event

\* Dispatching considers configured channels only.
LEMMA DispatchLocal ==
  ASSUME NInv, NEW p \in Procs, NEW a, acked \subseteq acked', Dispatch(p, a)
  PROVE  LocalOK'
<1> DEFINE left == IF a.cooldown /\ ~Forced(p) THEN {} ELSE Due(a)
<1>1. left \in SUBSET Configured
  BY DEF Due
<1>2. Continue(p, left, FALSE)
  BY DEF Dispatch
<1> HIDE DEF left
<1> QED
  BY <1>1, <1>2, ContinueLocal

----------------------------------------------------------------------------
(* One lemma per action of a dispatch.                                     *)

LEMMA GateStep ==
  ASSUME NInv, NEW p \in Procs, Gate(p)
  PROVE  NInv'
<1>1. RowsOK'
  BY FrameRows DEF Gate, NInv, TypeOK
<1>2. acked' = acked
  BY DEF Gate
<1>3. CASE RespectsSchedule(p) /\ Gated(NextChannel(p))
  <2>1. Continue(p, loc[p].left \ {NextChannel(p)}, loc[p].delivered)
    BY <1>3 DEF Gate
  <2>2. /\ loc[p].left \ {NextChannel(p)} \in SUBSET Configured
        /\ loc[p].delivered \in BOOLEAN /\ (loc[p].delivered => acked # {})
    BY DEF Gate, NInv, TypeOK, Locals, InHandConfigured, SuccessIsReal, Dispatching
  <2> QED
    BY <1>1, <1>2, <2>1, <2>2, ContinueLocal, Assembled
<1>4. CASE ~ (RespectsSchedule(p) /\ Gated(NextChannel(p)))
  <2>1. Goto(p, "send") /\ UNCHANGED loc /\ pc[p] = "gate" /\ "send" \in Pcs
    BY <1>4 DEF Gate, Pcs
  <2> QED
    BY <1>1, <1>2, <2>1, GotoLocal, Assembled
<1> QED
  BY <1>3, <1>4

LEMMA SendStep ==
  ASSUME NInv, NEW p \in Procs, SendWebhook(p)
  PROVE  NInv'
<1>1. pc[p] = "send" /\ pc' = [pc EXCEPT ![p] = "record"] /\ UNCHANGED <<base, outbox, alert, delivery, events>>
  BY DEF SendWebhook, Goto
<1>2. PICK received \in BOOLEAN, answered \in BOOLEAN :
        /\ answered => received
        /\ acked' = IF received THEN acked \cup {NextChannel(p)} ELSE acked
        /\ loc' = [loc EXCEPT ![p].answer = answered]
  BY DEF SendWebhook
<1>3. NextChannel(p) \in Configured
  BY <1>1, NextChannelLeft DEF Dispatching
<1>4. acked \subseteq acked' /\ acked' \subseteq Configured /\ (answered => NextChannel(p) \in acked')
  BY <1>2, <1>3 DEF NInv, TypeOK
<1>5. RowsOK'
  BY <1>1, <1>4 DEF NInv, TypeOK, RowsOK, DeliveredIsAcknowledged
<1>6. /\ pc' \in [Procs -> Pcs] /\ loc' \in [Procs -> Locals]
      /\ pc'[p] = "record" /\ loc'[p].answer = answered
      /\ \A q \in Procs : loc'[q].left = loc[q].left /\ loc'[q].delivered = loc[q].delivered
      /\ \A q \in Procs \ {p} : pc'[q] = pc[q] /\ loc'[q] = loc[q]
  BY <1>1, <1>2 DEF NInv, TypeOK, Pcs, Locals
<1>7. \A q \in Procs : NextChannel(q)' = NextChannel(q)
  BY <1>6 DEF NextChannel
<1>8. InHandConfigured' /\ MarksAfterSuccess' /\ SuccessIsReal'
  BY <1>1, <1>4, <1>6 DEF NInv, InHandConfigured, SuccessIsReal, MarksAfterSuccess, Dispatching
<1>9. AnswerIsReal'
  BY <1>4, <1>6, <1>7 DEF NInv, AnswerIsReal
<1> QED
  BY <1>5, <1>6, <1>8, <1>9, Assembled DEF LocalOK

LEMMA RecordStep ==
  ASSUME NInv, NEW p \in Procs, record_delivery(p)
  PROVE  NInv'
<1> DEFINE c == NextChannel(p)
           n == OneMoreAttempt(delivery[c].attempts)
           s == CASE loc[p].answer -> "success"
                  [] n >= MaxAttempts /\ ~loc[p].answer -> "dead_letter"
                  [] OTHER -> "failed"
<1>1. /\ pc[p] = "record"
      /\ delivery' = [delivery EXCEPT ![c] = [status |-> s, attempts |-> n, due |-> s # "failed"]]
      /\ Continue(p, loc[p].left \ {c}, loc[p].delivered \/ loc[p].answer)
      /\ UNCHANGED <<base, outbox, alert, acked, events>>
  BY DEF record_delivery
<1>2. c \in Channels /\ loc[p].left \ {c} \in SUBSET Configured /\ loc[p] \in Locals
  BY <1>1, NextChannelLeft DEF NInv, TypeOK, InHandConfigured, Dispatching
<1>3. n \in 0 .. MaxAttempts
  BY <1>2, AttemptType DEF NInv, TypeOK, DeliveryRows
<1>4. s \in {"success", "dead_letter", "failed"} /\ (s = "success" => loc[p].answer)
  BY <1>2, Zenon DEF Locals
<1>5. loc[p].answer => c \in acked
  BY <1>1 DEF NInv, AnswerIsReal
<1>6. LocalOK'
  <2>1. (loc[p].delivered \/ loc[p].answer) \in BOOLEAN
        /\ (loc[p].delivered \/ loc[p].answer => acked # {})
    BY <1>5 DEF NInv, SuccessIsReal
  <2> QED
    BY <1>1, <1>2, <2>1, ContinueLocal
<1> HIDE DEF c, n, s
<1>7. [status |-> s, attempts |-> n, due |-> s # "failed"] \in DeliveryRows
  BY <1>3, <1>4 DEF DeliveryRows
<1>8. RowsOK'
  BY <1>1, <1>2, <1>4, <1>5, <1>7 DEF NInv, TypeOK, RowsOK, DeliveredIsAcknowledged
<1> QED
  BY <1>6, <1>8, Assembled

LEMMA CooldownStep ==
  ASSUME NInv, NEW p \in Procs, SetCooldown(p)
  PROVE  NInv'
<1>1. RowsOK'
  BY DEF SetCooldown, NInv, TypeOK, RowsOK, DeliveredIsAcknowledged, AlertRows
<1>2. LocalOK'
  BY GotoLocal DEF SetCooldown, Pcs
<1> QED
  BY <1>1, <1>2, Assembled

\* The outbox is marked only by a pass that has seen a success.
LEMMA MarkStep ==
  ASSUME NInv, NEW p \in Procs, MarkDelivered(p)
  PROVE  NInv'
<1>1. acked # {}
  BY DEF MarkDelivered, NInv, MarksAfterSuccess, SuccessIsReal
<1>2. OneMoreAttempt(outbox.attempt) \in 0 .. MaxAttempts
  BY AttemptType DEF NInv, TypeOK, OutboxRows
<1>3. RowsOK'
  BY <1>1, <1>2 DEF MarkDelivered, NInv, TypeOK, RowsOK, DeliveredIsAcknowledged, OutboxRows
<1>4. LocalOK'
  BY ReturnLocal DEF MarkDelivered
<1> QED
  BY <1>3, <1>4, Assembled

LEMMA FailureStep ==
  ASSUME NInv, NEW p \in Procs, record_notification_failure(p)
  PROVE  NInv'
<1> DEFINE n == OneMoreAttempt(loc[p].attempt)
<1>1. n \in 0 .. MaxAttempts
  BY AttemptType DEF NInv, TypeOK, Locals
<1>2. outbox' = [status |-> IF n >= MaxAttempts THEN "dead_letter" ELSE "retrying", attempt |-> n]
  BY DEF record_notification_failure
<1> HIDE DEF n
<1>3. outbox' \in OutboxRows /\ outbox'.status # "delivered"
  BY <1>1, <1>2 DEF OutboxRows
<1>4. RowsOK'
  BY <1>3 DEF record_notification_failure, NInv, TypeOK, RowsOK, DeliveredIsAcknowledged
<1>5. LocalOK'
  BY ReturnLocal DEF record_notification_failure
<1> QED
  BY <1>4, <1>5, Assembled

\* An emitted alert is a row, whatever it replaces.
LEMMA EmittedType ==
  ASSUME NInv
  PROVE  Emitted \in AlertRows
<1> DEFINE n == Min({EscalateAfter, alert.count + 1})
<1>1. EscalateAfter \in Nat /\ alert.count + 1 \in Nat /\ alert \in AlertRows
  BY NotificationBoundsAssumption DEF NInv, TypeOK, AlertRows
<1>2. n \in 0 .. EscalateAfter
  BY <1>1, MinPair
<1>3. base \in DOMAIN SeverityOrder /\ "critical" \in DOMAIN SeverityOrder
  BY SeveritiesAssumption DEF NInv, TypeOK, SeverityOrder
<1>4. Emitted = [ status |-> IF alert.status = "acknowledged" THEN "acknowledged" ELSE "open",
                  severity |-> IF n >= EscalateAfter THEN "critical" ELSE base,
                  count |-> n,
                  cooldown |-> alert.cooldown /\ alert.status # "resolved" ]
  BY DEF Emitted
<1> HIDE DEF n
<1> QED
  BY <1>1, <1>2, <1>3, <1>4 DEF AlertRows

\* Emission opens the channels of a resolved alert again; it makes no success up.
LEMMA EmitStep ==
  ASSUME NInv, NEW p \in Procs, emit_alert(p)
  PROVE  NInv'
<1>1. /\ delivery' \in [Channels -> DeliveryRows]
      /\ \A c \in Channels : delivery'[c].status = "success" => delivery[c].status = "success"
  BY DEF emit_alert, NInv, TypeOK, DeliveryRows
<1>2. alert' \in AlertRows
  BY EmittedType DEF emit_alert
<1>3. RowsOK'
  BY <1>1, <1>2 DEF emit_alert, NInv, TypeOK, RowsOK, DeliveredIsAcknowledged
<1>4. LocalOK'
  BY DispatchLocal DEF emit_alert
<1> QED
  BY <1>3, <1>4, Assembled

\* A pass reads the outbox row.
LEMMA ReadStep ==
  ASSUME NInv, NEW p \in Procs, ReadOutbox(p)
  PROVE  NInv'
<1>1. /\ pc[p] = "idle" /\ pc' = [pc EXCEPT ![p] = IF Configured = {} THEN "fail" ELSE "emit"]
      /\ loc' = [loc EXCEPT ![p].attempt = outbox.attempt]
      /\ UNCHANGED <<base, outbox, alert, delivery, acked, events>>
  BY DEF ReadOutbox, Goto
<1>2. RowsOK'
  BY <1>1, FrameRows DEF NInv, TypeOK
<1>3. /\ pc' \in [Procs -> Pcs] /\ loc' \in [Procs -> Locals]
      /\ pc'[p] \in {"fail", "emit"}
      /\ \A q \in Procs : loc'[q].left = loc[q].left /\ loc'[q].delivered = loc[q].delivered
                          /\ loc'[q].answer = loc[q].answer
      /\ \A q \in Procs \ {p} : pc'[q] = pc[q]
  BY <1>1 DEF NInv, TypeOK, Pcs, Locals, OutboxRows
<1>4. \A q \in Procs : NextChannel(q)' = NextChannel(q)
  BY <1>3 DEF NextChannel
<1>5. LocalOK'
  BY <1>1, <1>3, <1>4 DEF NInv, LocalOK, InHandConfigured, AnswerIsReal, SuccessIsReal,
     MarksAfterSuccess, Dispatching
<1> QED
  BY <1>2, <1>5, Assembled

\* Redelivery, users, operators, lost processes and time.
LEMMA EnvironmentStep ==
  ASSUME NInv,
         \/ enqueue_notification \/ redeliver_open_alerts \/ AcknowledgeAlert \/ ResolveAlert
         \/ requeue_dead_letter_deliveries \/ CooldownEnds
         \/ \E c \in Channels : DeliveryDue(c)
         \/ \E p \in Procs : Crash(p)
  PROVE  NInv'
<1>1. CASE enqueue_notification
  <2>1. RowsOK'
    BY <1>1 DEF enqueue_notification, NInv, TypeOK, RowsOK, DeliveredIsAcknowledged, OutboxRows
  <2> QED
    BY <1>1, <2>1, FrameLocal, Assembled DEF enqueue_notification
<1>2. CASE redeliver_open_alerts
  <2>1. RowsOK'
    BY <1>2, FrameRows DEF redeliver_open_alerts, NInv, TypeOK
  <2>2. LocalOK'
    BY <1>2, DispatchLocal DEF redeliver_open_alerts, Procs
  <2> QED
    BY <2>1, <2>2, Assembled
<1>3. CASE AcknowledgeAlert
  <2>1. RowsOK'
    BY <1>3, EventType DEF AcknowledgeAlert, NInv, TypeOK, RowsOK, DeliveredIsAcknowledged, AlertRows
  <2> QED
    BY <1>3, <2>1, FrameLocal, Assembled DEF AcknowledgeAlert
<1>4. CASE ResolveAlert
  <2>1. RowsOK'
    BY <1>4, EventType DEF ResolveAlert, NInv, TypeOK, RowsOK, DeliveredIsAcknowledged, AlertRows
  <2>2. LocalOK'
    BY <1>4, DispatchLocal DEF ResolveAlert, Procs
  <2> QED
    BY <2>1, <2>2, Assembled
<1>5. CASE requeue_dead_letter_deliveries
  <2>1. /\ delivery' \in [Channels -> DeliveryRows]
        /\ \A c \in Channels : delivery'[c].status = "success" => delivery[c].status = "success"
    BY <1>5, NotificationBoundsAssumption DEF requeue_dead_letter_deliveries, NInv, TypeOK, DeliveryRows
  <2>2. outbox' \in OutboxRows /\ (outbox'.status = "delivered" => outbox.status = "delivered")
    BY <1>5, NotificationBoundsAssumption DEF requeue_dead_letter_deliveries, NInv, TypeOK, OutboxRows
  <2>3. RowsOK'
    BY <1>5, <2>1, <2>2, EventType DEF requeue_dead_letter_deliveries, NInv, TypeOK, RowsOK,
       DeliveredIsAcknowledged
  <2> QED
    BY <1>5, <2>3, FrameLocal, Assembled DEF requeue_dead_letter_deliveries
<1>6. CASE CooldownEnds
  <2>1. RowsOK'
    BY <1>6 DEF CooldownEnds, NInv, TypeOK, RowsOK, DeliveredIsAcknowledged, AlertRows
  <2> QED
    BY <1>6, <2>1, FrameLocal, Assembled DEF CooldownEnds
<1>7. ASSUME NEW c \in Channels, DeliveryDue(c) PROVE NInv'
  <2>1. RowsOK'
    BY <1>7 DEF DeliveryDue, NInv, TypeOK, RowsOK, DeliveredIsAcknowledged, DeliveryRows
  <2> QED
    BY <1>7, <2>1, FrameLocal, Assembled DEF DeliveryDue
<1>8. ASSUME NEW p \in Procs, Crash(p) PROVE NInv'
  <2>1. RowsOK'
    BY <1>8, EventType, FrameRows DEF Crash
  <2>2. LocalOK'
    BY <1>8, ReturnLocal DEF Crash
  <2> QED
    BY <2>1, <2>2, Assembled
<1> QED
  BY <1>1, <1>2, <1>3, <1>4, <1>5, <1>6, <1>7, <1>8

----------------------------------------------------------------------------

\* At first nothing was sent.
LEMMA NInit == Init => NInv
<1> SUFFICES ASSUME Init PROVE NInv
  OBVIOUS
<1>1. base \in DOMAIN SeverityOrder
  BY SeveritiesAssumption DEF Init
<1>2. RowsOK
  BY <1>1, NotificationBoundsAssumption DEF Init, RowsOK, OutboxRows, AlertRows, NoAlert, DeliveryRows,
     DeliveredIsAcknowledged
<1>3. Blank \in Locals /\ Blank.delivered = FALSE
  BY NotificationBoundsAssumption DEF Locals, Blank
<1>4. LocalOK
  BY <1>3 DEF Init, LocalOK, Pcs, InHandConfigured, AnswerIsReal, SuccessIsReal,
     MarksAfterSuccess, Dispatching
<1> QED
  BY <1>2, <1>4, Assembled

\* NInv is inductive.
LEMMA NStep == NInv /\ [Next]_vars => NInv'
<1> SUFFICES ASSUME NInv, [Next]_vars PROVE NInv'
  OBVIOUS
<1>1. CASE UNCHANGED vars
  <2>1. RowsOK'
    BY <1>1, FrameRows DEF vars, NInv, TypeOK
  <2> QED
    BY <1>1, <2>1, FrameLocal, Assembled DEF vars
<1>2. ASSUME NEW p \in Procs, Step(p) PROVE NInv'
  BY <1>2, EmitStep, GateStep, SendStep, RecordStep, CooldownStep, MarkStep, FailureStep DEF Step
<1> QED
  BY <1>1, <1>2, ReadStep, EnvironmentStep DEF Next

\* NInv always holds.
LEMMA NInvariant == Spec => []NInv
BY NInit, NStep, PTL DEF Spec

\* Every column and local variable stays in range; attempts never exceed the
\* configured maximum, in either table and whoever counts (_record_delivery,
\* _record_notification_failure).
THEOREM NotificationTypes == Spec => []TypeOK
<1>1. NInv => TypeOK
  BY DEF NInv
<1> QED
  BY <1>1, NInvariant, PTL

\* Neither the outbox nor a channel ever reports a delivery that no endpoint
\* has acknowledged, however many passes overlap, are lost or write stale rows
\* (deliver_notifications, dispatch_alert).
THEOREM NothingIsMadeUp == Spec => []DeliveredIsAcknowledged
<1>1. NInv => DeliveredIsAcknowledged
  BY DEF NInv
<1> QED
  BY <1>1, NInvariant, PTL

=============================================================================
