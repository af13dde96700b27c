---------------------------- MODULE Notifications ----------------------------
(***************************************************************************)
(* One Paper event on its way to the operator: its row in the notification *)
(* outbox, the alert it is turned into, and the delivery of that alert to  *)
(* the configured webhooks.  Three kinds of processes dispatch the alert:  *)
(* deliver_notifications for the outbox (passes may overlap when one takes *)
(* longer than beat's period), redeliver_open_alerts for open alerts, and  *)
(* the user who resolves it.  None of them holds a lock.                   *)
(*                                                                         *)
(* An action is one transaction or one HTTP request, with the local        *)
(* control flow up to the next.  Times are abstracted to whether they have *)
(* passed; LEAN_ALERT_MIN_SEVERITY and the escalation threshold have their *)
(* defaults, error and 1.                                                  *)
(***************************************************************************)
EXTENDS Naturals, FiniteSets, FiniteSetsExt

CONSTANTS
  Deliverers,    \* passes of deliver_notifications that may run at once
  Configured,    \* channels with a URL
  Severities,    \* severities the event may have
  MaxAttempts,   \* LEAN_NOTIFICATION_MAX_ATTEMPTS
  EscalateAfter, \* LEAN_ALERT_ESCALATE_AFTER: repetitions that make an alert critical
  MaxEvents      \* bound: user requests and lost processes in a behaviour

Channels == {"webhook", "escalation_webhook"}
SeverityOrder == [warning |-> 2, error |-> 3, critical |-> 4]

ASSUME ChannelsAssumption == Configured \subseteq Channels
ASSUME SeveritiesAssumption == Severities \subseteq DOMAIN SeverityOrder
ASSUME NotificationBoundsAssumption ==
  /\ MaxAttempts \in Nat \ {0} /\ EscalateAfter \in Nat \ {0}
  /\ MaxEvents \in Nat

Redeliver == "redeliver_open_alerts"
User == "user"
Procs == Deliverers \cup {Redeliver, User}

VARIABLES
  base,      \* severity of the event
  outbox,    \* its paper_notification_outbox row
  alert,     \* its alert_events row; cooldown: cooldown_until is in the future
  delivery,  \* alert_deliveries by channel; due: next_retry_at has passed
  acked,     \* channels whose endpoint has answered 2xx
  pc, loc,   \* per process: control state and local variables
  events

vars == <<base, outbox, alert, delivery, acked, pc, loc, events>>

OutboxRows == [ status : {"absent", "pending", "retrying", "delivered", "dead_letter"},
                attempt : 0 .. MaxAttempts ]
AlertRows == [ status : {"absent", "open", "acknowledged", "resolved"},
               severity : DOMAIN SeverityOrder, count : 0 .. EscalateAfter, cooldown : BOOLEAN ]
DeliveryRows == [ status : {"absent", "failed", "success", "dead_letter", "reopened"},
                  attempts : 0 .. MaxAttempts, due : BOOLEAN ]
Pcs == {"idle", "emit", "gate", "send", "record", "cooldown", "mark", "fail"}

\* Local variables of a dispatch: the attempt of the outbox row it has read,
\* channels left, the last answer, and whether some channel has been recorded
\* as successful.
Locals == [ attempt : 0 .. MaxAttempts, left : SUBSET Channels,
            answer : BOOLEAN, delivered : BOOLEAN ]
NoAlert == [status |-> "absent", severity |-> base, count |-> 0, cooldown |-> FALSE]
Blank == [attempt |-> 0, left |-> {}, answer |-> FALSE, delivered |-> FALSE]

TypeOK ==
  /\ base \in Severities
  /\ outbox \in OutboxRows
  /\ alert \in AlertRows
  /\ delivery \in [Channels -> DeliveryRows]
  /\ acked \subseteq Configured
  /\ pc \in [Procs -> Pcs]
  /\ loc \in [Procs -> Locals]
  /\ events \in 0 .. MaxEvents

Init ==
  /\ base \in Severities
  /\ outbox = [status |-> "absent", attempt |-> 0]
  /\ alert = NoAlert
  /\ delivery = [c \in Channels |-> [status |-> "absent", attempts |-> 0, due |-> TRUE]]
  /\ acked = {}
  /\ pc = [p \in Procs |-> "idle"]
  /\ loc = [p \in Procs |-> Blank]
  /\ events = 0

\* Attempts are compared with the maximum only.
OneMoreAttempt(n) == Min({MaxAttempts, n + 1})

Event == events < MaxEvents /\ events' = events + 1

Goto(p, l) == pc' = [pc EXCEPT ![p] = l]
Return(p) == pc' = [pc EXCEPT ![p] = "idle"] /\ loc' = [loc EXCEPT ![p] = Blank]

(***************************************************************************)
(* dispatch_alert: the channels the alert is due on, one after the other.  *)
(***************************************************************************)
\* redeliver_open_alerts and update_alert_status force the delivery.
Forced(p) == p \notin Deliverers
RespectsSchedule(p) == p # User

\* Channels the severity of an alert is due on
Due(a) ==
  { c \in Configured :
      IF c = "webhook" THEN SeverityOrder[a.severity] >= SeverityOrder["error"]
                       ELSE a.severity = "critical" }

\* The webhook comes before the escalation.
NextChannel(p) == IF "webhook" \in loc[p].left THEN "webhook" ELSE "escalation_webhook"

\* _delivery_gate: what has been delivered or given up, or is not due yet, is
\* left alone.
Gated(c) ==
  \/ delivery[c].status \in {"success", "dead_letter"}
  \/ ~delivery[c].due

\* The next channel, or what the dispatcher does after the last one:
\* delivery_succeeded decides for the outbox.
Continue(p, left, delivered) ==
  LET next == CASE left # {} -> "gate"
                [] left = {} /\ p \notin Deliverers -> "idle"
                [] OTHER -> IF delivered THEN "cooldown" ELSE "fail"
  IN /\ Goto(p, next)
     /\ loc' = [loc EXCEPT ![p] = IF next = "idle" THEN Blank
                                  ELSE [@ EXCEPT !.left = left, !.delivered = delivered, !.answer = FALSE]]

\* dispatch_alert of row a: in a cooldown no channel is due, unless forced.
Dispatch(p, a) == Continue(p, IF a.cooldown /\ ~Forced(p) THEN {} ELSE Due(a), FALSE)

\* Mutant: a channel that is left alone counts as delivered.
MutGate(p) ==
  /\ pc[p] = "gate"
  /\ IF RespectsSchedule(p) /\ Gated(NextChannel(p))
       THEN Continue(p, loc[p].left \ {NextChannel(p)}, TRUE)
       ELSE Goto(p, "send") /\ UNCHANGED loc
  /\ UNCHANGED <<base, outbox, alert, delivery, acked, events>>

Gate(p) ==
  /\ pc[p] = "gate"
  /\ IF RespectsSchedule(p) /\ Gated(NextChannel(p))
       THEN Continue(p, loc[p].left \ {NextChannel(p)}, loc[p].delivered)
       ELSE Goto(p, "send") /\ UNCHANGED loc
  /\ UNCHANGED <<base, outbox, alert, delivery, acked, events>>

\* _send_webhook: the endpoint answers 2xx, refuses, or its answer is lost.
SendWebhook(p) ==
  /\ pc[p] = "send"
  /\ \E received, answered \in BOOLEAN :
       /\ answered => received
       /\ acked' = IF received THEN acked \cup {NextChannel(p)} ELSE acked
       /\ loc' = [loc EXCEPT ![p].answer = answered]
  /\ Goto(p, "record")
  /\ UNCHANGED <<base, outbox, alert, delivery, events>>

\* Mutant: the attempts of a failing channel are not counted.
Mut_record_delivery(p) ==
  /\ pc[p] = "record"
  /\ LET c == NextChannel(p) IN
       /\ delivery' = [delivery EXCEPT ![c] =
            [@ EXCEPT !.status = IF loc[p].answer THEN "success" ELSE "failed", !.due = FALSE]]
       /\ Continue(p, loc[p].left \ {c}, loc[p].delivered \/ loc[p].answer)
  /\ UNCHANGED <<base, outbox, alert, acked, events>>

\* _record_delivery counts the attempt and schedules the next one or gives up.
record_delivery(p) ==
  /\ pc[p] = "record"
  /\ LET c == NextChannel(p)
         n == OneMoreAttempt(delivery[c].attempts)
         s == CASE loc[p].answer -> "success"
                [] n >= MaxAttempts /\ ~loc[p].answer -> "dead_letter"
                [] OTHER -> "failed"
     IN /\ delivery' = [delivery EXCEPT ![c] = [status |-> s, attempts |-> n, due |-> s # "failed"]]
        /\ Continue(p, loc[p].left \ {c}, loc[p].delivered \/ loc[p].answer)
  /\ UNCHANGED <<base, outbox, alert, acked, events>>

SetCooldown(p) ==
  /\ pc[p] = "cooldown"
  /\ alert' = [alert EXCEPT !.cooldown = TRUE]
  /\ Goto(p, "mark")
  /\ UNCHANGED <<base, outbox, delivery, acked, loc, events>>

(***************************************************************************)
(* The outbox: _enqueue_notification and deliver_notifications.            *)
(***************************************************************************)
\* The dedupe key makes every further event of the kind a no-op.
enqueue_notification ==
  /\ outbox.status = "absent"
  /\ outbox' = [outbox EXCEPT !.status = "pending"]
  /\ UNCHANGED <<base, alert, delivery, acked, pc, loc, events>>

\* The row is read once its next attempt is due, which is some time later.
ReadOutbox(p) ==
  /\ p \in Deliverers /\ pc[p] = "idle"
  /\ outbox.status \in {"pending", "retrying"}
  /\ loc' = [loc EXCEPT ![p].attempt = outbox.attempt]
  /\ Goto(p, IF Configured = {} THEN "fail" ELSE "emit")
  /\ UNCHANGED <<base, outbox, alert, delivery, acked, events>>

\* The row emit_alert leaves: a resolved alert is opened again, an
\* acknowledged one is only counted, another one is open.
Emitted ==
  LET n == Min({EscalateAfter, alert.count + 1}) IN
  [ status |-> IF alert.status = "acknowledged" THEN "acknowledged" ELSE "open",
    severity |-> IF n >= EscalateAfter THEN "critical" ELSE base,
    count |-> n,
    cooldown |-> alert.cooldown /\ alert.status # "resolved" ]

emit_alert(p) ==
  /\ pc[p] = "emit"
  /\ alert' = Emitted
  /\ delivery' = IF alert.status = "resolved"
                   THEN [c \in Channels |-> IF delivery[c].status = "absent" THEN delivery[c]
                                            ELSE [delivery[c] EXCEPT !.status = "reopened", !.due = TRUE]]
                   ELSE delivery
  /\ Dispatch(p, Emitted)
  /\ UNCHANGED <<base, outbox, acked, events>>

MarkDelivered(p) ==
  /\ pc[p] = "mark"
  /\ outbox' = [status |-> "delivered", attempt |-> OneMoreAttempt(outbox.attempt)]
  /\ Return(p)
  /\ UNCHANGED <<base, alert, delivery, acked, events>>

\* Mutant: the row is retried without counting the attempt.
Mut_record_notification_failure(p) ==
  /\ pc[p] = "fail"
  /\ outbox' = [status |-> "retrying", attempt |-> loc[p].attempt]
  /\ Return(p)
  /\ UNCHANGED <<base, alert, delivery, acked, events>>

\* _record_notification_failure writes from the row as it was read, whatever
\* the row is now.
record_notification_failure(p) ==
  /\ pc[p] = "fail"
  /\ LET n == OneMoreAttempt(loc[p].attempt) IN
       outbox' = [ status |-> IF n >= MaxAttempts THEN "dead_letter" ELSE "retrying",
                   attempt |-> n ]
  /\ Return(p)
  /\ UNCHANGED <<base, alert, delivery, acked, events>>

(***************************************************************************)
(* redeliver_open_alerts, and what users and operators do.                 *)
(***************************************************************************)
\* Alerts nobody has delivered or given up, and none of whose channels waits
redeliver_open_alerts ==
  /\ pc[Redeliver] = "idle" /\ Configured # {}
  /\ alert.status \in {"open", "acknowledged"}
  /\ \A c \in Channels : ~Gated(c)
  /\ Dispatch(Redeliver, alert)
  /\ UNCHANGED <<base, outbox, alert, delivery, acked, events>>

AcknowledgeAlert ==
  /\ alert.status # "absent" /\ Event
  /\ alert' = [alert EXCEPT !.status = "acknowledged"]
  /\ UNCHANGED <<base, outbox, delivery, acked, pc, loc>>

\* update_alert_status(resolved) and its notification
ResolveAlert ==
  /\ pc[User] = "idle"
  /\ alert.status # "absent" /\ Event
  /\ alert' = [alert EXCEPT !.status = "resolved", !.cooldown = FALSE]
  /\ Dispatch(User, [alert EXCEPT !.status = "resolved", !.cooldown = FALSE])
  /\ UNCHANGED <<base, outbox, delivery, acked>>

\* Mutant: the outbox row gets the status of a channel.
Mut_requeue_dead_letter_deliveries ==
  /\ Event
  /\ outbox' = IF outbox.status = "dead_letter" THEN [status |-> "failed", attempt |-> 0] ELSE outbox
  /\ UNCHANGED <<base, alert, delivery, acked, pc, loc>>

requeue_dead_letter_deliveries ==
  /\ Event
  /\ delivery' = [c \in Channels |-> IF delivery[c].status = "dead_letter"
                                       THEN [status |-> "failed", attempts |-> 0, due |-> TRUE]
                                       ELSE delivery[c]]
  /\ outbox' = IF outbox.status = "dead_letter"
                 THEN [status |-> "retrying", attempt |-> 0] ELSE outbox
  /\ UNCHANGED <<base, alert, acked, pc, loc>>

(***************************************************************************)
(* Lost processes and time.                                                *)
(***************************************************************************)
Crash(p) ==
  /\ pc[p] # "idle" /\ Event
  /\ Return(p)
  /\ UNCHANGED <<base, outbox, alert, delivery, acked>>

DeliveryDue(c) ==
  /\ ~delivery[c].due
  /\ delivery' = [delivery EXCEPT ![c].due = TRUE]
  /\ UNCHANGED <<base, outbox, alert, acked, pc, loc, events>>

CooldownEnds ==
  /\ alert.cooldown
  /\ alert' = [alert EXCEPT !.cooldown = FALSE]
  /\ UNCHANGED <<base, outbox, delivery, acked, pc, loc, events>>

Step(p) ==
  \/ emit_alert(p) \/ Gate(p) \/ SendWebhook(p) \/ record_delivery(p) \/ SetCooldown(p)
  \/ MarkDelivered(p) \/ record_notification_failure(p)

Next ==
  \/ enqueue_notification
  \/ \E p \in Procs : ReadOutbox(p) \/ Step(p) \/ Crash(p)
  \/ redeliver_open_alerts
  \/ AcknowledgeAlert \/ ResolveAlert \/ requeue_dead_letter_deliveries
  \/ CooldownEnds \/ \E c \in Channels : DeliveryDue(c)

Spec == Init /\ [][Next]_vars

\* beat starts both tasks each minute, a started pass goes on unless lost, and
\* retry times pass.
Fairness ==
  /\ \A p \in Procs : WF_vars(Step(p))
  /\ \A p \in Deliverers : SF_vars(ReadOutbox(p))
  /\ SF_vars(redeliver_open_alerts)
  /\ WF_vars(\E c \in Channels : DeliveryDue(c))

FairSpec == Spec /\ Fairness

(***************************************************************************)
(* Properties.                                                             *)
(***************************************************************************)
\* An outbox row says delivered only when an endpoint has acknowledged the
\* event, and a channel says success only when its own has: neither a lost
\* answer nor another pass's writes make a delivery up (deliver_notifications,
\* delivery_succeeded, _record_delivery).
DeliveredIsAcknowledged ==
  /\ outbox.status = "delivered" => acked # {}
  /\ \A c \in Channels : delivery[c].status = "success" => c \in acked

\* An event that waits in the outbox is delivered or becomes a dead letter
\* that health checks report, whatever the endpoints do and however many
\* passes overlap (deliver_notifications, _record_notification_failure).
Waiting == outbox.status \in {"pending", "retrying"}
OutboxSettles == Waiting ~> ~Waiting

\* An open alert that is due on a channel is delivered or given up on one, or
\* is resolved: a lost pass or a failed attempt is taken up again by
\* redeliver_open_alerts.
Undelivered ==
  /\ alert.status \in {"open", "acknowledged"} /\ Due(alert) # {}
  /\ \A c \in Channels : delivery[c].status \notin {"success", "dead_letter"}
AlertSettles == Undelivered ~> ~Undelivered
=============================================================================
