---------------------------- MODULE LegacyMonitoring ----------------------------
(***************************************************************************)
(* How the archived v2 watches itself: diagnostics that probe services and *)
(* keep what they found, risk rules that count security events, and alerts *)
(* to Telegram. All of it runs as tasks, which workers may run at once and *)
(* which are run again when they fail or a worker stops; nothing is locked *)
(* between what a diagnosis reads and what it writes.                      *)
(*                                                                         *)
(* Abstractions: every rule matches the failures of services, within a     *)
(* window that ends at any time; the queue offers a task up to MaxAttempts *)
(* times; old probes are never deleted.                                    *)
(***************************************************************************)
EXTENDS Integers, Sequences, FiniteSets, TLC

CONSTANTS Service, Rule, Threshold, Recipient, Worker,
          Unseen,
          MaxDiagnoses, MaxAttempts, MaxRevised  \* bounds: begun, times a task is offered, rules edited

ASSUME MonitoringAssumption ==
    /\ IsFiniteSet(Worker) /\ IsFiniteSet(Rule) /\ IsFiniteSet(Recipient)
    /\ Threshold \in Nat /\ {MaxDiagnoses, MaxAttempts, MaxRevised} \subseteq Nat

VARIABLES
    probed,     \* service_probes: the latest of a service, by checked_at
    failures,   \* security_events service.probe.failed: how many of a service
    counted,    \* those of them within the window of a rule
    rule,       \* risk_rules: enabled, telegram_alert, revision
    cooling,    \* rules with a risk.rule.triggered within their cooldown
    delivery,   \* alert_deliveries, in order: status, attempts, and how often the
                \* recipient was told (ghost)
    diagnosis,  \* per worker: what is between two steps of a diagnosis
    telling,    \* per worker: the delivery at work and whether its message is out
    slots       \* diagnoses begun, rules edited

monitoringVars == <<probed, failures, counted, rule, cooling, delivery, diagnosis, telling, slots>>

MonitoringInit ==
    /\ probed = [x \in Service |-> Unseen]
    /\ failures = [x \in Service |-> 0]
    /\ counted = [r \in Rule |-> 0]
    /\ rule = [r \in Rule |-> Unseen]
    /\ cooling = {}
    /\ delivery = << >>
    /\ diagnosis = [w \in Worker |-> Unseen]
    /\ telling = [w \in Worker |-> Unseen]
    /\ slots = [diagnoses |-> 0, edits |-> 0]

Free(w) == diagnosis[w] = Unseen /\ telling[w] = Unseen

-----------------------------------------------------------------------------
\* platform_scheduler enqueues a diagnosis for every slot of time, whether or not the
\* one before has ended; administrators enqueue others.
Enqueued == slots.diagnoses < MaxDiagnoses

\* What the probes of all services may find: those that answer.
Findings == SUBSET Service

\* A worker takes a diagnosis and probes.
Diagnose(w) ==
    /\ Free(w) /\ Enqueued
    /\ \E answering \in Findings :
         diagnosis' = [diagnosis EXCEPT ![w] =
             [at |-> slots.diagnoses + 1, found |-> answering, read |-> Unseen, phase |-> "probed"]]
    /\ slots' = [slots EXCEPT !.diagnoses = @ + 1]
    /\ UNCHANGED <<probed, failures, counted, rule, cooling, delivery, telling>>

\* _persist looks at the latest probe of every service ...
PersistReads(w) ==
    /\ diagnosis[w] # Unseen /\ diagnosis[w].phase = "probed"
    /\ diagnosis' = [diagnosis EXCEPT ![w].phase = "read", ![w].read = probed]
    /\ UNCHANGED <<probed, failures, counted, rule, cooling, delivery, telling, slots>>

\* Slip: a service has to have been healthy to fail.
WasUp(before) == before # Unseen /\ before.healthy

NotDown(before) == before = Unseen \/ before.healthy

\* ... and adds its own, with an event for every service that was not known to be down.
Persist(w) ==
    LET d == diagnosis[w]
        failed == {x \in Service \ d.found : NotDown(d.read[x])}
    IN
    /\ d # Unseen /\ d.phase = "read"
    /\ probed' = [x \in Service |->
           IF probed[x] # Unseen /\ probed[x].at > d.at THEN probed[x]
           ELSE [healthy |-> x \in d.found, at |-> d.at]]
    /\ failures' = [x \in Service |-> IF x \in failed THEN failures[x] + 1 ELSE failures[x]]
    /\ counted' = [r \in Rule |-> counted[r] + Cardinality(failed)]
    /\ diagnosis' = [diagnosis EXCEPT ![w].phase = "persisted", ![w].read = Unseen]
    /\ UNCHANGED <<rule, cooling, delivery, telling, slots>>

\* The database refuses: the recipients are told directly, and the task fails.
FallbackAlert(w) ==
    /\ diagnosis[w] # Unseen /\ diagnosis[w].phase = "read"
    /\ diagnosis' = [diagnosis EXCEPT ![w] = Unseen]
    /\ UNCHANGED <<probed, failures, counted, rule, cooling, delivery, telling, slots>>

\* evaluate asks which rules are due ...
Due == {r \in Rule : rule[r] # Unseen /\ rule[r].enabled /\ counted[r] >= Threshold /\ r \notin cooling}

EvaluateReads(w) ==
    /\ diagnosis[w] # Unseen /\ diagnosis[w].phase = "persisted"
    /\ diagnosis' = [diagnosis EXCEPT ![w].phase = "due",
                                      ![w].read = {<<r, rule[r].alert>> : r \in Due}]
    /\ UNCHANGED <<probed, failures, counted, rule, cooling, delivery, telling, slots>>

\* queue: a delivery and a task for every recipient.
Queued(alerts) == [i \in 1..Cardinality(alerts) * Cardinality(Recipient) |->
                      [status |-> "pending", attempts |-> 0, told |-> 0]]

\* ... and adds an event for each of them, whoever did the same meanwhile.
Evaluate(w) ==
    LET d == diagnosis[w] IN
    /\ d # Unseen /\ d.phase = "due"
    /\ cooling' = cooling \cup {t[1] : t \in d.read}
    /\ delivery' = delivery \o Queued({t \in d.read : t[2]})
    /\ diagnosis' = [diagnosis EXCEPT ![w] = Unseen]
    /\ UNCHANGED <<probed, failures, counted, rule, telling, slots>>

\* Time passes: the window of a rule, or its cooldown.
WindowEnds(r) ==
    /\ counted[r] > 0
    /\ counted' = [counted EXCEPT ![r] = 0]
    /\ UNCHANGED <<probed, failures, rule, cooling, delivery, diagnosis, telling, slots>>

CooldownEnds(r) ==
    /\ r \in cooling
    /\ cooling' = cooling \ {r}
    /\ UNCHANGED <<probed, failures, counted, rule, delivery, diagnosis, telling, slots>>

-----------------------------------------------------------------------------
Revises == slots.edits < MaxRevised /\ slots' = [slots EXCEPT !.edits = @ + 1]

CreateRule(r) ==
    /\ rule[r] = Unseen
    /\ Revises
    /\ \E enabled, alert \in BOOLEAN :
         rule' = [rule EXCEPT ![r] = [enabled |-> enabled, alert |-> alert, revision |-> 1]]
    /\ UNCHANGED <<probed, failures, counted, cooling, delivery, diagnosis, telling>>

\* The row is locked, and refused when it is not the revision the administrator saw.
UpdateRule(r, seen) ==
    /\ rule[r] # Unseen /\ rule[r].revision = seen
    /\ Revises
    /\ \E enabled, alert \in BOOLEAN :
         rule' = [rule EXCEPT ![r] = [enabled |-> enabled, alert |-> alert, revision |-> seen + 1]]
    /\ UNCHANGED <<probed, failures, counted, cooling, delivery, diagnosis, telling>>

-----------------------------------------------------------------------------
\* Slip: the attempt is marked as what it is hoped to become.
Hoped(d) == [d EXCEPT !.attempts = @ + 1, !.status = "sent"]

Attempted(d) == [d EXCEPT !.attempts = @ + 1]

\* deliver: a worker takes the task, or takes it over, unless the alert is out; the
\* attempt is committed before the message is sent.
Deliver(w, n) ==
    /\ Free(w) /\ delivery[n].status # "sent" /\ delivery[n].attempts < MaxAttempts
    /\ delivery' = [delivery EXCEPT ![n] = Attempted(@)]
    /\ telling' = [telling EXCEPT ![w] = [alert |-> n, out |-> FALSE]]
    /\ UNCHANGED <<probed, failures, counted, rule, cooling, diagnosis, slots>>

SendMessage(w) ==
    /\ telling[w] # Unseen /\ ~telling[w].out
    /\ delivery' = [delivery EXCEPT ![telling[w].alert].told = @ + 1]
    /\ telling' = [telling EXCEPT ![w].out = TRUE]
    /\ UNCHANGED <<probed, failures, counted, rule, cooling, diagnosis, slots>>

\* Whatever came of the message, an answer that fails is written as a failure, also
\* over what another worker has sent; the task is tried again.
DeliverFails(w) ==
    /\ telling[w] # Unseen
    /\ delivery' = [delivery EXCEPT ![telling[w].alert].status = "failed"]
    /\ telling' = [telling EXCEPT ![w] = Unseen]
    /\ UNCHANGED <<probed, failures, counted, rule, cooling, diagnosis, slots>>

Delivered(w) ==
    /\ telling[w] # Unseen /\ telling[w].out
    /\ delivery' = [delivery EXCEPT ![telling[w].alert].status = "sent"]
    /\ telling' = [telling EXCEPT ![w] = Unseen]
    /\ UNCHANGED <<probed, failures, counted, rule, cooling, diagnosis, slots>>

\* A worker stops; what it was at is lost.
WorkerStops(w) ==
    /\ ~Free(w)
    /\ diagnosis' = [diagnosis EXCEPT ![w] = Unseen]
    /\ telling' = [telling EXCEPT ![w] = Unseen]
    /\ UNCHANGED <<probed, failures, counted, rule, cooling, delivery, slots>>

MonitoringNext ==
    \/ \E w \in Worker :
         \/ Diagnose(w) \/ PersistReads(w) \/ Persist(w) \/ FallbackAlert(w)
         \/ EvaluateReads(w) \/ Evaluate(w)
         \/ SendMessage(w) \/ DeliverFails(w) \/ Delivered(w) \/ WorkerStops(w)
         \/ \E n \in DOMAIN delivery : Deliver(w, n)
    \/ \E r \in Rule :
         \/ WindowEnds(r) \/ CooldownEnds(r) \/ CreateRule(r)
         \/ \E seen \in 1..MaxRevised : UpdateRule(r, seen)

-----------------------------------------------------------------------------
\* A service whose latest probe found it down has been reported, in whatever order
\* two diagnoses read and wrote.
ServicesReported == \A x \in Service : probed[x] # Unseen /\ ~probed[x].healthy => failures[x] > 0

\* An alert that counts as sent has reached its recipient, and nobody is told more often
\* than the alert's attempts say.
DeliveriesAccounted ==
    \A n \in DOMAIN delivery :
        /\ delivery[n].status = "sent" => delivery[n].told > 0
        /\ delivery[n].told <= delivery[n].attempts

=============================================================================
