----------------------------- MODULE Automation -----------------------------
(***************************************************************************)
(* One automation event and the enabled rules it triggers:                 *)
(* ProcessNextAutomation and executeAutomationEvent of                     *)
(* internal/platform/community.go.                                         *)
(*                                                                         *)
(* A worker claims the event and runs the rules in order of priority.  For *)
(* each rule one transaction reads the earlier execution, runs the actions *)
(* and records 'succeeded' or 'skipped'; UNIQUE(event_id,rule_id) rejects  *)
(* a second record.  When an action fails, the transaction is rolled back  *)
(* and a statement of its own records 'failed'.  Nothing renews the lease  *)
(* of an event.                                                            *)
(*                                                                         *)
(* Abstractions: the actions of a rule are one effect that is counted;     *)
(* rules are not edited while the event is open.                           *)
(***************************************************************************)
EXTENDS Naturals

CONSTANTS
    Rules,        \* number of enabled rules, in order of priority
    Matching,     \* those whose conditions hold for the event
    Worker,       \* worker processes; each writes its own lease_owner
    NoOwner,      \* SQL NULL in lease_owner
    MaxAttempts,  \* automation_events.max_attempts
    MaxStalls,    \* bound: leases that run out under a living worker
    MaxAbandons   \* bound: workers that die while they process the event

Rule == 1..Rules

ASSUME AutomationAssumption ==
    /\ Rules \in Nat
    /\ Matching \subseteq Rule
    /\ NoOwner \notin Worker
    /\ MaxAttempts \in Nat \ {0}
    /\ MaxStalls \in Nat /\ MaxAbandons \in Nat

VARIABLES
    event,     \* automation_events: status, attempts, lease_owner, lease live
    exec,      \* automation_executions.status per rule
    applied,   \* how often the actions of the rule have been committed
    wk,        \* per worker: its place in ProcessNextAutomation
    claims,    \* how often the event has been claimed
    spent      \* stalls and abandons so far

vars == <<event, exec, applied, wk, claims, spent>>

EventStatus == {"pending", "running", "succeeded", "failed"}
ExecStatus == {"none", "succeeded", "skipped", "failed"}
Phase == {"idle", "rule", "act", "mark", "error", "permanent"}

Event == [status: EventStatus, attempts: 0..MaxAttempts,
          owner: Worker \cup {NoOwner}, live: BOOLEAN]
Work == [phase: Phase, rule: 1..(Rules + 1), previous: ExecStatus, attempt: 0..MaxAttempts]
Idle == [phase |-> "idle", rule |-> 1, previous |-> "none", attempt |-> 0]

\* Slip: a running event is not taken over.
ClaimableUnlessRunning ==
    event.status \in {"pending", "failed"} /\ event.attempts < MaxAttempts

Claimable ==
    /\ \/ event.status \in {"pending", "failed"}
       \/ event.status = "running" /\ ~event.live
    /\ event.attempts < MaxAttempts

Held == event.owner \in Worker /\ wk[event.owner].phase # "idle"

Go(w, phase) == wk' = [wk EXCEPT ![w] = [@ EXCEPT !.phase = phase]]

NextRule(w) ==
    wk' = [wk EXCEPT ![w] = [@ EXCEPT !.phase = "rule", !.rule = wk[w].rule + 1, !.previous = "none"]]

\* emitAutomationEventTx has inserted the event.
Init ==
    /\ event = [status |-> "pending", attempts |-> 0, owner |-> NoOwner, live |-> FALSE]
    /\ exec = [r \in Rule |-> "none"]
    /\ applied = [r \in Rule |-> 0]
    /\ wk = [w \in Worker |-> Idle]
    /\ claims = 0
    /\ spent = [stalls |-> 0, abandons |-> 0]

-----------------------------------------------------------------------------

Claim(w) ==
    /\ wk[w].phase = "idle"
    /\ Claimable
    /\ event' = [status |-> "running", attempts |-> event.attempts + 1,
                 owner |-> w, live |-> TRUE]
    /\ wk' = [wk EXCEPT ![w] = [Idle EXCEPT !.phase = "rule",
                                            !.attempt = event.attempts + 1]]
    /\ claims' = claims + 1
    /\ UNCHANGED <<exec, applied, spent>>

\* The rule's transaction reads the execution recorded so far; one that has
\* succeeded or was skipped is passed over.
ReadExecution(w) ==
    LET previous == exec[wk[w].rule]
    IN  /\ wk[w].phase = "rule" /\ wk[w].rule \in Rule
        /\ IF previous \in {"succeeded", "skipped"} THEN NextRule(w)
           ELSE wk' = [wk EXCEPT ![w] = [@ EXCEPT !.phase = "act", !.previous = previous]]
        /\ UNCHANGED <<event, exec, applied, claims, spent>>

\* The INSERT of this transaction meets no other record of the rule: there is
\* none, or the transaction has deleted the failed one it had read.
Recordable(w) ==
    \/ exec[wk[w].rule] = "none"
    \/ exec[wk[w].rule] = "failed" /\ wk[w].previous = "failed"

\* The actions (or none, when the conditions do not hold) commit together
\* with the record of the execution.
RunRule(w) ==
    LET r == wk[w].rule
    IN  /\ wk[w].phase = "act"
        /\ Recordable(w)
        /\ exec' = [exec EXCEPT ![r] = IF r \in Matching THEN "succeeded" ELSE "skipped"]
        /\ applied' = [applied EXCEPT ![r] = IF r \in Matching THEN @ + 1 ELSE @]
        /\ NextRule(w)
        /\ UNCHANGED <<event, claims, spent>>

\* The record is rejected by the unique key, or a statement fails: everything
\* is rolled back, and the error ends the attempt.
RollBack(w) ==
    /\ wk[w].phase \in {"rule", "act"} /\ wk[w].rule \in Rule
    /\ Go(w, "error")
    /\ UNCHANGED <<event, exec, applied, claims, spent>>

\* Slip: the actions write outside the transaction and outlive its rollback.
ActionFailsCommitted(w) ==
    /\ wk[w].phase = "act" /\ wk[w].rule \in Matching
    /\ applied' = [applied EXCEPT ![wk[w].rule] = @ + 1]
    /\ Go(w, "mark")
    /\ UNCHANGED <<event, exec, claims, spent>>

\* An action of the rule fails and the transaction is rolled back.
ActionFails(w) ==
    /\ wk[w].phase = "act" /\ wk[w].rule \in Matching
    /\ Go(w, "mark")
    /\ UNCHANGED <<event, exec, applied, claims, spent>>

\* Outside the transaction the rule is recorded as failed, by an upsert that
\* overwrites any other record; an error of this statement is dropped.
MarkFailed(w) ==
    /\ wk[w].phase = "mark"
    /\ \/ exec' = [exec EXCEPT ![wk[w].rule] = "failed"]
       \/ UNCHANGED exec
    /\ \E kind \in {"error", "permanent"} : Go(w, kind)
    /\ UNCHANGED <<event, applied, claims, spent>>

\* All rules are through; only the owner of the lease settles the event.
Succeed(w) ==
    /\ wk[w].phase = "rule" /\ wk[w].rule = Rules + 1
    /\ event' = IF event.owner = w
                THEN [event EXCEPT !.status = "succeeded", !.owner = NoOwner, !.live = FALSE]
                ELSE event
    /\ wk' = [wk EXCEPT ![w] = Idle]
    /\ UNCHANGED <<exec, applied, claims, spent>>

\* The failed attempt settles the event whoever owns the lease; it writes the
\* attempt this worker had claimed, or max_attempts for a permanent error.
Fail(w) ==
    /\ wk[w].phase \in {"error", "permanent"}
    /\ event' = [status |-> "failed", owner |-> NoOwner, live |-> FALSE,
                 attempts |-> IF wk[w].phase = "permanent" THEN MaxAttempts
                              ELSE wk[w].attempt]
    /\ wk' = [wk EXCEPT ![w] = Idle]
    /\ UNCHANGED <<exec, applied, claims, spent>>

\* The process dies, or the statement that settles the event fails.
Abandon(w) ==
    /\ wk[w].phase # "idle"
    /\ spent.abandons < MaxAbandons
    /\ spent' = [spent EXCEPT !.abandons = @ + 1]
    /\ wk' = [wk EXCEPT ![w] = Idle]
    /\ UNCHANGED <<event, exec, applied, claims>>

LeaseLapses ==
    /\ event.live /\ ~Held
    /\ event' = [event EXCEPT !.live = FALSE]
    /\ UNCHANGED <<exec, applied, wk, claims, spent>>

LeaseStalls ==
    /\ event.live /\ Held
    /\ spent.stalls < MaxStalls
    /\ spent' = [spent EXCEPT !.stalls = @ + 1]
    /\ event' = [event EXCEPT !.live = FALSE]
    /\ UNCHANGED <<exec, applied, wk, claims>>

Proceed(w) ==
    \/ ReadExecution(w) \/ RunRule(w) \/ RollBack(w) \/ ActionFails(w) \/ MarkFailed(w)
    \/ Succeed(w) \/ Fail(w)

Next ==
    \/ LeaseLapses \/ LeaseStalls
    \/ \E w \in Worker : Claim(w) \/ Proceed(w) \/ Abandon(w)

Spec == Init /\ [][Next]_vars

-----------------------------------------------------------------------------
(* Properties. *)

\* Types of the event, its executions, the workers and the counters.
TypeOK ==
    /\ event \in Event
    /\ exec \in [Rule -> ExecStatus]
    /\ applied \in [Rule -> Nat]
    /\ wk \in [Worker -> Work]
    /\ claims \in Nat
    /\ spent \in [stalls: 0..MaxStalls, abandons: 0..MaxAbandons]

\* The success of an event means that the actions of every rule whose
\* conditions hold were committed, and of no other, however workers overlap.
SucceededMeansApplied ==
    event.status = "succeeded" => \A r \in Rule : applied[r] > 0 <=> r \in Matching

OncePerRule == \A r \in Rule : applied[r] <= 1

\* Each pair of event and rule succeeds at most once, through crashes, lost
\* records and retries, as long as no lease runs out under a living worker.
AtMostOneSuccess == spent.stalls = 0 => OncePerRule

\* ... and without that condition (v3/README.md:158).
AlwaysAtMostOneSuccess == OncePerRule

\* max_attempts bounds how often the event is claimed; a late failure, which
\* writes back an older attempt number, is the exception.
ClaimsWithinMaximum == spent.stalls = 0 => claims <= MaxAttempts

\* The last attempt was claimed, its worker is gone, and Claimable, which asks
\* for attempts < max_attempts also of a running event, is never true again.
Stranded == event.status = "running" /\ event.attempts = MaxAttempts /\ ~Held

Settled ==
    \/ event.status = "succeeded"
    \/ event.status = "failed" /\ event.attempts = MaxAttempts

\* Crashes and expired leases delay an event; only a crash during the last
\* attempt keeps it from being settled.
SettledOrStranded == event.status = "pending" ~> (Settled \/ Stranded)

\* The actions of the matching rules are committed once each, within the
\* attempts the event has, and no sooner is the event a success.
AppliedOnce == TypeOK /\ SucceededMeansApplied /\ AtMostOneSuccess /\ ClaimsWithinMaximum

=============================================================================
