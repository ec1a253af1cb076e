--------------------------- MODULE LegacyAutomation ---------------------------
(***************************************************************************)
(* Automations of the archived v2: every transaction of the system may add *)
(* events to a journal, and a task that is queued again and again lets     *)
(* each rule act on those it has not passed yet. Several workers may       *)
(* evaluate at once, and any of them may stop.                             *)
(*                                                                         *)
(* An event gets its number when it is inserted and is seen when its       *)
(* transaction commits: numbers may be committed out of their order, and a *)
(* rule keeps the greatest number it has read. Every step of an evaluation *)
(* is a transaction of its own, and it works from the rules as it read     *)
(* them first.                                                             *)
(*                                                                         *)
(* Abstractions: a rule that has run may be cooling still, or its interval *)
(* last, or not; the pattern and the conditions of a rule are the kinds of *)
(* event they accept; a rule has one action, and what a run came to is     *)
(* left out; runs by the clock are not counted; an event its task adds     *)
(* beyond MaxEvents is left out.                                           *)
(***************************************************************************)
EXTENDS Integers, FiniteSets, Sequences, TLC

CONSTANTS Automation, Evaluator,
          Kind, TaskKind,            \* event types, and that of a task's event
          Pattern,                   \* the sets of kinds a rule may ask for
          Every, Malformed,          \* triggers: by the clock, and with no number of seconds
          Unwritten, Deleted,
          Chunk,                     \* events read at once, 500 in the code
          MaxEvents, MaxRevisions, MaxStops  \* bounds

ASSUME AutomationAssumption ==
    /\ Unwritten # Deleted
    /\ {Unwritten, Deleted} \cap [on : Pattern \union {Every, Malformed}, enabled : BOOLEAN, cursor : Nat,
                                  ran : BOOLEAN, revision : Nat] = {}
    /\ {Chunk, MaxEvents, MaxRevisions, MaxStops} \subseteq Nat

VARIABLES
    journal,     \* system_events by number: kind, and whether its transaction is open
    automation,  \* automation_rules; a number is never used for another rule
    runs,        \* automation_runs: how many there are of a rule and an event
    evaluation,  \* per evaluator: what it has read and where it is
    spared,      \* ghost: rule and event that met with no match, or while cooling
    overtaken,   \* ghost: rule and event that was uncommitted when a later one was read
    stops        \* evaluations that broke off

automationVars == <<journal, automation, runs, evaluation, spared, overtaken, stops>>

Resting == [phase |-> "rest"]

AutomationInit ==
    /\ journal = << >>
    /\ automation = [r \in Automation |-> Unwritten]
    /\ runs = [r \in Automation |-> [n \in 1..MaxEvents |-> 0]]
    /\ evaluation = [w \in Evaluator |-> Resting]
    /\ spared = {} /\ overtaken = {}
    /\ stops = 0

Exists(r) == automation[r] \notin {Unwritten, Deleted}
Committed(n) == ~journal[n].open

-----------------------------------------------------------------------------
(* The journal. *)

\* operations.event, in a transaction that is still open; the open API writes one too.
AddEvent ==
    /\ Len(journal) < MaxEvents
    /\ \E k \in Kind : journal' = Append(journal, [kind |-> k, open |-> TRUE])
    /\ UNCHANGED <<automation, runs, evaluation, spared, overtaken, stops>>

\* One that rolls back is one that never commits.
CommitEvent(n) ==
    /\ journal[n].open
    /\ journal' = [journal EXCEPT ![n].open = FALSE]
    /\ UNCHANGED <<automation, runs, evaluation, spared, overtaken, stops>>

-----------------------------------------------------------------------------
(* Rules. *)

Triggers == Pattern \union {Every, Malformed}

\* A new rule starts at the beginning of the journal.
CreateAutomation(r) ==
    /\ automation[r] = Unwritten
    /\ \E on \in Triggers :
         automation' = [automation EXCEPT ![r] =
             [on |-> on, enabled |-> TRUE, cursor |-> 0, ran |-> FALSE, revision |-> 1]]
    /\ UNCHANGED <<journal, runs, evaluation, spared, overtaken, stops>>

\* An update keeps what the rule has passed; one that saw another revision is refused.
UpdateAutomation(r, seen) ==
    /\ Exists(r) /\ automation[r].revision = seen /\ seen < MaxRevisions
    /\ \E on \in Triggers, enabled \in BOOLEAN :
         automation' = [automation EXCEPT ![r].on = on, ![r].enabled = enabled, ![r].revision = seen + 1]
    /\ UNCHANGED <<journal, runs, evaluation, spared, overtaken, stops>>

DeleteAutomation(r) ==
    /\ Exists(r)
    /\ automation' = [automation EXCEPT ![r] = Deleted]
    /\ UNCHANGED <<journal, runs, evaluation, spared, overtaken, stops>>

-----------------------------------------------------------------------------
(* evaluate. *)

\* The scheduler queues an evaluation for every slot of time, administrators start others.
EvaluateAll(w) ==
    /\ evaluation[w] = Resting
    /\ evaluation' = [evaluation EXCEPT ![w] =
           [phase |-> "rules", rules |-> [r \in {q \in Automation : Exists(q) /\ automation[q].enabled} |-> automation[r]]]]
    /\ UNCHANGED <<journal, automation, runs, spared, overtaken, stops>>

\* The oldest events after a number that the database shows.
After(cursor) ==
    LET shown == {n \in DOMAIN journal : n > cursor /\ Committed(n)}
    IN {n \in shown : Cardinality({m \in shown : m < n}) < Chunk}

Greatest(events) == CHOOSE n \in events : \A m \in events : m <= n

\* Reads the events of a rule. A rule by the clock has none, and an interval that is no
\* number ends the evaluation of all.
TakesRule(w, r) ==
    LET s == evaluation[w].rules[r]
        others == [q \in DOMAIN evaluation[w].rules \ {r} |-> evaluation[w].rules[q]]
        Later(n, events) == \E m \in events : n < m
        At(events) == [phase |-> "events", rules |-> others, at |-> r, as |-> s, left |-> events, read |-> events,
                       open |-> {n \in DOMAIN journal : journal[n].open /\ Later(n, events)}]
    IN
    /\ evaluation[w].phase = "rules" /\ r \in DOMAIN evaluation[w].rules
    /\ \/ s.on = Malformed /\ evaluation' = [evaluation EXCEPT ![w] = Resting]
       \/ s.on \in Pattern /\ evaluation' = [evaluation EXCEPT ![w] = At(After(s.cursor))]
       \/ s.on = Every /\ evaluation' = [evaluation EXCEPT ![w] = At({0})]
       \/ s.on = Every /\ s.ran /\ evaluation' = [evaluation EXCEPT ![w].rules = others]
    /\ UNCHANGED <<journal, automation, runs, spared, overtaken, stops>>

Oldest(events) == CHOOSE n \in events : \A m \in events : n <= m

Looking(w) == evaluation[w].phase = "events" /\ evaluation[w].left # {}
Asked(w) == evaluation[w].as
Current(w) == Oldest(evaluation[w].left)
Matches(s, n) == n # 0 => journal[n].kind \in s.on

\* What is left when one event has been dealt with.
Dealt(e) == [e EXCEPT !.phase = "events", !.left = @ \ {Oldest(@)}]

Spares(w) ==
    /\ Looking(w)
    /\ ~Matches(Asked(w), Current(w)) \/ Asked(w).ran
    /\ spared' = IF Current(w) = 0 THEN spared ELSE spared \union {<<evaluation[w].at, Current(w)>>}
    /\ evaluation' = [evaluation EXCEPT ![w] = Dealt(@)]
    /\ UNCHANGED <<journal, automation, runs, overtaken, stops>>

\* Slip: whether a run exists is not asked, and nothing forbids a second.
AnyTime(r, n) == TRUE

\* uq_automation_run_rule_event: a run by the clock has no event.
Unreserved(r, n) == n # 0 => runs[r][n] = 0

\* _run adds the run before it acts; whoever finds one, or fails to insert, leaves the
\* event alone.
Reserves(w) ==
    LET r == evaluation[w].at
        n == Current(w)
    IN
    /\ Looking(w)
    /\ Matches(Asked(w), n)
    /\ IF Unreserved(r, n)
       THEN /\ runs' = IF n = 0 THEN runs ELSE [runs EXCEPT ![r][n] = @ + 1]
            /\ evaluation' = [evaluation EXCEPT ![w].phase = "act"]
       ELSE /\ evaluation' = [evaluation EXCEPT ![w] = Dealt(@)]
            /\ UNCHANGED runs
    /\ UNCHANGED <<journal, automation, spared, overtaken, stops>>

\* _execute_action: a task, whose key may exist, adds an event; a risk event adds none;
\* anything may raise, and is kept as the outcome.
Acts(w) ==
    /\ evaluation[w].phase = "act"
    /\ evaluation' = [evaluation EXCEPT ![w].phase = "finish"]
    /\ \/ UNCHANGED journal
       \/ Len(journal) < MaxEvents /\ journal' = Append(journal, [kind |-> TaskKind, open |-> FALSE])
    /\ UNCHANGED <<automation, runs, spared, overtaken, stops>>

\* The run and the time of the rule are written together. A rule that was deleted is no
\* row: that raises, undoes both, and ends the evaluation of all.
Finishes(w) ==
    LET r == evaluation[w].at IN
    /\ evaluation[w].phase = "finish"
    /\ IF Exists(r)
       THEN /\ automation' = [automation EXCEPT ![r].ran = TRUE]
            /\ evaluation' = [evaluation EXCEPT ![w] = Dealt(@)]
       ELSE /\ evaluation' = [evaluation EXCEPT ![w] = Resting]
            /\ UNCHANGED automation
    /\ UNCHANGED <<journal, runs, spared, overtaken, stops>>

\* Slip: only what was acted on is passed.
WhereItRan(cursor, read) ==
    LET acted == {n \in read : \E r \in Automation : runs[r][n] > 0}
    IN Greatest(acted \union {cursor})

\* The greatest of what it has passed and what was read.
NewCursor(cursor, read) == Greatest(read \union {cursor})

Advances(w) ==
    LET e == evaluation[w] IN
    /\ e.phase = "events" /\ e.left = {}
    /\ IF Exists(e.at) /\ e.read \notin {{}, {0}}
       THEN /\ automation' = [automation EXCEPT ![e.at].cursor = NewCursor(@, e.read)]
            /\ overtaken' = overtaken \union {<<e.at, n>> : n \in e.open}
       ELSE UNCHANGED <<automation, overtaken>>
    /\ evaluation' = [evaluation EXCEPT ![w] = [phase |-> "rules", rules |-> e.rules]]
    /\ UNCHANGED <<journal, runs, spared, stops>>

EndsEvaluation(w) ==
    /\ evaluation[w].phase = "rules" /\ DOMAIN evaluation[w].rules = {}
    /\ evaluation' = [evaluation EXCEPT ![w] = Resting]
    /\ UNCHANGED <<journal, automation, runs, spared, overtaken, stops>>

\* The worker stops, times out, or the database does not answer.
BreaksOff(w) ==
    /\ evaluation[w] # Resting
    /\ stops < MaxStops
    /\ stops' = stops + 1
    /\ evaluation' = [evaluation EXCEPT ![w] = Resting]
    /\ UNCHANGED <<journal, automation, runs, spared, overtaken>>

Evaluates(w) ==
    \/ EvaluateAll(w) \/ Spares(w) \/ Reserves(w) \/ Acts(w) \/ Finishes(w) \/ Advances(w) \/ EndsEvaluation(w)
    \/ \E r \in Automation : TakesRule(w, r)

AutomationNext ==
    \/ AddEvent
    \/ \E n \in DOMAIN journal : CommitEvent(n)
    \/ \E r \in Automation :
         \/ CreateAutomation(r) \/ DeleteAutomation(r)
         \/ \E seen \in 1..MaxRevisions : UpdateAutomation(r, seen)
    \/ \E w \in Evaluator : Evaluates(w) \/ BreaksOff(w)

-----------------------------------------------------------------------------
\* No two runs of a rule are about one event, however evaluations overlap; and of the
\* events a rule has passed none was forgotten: each has had its run, unless it did not
\* match, came while the rule was cooling, or was still uncommitted when a later one
\* was read.
EventsHandled ==
    \A r \in Automation, n \in DOMAIN journal :
        /\ runs[r][n] <= 1
        /\ Exists(r) /\ n <= automation[r].cursor /\ Committed(n) =>
               runs[r][n] = 1 \/ <<r, n>> \in spared \union overtaken

Watching(r) == Exists(r) /\ automation[r].enabled /\ automation[r].on \in Pattern
Broken == \E r \in Automation : Exists(r) /\ automation[r].enabled /\ automation[r].on = Malformed

Behind(n) == n \in DOMAIN journal /\ Committed(n) /\ \E r \in Automation : Watching(r) /\ automation[r].cursor < n

\* The enabled rules get past every committed event, though evaluations break off and rules
\* are deleted under them, unless some enabled rule has, now and again, an interval that
\* is no number.
EventsArePassed == \A n \in 1..MaxEvents : Behind(n) ~> (~Behind(n) \/ Broken)

=============================================================================
