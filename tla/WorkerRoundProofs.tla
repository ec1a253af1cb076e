-------------------------- MODULE WorkerRoundProofs --------------------------
(***************************************************************************)
(* Proofs about the rounds of a worker: the automation event with its      *)
(* rules, and the batch operation with its items, for every set of         *)
(* workers, rules and items and every bound; and about the coins and the   *)
(* media requests of the archived v2, as LegacyLedger models them.         *)
(***************************************************************************)
EXTENDS WorkerRound, LegacyLedger, FiniteSetTheorems, SequenceTheorems, WellFoundedInduction, TLAPS

(* The automation event. *)

\* The places of a worker that holds a rule are rules.
Placed == \A w \in Worker : wk[w].phase \in {"act", "mark"} => wk[w].rule \in Rule

EventTyped == TypeOK /\ Placed

\* What Go, NextRule and a claim make of what a worker remembers.
LEMMA WorkColumns ==
  ASSUME NEW w \in Work
  PROVE  /\ \A p \in Phase : [w EXCEPT !.phase = p] \in Work
         /\ \A p \in Phase : \A e \in ExecStatus :
              [w EXCEPT !.phase = p, !.previous = e] \in Work
         /\ \A n \in 1..(Rules + 1) :
              [w EXCEPT !.phase = "rule", !.rule = n, !.previous = "none"] \in Work
  BY DEF Work, Phase, ExecStatus

LEMMA IdleWork ==
  /\ Idle \in Work
  /\ \A a \in 0..MaxAttempts : [Idle EXCEPT !.phase = "rule", !.attempt = a] \in Work
<1>1. 1 \in 1..(Rules + 1) /\ 0 \in 0..MaxAttempts
  BY AutomationAssumption
<1> QED
  BY <1>1 DEF Idle, Work, Phase, ExecStatus

LEMMA EventInitTyped == Init => EventTyped
<1> SUFFICES ASSUME Init PROVE EventTyped
  OBVIOUS
<1>1. wk \in [Worker -> Work] /\ \A w \in Worker : wk[w] = Idle
  BY IdleWork DEF Init
<1>2. MaxStalls \in Nat /\ MaxAbandons \in Nat /\ MaxAttempts \in Nat
  BY AutomationAssumption
<1>3. event \in Event /\ exec \in [Rule -> ExecStatus] /\ applied \in [Rule -> Nat] /\ claims \in Nat
  BY <1>2 DEF Init, Event, EventStatus, ExecStatus
<1>4. spent \in [stalls: 0..MaxStalls, abandons: 0..MaxAbandons]
  BY <1>2 DEF Init
<1>5. Placed
  BY <1>1 DEF Placed, Idle
<1> QED
  BY <1>1, <1>3, <1>4, <1>5 DEF EventTyped, TypeOK

\* How the steps of ProcessNextAutomation move their worker.
LEMMA GoMoves ==
  ASSUME EventTyped, NEW w \in Worker, NEW p \in Phase, Go(w, p)
  PROVE  /\ wk'[w].phase = p /\ wk'[w].rule = wk[w].rule /\ wk'[w].attempt = wk[w].attempt
         /\ wk'[w].previous = wk[w].previous
         /\ wk' \in [Worker -> Work]
         /\ \A v \in Worker : v # w => wk'[v] = wk[v]
<1>1. wk \in [Worker -> Work] /\ wk[w] \in Work /\ wk' = [wk EXCEPT ![w] = [@ EXCEPT !.phase = p]]
  BY DEF EventTyped, TypeOK, Go
<1>2. [wk[w] EXCEPT !.phase = p] \in Work
  BY <1>1, WorkColumns
<1> QED
  BY <1>1, <1>2 DEF Work

LEMMA NextRuleMoves ==
  ASSUME EventTyped, NEW w \in Worker, wk[w].rule \in Rule, NextRule(w)
  PROVE  /\ wk'[w].phase = "rule" /\ wk'[w].rule = wk[w].rule + 1
         /\ wk'[w].attempt = wk[w].attempt
         /\ wk' \in [Worker -> Work]
         /\ \A v \in Worker : v # w => wk'[v] = wk[v]
<1>1. wk \in [Worker -> Work] /\ wk[w] \in Work /\ Rules \in Nat
  BY AutomationAssumption DEF EventTyped, TypeOK
<1>2. wk[w].rule + 1 \in 1..(Rules + 1)
  BY <1>1 DEF Rule
<1>3. [wk[w] EXCEPT !.phase = "rule", !.rule = wk[w].rule + 1, !.previous = "none"] \in Work
  BY <1>1, <1>2, WorkColumns
<1>4. wk' = [wk EXCEPT ![w] =
               [wk[w] EXCEPT !.phase = "rule", !.rule = wk[w].rule + 1, !.previous = "none"]]
  BY DEF NextRule
<1>5. wk'[w] = [wk[w] EXCEPT !.phase = "rule", !.rule = wk[w].rule + 1, !.previous = "none"]
  BY <1>1, <1>4
<1>6. wk' \in [Worker -> Work] /\ \A v \in Worker : v # w => wk'[v] = wk[v]
  BY <1>1, <1>3, <1>4
<1>7. wk'[w].phase = "rule" /\ wk'[w].attempt = wk[w].attempt /\ wk'[w].rule = wk[w].rule + 1
  BY <1>1, <1>5 DEF Work
<1> QED
  BY <1>6, <1>7

LEMMA ReadMoves ==
  ASSUME EventTyped, NEW w \in Worker, ReadExecution(w)
  PROVE  /\ wk[w].phase = "rule" /\ wk[w].rule \in Rule
         /\ UNCHANGED <<event, exec, applied, claims, spent>>
         /\ \/ exec[wk[w].rule] \in {"succeeded", "skipped"} /\ NextRule(w)
            \/ /\ exec[wk[w].rule] \notin {"succeeded", "skipped"}
               /\ wk'[w].phase = "act" /\ wk'[w].rule = wk[w].rule
               /\ wk'[w].attempt = wk[w].attempt /\ wk' \in [Worker -> Work]
               /\ \A v \in Worker : v # w => wk'[v] = wk[v]
<1>1. wk \in [Worker -> Work] /\ wk[w] \in Work /\ wk[w].rule \in Rule
      /\ exec[wk[w].rule] \in ExecStatus
  BY DEF EventTyped, TypeOK, ReadExecution
<1>2. [wk[w] EXCEPT !.phase = "act", !.previous = exec[wk[w].rule]] \in Work
  BY <1>1, WorkColumns DEF Phase
<1>3. CASE exec[wk[w].rule] \in {"succeeded", "skipped"}
  BY <1>1, <1>3 DEF ReadExecution
<1>4. CASE exec[wk[w].rule] \notin {"succeeded", "skipped"}
  <2>1. wk' = [wk EXCEPT ![w] = [wk[w] EXCEPT !.phase = "act", !.previous = exec[wk[w].rule]]]
    BY <1>4 DEF ReadExecution
  <2>2. wk'[w] = [wk[w] EXCEPT !.phase = "act", !.previous = exec[wk[w].rule]]
    BY <1>1, <2>1
  <2>3. wk' \in [Worker -> Work] /\ \A v \in Worker : v # w => wk'[v] = wk[v]
    BY <1>1, <1>2, <2>1
  <2>4. wk'[w].phase = "act" /\ wk'[w].rule = wk[w].rule /\ wk'[w].attempt = wk[w].attempt
    BY <1>1, <2>2 DEF Work
  <2> QED
    BY <1>1, <1>4, <2>3, <2>4 DEF ReadExecution
<1> QED
  BY <1>3, <1>4

LEMMA EndMoves ==
  ASSUME EventTyped, NEW w \in Worker
  PROVE  /\ Claim(w) =>
              /\ wk'[w].phase = "rule" /\ wk'[w].rule = 1
              /\ wk'[w].attempt = event.attempts + 1
         /\ Succeed(w) \/ Fail(w) \/ Abandon(w) => wk'[w] = Idle
         /\ Claim(w) \/ Succeed(w) \/ Fail(w) \/ Abandon(w) =>
              /\ wk' \in [Worker -> Work]
              /\ \A v \in Worker : v # w => wk'[v] = wk[v]
<1>1. wk \in [Worker -> Work] /\ Idle \in Work /\ event \in Event /\ MaxAttempts \in Nat
  BY IdleWork, AutomationAssumption DEF EventTyped, TypeOK
<1>2. ASSUME Claim(w)
      PROVE  /\ wk'[w] = [Idle EXCEPT !.phase = "rule", !.attempt = event.attempts + 1]
             /\ wk' \in [Worker -> Work]
             /\ \A v \in Worker : v # w => wk'[v] = wk[v]
  <2>1. event.attempts + 1 \in 0..MaxAttempts
    BY <1>1, <1>2 DEF Claim, Claimable, Event
  <2>2. [Idle EXCEPT !.phase = "rule", !.attempt = event.attempts + 1] \in Work
    BY <2>1, IdleWork
  <2> QED
    BY <1>1, <1>2, <2>2 DEF Claim
<1>3. ASSUME Succeed(w) \/ Fail(w) \/ Abandon(w)
      PROVE  wk'[w] = Idle /\ wk' \in [Worker -> Work] /\ \A v \in Worker : v # w => wk'[v] = wk[v]
  BY <1>1, <1>3 DEF Succeed, Fail, Abandon
<1> QED
  BY <1>2, <1>3 DEF Idle

\* Claims, rules, failures and time keep the types.
LEMMA EventStepTyped == EventTyped /\ [Next]_vars => EventTyped'
<1> SUFFICES ASSUME EventTyped, [Next]_vars PROVE EventTyped'
  OBVIOUS
<1>0. /\ event \in Event /\ exec \in [Rule -> ExecStatus] /\ applied \in [Rule -> Nat]
      /\ wk \in [Worker -> Work] /\ claims \in Nat
      /\ spent \in [stalls: 0..MaxStalls, abandons: 0..MaxAbandons]
      /\ MaxAttempts \in Nat /\ MaxStalls \in Nat /\ MaxAbandons \in Nat
      /\ \A w \in Worker : wk[w].phase \in {"act", "mark"} => wk[w].rule \in Rule
  BY AutomationAssumption DEF EventTyped, TypeOK, Placed
<1>1. CASE UNCHANGED vars
  BY <1>1 DEF vars, EventTyped, TypeOK, Placed
<1>2. CASE LeaseLapses \/ LeaseStalls
  <2>1. event' \in Event
    BY <1>0, <1>2 DEF LeaseLapses, LeaseStalls, Event
  <2>2. spent' \in [stalls: 0..MaxStalls, abandons: 0..MaxAbandons]
    BY <1>0, <1>2 DEF LeaseLapses, LeaseStalls
  <2>3. UNCHANGED <<exec, applied, wk, claims>>
    BY <1>2 DEF LeaseLapses, LeaseStalls
  <2> QED
    BY <1>0, <2>1, <2>2, <2>3 DEF EventTyped, TypeOK, Placed
<1>3. ASSUME NEW w \in Worker, Claim(w) PROVE EventTyped'
  <2>1. event' \in Event /\ claims' \in Nat /\ UNCHANGED <<exec, applied, spent>>
    BY <1>0, <1>3 DEF Claim, Claimable, Event, EventStatus
  <2>2. wk' \in [Worker -> Work] /\ Placed'
    BY <1>0, <1>3, EndMoves DEF Placed
  <2> QED
    BY <1>0, <2>1, <2>2 DEF EventTyped, TypeOK
<1>4. ASSUME NEW w \in Worker, ReadExecution(w) PROVE EventTyped'
  <2>1. wk' \in [Worker -> Work] /\ Placed'
    BY <1>0, <1>4, ReadMoves, NextRuleMoves DEF Placed
  <2> QED
    BY <1>0, <1>4, <2>1, ReadMoves DEF EventTyped, TypeOK
<1>5. ASSUME NEW w \in Worker, RunRule(w) PROVE EventTyped'
  <2>1. wk[w].rule \in Rule /\ NextRule(w) /\ UNCHANGED <<event, claims, spent>>
    BY <1>0, <1>5 DEF RunRule
  <2>2. exec' \in [Rule -> ExecStatus] /\ applied' \in [Rule -> Nat]
    BY <1>0, <1>5 DEF RunRule, ExecStatus
  <2>3. wk' \in [Worker -> Work] /\ Placed'
    BY <1>0, <2>1, NextRuleMoves DEF Placed
  <2> QED
    BY <1>0, <2>1, <2>2, <2>3 DEF EventTyped, TypeOK
<1>6. ASSUME NEW w \in Worker, RollBack(w) \/ ActionFails(w) PROVE EventTyped'
  <2>1. wk[w].rule \in Rule /\ UNCHANGED <<event, exec, applied, claims, spent>>
    BY <1>0, <1>6, AutomationAssumption DEF RollBack, ActionFails
  <2>2. wk' \in [Worker -> Work] /\ Placed'
    BY <1>0, <1>6, <2>1, GoMoves DEF Placed, RollBack, ActionFails, Phase
  <2> QED
    BY <1>0, <2>1, <2>2 DEF EventTyped, TypeOK
<1>7. ASSUME NEW w \in Worker, MarkFailed(w) PROVE EventTyped'
  <2>1. exec' \in [Rule -> ExecStatus] /\ UNCHANGED <<event, applied, claims, spent>>
    BY <1>0, <1>7 DEF MarkFailed, ExecStatus
  <2>2. wk' \in [Worker -> Work] /\ Placed'
    BY <1>0, <1>7, GoMoves DEF Placed, MarkFailed, Phase
  <2> QED
    BY <1>0, <2>1, <2>2 DEF EventTyped, TypeOK
<1>8. ASSUME NEW w \in Worker, Succeed(w) \/ Fail(w) \/ Abandon(w) PROVE EventTyped'
  <2>1. wk' \in [Worker -> Work] /\ UNCHANGED <<exec, applied, claims>>
    BY <1>8, EndMoves DEF Succeed, Fail, Abandon
  <2>2. Placed'
    BY <1>0, <1>8, EndMoves DEF Placed, Idle
  <2>3. event' \in Event
    <3>1. CASE Fail(w)
      <4>1. wk[w].attempt \in 0..MaxAttempts /\ MaxAttempts \in 0..MaxAttempts
        BY <1>0 DEF Work
      <4> QED
        BY <3>1, <4>1 DEF Fail, Event, EventStatus
    <3>2. CASE Succeed(w) \/ Abandon(w)
      BY <1>0, <3>2 DEF Succeed, Abandon, Event, EventStatus
    <3> QED
      BY <1>8, <3>1, <3>2
  <2>4. spent' \in [stalls: 0..MaxStalls, abandons: 0..MaxAbandons]
    BY <1>0, <1>8 DEF Succeed, Fail, Abandon
  <2> QED
    BY <1>0, <2>1, <2>2, <2>3, <2>4 DEF EventTyped, TypeOK
<1> QED
  BY <1>1, <1>2, <1>3, <1>4, <1>5, <1>6, <1>7, <1>8 DEF Next, Proceed

\* What the records and the counts say of a rule: its actions were committed
\* only when its conditions hold, and before its success or the event's.
RulesTrue ==
    \A r \in Rule :
        /\ applied[r] > 0 => r \in Matching
        /\ exec[r] = "succeeded" => applied[r] > 0
        /\ exec[r] = "skipped" => r \notin Matching
        /\ event.status = "succeeded" /\ r \in Matching => applied[r] > 0

\* A worker has left behind it no rule that matches and was not applied.
NothingPassedOver ==
    \A w \in Worker : \A r \in Rule :
        wk[w].phase # "idle" /\ r < wk[w].rule /\ r \in Matching => applied[r] > 0

\* As long as no lease runs out under a living worker, a worker that is in the
\* event is the one its lease names, in the attempt the event counts.
OneAtATime ==
    \A w \in Worker : wk[w].phase # "idle" =>
        /\ event.status = "running" /\ event.owner = w /\ event.live
        /\ wk[w].attempt = event.attempts

\* ... no claim goes uncounted, and what was applied stays recorded.
RecordsAgree ==
    /\ claims <= event.attempts
    /\ \A r \in Rule : applied[r] <= 1 /\ (applied[r] > 0 => exec[r] = "succeeded")
    /\ \A w \in Worker : wk[w].phase \in {"act", "mark"} => exec[wk[w].rule] # "succeeded"

EventInv ==
    /\ EventTyped /\ RulesTrue /\ NothingPassedOver
    /\ spent.stalls = 0 => OneAtATime /\ RecordsAgree

LEMMA EventInitInv == Init => EventInv
<1> SUFFICES ASSUME Init PROVE EventInv
  OBVIOUS
<1>1. EventTyped /\ Idle.phase = "idle"
  BY EventInitTyped DEF Idle
<1>2. \A w \in Worker : wk[w].phase = "idle"
  BY <1>1 DEF Init
<1>3. RulesTrue /\ NothingPassedOver /\ OneAtATime
  BY <1>2 DEF Init, RulesTrue, NothingPassedOver, OneAtATime
<1>4. RecordsAgree
  BY <1>2 DEF Init, RecordsAgree
<1> QED
  BY <1>1, <1>3, <1>4 DEF EventInv

\* What a run rule leaves of records, counts and places.
LEMMA RunRuleMoves ==
  ASSUME EventTyped, NEW w \in Worker, RunRule(w), NEW r, r = wk[w].rule
  PROVE  /\ r \in Rule /\ wk[w].phase = "act" /\ exec[r] \in {"none", "failed"}
         /\ NextRule(w) /\ UNCHANGED <<event, claims, spent>>
         /\ exec'[r] = IF r \in Matching THEN "succeeded" ELSE "skipped"
         /\ applied'[r] = IF r \in Matching THEN applied[r] + 1 ELSE applied[r]
         /\ \A s \in Rule : s # r => exec'[s] = exec[s] /\ applied'[s] = applied[s]
<1>1. r \in Rule /\ exec \in [Rule -> ExecStatus] /\ applied \in [Rule -> Nat]
  BY DEF EventTyped, TypeOK, Placed, RunRule
<1> QED
  BY <1>1 DEF RunRule, Recordable

\* No count of applied actions is taken back.
LEMMA AppliedStays ==
  EventTyped /\ [Next]_vars => \A r \in Rule : applied[r] > 0 => applied'[r] > 0
<1> SUFFICES ASSUME EventTyped, [Next]_vars PROVE \A r \in Rule : applied[r] > 0 => applied'[r] > 0
  OBVIOUS
<1>1. applied \in [Rule -> Nat]
  BY DEF EventTyped, TypeOK
<1>2. ASSUME NEW w \in Worker, RunRule(w) PROVE \A r \in Rule : applied[r] > 0 => applied'[r] > 0
  BY <1>1, <1>2, RunRuleMoves
<1>3. (\E w \in Worker : RunRule(w)) \/ UNCHANGED applied
  BY DEF Next, Proceed, vars, LeaseLapses, LeaseStalls, Claim, ReadExecution, RollBack,
         ActionFails, MarkFailed, Succeed, Fail, Abandon
<1> QED
  BY <1>2, <1>3

\* Each step keeps the records true and passes over no matching rule.
LEMMA StepRulesTrue ==
  EventTyped /\ RulesTrue /\ NothingPassedOver /\ [Next]_vars => RulesTrue' /\ NothingPassedOver'
<1> SUFFICES ASSUME EventTyped, RulesTrue, NothingPassedOver, [Next]_vars
             PROVE  RulesTrue' /\ NothingPassedOver'
  OBVIOUS
<1>0. /\ event \in Event /\ exec \in [Rule -> ExecStatus] /\ applied \in [Rule -> Nat]
      /\ wk \in [Worker -> Work] /\ Rules \in Nat
      /\ \A w \in Worker : wk[w].rule \in 1..(Rules + 1)
      /\ EventTyped'
  BY AutomationAssumption, EventStepTyped DEF EventTyped, TypeOK, Work
<1>01. \A r \in Rule : applied[r] > 0 => applied'[r] > 0
  BY AppliedStays
<1>1. CASE UNCHANGED vars
  BY <1>1 DEF vars, RulesTrue, NothingPassedOver
<1>2. CASE LeaseLapses \/ LeaseStalls
  <2>1. UNCHANGED <<exec, applied, wk>> /\ event'.status = event.status
    BY <1>0, <1>2 DEF LeaseLapses, LeaseStalls, Event
  <2> QED
    BY <2>1 DEF RulesTrue, NothingPassedOver
<1>3. ASSUME NEW w \in Worker, Claim(w) PROVE RulesTrue' /\ NothingPassedOver'
  <2>1. event'.status = "running" /\ UNCHANGED <<exec, applied>>
    BY <1>3 DEF Claim
  <2>2. wk'[w].rule = 1 /\ \A v \in Worker : v # w => wk'[v] = wk[v]
    BY <1>3, EndMoves
  <2>3. \A r \in Rule : ~(r < 1)
    BY <1>0 DEF Rule
  <2> QED
    BY <2>1, <2>2, <2>3 DEF RulesTrue, NothingPassedOver
<1>4. ASSUME NEW w \in Worker, ReadExecution(w) PROVE RulesTrue' /\ NothingPassedOver'
  <2>1. /\ UNCHANGED <<event, exec, applied>> /\ wk[w].phase = "rule" /\ wk[w].rule \in Rule
        /\ \A v \in Worker : v # w => wk'[v] = wk[v]
    BY <1>0, <1>4, ReadMoves, NextRuleMoves
  <2>2. \A r \in Rule : r < wk'[w].rule /\ r \in Matching => applied[r] > 0
    <3>1. CASE exec[wk[w].rule] \in {"succeeded", "skipped"} /\ NextRule(w)
      <4>1. wk'[w].rule = wk[w].rule + 1
        BY <2>1, <3>1, NextRuleMoves
      <4>2. \A r \in Rule : r < wk'[w].rule => r < wk[w].rule \/ r = wk[w].rule
        BY <1>0, <4>1 DEF Rule
      <4> QED
        BY <2>1, <3>1, <4>2 DEF RulesTrue, NothingPassedOver
    <3>2. CASE wk'[w].rule = wk[w].rule
      BY <2>1, <3>2 DEF NothingPassedOver
    <3> QED
      BY <1>4, <3>1, <3>2, ReadMoves
  <2> QED
    BY <2>1, <2>2 DEF RulesTrue, NothingPassedOver
<1>5. ASSUME NEW w \in Worker, RunRule(w) PROVE RulesTrue' /\ NothingPassedOver'
  <2> DEFINE r == wk[w].rule
  <2>1. /\ r \in Rule /\ wk[w].phase = "act" /\ UNCHANGED event /\ NextRule(w)
        /\ exec'[r] = IF r \in Matching THEN "succeeded" ELSE "skipped"
        /\ applied'[r] = IF r \in Matching THEN applied[r] + 1 ELSE applied[r]
        /\ \A s \in Rule : s # r => exec'[s] = exec[s] /\ applied'[s] = applied[s]
    BY <1>5, RunRuleMoves
  <2>2. wk'[w].rule = r + 1 /\ \A v \in Worker : v # w => wk'[v] = wk[v]
    BY <2>1, NextRuleMoves
  <2>3. \A s \in Rule : s < wk'[w].rule => s < wk[w].rule \/ s = r
    BY <1>0, <2>2 DEF Rule
  <2>4. r \in Matching => applied'[r] > 0
    BY <1>0, <2>1
  <2>5. RulesTrue'
    BY <1>01, <2>1, <2>4 DEF RulesTrue
  <2>6. NothingPassedOver'
    BY <1>01, <2>1, <2>2, <2>3, <2>4 DEF NothingPassedOver
  <2> QED
    BY <2>5, <2>6
<1>6. ASSUME NEW w \in Worker, RollBack(w) \/ ActionFails(w) PROVE RulesTrue' /\ NothingPassedOver'
  <2>1. UNCHANGED <<event, exec, applied>> /\ wk[w].phase # "idle"
    BY <1>6 DEF RollBack, ActionFails
  <2>2. wk'[w].rule = wk[w].rule /\ \A v \in Worker : v # w => wk'[v] = wk[v]
    BY <1>6, GoMoves DEF RollBack, ActionFails, Phase
  <2> QED
    BY <2>1, <2>2 DEF RulesTrue, NothingPassedOver
<1>7. ASSUME NEW w \in Worker, MarkFailed(w) PROVE RulesTrue' /\ NothingPassedOver'
  <2>1. /\ UNCHANGED <<event, applied>> /\ wk[w].phase # "idle"
        /\ \A r \in Rule : exec'[r] = exec[r] \/ exec'[r] = "failed"
    BY <1>0, <1>7 DEF MarkFailed
  <2>2. wk'[w].rule = wk[w].rule /\ \A v \in Worker : v # w => wk'[v] = wk[v]
    BY <1>7, GoMoves DEF MarkFailed, Phase
  <2> QED
    BY <2>1, <2>2 DEF RulesTrue, NothingPassedOver
<1>8. ASSUME NEW w \in Worker, Succeed(w) PROVE RulesTrue' /\ NothingPassedOver'
  <2>1. /\ UNCHANGED <<exec, applied>> /\ wk[w].phase = "rule" /\ wk[w].rule = Rules + 1
        /\ event'.status = event.status \/ event'.status = "succeeded"
    BY <1>0, <1>8 DEF Succeed, Event
  <2>2. \A r \in Rule : r < wk[w].rule
    BY <1>0, <2>1 DEF Rule
  <2>3. \A r \in Matching \cap Rule : applied[r] > 0
    BY <2>1, <2>2 DEF NothingPassedOver
  <2>4. wk'[w].phase = "idle" /\ \A v \in Worker : v # w => wk'[v] = wk[v]
    BY <1>8, EndMoves DEF Idle
  <2> QED
    BY <2>1, <2>3, <2>4 DEF RulesTrue, NothingPassedOver
<1>9. ASSUME NEW w \in Worker, Fail(w) \/ Abandon(w) PROVE RulesTrue' /\ NothingPassedOver'
  <2>1. /\ UNCHANGED <<exec, applied>> 
        /\ event'.status = event.status \/ event'.status = "failed"
    BY <1>9 DEF Fail, Abandon
  <2>2. wk'[w].phase = "idle" /\ \A v \in Worker : v # w => wk'[v] = wk[v]
    BY <1>9, EndMoves DEF Idle
  <2> QED
    BY <2>1, <2>2 DEF RulesTrue, NothingPassedOver
<1> QED
  BY <1>1, <1>2, <1>3, <1>4, <1>5, <1>6, <1>7, <1>8, <1>9 DEF Next, Proceed

\* A worker that is alone in the event stays so until it leaves it.
LEMMA StepOneAtATime ==
  EventTyped /\ OneAtATime /\ spent'.stalls = 0 /\ [Next]_vars => OneAtATime'
<1> SUFFICES ASSUME EventTyped, OneAtATime, spent'.stalls = 0, [Next]_vars PROVE OneAtATime'
  OBVIOUS
<1>0. /\ event \in Event /\ wk \in [Worker -> Work] /\ MaxAttempts \in Nat
      /\ spent \in [stalls: 0..MaxStalls, abandons: 0..MaxAbandons]
      /\ Idle.phase = "idle"
  BY AutomationAssumption DEF EventTyped, TypeOK, Idle
<1>1. CASE UNCHANGED vars
  BY <1>1 DEF vars, OneAtATime
<1>2. CASE LeaseLapses
  <2>1. \A w \in Worker : wk[w].phase = "idle"
    BY <1>2 DEF LeaseLapses, Held, OneAtATime
  <2> QED
    BY <1>2, <2>1 DEF LeaseLapses, OneAtATime
<1>3. CASE LeaseStalls
  <2>1. spent'.stalls = spent.stalls + 1 /\ spent.stalls \in Nat
    BY <1>0, <1>3 DEF LeaseStalls
  <2> QED
    BY <2>1
<1>4. ASSUME NEW w \in Worker, Claim(w) PROVE OneAtATime'
  <2>1. \A v \in Worker : wk[v].phase = "idle"
    BY <1>4 DEF Claim, Claimable, OneAtATime
  <2>2. /\ event'.status = "running" /\ event'.owner = w /\ event'.live
        /\ event'.attempts = event.attempts + 1
    BY <1>4 DEF Claim
  <2>3. wk'[w].attempt = event.attempts + 1 /\ \A v \in Worker : v # w => wk'[v] = wk[v]
    BY <1>4, EndMoves
  <2> QED
    BY <2>1, <2>2, <2>3 DEF OneAtATime
<1>5. ASSUME NEW w \in Worker,
             ReadExecution(w) \/ RunRule(w) \/ RollBack(w) \/ ActionFails(w) \/ MarkFailed(w)
      PROVE  OneAtATime'
  <2>1. UNCHANGED event /\ wk[w].phase # "idle"
    BY <1>5 DEF ReadExecution, RunRule, RollBack, ActionFails, MarkFailed
  <2>2. wk'[w].attempt = wk[w].attempt /\ \A v \in Worker : v # w => wk'[v] = wk[v]
    <3>1. CASE ReadExecution(w)
      BY <3>1, ReadMoves, NextRuleMoves
    <3>2. CASE RunRule(w)
      BY <3>2, RunRuleMoves, NextRuleMoves
    <3>3. CASE RollBack(w) \/ ActionFails(w) \/ MarkFailed(w)
      BY <3>3, GoMoves DEF RollBack, ActionFails, MarkFailed, Phase
    <3> QED
      BY <1>5, <3>1, <3>2, <3>3
  <2> QED
    BY <2>1, <2>2 DEF OneAtATime
<1>6. ASSUME NEW w \in Worker, Succeed(w) \/ Fail(w) \/ Abandon(w) PROVE OneAtATime'
  <2>1. wk[w].phase # "idle"
    BY <1>6 DEF Succeed, Fail, Abandon
  <2>2. wk'[w].phase = "idle" /\ \A v \in Worker : v # w => wk'[v] = wk[v]
    BY <1>0, <1>6, EndMoves
  <2>3. \A v \in Worker : v # w => wk[v].phase = "idle"
    BY <2>1 DEF OneAtATime
  <2> QED
    BY <2>2, <2>3 DEF OneAtATime
<1> QED
  BY <1>1, <1>2, <1>3, <1>4, <1>5, <1>6 DEF Next, Proceed

\* Of a worker alone in the event nothing is applied twice or goes unrecorded.
LEMMA StepRecordsAgree ==
  EventTyped /\ OneAtATime /\ RecordsAgree /\ [Next]_vars => RecordsAgree'
<1> SUFFICES ASSUME EventTyped, OneAtATime, RecordsAgree, [Next]_vars PROVE RecordsAgree'
  OBVIOUS
<1>0. /\ event \in Event /\ exec \in [Rule -> ExecStatus] /\ applied \in [Rule -> Nat]
      /\ wk \in [Worker -> Work] /\ claims \in Nat /\ MaxAttempts \in Nat
      /\ \A w \in Worker : wk[w].phase \in {"act", "mark"} => wk[w].rule \in Rule
      /\ Idle.phase = "idle"
  BY AutomationAssumption DEF EventTyped, TypeOK, Placed, Idle
<1>1. CASE UNCHANGED vars
  BY <1>1 DEF vars, RecordsAgree
<1>2. CASE LeaseLapses \/ LeaseStalls
  <2>1. UNCHANGED <<exec, applied, wk, claims>> /\ event'.attempts = event.attempts
    BY <1>0, <1>2 DEF LeaseLapses, LeaseStalls, Event
  <2> QED
    BY <2>1 DEF RecordsAgree
<1>3. ASSUME NEW w \in Worker, Claim(w) PROVE RecordsAgree'
  <2>1. UNCHANGED <<exec, applied>> /\ claims' <= event'.attempts
    BY <1>0, <1>3 DEF Claim, RecordsAgree, Event
  <2>2. wk'[w].phase = "rule" /\ \A v \in Worker : v # w => wk'[v] = wk[v]
    BY <1>3, EndMoves
  <2> QED
    BY <2>1, <2>2 DEF RecordsAgree
<1>4. ASSUME NEW w \in Worker, ReadExecution(w) PROVE RecordsAgree'
  <2>1. UNCHANGED <<event, exec, applied, claims>> /\ wk[w].rule \in Rule
    BY <1>4, ReadMoves
  <2>2. \A v \in Worker : v # w => wk'[v] = wk[v]
    BY <1>4, ReadMoves, NextRuleMoves
  <2>3. wk'[w].phase \in {"act", "mark"} => exec[wk'[w].rule] # "succeeded"
    BY <1>4, <2>1, ReadMoves, NextRuleMoves
  <2> QED
    BY <2>1, <2>2, <2>3 DEF RecordsAgree
<1>5. ASSUME NEW w \in Worker, RunRule(w) PROVE RecordsAgree'
  <2> DEFINE r == wk[w].rule
  <2>1. /\ r \in Rule /\ exec[r] \in {"none", "failed"} /\ UNCHANGED <<event, claims>> /\ NextRule(w)
        /\ exec'[r] = IF r \in Matching THEN "succeeded" ELSE "skipped"
        /\ applied'[r] = IF r \in Matching THEN applied[r] + 1 ELSE applied[r]
        /\ \A s \in Rule : s # r => exec'[s] = exec[s] /\ applied'[s] = applied[s]
        /\ wk[w].phase = "act"
    BY <1>5, RunRuleMoves
  <2>2. wk'[w].phase = "rule" /\ \A v \in Worker : v # w => wk'[v] = wk[v]
    BY <2>1, NextRuleMoves
  <2>3. applied[r] = 0
    BY <1>0, <2>1 DEF RecordsAgree
  <2>4. \A v \in Worker : v # w => wk[v].phase = "idle"
    BY <2>1 DEF OneAtATime
  <2>5. \A s \in Rule : applied'[s] <= 1 /\ (applied'[s] > 0 => exec'[s] = "succeeded")
    BY <2>1, <2>3 DEF RecordsAgree
  <2> QED
    BY <2>1, <2>2, <2>4, <2>5 DEF RecordsAgree
<1>6. ASSUME NEW w \in Worker, RollBack(w) \/ ActionFails(w) PROVE RecordsAgree'
  <2>1. UNCHANGED <<event, exec, applied, claims>>
    BY <1>6 DEF RollBack, ActionFails
  <2>2. \A v \in Worker : v # w => wk'[v] = wk[v]
    BY <1>6, GoMoves DEF RollBack, ActionFails, Phase
  <2>3. wk'[w].phase \in {"act", "mark"} => wk[w].phase = "act" /\ wk'[w].rule = wk[w].rule
    BY <1>6, GoMoves DEF RollBack, ActionFails, Phase
  <2> QED
    BY <2>1, <2>2, <2>3 DEF RecordsAgree
<1>7. ASSUME NEW w \in Worker, MarkFailed(w) PROVE RecordsAgree'
  <2>1. /\ UNCHANGED <<event, applied, claims>> /\ wk[w].phase = "mark"
        /\ exec' = exec \/ exec' = [exec EXCEPT ![wk[w].rule] = "failed"]
    BY <1>7 DEF MarkFailed
  <2>2. /\ wk'[w].phase \notin {"act", "mark"}
        /\ \A v \in Worker : v # w => wk'[v] = wk[v]
    BY <1>7, GoMoves DEF MarkFailed, Phase
  <2>3. wk[w].rule \in Rule /\ applied[wk[w].rule] = 0
    BY <1>0, <2>1 DEF RecordsAgree
  <2>4. \A v \in Worker : v # w => wk[v].phase = "idle"
    BY <2>1 DEF OneAtATime
  <2>5. \A s \in Rule : applied[s] > 0 => exec'[s] = "succeeded"
    BY <1>0, <2>1, <2>3 DEF RecordsAgree
  <2> QED
    BY <2>1, <2>2, <2>4, <2>5 DEF RecordsAgree
<1>8. ASSUME NEW w \in Worker, Succeed(w) \/ Fail(w) \/ Abandon(w) PROVE RecordsAgree'
  <2>1. UNCHANGED <<exec, applied, claims>> /\ wk[w].phase # "idle"
    BY <1>8 DEF Succeed, Fail, Abandon
  <2>2. wk'[w].phase = "idle" /\ \A v \in Worker : v # w => wk'[v] = wk[v]
    BY <1>0, <1>8, EndMoves
  <2>3. wk[w].attempt = event.attempts /\ event.attempts <= MaxAttempts
    BY <1>0, <2>1 DEF OneAtATime, Event
  <2>4. event.attempts <= event'.attempts /\ event.attempts \in Nat /\ event'.attempts \in Nat
    <3>1. event.attempts \in 0..MaxAttempts
      BY <1>0 DEF Event
    <3>2. event'.attempts \in {event.attempts, MaxAttempts}
      <4>1. CASE Succeed(w) \/ Abandon(w)
        <5>1. \/ event' = event
              \/ event' = [event EXCEPT !.status = "succeeded", !.owner = NoOwner, !.live = FALSE]
          BY <4>1 DEF Succeed, Abandon
        <5> QED
          BY <1>0, <5>1 DEF Event
      <4>2. CASE Fail(w)
        BY <2>3, <4>2 DEF Fail
      <4> QED
        BY <1>8, <4>1, <4>2
    <3> QED
      BY <1>0, <3>1, <3>2
  <2>5. claims' <= event'.attempts
    BY <1>0, <2>1, <2>4 DEF RecordsAgree
  <2> QED
    BY <2>1, <2>2, <2>5 DEF RecordsAgree
<1> QED
  BY <1>1, <1>2, <1>3, <1>4, <1>5, <1>6, <1>7, <1>8 DEF Next, Proceed

LEMMA StepEventInv == EventInv /\ [Next]_vars => EventInv'
<1> SUFFICES ASSUME EventInv, [Next]_vars PROVE EventInv'
  OBVIOUS
<1>1. EventTyped' /\ RulesTrue' /\ NothingPassedOver'
  BY EventStepTyped, StepRulesTrue DEF EventInv
<1>2. spent'.stalls = 0 => spent.stalls = 0
  <2>1. spent \in [stalls: 0..MaxStalls, abandons: 0..MaxAbandons] /\ MaxStalls \in Nat
    BY AutomationAssumption DEF EventInv, EventTyped, TypeOK
  <2>2. spent'.stalls \in {spent.stalls, spent.stalls + 1}
    BY <2>1 DEF Next, Proceed, vars, LeaseLapses, LeaseStalls, Claim, ReadExecution, RunRule,
                RollBack, ActionFails, MarkFailed, Succeed, Fail, Abandon
  <2> QED
    BY <2>1, <2>2
<1>3. spent'.stalls = 0 => OneAtATime' /\ RecordsAgree'
  BY <1>2, StepOneAtATime, StepRecordsAgree DEF EventInv
<1> QED
  BY <1>1, <1>3 DEF EventInv

\* The invariant answers for everything AppliedOnce promises.
LEMMA EventInvImplies == EventInv => AppliedOnce
<1> SUFFICES ASSUME EventInv PROVE AppliedOnce
  OBVIOUS
<1>1. TypeOK /\ event \in Event /\ MaxAttempts \in Nat /\ claims \in Nat
  BY AutomationAssumption DEF EventInv, EventTyped, TypeOK
<1>2. SucceededMeansApplied
  BY DEF EventInv, RulesTrue, SucceededMeansApplied
<1>3. AtMostOneSuccess
  BY DEF EventInv, RecordsAgree, AtMostOneSuccess, OncePerRule
<1>4. ClaimsWithinMaximum
  <2>1. event.attempts \in 0..MaxAttempts
    BY <1>1 DEF Event
  <2> QED
    BY <1>1, <2>1 DEF EventInv, RecordsAgree, ClaimsWithinMaximum
<1> QED
  BY <1>1, <1>2, <1>3, <1>4 DEF AppliedOnce

\* Between the rounds a step of the batch leaves the event where it is.
LEMMA RoundStepEvent == [RoundNext]_roundVars => [Next]_vars
  BY DEF RoundNext, roundVars, MoveEvent, MoveBatch

\* The rules of an event that match are applied once each and before it is a
\* success, however often ProcessNextAutomation is cut short and begun again.
THEOREM AppliedOnceHolds == RoundSpec => []AppliedOnce
<1>1. RoundInit => EventInv
  BY EventInitInv DEF RoundInit
<1>2. EventInv /\ [RoundNext]_roundVars => EventInv'
  BY StepEventInv, RoundStepEvent
<1> QED
  BY <1>1, <1>2, EventInvImplies, PTL DEF RoundSpec

-----------------------------------------------------------------------------
(* The batch operation. *)

Active(w) == batchWorker[w].phase # "idle"

\* A worker at an item has it in its chunk; one with a verdict is about to
\* settle the operation.
InChunk ==
    \A w \in Worker :
        /\ batchWorker[w].phase \in {"item", "mark", "renew"} => batchWorker[w].todo # {}
        /\ batchWorker[w].verdict # "none" => batchWorker[w].phase = "settle"

BatchTyped == Batch!TypeOK /\ InChunk

\* A nonempty set of numbers has a least one.
LEMMA LeastOf ==
  ASSUME NEW S, S \subseteq Nat, S # {}
  PROVE  \E i \in S : \A j \in S : i <= j
<1> DEFINE R == OpToRel(<, Nat)
<1>1. IsWellFoundedOn(R, Nat)
  BY NatLessThanWellFounded
<1>2. \A a, b \in Nat : a < b => <<a, b>> \in R
  BY DEF OpToRel
<1> HIDE DEF R
<1>3. PICK i \in S : \A j \in S : ~ (<<j, i>> \in R)
  BY <1>1, WFMin
<1>4. \A j \in S : ~ (j < i)
  BY <1>2, <1>3
<1> QED
  BY <1>3, <1>4

\* The item a worker is at is the first of those it has still to do.
LEMMA CurrentIsFirst ==
  ASSUME BatchTyped, NEW w \in Worker, batchWorker[w].phase \in {"item", "mark", "renew"}
  PROVE  /\ Batch!Current(w) \in batchWorker[w].todo
         /\ Batch!Current(w) \in Item
         /\ \A j \in batchWorker[w].todo : Batch!Current(w) <= j
<1>1. batchWorker[w].todo # {} /\ batchWorker[w].todo \subseteq Item /\ Item \subseteq Nat
  BY BatchAssumption DEF BatchTyped, InChunk, Batch!TypeOK, Batch!Work
<1>2. \E i \in batchWorker[w].todo : \A j \in batchWorker[w].todo : i <= j
  BY <1>1, LeastOf
<1> QED
  BY <1>1, <1>2 DEF Batch!Current

\* A fault is counted under its own name.
LEMMA SpendCounts ==
  ASSUME NEW f \in Batch!Fault, BatchTyped, Batch!Spend(f)
  PROVE  /\ batchFaults' \in [Batch!Fault -> Nat]
         /\ batchFaults'[f] = batchFaults[f] + 1
         /\ \A g \in Batch!Fault : g # f => batchFaults'[g] = batchFaults[g]
<1>1. batchFaults \in [Batch!Fault -> Nat]
  BY DEF BatchTyped, Batch!TypeOK
<1>2. batchFaults' = [batchFaults EXCEPT ![f] = batchFaults[f] + 1]
  BY DEF Batch!Spend
<1> QED
  BY <1>1, <1>2

\* What Go makes of what a worker remembers.
LEMMA BatchGoMoves ==
  ASSUME BatchTyped, NEW w \in Worker, NEW p \in Batch!Phase, Batch!Go(w, p)
  PROVE  /\ batchWorker'[w].phase = p
         /\ batchWorker'[w].todo = batchWorker[w].todo
         /\ batchWorker'[w].verdict = batchWorker[w].verdict
         /\ batchWorker' \in [Worker -> Batch!Work]
         /\ \A v \in Worker : v # w => batchWorker'[v] = batchWorker[v]
<1>1. /\ batchWorker \in [Worker -> Batch!Work] /\ batchWorker[w] \in Batch!Work
      /\ batchWorker' = [batchWorker EXCEPT ![w] = [batchWorker[w] EXCEPT !.phase = p]]
  BY DEF BatchTyped, Batch!TypeOK, Batch!Go
<1>2. [batchWorker[w] EXCEPT !.phase = p] \in Batch!Work
  BY <1>1 DEF Batch!Work
<1>3. batchWorker'[w] = [batchWorker[w] EXCEPT !.phase = p]
  BY <1>1
<1>4. batchWorker' \in [Worker -> Batch!Work] /\ \A v \in Worker : v # w => batchWorker'[v] = batchWorker[v]
  BY <1>1, <1>2
<1> QED
  BY <1>1, <1>3, <1>4 DEF Batch!Work

\* A worker that leaves the operation forgets it.
LEMMA BatchIdleMoves ==
  ASSUME BatchTyped, NEW w \in Worker, batchWorker' = [batchWorker EXCEPT ![w] = Batch!Idle]
  PROVE  /\ batchWorker'[w].phase = "idle" /\ batchWorker'[w].verdict = "none"
         /\ batchWorker' \in [Worker -> Batch!Work]
         /\ \A v \in Worker : v # w => batchWorker'[v] = batchWorker[v]
<1>1. batchWorker \in [Worker -> Batch!Work] /\ Batch!Idle \in Batch!Work
  BY DEF BatchTyped, Batch!TypeOK, Batch!Idle, Batch!Work, Batch!Phase
<1>2. batchWorker'[w] = Batch!Idle /\ Batch!Idle.phase = "idle" /\ Batch!Idle.verdict = "none"
  BY <1>1 DEF Batch!Idle
<1>3. batchWorker' \in [Worker -> Batch!Work] /\ \A v \in Worker : v # w => batchWorker'[v] = batchWorker[v]
  BY <1>1
<1> QED
  BY <1>2, <1>3

\* How the other steps of ProcessNextBatch move their worker.
LEMMA ChunkMoves ==
  ASSUME BatchTyped, NEW w \in Worker, Batch!ReadChunk(w)
  PROVE  /\ batchWorker[w].phase = "claimed" /\ batchWorker'[w].phase = "loop"
         /\ batchWorker'[w].verdict = batchWorker[w].verdict
         /\ \A i \in batchWorker'[w].todo : item[i] = "pending"
         /\ batchWorker' \in [Worker -> Batch!Work]
         /\ \A v \in Worker : v # w => batchWorker'[v] = batchWorker[v]
<1> DEFINE pending == {i \in Item : item[i] = "pending"}
           chunk == {i \in pending : Batch!Cardinality({j \in pending : j < i}) < Chunk}
<1>1. /\ batchWorker \in [Worker -> Batch!Work] /\ batchWorker[w] \in Batch!Work
      /\ batchWorker[w].phase = "claimed"
      /\ batchWorker' = [batchWorker EXCEPT ![w] =
                           [batchWorker[w] EXCEPT !.phase = "loop", !.todo = chunk]]
  BY DEF BatchTyped, Batch!TypeOK, Batch!ReadChunk
<1>2. chunk \in SUBSET Item /\ \A i \in chunk : item[i] = "pending"
  OBVIOUS
<1> HIDE DEF chunk
<1>3. [batchWorker[w] EXCEPT !.phase = "loop", !.todo = chunk] \in Batch!Work
  BY <1>1, <1>2 DEF Batch!Work, Batch!Phase
<1>4. batchWorker'[w] = [batchWorker[w] EXCEPT !.phase = "loop", !.todo = chunk]
  BY <1>1
<1>5. batchWorker' \in [Worker -> Batch!Work] /\ \A v \in Worker : v # w => batchWorker'[v] = batchWorker[v]
  BY <1>1, <1>3
<1>6. /\ batchWorker'[w].phase = "loop" /\ batchWorker'[w].todo = chunk
      /\ batchWorker'[w].verdict = batchWorker[w].verdict
  BY <1>1, <1>4 DEF Batch!Work
<1> QED
  BY <1>1, <1>2, <1>5, <1>6

LEMMA CheckMoves ==
  ASSUME BatchTyped, NEW w \in Worker, Batch!CheckStatus(w)
  PROVE  /\ batchWorker[w].phase = "loop" /\ UNCHANGED <<op, item, committed, late, batchFaults>>
         /\ \/ batchWorker'[w].phase = "settle" /\ batchWorker'[w].verdict = batchWorker[w].verdict
            \/ batchWorker'[w].phase = "idle" /\ batchWorker'[w].verdict = "none"
            \/ /\ op.status = "running" /\ batchWorker'[w].phase = "item"
               /\ batchWorker'[w].todo = batchWorker[w].todo /\ batchWorker[w].todo # {}
               /\ batchWorker'[w].verdict = batchWorker[w].verdict
         /\ batchWorker' \in [Worker -> Batch!Work]
         /\ \A v \in Worker : v # w => batchWorker'[v] = batchWorker[v]
<1>1. /\ batchWorker[w].phase = "loop" /\ UNCHANGED <<op, item, committed, late, batchFaults>>
      /\ "settle" \in Batch!Phase /\ "item" \in Batch!Phase
  BY DEF Batch!CheckStatus, Batch!Phase
<1>2. CASE batchWorker[w].todo = {}
  BY <1>1, <1>2, BatchGoMoves DEF Batch!CheckStatus, Batch!Go
<1>3. CASE batchWorker[w].todo # {} /\ op.status # "running"
  <2>1. batchWorker' = [batchWorker EXCEPT ![w] = Batch!Idle]
    BY <1>3 DEF Batch!CheckStatus
  <2> QED
    BY <1>1, <2>1, BatchIdleMoves
<1>4. CASE batchWorker[w].todo # {} /\ op.status = "running"
  <2>1. Batch!Go(w, "item")
    BY <1>4 DEF Batch!CheckStatus, Batch!Go
  <2> QED
    BY <1>1, <1>4, <2>1, BatchGoMoves
<1> QED
  BY <1>2, <1>3, <1>4

LEMMA RenewMoves ==
  ASSUME BatchTyped, NEW w \in Worker, Batch!RenewLease(w)
  PROVE  /\ batchWorker[w].phase = "renew" /\ UNCHANGED <<item, committed, late, batchFaults>>
         /\ batchWorker'[w].phase = "loop" /\ batchWorker'[w].verdict = batchWorker[w].verdict
         /\ batchWorker'[w].todo = batchWorker[w].todo \ {Batch!Current(w)}
         /\ batchWorker' \in [Worker -> Batch!Work]
         /\ \A v \in Worker : v # w => batchWorker'[v] = batchWorker[v]
         /\ op'.status = op.status /\ op'.owner = op.owner /\ op' \in Batch!Op
         /\ op'.live = op.live \/ op'.live
<1> DEFINE rest == batchWorker[w].todo \ {Batch!Current(w)}
<1>1. /\ batchWorker \in [Worker -> Batch!Work] /\ batchWorker[w] \in Batch!Work /\ op \in Batch!Op
      /\ batchWorker[w].phase = "renew" /\ UNCHANGED <<item, committed, late, batchFaults>>
  BY DEF BatchTyped, Batch!TypeOK, Batch!RenewLease
<1>2. batchWorker' = [batchWorker EXCEPT ![w] = [batchWorker[w] EXCEPT !.phase = "loop", !.todo = rest]]
  BY DEF Batch!RenewLease
<1>3. rest \in SUBSET Item
  BY <1>1 DEF Batch!Work
<1> HIDE DEF rest
<1>4. [batchWorker[w] EXCEPT !.phase = "loop", !.todo = rest] \in Batch!Work
  BY <1>1, <1>3 DEF Batch!Work, Batch!Phase
<1>5. batchWorker'[w] = [batchWorker[w] EXCEPT !.phase = "loop", !.todo = rest]
  BY <1>1, <1>2
<1>6. batchWorker' \in [Worker -> Batch!Work] /\ \A v \in Worker : v # w => batchWorker'[v] = batchWorker[v]
  BY <1>1, <1>2, <1>4
<1>7. /\ batchWorker'[w].phase = "loop" /\ batchWorker'[w].todo = rest
      /\ batchWorker'[w].verdict = batchWorker[w].verdict
  BY <1>1, <1>5 DEF Batch!Work
<1>8. op' = op \/ op' = [op EXCEPT !.live = TRUE]
  BY DEF Batch!RenewLease
<1>9. /\ op'.status = op.status /\ op'.owner = op.owner /\ op' \in Batch!Op
      /\ op'.live = op.live \/ op'.live
  BY <1>1, <1>8 DEF Batch!Op
<1> QED
  BY <1>1, <1>6, <1>7, <1>9 DEF rest

LEMMA CountMoves ==
  ASSUME BatchTyped, NEW w \in Worker, Batch!CountItems(w)
  PROVE  /\ batchWorker[w].phase = "settle" /\ batchWorker'[w].phase = "settle"
         /\ UNCHANGED <<op, item, committed, late, batchFaults>>
         /\ \/ batchWorker'[w].verdict = "pending"
            \/ /\ batchWorker'[w].verdict \in {"failed", "succeeded"}
               /\ \A i \in Item : item[i] # "pending"
               /\ batchWorker'[w].verdict = "failed" => \E i \in Item : item[i] = "failed"
               /\ batchWorker'[w].verdict = "succeeded" => \A i \in Item : item[i] # "failed"
         /\ batchWorker' \in [Worker -> Batch!Work]
         /\ \A v \in Worker : v # w => batchWorker'[v] = batchWorker[v]
<1> DEFINE verdict == IF \E i \in Item : item[i] = "pending" THEN "pending"
                      ELSE IF \E i \in Item : item[i] = "failed" THEN "failed" ELSE "succeeded"
<1>1. /\ batchWorker \in [Worker -> Batch!Work] /\ batchWorker[w] \in Batch!Work
      /\ batchWorker[w].phase = "settle" /\ UNCHANGED <<op, item, committed, late, batchFaults>>
  BY DEF BatchTyped, Batch!TypeOK, Batch!CountItems
<1>2. batchWorker' = [batchWorker EXCEPT ![w] = [batchWorker[w] EXCEPT !.verdict = verdict]]
  BY DEF Batch!CountItems
<1>3. \/ verdict = "pending"
      \/ /\ verdict \in {"failed", "succeeded"}
         /\ \A i \in Item : item[i] # "pending"
         /\ verdict = "failed" => \E i \in Item : item[i] = "failed"
         /\ verdict = "succeeded" => \A i \in Item : item[i] # "failed"
  OBVIOUS
<1> HIDE DEF verdict
<1>4. [batchWorker[w] EXCEPT !.verdict = verdict] \in Batch!Work
  BY <1>1, <1>3 DEF Batch!Work
<1>5. batchWorker'[w] = [batchWorker[w] EXCEPT !.verdict = verdict]
  BY <1>1, <1>2
<1>6. batchWorker' \in [Worker -> Batch!Work] /\ \A v \in Worker : v # w => batchWorker'[v] = batchWorker[v]
  BY <1>1, <1>2, <1>4
<1>7. batchWorker'[w].phase = "settle" /\ batchWorker'[w].verdict = verdict
  BY <1>1, <1>5 DEF Batch!Work
<1> QED
  BY <1>1, <1>3, <1>6, <1>7

\* What the steps inside an item write: nothing, its success or its failure.
LEMMA ItemMoves ==
  ASSUME BatchTyped, NEW w \in Worker, NEW c \in Item, c = Batch!Current(w),
         Batch!ProcessItem(w) \/ Batch!ProcessItemReplyLost(w) \/ Batch!MarkFailed(w)
  PROVE  /\ UNCHANGED op
         /\ batchWorker'[w].todo = batchWorker[w].todo
         /\ batchWorker'[w].verdict = batchWorker[w].verdict
         /\ batchWorker' \in [Worker -> Batch!Work]
         /\ \A v \in Worker : v # w => batchWorker'[v] = batchWorker[v]
         /\ \A i \in Item : i # c => item'[i] = item[i] /\ committed'[i] = committed[i]
         /\ \A v \in Worker : v # w => late'[v] = late[v]
         /\ \/ /\ batchWorker[w].phase = "item" /\ item[c] = "pending" /\ item'[c] = "succeeded"
               /\ committed'[c] = committed[c] + 1
               /\ late'[w] = IF op.status = "canceled" THEN late[w] + 1 ELSE late[w]
               /\ \/ batchWorker'[w].phase = "renew" /\ UNCHANGED batchFaults
                  \/ batchWorker'[w].phase = "mark" /\ Batch!Spend("lost")
            \/ /\ batchWorker[w].phase = "item" /\ batchWorker'[w].phase = "mark"
               /\ UNCHANGED <<item, committed, late, batchFaults>>
            \/ /\ batchWorker[w].phase = "mark" /\ batchWorker'[w].phase = "renew"
               /\ UNCHANGED <<committed, late, batchFaults>>
               /\ item'[c] \in {item[c], "failed"}
<1>1. /\ item \in [Item -> Batch!ItemStatus] /\ committed \in [Item -> Nat]
      /\ late \in [Worker -> Nat] /\ {"item", "mark", "renew"} \subseteq Batch!Phase
  BY DEF BatchTyped, Batch!TypeOK, Batch!Phase
<1>2. CASE Batch!ProcessItem(w) /\ Batch!CommitEffect(w) /\ item[c] = "pending" /\ Batch!Go(w, "renew")
  BY <1>1, <1>2, BatchGoMoves DEF Batch!ProcessItem, Batch!CommitEffect
<1>3. CASE Batch!ProcessItem(w) /\ UNCHANGED <<item, committed, late>> /\ Batch!Go(w, "mark")
  BY <1>1, <1>3, BatchGoMoves DEF Batch!ProcessItem
<1>4. CASE Batch!ProcessItemReplyLost(w)
  BY <1>1, <1>4, BatchGoMoves DEF Batch!ProcessItemReplyLost, Batch!CommitEffect
<1>5. CASE Batch!MarkFailed(w)
  <2>1. item' = item \/ item' = [item EXCEPT ![c] = "failed"]
    BY <1>5 DEF Batch!MarkFailed
  <2> QED
    BY <1>1, <1>5, <2>1, BatchGoMoves DEF Batch!MarkFailed
<1> QED
  BY <1>2, <1>3, <1>4, <1>5 DEF Batch!ProcessItem

\* What the operators' requests, the leases, a claim and the end of a call do.
LEMMA OperatorMoves ==
  ASSUME BatchTyped, Batch!Operator
  PROVE  /\ UNCHANGED <<committed, batchWorker, late>> /\ op' \in Batch!Op /\ op'.owner = NoOwner
         /\ item' \in [Item -> Batch!ItemStatus]
         /\ \/ /\ op.status = "absent" /\ op'.status = "pending" /\ UNCHANGED batchFaults
               /\ \A i \in Item : item'[i] = "pending"
            \/ /\ op.status # "absent" /\ op'.status = "paused" /\ op.status \in {"pending", "retry", "running"}
               /\ UNCHANGED <<item, batchFaults>>
            \/ /\ op.status = "paused" /\ op'.status = "pending" /\ UNCHANGED item
               /\ Batch!Spend("resume")
            \/ /\ op'.status = "canceled" /\ UNCHANGED <<item, batchFaults>>
               /\ op.status \in {"pending", "retry", "paused", "running", "failed"}
            \/ /\ op.status = "failed" /\ op'.status = "retry" /\ Batch!Spend("retry")
               /\ \A i \in Item : item'[i] = IF item[i] = "failed" THEN "pending" ELSE item[i]
<1>1. item \in [Item -> Batch!ItemStatus]
  BY DEF BatchTyped, Batch!TypeOK
<1>2. \A s \in Batch!OpStatus :
        /\ Batch!Unowned(s) \in Batch!Op /\ Batch!Unowned(s).status = s
        /\ Batch!Unowned(s).owner = NoOwner
  BY DEF Batch!Unowned, Batch!Op
<1>3. {"pending", "paused", "canceled", "retry"} \subseteq Batch!OpStatus
  BY DEF Batch!OpStatus
<1>4. CASE Batch!CreateBatch
  BY <1>1, <1>2, <1>3, <1>4 DEF Batch!CreateBatch, Batch!ItemStatus
<1>5. CASE Batch!PauseBatch \/ Batch!ResumeBatch \/ Batch!CancelBatch
  BY <1>1, <1>2, <1>3, <1>5
     DEF Batch!PauseBatch, Batch!ResumeBatch, Batch!CancelBatch, Batch!batchTransition
<1>6. CASE Batch!RetryBatch
  BY <1>1, <1>2, <1>3, <1>6 DEF Batch!RetryBatch, Batch!ItemStatus
<1> QED
  BY <1>4, <1>5, <1>6 DEF Batch!Operator

LEMMA LeaseMoves ==
  ASSUME BatchTyped, Batch!LeaseLapses \/ Batch!LeaseStalls
  PROVE  /\ op'.status = op.status /\ op'.owner = op.owner /\ op' \in Batch!Op
         /\ UNCHANGED <<item, committed, batchWorker, late>>
         /\ (~Batch!Held /\ UNCHANGED batchFaults) \/ Batch!Spend("stall")
<1>1. op \in Batch!Op /\ op' = [op EXCEPT !.live = FALSE]
  BY DEF BatchTyped, Batch!TypeOK, Batch!LeaseLapses, Batch!LeaseStalls
<1>2. op'.status = op.status /\ op'.owner = op.owner /\ op' \in Batch!Op
  BY <1>1 DEF Batch!Op
<1> QED
  BY <1>2 DEF Batch!LeaseLapses, Batch!LeaseStalls

LEMMA BatchClaimMoves ==
  ASSUME BatchTyped, NEW w \in Worker, Batch!Claim(w)
  PROVE  /\ op.status \in {"pending", "retry"} \/ (op.status = "running" /\ ~op.live)
         /\ op'.status = "running" /\ op'.owner = w /\ op'.live /\ op' \in Batch!Op
         /\ UNCHANGED <<item, committed, late, batchFaults>>
         /\ batchWorker[w].phase = "idle" /\ batchWorker'[w].phase = "claimed"
         /\ batchWorker'[w].verdict = batchWorker[w].verdict
         /\ batchWorker' \in [Worker -> Batch!Work]
         /\ \A v \in Worker : v # w => batchWorker'[v] = batchWorker[v]
<1>1. "claimed" \in Batch!Phase
  BY DEF Batch!Phase
<1> QED
  BY <1>1, BatchGoMoves DEF Batch!Claim, Batch!Claimable, Batch!Op, Batch!OpStatus

LEMMA FinalizeMoves ==
  ASSUME BatchTyped, NEW w \in Worker, Batch!Finalize(w)
  PROVE  /\ UNCHANGED <<item, committed, late, batchFaults>> /\ op' \in Batch!Op
         /\ batchWorker[w].phase = "settle" /\ batchWorker[w].verdict # "none"
         /\ \/ UNCHANGED op
            \/ op.owner = w /\ op'.status = batchWorker[w].verdict /\ op'.owner = NoOwner
         /\ batchWorker'[w].phase = "idle" /\ batchWorker'[w].verdict = "none"
         /\ batchWorker' \in [Worker -> Batch!Work]
         /\ \A v \in Worker : v # w => batchWorker'[v] = batchWorker[v]
<1>1. /\ batchWorker[w].verdict \in {"pending", "succeeded", "failed"}
      /\ batchWorker[w].phase = "settle" /\ op \in Batch!Op
  BY DEF Batch!Finalize, BatchTyped, InChunk, Batch!TypeOK, Batch!Work
<1>2. op' = op \/ (op.owner = w /\ op' = Batch!Unowned(batchWorker[w].verdict))
  BY DEF Batch!Finalize
<1>3. /\ Batch!Unowned(batchWorker[w].verdict) \in Batch!Op
      /\ Batch!Unowned(batchWorker[w].verdict).status = batchWorker[w].verdict
      /\ Batch!Unowned(batchWorker[w].verdict).owner = NoOwner
  BY <1>1 DEF Batch!Unowned, Batch!Op, Batch!OpStatus
<1> QED
  BY <1>1, <1>2, <1>3, BatchIdleMoves DEF Batch!Finalize

LEMMA BatchAbandonMoves ==
  ASSUME BatchTyped, NEW w \in Worker, Batch!Abandon(w)
  PROVE  /\ UNCHANGED <<op, item, committed, late>> /\ Batch!Spend("abandon")
         /\ batchWorker'[w].phase = "idle" /\ batchWorker'[w].verdict = "none"
         /\ batchWorker' \in [Worker -> Batch!Work]
         /\ \A v \in Worker : v # w => batchWorker'[v] = batchWorker[v]
         /\ batchWorker[w].phase # "idle"
  BY BatchIdleMoves DEF Batch!Abandon

\* Every fault is counted and no count is taken back.
LEMMA FaultsCount ==
  ASSUME BatchTyped, [Batch!Next]_batchVars
  PROVE  /\ batchFaults' \in [Batch!Fault -> Nat]
         /\ \A f \in Batch!Fault : batchFaults'[f] = 0 => batchFaults[f] = 0
<1>1. batchFaults \in [Batch!Fault -> Nat]
  BY DEF BatchTyped, Batch!TypeOK
<1>2. UNCHANGED batchFaults \/ \E f \in Batch!Fault : Batch!Spend(f)
  <2>1. {"stall", "abandon", "lost", "resume", "retry"} \subseteq Batch!Fault
    BY DEF Batch!Fault
  <2>2. CASE Batch!Operator \/ Batch!LeaseLapses \/ Batch!LeaseStalls
    BY <2>1, <2>2 DEF Batch!Operator, Batch!CreateBatch, Batch!PauseBatch, Batch!ResumeBatch,
         Batch!CancelBatch, Batch!RetryBatch, Batch!LeaseLapses, Batch!LeaseStalls
  <2>3. ASSUME NEW w \in Worker, Batch!Claim(w) \/ Batch!Proceed(w) \/ Batch!Abandon(w)
        PROVE  UNCHANGED batchFaults \/ \E f \in Batch!Fault : Batch!Spend(f)
    BY <2>1, <2>3 DEF Batch!Claim, Batch!Proceed, Batch!Abandon, Batch!ReadChunk, Batch!CheckStatus,
         Batch!ProcessItem, Batch!ProcessItemReplyLost, Batch!MarkFailed, Batch!RenewLease,
         Batch!CountItems, Batch!Finalize
  <2>4. CASE UNCHANGED batchVars
    BY <2>4 DEF batchVars
  <2> QED
    BY <2>2, <2>3, <2>4 DEF Batch!Next
<1>3. ASSUME NEW f \in Batch!Fault, Batch!Spend(f)
      PROVE  /\ batchFaults' \in [Batch!Fault -> Nat]
             /\ \A g \in Batch!Fault : batchFaults'[g] = 0 => batchFaults[g] = 0
  BY <1>1, <1>3, SpendCounts
<1> QED
  BY <1>1, <1>2, <1>3

LEMMA BatchInitTyped == Batch!Init => BatchTyped
<1> SUFFICES ASSUME Batch!Init PROVE BatchTyped
  OBVIOUS
<1>1. /\ Batch!Idle \in Batch!Work /\ Batch!Idle.phase = "idle" /\ Batch!Idle.verdict = "none"
      /\ Batch!Unowned("absent") \in Batch!Op
  BY DEF Batch!Idle, Batch!Work, Batch!Phase, Batch!Unowned, Batch!Op, Batch!OpStatus
<1>2. Batch!TypeOK
  BY <1>1 DEF Batch!Init, Batch!TypeOK, Batch!ItemStatus
<1>3. InChunk
  BY <1>1 DEF Batch!Init, InChunk
<1> QED
  BY <1>2, <1>3 DEF BatchTyped

\* Requests, leases and the statements of ProcessNextBatch keep the types.
LEMMA BatchStepTyped == BatchTyped /\ [Batch!Next]_batchVars => BatchTyped'
<1> SUFFICES ASSUME BatchTyped, [Batch!Next]_batchVars PROVE BatchTyped'
  OBVIOUS
<1>0. /\ op \in Batch!Op /\ item \in [Item -> Batch!ItemStatus] /\ committed \in [Item -> Nat]
      /\ batchWorker \in [Worker -> Batch!Work] /\ late \in [Worker -> Nat]
      /\ batchFaults' \in [Batch!Fault -> Nat]
  BY FaultsCount DEF BatchTyped, Batch!TypeOK
<1>01. \A w \in Worker :
         /\ batchWorker[w].phase \in {"item", "mark", "renew"} => batchWorker[w].todo # {}
         /\ batchWorker[w].verdict # "none" => batchWorker[w].phase = "settle"
  BY DEF BatchTyped, InChunk
<1>1. CASE UNCHANGED batchVars
  BY <1>0, <1>1, <1>01 DEF batchVars, BatchTyped, Batch!TypeOK, InChunk
<1>2. CASE Batch!Operator
  BY <1>0, <1>01, <1>2, OperatorMoves DEF BatchTyped, Batch!TypeOK, InChunk
<1>3. CASE Batch!LeaseLapses \/ Batch!LeaseStalls
  BY <1>0, <1>01, <1>3, LeaseMoves DEF BatchTyped, Batch!TypeOK, InChunk
<1>4. ASSUME NEW w \in Worker, Batch!Claim(w) PROVE BatchTyped'
  <2>1. Batch!TypeOK'
    BY <1>0, <1>4, BatchClaimMoves DEF Batch!TypeOK
  <2>2. InChunk'
    BY <1>01, <1>4, BatchClaimMoves DEF InChunk
  <2> QED
    BY <2>1, <2>2 DEF BatchTyped
<1>5. ASSUME NEW w \in Worker, Batch!ReadChunk(w) PROVE BatchTyped'
  <2>1. Batch!TypeOK'
    BY <1>0, <1>5, ChunkMoves DEF Batch!TypeOK, Batch!ReadChunk
  <2>2. InChunk'
    BY <1>01, <1>5, ChunkMoves DEF InChunk
  <2> QED
    BY <2>1, <2>2 DEF BatchTyped
<1>6. ASSUME NEW w \in Worker, Batch!CheckStatus(w) PROVE BatchTyped'
  <2>1. Batch!TypeOK'
    BY <1>0, <1>6, CheckMoves DEF Batch!TypeOK
  <2>2. InChunk'
    BY <1>01, <1>6, CheckMoves DEF InChunk
  <2> QED
    BY <2>1, <2>2 DEF BatchTyped
<1>7. ASSUME NEW w \in Worker,
             Batch!ProcessItem(w) \/ Batch!ProcessItemReplyLost(w) \/ Batch!MarkFailed(w)
      PROVE  BatchTyped'
  <2>1. batchWorker[w].phase \in {"item", "mark"}
    BY <1>7 DEF Batch!ProcessItem, Batch!ProcessItemReplyLost, Batch!MarkFailed
  <2>2. PICK c \in Item : c = Batch!Current(w)
    BY <2>1, CurrentIsFirst
  <2>3. item' \in [Item -> Batch!ItemStatus] /\ committed' \in [Item -> Nat] /\ late' \in [Worker -> Nat]
    BY <1>0, <1>7 DEF Batch!ProcessItem, Batch!ProcessItemReplyLost, Batch!MarkFailed,
         Batch!CommitEffect, Batch!ItemStatus
  <2>4. Batch!TypeOK'
    BY <1>0, <1>7, <2>2, <2>3, ItemMoves DEF Batch!TypeOK
  <2>5. InChunk'
    BY <1>01, <1>7, <2>1, <2>2, ItemMoves DEF InChunk
  <2> QED
    BY <2>4, <2>5 DEF BatchTyped
<1>8. ASSUME NEW w \in Worker, Batch!RenewLease(w) PROVE BatchTyped'
  <2>1. Batch!TypeOK'
    BY <1>0, <1>8, RenewMoves DEF Batch!TypeOK
  <2>2. InChunk'
    BY <1>01, <1>8, RenewMoves DEF InChunk
  <2> QED
    BY <2>1, <2>2 DEF BatchTyped
<1>9. ASSUME NEW w \in Worker, Batch!CountItems(w) PROVE BatchTyped'
  <2>1. Batch!TypeOK'
    BY <1>0, <1>9, CountMoves DEF Batch!TypeOK
  <2>2. InChunk'
    BY <1>01, <1>9, CountMoves DEF InChunk
  <2> QED
    BY <2>1, <2>2 DEF BatchTyped
<1>10. ASSUME NEW w \in Worker, Batch!Finalize(w) \/ Batch!Abandon(w) PROVE BatchTyped'
  <2>1. Batch!TypeOK'
    BY <1>0, <1>10, FinalizeMoves, BatchAbandonMoves DEF Batch!TypeOK
  <2>2. InChunk'
    BY <1>01, <1>10, FinalizeMoves, BatchAbandonMoves DEF InChunk
  <2> QED
    BY <2>1, <2>2 DEF BatchTyped
<1> QED
  BY <1>1, <1>2, <1>3, <1>4, <1>5, <1>6, <1>7, <1>8, <1>9, <1>10 DEF Batch!Next, Batch!Proceed

\* Before the request that creates it the operation has no items and no worker.
\* An item that waits has been applied at most once per retry, an item that
\* has succeeded was applied, and none was applied more than once more.
ItemsCounted ==
    /\ op.status = "absent" => \A i \in Item : item[i] = "absent"
    /\ op.status = "absent" => \A w \in Worker : ~Active(w)
    /\ \A i \in Item :
         /\ item[i] = "absent" => op.status = "absent" /\ committed[i] = 0
         /\ item[i] = "pending" => committed[i] <= batchFaults["retry"]
         /\ item[i] = "succeeded" => committed[i] > 0
         /\ committed[i] <= 1 + batchFaults["retry"]

LEMMA StepItemsCounted == BatchTyped /\ ItemsCounted /\ [Batch!Next]_batchVars => ItemsCounted'
<1> SUFFICES ASSUME BatchTyped, ItemsCounted, [Batch!Next]_batchVars PROVE ItemsCounted'
  OBVIOUS
<1> DEFINE R == batchFaults["retry"]
<1>0. /\ item \in [Item -> Batch!ItemStatus] /\ committed \in [Item -> Nat]
      /\ batchFaults \in [Batch!Fault -> Nat] /\ R \in Nat
      /\ {"stall", "abandon", "lost", "resume", "retry"} \subseteq Batch!Fault
  BY DEF BatchTyped, Batch!TypeOK, Batch!Fault
<1>01. \A f \in Batch!Fault \ {"retry"} : Batch!Spend(f) => batchFaults'["retry"] = R
  BY <1>0, SpendCounts
<1>1. CASE UNCHANGED batchVars
  BY <1>1 DEF batchVars, ItemsCounted, Active
<1>2. CASE Batch!Operator
  <2>1. UNCHANGED <<committed, batchWorker>>
    BY <1>2, OperatorMoves
  <2>2. CASE /\ op.status = "absent" /\ op'.status = "pending" /\ UNCHANGED batchFaults
             /\ \A i \in Item : item'[i] = "pending"
    BY <1>0, <2>1, <2>2 DEF ItemsCounted, Active
  <2>3. CASE op.status # "absent" /\ op'.status # "absent" /\ UNCHANGED item /\ batchFaults'["retry"] = R
    BY <1>0, <2>1, <2>3 DEF ItemsCounted, Active
  <2>4. CASE /\ op.status = "failed" /\ op'.status = "retry" /\ Batch!Spend("retry")
             /\ \A i \in Item : item'[i] = IF item[i] = "failed" THEN "pending" ELSE item[i]
    <3>1. batchFaults'["retry"] = R + 1
      BY <1>0, <2>4, SpendCounts
    <3>2. \A i \in Item :
            /\ item'[i] = item[i] \/ (item'[i] = "pending" /\ item[i] = "failed")
            /\ item[i] # "absent" /\ committed[i] <= 1 + R /\ committed[i] \in Nat
            /\ item[i] = "pending" => committed[i] <= R
            /\ item[i] = "succeeded" => committed[i] > 0
      BY <1>0, <2>4 DEF ItemsCounted
    <3>3. \A i \in Item : item'[i] # "absent"
      BY <3>2
    <3>4. \A i \in Item : committed[i] <= 1 + (R + 1) /\ (item'[i] = "pending" => committed[i] <= R + 1)
      BY <1>0, <3>2
    <3>5. \A i \in Item : item'[i] = "succeeded" => committed[i] > 0
      BY <3>2
    <3> QED
      BY <2>1, <2>4, <3>1, <3>3, <3>4, <3>5 DEF ItemsCounted
  <2>5. op.status = "paused" /\ Batch!Spend("resume") => batchFaults'["retry"] = R
    BY <1>0, <1>01
  <2> QED
    BY <1>2, <2>2, <2>3, <2>4, <2>5, OperatorMoves
<1>3. CASE Batch!LeaseLapses \/ Batch!LeaseStalls
  <2>1. op'.status = op.status /\ UNCHANGED <<item, committed, batchWorker>> /\ batchFaults'["retry"] = R
    BY <1>0, <1>01, <1>3, LeaseMoves
  <2> QED
    BY <2>1 DEF ItemsCounted, Active
<1>4. ASSUME NEW w \in Worker, Batch!Claim(w) PROVE ItemsCounted'
  <2>1. op.status # "absent" /\ op'.status # "absent" /\ UNCHANGED <<item, committed, batchFaults>>
    BY <1>4, BatchClaimMoves
  <2> QED
    BY <2>1 DEF ItemsCounted
<1>5. ASSUME NEW w \in Worker, Batch!ReadChunk(w) \/ Batch!CheckStatus(w) \/ Batch!RenewLease(w) \/ Batch!CountItems(w)
      PROVE  ItemsCounted'
  <2>1. op'.status = op.status /\ UNCHANGED <<item, committed, batchFaults>> /\ Active(w)
    BY <1>5, RenewMoves DEF Batch!ReadChunk, Batch!CheckStatus, Batch!CountItems, Active
  <2> QED
    BY <2>1 DEF ItemsCounted
<1>6. ASSUME NEW w \in Worker,
             Batch!ProcessItem(w) \/ Batch!ProcessItemReplyLost(w) \/ Batch!MarkFailed(w)
      PROVE  ItemsCounted'
  <2>1. batchWorker[w].phase \in {"item", "mark"} /\ Active(w)
    BY <1>6 DEF Batch!ProcessItem, Batch!ProcessItemReplyLost, Batch!MarkFailed, Active
  <2>2. PICK c \in Item : c = Batch!Current(w)
    BY <2>1, CurrentIsFirst
  <2>3. op.status # "absent" /\ UNCHANGED op
    BY <1>6, <2>1, <2>2, ItemMoves DEF ItemsCounted
  <2>4. \A i \in Item : i # c => item'[i] = item[i] /\ committed'[i] = committed[i]
    BY <1>6, <2>2, ItemMoves
  <2>5. batchFaults'["retry"] = R
    BY <1>0, <1>01, <1>6, <2>2, ItemMoves
  <2>6. /\ item'[c] # "absent"
        /\ item'[c] = "pending" => committed'[c] <= R
        /\ item'[c] = "succeeded" => committed'[c] > 0
        /\ committed'[c] <= 1 + R
    <3>1. CASE item[c] = "pending" /\ item'[c] = "succeeded" /\ committed'[c] = committed[c] + 1
      BY <1>0, <3>1 DEF ItemsCounted
    <3>2. CASE item'[c] \in {item[c], "failed"} /\ UNCHANGED committed
      BY <1>0, <2>3, <3>2 DEF ItemsCounted
    <3> QED
      BY <1>6, <2>2, <3>1, <3>2, ItemMoves
  <2> QED
    BY <2>3, <2>4, <2>5, <2>6 DEF ItemsCounted
<1>7. ASSUME NEW w \in Worker, Batch!Finalize(w) PROVE ItemsCounted'
  <2>1. UNCHANGED <<item, committed, batchFaults>> /\ Active(w)
    BY <1>7, FinalizeMoves DEF Active
  <2>2. op.status # "absent"
    BY <2>1 DEF ItemsCounted
  <2>3. op'.status # "absent"
    <3>1. batchWorker[w].verdict # "absent"
      BY DEF BatchTyped, Batch!TypeOK, Batch!Work
    <3> QED
      BY <1>7, <2>2, <3>1, FinalizeMoves
  <2> QED
    BY <2>1, <2>2, <2>3 DEF ItemsCounted
<1>8. ASSUME NEW w \in Worker, Batch!Abandon(w) PROVE ItemsCounted'
  <2>1. UNCHANGED <<op, item, committed>> /\ batchFaults'["retry"] = R /\ Active(w)
    BY <1>0, <1>01, <1>8, BatchAbandonMoves DEF Active
  <2> QED
    BY <2>1 DEF ItemsCounted
<1> QED
  BY <1>1, <1>2, <1>3, <1>4, <1>5, <1>6, <1>7, <1>8 DEF Batch!Next, Batch!Proceed

\* Only a running operation has an owner.
OwnerRuns == op.owner # NoOwner => op.status = "running"

LEMMA StepOwnerRuns == BatchTyped /\ OwnerRuns /\ [Batch!Next]_batchVars => OwnerRuns'
<1> SUFFICES ASSUME BatchTyped, OwnerRuns, [Batch!Next]_batchVars PROVE OwnerRuns'
  OBVIOUS
<1>1. CASE UNCHANGED batchVars
  BY <1>1 DEF batchVars, OwnerRuns
<1>2. CASE Batch!Operator \/ Batch!LeaseLapses \/ Batch!LeaseStalls
  BY <1>2, OperatorMoves, LeaseMoves DEF OwnerRuns
<1>3. ASSUME NEW w \in Worker, Batch!Claim(w) \/ Batch!Finalize(w) \/ Batch!RenewLease(w) PROVE OwnerRuns'
  BY <1>3, BatchClaimMoves, FinalizeMoves, RenewMoves DEF OwnerRuns
<1>4. ASSUME NEW w \in Worker,
             \/ Batch!ReadChunk(w) \/ Batch!CheckStatus(w) \/ Batch!ProcessItem(w)
             \/ Batch!ProcessItemReplyLost(w) \/ Batch!MarkFailed(w) \/ Batch!CountItems(w)
             \/ Batch!Abandon(w)
      PROVE OwnerRuns'
  <2>1. UNCHANGED op
    BY <1>4 DEF Batch!ReadChunk, Batch!CheckStatus, Batch!ProcessItem,
         Batch!ProcessItemReplyLost, Batch!MarkFailed, Batch!CountItems, Batch!Abandon
  <2> QED
    BY <2>1 DEF OwnerRuns
<1> QED
  BY <1>1, <1>2, <1>3, <1>4 DEF Batch!Next, Batch!Proceed

\* How the status can change: by a request, a claim or a settlement.
LEMMA StatusSteps ==
  ASSUME BatchTyped, OwnerRuns, [Batch!Next]_batchVars
  PROVE  /\ op.status = "canceled" => op'.status = "canceled"
         /\ op.status = "paused" => op'.status \in {"paused", "pending", "canceled"}
<1>1. CASE UNCHANGED batchVars
  BY <1>1 DEF batchVars
<1>2. CASE Batch!Operator \/ Batch!LeaseLapses \/ Batch!LeaseStalls
  BY <1>2, OperatorMoves, LeaseMoves
<1>3. ASSUME NEW w \in Worker, Batch!Claim(w) \/ Batch!RenewLease(w)
      PROVE  op'.status = op.status \/ op.status \notin {"canceled", "paused"}
  BY <1>3, BatchClaimMoves, RenewMoves
<1>4. ASSUME NEW w \in Worker, Batch!Finalize(w)
      PROVE  op'.status = op.status \/ op.status \notin {"canceled", "paused"}
  <2>1. w # NoOwner
    BY AutomationAssumption
  <2> QED
    BY <1>4, <2>1, FinalizeMoves DEF OwnerRuns
<1>5. ASSUME NEW w \in Worker,
             \/ Batch!ReadChunk(w) \/ Batch!CheckStatus(w) \/ Batch!ProcessItem(w)
             \/ Batch!ProcessItemReplyLost(w) \/ Batch!MarkFailed(w) \/ Batch!CountItems(w)
             \/ Batch!Abandon(w)
      PROVE UNCHANGED op
  BY <1>5 DEF Batch!ReadChunk, Batch!CheckStatus, Batch!ProcessItem,
       Batch!ProcessItemReplyLost, Batch!MarkFailed, Batch!CountItems, Batch!Abandon
<1> QED
  BY <1>1, <1>2, <1>3, <1>4, <1>5 DEF Batch!Next, Batch!Proceed

\* A worker commits one effect after the operation was canceled, the one it was at.
LateOnce ==
    \A w \in Worker : late[w] > 0 =>
        op.status = "canceled" /\ late[w] = 1 /\ batchWorker[w].phase # "item"

LEMMA StepLateOnce == BatchTyped /\ OwnerRuns /\ LateOnce /\ [Batch!Next]_batchVars => LateOnce'
<1> SUFFICES ASSUME BatchTyped, OwnerRuns, LateOnce, [Batch!Next]_batchVars PROVE LateOnce'
  OBVIOUS
<1>0. late \in [Worker -> Nat] /\ (op.status = "canceled" => op'.status = "canceled")
  BY StatusSteps DEF BatchTyped, Batch!TypeOK
<1>1. CASE UNCHANGED batchVars
  BY <1>1 DEF batchVars, LateOnce
<1>2. CASE Batch!Operator \/ Batch!LeaseLapses \/ Batch!LeaseStalls
  <2>1. UNCHANGED <<batchWorker, late>>
    BY <1>2, OperatorMoves, LeaseMoves
  <2> QED
    BY <1>0, <2>1 DEF LateOnce
<1>3. ASSUME NEW w \in Worker,
             \/ Batch!Claim(w) \/ Batch!ReadChunk(w) \/ Batch!CheckStatus(w) \/ Batch!RenewLease(w)
             \/ Batch!CountItems(w) \/ Batch!Finalize(w) \/ Batch!Abandon(w)
      PROVE LateOnce'
  <2>1. UNCHANGED late
    BY <1>3 DEF Batch!Claim, Batch!ReadChunk, Batch!CheckStatus, Batch!RenewLease,
         Batch!CountItems, Batch!Finalize, Batch!Abandon
  <2>2. \A v \in Worker : v # w => batchWorker'[v] = batchWorker[v]
    BY <1>3, BatchClaimMoves, ChunkMoves, CheckMoves, RenewMoves, CountMoves, FinalizeMoves,
       BatchAbandonMoves
  <2>3. batchWorker'[w].phase = "item" => op.status # "canceled"
    BY <1>3, BatchClaimMoves, ChunkMoves, CheckMoves, RenewMoves, CountMoves, FinalizeMoves,
       BatchAbandonMoves
  <2> QED
    BY <1>0, <2>1, <2>2, <2>3 DEF LateOnce
<1>4. ASSUME NEW w \in Worker,
             Batch!ProcessItem(w) \/ Batch!ProcessItemReplyLost(w) \/ Batch!MarkFailed(w)
      PROVE  LateOnce'
  <2>1. batchWorker[w].phase \in {"item", "mark"}
    BY <1>4 DEF Batch!ProcessItem, Batch!ProcessItemReplyLost, Batch!MarkFailed
  <2>2. PICK c \in Item : c = Batch!Current(w)
    BY <2>1, CurrentIsFirst
  <2>3. \A v \in Worker : v # w => batchWorker'[v] = batchWorker[v] /\ late'[v] = late[v]
    BY <1>4, <2>2, ItemMoves
  <2>4. UNCHANGED op /\ batchWorker'[w].phase # "item"
    BY <1>4, <2>2, ItemMoves
  <2>5. late'[w] > 0 => op.status = "canceled" /\ late'[w] = 1
    <3>1. CASE batchWorker[w].phase = "item" /\ late'[w] = IF op.status = "canceled" THEN late[w] + 1 ELSE late[w]
      <4>1. late[w] = 0
        BY <1>0, <3>1 DEF LateOnce
      <4> QED
        BY <3>1, <4>1
    <3>2. CASE late'[w] = late[w]
      BY <3>2 DEF LateOnce
    <3> QED
      BY <1>4, <2>2, <3>1, <3>2, ItemMoves
  <2> QED
    BY <2>3, <2>4, <2>5 DEF LateOnce
<1> QED
  BY <1>1, <1>2, <1>3, <1>4 DEF Batch!Next, Batch!Proceed

\* While no lease ran out under a living worker and no operator resumed, a
\* worker in the operation is its owner, unless it has been stopped, and alone.
Alone ==
    \A w \in Worker : Active(w) =>
        /\ op.status \in {"paused", "canceled"} \/ (op.status = "running" /\ op.owner = w /\ op.live)
        /\ \A v \in Worker : Active(v) => v = w

\* What of a step leaves its worker alone.
LEMMA StepAlone == BatchTyped /\ ItemsCounted /\ Alone /\ Batch!NoOverlap' /\ [Batch!Next]_batchVars => Alone'
<1> SUFFICES ASSUME BatchTyped, ItemsCounted, Alone, Batch!NoOverlap', [Batch!Next]_batchVars PROVE Alone'
  OBVIOUS
<1>0. /\ op \in Batch!Op /\ batchFaults'["stall"] = 0 /\ batchFaults'["resume"] = 0
      /\ ~Batch!Spend("stall") /\ ~Batch!Spend("resume")
  <2>1. batchFaults'["stall"] = 0 /\ batchFaults'["resume"] = 0 /\ op \in Batch!Op
    BY DEF Batch!NoOverlap, BatchTyped, Batch!TypeOK
  <2>2. batchFaults \in [Batch!Fault -> Nat] /\ {"stall", "resume"} \subseteq Batch!Fault
    BY DEF BatchTyped, Batch!TypeOK, Batch!Fault
  <2> QED
    BY <2>1, <2>2, SpendCounts
<1>1. CASE UNCHANGED batchVars
  BY <1>1 DEF batchVars, Alone, Active
<1>2. CASE Batch!Operator
  <2>1. UNCHANGED batchWorker
    BY <1>2, OperatorMoves
  <2>2. op'.status \in {"paused", "canceled"} \/ \A w \in Worker : ~Active(w)
    BY <1>0, <1>2, OperatorMoves DEF ItemsCounted, Alone
  <2> QED
    BY <2>1, <2>2 DEF Alone, Active
<1>3. CASE Batch!LeaseLapses \/ Batch!LeaseStalls
  <2>1. ~Batch!Held /\ UNCHANGED batchWorker /\ op'.status = op.status
    BY <1>0, <1>3, LeaseMoves
  <2>2. \A w \in Worker : Active(w) => op.owner # w
    BY <2>1 DEF Batch!Held, Active
  <2> QED
    BY <2>1, <2>2 DEF Alone, Active
<1>4. ASSUME NEW w \in Worker, Batch!Claim(w) PROVE Alone'
  <2>1. \A v \in Worker : ~Active(v)
    BY <1>4, BatchClaimMoves DEF Alone
  <2> QED
    BY <1>4, <2>1, BatchClaimMoves DEF Alone, Active
<1>5. ASSUME NEW w \in Worker,
             \/ Batch!ReadChunk(w) \/ Batch!CheckStatus(w) \/ Batch!RenewLease(w)
             \/ Batch!CountItems(w) \/ Batch!Abandon(w) \/ Batch!Finalize(w)
             \/ Batch!ProcessItem(w) \/ Batch!ProcessItemReplyLost(w) \/ Batch!MarkFailed(w)
      PROVE Alone'
  <2>1. Active(w)
    BY <1>5, FinalizeMoves DEF Active, Batch!ReadChunk, Batch!CheckStatus, Batch!RenewLease,
         Batch!CountItems, Batch!Abandon, Batch!ProcessItem, Batch!ProcessItemReplyLost,
         Batch!MarkFailed
  <2>2. \A v \in Worker : v # w => ~Active(v)
    BY <2>1 DEF Alone
  <2>3. \A v \in Worker : v # w => batchWorker'[v] = batchWorker[v]
    <3>1. CASE Batch!ProcessItem(w) \/ Batch!ProcessItemReplyLost(w) \/ Batch!MarkFailed(w)
      <4>1. batchWorker[w].phase \in {"item", "mark"}
        BY <3>1 DEF Batch!ProcessItem, Batch!ProcessItemReplyLost, Batch!MarkFailed
      <4> QED
        BY <3>1, <4>1, CurrentIsFirst, ItemMoves
    <3> QED
      BY <1>5, <3>1, ChunkMoves, CheckMoves, RenewMoves, CountMoves, BatchAbandonMoves, FinalizeMoves
  <2>4. CASE Batch!Finalize(w)
    BY <2>2, <2>3, <2>4, FinalizeMoves DEF Alone, Active
  <2>5. CASE ~Batch!Finalize(w)
    <3>1. op'.status = op.status /\ op'.owner = op.owner /\ (op'.live = op.live \/ op'.live)
      BY <1>5, <2>5, RenewMoves DEF Batch!ReadChunk, Batch!CheckStatus, Batch!CountItems,
           Batch!Abandon, Batch!ProcessItem, Batch!ProcessItemReplyLost, Batch!MarkFailed
    <3> QED
      BY <2>1, <2>2, <2>3, <3>1 DEF Alone, Active
  <2> QED
    BY <2>4, <2>5
<1> QED
  BY <1>1, <1>2, <1>3, <1>4, <1>5 DEF Batch!Next, Batch!Proceed

\* What a verdict on the operation says of its items.
VerdictTrue(verdict) ==
    /\ verdict = "succeeded" => \A i \in Item : item[i] = "succeeded"
    /\ verdict = "failed" => /\ \A i \in Item : item[i] \in {"succeeded", "failed"}
                             /\ \E i \in Item : item[i] = "failed"

VerdictsTrue ==
    /\ VerdictTrue(op.status)
    /\ \A w \in Worker : VerdictTrue(batchWorker[w].verdict)

\* A verdict, counted or settled, is true while workers do not overlap: who
\* changes an item is alone, and the operation is not settled before it leaves.
LEMMA StepVerdictsTrue ==
  BatchTyped /\ ItemsCounted /\ Alone /\ VerdictsTrue /\ [Batch!Next]_batchVars => VerdictsTrue'
<1> SUFFICES ASSUME BatchTyped, ItemsCounted, Alone, VerdictsTrue, [Batch!Next]_batchVars
             PROVE  VerdictsTrue'
  OBVIOUS
<1>0. /\ item \in [Item -> Batch!ItemStatus]
      /\ \A w \in Worker : batchWorker[w].verdict # "none" => batchWorker[w].phase = "settle"
  BY DEF BatchTyped, Batch!TypeOK, InChunk
<1>1. CASE UNCHANGED batchVars
  BY <1>1 DEF batchVars, VerdictsTrue, VerdictTrue
<1>2. CASE Batch!Operator
  <2>1. UNCHANGED batchWorker /\ op'.status \notin {"succeeded", "failed"}
    BY <1>2, OperatorMoves
  <2>2. UNCHANGED item \/ \A w \in Worker : batchWorker[w].verdict = "none"
    BY <1>0, <1>2, OperatorMoves DEF ItemsCounted, Alone, Active
  <2> QED
    BY <2>1, <2>2 DEF VerdictsTrue, VerdictTrue
<1>3. CASE Batch!LeaseLapses \/ Batch!LeaseStalls
  BY <1>3, LeaseMoves DEF VerdictsTrue, VerdictTrue
<1>4. ASSUME NEW w \in Worker,
             \/ Batch!Claim(w) \/ Batch!ReadChunk(w) \/ Batch!CheckStatus(w)
             \/ Batch!RenewLease(w) \/ Batch!Abandon(w)
      PROVE VerdictsTrue'
  <2>1. UNCHANGED item /\ op'.status \in {op.status, "running"}
    BY <1>4, BatchClaimMoves, ChunkMoves, CheckMoves, RenewMoves, BatchAbandonMoves DEF Batch!ReadChunk
  <2>2. /\ \A v \in Worker : v # w => batchWorker'[v] = batchWorker[v]
        /\ batchWorker'[w].verdict \in {batchWorker[w].verdict, "none"}
    BY <1>4, BatchClaimMoves, ChunkMoves, CheckMoves, RenewMoves, BatchAbandonMoves
  <2> QED
    BY <2>1, <2>2 DEF VerdictsTrue, VerdictTrue
<1>5. ASSUME NEW w \in Worker, Batch!CountItems(w) PROVE VerdictsTrue'
  <2>1. UNCHANGED <<op, item>> /\ Active(w) /\ \A v \in Worker : v # w => batchWorker'[v] = batchWorker[v]
    BY <1>5, CountMoves DEF Active
  <2>2. \A i \in Item : item[i] \in {"pending", "succeeded", "failed"}
    BY <1>0, <2>1 DEF ItemsCounted, Batch!ItemStatus
  <2>3. \/ batchWorker'[w].verdict = "pending"
        \/ /\ batchWorker'[w].verdict \in {"failed", "succeeded"}
           /\ \A i \in Item : item[i] # "pending"
           /\ batchWorker'[w].verdict = "failed" => \E i \in Item : item[i] = "failed"
           /\ batchWorker'[w].verdict = "succeeded" => \A i \in Item : item[i] # "failed"
    BY <1>5, CountMoves
  <2>4. VerdictTrue(batchWorker'[w].verdict)
    BY <2>2, <2>3 DEF VerdictTrue
  <2> QED
    BY <2>1, <2>4 DEF VerdictsTrue, VerdictTrue
<1>6. ASSUME NEW w \in Worker, Batch!Finalize(w) PROVE VerdictsTrue'
  <2>1. UNCHANGED item /\ \A v \in Worker : v # w => batchWorker'[v] = batchWorker[v]
    BY <1>6, FinalizeMoves
  <2>2. op'.status \in {op.status, batchWorker[w].verdict} /\ batchWorker'[w].verdict = "none"
    BY <1>6, FinalizeMoves
  <2> QED
    BY <2>1, <2>2 DEF VerdictsTrue, VerdictTrue
<1>7. ASSUME NEW w \in Worker,
             Batch!ProcessItem(w) \/ Batch!ProcessItemReplyLost(w) \/ Batch!MarkFailed(w)
      PROVE  VerdictsTrue'
  <2>1. batchWorker[w].phase \in {"item", "mark"} /\ Active(w)
    BY <1>7 DEF Batch!ProcessItem, Batch!ProcessItemReplyLost, Batch!MarkFailed, Active
  <2>2. /\ UNCHANGED op /\ batchWorker'[w].verdict = batchWorker[w].verdict
        /\ \A v \in Worker : v # w => batchWorker'[v] = batchWorker[v]
    BY <1>7, <2>1, CurrentIsFirst, ItemMoves
  <2>3. op.status \notin {"succeeded", "failed"}
    BY <2>1 DEF Alone
  <2>4. \A v \in Worker : batchWorker[v].verdict = "none"
    BY <1>0, <2>1 DEF Alone, Active
  <2> QED
    BY <2>2, <2>3, <2>4 DEF VerdictsTrue, VerdictTrue
<1> QED
  BY <1>1, <1>2, <1>3, <1>4, <1>5, <1>6, <1>7 DEF Batch!Next, Batch!Proceed

\* What a worker has still to do is pending; after an item was dealt with,
\* before it is taken out, this holds of those behind it.
TodoPending ==
    \A w \in Worker :
        /\ batchWorker[w].phase \in {"loop", "item", "mark"} =>
             \A i \in batchWorker[w].todo : item[i] = "pending"
        /\ batchWorker[w].phase = "renew" =>
             \A i \in batchWorker[w].todo :
                 (\E j \in batchWorker[w].todo : j < i) => item[i] = "pending"

\* As long as workers do not overlap and no reply is lost, an effect goes with
\* the status of its item, since an item is marked failed only while pending.
LEMMA StepEffectAgrees ==
  BatchTyped /\ ItemsCounted /\ Alone /\ Batch!EffectAgrees /\ TodoPending
    /\ batchFaults'["lost"] = 0 /\ [Batch!Next]_batchVars => Batch!EffectAgrees' /\ TodoPending'
<1> SUFFICES ASSUME BatchTyped, ItemsCounted, Alone, Batch!EffectAgrees, TodoPending,
                    batchFaults'["lost"] = 0, [Batch!Next]_batchVars
             PROVE  Batch!EffectAgrees' /\ TodoPending'
  OBVIOUS
<1>0. /\ item \in [Item -> Batch!ItemStatus] /\ Item \subseteq Nat /\ ~Batch!Spend("lost")
      /\ \A w \in Worker : batchWorker[w].todo \subseteq Item
  <2>1. batchFaults \in [Batch!Fault -> Nat] /\ "lost" \in Batch!Fault
    BY DEF BatchTyped, Batch!TypeOK, Batch!Fault
  <2>2. batchFaults["lost"] \in Nat
    BY <2>1
  <2>3. ~Batch!Spend("lost")
    BY <2>1, <2>2, SpendCounts
  <2> QED
    BY <2>3, BatchAssumption DEF BatchTyped, Batch!TypeOK, Batch!Work
<1>1. CASE UNCHANGED batchVars
  BY <1>1 DEF batchVars, Batch!EffectAgrees, TodoPending
<1>2. CASE Batch!Operator
  <2>1. UNCHANGED <<committed, batchWorker>>
    BY <1>2, OperatorMoves
  <2>2. UNCHANGED item \/ \A w \in Worker : batchWorker[w].phase = "idle"
    BY <1>2, OperatorMoves DEF ItemsCounted, Alone, Active
  <2>3. \A i \in Item : item[i] = "succeeded" <=> item'[i] = "succeeded"
    BY <1>2, OperatorMoves DEF ItemsCounted
  <2> QED
    BY <2>1, <2>2, <2>3 DEF Batch!EffectAgrees, TodoPending
<1>3. CASE Batch!LeaseLapses \/ Batch!LeaseStalls
  BY <1>3, LeaseMoves DEF Batch!EffectAgrees, TodoPending
<1>4. ASSUME NEW w \in Worker,
             \/ Batch!Claim(w) \/ Batch!ReadChunk(w) \/ Batch!CheckStatus(w)
             \/ Batch!CountItems(w) \/ Batch!Finalize(w) \/ Batch!Abandon(w)
      PROVE Batch!EffectAgrees' /\ TodoPending'
  <2>1. UNCHANGED <<item, committed>>
    BY <1>4 DEF Batch!Claim, Batch!ReadChunk, Batch!CheckStatus, Batch!CountItems,
         Batch!Finalize, Batch!Abandon
  <2>2. /\ \A v \in Worker : v # w => batchWorker'[v] = batchWorker[v]
        /\ \/ batchWorker'[w].phase \in {"idle", "claimed", "settle"}
           \/ /\ batchWorker'[w].phase = "loop"
              /\ \A i \in batchWorker'[w].todo : item[i] = "pending"
           \/ /\ batchWorker'[w].phase = "item" /\ batchWorker[w].phase = "loop"
              /\ batchWorker'[w].todo = batchWorker[w].todo
    BY <1>4, BatchClaimMoves, ChunkMoves, CheckMoves, CountMoves, FinalizeMoves, BatchAbandonMoves
  <2>3. TodoPending'
    BY <2>1, <2>2 DEF TodoPending
  <2> QED
    BY <2>1, <2>3 DEF Batch!EffectAgrees
<1>5. ASSUME NEW w \in Worker, Batch!RenewLease(w) PROVE Batch!EffectAgrees' /\ TodoPending'
  <2>1. /\ UNCHANGED <<item, committed>> /\ batchWorker[w].phase = "renew"
        /\ batchWorker'[w].phase = "loop"
        /\ batchWorker'[w].todo = batchWorker[w].todo \ {Batch!Current(w)}
        /\ \A v \in Worker : v # w => batchWorker'[v] = batchWorker[v]
    BY <1>5, RenewMoves
  <2>2. /\ Batch!Current(w) \in batchWorker[w].todo
        /\ \A j \in batchWorker[w].todo : Batch!Current(w) <= j
    BY <2>1, CurrentIsFirst
  <2>3. \A i \in batchWorker'[w].todo : Batch!Current(w) < i /\ i \in batchWorker[w].todo
    <3>1. \A a, b \in Nat : a <= b /\ b # a => a < b
      OBVIOUS
    <3>2. \A i \in batchWorker'[w].todo :
            /\ i \in Nat /\ Batch!Current(w) \in Nat /\ i # Batch!Current(w)
            /\ i \in batchWorker[w].todo
      BY <1>0, <2>1, <2>2
    <3> QED
      BY <2>2, <3>1, <3>2
  <2>4. \A i \in batchWorker'[w].todo : item[i] = "pending"
    BY <2>1, <2>2, <2>3 DEF TodoPending
  <2>5. TodoPending'
    BY <2>1, <2>4 DEF TodoPending
  <2> QED
    BY <2>1, <2>5 DEF Batch!EffectAgrees
<1>6. ASSUME NEW w \in Worker, Batch!ProcessItem(w) \/ Batch!MarkFailed(w) \/ Batch!ProcessItemReplyLost(w)
      PROVE  Batch!EffectAgrees' /\ TodoPending'
  <2>1. batchWorker[w].phase \in {"item", "mark"} /\ Active(w)
    BY <1>6 DEF Batch!ProcessItem, Batch!MarkFailed, Batch!ProcessItemReplyLost, Active
  <2>2. PICK c \in Item : c = Batch!Current(w)
    BY <2>1, CurrentIsFirst
  <2>3. c \in batchWorker[w].todo /\ (\A j \in batchWorker[w].todo : c <= j) /\ item[c] = "pending"
    BY <2>1, <2>2, CurrentIsFirst DEF TodoPending
  <2>4. /\ batchWorker'[w].todo = batchWorker[w].todo
        /\ \A v \in Worker : v # w => batchWorker'[v] = batchWorker[v]
        /\ \A i \in Item : i # c => item'[i] = item[i] /\ committed'[i] = committed[i]
    BY <1>6, <2>2, ItemMoves
  <2>5. \A v \in Worker : v # w => batchWorker[v].phase = "idle"
    BY <2>1 DEF Alone, Active
  <2>6. \/ batchWorker'[w].phase = "renew"
        \/ batchWorker'[w].phase = "mark" /\ UNCHANGED item
    BY <1>0, <1>6, <2>2, ItemMoves
  <2>7. committed'[c] = IF item'[c] = "succeeded" THEN 1 ELSE 0
    <3>1. committed[c] = 0
      BY <2>3 DEF Batch!EffectAgrees
    <3>2. \/ item'[c] = "succeeded" /\ committed'[c] = committed[c] + 1
          \/ item'[c] \in {item[c], "failed"} /\ UNCHANGED committed
      BY <1>6, <2>2, ItemMoves
    <3> QED
      BY <2>3, <3>1, <3>2
  <2>8. Batch!EffectAgrees'
    BY <2>4, <2>7 DEF Batch!EffectAgrees
  <2>9. \A i \in batchWorker[w].todo : i \in Item /\ item[i] = "pending"
    BY <1>0, <2>1 DEF TodoPending
  <2>10. TodoPending'
    <3>1. CASE batchWorker'[w].phase = "mark" /\ UNCHANGED item
      BY <2>4, <2>5, <2>9, <3>1 DEF TodoPending
    <3>2. CASE batchWorker'[w].phase = "renew"
      <4>1. \A i \in batchWorker[w].todo : (\E j \in batchWorker[w].todo : j < i) => i # c
        <5>1. \A a, b \in Nat : a <= b => ~ (b < a)
          OBVIOUS
        <5>2. batchWorker[w].todo \subseteq Nat /\ c \in Nat
          BY <1>0
        <5> QED
          BY <2>3, <5>1, <5>2
      <4> QED
        BY <2>4, <2>5, <2>9, <3>2, <4>1 DEF TodoPending
    <3> QED
      BY <2>6, <3>1, <3>2
  <2> QED
    BY <2>8, <2>10
<1> QED
  BY <1>1, <1>2, <1>3, <1>4, <1>5, <1>6 DEF Batch!Next, Batch!Proceed

BatchInv ==
    /\ BatchTyped /\ ItemsCounted /\ OwnerRuns /\ LateOnce
    /\ Batch!NoOverlap => Alone /\ VerdictsTrue
    /\ Batch!NoOverlap /\ batchFaults["lost"] = 0 => Batch!EffectAgrees /\ TodoPending

LEMMA BatchInitInv == Batch!Init => BatchInv
<1> SUFFICES ASSUME Batch!Init PROVE BatchInv
  OBVIOUS
<1>1. BatchTyped
  BY BatchInitTyped
<1>2. /\ \A w \in Worker : batchWorker[w].phase = "idle" /\ batchWorker[w].verdict = "none"
      /\ op.status = "absent" /\ op.owner = NoOwner
      /\ \A i \in Item : item[i] = "absent" /\ committed[i] = 0
      /\ \A w \in Worker : late[w] = 0
      /\ batchFaults["retry"] = 0
  BY DEF Batch!Init, Batch!Idle, Batch!Unowned, Batch!Fault
<1>3. ItemsCounted /\ OwnerRuns /\ LateOnce /\ Alone
  BY <1>2 DEF ItemsCounted, OwnerRuns, LateOnce, Alone, Active
<1>4. VerdictsTrue
  BY <1>2 DEF VerdictsTrue, VerdictTrue
<1>5. Batch!EffectAgrees /\ TodoPending
  BY <1>2 DEF Batch!EffectAgrees, TodoPending
<1> QED
  BY <1>1, <1>3, <1>4, <1>5 DEF BatchInv

LEMMA StepBatchInv == BatchInv /\ [Batch!Next]_batchVars => BatchInv'
<1> SUFFICES ASSUME BatchInv, [Batch!Next]_batchVars PROVE BatchInv'
  OBVIOUS
<1>1. BatchTyped' /\ ItemsCounted' /\ OwnerRuns' /\ LateOnce'
  BY BatchStepTyped, StepItemsCounted, StepOwnerRuns, StepLateOnce DEF BatchInv
<1>2. \A f \in {"stall", "resume", "lost"} : batchFaults'[f] = 0 => batchFaults[f] = 0
  BY FaultsCount DEF BatchInv, Batch!Fault
<1>3. Batch!NoOverlap' => Batch!NoOverlap
  BY <1>2 DEF Batch!NoOverlap
<1>4. Batch!NoOverlap' => Alone' /\ VerdictsTrue'
  BY <1>3, StepAlone, StepVerdictsTrue DEF BatchInv
<1>5. Batch!NoOverlap' /\ batchFaults'["lost"] = 0 => Batch!EffectAgrees' /\ TodoPending'
  BY <1>2, <1>3, StepEffectAgrees DEF BatchInv
<1> QED
  BY <1>1, <1>4, <1>5 DEF BatchInv

LEMMA BatchInvImplies == BatchInv => EffectsAccounted
<1> SUFFICES ASSUME BatchInv PROVE EffectsAccounted
  OBVIOUS
<1>1. Batch!TypeOK /\ Batch!EffectsWithinRetries
  BY DEF BatchInv, BatchTyped, ItemsCounted, Batch!EffectsWithinRetries
<1>2. Batch!CancelStopsWork
  <2>1. late \in [Worker -> Nat]
    BY <1>1 DEF Batch!TypeOK
  <2>2. \A w \in Worker : late[w] > 0 => late[w] = 1
    BY DEF BatchInv, LateOnce
  <2> QED
    BY <2>1, <2>2 DEF Batch!CancelStopsWork
<1>3. Batch!EffectMatchesItem
  BY DEF BatchInv, Batch!EffectMatchesItem
<1>4. Batch!SettledMeansAll
  BY DEF BatchInv, VerdictsTrue, VerdictTrue, Batch!SettledMeansAll
<1> QED
  BY <1>1, <1>2, <1>3, <1>4 DEF EffectsAccounted, Batch!EffectsAccounted

\* Between the rounds a step of the event leaves the batch where it is.
LEMMA RoundStepBatch == [RoundNext]_roundVars => [Batch!Next]_batchVars
  BY DEF RoundNext, roundVars, MoveEvent, MoveBatch

LEMMA BatchInvHolds == RoundSpec => []BatchInv
<1>1. RoundInit => BatchInv
  BY BatchInitInv DEF RoundInit
<1>2. BatchInv /\ [RoundNext]_roundVars => BatchInv'
  BY StepBatchInv, RoundStepBatch
<1> QED
  BY <1>1, <1>2, PTL DEF RoundSpec

\* No effect of a batch is repeated beyond its retries, committed after a
\* cancel but for the item in hand, or told wrongly by item or operation,
\* however claims, crashes, lost replies and requests interleave.
THEOREM EffectsAccountedHolds == RoundSpec => []EffectsAccounted
  BY BatchInvHolds, BatchInvImplies, PTL

\* finalizeBatchChunk never overwrites a pause or a cancel: the lease it is
\* guarded by went with the status.
THEOREM StopsAreKeptHolds == RoundSpec => StopsAreKept
<1>1. BatchInv /\ [RoundNext]_roundVars =>
        [/\ op.status = "canceled" => op'.status = "canceled"
         /\ op.status = "paused" => op'.status \in {"paused", "pending", "canceled"}]_(Batch!vars)
  BY StatusSteps, RoundStepBatch DEF BatchInv
<1> QED
  BY <1>1, BatchInvHolds, PTL DEF RoundSpec, StopsAreKept, Batch!StopsAreKept

-----------------------------------------------------------------------------
(* Coins, orders, the envelope and media requests of v2, as LegacyLedger     *)
(* models them. What keeps the balances is that a writer that does not lock  *)
(* is counted where it writes over somebody else's change; what keeps the    *)
(* orders is their keys; what keeps the requests is that a row that somebody *)
(* has read is as it was read, or torn.                                      *)

\* A user's row, and what an older writer has read of it.
UserRow == [iv: Int, us: Int, lv: Levels, ch: BOOLEAN, red: Int]
SeenRow == [iv: Int, lv: Levels, red: Int]

\* The balances are what they should be, and so are the acquired levels.
Purses ==
    /\ user \in [User -> UserRow] /\ due \in [User -> Int] /\ listed \subseteq User
    /\ CoinsAddUp /\ WhitelistKept

\* What an older writer goes by: it writes a level only over that of a disabled user.
ReadRight(j) ==
    /\ DOMAIN j.seen \subseteq User
    /\ \A u \in DOMAIN j.seen : j.seen[u] \in SeenRow
    /\ j.delta \in Int /\ j.gain \in Int
    /\ j.lv # None => j.lv = "b" /\ \A u \in DOMAIN j.seen : j.seen[u].lv = "c"
    /\ j.kind = "send" => -j.delta \in Nat
    /\ j.kind \in {"private", "share"} => \E u \in User : DOMAIN j.seen = {u}

\* What somebody who has begun relies on, given the records of what was done.
SlotRight(j, records) ==
    /\ j.kind \in {"now", "later", "send", "private", "share"} => ReadRight(j)
    /\ j.kind = "order" => j.user \in User /\ j.coins \in Nat /\ j.key \in Key \union {None}
    /\ j.kind = "paid" => j.money \in Nat
    /\ j.kind = "pick" =>
         /\ j.user \in User
         /\ j.phase \in {"charge", "record", "import"} => j.download \in Download
         /\ j.phase \in {"record", "import"} => <<"adjust", j.download>> \in records
Slots == DOMAIN slot = Slot /\ \A s \in Slot : slot[s] # None => SlotRight(slot[s], saved)

OrderRow ==
    [user: User, coins: Nat, status: {"pending", "credited", "canceled", "refunded"}, key: Key \union {None},
     entries: {<<"created">>, <<"created", "credited">>, <<"created", "canceled">>,
               <<"created", "rejected">>, <<"created", "credited", "refunded">>}]
OrderRight(x, records) ==
    /\ x \in OrderRow
    /\ x.entries \in EntriesOf(x.status)
    /\ x.key # None => <<"order", x.key>> \in records
Orders ==
    /\ DOMAIN order = Order
    /\ \A o \in Order : order[o] # None => OrderRight(order[o], saved)
    /\ \A o, p \in Order : o # p /\ order[o] # None /\ order[p] # None =>
         order[o].key = None \/ order[o].key # order[p].key

RedRow == [money: Nat, members: Nat, rest: Int, left: Int, kind: {"none", "random", "equal", "private"},
           target: User \union {None}, got: SUBSET User, on: BOOLEAN]
Envelope == red \in RedRow /\ (red.on => red.members > 0)

LedgerRight == Purses /\ Slots /\ Orders /\ Envelope /\ product \in Nat \union {None}

Told == {"none", "downloading", "completed", "failed", "moved", "unmoved"}
SyncRun == [told: [Download -> Told], todo: SUBSET Download, row: Request \union {None},
            seen: RequestRow \union {None}]
\* A row that a run of the job has read is as it was read, or torn.
RunReads(y) ==
    sync[y] # None /\ sync[y].row # None =>
        /\ Exists(sync[y].row) /\ sync[y].seen \in RequestRow
        /\ sync[y].row \notin torn => request[sync[y].row] = sync[y].seen
RequestsRight ==
    /\ request \in [Request -> RequestRow \union {None}]
    /\ moviepilot \in [Download -> Told]
    /\ post \in [Request -> Download \union {None}]
    /\ sync \in [Sync -> SyncRun \union {None}]
    /\ torn \subseteq Request
    /\ \A q \in Request : post[q] # None => Exists(q)
    /\ \A y \in Sync : RunReads(y)
    /\ CompletedIsFull

\* One row changes as what is due does, and keeps or acquires the whitelist.
LEMMA RowChanges ==
  ASSUME Purses, NEW u \in User, NEW n \in Int, NEW r \in UserRow,
         user' = [user EXCEPT ![u] = r], due' = [due EXCEPT ![u] = @ + n],
         r.iv = user[u].iv + n,
         \/ listed' = listed /\ r.lv = user[u].lv
         \/ listed' = listed /\ user[u].lv # "a"
         \/ listed' = listed \union {u} /\ r.lv = "a",
         stale' = stale, demoted' = demoted
  PROVE  Purses'
<1>1. user' \in [User -> UserRow] /\ due' \in [User -> Int]
  BY DEF Purses
<1>2. \A v \in User : v # u => user'[v] = user[v] /\ due'[v] = due[v]
  BY DEF Purses
<1>3. user'[u] = r /\ due'[u] = due[u] + n
  BY DEF Purses
<1>4. CoinsAddUp'
  <2> SUFFICES ASSUME NEW v \in User \ stale' PROVE user'[v].iv = due'[v]
    BY DEF CoinsAddUp
  <2>1. user[v].iv = due[v]
    BY DEF Purses, CoinsAddUp
  <2>2. CASE v = u
    BY <1>3, <2>1, <2>2
  <2>3. CASE v # u
    BY <1>2, <2>1, <2>3
  <2> QED BY <2>2, <2>3
<1>5. WhitelistKept'
  <2> SUFFICES ASSUME NEW v \in listed' \ demoted' PROVE user'[v].lv = "a"
    BY DEF WhitelistKept
  <2>1. CASE v = u
    <3>1. v \in listed => user[v].lv = "a"
      BY DEF Purses, WhitelistKept
    <3> QED BY <1>3, <2>1, <3>1
  <2>2. CASE v # u
    <3>1. v \in listed /\ v \in User /\ user[v].lv = "a"
      BY <2>2 DEF Purses, WhitelistKept
    <3> QED BY <1>2, <2>2, <3>1
  <2> QED BY <2>1, <2>2
<1>6. listed' \subseteq User
  BY DEF Purses
<1> QED BY <1>1, <1>4, <1>5, <1>6 DEF Purses

\* What the services read and write in one transaction.
LEMMA TransferKeeps ==
  ASSUME Purses, NEW scope, NEW key, NEW u \in User, NEW n \in Int, NEW r \in UserRow,
         Transfer(scope, key, u, n, r),
         r.iv = user[u].iv + n,
         \/ listed' = listed /\ r.lv = user[u].lv
         \/ listed' = listed \union {u} /\ r.lv = "a",
         stale' = stale, demoted' = demoted
  PROVE  Purses' /\ saved \subseteq saved'
<1>1. ~Replay(scope, key)
  BY DEF Transfer, Fresh, Replay
<1>2. user' = [user EXCEPT ![u] = r] /\ due' = [due EXCEPT ![u] = @ + n] /\ saved \subseteq saved'
  BY <1>1 DEF Transfer
<1> QED BY <1>2, RowChanges

\* The rows that a payment, a change of level or of the days makes.
LEMMA RowColumns ==
  ASSUME NEW r \in UserRow, NEW n \in Int
  PROVE  /\ [r EXCEPT !.iv = @ + n] \in UserRow
         /\ [r EXCEPT !.iv = @ + n].iv = r.iv + n /\ [r EXCEPT !.iv = @ + n].lv = r.lv
         /\ [r EXCEPT !.us = @ + n] \in UserRow
         /\ [r EXCEPT !.us = @ + n].iv = r.iv /\ [r EXCEPT !.us = @ + n].lv = r.lv
         /\ [[r EXCEPT !.iv = @ + n] EXCEPT !.ch = TRUE] \in UserRow
         /\ [[r EXCEPT !.iv = @ + n] EXCEPT !.ch = TRUE].iv = r.iv + n
         /\ [[r EXCEPT !.iv = @ + n] EXCEPT !.ch = TRUE].lv = r.lv
<1>1. PICK p : p = [r EXCEPT !.iv = @ + n]
  OBVIOUS
<1>2. p \in UserRow /\ p.iv = r.iv + n /\ p.lv = r.lv
  BY <1>1 DEF UserRow
<1>3. PICK d : d = [r EXCEPT !.us = @ + n]
  OBVIOUS
<1>4. d \in UserRow /\ d.iv = r.iv /\ d.lv = r.lv
  BY <1>3 DEF UserRow
<1>5. PICK c : c = [p EXCEPT !.ch = TRUE]
  OBVIOUS
<1>6. c \in UserRow /\ c.iv = r.iv + n /\ c.lv = r.lv
  BY <1>2, <1>5 DEF UserRow
<1> QED
  BY <1>1, <1>2, <1>3, <1>4, <1>5, <1>6

LEMMA LevelColumn ==
  ASSUME NEW r \in UserRow, NEW lv \in Levels
  PROVE  [r EXCEPT !.lv = lv] \in UserRow /\ [r EXCEPT !.lv = lv].iv = r.iv /\ [r EXCEPT !.lv = lv].lv = lv
  BY DEF UserRow

LEMMA AdjustKeeps ==
  ASSUME Purses, NEW u \in User, NEW n \in Int, NEW key, NEW negative,
         stale' = stale, demoted' = demoted, listed' = listed
  PROVE  /\ AdjustCoins(u, n, key, negative) => Purses' /\ saved \subseteq saved'
         /\ AdjustDays(u, n, key, negative) => Purses' /\ saved \subseteq saved'
<1>1. user[u] \in UserRow
  BY DEF Purses
<1>2. ASSUME AdjustCoins(u, n, key, negative) PROVE Purses' /\ saved \subseteq saved'
  <2>1. Transfer("adjust", key, u, n, Paid(u, n))
    BY <1>2 DEF AdjustCoins
  <2>2. Paid(u, n) \in UserRow /\ Paid(u, n).iv = user[u].iv + n /\ Paid(u, n).lv = user[u].lv
    BY <1>1, RowColumns DEF Paid
  <2> QED BY <2>1, <2>2, TransferKeeps
<1>3. ASSUME AdjustDays(u, n, key, negative) PROVE Purses' /\ saved \subseteq saved'
  <2> DEFINE r == [user[u] EXCEPT !.us = @ + n]
  <2>1. Transfer("adjust days", key, u, 0, r)
    BY <1>3 DEF AdjustDays
  <2>2. r \in UserRow /\ r.iv = user[u].iv /\ r.lv = user[u].lv
    BY <1>1, RowColumns
  <2>3. 0 \in Int /\ r.iv = user[u].iv + 0
    BY <1>1, <2>2 DEF UserRow
  <2> HIDE DEF r
  <2> QED BY <2>1, <2>2, <2>3, TransferKeeps
<1> QED BY <1>2, <1>3

\* What nobody touched stays right, whatever was recorded besides.
LEMMA SlotsStay ==
  ASSUME Slots, DOMAIN slot' = Slot, saved \subseteq saved',
         \A s \in Slot : slot'[s] = slot[s] \/ slot'[s] = None \/ SlotRight(slot'[s], saved')
  PROVE  Slots'
<1>1. ASSUME NEW j, SlotRight(j, saved) PROVE SlotRight(j, saved')
  BY <1>1 DEF SlotRight
<1> QED BY <1>1 DEF Slots

LEMMA OrdersStay ==
  ASSUME Orders, UNCHANGED order, saved \subseteq saved'
  PROVE  Orders'
  BY DEF Orders, OrderRight

LEMMA Untouched ==
  ASSUME Orders, Slots, Envelope, product \in Nat \union {None}, saved \subseteq saved',
         UNCHANGED <<order, slot, red, product>>
  PROVE  Orders' /\ Slots' /\ Envelope' /\ product' \in Nat \union {None}
<1>1. Slots'
  BY SlotsStay DEF Slots
<1>2. Orders'
  BY OrdersStay
<1>3. Envelope'
  BY DEF Envelope
<1> QED BY <1>1, <1>2, <1>3

LEMMA PursesStay ==
  ASSUME Purses, UNCHANGED <<user, due, stale, listed, demoted>>
  PROVE  Purses'
  BY DEF Purses, CoinsAddUp, WhitelistKept

\* The transactions of the services keep the books; all but two leave the rest alone.
LEMMA ServicesKeep ==
  ASSUME LedgerRight, NEW u \in User
  PROVE  /\ CoinsUser(u) => LedgerRight'
         /\ ScoreUser(u) => LedgerRight'
         /\ AdjustPoints(u) => LedgerRight'
         /\ UserInCheckin(u) => LedgerRight'
         /\ DoStoreWhitelist(u) => LedgerRight'
<1> USE DEF LedgerRight
<1>1. user[u] \in UserRow
  BY DEF Purses
<1>2. {-1, 1} \subseteq Int /\ 1 \in Int
  OBVIOUS
<1>3. ASSUME Others, Purses', saved \subseteq saved' PROVE LedgerRight'
  BY <1>3, Untouched DEF Others
<1>4. ASSUME CoinsUser(u) PROVE LedgerRight'
  <2>1. PICK n \in {-1, 1}, k \in Key : AdjustCoins(u, n, k, TRUE) /\ Others
    BY <1>4 DEF CoinsUser
  <2>2. n \in Int
    OBVIOUS
  <2>3. Purses' /\ saved \subseteq saved'
    BY <2>1, <2>2, AdjustKeeps DEF Others
  <2> QED BY <2>1, <2>3, <1>3
<1>5. ASSUME ScoreUser(u) PROVE LedgerRight'
  <2>1. PICK k \in Key : AdjustDays(u, 1, k, TRUE) /\ Others
    BY <1>5 DEF ScoreUser
  <2>2. Purses' /\ saved \subseteq saved'
    BY <1>2, <2>1, AdjustKeeps DEF Others
  <2> QED BY <2>1, <2>2, <1>3
<1>6. ASSUME AdjustPoints(u) PROVE LedgerRight'
  <2>1. PICK n \in {-1, 1}, k \in Key \union {None}, negative \in BOOLEAN :
          AdjustCoins(u, n, k, negative) \/ (n = 1 /\ AdjustDays(u, n, k, negative))
    BY <1>6 DEF AdjustPoints
  <2>2. Others /\ n \in Int
    BY <1>6 DEF AdjustPoints
  <2>3. Purses' /\ saved \subseteq saved'
    BY <2>1, <2>2, AdjustKeeps DEF Others
  <2> QED BY <2>2, <2>3, <1>3
<1>7. ASSUME UserInCheckin(u) PROVE LedgerRight'
  <2> DEFINE r == [[user[u] EXCEPT !.iv = @ + Reward] EXCEPT !.ch = TRUE]
  <2>1. Transfer("check in", None, u, Reward, r) /\ Others
    BY <1>7 DEF UserInCheckin, CheckIn, Paid
  <2>2. Reward \in Int
    BY LedgerAssumption
  <2>3. r \in UserRow /\ r.iv = user[u].iv + Reward /\ r.lv = user[u].lv
    BY <1>1, <2>2, RowColumns
  <2> HIDE DEF r
  <2>4. Purses' /\ saved \subseteq saved'
    BY <2>1, <2>2, <2>3, TransferKeeps DEF Others
  <2> QED BY <2>1, <2>4, <1>3
<1>8. ASSUME DoStoreWhitelist(u) PROVE LedgerRight'
  <2> DEFINE n == -WhitelistCost
             r == [[user[u] EXCEPT !.iv = @ + n] EXCEPT !.lv = "a"]
  <2>1. PICK k \in Key : PurchaseLevel(u, k)
    BY <1>8 DEF DoStoreWhitelist
  <2>2. Transfer("level", k, u, n, r) /\ listed' = listed \union {u}
    BY <2>1 DEF PurchaseLevel, Paid
  <2>3. n \in Int /\ "a" \in Levels
    BY LedgerAssumption DEF Levels
  <2> HIDE DEF n
  <2>4. r \in UserRow /\ r.iv = user[u].iv + n /\ r.lv = "a"
    <3>1. PICK q : q = [user[u] EXCEPT !.iv = @ + n]
      OBVIOUS
    <3>2. q \in UserRow /\ q.iv = user[u].iv + n
      BY <1>1, <2>3, <3>1, RowColumns
    <3> QED BY <2>3, <3>1, <3>2, LevelColumn
  <2>5. UNCHANGED <<code, product, order, red, slot, stale, demoted>>
    BY <1>8 DEF DoStoreWhitelist
  <2> HIDE DEF r
  <2>6. Purses' /\ saved \subseteq saved'
    BY <2>2, <2>3, <2>4, <2>5, TransferKeeps
  <2> QED BY <2>5, <2>6, Untouched
<1> QED BY <1>4, <1>5, <1>6, <1>7, <1>8

\* Codes.
LEMMA CodesKeep ==
  ASSUME LedgerRight, NEW c \in Code
  PROVE  /\ GenerateCodes(c) \/ CrLink(c) \/ Revoke(c) \/ DeleteUnusedCodes(c) => LedgerRight'
         /\ \A u \in User : DoStoreInvite(u, c) => LedgerRight'
         /\ \A u \in User : RgsCode(c, u) => LedgerRight'
<1> USE DEF LedgerRight
<1>1. ASSUME GenerateCodes(c) \/ CrLink(c) \/ Revoke(c) \/ DeleteUnusedCodes(c) PROVE LedgerRight'
  <2>1. CodesOnly
    BY <1>1 DEF GenerateCodes, CrLink, Revoke, DeleteUnusedCodes
  <2>2. Purses'
    BY <2>1, PursesStay DEF CodesOnly
  <2> QED BY <2>1, <2>2, Untouched DEF CodesOnly
<1>2. ASSUME NEW u \in User, DoStoreInvite(u, c) PROVE LedgerRight'
  <2>1. PICK k \in Key : PurchaseCodes(u, c, k)
    BY <1>2 DEF DoStoreInvite
  <2>2. Transfer("codes", k, u, -InviteCost, Paid(u, -InviteCost)) /\ -InviteCost \in Int
    BY <2>1, LedgerAssumption DEF PurchaseCodes
  <2>3. user[u] \in UserRow
    BY DEF Purses
  <2>4. Paid(u, -InviteCost) \in UserRow /\ Paid(u, -InviteCost).iv = user[u].iv + (-InviteCost)
        /\ Paid(u, -InviteCost).lv = user[u].lv
    BY <2>2, <2>3, RowColumns DEF Paid
  <2>5. UNCHANGED <<product, order, red, slot, stale, listed, demoted>>
    BY <1>2 DEF DoStoreInvite
  <2>6. Purses' /\ saved \subseteq saved'
    BY <2>2, <2>4, <2>5, TransferKeeps
  <2> QED BY <2>5, <2>6, Untouched
<1>3. ASSUME NEW u \in User, NEW kind, NEW r \in UserRow, Redeem(c, u, kind, r),
             r.iv = user[u].iv,
             \/ kind = "whitelist" /\ r.lv = "a"
             \/ kind # "whitelist" /\ r.lv = user[u].lv
             \/ kind # "whitelist" /\ user[u].lv # "a"
      PROVE  LedgerRight'
  <2>1. UNCHANGED <<product, order, red, slot, saved, due, stale, demoted>>
    BY <1>3 DEF Redeem
  <2>2. CASE UNCHANGED <<user, listed>>
    <3>1. Purses'
      BY <2>1, <2>2, PursesStay
    <3> QED BY <2>1, <3>1, Untouched
  <2>3. CASE user' = [user EXCEPT ![u] = r] /\ listed' = IF kind = "whitelist" THEN listed \union {u} ELSE listed
    <3>1. user[u] \in UserRow /\ due[u] \in Int /\ due \in [User -> Int]
      BY DEF Purses
    <3>2. due' = [due EXCEPT ![u] = @ + 0] /\ r.iv = user[u].iv + 0 /\ 0 \in Int
      BY <1>3, <2>1, <3>1 DEF UserRow
    <3>3. \/ listed' = listed /\ r.lv = user[u].lv
          \/ listed' = listed /\ user[u].lv # "a"
          \/ listed' = listed \union {u} /\ r.lv = "a"
      BY <1>3, <2>3
    <3>4. Purses'
      BY <2>1, <2>3, <3>2, <3>3, RowChanges
    <3> QED BY <2>1, <3>4, Untouched
  <2> QED BY <1>3, <2>2, <2>3 DEF Redeem
<1>4. ASSUME NEW u \in User, RgsCode(c, u) PROVE LedgerRight'
  <2>1. user[u] \in UserRow /\ "a" \in Levels
    BY DEF Purses, Levels
  <2>2. CASE RedeemWhitelist(c, u)
    <3>1. PICK r : r = [user[u] EXCEPT !.lv = "a"]
      OBVIOUS
    <3>2. r \in UserRow /\ r.iv = user[u].iv /\ r.lv = "a"
      BY <2>1, <3>1, LevelColumn
    <3>3. Redeem(c, u, "whitelist", r)
      BY <2>2, <3>1 DEF RedeemWhitelist
    <3> QED BY <3>2, <3>3, <1>3
  <2>3. CASE RedeemRegistration(c, u)
    <3>1. PICK r : r = [user[u] EXCEPT !.us = @ + 1]
      OBVIOUS
    <3>2. r \in UserRow /\ r.iv = user[u].iv /\ r.lv = user[u].lv
      BY <2>1, <3>1 DEF UserRow
    <3>3. Redeem(c, u, "registration", r)
      BY <2>3, <3>1 DEF RedeemRegistration
    <3> QED BY <2>1, <3>2, <3>3, <1>3
  <2>4. CASE RedeemRenewal(c, u)
    <3>1. PICK tardy \in BOOLEAN : Redeem(c, u, "renewal", [user[u] EXCEPT !.lv = Renewed(@, tardy)])
      BY <2>4 DEF RedeemRenewal
    <3>2. PICK r : r = [user[u] EXCEPT !.lv = Renewed(@, tardy)]
      OBVIOUS
    <3>3. PICK lv : lv = Renewed(user[u].lv, tardy)
      OBVIOUS
    <3>4. lv \in Levels /\ (lv = user[u].lv \/ user[u].lv # "a")
      BY <2>1, <3>3 DEF Renewed, UserRow, Levels
    <3>5. r = [user[u] EXCEPT !.lv = lv]
      BY <3>2, <3>3
    <3>6. r \in UserRow /\ r.iv = user[u].iv /\ r.lv = lv
      BY <2>1, <3>4, <3>5, LevelColumn
    <3>7. Redeem(c, u, "renewal", r)
      BY <3>1, <3>2
    <3> QED BY <3>4, <3>6, <3>7, <1>3
  <2> QED BY <1>4, <2>2, <2>3, <2>4 DEF RgsCode
<1> QED BY <1>1, <1>2, <1>4

\* Products and orders.
LEMMA ProductsKeep ==
  ASSUME LedgerRight, CreateProduct \/ UpdateProduct
  PROVE  LedgerRight'
<1> USE DEF LedgerRight
<1>1. ProductOnly /\ product' \in Nat \union {None}
  BY LedgerAssumption DEF CreateProduct, UpdateProduct
<1>2. Purses'
  BY <1>1, PursesStay DEF ProductOnly
<1>3. Slots'
  BY <1>1, SlotsStay DEF ProductOnly, Slots
<1>4. Orders' /\ Envelope'
  BY <1>1, OrdersStay DEF ProductOnly, Envelope
<1> QED BY <1>1, <1>2, <1>3, <1>4

LEMMA OrderBegins ==
  ASSUME LedgerRight, NEW s \in Slot, NEW u \in User, CreateMyRechargeOrder(s, u)
  PROVE  LedgerRight'
<1> USE DEF LedgerRight
<1>1. PICK k \in Key \union {None} :
        slot' = [slot EXCEPT ![s] = [kind |-> "order", user |-> u, key |-> k, coins |-> product]]
  BY DEF CreateMyRechargeOrder
<1>2. product \in Nat /\ OrdersOnly /\ UNCHANGED <<order, saved>>
  BY DEF CreateMyRechargeOrder
<1>3. SlotRight([kind |-> "order", user |-> u, key |-> k, coins |-> product], saved)
  BY <1>2 DEF SlotRight
<1>4. Slots'
  <2>1. DOMAIN slot' = Slot /\ \A t \in Slot : t # s => slot'[t] = slot[t]
    BY <1>1 DEF Slots
  <2>2. SlotRight(slot'[s], saved')
    BY <1>1, <1>2, <1>3 DEF Slots
  <2> QED BY <1>2, <2>1, <2>2, SlotsStay
<1>5. Purses'
  BY <1>2, PursesStay DEF OrdersOnly
<1>6. Orders' /\ Envelope'
  BY <1>2, OrdersStay DEF OrdersOnly, Envelope
<1> QED BY <1>2, <1>4, <1>5, <1>6 DEF OrdersOnly

LEMMA OrderCommits ==
  ASSUME LedgerRight, NEW s \in Slot, NEW o \in Order, CreateOrderCommits(s, o)
  PROVE  LedgerRight'
<1> USE DEF LedgerRight
<1> DEFINE now == slot[s]
           new == [user |-> now.user, coins |-> now.coins, status |-> "pending",
                   key |-> now.key, entries |-> <<"created">>]
<1>1. SlotRight(now, saved) /\ now.kind = "order" /\ order[o] = None
  BY DEF CreateOrderCommits, Slots
<1>2. now.user \in User /\ now.coins \in Nat /\ now.key \in Key \union {None}
  BY <1>1 DEF SlotRight
<1>3. OrdersOnly /\ slot' = [slot EXCEPT ![s] = None]
  BY DEF CreateOrderCommits
<1>4. saved \subseteq saved'
  BY DEF CreateOrderCommits
<1>5. Orders'
  <2>1. CASE Commits("order", now.key)
    <3>1. order' = [order EXCEPT ![o] = new]
          /\ saved' = IF now.key = None THEN saved ELSE saved \union {<<"order", now.key>>}
      BY <2>1 DEF CreateOrderCommits
    <3>2. now.key # None => <<"order", now.key>> \notin saved
      BY <2>1 DEF Commits, Replay
    <3>3. new \in OrderRow
      BY <1>2 DEF OrderRow
    <3>4. new.entries \in EntriesOf(new.status)
      BY DEF EntriesOf
    <3>5. new.key = now.key
      OBVIOUS
    <3> HIDE DEF new, now
    <3>6. OrderRight(new, saved')
      BY <3>1, <3>3, <3>4, <3>5 DEF OrderRight
    <3>7. DOMAIN order' = Order /\ order'[o] = new /\ \A p \in Order : p # o => order'[p] = order[p]
      BY <3>1 DEF Orders
    <3>8. \A p \in Order : order[p] # None => OrderRight(order[p], saved')
      BY <1>4 DEF Orders, OrderRight
    <3>9. \A p \in Order : order[p] # None => order[p].key = None \/ order[p].key # now.key
      BY <3>2 DEF Orders, OrderRight
    <3>10. \A p \in Order : order'[p] # None => OrderRight(order'[p], saved')
      BY <3>6, <3>7, <3>8
    <3>11. ASSUME NEW p \in Order, NEW q \in Order, p # q, order'[p] # None, order'[q] # None
           PROVE  order'[p].key = None \/ order'[p].key # order'[q].key
      <4>1. CASE p = o
        BY <3>5, <3>7, <3>9, <3>11, <4>1
      <4>2. CASE q = o
        BY <3>5, <3>7, <3>9, <3>11, <4>2
      <4>3. CASE p # o /\ q # o
        BY <3>7, <3>11, <4>3 DEF Orders
      <4> QED BY <4>1, <4>2, <4>3
    <3> QED BY <3>7, <3>10, <3>11 DEF Orders
  <2>2. CASE ~Commits("order", now.key)
    <3>1. UNCHANGED <<order, saved>>
      BY <2>2 DEF CreateOrderCommits
    <3> QED BY <1>4, <3>1, OrdersStay
  <2> QED BY <2>1, <2>2
<1>6. Slots'
  BY <1>3, <1>4, SlotsStay DEF Slots
<1>7. Purses'
  BY <1>3, PursesStay DEF OrdersOnly
<1> QED BY <1>3, <1>5, <1>6, <1>7 DEF OrdersOnly, Envelope

LEMMA SecondEntry ==
  ASSUME NEW S, NEW a \in S, NEW b \in S
  PROVE  Append(<<a>>, b) = <<a, b>>
<1>1. <<a>> \in Seq(S) /\ Len(<<a>>) = 1 /\ <<a, b>> \in Seq(S) /\ Len(<<a, b>>) = 2
  OBVIOUS
<1>2. Append(<<a>>, b) \in Seq(S) /\ Len(Append(<<a>>, b)) = 2
  OBVIOUS
<1>3. \A i \in 1..2 : Append(<<a>>, b)[i] = <<a, b>>[i]
  OBVIOUS
<1> QED BY <1>1, <1>2, <1>3, SeqEqual

LEMMA ThirdEntry ==
  ASSUME NEW S, NEW a \in S, NEW b \in S, NEW c \in S
  PROVE  Append(<<a, b>>, c) = <<a, b, c>>
<1>1. <<a, b>> \in Seq(S) /\ Len(<<a, b>>) = 2 /\ <<a, b, c>> \in Seq(S) /\ Len(<<a, b, c>>) = 3
  OBVIOUS
<1>2. Append(<<a, b>>, c) \in Seq(S) /\ Len(Append(<<a, b>>, c)) = 3
  OBVIOUS
<1>3. \A i \in 1..3 : Append(<<a, b>>, c)[i] = <<a, b, c>>[i]
  OBVIOUS
<1> QED BY <1>1, <1>2, <1>3, SeqEqual

\* What an entry makes of an order: its entries still tell its status.
LEMMA EntryTells ==
  ASSUME NEW x, NEW records, OrderRight(x, records)
  PROVE  /\ x.status = "pending" =>
              /\ OrderRight([x EXCEPT !.status = "credited", !.entries = Append(@, "credited")], records)
              /\ OrderRight([x EXCEPT !.status = "canceled", !.entries = Append(@, "rejected")], records)
              /\ OrderRight([x EXCEPT !.status = "canceled", !.entries = Append(@, "canceled")], records)
         /\ x.status = "credited" =>
              OrderRight([x EXCEPT !.status = "refunded", !.entries = Append(@, "refunded")], records)
         /\ \A st, e : [x EXCEPT !.status = st, !.entries = e].key = x.key
<1>1. x \in OrderRow
  BY DEF OrderRight
<1>2. ASSUME NEW st \in {"credited", "canceled", "refunded"}, NEW e \in EntriesOf(st)
      PROVE  OrderRight([x EXCEPT !.status = st, !.entries = e], records)
  <2>1. PICK y : y = [x EXCEPT !.status = st, !.entries = e]
    OBVIOUS
  <2>2. e \in {<<"created">>, <<"created", "credited">>, <<"created", "canceled">>,
               <<"created", "rejected">>, <<"created", "credited", "refunded">>}
    BY <1>2 DEF EntriesOf
  <2>3. y \in OrderRow /\ y.status = st /\ y.entries = e /\ y.key = x.key
    BY <1>1, <2>1, <2>2 DEF OrderRow
  <2> QED BY <1>2, <2>1, <2>3 DEF OrderRight
<1>3. /\ Append(<<"created">>, "credited") = <<"created", "credited">>
      /\ Append(<<"created">>, "rejected") = <<"created", "rejected">>
      /\ Append(<<"created">>, "canceled") = <<"created", "canceled">>
      /\ Append(<<"created", "credited">>, "refunded") = <<"created", "credited", "refunded">>
  <2> DEFINE S == {"created", "credited", "rejected", "canceled", "refunded"}
  <2>1. "created" \in S /\ "credited" \in S /\ "rejected" \in S /\ "canceled" \in S /\ "refunded" \in S
    OBVIOUS
  <2> HIDE DEF S
  <2> QED BY <2>1, SecondEntry, ThirdEntry
<1>4. ASSUME x.status = "pending"
      PROVE  /\ OrderRight([x EXCEPT !.status = "credited", !.entries = Append(@, "credited")], records)
             /\ OrderRight([x EXCEPT !.status = "canceled", !.entries = Append(@, "rejected")], records)
             /\ OrderRight([x EXCEPT !.status = "canceled", !.entries = Append(@, "canceled")], records)
  <2>1. x.entries = <<"created">>
    BY <1>4 DEF OrderRight, EntriesOf
  <2>2. /\ <<"created", "credited">> \in EntriesOf("credited")
        /\ <<"created", "rejected">> \in EntriesOf("canceled")
        /\ <<"created", "canceled">> \in EntriesOf("canceled")
    BY DEF EntriesOf
  <2>3. /\ Append(x.entries, "credited") \in EntriesOf("credited")
        /\ Append(x.entries, "rejected") \in EntriesOf("canceled")
        /\ Append(x.entries, "canceled") \in EntriesOf("canceled")
    BY <1>3, <2>1, <2>2
  <2> QED BY <1>2, <2>3
<1>5. ASSUME x.status = "credited"
      PROVE  OrderRight([x EXCEPT !.status = "refunded", !.entries = Append(@, "refunded")], records)
  <2>1. x.entries = <<"created", "credited">>
    BY <1>5 DEF OrderRight, EntriesOf
  <2>2. <<"created", "credited", "refunded">> \in EntriesOf("refunded")
    BY DEF EntriesOf
  <2>3. Append(x.entries, "refunded") \in EntriesOf("refunded")
    BY <1>3, <2>1, <2>2
  <2> QED BY <1>2, <2>3
<1>6. \A st, e : [x EXCEPT !.status = st, !.entries = e].key = x.key
  BY <1>1 DEF OrderRow
<1> QED BY <1>4, <1>5, <1>6

LEMMA OrderEntered ==
  ASSUME LedgerRight, NEW o \in Order, order[o] # None, NEW y,
         order' = [order EXCEPT ![o] = y], OrderRight(y, saved), y.key = order[o].key,
         BooksOnly, Purses'
  PROVE  LedgerRight'
<1> USE DEF LedgerRight
<1>1. DOMAIN order' = Order /\ order'[o] = y /\ \A p \in Order : p # o => order'[p] = order[p]
  BY DEF Orders
<1>2. UNCHANGED <<saved, slot, red, product>>
  BY DEF BooksOnly
<1>3. \A p \in Order : order'[p] # None => OrderRight(order'[p], saved')
  BY <1>1, <1>2 DEF Orders
<1>4. ASSUME NEW p \in Order, NEW q \in Order, p # q, order'[p] # None, order'[q] # None
      PROVE  order'[p].key = None \/ order'[p].key # order'[q].key
  <2>1. \A r \in Order : order'[r].key = order[r].key /\ (order'[r] # None => order[r] # None)
    BY <1>1
  <2> QED BY <1>4, <2>1 DEF Orders
<1>5. Orders'
  BY <1>1, <1>3, <1>4 DEF Orders
<1>6. Slots'
  BY <1>2, SlotsStay DEF Slots
<1> QED BY <1>2, <1>5, <1>6 DEF Envelope

LEMMA BookKeeps ==
  ASSUME Purses, NEW u \in User, NEW n \in Int, Book(u, n), UNCHANGED <<stale, listed, demoted>>
  PROVE  Purses'
<1>1. user[u] \in UserRow
  BY DEF Purses
<1>2. Paid(u, n) \in UserRow /\ Paid(u, n).iv = user[u].iv + n /\ Paid(u, n).lv = user[u].lv
  BY <1>1, RowColumns DEF Paid
<1> QED BY <1>2, RowChanges DEF Book

LEMMA OrdersKeep ==
  ASSUME LedgerRight, NEW o \in Order
  PROVE  /\ DecideOrder(o) => LedgerRight'
         /\ CancelOrder(o) => LedgerRight'
         /\ RefundOrder(o) => LedgerRight'
<1>1. ASSUME order[o] # None PROVE OrderRight(order[o], saved) /\ order[o].user \in User /\ order[o].coins \in Int
  BY <1>1 DEF LedgerRight, Orders, OrderRight, OrderRow
<1>2. ASSUME BooksOnly, UNCHANGED <<user, due>> PROVE Purses'
  BY <1>2, PursesStay DEF LedgerRight, BooksOnly
<1>3. ASSUME Approve(o) PROVE LedgerRight'
  <2>1. order[o] # None /\ order[o].status = "pending" /\ BooksOnly /\ Book(order[o].user, order[o].coins)
    BY <1>3 DEF Approve, Decidable
  <2>2. PICK y : y = [order[o] EXCEPT !.status = "credited", !.entries = Append(@, "credited")]
    OBVIOUS
  <2>3. order' = [order EXCEPT ![o] = y]
    BY <1>3, <2>2 DEF Approve, Entered, LedgerRight, Orders
  <2>4. OrderRight(y, saved) /\ y.key = order[o].key
    BY <1>1, <2>1, <2>2, EntryTells
  <2>5. Purses'
    BY <1>1, <2>1, BookKeeps DEF LedgerRight, BooksOnly
  <2> QED BY <2>1, <2>3, <2>4, <2>5, OrderEntered
<1>4. ASSUME Reject(o) PROVE LedgerRight'
  <2>1. order[o] # None /\ order[o].status = "pending" /\ BooksOnly /\ UNCHANGED <<user, due>>
    BY <1>4 DEF Reject, Decidable
  <2>2. PICK y : y = [order[o] EXCEPT !.status = "canceled", !.entries = Append(@, "rejected")]
    OBVIOUS
  <2>3. order' = [order EXCEPT ![o] = y]
    BY <1>4, <2>2 DEF Reject, Entered, LedgerRight, Orders
  <2>4. OrderRight(y, saved) /\ y.key = order[o].key
    BY <1>1, <2>1, <2>2, EntryTells
  <2> QED BY <1>2, <2>1, <2>3, <2>4, OrderEntered
<1>5. ASSUME CancelOrder(o) PROVE LedgerRight'
  <2>1. order[o] # None /\ order[o].status = "pending" /\ BooksOnly /\ UNCHANGED <<user, due>>
    BY <1>5 DEF CancelOrder, Decidable
  <2>2. PICK y : y = [order[o] EXCEPT !.status = "canceled", !.entries = Append(@, "canceled")]
    OBVIOUS
  <2>3. order' = [order EXCEPT ![o] = y]
    BY <1>5, <2>2 DEF CancelOrder, Entered, LedgerRight, Orders
  <2>4. OrderRight(y, saved) /\ y.key = order[o].key
    BY <1>1, <2>1, <2>2, EntryTells
  <2> QED BY <1>2, <2>1, <2>3, <2>4, OrderEntered
<1>6. ASSUME RefundOrder(o) PROVE LedgerRight'
  <2>1. order[o] # None /\ order[o].status = "credited" /\ BooksOnly /\ Book(order[o].user, -order[o].coins)
    BY <1>6 DEF RefundOrder, Refund
  <2>2. PICK y : y = [order[o] EXCEPT !.status = "refunded", !.entries = Append(@, "refunded")]
    OBVIOUS
  <2>3. order' = [order EXCEPT ![o] = y]
    BY <1>6, <2>2 DEF RefundOrder, Refund, Entered, LedgerRight, Orders
  <2>4. OrderRight(y, saved) /\ y.key = order[o].key
    BY <1>1, <2>1, <2>2, EntryTells
  <2>5. Purses'
    <3>1. -order[o].coins \in Int /\ order[o].user \in User
      BY <1>1, <2>1
    <3> QED BY <2>1, <3>1, BookKeeps DEF LedgerRight, BooksOnly
  <2> QED BY <2>1, <2>3, <2>4, <2>5, OrderEntered
<1> QED BY <1>3, <1>4, <1>5, <1>6 DEF DecideOrder

\* The older writers: somebody reads ...
LEMMA ReadingRight ==
  ASSUME Purses, NEW who \in SUBSET User, NEW delta \in Int,
         NEW kind, \/ kind \in {"now", "later"}
                   \/ (kind = "send" /\ -delta \in Nat)
                   \/ (kind \in {"private", "share"} /\ \E u \in User : who = {u})
  PROVE  SlotRight(Reading(kind, who, delta), saved)
<1>1. PICK j : j = Reading(kind, who, delta)
  OBVIOUS
<1>2. /\ j.kind = kind /\ j.delta = delta /\ j.lv = None /\ j.gain = 0
      /\ j.seen = [u \in who |-> [iv |-> user[u].iv, lv |-> user[u].lv, red |-> user[u].red]]
  BY <1>1 DEF Reading
<1>3. DOMAIN j.seen = who
  BY <1>2
<1>4. ASSUME NEW u \in who PROVE j.seen[u] \in SeenRow
  <2>1. user[u] \in UserRow
    BY DEF Purses
  <2>2. j.seen[u] = [iv |-> user[u].iv, lv |-> user[u].lv, red |-> user[u].red]
    BY <1>2
  <2> QED BY <2>1, <2>2 DEF UserRow, SeenRow
<1>5. ReadRight(j)
  BY <1>2, <1>3, <1>4 DEF ReadRight
<1>6. j.kind \notin {"order", "paid", "pick"}
  BY <1>2
<1> QED BY <1>1, <1>5, <1>6 DEF SlotRight

LEMMA ReadsKeep ==
  ASSUME LedgerRight, NEW s \in Slot, NEW j, SlotRight(j, saved), Reads(s, j)
  PROVE  LedgerRight'
<1> USE DEF LedgerRight
<1>1. UNCHANGED <<user, product, order, red, saved, due, stale, listed, demoted>> /\ slot' = [slot EXCEPT ![s] = j]
  BY DEF Reads
<1>2. Purses'
  BY <1>1, PursesStay
<1>3. DOMAIN slot' = Slot /\ \A t \in Slot : slot'[t] = slot[t] \/ slot'[t] = j
  BY <1>1 DEF Slots
<1>4. Slots'
  BY <1>1, <1>3, SlotsStay
<1> QED BY <1>1, <1>2, <1>4, OrdersStay DEF Envelope

\* ... the one row of a user, to renew it ...
LEMMA RenewalRight ==
  ASSUME Purses, NEW u \in User, NEW delta \in Int, NEW lv, lv # None => lv = "b" /\ user[u].lv = "c"
  PROVE  SlotRight([Reading("later", {u}, delta) EXCEPT !.lv = lv], saved)
<1>1. PICK j : j = Reading("later", {u}, delta)
  OBVIOUS
<1>2. SlotRight(j, saved) /\ {u} \in SUBSET User
  BY <1>1, ReadingRight
<1>3. j.kind = "later" /\ j.seen = [v \in {u} |-> [iv |-> user[v].iv, lv |-> user[v].lv, red |-> user[v].red]]
  BY <1>1 DEF Reading
<1>4. PICK k : k = [j EXCEPT !.lv = lv]
  OBVIOUS
<1>5. k.kind = "later" /\ k.seen = j.seen /\ k.delta = j.delta /\ k.gain = j.gain /\ k.lv = lv
  BY <1>1, <1>4 DEF Reading
<1>6. ReadRight(j)
  BY <1>2, <1>3 DEF SlotRight
<1>7. \A v \in DOMAIN k.seen : k.seen[v].lv = user[u].lv
  BY <1>3, <1>5
<1>8. ReadRight(k)
  BY <1>5, <1>6, <1>7 DEF ReadRight
<1>9. k.kind \notin {"order", "paid", "pick"}
  BY <1>5
<1>10. SlotRight(k, saved)
  BY <1>8, <1>9 DEF SlotRight
<1> QED BY <1>1, <1>4, <1>10

\* ... or a share of the envelope.
LEMMA ShareRight ==
  ASSUME Purses, NEW u \in User, NEW n \in Int, NEW kind \in {"private", "share"}
  PROVE  SlotRight([Reading(kind, {u}, n) EXCEPT !.gain = n], saved)
<1>1. PICK j : j = Reading(kind, {u}, n)
  OBVIOUS
<1>2. SlotRight(j, saved)
  BY <1>1, ReadingRight
<1>3. PICK k : k = [j EXCEPT !.gain = n]
  OBVIOUS
<1>4. k.kind = kind /\ j.kind = kind /\ k.seen = j.seen /\ k.delta = j.delta /\ k.gain = n /\ k.lv = j.lv
  BY <1>1, <1>3 DEF Reading
<1>5. ReadRight(j)
  BY <1>2, <1>4 DEF SlotRight
<1>6. ReadRight(k)
  BY <1>4, <1>5 DEF ReadRight
<1>7. k.kind \notin {"order", "paid", "pick"}
  BY <1>4
<1>8. SlotRight(k, saved)
  BY <1>6, <1>7 DEF SlotRight
<1> QED BY <1>1, <1>3, <1>8

LEMMA SharesAreNumbers ==
  ASSUME Envelope, red.on, red.left > 0
  PROVE  Shares \subseteq Int
<1>1. red.money \in Nat /\ red.members \in Nat /\ red.members > 0 /\ red.rest \in Int /\ red.left \in Int
  BY DEF Envelope, RedRow
<1>2. (red.money \div red.members) \in Int /\ ((2 * red.rest) \div red.left) \in Int
  BY <1>1
<1>3. CASE red.kind = "equal"
  <2>1. Shares = {red.money \div red.members}
    BY <1>3 DEF Shares
  <2> QED BY <1>2, <2>1
<1>4. CASE red.kind = "private"
  <2>1. Shares = {red.rest}
    BY <1>4 DEF Shares
  <2> QED BY <1>1, <2>1
<1>5. CASE red.kind \notin {"equal", "private"} /\ red.kind = "random" /\ red.left = 1
  <2>1. Shares = {red.rest}
    BY <1>5 DEF Shares
  <2> QED BY <1>1, <2>1
<1>6. CASE red.kind \notin {"equal", "private"} /\ ~(red.kind = "random" /\ red.left = 1)
  <2>1. Shares = IF 2 * red.rest < red.left THEN {0} ELSE 1 .. ((2 * red.rest) \div red.left)
    BY <1>6 DEF Shares
  <2> QED BY <1>2, <2>1
<1> QED BY <1>3, <1>4, <1>5, <1>6

LEMMA ReadersKeep ==
  ASSUME LedgerRight, NEW s \in Slot, NEW u \in User
  PROVE  /\ SRank(s, u) => LedgerRight'
         /\ UpdateCredit(s, u) => LedgerRight'
         /\ CheckEx(s, u) => LedgerRight'
         /\ DoStoreReborn(s, u) => LedgerRight'
         /\ VerifySender(s, u) => LedgerRight'
         /\ GrabReads(s, u) => LedgerRight'
         /\ PickReads(s, u) => LedgerRight'
<1>0. Purses /\ {u} \in SUBSET User
  BY DEF LedgerRight
<1>1. ASSUME SRank(s, u) PROVE LedgerRight'
  <2>1. -RankFee \in Int
    BY LedgerAssumption
  <2>2. SlotRight(Reading("now", {u}, -RankFee), saved)
    BY <1>0, <2>1, ReadingRight
  <2> QED BY <1>1, <2>2, ReadsKeep DEF SRank
<1>2. ASSUME UpdateCredit(s, u) PROVE LedgerRight'
  <2>1. PICK n \in {-1, 1} : Reads(s, Reading("now", {u}, n))
    BY <1>2 DEF UpdateCredit
  <2>2. n \in Int
    OBVIOUS
  <2>3. SlotRight(Reading("now", {u}, n), saved)
    BY <1>0, <2>2, ReadingRight
  <2> QED BY <2>1, <2>3, ReadsKeep
<1>3. ASSUME CheckEx(s, u) PROVE LedgerRight'
  <2>1. PICK lv : lv = IF user[u].lv = "c" THEN "b" ELSE None
    OBVIOUS
  <2>2. Reads(s, [Reading("later", {u}, -ExchangeCost) EXCEPT !.lv = lv])
    BY <1>3, <2>1 DEF CheckEx
  <2>3. -ExchangeCost \in Int
    BY LedgerAssumption
  <2>4. SlotRight([Reading("later", {u}, -ExchangeCost) EXCEPT !.lv = lv], saved)
    BY <1>0, <2>1, <2>3, RenewalRight
  <2> QED BY <2>2, <2>4, ReadsKeep
<1>4. ASSUME DoStoreReborn(s, u) PROVE LedgerRight'
  <2>1. Reads(s, [Reading("later", {u}, -ExchangeCost) EXCEPT !.lv = "b"]) /\ user[u].lv = "c"
    BY <1>4 DEF DoStoreReborn
  <2>2. -ExchangeCost \in Int
    BY LedgerAssumption
  <2>3. SlotRight([Reading("later", {u}, -ExchangeCost) EXCEPT !.lv = "b"], saved)
    BY <1>0, <2>1, <2>2, RenewalRight
  <2> QED BY <2>1, <2>3, ReadsKeep
<1>5. ASSUME VerifySender(s, u) PROVE LedgerRight'
  <2>1. PICK m \in Money : Reads(s, Reading("send", {u}, -m))
    BY <1>5 DEF VerifySender
  <2>2. PICK n : n = -m
    OBVIOUS
  <2>3. n \in Int /\ -n \in Nat
    BY <2>2, LedgerAssumption
  <2>4. SlotRight(Reading("send", {u}, n), saved)
    BY <1>0, <2>3, ReadingRight
  <2> QED BY <2>1, <2>2, <2>4, ReadsKeep
<1>6. ASSUME GrabReads(s, u) PROVE LedgerRight'
  <2>1. PICK kind : kind = IF red.kind = "private" THEN "private" ELSE "share"
    OBVIOUS
  <2>2. PICK n \in Shares : Reads(s, [Reading(kind, {u}, n) EXCEPT !.gain = n])
    BY <1>6, <2>1 DEF GrabReads
  <2>3. n \in Int
    BY <1>6, SharesAreNumbers DEF GrabReads, LedgerRight
  <2>4. kind \in {"private", "share"}
    BY <2>1
  <2>5. SlotRight([Reading(kind, {u}, n) EXCEPT !.gain = n], saved)
    BY <1>0, <2>3, <2>4, ShareRight
  <2> QED BY <2>2, <2>5, ReadsKeep
<1>7. ASSUME PickReads(s, u) PROVE LedgerRight'
  <2>1. Reads(s, Picking(u, "chosen", None))
    BY <1>7 DEF PickReads
  <2>2. SlotRight(Picking(u, "chosen", None), saved)
    BY DEF SlotRight, Picking
  <2> QED BY <2>1, <2>2, ReadsKeep
<1> QED BY <1>1, <1>2, <1>3, <1>4, <1>5, <1>6, <1>7

LEMMA ManyRead ==
  ASSUME LedgerRight, NEW s \in Slot, CoinsAll(s) \/ UserPlaysRank(s)
  PROVE  LedgerRight'
<1>0. Purses
  BY DEF LedgerRight
<1>1. CASE CoinsAll(s)
  <2>1. PICK lv \in Levels, n \in {-1, 1} : Reads(s, Reading("now", {u \in User : user[u].lv = lv}, n))
    BY <1>1 DEF CoinsAll
  <2>2. n \in Int /\ {u \in User : user[u].lv = lv} \in SUBSET User
    OBVIOUS
  <2>3. SlotRight(Reading("now", {u \in User : user[u].lv = lv}, n), saved)
    BY <1>0, <2>2, ReadingRight
  <2> QED BY <2>1, <2>3, ReadsKeep
<1>2. CASE UserPlaysRank(s)
  <2>1. PICK who \in SUBSET {u \in User : HasAccount(u)} : Reads(s, Reading("later", who, 1))
    BY <1>2 DEF UserPlaysRank
  <2>2. SlotRight(Reading("later", who, 1), saved)
    BY <1>0, ReadingRight
  <2> QED BY <2>1, <2>2, ReadsKeep
<1> QED BY <1>1, <1>2

\* ... and writes what it made of that.
LEMMA WritesKeep ==
  ASSUME Purses, NEW s \in Slot, NEW next, ReadRight(slot[s]), Writes(s, next)
  PROVE  Purses'
<1> DEFINE now == slot[s]
<1>1. /\ user' = [u \in User |-> IF u \in Who(now) THEN Written(now, u) ELSE user[u]]
      /\ due' = [u \in User |-> IF u \in Who(now) THEN due[u] + now.delta ELSE due[u]]
      /\ stale' = stale \union {u \in Who(now) : user[u].iv # now.seen[u].iv}
      /\ demoted' = IF now.lv = None THEN demoted
                    ELSE demoted \union {u \in Who(now) : user[u].lv # now.seen[u].lv}
      /\ listed' = listed
  BY DEF Writes
<1>2. Who(now) = DOMAIN now.seen /\ Who(now) \subseteq User
  BY DEF Who, ReadRight
<1>3. ASSUME NEW u \in Who(now)
      PROVE  /\ Written(now, u) \in UserRow
             /\ Written(now, u).iv = now.seen[u].iv + now.delta
             /\ Written(now, u).lv = IF now.lv = None THEN user[u].lv ELSE now.lv
  <2>1. user[u] \in UserRow /\ now.seen[u] \in SeenRow /\ now.delta \in Int /\ now.gain \in Int
    BY <1>2 DEF Purses, ReadRight
  <2>2. PICK a, b, c : a = now.seen[u].iv + now.delta /\ b = now.seen[u].red + now.gain
                       /\ c = IF now.lv = None THEN user[u].lv ELSE now.lv
    OBVIOUS
  <2>3. a \in Int /\ b \in Int
    BY <2>1, <2>2 DEF SeenRow
  <2>4. c \in Levels
    BY <2>1, <2>2 DEF ReadRight, UserRow, Levels
  <2>5. Written(now, u) = [user[u] EXCEPT !.iv = a, !.red = b, !.lv = c]
    BY <2>2 DEF Written
  <2>6. PICK r : r = [user[u] EXCEPT !.iv = a, !.red = b, !.lv = c]
    OBVIOUS
  <2>7. r \in UserRow /\ r.iv = a /\ r.lv = c
    BY <2>1, <2>3, <2>4, <2>6 DEF UserRow
  <2> QED BY <2>2, <2>5, <2>6, <2>7
<1>4. now.delta \in Int /\ \A u \in User : user[u] \in UserRow /\ due[u] \in Int
  BY DEF ReadRight, Purses
<1> HIDE DEF now
<1>5. user' \in [User -> UserRow]
  BY <1>1, <1>3, <1>4
<1>6. due' \in [User -> Int]
  BY <1>1, <1>4
<1>7. CoinsAddUp'
  <2> SUFFICES ASSUME NEW u \in User \ stale' PROVE user'[u].iv = due'[u]
    BY DEF CoinsAddUp
  <2>1. user[u].iv = due[u]
    BY <1>1 DEF Purses, CoinsAddUp
  <2>2. CASE u \in Who(now)
    <3>1. user[u].iv = now.seen[u].iv
      BY <1>1, <2>2
    <3>2. user'[u] = Written(now, u) /\ due'[u] = due[u] + now.delta
      BY <1>1, <2>2
    <3> QED BY <1>3, <2>1, <2>2, <3>1, <3>2
  <2>3. CASE u \notin Who(now)
    BY <1>1, <2>1, <2>3
  <2> QED BY <2>2, <2>3
<1>8. WhitelistKept'
  <2> SUFFICES ASSUME NEW u \in listed' \ demoted' PROVE user'[u].lv = "a"
    BY DEF WhitelistKept
  <2>1. u \in User /\ user[u].lv = "a"
    BY <1>1 DEF Purses, WhitelistKept
  <2>2. CASE u \in Who(now)
    <3>1. user'[u].lv = IF now.lv = None THEN user[u].lv ELSE now.lv
      BY <1>1, <1>3, <2>1, <2>2
    <3>2. now.lv = None \/ user[u].lv = now.seen[u].lv
      BY <1>1, <2>2
    <3>3. now.lv = None \/ now.seen[u].lv = "c"
      BY <1>2, <2>2 DEF ReadRight, now
    <3> QED BY <2>1, <3>1, <3>2, <3>3
  <2>3. CASE u \notin Who(now)
    BY <1>1, <2>1, <2>3
  <2> QED BY <2>2, <2>3
<1>9. listed' \subseteq User
  BY <1>1 DEF Purses
<1> QED BY <1>5, <1>6, <1>7, <1>8, <1>9 DEF Purses

LEMMA WritersKeep ==
  ASSUME LedgerRight, NEW s \in Slot
  PROVE  /\ BlindWrite(s) => LedgerRight'
         /\ SenderPaid(s) => LedgerRight'
         /\ GrabWrites(s) => LedgerRight'
<1> USE DEF LedgerRight
<1>1. ASSUME slot[s] # None, slot[s].kind \in {"now", "later", "send", "private", "share"}
      PROVE  ReadRight(slot[s])
  BY <1>1 DEF Slots, SlotRight
<1>2. ASSUME ReadRight(slot[s]), NEW next, next = None \/ SlotRight(next, saved), WritesOrFails(s, next)
      PROVE  Purses' /\ Slots' /\ Orders' /\ product' \in Nat \union {None}
  <2>1. slot' = [slot EXCEPT ![s] = next] /\ UNCHANGED <<product, order, saved>>
    BY <1>2 DEF WritesOrFails, Writes
  <2>2. ASSUME Writes(s, next) PROVE Purses'
    BY <1>2, <2>2, WritesKeep
  <2>3. ASSUME UNCHANGED <<user, code, product, order, saved, due, stale, listed, demoted>> PROVE Purses'
    BY <2>3, PursesStay
  <2>4. DOMAIN slot' = Slot /\ \A t \in Slot : slot'[t] = slot[t] \/ slot'[t] = next
    BY <2>1 DEF Slots
  <2>5. Slots'
    BY <1>2, <2>1, <2>4, SlotsStay
  <2> QED BY <1>2, <2>1, <2>2, <2>3, <2>5, OrdersStay DEF WritesOrFails
<1>3. ASSUME BlindWrite(s) PROVE LedgerRight'
  <2>1. slot[s] # None /\ slot[s].kind \in {"now", "later"} /\ Writes(s, None) /\ red' = red
    BY <1>3 DEF BlindWrite, SimpleKinds
  <2>2. WritesOrFails(s, None)
    BY <2>1 DEF WritesOrFails
  <2> QED BY <1>1, <1>2, <2>1, <2>2 DEF Envelope
<1>4. ASSUME SenderPaid(s) PROVE LedgerRight'
  <2> DEFINE next == [kind |-> "paid", money |-> -slot[s].delta]
  <2>1. slot[s] # None /\ slot[s].kind = "send" /\ WritesOrFails(s, next) /\ red' = red
    BY <1>4 DEF SenderPaid
  <2>2. ReadRight(slot[s]) /\ -slot[s].delta \in Nat
    BY <1>1, <2>1 DEF ReadRight
  <2>3. next.kind = "paid" /\ next.money \in Nat
    BY <2>2
  <2> HIDE DEF next
  <2>4. SlotRight(next, saved)
    BY <2>3 DEF SlotRight
  <2> QED BY <1>2, <2>1, <2>2, <2>4 DEF Envelope
<1>5. ASSUME GrabWrites(s) PROVE LedgerRight'
  <2> DEFINE u == CHOOSE v \in Who(slot[s]) : TRUE
  <2>1. slot[s] # None /\ slot[s].kind \in {"private", "share"} /\ WritesOrFails(s, None)
    BY <1>5 DEF GrabWrites
  <2>2. red' = [red EXCEPT !.rest = @ - slot[s].delta, !.left = @ - 1, !.got = @ \union {u},
                           !.on = @ /\ red.left # 1]
    BY <1>5 DEF GrabWrites
  <2>3. ReadRight(slot[s])
    BY <1>1, <2>1
  <2>4. slot[s].delta \in Int /\ u \in User
    <3>1. PICK v \in User : DOMAIN slot[s].seen = {v}
      BY <2>1, <2>3 DEF ReadRight
    <3>2. u \in Who(slot[s])
      BY <3>1 DEF Who
    <3> QED BY <2>3, <3>1, <3>2 DEF Who, ReadRight
  <2>5. Envelope'
    <3> HIDE DEF u
    <3>1. red \in RedRow /\ (red.on => red.members > 0)
      BY DEF Envelope
    <3>2. PICK n : n = red.rest - slot[s].delta
      OBVIOUS
    <3>3. PICK g : g = red.got \union {u}
      OBVIOUS
    <3>4. PICK l : l = red.left - 1
      OBVIOUS
    <3>5. n \in Int /\ g \in SUBSET User /\ l \in Int
      BY <2>4, <3>1, <3>2, <3>3, <3>4 DEF RedRow
    <3>6. red' = [red EXCEPT !.rest = n, !.left = l, !.got = g, !.on = @ /\ red.left # 1]
      BY <2>2, <3>2, <3>3, <3>4
    <3> QED BY <3>1, <3>5, <3>6 DEF Envelope, RedRow
  <2> QED BY <1>2, <2>1, <2>3, <2>5
<1> QED BY <1>3, <1>4, <1>5

LEMMA EnvelopesKeep ==
  ASSUME LedgerRight, NEW money \in Nat, NEW most \in Int, CreateReds(money, most),
         DOMAIN slot' = Slot, \A s \in Slot : slot'[s] = slot[s] \/ slot'[s] = None
  PROVE  LedgerRight'
<1> USE DEF LedgerRight
<1>1. PICK n \in 1 .. Cardinality(User), kind \in {"random", "equal", "private"}, t \in User :
        red' = [money |-> money, members |-> n, rest |-> money, left |-> n, kind |-> kind,
                target |-> IF kind = "private" THEN t ELSE None, got |-> {}, on |-> TRUE]
  BY DEF CreateReds
<1>2. UNCHANGED <<user, product, order, saved, due, stale, listed, demoted>>
  BY DEF CreateReds
<1>3. Purses'
  BY <1>2, PursesStay
<1>4. n \in Nat /\ n > 0
  BY LedgerAssumption, FS_CardinalityType
<1>5. Envelope'
  BY <1>1, <1>4 DEF Envelope, RedRow
<1>6. Slots'
  BY <1>2, SlotsStay
<1> QED BY <1>2, <1>3, <1>5, <1>6, OrdersStay

LEMMA SendersKeep ==
  ASSUME LedgerRight
  PROVE  /\ \A s \in Slot : SendRedEnvelope(s) => LedgerRight'
         /\ SendAsChannel => LedgerRight'
<1>1. ASSUME NEW s \in Slot, SendRedEnvelope(s) PROVE LedgerRight'
  <2>1. slot[s] # None /\ slot[s].kind = "paid" /\ slot' = [slot EXCEPT ![s] = None]
        /\ CreateReds(slot[s].money, slot[s].money)
    BY <1>1 DEF SendRedEnvelope
  <2>2. slot[s].money \in Nat
    BY <2>1 DEF LedgerRight, Slots, SlotRight
  <2>3. DOMAIN slot' = Slot /\ \A t \in Slot : slot'[t] = slot[t] \/ slot'[t] = None
    BY <2>1 DEF LedgerRight, Slots
  <2> QED BY <2>1, <2>2, <2>3, EnvelopesKeep
<1>2. ASSUME SendAsChannel PROVE LedgerRight'
  <2>1. PICK m \in Money : CreateReds(m, Cardinality(User))
    BY <1>2 DEF SendAsChannel
  <2>2. m \in Nat /\ Cardinality(User) \in Int
    BY LedgerAssumption, FS_CardinalityType
  <2>3. DOMAIN slot' = Slot /\ \A t \in Slot : slot'[t] = slot[t] \/ slot'[t] = None
    BY <1>2 DEF SendAsChannel, LedgerRight, Slots
  <2> QED BY <2>1, <2>2, <2>3, EnvelopesKeep
<1> QED BY <1>1, <1>2

LEMMA EmptyPurse ==
  ASSUME NEW r \in UserRow, NEW z \in Int
  PROVE  /\ [r EXCEPT !.iv = z, !.red = z] \in UserRow
         /\ [r EXCEPT !.iv = z, !.red = z].iv = z /\ [r EXCEPT !.iv = z, !.red = z].lv = r.lv
<1>1. PICK p : p = [r EXCEPT !.iv = z, !.red = z]
  OBVIOUS
<1>2. p.iv = z /\ p.red = z /\ p.lv = r.lv /\ p.us = r.us /\ p.ch = r.ch
  BY <1>1 DEF UserRow
<1>3. p \in UserRow
  BY <1>1, <1>2 DEF UserRow
<1> QED BY <1>1, <1>2, <1>3

LEMMA ClearKeeps ==
  ASSUME LedgerRight, CoinsClear
  PROVE  LedgerRight'
<1> USE DEF LedgerRight
<1>1. PICK lv \in SUBSET Levels \ {{}} :
        LET who == {u \in User : user[u].lv \in lv} IN
        /\ user' = [u \in User |-> IF u \in who THEN [user[u] EXCEPT !.iv = 0, !.red = 0] ELSE user[u]]
        /\ due' = [u \in User |-> IF u \in who THEN 0 ELSE due[u]]
        /\ stale' = stale \ who
  BY DEF CoinsClear
<1> DEFINE who == {u \in User : user[u].lv \in lv}
<1>2. UNCHANGED <<product, order, red, slot, saved, listed, demoted>>
  BY DEF CoinsClear
<1>3. ASSUME NEW u \in User
      PROVE  user'[u] \in UserRow /\ due'[u] \in Int /\ user'[u].lv = user[u].lv
             /\ user'[u].iv = IF u \in who THEN 0 ELSE user[u].iv
  <2>1. user[u] \in UserRow /\ due[u] \in Int
    BY DEF Purses
  <2>2. [user[u] EXCEPT !.iv = 0, !.red = 0] \in UserRow
        /\ [user[u] EXCEPT !.iv = 0, !.red = 0].iv = 0
        /\ [user[u] EXCEPT !.iv = 0, !.red = 0].lv = user[u].lv
    <3>1. PICK z : z = 0
      OBVIOUS
    <3>2. z \in Int
      BY <3>1
    <3> QED BY <2>1, <3>1, <3>2, EmptyPurse
  <2>3. /\ user'[u] = IF u \in who THEN [user[u] EXCEPT !.iv = 0, !.red = 0] ELSE user[u]
        /\ due'[u] = IF u \in who THEN 0 ELSE due[u]
    BY <1>1
  <2> HIDE DEF who
  <2>4. CASE u \in who
    BY <2>1, <2>2, <2>3, <2>4
  <2>5. CASE u \notin who
    BY <2>1, <2>3, <2>5
  <2> QED BY <2>4, <2>5
<1>4. user' = [u \in User |-> user'[u]] /\ due' = [u \in User |-> due'[u]]
  BY <1>1
<1>5. user' \in [User -> UserRow] /\ due' \in [User -> Int]
  BY <1>3, <1>4
<1>6. CoinsAddUp'
  <2> SUFFICES ASSUME NEW u \in User \ stale' PROVE user'[u].iv = due'[u]
    BY DEF CoinsAddUp
  <2>1. CASE u \in who
    BY <1>1, <1>3, <2>1
  <2>2. CASE u \notin who
    <3>1. u \notin stale /\ due'[u] = due[u]
      BY <1>1, <2>2
    <3> QED BY <1>3, <2>2, <3>1 DEF Purses, CoinsAddUp
  <2> QED BY <2>1, <2>2
<1>7. WhitelistKept' /\ listed' \subseteq User
  BY <1>2, <1>3 DEF Purses, WhitelistKept
<1>8. Purses'
  BY <1>5, <1>6, <1>7 DEF Purses
<1> QED BY <1>2, <1>8, Untouched

LEMMA StopsKeep ==
  ASSUME LedgerRight
  PROVE  /\ \A s \in Slot : NeverAnswers(s) => LedgerRight'
         /\ Crash => LedgerRight'
<1> USE DEF LedgerRight
<1>1. ASSUME NEW s \in Slot, NeverAnswers(s) PROVE LedgerRight'
  <2>1. UNCHANGED <<user, product, order, red, saved, due, stale, listed, demoted>> /\ slot' = [slot EXCEPT ![s] = None]
    BY <1>1 DEF NeverAnswers
  <2>2. DOMAIN slot' = Slot /\ \A t \in Slot : slot'[t] = slot[t] \/ slot'[t] = None
    BY <2>1 DEF Slots
  <2>3. Slots'
    BY <2>1, <2>2, SlotsStay
  <2> QED BY <2>1, <2>3, PursesStay, OrdersStay DEF Envelope
<1>2. ASSUME Crash PROVE LedgerRight'
  <2>1. UNCHANGED <<user, product, order, saved, due, stale, listed, demoted>> /\ red' = [red EXCEPT !.on = FALSE]
        /\ slot' = [s \in Slot |-> IF slot[s] = None \/ slot[s].kind = "order" THEN slot[s] ELSE None]
    BY <1>2 DEF Crash
  <2>2. DOMAIN slot' = Slot /\ \A t \in Slot : slot'[t] = slot[t] \/ slot'[t] = None
    BY <2>1
  <2>3. Slots'
    BY <2>1, <2>2, SlotsStay
  <2>4. Envelope'
    BY <2>1 DEF Envelope, RedRow
  <2> QED BY <2>1, <2>3, <2>4, PursesStay, OrdersStay
<1> QED BY <1>1, <1>2

LEMMA LedgerStepKeeps ==
  ASSUME LedgerRight, LedgerStep
  PROVE  LedgerRight'
<1>1. ASSUME WebStep PROVE LedgerRight'
  <2>1. CASE CreateProduct \/ UpdateProduct
    BY <2>1, ProductsKeep
  <2>2. CASE \E u \in User : AdjustPoints(u)
    BY <2>2, ServicesKeep
  <2>3. CASE \E u \in User : \E s \in Slot : CreateMyRechargeOrder(s, u)
    BY <2>3, OrderBegins
  <2>4. CASE \E c \in Code : GenerateCodes(c) \/ Revoke(c)
    BY <2>4, CodesKeep
  <2>5. CASE \E c \in Code : \E u \in User : CallExchange(c, u) \/ CallWlExchange(c, u)
    <3>1. PICK c \in Code, u \in User : RgsCode(c, u)
      BY <2>5 DEF CallExchange, CallWlExchange, RgsCode
    <3> QED BY <3>1, CodesKeep
  <2>6. CASE \E o \in Order : DecideOrder(o) \/ CancelMyOrder(o) \/ RefundOrder(o)
    BY <2>6, OrdersKeep DEF CancelMyOrder
  <2>7. CASE \E o \in Order : \E s \in Slot : CreateOrderCommits(s, o)
    BY <2>7, OrderCommits
  <2> QED BY <1>1, <2>1, <2>2, <2>3, <2>4, <2>5, <2>6, <2>7 DEF WebStep
<1>2. ASSUME BotStep PROVE LedgerRight'
  <2>1. CASE \E u \in User : CoinsUser(u) \/ ScoreUser(u) \/ UserInCheckin(u) \/ DoStoreWhitelist(u)
    BY <2>1, ServicesKeep
  <2>2. CASE \E u \in User, c \in Code : DoStoreInvite(u, c)
    BY <2>2, CodesKeep
  <2>3. CASE \E c \in Code : CrLink(c) \/ DeleteUnusedCodes(c)
    BY <2>3, CodesKeep
  <2>4. CASE \E s \in Slot, u \in User : \/ SRank(s, u) \/ UpdateCredit(s, u) \/ CheckEx(s, u)
                                         \/ DoStoreReborn(s, u) \/ VerifySender(s, u)
                                         \/ GrabReads(s, u) \/ PickReads(s, u)
    BY <2>4, ReadersKeep
  <2>5. CASE \E s \in Slot : CoinsAll(s) \/ UserPlaysRank(s)
    BY <2>5, ManyRead
  <2>6. CASE (\E s \in Slot : SendRedEnvelope(s)) \/ SendAsChannel
    BY <2>6, SendersKeep
  <2>7. CASE CoinsClear
    BY <2>7, ClearKeeps
  <2> QED BY <1>2, <2>1, <2>2, <2>3, <2>4, <2>5, <2>6, <2>7 DEF BotStep
<1>3. ASSUME NEW s \in Slot, BlindWrite(s) \/ SenderPaid(s) \/ GrabWrites(s) PROVE LedgerRight'
  BY <1>3, WritersKeep
<1>4. ASSUME NEW s \in Slot, NeverAnswers(s) PROVE LedgerRight'
  BY <1>4, StopsKeep
<1>5. ASSUME Crash PROVE LedgerRight'
  BY <1>5, StopsKeep
<1> QED BY <1>1, <1>2, <1>3, <1>4, <1>5 DEF LedgerStep

\* A download from the bot: what is charged, and what is recorded of it.
LEMMA PicksKeep ==
  ASSUME LedgerRight, NEW s \in Slot
  PROVE  /\ AddDownload(s) => LedgerRight'
         /\ PickCharges(s) => LedgerRight'
         /\ AddRequestRecord(s) => LedgerRight'
         /\ \A q \in Request : ImportDownload(s, q) => LedgerRight'
<1> USE DEF LedgerRight
<1> DEFINE now == slot[s]
<1>1. ASSUME NEW next, slot' = [slot EXCEPT ![s] = next], next = None \/ SlotRight(next, saved'),
             UNCHANGED <<product, order, red>>, Purses', saved \subseteq saved'
      PROVE  LedgerRight'
  <2>1. DOMAIN slot' = Slot /\ \A t \in Slot : slot'[t] = slot[t] \/ slot'[t] = next
    BY <1>1 DEF Slots
  <2>2. Slots'
    BY <1>1, <2>1, SlotsStay
  <2> QED BY <1>1, <2>2, OrdersStay DEF Envelope
<1>2. ASSUME now # None, now.kind = "pick" PROVE SlotRight(now, saved)
  BY <1>2 DEF Slots
<1>3. ASSUME AddDownload(s) PROVE LedgerRight'
  <2>1. PICK d \in Download : slot' = [slot EXCEPT ![s] = Picking(now.user, NextPhase("added"), d)]
    BY <1>3 DEF AddDownload
  <2>2. UNCHANGED <<user, product, order, red, saved, due, stale, listed, demoted>>
        /\ now # None /\ now.kind = "pick"
    BY <1>3 DEF AddDownload
  <2>3. now.user \in User
    BY <1>2, <2>2 DEF SlotRight
  <2>4. NextPhase("added") = "charge"
    BY DEF NextPhase
  <2>5. SlotRight(Picking(now.user, NextPhase("added"), d), saved')
    BY <2>3, <2>4 DEF SlotRight, Picking
  <2>6. Purses'
    BY <2>2, PursesStay
  <2> HIDE DEF now
  <2> QED BY <1>1, <2>1, <2>2, <2>5, <2>6
<1>4. ASSUME PickCharges(s) PROVE LedgerRight'
  <2>1. now # None /\ now.kind = "pick" /\ now.phase = "charge"
        /\ slot' = [slot EXCEPT ![s] = Picking(now.user, NextPhase("charge"), now.download)]
        /\ UNCHANGED <<product, order, red, stale, listed, demoted>>
    BY <1>4 DEF PickCharges
  <2>2. now.user \in User /\ now.download \in Download /\ now.download # None
    BY <1>2, <2>1, RequestAssumption DEF SlotRight
  <2>3. NextPhase("charge") = "record"
    BY DEF NextPhase
  <2>4. Purses' /\ saved \subseteq saved' /\ <<"adjust", now.download>> \in saved'
    <3>1. CASE AdjustCoins(now.user, -1, now.download, TRUE)
      <4>1. -1 \in Int
        OBVIOUS
      <4>2. Purses' /\ saved \subseteq saved'
        BY <2>1, <2>2, <3>1, <4>1, AdjustKeeps
      <4>3. <<"adjust", now.download>> \in saved'
        BY <2>2, <3>1 DEF AdjustCoins, Transfer
      <4> QED BY <4>2, <4>3
    <3>2. CASE Replay("adjust", now.download) /\ UNCHANGED <<user, saved, due>>
      BY <2>1, <3>2, PursesStay DEF Replay
    <3> QED BY <1>4, <3>1, <3>2 DEF PickCharges
  <2>5. SlotRight(Picking(now.user, NextPhase("charge"), now.download), saved')
    BY <2>2, <2>3, <2>4 DEF SlotRight, Picking
  <2> HIDE DEF now
  <2> QED BY <1>1, <2>1, <2>4, <2>5
<1>5. ASSUME NEW q \in Request, ImportDownload(s, q) PROVE LedgerRight'
  <2>1. slot' = [slot EXCEPT ![s] = None] /\ UNCHANGED <<user, product, order, red, saved, due, stale, listed, demoted>>
    BY <1>5 DEF ImportDownload
  <2>2. Purses'
    BY <2>1, PursesStay
  <2> QED BY <1>1, <2>1, <2>2
<1>6. ASSUME AddRequestRecord(s) PROVE LedgerRight'
  <2>1. now # None /\ now.kind = "pick" /\ now.phase = "record"
        /\ slot' = [slot EXCEPT ![s] = Picking(now.user, NextPhase("record"), now.download)]
        /\ UNCHANGED <<user, product, order, red, saved, due, stale, listed, demoted>>
    BY <1>6 DEF AddRequestRecord
  <2>2. now.user \in User /\ now.download \in Download /\ <<"adjust", now.download>> \in saved
    BY <1>2, <2>1 DEF SlotRight
  <2>3. NextPhase("record") = "import"
    BY DEF NextPhase
  <2>4. SlotRight(Picking(now.user, NextPhase("record"), now.download), saved')
    BY <2>1, <2>2, <2>3 DEF SlotRight, Picking
  <2>5. Purses'
    BY <2>1, PursesStay
  <2> HIDE DEF now
  <2> QED BY <1>1, <2>1, <2>4, <2>5
<1> QED BY <1>3, <1>4, <1>5, <1>6

(* Requests for media and the job that copies MoviePilot's progress. *)

LEMMA RequestsStay ==
  ASSUME RequestsRight, UNCHANGED requestVars
  PROVE  RequestsRight'
BY DEF RequestsRight, requestVars, RunReads, CompletedIsFull, Exists

\* A row is changed by anybody: whoever has read it will find it torn.
LEMMA ChangeKeeps ==
  ASSUME RequestsRight, NEW q \in Request, NEW r \in RequestRow, Change(q, r),
         UNCHANGED sync, q \in torn' \/ r.status # "completed" \/ r.full,
         moviepilot' \in [Download -> Told], post' \in [Request -> Download \union {None}],
         \A p \in Request : post'[p] # None => post[p] # None
  PROVE  RequestsRight'
<1>1. request' = [request EXCEPT ![q] = r] /\ torn \subseteq torn' /\ torn' \subseteq torn \union {q}
  BY DEF Change
<1>2. request' \in [Request -> RequestRow \union {None}] /\ request'[q] = r
      /\ \A p \in Request : p # q => request'[p] = request[p]
  BY <1>1 DEF RequestsRight
<1>3. r # None
  BY RequestAssumption
<1>4. \A p \in Request : Exists(p) => request'[p] # None
  BY <1>2, <1>3 DEF Exists
<1>5. ASSUME NEW y \in Sync PROVE RunReads(y)'
  <2> SUFFICES ASSUME sync[y] # None, sync[y].row # None
               PROVE  /\ request'[sync[y].row] # None /\ sync[y].seen \in RequestRow
                      /\ sync[y].row \notin torn' => request'[sync[y].row] = sync[y].seen
    BY DEF RunReads, Exists
  <2>1. /\ Exists(sync[y].row) /\ sync[y].seen \in RequestRow
        /\ sync[y].row \notin torn => request[sync[y].row] = sync[y].seen
    BY DEF RequestsRight, RunReads
  <2>2. sync[y].row \in Request
    BY DEF RequestsRight, SyncRun
  <2>3. CASE sync[y].row = q
    BY <1>2, <1>3, <2>1, <2>3 DEF Change
  <2>4. CASE sync[y].row # q
    BY <1>1, <1>2, <2>1, <2>2, <2>4 DEF Exists
  <2> QED BY <2>3, <2>4
<1>6. CompletedIsFull'
  <2> SUFFICES ASSUME NEW p \in Request \ torn', request'[p] # None, request'[p].status = "completed"
               PROVE  request'[p].full
    BY DEF CompletedIsFull, Exists
  <2>1. CASE p = q
    BY <1>2, <2>1
  <2>2. CASE p # q
    BY <1>1, <1>2, <2>2 DEF RequestsRight, CompletedIsFull, Exists
  <2> QED BY <2>1, <2>2
<1>7. \A p \in Request : post'[p] # None => request'[p] # None
  BY <1>4 DEF RequestsRight
<1>8. sync' \in [Sync -> SyncRun \union {None}] /\ torn' \subseteq Request
  BY <1>1 DEF RequestsRight
<1> QED BY <1>2, <1>5, <1>6, <1>7, <1>8 DEF RequestsRight, Exists

\* What an update and a submission make of a row.
LEMMA UpdatedRow ==
  ASSUME NEW r \in RequestRow,
         NEW status \in {"submitted", "approved", "downloading", "completed", "rejected", "canceled"},
         NEW d \in Download \union {None}
  PROVE  /\ [Updated(r, status) EXCEPT !.download = d] \in RequestRow
         /\ LET n == [Updated(r, status) EXCEPT !.download = d]
            IN  n.status = status /\ (n.status = "completed" => n.full)
<1>1. PICK b : b = (r.full \/ status = "completed")
  OBVIOUS
<1>2. b \in BOOLEAN /\ (status = "completed" => b)
  BY <1>1 DEF RequestRow
<1>3. PICK n : n = [r EXCEPT !.status = status, !.full = b]
  OBVIOUS
<1>4. Updated(r, status) = n
  BY <1>1, <1>3 DEF Updated
<1>5. n \in RequestRow /\ n.status = status /\ n.full = b /\ n.download = r.download
  BY <1>2, <1>3 DEF RequestRow
<1>6. [n EXCEPT !.download = d] \in RequestRow /\ [n EXCEPT !.download = d].status = status
      /\ [n EXCEPT !.download = d].full = b
  BY <1>5 DEF RequestRow
<1> QED BY <1>2, <1>4, <1>5, <1>6

LEMMA UpdatedDownload ==
  ASSUME NEW r \in RequestRow, NEW status
  PROVE  Updated(r, status).download = r.download
BY DEF Updated, RequestRow

LEMMA StoredRow ==
  ASSUME NEW r \in RequestRow, NEW d \in Download
  PROVE  /\ [r EXCEPT !.status = "canceled"] \in RequestRow
         /\ [r EXCEPT !.status = "canceled"].status = "canceled"
         /\ [r EXCEPT !.status = "downloading", !.download = d, !.full = FALSE] \in RequestRow
         /\ [r EXCEPT !.status = "downloading", !.download = d, !.full = FALSE].status = "downloading"
  BY DEF RequestRow

LEMMA NewRowIs ==
  ASSUME NEW status \in {"submitted", "approved"}, NEW d \in Download \union {None}, NEW source \in {"web", "telegram"}
  PROVE  NewRow(status, d, source) \in RequestRow /\ NewRow(status, d, source).status = status
         /\ NewRow(status, d, source).source = source /\ NewRow(status, d, source).download = d
  BY DEF NewRow, RequestRow

LEMMA UsersRequestsKeep ==
  ASSUME RequestsRight, NEW q \in Request
  PROVE  /\ Create(q) => RequestsRight'
         /\ Cancel(q) => RequestsRight'
         /\ UpdateMediaRequest(q) => RequestsRight'
         /\ SubmitPosts(q) => RequestsRight'
         /\ SubmitStores(q) => RequestsRight'
<1>1. moviepilot \in [Download -> Told] /\ post \in [Request -> Download \union {None}]
  BY DEF RequestsRight
<1>2. ASSUME Exists(q) PROVE request[q] \in RequestRow
  BY <1>2 DEF RequestsRight, Exists
<1>3. ASSUME Create(q) PROVE RequestsRight'
  <2>1. PICK r : r = NewRow("submitted", None, "web")
    OBVIOUS
  <2>2. Change(q, r) /\ UNCHANGED <<moviepilot, post, sync>>
    BY <1>3, <2>1 DEF Create
  <2>3. r \in RequestRow /\ r.status = "submitted"
    BY <2>1, NewRowIs
  <2> QED BY <1>1, <2>2, <2>3, ChangeKeeps
<1>4. ASSUME Cancel(q) PROVE RequestsRight'
  <2>1. PICK r : r = [request[q] EXCEPT !.status = "canceled"]
    OBVIOUS
  <2>2. Change(q, r) /\ UNCHANGED <<moviepilot, post, sync>> /\ Exists(q)
    BY <1>4, <2>1 DEF Cancel
  <2>3. r \in RequestRow /\ r.status = "canceled"
    BY <1>2, <2>1, <2>2 DEF RequestRow
  <2> QED BY <1>1, <2>2, <2>3, ChangeKeeps
<1>5. ASSUME UpdateMediaRequest(q) PROVE RequestsRight'
  <2>1. PICK status \in {"submitted", "approved", "downloading", "completed", "rejected", "canceled"},
             d \in Download \union {None} : Update(q, status, d)
    BY <1>5 DEF UpdateMediaRequest
  <2>2. PICK e : e = IF d = None THEN Updated(request[q], status).download ELSE d
    OBVIOUS
  <2>3. PICK r : r = [Updated(request[q], status) EXCEPT !.download = e]
    OBVIOUS
  <2>4. Change(q, r) /\ Exists(q)
    BY <2>1, <2>2, <2>3 DEF Update
  <2>5. e \in Download \union {None}
    <3>1. PICK r0 : r0 = request[q]
      OBVIOUS
    <3>2. r0 \in RequestRow /\ r0.download \in Download \union {None} /\ None \in Download \union {None}
      BY <1>2, <2>4, <3>1 DEF RequestRow
    <3>3. Updated(r0, status).download = r0.download
      BY <3>2, UpdatedDownload
    <3> QED BY <2>2, <3>1, <3>2, <3>3
  <2>6. r \in RequestRow /\ (r.status = "completed" => r.full)
    <3>1. PICK r0 : r0 = request[q]
      OBVIOUS
    <3>2. r0 \in RequestRow
      BY <1>2, <2>4, <3>1
    <3>3. r = [Updated(r0, status) EXCEPT !.download = e]
      BY <2>3, <3>1
    <3> QED BY <2>5, <3>2, <3>3, UpdatedRow
  <2> QED BY <1>1, <1>5, <2>4, <2>6, ChangeKeeps DEF UpdateMediaRequest
<1>6. ASSUME SubmitPosts(q) PROVE RequestsRight'
  <2>1. PICK d \in Download :
          /\ moviepilot' = [moviepilot EXCEPT ![d] = IF @ = "none" THEN "downloading" ELSE @]
          /\ post' = [post EXCEPT ![q] = d]
    BY <1>6 DEF SubmitPosts
  <2>2. Exists(q) /\ UNCHANGED <<request, sync, torn>>
    BY <1>6 DEF SubmitPosts
  <2>3. moviepilot' \in [Download -> Told] /\ post' \in [Request -> Download \union {None}]
    BY <1>1, <2>1 DEF Told
  <2>4. \A p \in Request : post'[p] # None => Exists(p)
    BY <1>1, <2>1, <2>2 DEF RequestsRight
  <2> QED BY <2>2, <2>3, <2>4 DEF RequestsRight, RunReads, CompletedIsFull, Exists
<1>7. ASSUME SubmitStores(q) PROVE RequestsRight'
  <2>1. post[q] # None /\ post' = [post EXCEPT ![q] = None] /\ UNCHANGED <<moviepilot, sync>>
    BY <1>7 DEF SubmitStores
  <2>2. Exists(q) /\ post[q] \in Download
    BY <2>1 DEF RequestsRight
  <2>3. post' \in [Request -> Download \union {None}] /\ \A p \in Request : post'[p] # None => post[p] # None
    BY <1>1, <2>1
  <2>4. CASE UNCHANGED <<request, torn>>
    BY <2>1, <2>3, <2>4 DEF RequestsRight, RunReads, CompletedIsFull, Exists
  <2>5. CASE Change(q, [request[q] EXCEPT !.status = "downloading", !.download = post[q], !.full = FALSE])
    <3>1. PICK r : r = [request[q] EXCEPT !.status = "downloading", !.download = post[q], !.full = FALSE]
      OBVIOUS
    <3>2. r \in RequestRow /\ r.status = "downloading"
      BY <1>2, <2>2, <3>1, StoredRow
    <3> QED BY <1>1, <2>1, <2>3, <2>5, <3>1, <3>2, ChangeKeeps
  <2> QED BY <1>7, <2>4, <2>5 DEF SubmitStores
<1> QED BY <1>3, <1>4, <1>5, <1>6, <1>7

\* The row as the job would have it.
LEMMA SyncedRow ==
  ASSUME NEW r \in RequestRow, NEW told \in Told
  PROVE  Synced(r, told) \in RequestRow /\ (Synced(r, told).status = "completed" => Synced(r, told).full)
<1>1. CASE told = "moved"
  <2>1. Synced(r, told) = [r EXCEPT !.status = "completed", !.full = TRUE]
    BY <1>1 DEF Synced
  <2> QED BY <2>1 DEF RequestRow
<1>2. CASE told \in {"failed", "unmoved"}
  <2>1. Synced(r, told) = [r EXCEPT !.status = "rejected"]
    BY <1>2 DEF Synced
  <2> QED BY <2>1 DEF RequestRow
<1>3. CASE told \notin {"moved", "failed", "unmoved"}
  <2>1. PICK b : b = (told = "completed")
    OBVIOUS
  <2>2. Synced(r, told) = [r EXCEPT !.status = "downloading", !.full = b] /\ b \in BOOLEAN
    BY <1>3, <2>1 DEF Synced
  <2> QED BY <2>2 DEF RequestRow
<1> QED BY <1>1, <1>2, <1>3

LEMMA JobKeeps ==
  ASSUME RequestsRight, NEW y \in Sync
  PROVE  /\ SyncReads(y) => RequestsRight'
         /\ \A d \in Download : RowReads(y, d) => RequestsRight'
         /\ RowWrites(y) => RequestsRight'
         /\ SyncEnds(y) => RequestsRight'
<1> DEFINE run == sync[y]
<1>1. ASSUME UNCHANGED <<request, moviepilot, post, torn>>, NEW x \in SyncRun \union {None}, sync' = [sync EXCEPT ![y] = x],
             x # None /\ x.row # None => Exists(x.row) /\ x.seen \in RequestRow /\ request[x.row] = x.seen
      PROVE  RequestsRight'
  <2>1. sync' \in [Sync -> SyncRun \union {None}] /\ sync'[y] = x /\ \A z \in Sync : z # y => sync'[z] = sync[z]
    BY <1>1 DEF RequestsRight
  <2>2. ASSUME NEW z \in Sync PROVE RunReads(z)'
    <3>1. CASE z = y
      BY <1>1, <2>1, <3>1 DEF RunReads, Exists
    <3>2. CASE z # y
      BY <1>1, <2>1, <3>2 DEF RequestsRight, RunReads, Exists
    <3> QED BY <3>1, <3>2
  <2> QED BY <1>1, <2>1, <2>2 DEF RequestsRight, CompletedIsFull, Exists
<1>2. ASSUME SyncReads(y) PROVE RequestsRight'
  <2>1. PICK x : x = [told |-> moviepilot, todo |-> Download, row |-> None, seen |-> None]
    OBVIOUS
  <2>2. x \in SyncRun /\ x.row = None
    BY <2>1 DEF SyncRun, RequestsRight
  <2> QED BY <1>1, <1>2, <2>1, <2>2 DEF SyncReads
<1>3. ASSUME NEW d \in Download, RowReads(y, d) PROVE RequestsRight'
  <2>1. PICK q \in RowOf(d) : sync' = [sync EXCEPT ![y].row = q, ![y].seen = request[q], ![y].todo = @ \ {d}]
    BY <1>3 DEF RowReads
  <2>2. run # None /\ UNCHANGED <<request, moviepilot, post, torn>>
    BY <1>3 DEF RowReads
  <2>3. run \in SyncRun /\ q \in Request /\ Exists(q) /\ request[q] \in RequestRow
    BY <2>1, <2>2 DEF RequestsRight, RowOf, Exists
  <2>4. PICK x : x = [run EXCEPT !.row = q, !.seen = request[q], !.todo = @ \ {d}]
    OBVIOUS
  <2>5. x \in SyncRun /\ x.row = q /\ x.seen = request[q]
    BY <2>3, <2>4 DEF SyncRun
  <2>6. sync' = [sync EXCEPT ![y] = x]
    BY <2>1, <2>4 DEF RequestsRight
  <2> QED BY <1>1, <2>2, <2>3, <2>5, <2>6
<1>4. ASSUME RowWrites(y) PROVE RequestsRight'
  <2> DEFINE q == run.row
             now == request[q]
             new == Synced(run.seen, run.told[now.download])
  <2>1. run # None /\ q # None /\ now.download # None /\ UNCHANGED <<moviepilot, post>>
    BY <1>4 DEF RowWrites
  <2>2. run \in SyncRun /\ q \in Request /\ now \in RequestRow /\ run.seen \in RequestRow
        /\ (q \notin torn => now = run.seen)
    BY <2>1 DEF RequestsRight, SyncRun, RunReads, Exists
  <2>3. run.told[now.download] \in Told
    BY <2>1, <2>2 DEF SyncRun, RequestRow
  <2>4. new \in RequestRow /\ (new.status = "completed" => new.full)
    BY <2>2, <2>3, SyncedRow
  <2>5. PICK st, fu : /\ st = IF new.status # run.seen.status THEN new.status ELSE now.status
                      /\ fu = IF new.full # run.seen.full THEN new.full ELSE now.full
    OBVIOUS
  <2>6. PICK r : r = [now EXCEPT !.status = st, !.full = fu]
    OBVIOUS
  <2>7. request' = [request EXCEPT ![q] = r]
    BY <1>4, <2>5, <2>6 DEF RowWrites
  <2>8. sync' = [sync EXCEPT ![y].row = None, ![y].seen = None]
        /\ torn' = IF \E z \in Sync \ {y} : sync[z] # None /\ sync[z].row = q THEN torn \union {q} ELSE torn
    BY <1>4 DEF RowWrites
  <2>9. st \in {"submitted", "approved", "downloading", "completed", "rejected", "canceled"} /\ fu \in BOOLEAN
    BY <2>2, <2>4, <2>5 DEF RequestRow
  <2>10. r \in RequestRow /\ r.status = st /\ r.full = fu
    BY <2>2, <2>6, <2>9 DEF RequestRow
  <2>11. q \notin torn /\ st = "completed" => fu
    BY <2>2, <2>4, <2>5 DEF RequestRow
  <2>12. PICK x : x = [run EXCEPT !.row = None, !.seen = None]
    OBVIOUS
  <2>13. x \in SyncRun /\ x.row = None
    BY <2>2, <2>12 DEF SyncRun
  <2>14. sync' = [sync EXCEPT ![y] = x]
    BY <2>8, <2>12 DEF RequestsRight
  <2>15. sync' \in [Sync -> SyncRun \union {None}] /\ sync'[y] = x /\ \A z \in Sync : z # y => sync'[z] = sync[z]
    BY <2>13, <2>14 DEF RequestsRight
  <2>16. request' \in [Request -> RequestRow \union {None}] /\ request'[q] = r /\ r # None
         /\ \A p \in Request : p # q => request'[p] = request[p]
    BY <2>2, <2>7, <2>10, RequestAssumption DEF RequestsRight
  <2>17. torn \subseteq torn' /\ torn' \subseteq Request
    BY <2>2, <2>8 DEF RequestsRight
  <2> HIDE DEF new, now
  <2>18. ASSUME NEW z \in Sync PROVE RunReads(z)'
    <3>1. CASE z = y
      BY <2>13, <2>15, <3>1 DEF RunReads
    <3>2. CASE z # y /\ sync[z] # None /\ sync[z].row # None
      <4>1. Exists(sync[z].row) /\ sync[z].seen \in RequestRow /\ sync[z].row \in Request
            /\ (sync[z].row \notin torn => request[sync[z].row] = sync[z].seen)
        BY <3>2 DEF RequestsRight, RunReads, SyncRun
      <4>2. CASE sync[z].row = q
        <5>1. q \in torn'
          BY <2>8, <3>2, <4>2
        <5> QED BY <2>15, <2>16, <3>2, <4>1, <4>2, <5>1 DEF RunReads, Exists
      <4>3. CASE sync[z].row # q
        BY <2>15, <2>16, <2>17, <3>2, <4>1, <4>3 DEF RunReads, Exists
      <4> QED BY <4>2, <4>3
    <3>3. CASE z # y /\ ~(sync[z] # None /\ sync[z].row # None)
      BY <2>15, <3>3 DEF RunReads
    <3> QED BY <3>1, <3>2, <3>3
  <2>19. CompletedIsFull'
    <3> SUFFICES ASSUME NEW p \in Request \ torn', request'[p] # None, request'[p].status = "completed"
                 PROVE  request'[p].full
      BY DEF CompletedIsFull, Exists
    <3>1. CASE p = q
      BY <2>10, <2>11, <2>16, <2>17, <3>1
    <3>2. CASE p # q
      BY <2>16, <2>17, <3>2 DEF RequestsRight, CompletedIsFull, Exists
    <3> QED BY <3>1, <3>2
  <2>20. \A p \in Request : post'[p] # None => Exists(p)'
    BY <2>1, <2>16 DEF RequestsRight, Exists
  <2> QED BY <2>1, <2>15, <2>16, <2>17, <2>18, <2>19, <2>20 DEF RequestsRight
<1>5. ASSUME SyncEnds(y) PROVE RequestsRight'
  BY <1>1, <1>5 DEF SyncEnds
<1> QED BY <1>2, <1>3, <1>4, <1>5

\* MoviePilot's progress, and a download from the bot.
LEMMA ProgressKeeps ==
  ASSUME RequestsRight, NEW d \in Download, NEW s \in Told,
         moviepilot' = [moviepilot EXCEPT ![d] = s], UNCHANGED <<request, post, sync, torn>>
  PROVE  RequestsRight'
<1>1. moviepilot' \in [Download -> Told]
  BY DEF RequestsRight
<1> QED BY <1>1 DEF RequestsRight, RunReads, CompletedIsFull, Exists

LEMMA PicksKeepRequests ==
  ASSUME RequestsRight, Slots, NEW s \in Slot
  PROVE  /\ AddDownload(s) => RequestsRight'
         /\ PickCharges(s) \/ AddRequestRecord(s) => RequestsRight'
         /\ \A q \in Request : ImportDownload(s, q) => RequestsRight'
<1>1. ASSUME AddDownload(s) PROVE RequestsRight'
  <2>1. PICK d \in Download : moviepilot' = [moviepilot EXCEPT ![d] = "downloading"]
    BY <1>1 DEF AddDownload
  <2>2. UNCHANGED <<request, post, sync, torn>> /\ "downloading" \in Told
    BY <1>1 DEF AddDownload, Told
  <2> QED BY <2>1, <2>2, ProgressKeeps
<1>2. ASSUME PickCharges(s) \/ AddRequestRecord(s) PROVE RequestsRight'
  BY <1>2, RequestsStay DEF PickCharges, AddRequestRecord
<1>3. ASSUME NEW q \in Request, ImportDownload(s, q) PROVE RequestsRight'
  <2>1. slot[s] # None /\ slot[s].kind = "pick" /\ slot[s].phase = "import" /\ UNCHANGED <<moviepilot, post, sync>>
    BY <1>3 DEF ImportDownload
  <2>2. slot[s].download \in Download
    BY <2>1 DEF Slots, SlotRight
  <2>3. moviepilot \in [Download -> Told] /\ post \in [Request -> Download \union {None}]
    BY DEF RequestsRight
  <2>4. CASE Change(q, NewRow("approved", slot[s].download, "telegram"))
    <3>1. PICK r : r = NewRow("approved", slot[s].download, "telegram")
      OBVIOUS
    <3>2. r \in RequestRow /\ r.status = "approved"
      BY <2>2, <3>1, NewRowIs
    <3> QED BY <2>1, <2>3, <2>4, <3>1, <3>2, ChangeKeeps
  <2>5. CASE UNCHANGED <<request, torn>>
    BY <2>1, <2>5, RequestsStay DEF requestVars
  <2> QED BY <1>3, <2>4, <2>5 DEF ImportDownload
<1> QED BY <1>1, <1>2, <1>3

LEMMA RequestNextKeeps ==
  ASSUME RequestsRight, RequestNext
  PROVE  RequestsRight'
<1>1. CASE \E q \in Request : CreateMyMediaRequest(q) \/ OpenCreateRequest(q) \/ CancelMyMediaRequest(q)
                              \/ UpdateMediaRequest(q) \/ SubmitPosts(q) \/ SubmitStores(q)
  <2>1. PICK q \in Request : Create(q) \/ Cancel(q) \/ UpdateMediaRequest(q) \/ SubmitPosts(q) \/ SubmitStores(q)
    BY <1>1 DEF CreateMyMediaRequest, OpenCreateRequest, CancelMyMediaRequest
  <2> QED BY <2>1, UsersRequestsKeep
<1>2. CASE \E d \in Download : Progress(d)
  <2>1. PICK d \in Download : Progress(d)
    BY <1>2
  <2>2. PICK s \in {"completed", "failed", "moved", "unmoved", "none"} : moviepilot' = [moviepilot EXCEPT ![d] = s]
    BY <2>1 DEF Progress
  <2>3. s \in Told /\ UNCHANGED <<request, post, sync, torn>>
    BY <2>1 DEF Progress, Told
  <2> QED BY <2>2, <2>3, ProgressKeeps
<1>3. CASE \E y \in Sync : SyncReads(y) \/ RowWrites(y) \/ SyncEnds(y) \/ \E d \in Download : RowReads(y, d)
  BY <1>3, JobKeeps
<1> QED BY <1>1, <1>2, <1>3 DEF RequestNext

-----------------------------------------------------------------------------
(* The books, and the theorems. *)

BooksRight == LedgerRight /\ RequestsRight

LEMMA LedgerBegins == LedgerInit => BooksRight
<1> SUFFICES ASSUME LedgerInit PROVE BooksRight
  OBVIOUS
<1>1. PICK lv \in FirstLevels : user = [u \in User |-> [iv |-> Start, us |-> 0, lv |-> lv[u], ch |-> FALSE, red |-> 0]]
  BY DEF LedgerInit
<1>2. lv \in [User -> Levels] /\ Start \in Int
  BY LedgerAssumption DEF Levels
<1>3. user \in [User -> UserRow]
  BY <1>1, <1>2 DEF UserRow
<1>4. due \in [User -> Int] /\ listed \subseteq User /\ WhitelistKept
  BY <1>2 DEF LedgerInit, WhitelistKept
<1>5. CoinsAddUp
  BY <1>1 DEF LedgerInit, CoinsAddUp
<1>6. Purses
  BY <1>3, <1>4, <1>5 DEF Purses
<1>7. Slots /\ Orders /\ product = None
  BY DEF LedgerInit, Slots, Orders
<1>8. Envelope
  BY DEF LedgerInit, NoRed, Envelope, RedRow
<1>9. LedgerRight
  BY <1>6, <1>7, <1>8 DEF LedgerRight
<1>10. RequestsRight
  <2>1. RequestInit
    BY DEF LedgerInit
  <2>2. request \in [Request -> RequestRow \union {None}] /\ moviepilot \in [Download -> Told]
        /\ post \in [Request -> Download \union {None}] /\ sync \in [Sync -> SyncRun \union {None}] /\ torn \subseteq Request
    BY <2>1 DEF RequestInit, Told
  <2> QED BY <2>1, <2>2 DEF RequestInit, RequestsRight, RunReads, CompletedIsFull, Exists
<1> QED BY <1>9, <1>10 DEF BooksRight

LEMMA BooksStay == BooksRight /\ UNCHANGED booksVars => BooksRight'
<1> SUFFICES ASSUME BooksRight, UNCHANGED booksVars PROVE BooksRight'
  OBVIOUS
<1>1. UNCHANGED requestVars /\ UNCHANGED <<user, product, order, red, slot, saved, due, stale, listed, demoted>>
  BY DEF booksVars, ledgerVars
<1>2. RequestsRight'
  BY <1>1, RequestsStay DEF BooksRight
<1>3. Purses' /\ Envelope'
  BY <1>1, PursesStay DEF BooksRight, LedgerRight, Envelope
<1>4. LedgerRight'
  BY <1>1, <1>3, Untouched DEF BooksRight, LedgerRight
<1> QED BY <1>2, <1>4 DEF BooksRight

LEMMA BooksNextKeeps == BooksRight /\ [LedgerNext]_booksVars => BooksRight'
<1> SUFFICES ASSUME BooksRight, [LedgerNext]_booksVars PROVE BooksRight'
  OBVIOUS
<1>1. LedgerRight /\ RequestsRight /\ Slots
  BY DEF BooksRight, LedgerRight
<1>2. CASE LedgerStep /\ UNCHANGED requestVars
  BY <1>1, <1>2, LedgerStepKeeps, RequestsStay DEF BooksRight
<1>3. CASE PickStep
  <2>1. PICK s \in Slot : AddDownload(s) \/ PickCharges(s) \/ AddRequestRecord(s)
                          \/ \E q \in Request : ImportDownload(s, q)
    BY <1>3 DEF PickStep
  <2> QED BY <1>1, <2>1, PicksKeep, PicksKeepRequests DEF BooksRight
<1>4. CASE RequestNext /\ UNCHANGED ledgerVars
  <2>1. RequestsRight'
    BY <1>1, <1>4, RequestNextKeeps
  <2>2. UNCHANGED <<user, product, order, red, slot, saved, due, stale, listed, demoted>>
    BY <1>4 DEF ledgerVars
  <2>3. Purses'
    BY <1>1, <2>2, PursesStay DEF LedgerRight
  <2>4. LedgerRight'
    BY <1>1, <2>2, <2>3, Untouched DEF LedgerRight
  <2> QED BY <2>1, <2>4 DEF BooksRight
<1>5. CASE UNCHANGED booksVars
  BY <1>5, BooksStay
<1> QED BY <1>2, <1>3, <1>4, <1>5 DEF LedgerNext

\* In the entries of a row in order, "credited" stands once, and once it is credited.
LEMMA CreditedOnce ==
  ASSUME NEW status \in {"pending", "credited", "canceled", "refunded"}, NEW e \in EntriesOf(status)
  PROVE  /\ status = "credited" => 2 \in DOMAIN e /\ e[2] = "credited"
         /\ \A k \in DOMAIN e : e[k] = "credited" => k = 2
<1>1. CASE status = "pending"
  BY <1>1 DEF EntriesOf
<1>2. CASE status = "credited"
  BY <1>2 DEF EntriesOf
<1>3. CASE status = "canceled"
  BY <1>3 DEF EntriesOf
<1>4. CASE status = "refunded"
  BY <1>4 DEF EntriesOf
<1> QED BY <1>1, <1>2, <1>3, <1>4

LEMMA OrdersAgree == Orders => BooksAgree
<1> SUFFICES ASSUME Orders PROVE BooksAgree
  OBVIOUS
<1>1. ASSUME NEW o \in Order, order[o] # None
      PROVE  /\ order[o].entries \in EntriesOf(order[o].status)
             /\ order[o].status \in {"pending", "credited", "canceled", "refunded"}
  BY <1>1 DEF Orders, OrderRight, OrderRow
<1>2. ASSUME NEW o \in Order, order[o] # None
      PROVE  /\ order[o].status = "credited" => Credits(o) # {}
             /\ \A j, k \in Credits(o) : j = k
  BY <1>1, <1>2, CreditedOnce DEF Credits
<1>3. Healthy
  BY <1>2 DEF Healthy
<1>4. \A o \in Order : order[o] # None =>
        \A p \in Order \ {o} : order[p] # None => order[p].key = None \/ order[p].key # order[o].key
  BY DEF Orders
<1> QED BY <1>1, <1>3, <1>4 DEF BooksAgree

\* The step of RecordedMeansCharged.
Recorded ==
  \A q \in Request :
     ~Exists(q) /\ request'[q] # None /\ request'[q].source = "telegram" => <<"adjust", request'[q].download>> \in saved

\* Changing one row records no other.
LEMMA OneRecorded ==
  ASSUME RequestsRight, NEW q \in Request, NEW r \in RequestRow, request' = [request EXCEPT ![q] = r],
         Exists(q) \/ r.source # "telegram" \/ <<"adjust", r.download>> \in saved
  PROVE  Recorded
<1>1. request'[q] = r /\ \A p \in Request : p # q => request'[p] = request[p]
  BY DEF RequestsRight
<1> QED BY <1>1 DEF Recorded, Exists

LEMMA RecordedStep == BooksRight /\ [LedgerNext]_booksVars => Recorded
<1> SUFFICES ASSUME BooksRight, [LedgerNext]_booksVars PROVE Recorded
  OBVIOUS
<1> USE DEF BooksRight
<1>1. ASSUME UNCHANGED request PROVE Recorded
  BY <1>1 DEF Recorded, Exists
<1>2. ASSUME NEW s \in Slot, NEW q \in Request, ImportDownload(s, q) PROVE Recorded
  <2>1. slot[s] # None /\ slot[s].kind = "pick" /\ slot[s].phase = "import"
    BY <1>2 DEF ImportDownload
  <2>2. slot[s].download \in Download /\ <<"adjust", slot[s].download>> \in saved
    BY <2>1 DEF LedgerRight, Slots, SlotRight
  <2>3. CASE Change(q, NewRow("approved", slot[s].download, "telegram"))
    <3>1. PICK r : r = NewRow("approved", slot[s].download, "telegram")
      OBVIOUS
    <3>2. r \in RequestRow /\ r.download = slot[s].download
      BY <2>2, <3>1, NewRowIs
    <3> QED BY <2>2, <2>3, <3>1, <3>2, OneRecorded DEF Change
  <2>4. CASE UNCHANGED <<request, torn>>
    BY <1>1, <2>4
  <2> QED BY <1>2, <2>3, <2>4 DEF ImportDownload
<1>3. ASSUME NEW q \in Request, Create(q) PROVE Recorded
  <2>1. PICK r : r = NewRow("submitted", None, "web")
    OBVIOUS
  <2>2. r \in RequestRow /\ r.source # "telegram"
    BY <2>1, NewRowIs
  <2> QED BY <1>3, <2>1, <2>2, OneRecorded DEF Create, Change
<1>4. ASSUME NEW q \in Request, Exists(q), \A p \in Request : p # q => request'[p] = request[p] PROVE Recorded
  BY <1>4 DEF Recorded, Exists
<1>5. ASSUME NEW q \in Request, Exists(q), NEW r, Change(q, r) PROVE Recorded
  <2>1. \A p \in Request : p # q => request'[p] = request[p]
    BY <1>5 DEF Change, RequestsRight
  <2> QED BY <1>4, <1>5, <2>1
<1>6. ASSUME NEW q \in Request, Cancel(q) \/ UpdateMediaRequest(q) \/ SubmitPosts(q) \/ SubmitStores(q) PROVE Recorded
  <2>1. CASE Cancel(q)
    BY <1>5, <2>1 DEF Cancel
  <2>2. CASE UpdateMediaRequest(q)
    <3>1. PICK status \in {"submitted", "approved", "downloading", "completed", "rejected", "canceled"},
               d \in Download \union {None} : Update(q, status, d)
      BY <2>2 DEF UpdateMediaRequest
    <3> QED BY <1>5, <3>1 DEF Update
  <2>3. CASE SubmitPosts(q)
    BY <1>1, <2>3 DEF SubmitPosts
  <2>4. CASE SubmitStores(q)
    <3>1. Exists(q)
      BY <2>4 DEF SubmitStores, RequestsRight
    <3>2. CASE UNCHANGED request
      BY <1>1, <3>2
    <3> QED BY <1>1, <1>5, <2>4, <3>1 DEF SubmitStores
  <2> QED BY <1>6, <2>1, <2>2, <2>3, <2>4
<1>7. ASSUME NEW y \in Sync, RowWrites(y) PROVE Recorded
  <2>1. sync[y] # None /\ sync[y].row # None
    BY <1>7 DEF RowWrites
  <2>2. Exists(sync[y].row) /\ sync[y].row \in Request
    BY <2>1 DEF RequestsRight, RunReads, SyncRun
  <2>3. \A p \in Request : p # sync[y].row => request'[p] = request[p]
    BY <1>7 DEF RowWrites, RequestsRight
  <2> QED BY <1>4, <2>2, <2>3
<1>8. CASE LedgerStep /\ UNCHANGED requestVars
  BY <1>1, <1>8 DEF requestVars
<1>9. CASE PickStep
  <2>1. PICK s \in Slot : AddDownload(s) \/ PickCharges(s) \/ AddRequestRecord(s)
                          \/ \E q \in Request : ImportDownload(s, q)
    BY <1>9 DEF PickStep
  <2>2. CASE AddDownload(s)
    BY <1>1, <2>2 DEF AddDownload
  <2>3. CASE PickCharges(s) \/ AddRequestRecord(s)
    BY <1>1, <2>3 DEF PickCharges, AddRequestRecord, requestVars
  <2> QED BY <1>2, <2>1, <2>2, <2>3
<1>10. CASE RequestNext
  <2>1. CASE \E q \in Request : CreateMyMediaRequest(q) \/ OpenCreateRequest(q) \/ CancelMyMediaRequest(q)
                                \/ UpdateMediaRequest(q) \/ SubmitPosts(q) \/ SubmitStores(q)
    BY <1>3, <1>6, <2>1 DEF CreateMyMediaRequest, OpenCreateRequest, CancelMyMediaRequest
  <2>2. CASE \E d \in Download : Progress(d)
    BY <1>1, <2>2 DEF Progress
  <2>3. CASE \E y \in Sync : SyncReads(y) \/ RowWrites(y) \/ SyncEnds(y) \/ \E d \in Download : RowReads(y, d)
    <3>1. PICK y \in Sync : RowWrites(y) \/ UNCHANGED request
      BY <2>3 DEF SyncReads, SyncEnds, RowReads
    <3> QED BY <1>1, <1>7, <3>1
  <2> QED BY <1>10, <2>1, <2>2, <2>3 DEF RequestNext
<1>11. CASE UNCHANGED booksVars
  BY <1>1, <1>11 DEF booksVars, requestVars
<1> QED BY <1>8, <1>9, <1>10, <1>11 DEF LedgerNext

-----------------------------------------------------------------------------
(* Sums over finite sets. *)

\* The sum of a function over a set.
Total(f, S) == MapThenSumSet(LAMBDA x : f[x], S)

\* One more step of it.
Picked(t) == CHOOSE x \in t : TRUE
Summed(g, f, S) == g = [t \in S |-> IF t = {} THEN 0 ELSE f[Picked(t)] + g[t \ {Picked(t)}]]

LEMMA TotalIs ==
  ASSUME NEW S, NEW f
  PROVE  Total(f, S) = (CHOOSE g : Summed(g, f, SUBSET S))[S]
  BY DEF Total, Summed, Picked, MapThenSumSet, MapThenFoldSet

\* What holds of the empty set, and of a set if of the set without one, holds of all.
LEMMA SetInduction ==
  ASSUME NEW S, IsFiniteSet(S), NEW Good, {} \in Good,
         \A t \in SUBSET S : t # {} /\ t \ {Picked(t)} \in Good => t \in Good
  PROVE  \A t \in SUBSET S : t \in Good
<1> SUFFICES ASSUME NEW t0 \in SUBSET S, t0 \notin Good PROVE FALSE
  OBVIOUS
<1> DEFINE Bad == {n \in Nat : \E t \in SUBSET S : t \notin Good /\ Cardinality(t) = n}
<1>1. \A t \in SUBSET S : IsFiniteSet(t) /\ Cardinality(t) \in Nat
  BY FS_Subset, FS_CardinalityType
<1>2. Bad # {} /\ Bad \subseteq Nat
  BY <1>1
<1> HIDE DEF Bad
<1>3. PICK n \in Bad : \A m \in Bad : ~(<<m, n>> \in OpToRel(<, Nat))
  BY <1>2, NatLessThanWellFounded, WFMin
<1>4. \A m \in Bad : ~(m < n)
  BY <1>2, <1>3 DEF OpToRel
<1>5. PICK t \in SUBSET S : t \notin Good /\ Cardinality(t) = n
  BY <1>3 DEF Bad
<1>6. t # {}
  BY <1>5
<1>7. Picked(t) \in t
  BY <1>6 DEF Picked
<1>8. t \ {Picked(t)} \in SUBSET S /\ t \ {Picked(t)} \notin Good
  BY <1>5, <1>6
<1>9. Cardinality(t \ {Picked(t)}) = n - 1 /\ n \in Nat /\ Cardinality(t \ {Picked(t)}) \in Nat
  BY <1>1, <1>5, <1>7, <1>8, FS_RemoveElement
<1>10. n - 1 \in Bad
  BY <1>8, <1>9 DEF Bad
<1> QED BY <1>4, <1>9, <1>10

LEMMA TotalExists ==
  ASSUME NEW S, IsFiniteSet(S), NEW f
  PROVE  \E g : Summed(g, f, SUBSET S)
<1> DEFINE U(n) == {t \in SUBSET S : Cardinality(t) < n}
           Bad == {n \in Nat : ~\E g : Summed(g, f, U(n))}
<1>1. \A t \in SUBSET S : IsFiniteSet(t) /\ Cardinality(t) \in Nat
  BY FS_Subset, FS_CardinalityType
<1>2. ASSUME Bad # {} PROVE FALSE
  <2>1. PICK n \in Bad : \A m \in Bad : ~(<<m, n>> \in OpToRel(<, Nat))
    <3>1. Bad \subseteq Nat
      OBVIOUS
    <3> HIDE DEF Bad
    <3> QED BY <1>2, <3>1, NatLessThanWellFounded, WFMin
  <2>2. n \in Nat /\ ~\E g : Summed(g, f, U(n))
    OBVIOUS
  <2>3. n # 0
    <3>1. Summed([t \in {} |-> 0], f, {})
      BY DEF Summed
    <3>2. U(0) = {}
      BY <1>1
    <3> QED BY <2>2, <3>1, <3>2
  <2>4. n - 1 \in Nat /\ n - 1 \notin Bad
    <3>1. \A m \in Nat : m \in Bad => ~(m < n)
      <4> HIDE DEF Bad
      <4> QED BY <2>1, <2>2 DEF OpToRel
    <3> HIDE DEF Bad
    <3> QED BY <2>2, <2>3, <3>1
  <2>5. PICK g : Summed(g, f, U(n - 1))
    BY <2>4
  <2> DEFINE h == [t \in U(n) |-> IF t = {} THEN 0 ELSE f[Picked(t)] + g[t \ {Picked(t)}]]
  <2>6. ASSUME NEW t \in U(n), t # {} PROVE t \ {Picked(t)} \in U(n - 1)
    <3>1. Picked(t) \in t
      BY <2>6 DEF Picked
    <3>2. Cardinality(t \ {Picked(t)}) = Cardinality(t) - 1
      BY <1>1, <3>1, FS_RemoveElement
    <3> QED BY <1>1, <2>2, <3>2
  <2>7. U(n - 1) \subseteq U(n)
    BY <1>1, <2>2
  <2>8. \A t \in U(n - 1) : h[t] = g[t]
    <3>1. g = [t \in U(n - 1) |-> IF t = {} THEN 0 ELSE f[Picked(t)] + g[t \ {Picked(t)}]]
      BY <2>5 DEF Summed
    <3> HIDE DEF U
    <3> QED BY <2>7, <3>1
  <2>9. Summed(h, f, U(n))
    <3> HIDE DEF U
    <3>1. \A t \in U(n) : t # {} => h[t \ {Picked(t)}] = g[t \ {Picked(t)}]
      BY <2>6, <2>8
    <3> QED BY <3>1 DEF Summed
  <2> QED BY <2>2, <2>9
<1>3. Cardinality(S) + 1 \in Nat /\ Cardinality(S) + 1 \notin Bad
  <2>1. S \in SUBSET S
    OBVIOUS
  <2> HIDE DEF Bad
  <2> QED BY <1>1, <1>2, <2>1
<1>4. U(Cardinality(S) + 1) = SUBSET S
  <2>1. \A t \in SUBSET S : Cardinality(t) <= Cardinality(S)
    BY FS_Subset
  <2> QED BY <1>1, <1>3, <2>1
<1> QED BY <1>3, <1>4

AddsUp(g, f, S) ==
  /\ g[{}] = 0
  /\ \A t \in SUBSET S : t # {} => g[t] = f[Picked(t)] + g[t \ {Picked(t)}]

\* The sum is an integer; it moves with its terms; it grows with them.
LEMMA TotalIter ==
  ASSUME NEW S, IsFiniteSet(S), NEW f
  PROVE  \E g : Total(f, S) = g[S] /\ AddsUp(g, f, S)
<1>1. PICK g : g = CHOOSE h : Summed(h, f, SUBSET S)
  OBVIOUS
<1>2. Summed(g, f, SUBSET S)
  BY <1>1, TotalExists
<1>3. Total(f, S) = g[S]
  BY <1>1, TotalIs
<1>4. g[{}] = 0 /\ \A t \in SUBSET S : t # {} => g[t] = f[Picked(t)] + g[t \ {Picked(t)}]
  <2>1. {} \in SUBSET S
    OBVIOUS
  <2>2. g = [t \in SUBSET S |-> IF t = {} THEN 0 ELSE f[Picked(t)] + g[t \ {Picked(t)}]]
    BY <1>2 DEF Summed
  <2> QED BY <2>1, <2>2
<1> QED BY <1>3, <1>4 DEF AddsUp

\* There is one sum.
LEMMA SumsAgree ==
  ASSUME NEW S, IsFiniteSet(S), NEW f, NEW k, AddsUp(k, f, S)
  PROVE  k[S] = Total(f, S)
<1>1. PICK g : Total(f, S) = g[S] /\ AddsUp(g, f, S)
  BY TotalIter
<1> DEFINE Good == {t \in SUBSET S : k[t] = g[t]}
<1>2. {} \in Good
  BY <1>1 DEF AddsUp
<1>3. ASSUME NEW t \in SUBSET S, t # {}, t \ {Picked(t)} \in Good PROVE t \in Good
  <2>1. g[t] = f[Picked(t)] + g[t \ {Picked(t)}] /\ k[t] = f[Picked(t)] + k[t \ {Picked(t)}]
    BY <1>1, <1>3 DEF AddsUp
  <2> QED BY <1>3, <2>1
<1>4. S \in Good
  <2> HIDE DEF Good
  <2> QED BY <1>2, <1>3, SetInduction
<1> QED BY <1>1, <1>4

LEMMA TotalType ==
  ASSUME NEW S, IsFiniteSet(S), NEW f, \A x \in S : f[x] \in Int
  PROVE  Total(f, S) \in Int
<1>1. PICK g : Total(f, S) = g[S] /\ AddsUp(g, f, S)
  BY TotalIter
<1> DEFINE Good == {t \in SUBSET S : g[t] \in Int}
<1>2. {} \in Good
  BY <1>1 DEF AddsUp
<1>3. ASSUME NEW t \in SUBSET S, t # {}, t \ {Picked(t)} \in Good PROVE t \in Good
  <2>1. Picked(t) \in S
    BY <1>3 DEF Picked
  <2>2. g[t] = f[Picked(t)] + g[t \ {Picked(t)}]
    BY <1>1, <1>3 DEF AddsUp
  <2> QED BY <1>3, <2>1, <2>2
<1>4. S \in Good
  <2> HIDE DEF Good
  <2> QED BY <1>2, <1>3, SetInduction
<1> QED BY <1>1, <1>4

LEMMA TotalOfMore ==
  ASSUME NEW S, IsFiniteSet(S), NEW f, NEW h, \A x \in S : f[x] \in Int /\ h[x] \in Int /\ f[x] <= h[x]
  PROVE  Total(f, S) <= Total(h, S)
<1>1. PICK g : Total(f, S) = g[S] /\ AddsUp(g, f, S)
  BY TotalIter
<1>2. PICK k : Total(h, S) = k[S] /\ AddsUp(k, h, S)
  BY TotalIter
<1> DEFINE Good == {t \in SUBSET S : g[t] \in Int /\ k[t] \in Int /\ g[t] <= k[t]}
<1>3. {} \in Good
  BY <1>1, <1>2 DEF AddsUp
<1>4. ASSUME NEW t \in SUBSET S, t # {}, t \ {Picked(t)} \in Good PROVE t \in Good
  <2>1. Picked(t) \in S
    BY <1>4 DEF Picked
  <2>2. g[t] = f[Picked(t)] + g[t \ {Picked(t)}] /\ k[t] = h[Picked(t)] + k[t \ {Picked(t)}]
    BY <1>1, <1>2, <1>4 DEF AddsUp
  <2> QED BY <1>4, <2>1, <2>2
<1>5. S \in Good
  <2> HIDE DEF Good
  <2> QED BY <1>3, <1>4, SetInduction
<1> QED BY <1>1, <1>2, <1>5

\* One term changes.
LEMMA TotalOfOther ==
  ASSUME NEW S, IsFiniteSet(S), NEW f, NEW h, NEW u \in S,
         \A x \in S : f[x] \in Int /\ h[x] \in Int /\ (x # u => f[x] = h[x])
  PROVE  Total(h, S) = Total(f, S) + (h[u] - f[u])
<1>1. PICK g : Total(f, S) = g[S] /\ AddsUp(g, f, S)
  BY TotalIter
<1>2. PICK k : Total(h, S) = k[S] /\ AddsUp(k, h, S)
  BY TotalIter
<1> DEFINE Good == {t \in SUBSET S : /\ g[t] \in Int /\ k[t] \in Int
                                     /\ k[t] = g[t] + (IF u \in t THEN h[u] - f[u] ELSE 0)}
<1>3. {} \in Good
  BY <1>1, <1>2 DEF AddsUp
<1>4. ASSUME NEW t \in SUBSET S, t # {}, t \ {Picked(t)} \in Good PROVE t \in Good
  <2>1. Picked(t) \in t
    BY <1>4 DEF Picked
  <2>2. g[t] = f[Picked(t)] + g[t \ {Picked(t)}] /\ k[t] = h[Picked(t)] + k[t \ {Picked(t)}]
    BY <1>1, <1>2, <1>4 DEF AddsUp
  <2>3. CASE Picked(t) = u
    BY <1>4, <2>1, <2>2, <2>3
  <2>4. CASE Picked(t) # u
    BY <1>4, <2>1, <2>2, <2>4
  <2> QED BY <2>3, <2>4
<1>5. S \in Good
  <2> HIDE DEF Good
  <2> QED BY <1>3, <1>4, SetInduction
<1> QED BY <1>1, <1>2, <1>5

LEMMA TotalOfNone ==
  ASSUME NEW S, IsFiniteSet(S), NEW f, \A x \in S : f[x] = 0
  PROVE  Total(f, S) = 0
<1>1. PICK g : Total(f, S) = g[S] /\ AddsUp(g, f, S)
  BY TotalIter
<1> DEFINE Good == {t \in SUBSET S : g[t] = 0}
<1>2. {} \in Good
  BY <1>1 DEF AddsUp
<1>3. ASSUME NEW t \in SUBSET S, t # {}, t \ {Picked(t)} \in Good PROVE t \in Good
  <2>1. Picked(t) \in S
    BY <1>3 DEF Picked
  <2>2. g[t] = f[Picked(t)] + g[t \ {Picked(t)}]
    BY <1>1, <1>3 DEF AddsUp
  <2> QED BY <1>3, <2>1, <2>2
<1>4. S \in Good
  <2> HIDE DEF Good
  <2> QED BY <1>2, <1>3, SetInduction
<1> QED BY <1>1, <1>4

-----------------------------------------------------------------------------
(* The red envelope. Every user has a share, none until it is drawn: all      *)
(* shares and the rest are no more than the money, and nobody holds, or has   *)
(* read and may write again, more than his share.                             *)

ReadKinds == {"now", "later", "send", "private", "share"}

\* What a reader saw of shares, and what it is going to add to them.
ReadHeld(j, share) ==
    /\ \A u \in DOMAIN j.seen : j.seen[u].red <= share[u]
    /\ j.kind \in {"now", "later", "send"} => j.gain = 0

\* Who draws from the envelope e, and has not written yet.
GrabRight(j, e) ==
    /\ j.kind \in {"private", "share"} => j.gain = j.delta /\ j.gain \in Nat
    /\ j.kind = "private" =>
         e.kind = "private" /\ j.gain = e.money /\ \A u \in DOMAIN j.seen : u = e.target /\ j.seen[u].red <= 0
    /\ j.kind = "share" =>
         /\ e.kind \in {"random", "equal"} /\ e.left > 0 /\ j.gain <= e.rest
         /\ e.kind = "equal" => j.gain = e.money \div e.members
         /\ \A u \in DOMAIN j.seen : u \notin e.got

\* What is drawn and what is left, for an envelope e.
Drawn(share, e) ==
    /\ share \in [User -> Nat]
    /\ \A u \in User \ e.got : share[u] = 0
    /\ e.kind = "private" =>
         /\ \A u \in User : IF u = e.target THEN share[u] <= e.money ELSE share[u] = 0
         /\ e.target \notin e.got => e.rest = e.money
    /\ e.kind # "private" => Total(share, User) + e.rest <= e.money /\ e.rest >= 0
    /\ e.kind = "equal" => e.members > 0 /\ e.rest >= e.left * (e.money \div e.members)
    /\ e.on => e.kind # "none"
    /\ e.kind = "none" => e.got = {}

\* Nobody holds more than he has drawn, nor will.
Covered(share) ==
    /\ \A u \in User : user[u].red <= share[u]
    /\ \A s \in Slot : slot[s] # None /\ slot[s].kind \in ReadKinds =>
         ReadHeld(slot[s], share) /\ GrabRight(slot[s], red)

\* The bot does one thing at a time.
Apart == \A s, t \in Slot :
    slot[s] # None /\ slot[t] # None /\ slot[s].kind \in AtOnce /\ slot[t].kind \in AtOnce => s = t

EnvelopeRight == Apart /\ \E share \in [User -> Nat] : Drawn(share, red) /\ Covered(share)

\* Nobody reads, nobody draws, and nobody's share grows.
LEMMA HeldStays ==
  ASSUME EnvelopeRight, red' = red,
         \A u \in User : user'[u].red = user[u].red \/ user'[u].red = 0,
         \A s \in Slot : slot'[s] = slot[s] \/ slot'[s] = None \/ slot'[s].kind \notin ReadKinds
  PROVE  EnvelopeRight'
<1>1. PICK share \in [User -> Nat] : Drawn(share, red) /\ Covered(share)
  BY DEF EnvelopeRight
<1>2. Covered(share)'
  <2>1. ASSUME NEW u \in User PROVE user'[u].red <= share[u]
    BY <1>1 DEF Covered
  <2>2. ASSUME NEW s \in Slot, slot'[s] # None, slot'[s].kind \in ReadKinds
        PROVE  ReadHeld(slot'[s], share) /\ GrabRight(slot'[s], red')
    BY <1>1, <2>2 DEF Covered
  <2> QED BY <2>1, <2>2 DEF Covered
<1>3. Apart'
  BY DEF EnvelopeRight, Apart, AtOnce, ReadKinds
<1> QED BY <1>1, <1>2, <1>3 DEF EnvelopeRight

\* Changes of other columns leave the ghost of the envelope.
LEMMA RedColumns ==
  ASSUME NEW r \in UserRow, NEW n
  PROVE  /\ [r EXCEPT !.iv = @ + n].red = r.red
         /\ [r EXCEPT !.us = @ + n].red = r.red
         /\ [r EXCEPT !.lv = n].red = r.red
         /\ [[r EXCEPT !.iv = @ + n] EXCEPT !.ch = TRUE].red = r.red
         /\ [[r EXCEPT !.iv = @ + n] EXCEPT !.lv = "a"].red = r.red
  BY DEF UserRow

LEMMA RedOfOne ==
  ASSUME Purses, NEW u \in User, NEW r, user' = [user EXCEPT ![u] = r], r.red = user[u].red
  PROVE  \A v \in User : user'[v].red = user[v].red
BY DEF Purses

LEMMA TransferRed ==
  ASSUME Purses, NEW scope, NEW key, NEW u \in User, NEW n, NEW r, Transfer(scope, key, u, n, r), r.red = user[u].red
  PROVE  \A v \in User : user'[v].red = user[v].red
BY RedOfOne DEF Transfer

LEMMA AdjustRed ==
  ASSUME Purses, NEW u \in User, NEW n, NEW key, NEW negative,
         AdjustCoins(u, n, key, negative) \/ AdjustDays(u, n, key, negative)
  PROVE  \A v \in User : user'[v].red = user[v].red
<1>1. user[u] \in UserRow
  BY DEF Purses
<1>2. CASE AdjustCoins(u, n, key, negative)
  <2>1. Transfer("adjust", key, u, n, Paid(u, n)) /\ Paid(u, n).red = user[u].red
    BY <1>1, <1>2, RedColumns DEF AdjustCoins, Paid
  <2> QED BY <2>1, TransferRed
<1>3. CASE AdjustDays(u, n, key, negative)
  <2>1. PICK r : r = [user[u] EXCEPT !.us = @ + n]
    OBVIOUS
  <2>2. Transfer("adjust days", key, u, 0, r) /\ r.red = user[u].red
    BY <1>1, <1>3, <2>1, RedColumns DEF AdjustDays
  <2> QED BY <2>2, TransferRed
<1> QED BY <1>2, <1>3

LEMMA ServicesHeld ==
  ASSUME Purses, EnvelopeRight, NEW u \in User
  PROVE  /\ CoinsUser(u) => EnvelopeRight'
         /\ ScoreUser(u) => EnvelopeRight'
         /\ AdjustPoints(u) => EnvelopeRight'
         /\ UserInCheckin(u) => EnvelopeRight'
         /\ DoStoreWhitelist(u) => EnvelopeRight'
         /\ \A c \in Code : DoStoreInvite(u, c) => EnvelopeRight'
<1>1. user[u] \in UserRow
  BY DEF Purses
<1>2. ASSUME UNCHANGED <<red, slot>>, \A v \in User : user'[v].red = user[v].red PROVE EnvelopeRight'
  BY <1>2, HeldStays
<1>3. CoinsUser(u) => EnvelopeRight'
  BY <1>2, AdjustRed DEF CoinsUser, Others
<1>4. ScoreUser(u) => EnvelopeRight'
  BY <1>2, AdjustRed DEF ScoreUser, Others
<1>5. AdjustPoints(u) => EnvelopeRight'
  BY <1>2, AdjustRed DEF AdjustPoints, Others
<1>6. ASSUME UserInCheckin(u) PROVE EnvelopeRight'
  <2>1. PICK r : r = [[user[u] EXCEPT !.iv = @ + Reward] EXCEPT !.ch = TRUE]
    OBVIOUS
  <2>2. Transfer("check in", None, u, Reward, r) /\ Others /\ r.red = user[u].red
    BY <1>1, <1>6, <2>1, RedColumns DEF UserInCheckin, CheckIn, Paid
  <2> QED BY <1>2, <2>2, TransferRed DEF Others
<1>7. ASSUME DoStoreWhitelist(u) PROVE EnvelopeRight'
  <2>1. PICK n : n = -WhitelistCost
    OBVIOUS
  <2>2. PICK r : r = [[user[u] EXCEPT !.iv = @ + n] EXCEPT !.lv = "a"]
    OBVIOUS
  <2>3. PICK k \in Key : PurchaseLevel(u, k)
    BY <1>7 DEF DoStoreWhitelist
  <2>4. Transfer("level", k, u, n, r) /\ r.red = user[u].red
    BY <1>1, <2>1, <2>2, <2>3, RedColumns DEF PurchaseLevel, Paid
  <2> QED BY <1>2, <1>7, <2>4, TransferRed DEF DoStoreWhitelist
<1>8. ASSUME NEW c \in Code, DoStoreInvite(u, c) PROVE EnvelopeRight'
  <2>1. PICK n : n = -InviteCost
    OBVIOUS
  <2>2. PICK k \in Key : PurchaseCodes(u, c, k)
    BY <1>8 DEF DoStoreInvite
  <2>3. Transfer("codes", k, u, n, Paid(u, n)) /\ Paid(u, n).red = user[u].red
    BY <1>1, <2>1, <2>2, RedColumns DEF PurchaseCodes, Paid
  <2> QED BY <1>2, <1>8, <2>3, TransferRed DEF DoStoreInvite
<1> QED BY <1>3, <1>4, <1>5, <1>6, <1>7, <1>8

LEMMA CodesHeld ==
  ASSUME Purses, EnvelopeRight, NEW c \in Code
  PROVE  /\ GenerateCodes(c) \/ CrLink(c) \/ Revoke(c) \/ DeleteUnusedCodes(c) => EnvelopeRight'
         /\ \A u \in User : RgsCode(c, u) => EnvelopeRight'
<1>1. GenerateCodes(c) \/ CrLink(c) \/ Revoke(c) \/ DeleteUnusedCodes(c) => EnvelopeRight'
  BY HeldStays DEF GenerateCodes, CrLink, Revoke, DeleteUnusedCodes, CodesOnly
<1>2. ASSUME NEW u \in User, NEW kind, NEW r, Redeem(c, u, kind, r), r.red = user[u].red PROVE EnvelopeRight'
  <2>1. \A v \in User : user'[v].red = user[v].red
    BY <1>2, RedOfOne DEF Redeem
  <2> QED BY <1>2, <2>1, HeldStays DEF Redeem
<1>3. ASSUME NEW u \in User, RgsCode(c, u) PROVE EnvelopeRight'
  <2>1. user[u] \in UserRow
    BY DEF Purses
  <2>2. CASE RedeemWhitelist(c, u)
    <3>1. PICK r : r = [user[u] EXCEPT !.lv = "a"]
      OBVIOUS
    <3>2. Redeem(c, u, "whitelist", r) /\ r.red = user[u].red
      BY <2>1, <2>2, <3>1, RedColumns DEF RedeemWhitelist
    <3> QED BY <1>2, <3>2
  <2>3. CASE RedeemRegistration(c, u)
    <3>1. PICK r : r = [user[u] EXCEPT !.us = @ + 1]
      OBVIOUS
    <3>2. Redeem(c, u, "registration", r) /\ r.red = user[u].red
      BY <2>1, <2>3, <3>1, RedColumns DEF RedeemRegistration
    <3> QED BY <1>2, <3>2
  <2>4. CASE RedeemRenewal(c, u)
    <3>1. PICK tardy \in BOOLEAN : Redeem(c, u, "renewal", [user[u] EXCEPT !.lv = Renewed(@, tardy)])
      BY <2>4 DEF RedeemRenewal
    <3>2. PICK lv : lv = Renewed(user[u].lv, tardy)
      OBVIOUS
    <3>3. PICK r : r = [user[u] EXCEPT !.lv = lv]
      OBVIOUS
    <3>4. Redeem(c, u, "renewal", r) /\ r.red = user[u].red
      BY <2>1, <3>1, <3>2, <3>3, RedColumns
    <3> QED BY <1>2, <3>4
  <2> QED BY <1>3, <2>2, <2>3, <2>4 DEF RgsCode
<1> QED BY <1>1, <1>3

LEMMA OrdersHeld ==
  ASSUME Purses, Slots, Orders, EnvelopeRight, NEW o \in Order
  PROVE  /\ DecideOrder(o) => EnvelopeRight'
         /\ CancelOrder(o) => EnvelopeRight'
         /\ RefundOrder(o) => EnvelopeRight'
         /\ \A s \in Slot : CreateOrderCommits(s, o) => EnvelopeRight'
<1>1. ASSUME order[o] # None PROVE order[o].user \in User
  BY <1>1 DEF Orders, OrderRight, OrderRow
<1>2. ASSUME order[o] # None, NEW n, Book(order[o].user, n), BooksOnly PROVE EnvelopeRight'
  <2>1. PICK u : u = order[o].user
    OBVIOUS
  <2>2. u \in User /\ user[u] \in UserRow /\ user' = [user EXCEPT ![u] = Paid(u, n)]
    BY <1>1, <1>2, <2>1 DEF Purses, Book
  <2>3. Paid(u, n).red = user[u].red
    BY <2>2, RedColumns DEF Paid
  <2>4. \A v \in User : user'[v].red = user[v].red
    BY <2>2, <2>3, RedOfOne
  <2> QED BY <1>2, <2>4, HeldStays DEF BooksOnly
<1>3. DecideOrder(o) => EnvelopeRight'
  BY <1>2, HeldStays DEF DecideOrder, Approve, Reject, BooksOnly
<1>4. CancelOrder(o) => EnvelopeRight'
  BY HeldStays DEF CancelOrder, BooksOnly
<1>5. RefundOrder(o) => EnvelopeRight'
  BY <1>2 DEF RefundOrder, Refund
<1>6. ASSUME NEW s \in Slot, CreateOrderCommits(s, o) PROVE EnvelopeRight'
  <2>1. slot' = [slot EXCEPT ![s] = None] /\ UNCHANGED <<user, red>>
    BY <1>6 DEF CreateOrderCommits, OrdersOnly
  <2>2. \A t \in Slot : slot'[t] = slot[t] \/ slot'[t] = None
    BY <2>1 DEF Slots
  <2> QED BY <2>1, <2>2, HeldStays
<1> QED BY <1>3, <1>4, <1>5, <1>6

LEMMA SlotOnlyHeld ==
  ASSUME Slots, EnvelopeRight, NEW s \in Slot, NEW next, slot' = [slot EXCEPT ![s] = next],
         next = None \/ next.kind \notin ReadKinds, UNCHANGED <<user, red>>
  PROVE  EnvelopeRight'
<1>1. \A t \in Slot : slot'[t] = slot[t] \/ slot'[t] = next
  BY DEF Slots
<1> QED BY <1>1, HeldStays

\* What is quiet besides: products, orders begun, downloads, those who never answer.
LEMMA QuietHeld ==
  ASSUME Purses, Slots, EnvelopeRight
  PROVE  /\ CreateProduct \/ UpdateProduct => EnvelopeRight'
         /\ \A s \in Slot, u \in User : CreateMyRechargeOrder(s, u) \/ PickReads(s, u) => EnvelopeRight'
         /\ \A s \in Slot : NeverAnswers(s) \/ AddDownload(s) \/ PickCharges(s) => EnvelopeRight'
         /\ \A s \in Slot : AddRequestRecord(s) => EnvelopeRight'
         /\ \A s \in Slot, q \in Request : ImportDownload(s, q) => EnvelopeRight'
         /\ CoinsClear => EnvelopeRight'
<1>1. CreateProduct \/ UpdateProduct => EnvelopeRight'
  BY HeldStays DEF CreateProduct, UpdateProduct, ProductOnly
<1>2. ASSUME NEW u, NEW phase, NEW d PROVE Picking(u, phase, d).kind \notin ReadKinds
  BY DEF Picking, ReadKinds
<1>3. ASSUME NEW s \in Slot, NEW u \in User, CreateMyRechargeOrder(s, u) PROVE EnvelopeRight'
  <2>1. PICK k : slot' = [slot EXCEPT ![s] = [kind |-> "order", user |-> u, key |-> k, coins |-> product]]
    BY <1>3 DEF CreateMyRechargeOrder
  <2>2. PICK j : j = [kind |-> "order", user |-> u, key |-> k, coins |-> product]
    OBVIOUS
  <2>3. j.kind \notin ReadKinds
    BY <2>2 DEF ReadKinds
  <2> QED BY <1>3, <2>1, <2>2, <2>3, SlotOnlyHeld DEF CreateMyRechargeOrder, OrdersOnly
<1>4. ASSUME NEW s \in Slot, NEW u \in User, PickReads(s, u) PROVE EnvelopeRight'
  BY <1>2, <1>4, SlotOnlyHeld DEF PickReads, Reads
<1>5. ASSUME NEW s \in Slot, NeverAnswers(s) PROVE EnvelopeRight'
  BY <1>5, SlotOnlyHeld DEF NeverAnswers
<1>6. ASSUME NEW s \in Slot, AddDownload(s) PROVE EnvelopeRight'
  <2>1. PICK d : slot' = [slot EXCEPT ![s] = Picking(slot[s].user, NextPhase("added"), d)]
    BY <1>6 DEF AddDownload
  <2> QED BY <1>2, <1>6, <2>1, SlotOnlyHeld DEF AddDownload
<1>7. ASSUME NEW s \in Slot, PickCharges(s) PROVE EnvelopeRight'
  <2>1. slot[s] # None /\ slot[s].kind = "pick" /\ slot[s].phase = "charge" /\ red' = red
        /\ slot' = [slot EXCEPT ![s] = Picking(slot[s].user, NextPhase("charge"), slot[s].download)]
    BY <1>7 DEF PickCharges
  <2>2. slot[s].user \in User
    BY <2>1 DEF Slots, SlotRight
  <2>3. \A v \in User : user'[v].red = user[v].red
    BY <1>7, <2>2, AdjustRed DEF PickCharges
  <2>4. \A t \in Slot : slot'[t] = slot[t] \/ slot'[t].kind \notin ReadKinds
    BY <1>2, <2>1 DEF Slots
  <2> QED BY <2>1, <2>3, <2>4, HeldStays
<1>8. ASSUME NEW s \in Slot, NEW q \in Request, ImportDownload(s, q) PROVE EnvelopeRight'
  BY <1>8, SlotOnlyHeld DEF ImportDownload
<1>r. ASSUME NEW s \in Slot, AddRequestRecord(s) PROVE EnvelopeRight'
  BY <1>2, <1>r, SlotOnlyHeld DEF AddRequestRecord
<1>9. ASSUME CoinsClear PROVE EnvelopeRight'
  <2>1. PICK lv \in SUBSET Levels \ {{}} :
          user' = [u \in User |-> IF u \in {v \in User : user[v].lv \in lv}
                                  THEN [user[u] EXCEPT !.iv = 0, !.red = 0] ELSE user[u]]
    BY <1>9 DEF CoinsClear
  <2>2. ASSUME NEW u \in User PROVE user'[u].red = user[u].red \/ user'[u].red = 0
    <3>1. user[u] \in UserRow
      BY DEF Purses
    <3>2. PICK z : z = 0
      OBVIOUS
    <3>3. PICK r : r = [user[u] EXCEPT !.iv = z, !.red = z]
      OBVIOUS
    <3>4. r.red = z
      BY <3>1, <3>3 DEF UserRow
    <3>5. user'[u] = r \/ user'[u] = user[u]
      BY <2>1, <3>2, <3>3
    <3> QED BY <3>2, <3>4, <3>5
  <2>3. UNCHANGED <<red, slot>>
    BY <1>9 DEF CoinsClear
  <2> QED BY <2>2, <2>3, HeldStays
<1> QED BY <1>1, <1>3, <1>4, <1>5, <1>6, <1>7, <1>8, <1>9, <1>r

LEMMA CrashHeld ==
  ASSUME Envelope, EnvelopeRight, Crash
  PROVE  EnvelopeRight'
<1>1. PICK share \in [User -> Nat] : Drawn(share, red) /\ Covered(share)
  BY DEF EnvelopeRight
<1>2. red' = [red EXCEPT !.on = FALSE] /\ user' = user
      /\ slot' = [s \in Slot |-> IF slot[s] = None \/ slot[s].kind = "order" THEN slot[s] ELSE None]
  BY DEF Crash
<1>3. red'.kind = red.kind /\ red'.money = red.money /\ red'.members = red.members /\ red'.rest = red.rest
      /\ red'.left = red.left /\ red'.target = red.target /\ red'.got = red.got /\ ~red'.on
  BY <1>2 DEF Envelope, RedRow
<1>4. Drawn(share, red')
  BY <1>1, <1>3 DEF Drawn
<1>5. \A s \in Slot : slot'[s] # None => slot'[s].kind \notin ReadKinds
  BY <1>2 DEF ReadKinds
<1>6. Covered(share)'
  BY <1>1, <1>2, <1>5 DEF Covered
<1>7. Apart'
  BY <1>5 DEF Apart, AtOnce, ReadKinds
<1> QED BY <1>4, <1>6, <1>7 DEF EnvelopeRight

\* Somebody reads, and may be going to take a share.
LEMMA ReaderHeld ==
  ASSUME Slots, EnvelopeRight, BotFree, NEW s \in Slot, NEW j, Reads(s, j), j.kind \in ReadKinds,
         DOMAIN j.seen \subseteq User, \A u \in DOMAIN j.seen : j.seen[u].red = user[u].red,
         j.kind \in {"now", "later", "send"} => j.gain = 0, GrabRight(j, red)
  PROVE  EnvelopeRight'
<1>1. PICK share \in [User -> Nat] : Drawn(share, red) /\ Covered(share)
  BY DEF EnvelopeRight
<1>2. UNCHANGED <<user, red>> /\ slot' = [slot EXCEPT ![s] = j]
  BY DEF Reads
<1>3. slot'[s] = j /\ \A t \in Slot : t # s => slot'[t] = slot[t]
  BY <1>2 DEF Slots
<1>4. ReadHeld(j, share)
  BY <1>1 DEF ReadHeld, Covered
<1>5. Covered(share)'
  <2>1. ASSUME NEW t \in Slot, slot'[t] # None, slot'[t].kind \in ReadKinds
        PROVE  ReadHeld(slot'[t], share) /\ GrabRight(slot'[t], red)
    <3>1. CASE t = s
      BY <1>3, <1>4, <3>1
    <3>2. CASE t # s
      BY <1>1, <1>3, <2>1, <3>2 DEF Covered
    <3> QED BY <3>1, <3>2
  <2> QED BY <1>1, <1>2, <2>1 DEF Covered
<1>6. Apart'
  BY <1>3 DEF Apart, BotFree
<1> QED BY <1>1, <1>2, <1>5, <1>6 DEF EnvelopeRight

LEMMA SimpleReading ==
  ASSUME Slots, EnvelopeRight, BotFree, NEW s \in Slot, NEW kind \in {"now", "later", "send"},
         NEW who \in SUBSET User, NEW delta, NEW lv, Reads(s, [Reading(kind, who, delta) EXCEPT !.lv = lv])
  PROVE  EnvelopeRight'
<1>1. PICK j : j = [Reading(kind, who, delta) EXCEPT !.lv = lv]
  OBVIOUS
<1>2. j.kind = kind /\ j.gain = 0
      /\ j.seen = [u \in who |-> [iv |-> user[u].iv, lv |-> user[u].lv, red |-> user[u].red]]
  BY <1>1 DEF Reading
<1>3. GrabRight(j, red) /\ j.kind \in ReadKinds
  BY <1>2 DEF GrabRight, ReadKinds
<1>4. DOMAIN j.seen \subseteq User /\ \A u \in DOMAIN j.seen : j.seen[u].red = user[u].red
  BY <1>2
<1> QED BY <1>1, <1>2, <1>3, <1>4, ReaderHeld

LEMMA PlainReading ==
  ASSUME NEW kind, NEW who, NEW delta
  PROVE  Reading(kind, who, delta) = [Reading(kind, who, delta) EXCEPT !.lv = None]
BY DEF Reading

\* What a share can be.
LEMMA HalfIsLess ==
  ASSUME NEW a \in Nat, NEW b \in Nat, b > 1
  PROVE  (2 * a) \div b <= a
<1>1. PICK q : q = (2 * a) \div b
  OBVIOUS
<1>2. q \in Nat /\ b * q <= 2 * a
  BY <1>1
<1>3. 2 * q <= b * q
  BY <1>2
<1> QED BY <1>1, <1>2, <1>3

LEMMA WholeShares ==
  ASSUME NEW a \in Nat, NEW b \in Nat, b > 0
  PROVE  (a \div b) \in Nat /\ a >= b * (a \div b)
  OBVIOUS

LEMMA DrawnShares ==
  ASSUME Envelope, NEW share, Drawn(share, red), red.on, red.left > 0, red.kind # "private", NEW n \in Shares
  PROVE  n \in Nat /\ n <= red.rest /\ (red.kind = "equal" => n = red.money \div red.members)
<1>1. red.money \in Nat /\ red.members \in Nat /\ red.members > 0 /\ red.left \in Nat /\ red.left > 0
      /\ red.kind \in {"random", "equal"} /\ red.rest \in Nat
  BY DEF Envelope, RedRow, Drawn
<1>2. CASE red.kind = "equal"
  <2>1. n = red.money \div red.members
    BY <1>2 DEF Shares
  <2>2. n \in Nat
    BY <1>1, <2>1, WholeShares
  <2>3. red.rest >= red.left * n
    BY <1>2, <2>1 DEF Drawn
  <2>4. red.left * n >= n
    BY <1>1, <2>2
  <2>5. n <= red.rest
    <3>1. PICK m : m = red.left * n
      OBVIOUS
    <3>2. m \in Nat
      BY <1>1, <2>2, <3>1
    <3> QED BY <1>1, <2>2, <2>3, <2>4, <3>1, <3>2
  <2> QED BY <2>1, <2>2, <2>5
<1>3. CASE red.kind = "random" /\ red.left = 1
  <2>1. Shares = {red.rest}
    BY <1>3 DEF Shares
  <2> QED BY <1>1, <1>3, <2>1
<1>4. CASE red.kind = "random" /\ red.left # 1
  <2>1. Shares = IF 2 * red.rest < red.left THEN {0} ELSE 1 .. ((2 * red.rest) \div red.left)
    BY <1>4 DEF Shares
  <2>2. (2 * red.rest) \div red.left <= red.rest /\ ((2 * red.rest) \div red.left) \in Int
    BY <1>1, <1>4, HalfIsLess
  <2> QED BY <1>1, <1>4, <2>1, <2>2
<1> QED BY <1>1, <1>2, <1>3, <1>4

LEMMA GrabReadsHeld ==
  ASSUME Envelope, Slots, EnvelopeRight, BotFree, NEW s \in Slot, NEW u \in User, GrabReads(s, u)
  PROVE  EnvelopeRight'
<1>1. PICK share \in [User -> Nat] : Drawn(share, red) /\ Covered(share)
  BY DEF EnvelopeRight
<1>2. PICK kind : kind = IF red.kind = "private" THEN "private" ELSE "share"
  OBVIOUS
<1>3. PICK n \in Shares : Reads(s, [Reading(kind, {u}, n) EXCEPT !.gain = n])
  BY <1>2 DEF GrabReads
<1>4. red.on /\ u \notin red.got /\ red.left > 0 /\ (red.kind = "private" => u = red.target)
  BY DEF GrabReads
<1>5. PICK j : j = [Reading(kind, {u}, n) EXCEPT !.gain = n]
  OBVIOUS
<1>6. j.kind = kind /\ j.delta = n /\ j.gain = n
      /\ j.seen = [v \in {u} |-> [iv |-> user[v].iv, lv |-> user[v].lv, red |-> user[v].red]]
  BY <1>5 DEF Reading
<1>7. DOMAIN j.seen = {u} /\ j.seen[u].red = user[u].red
  BY <1>6
<1>8. user[u].red <= 0
  BY <1>1, <1>4 DEF Drawn, Covered
<1>9. GrabRight(j, red)
  <2>1. CASE red.kind = "private"
    <3>1. n = red.rest /\ red.rest = red.money
      BY <1>1, <1>4, <2>1 DEF Shares, Drawn
    <3>2. n = red.money /\ n \in Nat /\ kind = "private"
      BY <1>2, <2>1, <3>1 DEF Envelope, RedRow
    <3> QED BY <1>4, <1>6, <1>7, <1>8, <2>1, <3>2 DEF GrabRight
  <2>2. CASE red.kind # "private"
    <3>1. n \in Nat /\ n <= red.rest /\ (red.kind = "equal" => n = red.money \div red.members)
      BY <1>1, <1>4, <2>2, DrawnShares
    <3>2. kind = "share" /\ red.kind \in {"random", "equal"}
      BY <1>1, <1>2, <1>4, <2>2 DEF Drawn, Envelope, RedRow
    <3> QED BY <1>4, <1>6, <1>7, <3>1, <3>2 DEF GrabRight
  <2> QED BY <2>1, <2>2
<1>10. j.kind \in ReadKinds /\ j.kind \notin {"now", "later", "send"}
  BY <1>2, <1>6 DEF ReadKinds
<1> QED BY <1>3, <1>5, <1>7, <1>9, <1>10, ReaderHeld

LEMMA ReadersHeld ==
  ASSUME Envelope, Slots, EnvelopeRight, BotFree, NEW s \in Slot, NEW u \in User
  PROVE  /\ SRank(s, u) => EnvelopeRight'
         /\ UpdateCredit(s, u) => EnvelopeRight'
         /\ CheckEx(s, u) => EnvelopeRight'
         /\ DoStoreReborn(s, u) => EnvelopeRight'
         /\ VerifySender(s, u) => EnvelopeRight'
         /\ GrabReads(s, u) => EnvelopeRight'
<1>0. {u} \in SUBSET User
  OBVIOUS
<1>1. ASSUME NEW kind \in {"now", "later", "send"}, NEW who \in SUBSET User, NEW n, Reads(s, Reading(kind, who, n))
      PROVE  EnvelopeRight'
  <2>1. Reads(s, [Reading(kind, who, n) EXCEPT !.lv = None])
    BY <1>1, PlainReading
  <2> QED BY <2>1, SimpleReading
<1>2. SRank(s, u) => EnvelopeRight'
  BY <1>0, <1>1 DEF SRank
<1>3. UpdateCredit(s, u) => EnvelopeRight'
  BY <1>0, <1>1 DEF UpdateCredit
<1>4. ASSUME CheckEx(s, u) PROVE EnvelopeRight'
  <2>1. PICK lv : lv = IF user[u].lv = "c" THEN "b" ELSE None
    OBVIOUS
  <2>2. Reads(s, [Reading("later", {u}, -ExchangeCost) EXCEPT !.lv = lv])
    BY <1>4, <2>1 DEF CheckEx
  <2> QED BY <1>0, <2>2, SimpleReading
<1>5. DoStoreReborn(s, u) => EnvelopeRight'
  BY <1>0, SimpleReading DEF DoStoreReborn
<1>6. VerifySender(s, u) => EnvelopeRight'
  BY <1>0, <1>1 DEF VerifySender
<1>7. GrabReads(s, u) => EnvelopeRight'
  BY GrabReadsHeld
<1> QED BY <1>2, <1>3, <1>4, <1>5, <1>6, <1>7

LEMMA ManyHeld ==
  ASSUME Slots, EnvelopeRight, BotFree, NEW s \in Slot
  PROVE  CoinsAll(s) \/ UserPlaysRank(s) => EnvelopeRight'
<1>1. ASSUME NEW kind \in {"now", "later"}, NEW who \in SUBSET User, NEW n, Reads(s, Reading(kind, who, n))
      PROVE  EnvelopeRight'
  <2>1. Reads(s, [Reading(kind, who, n) EXCEPT !.lv = None])
    BY <1>1, PlainReading
  <2> QED BY <2>1, SimpleReading
<1>2. ASSUME CoinsAll(s) PROVE EnvelopeRight'
  <2>1. PICK lv \in Levels, n \in {-1, 1} : Reads(s, Reading("now", {u \in User : user[u].lv = lv}, n))
    BY <1>2 DEF CoinsAll
  <2>2. {u \in User : user[u].lv = lv} \in SUBSET User
    OBVIOUS
  <2> QED BY <1>1, <2>1, <2>2
<1>3. ASSUME UserPlaysRank(s) PROVE EnvelopeRight'
  <2>1. PICK who \in SUBSET {u \in User : HasAccount(u)} : Reads(s, Reading("later", who, 1))
    BY <1>3 DEF UserPlaysRank
  <2>2. who \in SUBSET User
    OBVIOUS
  <2> QED BY <1>1, <2>1, <2>2
<1> QED BY <1>2, <1>3

\* A new envelope: nothing is drawn, and nobody is drawing.
LEMMA CreateHeld ==
  ASSUME EnvelopeRight, NEW money \in Nat, NEW most, CreateReds(money, most),
         \A s \in Slot : slot'[s] = slot[s] \/ slot'[s] = None
  PROVE  EnvelopeRight'
<1>1. PICK share \in [User -> Nat] : Drawn(share, red) /\ Covered(share)
  BY DEF EnvelopeRight
<1>2. PICK n \in 1 .. Cardinality(User), kind \in {"random", "equal", "private"}, t \in User :
        red' = [money |-> money, members |-> n, rest |-> money, left |-> n, kind |-> kind,
                target |-> IF kind = "private" THEN t ELSE None, got |-> {}, on |-> TRUE]
  BY DEF CreateReds
<1>3. red.kind = "none" /\ user' = user
  BY DEF CreateReds
<1>4. \A u \in User : share[u] = 0
  BY <1>1, <1>3 DEF Drawn
<1>5. Total(share, User) = 0
  BY <1>4, LedgerAssumption, TotalOfNone
<1>6. n \in Nat /\ n > 0
  BY LedgerAssumption, FS_CardinalityType
<1>7. /\ red'.money = money /\ red'.members = n /\ red'.rest = money /\ red'.left = n /\ red'.kind = kind
      /\ red'.got = {} /\ red'.on
  BY <1>2
<1>8. money >= n * (money \div n)
  BY <1>6, WholeShares
<1>9. Drawn(share, red')
  BY <1>4, <1>5, <1>6, <1>7, <1>8 DEF Drawn
<1>10. ASSUME NEW s \in Slot, slot'[s] # None, slot'[s].kind \in ReadKinds
       PROVE  ReadHeld(slot'[s], share) /\ GrabRight(slot'[s], red')
  <2>1. slot'[s] = slot[s] /\ ReadHeld(slot[s], share) /\ GrabRight(slot[s], red)
    BY <1>1, <1>10 DEF Covered
  <2>2. slot[s].kind \notin {"private", "share"}
    BY <1>3, <2>1 DEF GrabRight
  <2> QED BY <2>1, <2>2 DEF GrabRight
<1>11. Covered(share)'
  BY <1>1, <1>3, <1>10 DEF Covered
<1>12. Apart'
  BY DEF EnvelopeRight, Apart
<1> QED BY <1>9, <1>11, <1>12 DEF EnvelopeRight

LEMMA SendersHeld ==
  ASSUME Slots, EnvelopeRight
  PROVE  /\ \A s \in Slot : SendRedEnvelope(s) => EnvelopeRight'
         /\ SendAsChannel => EnvelopeRight'
<1>1. ASSUME NEW s \in Slot, SendRedEnvelope(s) PROVE EnvelopeRight'
  <2>1. slot[s] # None /\ slot[s].kind = "paid" /\ slot' = [slot EXCEPT ![s] = None]
        /\ CreateReds(slot[s].money, slot[s].money)
    BY <1>1 DEF SendRedEnvelope
  <2>2. slot[s].money \in Nat
    BY <2>1 DEF Slots, SlotRight
  <2>3. \A t \in Slot : slot'[t] = slot[t] \/ slot'[t] = None
    BY <2>1 DEF Slots
  <2> QED BY <2>1, <2>2, <2>3, CreateHeld
<1>2. ASSUME SendAsChannel PROVE EnvelopeRight'
  <2>1. PICK m \in Money : CreateReds(m, Cardinality(User))
    BY <1>2 DEF SendAsChannel
  <2>2. m \in Nat
    BY LedgerAssumption
  <2> QED BY <1>2, <2>1, <2>2, CreateHeld DEF SendAsChannel
<1> QED BY <1>1, <1>2

\* What a write makes of the ghost of the envelope.
LEMMA WrittenRed ==
  ASSUME Purses, NEW s \in Slot, NEW next, ReadRight(slot[s]), WritesOrFails(s, next)
  PROVE  /\ slot' = [slot EXCEPT ![s] = next]
         /\ \A u \in User : \/ user'[u] = user[u]
                            \/ u \in DOMAIN slot[s].seen /\ user'[u].red = slot[s].seen[u].red + slot[s].gain
<1>1. CASE Writes(s, next)
  <2>1. user' = [u \in User |-> IF u \in Who(slot[s]) THEN Written(slot[s], u) ELSE user[u]]
    BY <1>1 DEF Writes
  <2>2. ASSUME NEW u \in User PROVE Written(slot[s], u).red = slot[s].seen[u].red + slot[s].gain
    <3>1. user[u] \in UserRow
      BY DEF Purses
    <3>2. PICK a, b, c : a = slot[s].seen[u].iv + slot[s].delta /\ b = slot[s].seen[u].red + slot[s].gain
                         /\ c = IF slot[s].lv = None THEN user[u].lv ELSE slot[s].lv
      OBVIOUS
    <3>3. Written(slot[s], u) = [user[u] EXCEPT !.iv = a, !.red = b, !.lv = c]
      BY <3>2 DEF Written
    <3>4. PICK r : r = [user[u] EXCEPT !.iv = a, !.red = b, !.lv = c]
      OBVIOUS
    <3>5. r.red = b
      BY <3>1, <3>4 DEF UserRow
    <3> QED BY <3>2, <3>3, <3>4, <3>5
  <2>3. \A u \in User : user'[u] = IF u \in Who(slot[s]) THEN Written(slot[s], u) ELSE user[u]
    BY <2>1
  <2>4. slot' = [slot EXCEPT ![s] = next]
    BY <1>1 DEF Writes
  <2> QED BY <2>2, <2>3, <2>4 DEF Who
<1>2. CASE slot' = [slot EXCEPT ![s] = next] /\ user' = user
  BY <1>2
<1> QED BY <1>1, <1>2 DEF WritesOrFails

LEMMA SimpleWritesHeld ==
  ASSUME Purses, Slots, EnvelopeRight, NEW s \in Slot, slot[s] # None, slot[s].kind \in {"now", "later", "send"},
         NEW next, next = None \/ next.kind \notin ReadKinds, WritesOrFails(s, next), red' = red
  PROVE  EnvelopeRight'
<1>1. PICK share \in [User -> Nat] : Drawn(share, red) /\ Covered(share)
  BY DEF EnvelopeRight
<1>2. ReadRight(slot[s]) /\ ReadHeld(slot[s], share) /\ slot[s].gain = 0
  BY <1>1 DEF Slots, SlotRight, Covered, ReadKinds, ReadHeld
<1>3. slot' = [slot EXCEPT ![s] = next]
  BY <1>2, WrittenRed
<1>4. \A t \in Slot : slot'[t] = slot[t] \/ slot'[t] = next
  BY <1>3 DEF Slots
<1>5. ASSUME NEW u \in User PROVE user'[u].red <= share[u]
  <2>1. user[u].red <= share[u]
    BY <1>1 DEF Covered
  <2>2. CASE user'[u] = user[u]
    BY <2>1, <2>2
  <2>3. CASE u \in DOMAIN slot[s].seen /\ user'[u].red = slot[s].seen[u].red + slot[s].gain
    <3>1. slot[s].seen[u].red \in Int /\ slot[s].seen[u].red <= share[u]
      BY <1>2, <2>3 DEF ReadRight, SeenRow, ReadHeld
    <3> QED BY <1>2, <2>3, <3>1
  <2> QED BY <1>2, <2>2, <2>3, WrittenRed
<1>6. ASSUME NEW t \in Slot, slot'[t] # None, slot'[t].kind \in ReadKinds
      PROVE  ReadHeld(slot'[t], share) /\ GrabRight(slot'[t], red')
  BY <1>1, <1>4, <1>6 DEF Covered
<1>7. Covered(share)'
  BY <1>5, <1>6 DEF Covered
<1>8. Apart'
  BY <1>4 DEF EnvelopeRight, Apart, AtOnce, ReadKinds
<1> QED BY <1>1, <1>7, <1>8 DEF EnvelopeRight

\* A share is written down, and the envelope has it less.
LEMMA GrabWritesHeld ==
  ASSUME Purses, Slots, Envelope, EnvelopeRight, NEW s \in Slot, GrabWrites(s)
  PROVE  EnvelopeRight'
<1>1. PICK share \in [User -> Nat] : Drawn(share, red) /\ Covered(share)
  BY DEF EnvelopeRight
<1> DEFINE now == slot[s]
<1>2. now # None /\ now.kind \in {"private", "share"} /\ WritesOrFails(s, None)
  BY DEF GrabWrites
<1>3. ReadRight(now) /\ ReadHeld(now, share) /\ GrabRight(now, red)
  BY <1>1, <1>2 DEF Slots, SlotRight, Covered, ReadKinds
<1>4. PICK u \in User : DOMAIN now.seen = {u}
  BY <1>2, <1>3 DEF ReadRight
<1>5. PICK n : n = now.delta
  OBVIOUS
<1>6. n \in Nat /\ now.gain = n
  BY <1>2, <1>3, <1>5 DEF GrabRight
<1>7. red' = [red EXCEPT !.rest = @ - n, !.left = @ - 1, !.got = @ \union {u}, !.on = @ /\ red.left # 1]
  <2>1. u = CHOOSE v \in Who(now) : TRUE
    BY <1>4 DEF Who
  <2>2. red' = [red EXCEPT !.rest = @ - now.delta, !.left = @ - 1, !.got = @ \union {CHOOSE v \in Who(now) : TRUE},
                           !.on = @ /\ red.left # 1]
    BY DEF GrabWrites
  <2> QED BY <1>5, <2>1, <2>2
<1>8. /\ red'.rest = red.rest - n /\ red'.left = red.left - 1 /\ red'.got = red.got \union {u}
      /\ red'.kind = red.kind /\ red'.money = red.money /\ red'.members = red.members /\ red'.target = red.target
      /\ (red'.on => red.on)
  BY <1>7 DEF Envelope, RedRow
<1>9. red.rest \in Int /\ red.left \in Int /\ red.money \in Nat /\ red.members \in Nat
  BY DEF Envelope, RedRow
<1>10. slot' = [slot EXCEPT ![s] = None]
       /\ \A v \in User : \/ user'[v] = user[v]
                          \/ v \in DOMAIN now.seen /\ user'[v].red = now.seen[v].red + now.gain
  BY <1>2, <1>3, WrittenRed
<1>11. slot'[s] = None /\ \A t \in Slot : t # s => slot'[t] = slot[t]
  BY <1>10 DEF Slots
<1>12. now.seen[u].red \in Int
  BY <1>3, <1>4 DEF ReadRight, SeenRow
<1>13. red.kind \in {"private", "random", "equal"} /\ (now.kind = "private" <=> red.kind = "private")
  BY <1>2, <1>3 DEF GrabRight
<1>14. PICK more : more = [share EXCEPT ![u] = n]
  OBVIOUS
<1>15. more \in [User -> Nat] /\ more[u] = n /\ \A v \in User : v # u => more[v] = share[v]
  BY <1>6, <1>14
<1> HIDE DEF now
<1>16. share[u] <= n
  <2>1. CASE now.kind = "private"
    <3>1. n = red.money /\ u = red.target
      BY <1>3, <1>4, <1>6, <2>1 DEF GrabRight
    <3> QED BY <1>1, <1>13, <2>1, <3>1 DEF Drawn
  <2>2. CASE now.kind = "share"
    <3>1. u \notin red.got
      BY <1>3, <1>4, <2>2 DEF GrabRight
    <3> QED BY <1>1, <1>6, <3>1 DEF Drawn
  <2> QED BY <1>2, <2>1, <2>2
<1>17. now.seen[u].red <= 0
  <2>1. CASE now.kind = "private"
    BY <1>3, <1>4, <2>1 DEF GrabRight
  <2>2. CASE now.kind = "share"
    <3>1. u \notin red.got
      BY <1>3, <1>4, <2>2 DEF GrabRight
    <3> QED BY <1>1, <1>3, <1>4, <3>1 DEF Drawn, ReadHeld
  <2> QED BY <1>2, <2>1, <2>2
<1>18. \A v \in User : share[v] <= more[v]
  BY <1>15, <1>16
<1>19. Drawn(more, red')
  <2>1. \A v \in User \ red'.got : more[v] = 0
    BY <1>1, <1>8, <1>15 DEF Drawn
  <2>2. ASSUME red.kind = "private"
        PROVE  /\ \A v \in User : IF v = red.target THEN more[v] <= red.money ELSE more[v] = 0
               /\ red.target \in red'.got
    <3>1. u = red.target /\ n = red.money
      BY <1>3, <1>4, <1>6, <1>13, <2>2 DEF GrabRight
    <3> QED BY <1>1, <1>8, <1>9, <1>15, <2>2, <3>1 DEF Drawn
  <2>3. ASSUME red.kind # "private"
        PROVE  /\ Total(more, User) + (red.rest - n) <= red.money /\ red.rest - n >= 0
               /\ red.kind = "equal" => red.rest - n >= (red.left - 1) * (red.money \div red.members)
    <3>1. now.kind = "share"
      BY <1>2, <1>13, <2>3
    <3>2. n <= red.rest /\ share[u] = 0 /\ (red.kind = "equal" => n = red.money \div red.members)
      BY <1>1, <1>3, <1>4, <1>6, <3>1 DEF GrabRight, Drawn
    <3>3. Total(share, User) \in Int
      BY <1>1, LedgerAssumption, TotalType
    <3>4. Total(more, User) = Total(share, User) + (more[u] - share[u])
      BY <1>1, <1>15, LedgerAssumption, TotalOfOther
    <3>5. Total(share, User) + red.rest <= red.money
      BY <1>1, <2>3 DEF Drawn
    <3>6. Total(more, User) + (red.rest - n) <= red.money /\ red.rest - n >= 0
      BY <1>6, <1>9, <1>15, <3>2, <3>3, <3>4, <3>5
    <3>7. ASSUME red.kind = "equal" PROVE red.rest - n >= (red.left - 1) * n
      <4>1. red.rest >= red.left * n
        BY <1>1, <3>2, <3>7 DEF Drawn
      <4>2. (red.left - 1) * n = red.left * n - n
        BY <1>6, <1>9
      <4>3. PICK m : m = red.left * n
        OBVIOUS
      <4>4. m \in Int
        BY <1>6, <1>9, <4>3
      <4> QED BY <1>6, <1>9, <4>1, <4>2, <4>3, <4>4
    <3> QED BY <3>2, <3>6, <3>7
  <2>4. red.kind = "equal" => red.members > 0
    BY <1>1 DEF Drawn
  <2>5. red'.kind # "none"
    BY <1>8, <1>13
  <2> QED BY <1>8, <1>15, <2>1, <2>2, <2>3, <2>4, <2>5 DEF Drawn
<1>20. ASSUME NEW v \in User PROVE user'[v].red <= more[v]
  <2>1. user[v].red <= share[v] /\ share[v] \in Nat /\ more[v] \in Nat /\ share[v] <= more[v] /\ user[v].red \in Int
    BY <1>1, <1>15, <1>18 DEF Covered, Purses, UserRow
  <2>2. CASE user'[v] = user[v]
    BY <2>1, <2>2
  <2>3. CASE v \in DOMAIN now.seen /\ user'[v].red = now.seen[v].red + now.gain
    <3>1. v = u
      BY <1>4, <2>3
    <3> QED BY <1>6, <1>12, <1>15, <1>17, <2>3, <3>1
  <2> QED BY <1>10, <2>2, <2>3 DEF now
<1>21. ASSUME NEW t \in Slot, slot'[t] # None, slot'[t].kind \in ReadKinds
       PROVE  ReadHeld(slot'[t], more) /\ GrabRight(slot'[t], red')
  <2>1. t # s /\ slot'[t] = slot[t] /\ slot[t] # None
    BY <1>11, <1>21
  <2>2. ReadHeld(slot[t], share) /\ GrabRight(slot[t], red)
    BY <1>1, <1>21, <2>1 DEF Covered
  <2>3. DOMAIN slot[t].seen \subseteq User /\ \A v \in DOMAIN slot[t].seen : slot[t].seen[v].red \in Int
    BY <1>21, <2>1 DEF Slots, SlotRight, ReadKinds, ReadRight, SeenRow
  <2>4. ReadHeld(slot[t], more)
    <3>1. ASSUME NEW v \in DOMAIN slot[t].seen PROVE slot[t].seen[v].red <= more[v]
      <4>1. v \in User /\ slot[t].seen[v].red <= share[v] /\ share[v] <= more[v]
        BY <1>18, <2>2, <2>3 DEF ReadHeld
      <4>2. slot[t].seen[v].red \in Int /\ share[v] \in Nat /\ more[v] \in Nat
        BY <1>15, <2>3, <4>1
      <4> QED BY <4>1, <4>2
    <3> QED BY <2>2, <3>1 DEF ReadHeld
  <2>5. slot[t].kind # "share"
    <3>1. ASSUME slot[t].kind = "share" PROVE FALSE
      <4>1. red.kind # "private"
        BY <2>2, <3>1 DEF GrabRight
      <4>2. now.kind = "share"
        BY <1>2, <1>13, <4>1
      <4> QED BY <1>2, <2>1, <3>1, <4>2 DEF EnvelopeRight, Apart, AtOnce, now
    <3> QED BY <3>1
  <2>6. GrabRight(slot[t], red')
    BY <1>8, <2>2, <2>5 DEF GrabRight
  <2> QED BY <2>1, <2>4, <2>6
<1>22. Covered(more)'
  BY <1>20, <1>21 DEF Covered
<1>23. Apart'
  BY <1>11 DEF EnvelopeRight, Apart
<1> QED BY <1>15, <1>19, <1>22, <1>23 DEF EnvelopeRight

LEMMA WritersHeld ==
  ASSUME Purses, Slots, Envelope, EnvelopeRight, NEW s \in Slot
  PROVE  /\ BlindWrite(s) => EnvelopeRight'
         /\ SenderPaid(s) => EnvelopeRight'
         /\ GrabWrites(s) => EnvelopeRight'
<1>1. ASSUME BlindWrite(s) PROVE EnvelopeRight'
  <2>1. slot[s] # None /\ slot[s].kind \in {"now", "later"} /\ WritesOrFails(s, None) /\ red' = red
    BY <1>1 DEF BlindWrite, SimpleKinds, WritesOrFails
  <2> QED BY <2>1, SimpleWritesHeld
<1>2. ASSUME SenderPaid(s) PROVE EnvelopeRight'
  <2>1. PICK next : next = [kind |-> "paid", money |-> -slot[s].delta]
    OBVIOUS
  <2>2. slot[s] # None /\ slot[s].kind = "send" /\ WritesOrFails(s, next) /\ red' = red
    BY <1>2, <2>1 DEF SenderPaid
  <2>3. next.kind \notin ReadKinds
    BY <2>1 DEF ReadKinds
  <2> QED BY <2>2, <2>3, SimpleWritesHeld
<1>3. GrabWrites(s) => EnvelopeRight'
  BY GrabWritesHeld
<1> QED BY <1>1, <1>2, <1>3

LEMMA EnvelopeBegins == LedgerInit => EnvelopeRight
<1> SUFFICES ASSUME LedgerInit PROVE EnvelopeRight
  OBVIOUS
<1>1. PICK share : share = [u \in User |-> 0]
  OBVIOUS
<1>2. share \in [User -> Nat] /\ \A u \in User : share[u] = 0
  BY <1>1
<1>3. Total(share, User) = 0
  BY <1>2, LedgerAssumption, TotalOfNone
<1>4. /\ red.kind = "none" /\ red.rest = 0 /\ red.money = 0 /\ red.got = {} /\ ~red.on
  BY DEF LedgerInit, NoRed
<1>5. Drawn(share, red)
  BY <1>2, <1>3, <1>4 DEF Drawn
<1>6. Covered(share) /\ Apart
  BY <1>2 DEF LedgerInit, Covered, Apart
<1> QED BY <1>2, <1>5, <1>6 DEF EnvelopeRight

LEMMA EnvelopeNextKeeps == BooksRight /\ EnvelopeRight /\ [LedgerNext]_booksVars => EnvelopeRight'
<1> SUFFICES ASSUME BooksRight, EnvelopeRight, [LedgerNext]_booksVars PROVE EnvelopeRight'
  OBVIOUS
<1>1. Purses /\ Slots /\ Orders /\ Envelope
  BY DEF BooksRight, LedgerRight
<1>2. ASSUME UNCHANGED <<user, red, slot>> PROVE EnvelopeRight'
  BY <1>2, HeldStays
<1>3. ASSUME WebStep PROVE EnvelopeRight'
  <2>1. CASE CreateProduct \/ UpdateProduct
    BY <1>1, <2>1, QuietHeld
  <2>2. CASE \E u \in User : AdjustPoints(u)
    BY <1>1, <2>2, ServicesHeld
  <2>3. CASE \E u \in User : \E s \in Slot : CreateMyRechargeOrder(s, u)
    BY <1>1, <2>3, QuietHeld
  <2>4. CASE \E c \in Code : GenerateCodes(c) \/ Revoke(c)
    BY <1>1, <2>4, CodesHeld
  <2>5. CASE \E c \in Code : \E u \in User : CallExchange(c, u) \/ CallWlExchange(c, u)
    <3>1. PICK c \in Code, u \in User : RgsCode(c, u)
      BY <2>5 DEF CallExchange, CallWlExchange, RgsCode
    <3> QED BY <1>1, <3>1, CodesHeld
  <2>6. CASE \E o \in Order : DecideOrder(o) \/ CancelMyOrder(o) \/ RefundOrder(o)
    BY <1>1, <2>6, OrdersHeld DEF CancelMyOrder
  <2>7. CASE \E o \in Order : \E s \in Slot : CreateOrderCommits(s, o)
    BY <1>1, <2>7, OrdersHeld
  <2> QED BY <1>3, <2>1, <2>2, <2>3, <2>4, <2>5, <2>6, <2>7 DEF WebStep
<1>4. ASSUME BotStep PROVE EnvelopeRight'
  <2>0. BotFree
    BY <1>4 DEF BotStep
  <2>1. CASE \E u \in User : CoinsUser(u) \/ ScoreUser(u) \/ UserInCheckin(u) \/ DoStoreWhitelist(u)
    BY <1>1, <2>1, ServicesHeld
  <2>2. CASE \E u \in User, c \in Code : DoStoreInvite(u, c)
    BY <1>1, <2>2, ServicesHeld
  <2>3. CASE \E c \in Code : CrLink(c) \/ DeleteUnusedCodes(c)
    BY <1>1, <2>3, CodesHeld
  <2>4. CASE \E s \in Slot, u \in User : \/ SRank(s, u) \/ UpdateCredit(s, u) \/ CheckEx(s, u)
                                         \/ DoStoreReborn(s, u) \/ VerifySender(s, u) \/ GrabReads(s, u)
    BY <1>1, <2>0, <2>4, ReadersHeld
  <2>5. CASE \E s \in Slot, u \in User : PickReads(s, u)
    BY <1>1, <2>5, QuietHeld
  <2>6. CASE \E s \in Slot : CoinsAll(s) \/ UserPlaysRank(s)
    BY <1>1, <2>0, <2>6, ManyHeld
  <2>7. CASE (\E s \in Slot : SendRedEnvelope(s)) \/ SendAsChannel
    BY <1>1, <2>7, SendersHeld
  <2>8. CASE CoinsClear
    BY <1>1, <2>8, QuietHeld
  <2> QED BY <1>4, <2>1, <2>2, <2>3, <2>4, <2>5, <2>6, <2>7, <2>8 DEF BotStep
<1>5. ASSUME NEW s \in Slot, BlindWrite(s) \/ SenderPaid(s) \/ GrabWrites(s) PROVE EnvelopeRight'
  BY <1>1, <1>5, WritersHeld
<1>6. ASSUME NEW s \in Slot, NeverAnswers(s) PROVE EnvelopeRight'
  BY <1>1, <1>6, QuietHeld
<1>7. ASSUME Crash PROVE EnvelopeRight'
  BY <1>1, <1>7, CrashHeld
<1>8. ASSUME LedgerStep PROVE EnvelopeRight'
  BY <1>3, <1>4, <1>5, <1>6, <1>7, <1>8 DEF LedgerStep
<1>9. ASSUME PickStep PROVE EnvelopeRight'
  <2>1. PICK s \in Slot : AddDownload(s) \/ PickCharges(s) \/ AddRequestRecord(s)
                          \/ \E q \in Request : ImportDownload(s, q)
    BY <1>9 DEF PickStep
  <2> QED BY <1>1, <2>1, QuietHeld
<1>10. ASSUME UNCHANGED ledgerVars PROVE EnvelopeRight'
  BY <1>2, <1>10 DEF ledgerVars
<1>11. ASSUME UNCHANGED booksVars PROVE EnvelopeRight'
  BY <1>10, <1>11 DEF booksVars
<1> QED BY <1>8, <1>9, <1>10, <1>11 DEF LedgerNext

\* The sum of what all users hold, as a sum over a function.
RedOf == [u \in User |-> user[u].red]
LEMMA RedTotal == MapThenSumSet(LAMBDA u : user[u].red, User) = Total(RedOf, User)
<1> DEFINE Is(g) == g = [t \in SUBSET User |-> IF t = {} THEN 0 ELSE user[Picked(t)].red + g[t \ {Picked(t)}]]
<1>1. PICK g : g = CHOOSE h : Is(h)
  OBVIOUS
<1>2. MapThenSumSet(LAMBDA u : user[u].red, User) = g[User]
  BY <1>1 DEF MapThenSumSet, MapThenFoldSet, Picked
<1>3. \A t \in SUBSET User : t # {} => RedOf[Picked(t)] = user[Picked(t)].red
  BY DEF RedOf, Picked
<1>4. \E h : Is(h)
  <2>1. PICK h : Summed(h, RedOf, SUBSET User)
    BY LedgerAssumption, TotalExists
  <2>2. Is(h)
    BY <1>3, <2>1 DEF Summed
  <2> QED BY <2>2
<1>5. Is(g)
  <2> HIDE DEF Is
  <2> QED BY <1>1, <1>4
<1>6. AddsUp(g, RedOf, User)
  <2>1. {} \in SUBSET User
    OBVIOUS
  <2> QED BY <1>3, <1>5, <2>1 DEF AddsUp
<1> QED BY <1>2, <1>6, LedgerAssumption, SumsAgree

LEMMA SharesCover == Purses /\ Envelope /\ EnvelopeRight => EnvelopeCovers
<1> SUFFICES ASSUME Purses, Envelope, EnvelopeRight PROVE EnvelopeCovers
  OBVIOUS
<1>1. PICK share \in [User -> Nat] : Drawn(share, red) /\ Covered(share)
  BY DEF EnvelopeRight
<1>2. \A u \in User : RedOf[u] \in Int /\ share[u] \in Int /\ RedOf[u] <= share[u]
  BY <1>1 DEF RedOf, Covered, Purses, UserRow
<1>3. Total(RedOf, User) <= Total(share, User)
  BY <1>2, LedgerAssumption, TotalOfMore
<1>4. Total(RedOf, User) \in Int /\ Total(share, User) \in Int
  BY <1>2, LedgerAssumption, TotalType
<1>5. red.money \in Nat /\ red.rest \in Int
  BY DEF Envelope, RedRow
<1>6. Total(share, User) <= red.money
  <2>1. CASE red.kind # "private"
    BY <1>1, <1>4, <1>5, <2>1 DEF Drawn
  <2>2. CASE red.kind = "private"
    <3>1. PICK zero : zero = [u \in User |-> 0]
      OBVIOUS
    <3>2. zero \in [User -> Nat] /\ \A u \in User : zero[u] = 0
      BY <3>1
    <3>3. Total(zero, User) = 0
      BY <3>2, LedgerAssumption, TotalOfNone
    <3>4. CASE red.target \in User
      <4>1. Total(share, User) = Total(zero, User) + (share[red.target] - zero[red.target])
        BY <1>1, <2>2, <3>2, <3>4, LedgerAssumption, TotalOfOther DEF Drawn
      <4> QED BY <1>1, <1>5, <2>2, <3>2, <3>3, <3>4, <4>1 DEF Drawn
    <3>5. CASE red.target \notin User
      <4>1. \A u \in User : share[u] = 0
        BY <1>1, <2>2, <3>5 DEF Drawn
      <4>2. Total(share, User) = 0
        BY <4>1, LedgerAssumption, TotalOfNone
      <4> QED BY <1>5, <4>2
    <3> QED BY <3>4, <3>5
  <2> QED BY <2>1, <2>2
<1>7. MapThenSumSet(LAMBDA u : user[u].red, User) <= red.money
  BY <1>3, <1>4, <1>5, <1>6, RedTotal
<1> QED BY <1>7 DEF EnvelopeCovers

-----------------------------------------------------------------------------
(* The theorems about coins and requests. *)

LEMMA BooksRightAlways == LedgerSpec => []BooksRight
BY LedgerBegins, BooksNextKeeps, PTL DEF LedgerSpec

\* What a user's balance holds is the start and the sum of the changes, each key of
\* PointService counted once, unless an older writer wrote over somebody else's change.
THEOREM CoinsAddUpAlways == LedgerSpec => []CoinsAddUp
<1>1. BooksRight => CoinsAddUp
  BY DEF BooksRight, LedgerRight, Purses
<1> QED BY <1>1, BooksRightAlways, PTL

\* Who acquired the whitelist, by purchase_level or a code, has it, unless a level
\* that was computed from an old read was written after.
THEOREM WhitelistKeptAlways == LedgerSpec => []WhitelistKept
<1>1. BooksRight => WhitelistKept
  BY DEF BooksRight, LedgerRight, Purses
<1> QED BY <1>1, BooksRightAlways, PTL

\* Recharge orders: the billing entries tell the status, nothing is credited without
\* its entry or twice, and a key of create_order has one order.
THEOREM BooksAgreeAlways == LedgerSpec => []BooksAgree
<1>1. BooksRight => BooksAgree
  BY OrdersAgree DEF BooksRight, LedgerRight
<1> QED BY <1>1, BooksRightAlways, PTL

\* A completed media request has progress 100, unless its row changed between the
\* job's read and its write (sync_download).
THEOREM CompletedIsFullAlways == LedgerSpec => []CompletedIsFull
<1>1. BooksRight => CompletedIsFull
  BY DEF BooksRight, RequestsRight
<1> QED BY <1>1, BooksRightAlways, PTL

\* A request from Telegram is recorded (import_download) only after its download was
\* charged, wherever the bot stopped.
THEOREM RecordedMeansChargedAlways == LedgerSpec => RecordedMeansCharged
<1>1. BooksRight /\ [LedgerNext]_booksVars =>
        [\A q \in Request :
           ~Exists(q) /\ request'[q] # None /\ request'[q].source = "telegram" =>
               <<"adjust", request'[q].download>> \in saved]_booksVars
  BY RecordedStep DEF Recorded
<1> QED BY <1>1, BooksRightAlways, PTL DEF LedgerSpec, RecordedMeansCharged

\* All users together never hold more of a red envelope than its sender put in, for
\* all the shares (grab_red_envelope), the double taps and the writes from old reads.
THEOREM EnvelopeCoversAlways == LedgerSpec => []EnvelopeCovers
<1>1. BooksRight /\ EnvelopeRight => EnvelopeCovers
  BY SharesCover DEF BooksRight, LedgerRight
<1> QED BY <1>1, EnvelopeBegins, EnvelopeNextKeeps, BooksRightAlways, PTL DEF LedgerSpec

=============================================================================
