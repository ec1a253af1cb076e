-------------------------- MODULE RiskActionProofs --------------------------
(***************************************************************************)
(* Proofs about RiskAction, for every set of workers and every bound on    *)
(* the faults: the record of a risk action is what happened on the server. *)
(***************************************************************************)
EXTENDS RiskAction, TLAPS

Kind == {"disable_user", "stop_session"}
ActionRow == [type: Kind, status: ActionStatus, before: Before, applied: BOOLEAN, undone: BOOLEAN]
TaskRow == [status: TaskStatus, owner: Worker \cup {NoOwner}, live: BOOLEAN]
Past == [original: BOOLEAN, enforced: BOOLEAN, restored: BOOLEAN]
Mind == [task: TaskName \cup {NoTask}, phase: Phase, before: Before, effect: BOOLEAN, seen: BOOLEAN]

-----------------------------------------------------------------------------
(* The columns that a step writes. *)

\* A fault counts one of the faults up and leaves the others alone.
LEMMA SpendCounts ==
  ASSUME NEW f \in Fault, spent \in [Fault -> Nat], Spend(f)
  PROVE  /\ spent' \in [Fault -> Nat]
         /\ \A g \in Fault : spent'[g] = IF g = f THEN spent[g] + 1 ELSE spent[g]
<1>1. spent' = [spent EXCEPT ![f] = @ + 1]
  BY DEF Spend
<1> QED
  BY <1>1

\* Each column of the action can be written on its own.
LEMMA ActionColumns ==
  ASSUME NEW r \in ActionRow
  PROVE  /\ \A s \in ActionStatus : [r EXCEPT !.status = s] \in ActionRow
         /\ \A b \in Before : [r EXCEPT !.before = b] \in ActionRow
         /\ \A s \in ActionStatus : \A b \in Before :
              [r EXCEPT !.status = s, !.before = b] \in ActionRow
         /\ [r EXCEPT !.applied = TRUE] \in ActionRow
         /\ [r EXCEPT !.undone = TRUE] \in ActionRow
  BY DEF ActionRow

\* What a worker remembers changes as the steps of executeRiskAction change it.
LEMMA MindColumns ==
  ASSUME NEW r \in Mind
  PROVE  /\ \A p \in Phase : [r EXCEPT !.phase = p] \in Mind
         /\ \A p \in Phase : \A b \in Before : [r EXCEPT !.before = b, !.phase = p] \in Mind
         /\ \A p \in Phase : \A s \in BOOLEAN : [r EXCEPT !.seen = s, !.phase = p] \in Mind
         /\ \A p \in Phase : \A b \in Before : \A e \in BOOLEAN :
              [r EXCEPT !.phase = p, !.before = b, !.effect = e] \in Mind
  BY DEF Mind

\* A worker that polls, and one that has just claimed a task.
LEMMA IdleTyped ==
  /\ Idle \in Mind
  /\ \A t \in TaskName : [Idle EXCEPT !.task = t, !.phase = "read"] \in Mind
  BY DEF Idle, Mind, Phase, Before

\* A task row as a claim, a release or a retry writes it.
LEMMA RowTyped ==
  /\ \A s \in TaskStatus : \A o \in Worker \cup {NoOwner} : \A b \in BOOLEAN :
       [status |-> s, owner |-> o, live |-> b] \in TaskRow
  /\ \A r \in TaskRow : [r EXCEPT !.live = FALSE] \in TaskRow
  BY DEF TaskRow

LEMMA InitTyped == RiskInit => RiskTypeOK
<1> SUFFICES ASSUME RiskInit PROVE RiskTypeOK
  OBVIOUS
<1>1. task \in [TaskName -> TaskRow]
  BY RowTyped DEF RiskInit, TaskStatus
<1>2. wk \in [Worker -> Mind]
  BY IdleTyped DEF RiskInit
<1>3. action \in ActionRow
  BY DEF RiskInit, ActionRow, ActionStatus, Before, Kind
<1>4. history \in Past /\ remote \in BOOLEAN
  BY DEF RiskInit, Past
<1>5. event \in EventStatus /\ spent \in [Fault -> Nat]
  BY DEF RiskInit, EventStatus
<1> QED
  BY <1>1, <1>2, <1>3, <1>4, <1>5 DEF RiskTypeOK, TaskRow, Mind, ActionRow, Past, Kind

Typed ==
    /\ event \in EventStatus
    /\ action \in ActionRow
    /\ task \in [TaskName -> TaskRow]
    /\ remote \in BOOLEAN
    /\ history \in Past
    /\ wk \in [Worker -> Mind]
    /\ spent \in [Fault -> Nat]

LEMMA TypedIsTypeOK == RiskTypeOK <=> Typed
  BY DEF RiskTypeOK, Typed, TaskRow, Mind, ActionRow, Past, Kind

\* Administrators, the scheduler and the workers keep the types.
LEMMA StepTyped == Typed /\ [RiskNext]_riskVars => Typed'
<1> SUFFICES ASSUME Typed, [RiskNext]_riskVars PROVE Typed'
  OBVIOUS
<1> USE DEF Typed
<1>1. CASE UNCHANGED riskVars
  BY <1>1 DEF riskVars
<1>2. ASSUME NEW s \in {"acknowledged", "resolved"}, DispositionRiskEvent(s) PROVE Typed'
  BY <1>2 DEF DispositionRiskEvent, EventStatus
<1>3. CASE MarkRiskFalsePositive
  <2>1. event' \in EventStatus /\ UNCHANGED <<remote, history, wk, spent>>
    BY <1>3 DEF MarkRiskFalsePositive, EventStatus
  <2>2. action' \in ActionRow
    BY <1>3, ActionColumns DEF MarkRiskFalsePositive, CancelAction, QueueRevert, ActionStatus
  <2>3. task' \in [TaskName -> TaskRow]
    <3>1. CASE CancelAction
      <4>1. [status |-> "failed", owner |-> NoOwner, live |-> FALSE] \in TaskRow
        BY RowTyped DEF TaskStatus
      <4> QED
        BY <3>1, <4>1 DEF CancelAction
    <3>2. CASE QueueRevert
      <4>1. [task["revert"] EXCEPT !.status = "pending"] \in TaskRow
        BY DEF TaskRow, TaskStatus, TaskName
      <4> QED
        BY <3>2, <4>1 DEF QueueRevert
    <3> QED
      BY <1>3, <3>1, <3>2 DEF MarkRiskFalsePositive
  <2> QED
    BY <2>1, <2>2, <2>3
<1>4. ASSUME NEW t \in TaskName, RetryTask(t) PROVE Typed'
  <2>1. [status |-> "retry", owner |-> NoOwner, live |-> FALSE] \in TaskRow
    BY RowTyped DEF TaskStatus
  <2>2. spent' \in [Fault -> Nat]
    BY <1>4, SpendCounts DEF RetryTask, Fault
  <2> QED
    BY <1>4, <2>1, <2>2 DEF RetryTask
<1>5. ASSUME NEW t \in TaskName, LeaseLapses(t) \/ LeaseStalls(t) PROVE Typed'
  <2>1. [task[t] EXCEPT !.live = FALSE] \in TaskRow
    BY RowTyped
  <2>2. task' \in [TaskName -> TaskRow]
    BY <1>5, <2>1 DEF LeaseLapses, LeaseStalls
  <2>3. spent' \in [Fault -> Nat]
    BY <1>5, SpendCounts DEF LeaseLapses, LeaseStalls, Fault
  <2> QED
    BY <1>5, <2>2, <2>3 DEF LeaseLapses, LeaseStalls
<1>6. ASSUME NEW w \in Worker, NEW t \in TaskName, Claim(w, t) PROVE Typed'
  <2>1. [status |-> "running", owner |-> w, live |-> TRUE] \in TaskRow
    BY RowTyped DEF TaskStatus
  <2> QED
    BY <1>6, <2>1, IdleTyped DEF Claim
<1>7. ASSUME NEW w \in Worker, Abandon(w) PROVE Typed'
  <2>1. spent' \in [Fault -> Nat]
    BY <1>7, SpendCounts DEF Abandon, Fault
  <2> QED
    BY <1>7, <2>1, IdleTyped DEF Abandon
<1>8. ASSUME NEW w \in Worker, Work(w) PROVE Typed'
  <2>0. wk[w] \in Mind /\ \A p \in Phase : [wk[w] EXCEPT !.phase = p] \in Mind
    BY MindColumns
  <2>1. CASE ReadAction(w)
    <3>1. action.before \in Before /\ EffectOf(wk[w].task) \in BOOLEAN
      BY DEF ActionRow, EffectOf
    <3>2. \A p \in Phase : [wk[w] EXCEPT !.phase = p, !.before = action.before,
                                         !.effect = EffectOf(wk[w].task)] \in Mind
      BY <2>0, <3>1, MindColumns
    <3>3. wk' \in [Worker -> Mind]
      BY <2>1, <3>2 DEF ReadAction, Phase
    <3> QED
      BY <2>1, <3>3 DEF ReadAction
  <2>2. CASE Start(w)
    <3>1. action' \in ActionRow
      BY <2>2, ActionColumns DEF Start, ActionStatus
    <3>2. wk' \in [Worker -> Mind]
      BY <2>2, <2>0 DEF Start, Go, Phase
    <3> QED
      BY <2>2, <3>1, <3>2 DEF Start
  <2>3. CASE LookAtUser(w)
    <3>1. \A p \in Phase : [wk[w] EXCEPT !.seen = remote, !.phase = p] \in Mind
      BY <2>0, MindColumns
    <3>2. wk' \in [Worker -> Mind]
      BY <2>3, <2>0, <3>1 DEF LookAtUser, Go, Phase
    <3> QED
      BY <2>3, <3>2 DEF LookAtUser
  <2>4. CASE RecordBefore(w)
    <3>1. Flag(wk[w].seen) \in Before
      BY DEF Flag, Before
    <3>2. [wk[w] EXCEPT !.before = Flag(wk[w].seen), !.phase = "apply"] \in Mind
      BY <2>0, <3>1, MindColumns DEF Phase
    <3>3. wk' \in [Worker -> Mind]
      BY <2>4, <2>0, <3>2 DEF RecordBefore, Go, Phase
    <3>4. action' \in ActionRow
      BY <2>4, <3>1, ActionColumns DEF RecordBefore
    <3> QED
      BY <2>4, <3>3, <3>4 DEF RecordBefore
  <2>5. CASE Apply(w) \/ ApplyUnrecorded(w)
    <3>1. remote' \in BOOLEAN
      BY <2>5 DEF Apply, ApplyUnrecorded, Bring, Target
    <3>2. history' \in Past
      BY <2>5 DEF Apply, ApplyUnrecorded, Bring, Past
    <3>3. wk' \in [Worker -> Mind]
      BY <2>5, <2>0 DEF Apply, ApplyUnrecorded, Go, Phase
    <3>4. spent' \in [Fault -> Nat]
      BY <2>5, SpendCounts DEF Apply, ApplyUnrecorded, Fault
    <3> QED
      BY <2>5, <3>1, <3>2, <3>3, <3>4 DEF Apply, ApplyUnrecorded
  <2>6. CASE StepFails(w)
    <3>1. wk' \in [Worker -> Mind]
      BY <2>6, <2>0 DEF StepFails, Go, Phase
    <3> QED
      BY <2>6, <3>1 DEF StepFails
  <2>7. CASE FlagEffect(w)
    <3>1. wk' \in [Worker -> Mind]
      BY <2>7, <2>0 DEF FlagEffect, Go, Phase
    <3> QED
      BY <2>7, <3>1, ActionColumns DEF FlagEffect
  <2>8. CASE Complete(w)
    <3>1. wk' \in [Worker -> Mind]
      BY <2>8, <2>0 DEF Complete, Go, Phase
    <3>2. wk[w].before \in Before
      BY <2>0 DEF Mind
    <3> QED
      BY <2>8, <3>1, <3>2, ActionColumns DEF Complete, ActionStatus
  <2>9. ASSUME NEW s \in TaskStatus, Release(w, s)
        PROVE  task' \in [TaskName -> TaskRow] /\ wk' \in [Worker -> Mind]
    <3>1. [status |-> s, owner |-> NoOwner, live |-> FALSE] \in TaskRow
      BY RowTyped
    <3> QED
      BY <2>9, <3>1, IdleTyped DEF Release
  <2>10. CASE Finish(w)
    BY <2>9, <2>10 DEF Finish, TaskStatus
  <2>11. CASE Fail(w)
    <3>1. task' \in [TaskName -> TaskRow] /\ wk' \in [Worker -> Mind]
      BY <2>9, <2>11 DEF Fail, TaskStatus
    <3>2. action' \in ActionRow
      BY <2>11, ActionColumns DEF Fail, ActionStatus
    <3> QED
      BY <2>11, <3>1, <3>2 DEF Fail
  <2> QED
    BY <1>8, <2>1, <2>2, <2>3, <2>4, <2>5, <2>6, <2>7, <2>8, <2>10, <2>11 DEF Work
<1> QED
  BY <1>1, <1>2, <1>3, <1>4, <1>5, <1>6, <1>7, <1>8 DEF RiskNext, Administrate

\* A polling worker has no task, and a working one has.
Busy == \A w \in Worker : wk[w].phase = "idle" <=> wk[w].task = NoTask

\* A step that only moves a worker on leaves what it read as it was.
LEMMA GoMoves ==
  ASSUME Typed, NEW w \in Worker, NEW p \in Phase, Go(w, p)
  PROVE  /\ wk'[w].phase = p /\ wk'[w].task = wk[w].task /\ wk'[w].before = wk[w].before
         /\ wk'[w].effect = wk[w].effect /\ wk'[w].seen = wk[w].seen
         /\ \A v \in Worker : v # w => wk'[v] = wk[v]
<1>1. wk \in [Worker -> Mind] /\ wk[w] \in Mind /\ wk' = [wk EXCEPT ![w] = [@ EXCEPT !.phase = p]]
  BY DEF Typed, Go
<1> QED
  BY <1>1 DEF Mind

\* The steps that read something, and the two ends of a claim.
LEMMA ReadMoves ==
  ASSUME Typed, NEW w \in Worker
  PROVE  /\ ReadAction(w) =>
              /\ wk'[w].phase \in {"finish", "start"} /\ wk'[w].task = wk[w].task
              /\ wk'[w].before = action.before /\ wk'[w].effect = EffectOf(wk[w].task)
              /\ wk'[w].seen = wk[w].seen
         /\ LookAtUser(w) =>
              /\ wk'[w].task = wk[w].task /\ wk'[w].before = wk[w].before
              /\ \/ /\ wk'[w].seen = remote
                    /\ wk'[w].phase = IF wk[w].task = "action" THEN "record" ELSE "apply"
                 \/ wk'[w].phase = "permanent" /\ wk'[w].seen = wk[w].seen
         /\ RecordBefore(w) =>
              /\ wk'[w].task = wk[w].task /\ wk'[w].phase = "apply"
              /\ wk'[w].before = IF wk[w].before = "unknown" THEN Flag(wk[w].seen) ELSE wk[w].before
              /\ wk'[w].seen = wk[w].seen
         /\ ReadAction(w) \/ LookAtUser(w) \/ RecordBefore(w) =>
              \A v \in Worker : v # w => wk'[v] = wk[v]
<1>1. wk \in [Worker -> Mind] /\ wk[w] \in Mind
  BY DEF Typed
<1>2. ASSUME ReadAction(w)
      PROVE  /\ wk'[w].phase \in {"finish", "start"} /\ wk'[w].task = wk[w].task
             /\ wk'[w].before = action.before /\ wk'[w].effect = EffectOf(wk[w].task)
             /\ wk'[w].seen = wk[w].seen
             /\ \A v \in Worker : v # w => wk'[v] = wk[v]
  <2>1. PICK p \in {"finish", "start"} :
          wk' = [wk EXCEPT ![w] = [@ EXCEPT !.phase = p, !.before = action.before,
                                            !.effect = EffectOf(wk[w].task)]]
    BY <1>2 DEF ReadAction
  <2> QED
    BY <1>1, <2>1 DEF Mind
<1>3. ASSUME LookAtUser(w)
      PROVE  /\ wk'[w].task = wk[w].task /\ wk'[w].before = wk[w].before
             /\ \/ /\ wk'[w].seen = remote
                   /\ wk'[w].phase = IF wk[w].task = "action" THEN "record" ELSE "apply"
                \/ wk'[w].phase = "permanent" /\ wk'[w].seen = wk[w].seen
             /\ \A v \in Worker : v # w => wk'[v] = wk[v]
  BY <1>1, <1>3 DEF LookAtUser, Go, Mind
<1>4. ASSUME RecordBefore(w)
      PROVE  /\ wk'[w].task = wk[w].task /\ wk'[w].phase = "apply"
             /\ wk'[w].before = IF wk[w].before = "unknown" THEN Flag(wk[w].seen) ELSE wk[w].before
             /\ wk'[w].seen = wk[w].seen
             /\ \A v \in Worker : v # w => wk'[v] = wk[v]
  BY <1>1, <1>4, ZenonT(60) DEF RecordBefore, Go, Mind
<1> QED
  BY <1>2, <1>3, <1>4

LEMMA EndMoves ==
  ASSUME Typed, NEW w \in Worker
  PROVE  /\ \A t \in TaskName : Claim(w, t) =>
              /\ wk'[w].task = t /\ wk'[w].phase = "read" /\ wk'[w].before = "unknown"
              /\ wk'[w].effect = FALSE /\ wk'[w].seen = FALSE
         /\ Finish(w) \/ Fail(w) \/ Abandon(w) => wk'[w] = Idle
         /\ (\E t \in TaskName : Claim(w, t)) \/ Finish(w) \/ Fail(w) \/ Abandon(w) =>
              \A v \in Worker : v # w => wk'[v] = wk[v]
<1>1. wk \in [Worker -> Mind]
  BY DEF Typed
<1>2. ASSUME NEW t \in TaskName, Claim(w, t)
      PROVE  /\ wk'[w] = [Idle EXCEPT !.task = t, !.phase = "read"]
             /\ \A v \in Worker : v # w => wk'[v] = wk[v]
  BY <1>1, <1>2 DEF Claim
<1>3. ASSUME Finish(w) \/ Fail(w) \/ Abandon(w)
      PROVE  wk'[w] = Idle /\ \A v \in Worker : v # w => wk'[v] = wk[v]
  BY <1>1, <1>3 DEF Finish, Fail, Abandon, Release
<1> QED
  BY <1>2, <1>3 DEF Idle

\* How the other steps of executeRiskAction move their worker.
LEMMA WorkMoves ==
  ASSUME Typed, NEW w \in Worker
  PROVE  /\ Start(w) => \E p \in {"complete", "look", "record", "permanent"} : Go(w, p)
         /\ Apply(w) => Go(w, "flag")
         /\ ApplyUnrecorded(w) => Go(w, "error")
         /\ StepFails(w) => Go(w, "error") \/ Go(w, "permanent")
         /\ FlagEffect(w) => Go(w, "complete")
         /\ Complete(w) => Go(w, "finish")
  BY DEF Start, Apply, ApplyUnrecorded, StepFails, FlagEffect, Complete

\* Administrators and time do not reach into a worker.
LEMMA OutsideMoves ==
  Administrate \/ (\E t \in TaskName : LeaseLapses(t) \/ LeaseStalls(t)) => wk' = wk
  BY DEF Administrate, DispositionRiskEvent, MarkRiskFalsePositive, RetryTask, LeaseLapses, LeaseStalls

LEMMA StepBusy == Typed /\ Busy /\ [RiskNext]_riskVars => Busy'
<1> SUFFICES ASSUME Typed, Busy, [RiskNext]_riskVars, NEW v \in Worker
             PROVE  wk'[v].phase = "idle" <=> wk'[v].task = NoTask
  BY DEF Busy
<1>0. wk[v].phase = "idle" <=> wk[v].task = NoTask
  BY DEF Busy
<1>1. CASE UNCHANGED riskVars \/ Administrate \/ \E t \in TaskName : LeaseLapses(t) \/ LeaseStalls(t)
  BY <1>0, <1>1, OutsideMoves DEF riskVars
<1>2. ASSUME NEW w \in Worker, NEW t \in TaskName, Claim(w, t)
      PROVE  wk'[v].phase = "idle" <=> wk'[v].task = NoTask
  BY <1>0, <1>2, EndMoves, RiskAssumption
<1>3. ASSUME NEW w \in Worker, Finish(w) \/ Fail(w) \/ Abandon(w)
      PROVE  wk'[v].phase = "idle" <=> wk'[v].task = NoTask
  <2>1. wk'[w] = Idle /\ (v # w => wk'[v] = wk[v])
    BY <1>3, EndMoves
  <2>2. Idle.phase = "idle" /\ Idle.task = NoTask
    BY DEF Idle
  <2> QED
    BY <1>0, <2>1, <2>2
<1>4. ASSUME NEW w \in Worker, ReadAction(w) \/ LookAtUser(w) \/ RecordBefore(w)
      PROVE  wk'[v].phase = "idle" <=> wk'[v].task = NoTask
  <2>1. wk[w].phase # "idle" /\ wk'[w].phase # "idle" /\ wk'[w].task = wk[w].task
    BY <1>4, ReadMoves DEF ReadAction, LookAtUser, RecordBefore, At
  <2>2. v # w => wk'[v] = wk[v]
    BY <1>4, ReadMoves
  <2> QED
    BY <1>0, <2>1, <2>2
<1>5. ASSUME NEW w \in Worker, Start(w) \/ Apply(w) \/ ApplyUnrecorded(w) \/ StepFails(w)
                               \/ FlagEffect(w) \/ Complete(w)
      PROVE  wk'[v].phase = "idle" <=> wk'[v].task = NoTask
  <2>1. PICK p \in Phase \ {"idle"} : Go(w, p)
    BY <1>5, WorkMoves DEF Phase
  <2>2. wk[w].phase # "idle"
    BY <1>5 DEF Start, Apply, ApplyUnrecorded, StepFails, FlagEffect, Complete, At
  <2> QED
    BY <1>0, <2>1, <2>2, GoMoves
<1> QED
  BY <1>1, <1>2, <1>3, <1>4, <1>5 DEF RiskNext, Work

-----------------------------------------------------------------------------
(* The flags are never ahead of the server. *)

\* The user was disabled before, or a call of this action has done it.
Was == history.enforced \/ history.original

\* Every copy of "the user is disabled", in the rows and in the workers' minds,
\* however old, goes back to the server.
Sources ==
    /\ remote => Was
    /\ action.before = "yes" => Was
    /\ action.applied => Was
    /\ \A w \in Worker :
         /\ (wk[w].seen \/ wk[w].before = "yes") => Was
         /\ wk[w].task = "action" /\ wk[w].phase = "flag" => Was

\* No step takes back a call that took effect.
LEMMA WasStays == Typed /\ [RiskNext]_riskVars => (Was => Was')
<1> SUFFICES ASSUME Typed, [RiskNext]_riskVars PROVE Was => Was'
  OBVIOUS
<1>1. history' = history \/ \E w \in Worker : Bring(w)
  BY DEF RiskNext, riskVars, Administrate, Work, DispositionRiskEvent, MarkRiskFalsePositive, RetryTask,
         Claim, ReadAction, Start, LookAtUser, RecordBefore, Apply, ApplyUnrecorded, StepFails,
         FlagEffect, Complete, Finish, Fail, Abandon, LeaseLapses, LeaseStalls
<1>2. history \in Past
  BY DEF Typed
<1> QED
  BY <1>1, <1>2 DEF Was, Bring, Past

LEMMA StepSources == Typed /\ Busy /\ Sources /\ [RiskNext]_riskVars => Sources'
<1> SUFFICES ASSUME Typed, Busy, Sources, [RiskNext]_riskVars PROVE Sources'
  OBVIOUS
<1> DEFINE MindTrue(v) == /\ (wk'[v].seen \/ wk'[v].before = "yes") => Was'
                          /\ wk'[v].task = "action" /\ wk'[v].phase = "flag" => Was'
           RowTrue == /\ remote' => Was'
                      /\ action'.before = "yes" => Was'
                      /\ action'.applied => Was'
<1>0. /\ Was => Was'
      /\ remote => Was
      /\ action.before = "yes" => Was
      /\ action.applied => Was
      /\ \A v \in Worker : /\ (wk[v].seen \/ wk[v].before = "yes") => Was
                           /\ wk[v].task = "action" /\ wk[v].phase = "flag" => Was
      /\ action \in ActionRow /\ history \in Past
  BY WasStays DEF Sources, Typed
<1>1. ASSUME RowTrue, \A v \in Worker : MindTrue(v) PROVE Sources'
  BY <1>1 DEF Sources
<1>2. ASSUME remote' = remote, action'.before = action.before, action'.applied = action.applied
      PROVE  RowTrue
  BY <1>0, <1>2
<1>3. ASSUME NEW w \in Worker, \A v \in Worker : v # w => wk'[v] = wk[v], MindTrue(w)
      PROVE  \A v \in Worker : MindTrue(v)
  BY <1>0, <1>3
<1>4. CASE UNCHANGED riskVars \/ Administrate \/ \E t \in TaskName : LeaseLapses(t) \/ LeaseStalls(t)
  <2>1. wk' = wk
    BY <1>4, OutsideMoves DEF riskVars
  <2>2. remote' = remote /\ action'.before = action.before /\ action'.applied = action.applied
    BY <1>0, <1>4 DEF riskVars, Administrate, DispositionRiskEvent, MarkRiskFalsePositive, RetryTask,
       LeaseLapses, LeaseStalls, CancelAction, QueueRevert, ActionRow
  <2>3. \A v \in Worker : MindTrue(v)
    BY <1>0, <2>1
  <2> QED
    BY <1>1, <1>2, <2>2, <2>3
<1>5. ASSUME NEW w \in Worker, NEW t \in TaskName, Claim(w, t) PROVE Sources'
  <2>1. MindTrue(w) /\ \A v \in Worker : v # w => wk'[v] = wk[v]
    BY <1>5, EndMoves
  <2>2. RowTrue
    BY <1>2, <1>5 DEF Claim
  <2> QED
    BY <1>1, <1>3, <2>1, <2>2
<1>6. ASSUME NEW w \in Worker, Finish(w) \/ Fail(w) \/ Abandon(w) PROVE Sources'
  <2>0. wk'[w] = Idle /\ \A v \in Worker : v # w => wk'[v] = wk[v]
    BY <1>6, EndMoves
  <2>4. Idle.seen = FALSE /\ Idle.before = "unknown" /\ Idle.task # "action"
    BY RiskAssumption DEF Idle, TaskName
  <2>1. MindTrue(w) /\ \A v \in Worker : v # w => wk'[v] = wk[v]
    BY <2>0, <2>4
  <2>2. remote' = remote /\ action'.before = action.before /\ action'.applied = action.applied
    BY <1>0, <1>6 DEF Finish, Fail, Abandon, ActionRow
  <2> QED
    BY <1>1, <1>2, <1>3, <2>1, <2>2
<1>7. ASSUME NEW w \in Worker, ReadAction(w) \/ LookAtUser(w) PROVE Sources'
  <2>1. \A v \in Worker : v # w => wk'[v] = wk[v]
    BY <1>7, ReadMoves
  <2>2. MindTrue(w)
    BY <1>0, <1>7, ReadMoves
  <2>3. RowTrue
    BY <1>2, <1>7 DEF ReadAction, LookAtUser
  <2> QED
    BY <1>1, <1>3, <2>1, <2>2, <2>3
<1>8. ASSUME NEW w \in Worker, RecordBefore(w) PROVE Sources'
  <2>1. \A v \in Worker : v # w => wk'[v] = wk[v]
    BY <1>8, ReadMoves
  <2>2. Flag(wk[w].seen) = "yes" => Was
    BY <1>0 DEF Flag
  <2>3. MindTrue(w)
    BY <1>0, <1>8, <2>2, ReadMoves
  <2>4. remote' = remote /\ action'.applied = action.applied
    BY <1>0, <1>8 DEF RecordBefore, ActionRow
  <2>5. action'.before = action.before \/ action'.before = Flag(wk[w].seen)
    BY <1>0, <1>8 DEF RecordBefore, ActionRow
  <2>6. RowTrue
    BY <1>0, <2>2, <2>4, <2>5
  <2> QED
    BY <1>1, <1>3, <2>1, <2>3, <2>6
<1>9. ASSUME NEW w \in Worker, Bring(w), Go(w, "flag") \/ Go(w, "error"), action' = action
      PROVE  Sources'
  <2>1. \A v \in Worker : v # w => wk'[v] = wk[v]
    BY <1>9, GoMoves DEF Phase
  <2>2. wk'[w].task = wk[w].task /\ wk'[w].before = wk[w].before /\ wk'[w].seen = wk[w].seen
    BY <1>9, GoMoves DEF Phase
  <2>3. wk[w].task = "action" => Was'
    BY <1>0, <1>9 DEF Bring, Was, Past
  <2>4. remote' => Was'
    BY <1>0, <1>9, <2>3 DEF Bring, Target
  <2>5. MindTrue(w) /\ RowTrue
    BY <1>0, <1>9, <2>2, <2>3, <2>4
  <2> QED
    BY <1>1, <1>3, <2>1, <2>5
<1>10. ASSUME NEW w \in Worker, Apply(w) \/ ApplyUnrecorded(w) PROVE Sources'
  <2>1. CASE Bring(w)
    BY <1>9, <1>10, <2>1 DEF Apply, ApplyUnrecorded
  <2>2. CASE ~Bring(w)
    <3>1. /\ Go(w, "flag") /\ UNCHANGED <<remote, history, action>>
          /\ wk[w].seen = Target(w)
      BY <1>10, <2>2 DEF Apply, ApplyUnrecorded
    <3>2. wk[w].task = "action" => Was'
      BY <1>0, <3>1 DEF Target
    <3>3. /\ wk'[w].task = wk[w].task /\ wk'[w].before = wk[w].before
          /\ wk'[w].seen = wk[w].seen /\ \A v \in Worker : v # w => wk'[v] = wk[v]
      BY <3>1, GoMoves DEF Phase
    <3>4. MindTrue(w)
      BY <1>0, <3>2, <3>3
    <3> QED
      BY <1>1, <1>2, <1>3, <3>1, <3>3, <3>4
  <2> QED
    BY <2>1, <2>2
<1>11. ASSUME NEW w \in Worker, Start(w) \/ StepFails(w) \/ FlagEffect(w) \/ Complete(w)
       PROVE  Sources'
  <2>1. PICK p \in Phase \ {"flag"} : Go(w, p)
    BY <1>11, WorkMoves DEF Phase
  <2>2. /\ wk'[w].phase # "flag" /\ wk'[w].before = wk[w].before /\ wk'[w].seen = wk[w].seen
        /\ \A v \in Worker : v # w => wk'[v] = wk[v]
    BY <2>1, GoMoves
  <2>3. MindTrue(w)
    BY <1>0, <2>2
  <2>4. remote' = remote
    BY <1>11 DEF Start, StepFails, FlagEffect, Complete
  <2>5. action'.before = "yes" => Was
    BY <1>0, <1>11 DEF Start, StepFails, FlagEffect, Complete, ActionRow
  <2>6. action'.applied => Was
    BY <1>0, <1>11 DEF Start, StepFails, FlagEffect, Complete, ActionRow, At
  <2>7. RowTrue
    BY <1>0, <2>4, <2>5, <2>6
  <2> QED
    BY <1>1, <1>3, <2>2, <2>3, <2>7
<1> QED
  BY <1>4, <1>5, <1>6, <1>7, <1>8, <1>10, <1>11 DEF RiskNext, Work

-----------------------------------------------------------------------------
(* As long as no lease runs out under a living worker. *)

\* A task that a worker works on is running, with a live lease that names it.
OneWorker ==
    \A w \in Worker : \A t \in TaskName : wk[w].task = t =>
        task[t].status = "running" /\ task[t].live /\ task[t].owner = w

Known == action.before # "unknown"

\* The revert exists only for an effect that is recorded; the effect is
\* recorded only after the state before it; and the server is as it was until
\* the state before is recorded, and again once the revert is.
RowFacts ==
    /\ task["revert"].status # "absent" =>
         event = "false_positive" /\ action.applied /\ Disables
    /\ action.applied => Known
    /\ action.status = "succeeded" => action.applied
    /\ Known => action.before = Flag(history.original)
    /\ ~Known => remote = history.original /\ ~history.enforced
    /\ ~Disables => ~history.original
    /\ (action.undone \/ action.status = "reverted") =>
         action.applied /\ remote = history.original

\* What a worker on the action knows, from place to place.
ActionWorker(w) ==
    /\ wk[w].phase \in {"start", "look", "record", "apply", "flag", "complete"} =>
         wk[w].before = action.before
    /\ wk[w].phase \in {"read", "start"} => ~wk[w].seen
    /\ wk[w].phase = "start" => wk[w].effect = action.applied
    /\ wk[w].phase \in {"look", "record", "apply", "flag"} =>
         action.status = "running" /\ ~action.applied
    /\ wk[w].phase = "record" /\ ~Known => wk[w].seen = history.original
    /\ wk[w].phase \in {"apply", "flag"} => Known
    /\ wk[w].phase = "complete" => action.applied

\* What a worker on the revert knows, from place to place.
RevertWorker(w) ==
    /\ wk[w].phase # "record"
    /\ wk[w].phase \in {"start", "look", "apply"} => wk[w].before = action.before
    /\ wk[w].phase = "start" => wk[w].effect = action.undone
    /\ wk[w].phase = "apply" => wk[w].seen = remote
    /\ wk[w].phase \in {"flag", "complete"} => remote = history.original

WorkerFacts ==
    \A w \in Worker : /\ wk[w].task = "action" => ActionWorker(w)
                      /\ wk[w].task = "revert" => RevertWorker(w)

Calm == OneWorker /\ RowFacts /\ WorkerFacts

\* Two workers at a time are one on the action and one on its revert, and then
\* the action's effect is recorded.
LEMMA Companions ==
  ASSUME OneWorker, RowFacts
  PROVE  /\ \A v, w \in Worker : v # w /\ wk[v].task \in TaskName => wk[v].task # wk[w].task
         /\ \A v \in Worker : wk[v].task = "revert" => action.applied /\ Disables /\ Known
<1>1. \A v, w \in Worker : v # w /\ wk[v].task \in TaskName => wk[v].task # wk[w].task
  BY DEF OneWorker
<1>2. \A v \in Worker : wk[v].task = "revert" => task["revert"].status = "running"
  BY DEF OneWorker, TaskName
<1> QED
  BY <1>1, <1>2 DEF RowFacts

\* Stalls are counted and never forgotten.
LEMMA StallsStay == Typed /\ [RiskNext]_riskVars /\ spent'["stall"] = 0 => spent["stall"] = 0
<1> SUFFICES ASSUME Typed, [RiskNext]_riskVars, spent'["stall"] = 0 PROVE spent["stall"] = 0
  OBVIOUS
<1>1. spent' = spent \/ \E f \in Fault : Spend(f)
  BY DEF RiskNext, riskVars, Administrate, Work, DispositionRiskEvent, MarkRiskFalsePositive, RetryTask,
         Claim, ReadAction, Start, LookAtUser, RecordBefore, Apply, ApplyUnrecorded, StepFails,
         FlagEffect, Complete, Finish, Fail, Abandon, LeaseLapses, LeaseStalls, Fault
<1>2. CASE \E f \in Fault : Spend(f)
  <2>1. PICK f \in Fault : Spend(f)
    BY <1>2
  <2>2. /\ spent["stall"] \in Nat
        /\ spent'["stall"] = spent["stall"] \/ spent'["stall"] = spent["stall"] + 1
    BY <2>1, SpendCounts DEF Typed, Fault
  <2> QED
    BY <2>2
<1> QED
  BY <1>1, <1>2

\* A row that may be claimed, retried, cancelled or queued is nobody's.
LEMMA StepOneWorker ==
  Typed /\ Busy /\ OneWorker /\ RowFacts /\ [RiskNext]_riskVars /\ spent'["stall"] = 0 => OneWorker'
<1> SUFFICES ASSUME Typed, Busy, OneWorker, RowFacts, [RiskNext]_riskVars, spent'["stall"] = 0,
                    NEW v \in Worker, NEW t \in TaskName, wk'[v].task = t
             PROVE  task'[t].status = "running" /\ task'[t].live /\ task'[t].owner = v
  BY DEF OneWorker
<1> DEFINE Goal == task'[t].status = "running" /\ task'[t].live /\ task'[t].owner = v
<1>0. /\ task \in [TaskName -> TaskRow] /\ t # NoTask
      /\ \A s \in TaskName : task[s] \in TaskRow
      /\ wk[v].task = t => task[t].status = "running" /\ task[t].live /\ task[t].owner = v
  BY RiskAssumption DEF Typed, OneWorker
<1>1. ASSUME wk'[v].task = wk[v].task, task'[t] = task[t] PROVE Goal
  BY <1>0, <1>1
<1>2. CASE UNCHANGED riskVars \/ \E s \in {"acknowledged", "resolved"} : DispositionRiskEvent(s)
  BY <1>1, <1>2 DEF riskVars, DispositionRiskEvent
<1>3. CASE MarkRiskFalsePositive
  <2>1. wk' = wk /\ wk[v].task = t
    BY <1>3 DEF MarkRiskFalsePositive
  <2>2. task'[t] = task[t]
    <3>1. CASE t = "action"
      BY <1>0, <1>3, <2>1, <3>1 DEF MarkRiskFalsePositive, CancelAction, QueueRevert
    <3>2. CASE t = "revert"
      <4>1. ~QueueRevert
        BY <1>0, <1>3, <2>1, <3>2 DEF MarkRiskFalsePositive, RowFacts
      <4> QED
        BY <1>0, <1>3, <3>2, <4>1 DEF MarkRiskFalsePositive, CancelAction
    <3> QED
      BY <3>1, <3>2 DEF TaskName
  <2> QED
    BY <1>1, <2>1, <2>2
<1>4. ASSUME NEW s \in TaskName, RetryTask(s) \/ LeaseLapses(s) PROVE Goal
  <2>1. wk' = wk /\ wk[v].task = t
    BY <1>4 DEF RetryTask, LeaseLapses
  <2>2. s # t
    BY <1>0, <1>4, <2>1 DEF RetryTask, LeaseLapses, Held
  <2>3. task'[t] = task[t]
    BY <1>0, <1>4, <2>2 DEF RetryTask, LeaseLapses
  <2> QED
    BY <1>1, <2>1, <2>3
<1>5. ASSUME NEW s \in TaskName, LeaseStalls(s) PROVE FALSE
  <2>1. spent["stall"] \in Nat /\ spent'["stall"] = spent["stall"] + 1
    BY <1>5, SpendCounts DEF LeaseStalls, Typed, Fault
  <2> QED
    BY <2>1
<1>6. ASSUME NEW w \in Worker, NEW s \in TaskName, Claim(w, s) PROVE Goal
  <2>1. CASE v = w
    <3>1. s = t
      BY <1>6, <2>1, EndMoves
    <3>2. task'[t] = [status |-> "running", owner |-> w, live |-> TRUE]
      BY <1>0, <1>6, <3>1 DEF Claim
    <3> QED
      BY <2>1, <3>2
  <2>2. CASE v # w
    <3>1. wk'[v] = wk[v]
      BY <1>6, <2>2, EndMoves
    <3>2. s # t
      BY <1>0, <1>6, <3>1 DEF Claim
    <3>3. task'[t] = task[t]
      BY <1>0, <1>6, <3>2 DEF Claim
    <3> QED
      BY <1>1, <3>1, <3>3
  <2> QED
    BY <2>1, <2>2
<1>7. ASSUME NEW w \in Worker, Finish(w) \/ Fail(w) \/ Abandon(w) PROVE Goal
  <2>1. v # w /\ wk'[v] = wk[v]
    <3>1. Idle.task = NoTask
      BY DEF Idle
    <3> QED
      BY <1>0, <1>7, <3>1, EndMoves
  <2>2. task'[t] = task[t]
    <3>1. task[t].owner # w
      BY <1>0, <2>1
    <3>2. task' = task \/ \E s \in TaskStatus : Release(w, s)
      BY <1>7 DEF Finish, Fail, Abandon, TaskStatus
    <3> QED
      BY <1>0, <3>1, <3>2 DEF Release
  <2> QED
    BY <1>1, <2>1, <2>2
<1>8. ASSUME NEW w \in Worker, ReadAction(w) \/ LookAtUser(w) \/ RecordBefore(w) PROVE Goal
  <2>1. task' = task /\ wk'[v].task = wk[v].task
    BY <1>8, ReadMoves, ZenonT(60) DEF ReadAction, LookAtUser, RecordBefore
  <2> QED
    BY <1>1, <2>1
<1>9. ASSUME NEW w \in Worker, Start(w) \/ Apply(w) \/ ApplyUnrecorded(w) \/ StepFails(w)
                               \/ FlagEffect(w) \/ Complete(w)
      PROVE  Goal
  <2>1. PICK p \in Phase : Go(w, p)
    BY <1>9, WorkMoves DEF Phase
  <2>2. wk'[v].task = wk[v].task
    BY <2>1, GoMoves
  <2>3. task' = task
    BY <1>9 DEF Start, Apply, ApplyUnrecorded, StepFails, FlagEffect, Complete
  <2> QED
    BY <1>1, <2>2, <2>3
<1> QED
  BY <1>2, <1>3, <1>4, <1>5, <1>6, <1>7, <1>8, <1>9 DEF RiskNext, Administrate, Work

\* Only the review creates the revert, and nothing takes the review back.
LEMMA ReviewStays ==
  ASSUME Typed, OneWorker, [RiskNext]_riskVars
  PROVE  /\ event = "false_positive" => event' = "false_positive"
         /\ MarkRiskFalsePositive \/ (task["revert"].status = "absent" => task'["revert"].status = "absent")
<1>0. task \in [TaskName -> TaskRow] /\ "revert" \in TaskName /\ \A t \in TaskName : task[t] \in TaskRow
  BY DEF Typed, TaskName
<1>1. event = "false_positive" => event' = "false_positive"
  BY DEF RiskNext, riskVars, Administrate, Work, DispositionRiskEvent, MarkRiskFalsePositive, RetryTask,
         Claim, ReadAction, Start, LookAtUser, RecordBefore, Apply, ApplyUnrecorded, StepFails,
         FlagEffect, Complete, Finish, Fail, Abandon, LeaseLapses, LeaseStalls
<1>2. ASSUME ~MarkRiskFalsePositive, task["revert"].status = "absent"
      PROVE  task'["revert"].status = "absent"
  <2>1. CASE task' = task
    BY <1>2, <2>1
  <2>2. CASE \E t \in TaskName : RetryTask(t) \/ LeaseLapses(t) \/ LeaseStalls(t)
    BY <1>0, <1>2, <2>2 DEF RetryTask, LeaseLapses, LeaseStalls, TaskRow
  <2>3. CASE \E w \in Worker : \E t \in TaskName : Claim(w, t)
    BY <1>0, <1>2, <2>3 DEF Claim, TaskRow
  <2>4. ASSUME NEW w \in Worker, NEW s \in TaskStatus, Release(w, s)
        PROVE  task'["revert"].status = "absent"
    <3>1. wk[w].task # "revert"
      BY <1>0, <1>2 DEF OneWorker
    <3> QED
      BY <1>0, <1>2, <2>4, <3>1 DEF Release
  <2>5. CASE \E w \in Worker : Finish(w) \/ Fail(w)
    BY <2>4, <2>5 DEF Finish, Fail, TaskStatus
  <2> QED
    BY <1>2, <2>1, <2>2, <2>3, <2>5
    DEF RiskNext, riskVars, Administrate, Work, DispositionRiskEvent, ReadAction, Start, LookAtUser,
        RecordBefore, Apply, ApplyUnrecorded, StepFails, FlagEffect, Complete, Abandon
<1> QED
  BY <1>1, <1>2

\* The columns of the row that RowFacts is about, and how a status alone moves.
LEMMA StatusOnly ==
  ASSUME Typed, NEW s \in ActionStatus, action' = [action EXCEPT !.status = s]
  PROVE  /\ action'.status = s /\ action'.type = action.type /\ action'.before = action.before
         /\ action'.applied = action.applied /\ action'.undone = action.undone
  BY DEF Typed, ActionRow

\* No administrator, worker or crash brings the row out of step with the
\* server.
LEMMA StepRowFacts == Typed /\ Busy /\ Calm /\ [RiskNext]_riskVars => RowFacts'
<1> SUFFICES ASSUME Typed, Busy, Calm, [RiskNext]_riskVars PROVE RowFacts'
  OBVIOUS
<1> USE DEF Calm
<1>0. /\ action \in ActionRow /\ history \in Past /\ remote \in BOOLEAN
      /\ \A w \in Worker : wk[w] \in Mind /\ (wk[w].phase # "idle" => wk[w].task \in TaskName)
      /\ event = "false_positive" => event' = "false_positive"
  BY ReviewStays DEF Typed, Busy, Mind
<1>1. ASSUME NEW s \in ActionStatus, action' = action \/ action' = [action EXCEPT !.status = s],
             s \notin {"succeeded", "reverted"}, UNCHANGED <<remote, history>>,
             ~MarkRiskFalsePositive
      PROVE  RowFacts'
  <2>1. task["revert"].status = "absent" => task'["revert"].status = "absent"
    BY <1>1, ReviewStays
  <2>2. /\ action'.type = action.type /\ action'.before = action.before
        /\ action'.applied = action.applied /\ action'.undone = action.undone
        /\ action'.status = action.status \/ action'.status \notin {"succeeded", "reverted"}
    BY <1>1, StatusOnly
  <2> QED
    BY <1>0, <1>1, <2>1, <2>2 DEF RowFacts, Known, Disables
<1>2. CASE UNCHANGED riskVars \/ \E s \in {"acknowledged", "resolved"} : DispositionRiskEvent(s)
  <2>1. action' = action /\ UNCHANGED <<remote, history, task>>
    BY <1>2 DEF riskVars, DispositionRiskEvent
  <2> QED
    BY <1>0, <2>1 DEF RowFacts, Known, Disables
<1>3. CASE MarkRiskFalsePositive
  <2>0. UNCHANGED <<remote, history>> /\ event' = "false_positive" /\ task["revert"].status = "absent"
    BY <1>3 DEF MarkRiskFalsePositive, RowFacts
  <2>1. CASE CancelAction
    <3>1. task'["revert"] = task["revert"]
      BY <2>1 DEF CancelAction, Typed, TaskName
    <3>2. /\ action'.type = action.type /\ action'.before = action.before
          /\ action'.applied = action.applied /\ action'.undone = action.undone
          /\ action'.status = "canceled"
      BY <2>1, StatusOnly DEF CancelAction, ActionStatus
    <3> QED
      BY <2>0, <3>1, <3>2 DEF RowFacts, Known, Disables
  <2>2. CASE QueueRevert
    <3>1. action.applied /\ Disables
      BY <2>2 DEF QueueRevert, RowFacts
    <3>2. /\ action'.type = action.type /\ action'.before = action.before
          /\ action'.applied = action.applied /\ action'.undone = action.undone
          /\ action'.status = "revert_pending"
      BY <2>2, StatusOnly DEF QueueRevert, ActionStatus
    <3> QED
      BY <2>0, <3>1, <3>2 DEF RowFacts, Known, Disables
  <2>3. CASE UNCHANGED <<action, task>>
    BY <2>0, <2>3 DEF RowFacts, Known, Disables
  <2> QED
    BY <1>3, <2>1, <2>2, <2>3 DEF MarkRiskFalsePositive
<1>4. ASSUME ~MarkRiskFalsePositive, UNCHANGED <<action, remote, history>> PROVE RowFacts'
  BY <1>1, <1>4 DEF ActionStatus
<1>5. ASSUME NEW w \in Worker, ~MarkRiskFalsePositive, Start(w) \/ Fail(w) PROVE RowFacts'
  <2>1. UNCHANGED <<remote, history>> /\ \E s \in {"running", "reverting", "failed", "revert_failed"} :
          action' = action \/ action' = [action EXCEPT !.status = s]
    BY <1>5 DEF Start, Fail
  <2> QED
    BY <1>1, <1>5, <2>1 DEF ActionStatus
<1>6. ASSUME NEW w \in Worker, ~MarkRiskFalsePositive, RecordBefore(w) PROVE RowFacts'
  <2>1. wk[w].task = "action" /\ ActionWorker(w) /\ wk[w].phase = "record"
    BY <1>0, <1>6 DEF RecordBefore, At, WorkerFacts, RevertWorker, TaskName
  <2>2. CASE action' = action
    BY <1>4, <1>6, <2>2 DEF RecordBefore
  <2>3. CASE action' # action
    <3>1. /\ wk[w].before = "unknown" /\ action' = [action EXCEPT !.before = Flag(wk[w].seen)]
          /\ UNCHANGED <<remote, history, task>>
      BY <1>6, <2>3 DEF RecordBefore
    <3>2. ~Known /\ wk[w].seen = history.original /\ action.status = "running" /\ ~action.applied
      BY <2>1, <3>1 DEF ActionWorker, Known
    <3>3. /\ action'.type = action.type /\ action'.before = Flag(history.original)
          /\ action'.applied = action.applied /\ action'.undone = action.undone
          /\ action'.status = action.status
      BY <1>0, <3>1, <3>2 DEF ActionRow
    <3>4. Flag(history.original) # "unknown" /\ history' = history /\ remote' = remote
      BY <3>1 DEF Flag
    <3>5. Known'
      BY <3>3, <3>4 DEF Known
    <3>6. Flag(history.original)' = Flag(history.original)
      BY <3>4
    <3> QED
      BY <1>0, <3>1, <3>2, <3>3, <3>4, <3>5, <3>6 DEF RowFacts, Disables
  <2> QED
    BY <2>2, <2>3
<1>7. ASSUME NEW w \in Worker, ~MarkRiskFalsePositive, Apply(w) \/ ApplyUnrecorded(w)
      PROVE  RowFacts'
  <2>0. action' = action /\ task' = task /\ wk[w].phase = "apply" /\ wk[w].task \in TaskName
    BY <1>0, <1>7 DEF Apply, ApplyUnrecorded, At
  <2>1. CASE UNCHANGED <<remote, history>>
    BY <1>4, <1>7, <2>0, <2>1
  <2>2. CASE Bring(w)
    <3>1. history'.original = history.original
      BY <1>0, <2>2 DEF Bring, Past
    <3>2. CASE wk[w].task = "action"
      <4>1. Known /\ ~action.applied
        BY <2>0, <3>2 DEF WorkerFacts, ActionWorker
      <4> QED
        BY <1>0, <2>0, <3>1, <4>1 DEF RowFacts, Known, Disables, Flag
    <3>3. CASE wk[w].task = "revert"
      <4>1. Known /\ wk[w].before = action.before
        BY <2>0, <3>3, Companions DEF WorkerFacts, RevertWorker
      <4>2. action.before = Flag(history.original)
        BY <4>1 DEF RowFacts
      <4>3. remote' = (wk[w].before = "yes")
        BY <2>2, <3>3 DEF Bring, Target
      <4>4. history.original \in BOOLEAN
        BY <1>0 DEF Past
      <4>5. remote' = history.original
        BY <4>1, <4>2, <4>3, <4>4 DEF Flag
      <4> QED
        BY <1>0, <2>0, <3>1, <4>1, <4>5 DEF RowFacts, Known, Disables, Flag
    <3> QED
      BY <2>0, <3>2, <3>3 DEF TaskName
  <2> QED
    BY <1>7, <2>1, <2>2 DEF Apply, ApplyUnrecorded
<1>8. ASSUME NEW w \in Worker, ~MarkRiskFalsePositive, FlagEffect(w) PROVE RowFacts'
  <2>0. /\ UNCHANGED <<remote, history, task>> /\ wk[w].phase = "flag" /\ wk[w].task \in TaskName
        /\ action'.type = action.type /\ action'.before = action.before
        /\ action'.status = action.status
    BY <1>0, <1>8 DEF FlagEffect, At, ActionRow
  <2>1. CASE wk[w].task = "action"
    <3>1. Known /\ action.status = "running" /\ ~action.applied
      BY <2>0, <2>1 DEF WorkerFacts, ActionWorker
    <3>2. action'.applied /\ action'.undone = action.undone
      BY <1>0, <1>8, <2>1 DEF FlagEffect, ActionRow
    <3> QED
      BY <1>0, <2>0, <3>1, <3>2 DEF RowFacts, Known, Disables
  <2>2. CASE wk[w].task = "revert"
    <3>1. action.applied /\ remote = history.original
      BY <2>0, <2>2, Companions DEF WorkerFacts, RevertWorker
    <3>2. action'.applied = action.applied
      BY <1>0, <1>8, <2>2 DEF FlagEffect, ActionRow
    <3> QED
      BY <1>0, <2>0, <3>1, <3>2 DEF RowFacts, Known, Disables
  <2> QED
    BY <2>0, <2>1, <2>2 DEF TaskName
<1>9. ASSUME NEW w \in Worker, ~MarkRiskFalsePositive, Complete(w) PROVE RowFacts'
  <2>0. /\ UNCHANGED <<remote, history, task>> /\ wk[w].phase = "complete" /\ wk[w].task \in TaskName
        /\ action'.type = action.type /\ action'.applied = action.applied
        /\ action'.undone = action.undone
    BY <1>0, <1>9 DEF Complete, At, ActionRow
  <2>1. CASE wk[w].task = "action"
    <3>1. action.applied /\ wk[w].before = action.before
      BY <2>0, <2>1 DEF WorkerFacts, ActionWorker
    <3>2. action'.before = action.before /\ action'.status = "succeeded"
      BY <1>0, <1>9, <2>1, <3>1 DEF Complete, ActionRow
    <3> QED
      BY <1>0, <2>0, <3>1, <3>2 DEF RowFacts, Known, Disables
  <2>2. CASE wk[w].task = "revert"
    <3>1. action.applied /\ remote = history.original
      BY <2>0, <2>2, Companions DEF WorkerFacts, RevertWorker
    <3>2. action'.before = action.before /\ action'.status = "reverted"
      BY <1>0, <1>9, <2>2 DEF Complete, ActionRow
    <3> QED
      BY <1>0, <2>0, <3>1, <3>2 DEF RowFacts, Known, Disables
  <2> QED
    BY <2>0, <2>1, <2>2 DEF TaskName
<1>10. ASSUME ~MarkRiskFalsePositive,
              \/ \E t \in TaskName : RetryTask(t) \/ LeaseLapses(t) \/ LeaseStalls(t)
              \/ \E w \in Worker : \/ ReadAction(w) \/ LookAtUser(w) \/ StepFails(w) \/ Finish(w)
                                   \/ Abandon(w) \/ \E t \in TaskName : Claim(w, t)
       PROVE  RowFacts'
  <2>1. UNCHANGED <<action, remote, history>>
    BY <1>10 DEF RetryTask, LeaseLapses, LeaseStalls, ReadAction, LookAtUser, StepFails, Finish,
                 Abandon, Claim
  <2> QED
    BY <1>4, <1>10, <2>1
<1> QED
  BY <1>2, <1>3, <1>5, <1>6, <1>7, <1>8, <1>9, <1>10 DEF RiskNext, Administrate, Work

\* Nobody else moves the row or the server under a working worker.
LEMMA OthersKeep ==
  ASSUME Typed, Calm, NEW v \in Worker, wk'[v] = wk[v],
         \/ UNCHANGED <<action, remote, history>> \/ MarkRiskFalsePositive
         \/ \E w \in Worker : w # v /\ wk[w].task \in TaskName /\ Work(w),
         wk[v].task = "action" => ActionWorker(v),
         wk[v].task = "revert" => RevertWorker(v)
  PROVE  /\ wk'[v].task = "action" => ActionWorker(v)'
         /\ wk'[v].task = "revert" => RevertWorker(v)'
<1> USE DEF Calm
<1>0. /\ action \in ActionRow /\ history \in Past
      /\ \A w \in Worker : wk[w] \in Mind
  BY DEF Typed
<1> DEFINE Kept == /\ wk'[v].task = "action" => ActionWorker(v)'
                   /\ wk'[v].task = "revert" => RevertWorker(v)'
           Working == wk[v].task \in TaskName
           Midway == wk[v].phase \in {"look", "record", "apply", "flag"}
<1>1. ASSUME remote' = remote, history'.original = history.original,
             Working => action'.before = action.before,
             wk[v].task = "action" =>
               /\ action'.applied = action.applied
               /\ Midway => action'.status = action.status,
             wk[v].task = "revert" => action'.undone = action.undone
      PROVE  Kept
  <2>1. Working => (Known' <=> Known)
    BY <1>1 DEF Known
  <2>2. ASSUME wk[v].task = "action" PROVE ActionWorker(v)'
    <3>1. Working
      BY <2>2 DEF TaskName
    <3> QED
      BY <1>1, <2>1, <2>2, <3>1 DEF ActionWorker
  <2>3. ASSUME wk[v].task = "revert" PROVE RevertWorker(v)'
    <3>1. Working
      BY <2>3 DEF TaskName
    <3> QED
      BY <1>1, <2>1, <2>3, <3>1 DEF RevertWorker
  <2> QED
    BY <2>2, <2>3
<1>2. ASSUME ~Working PROVE Kept
  BY <1>2 DEF TaskName
<1>3. ASSUME UNCHANGED <<action, remote, history>> PROVE Kept
  BY <1>1, <1>3
<1>4. CASE MarkRiskFalsePositive
  <2>1. UNCHANGED <<remote, history>>
    BY <1>4 DEF MarkRiskFalsePositive
  <2>2. /\ action'.before = action.before /\ action'.applied = action.applied
        /\ action'.undone = action.undone
        /\ action' = action \/ action.status # "running"
    BY <1>0, <1>4 DEF MarkRiskFalsePositive, CancelAction, QueueRevert, ActionRow
  <2>3. wk[v].task = "action" /\ Midway => action.status = "running"
    BY DEF ActionWorker
  <2> QED
    BY <1>1, <2>1, <2>2, <2>3
<1>5. ASSUME NEW w \in Worker, v # w, Working, wk[w].task \in TaskName
      PROVE  /\ wk[v].task = "revert" => wk[w].task = "action" /\ action.applied /\ Known
             /\ wk[v].task = "action" => wk[w].task = "revert" /\ action.applied /\ ~Midway
  <2>1. wk[v].task # wk[w].task
    BY <1>5, Companions
  <2>2. wk[v].task = "revert" \/ wk[w].task = "revert" => action.applied /\ Known
    BY <1>5, Companions
  <2> QED
    BY <1>5, <2>1, <2>2 DEF TaskName, ActionWorker
<1>6. ASSUME NEW w \in Worker, v # w, Working, wk[w].task \in TaskName, Start(w) \/ Fail(w)
      PROVE  Kept
  <2>1. UNCHANGED <<remote, history>> /\ (action' = action \/ \E s \in ActionStatus :
          action' = [action EXCEPT !.status = s])
    BY <1>6 DEF Start, Fail, ActionStatus
  <2>2. /\ action'.before = action.before /\ action'.applied = action.applied
        /\ action'.undone = action.undone
    BY <2>1, StatusOnly
  <2>3. wk[v].task = "action" => ~Midway
    BY <1>5, <1>6
  <2> QED
    BY <1>1, <2>1, <2>2, <2>3
<1>7. ASSUME NEW w \in Worker, v # w, Working, wk[w].task \in TaskName,
             wk[w].phase \in {"record", "apply", "flag"}
      PROVE  wk[v].task = "action" /\ wk[w].task = "revert"
  <2>1. wk[w].task = "action" => ~action.applied
    BY <1>7 DEF WorkerFacts, ActionWorker
  <2> QED
    BY <1>5, <1>7, <2>1 DEF TaskName
<1>8. ASSUME NEW w \in Worker, v # w, Working, wk[w].task \in TaskName,
             RecordBefore(w) \/ Apply(w) \/ ApplyUnrecorded(w) \/ FlagEffect(w)
      PROVE  Kept
  <2>1. wk[w].phase \in {"record", "apply", "flag"}
    BY <1>8 DEF RecordBefore, Apply, ApplyUnrecorded, FlagEffect, At
  <2>2. wk[v].task = "action" /\ wk[w].task = "revert" /\ ~Midway
    BY <1>5, <1>7, <1>8, <2>1
  <2>3. wk[w].phase # "record"
    BY <2>2 DEF WorkerFacts, RevertWorker
  <2>4. action'.before = action.before /\ action'.applied = action.applied
    BY <1>0, <1>8, <2>2, <2>3
    DEF RecordBefore, Apply, ApplyUnrecorded, FlagEffect, At, ActionRow
  <2>5. wk[v].phase \notin {"look", "record", "apply", "flag"} /\ wk'[v].task = "action"
    BY <2>2
  <2> QED
    BY <2>2, <2>4, <2>5 DEF ActionWorker
<1>9. ASSUME NEW w \in Worker, v # w, Working, wk[w].task \in TaskName, Complete(w) PROVE Kept
  <2>1. UNCHANGED <<remote, history>> /\ action'.applied = action.applied
        /\ action'.undone = action.undone
    BY <1>0, <1>9 DEF Complete, ActionRow
  <2>2. action'.before = action.before
    <3>1. CASE wk[w].task = "action"
      <4>1. wk[w].before = action.before
        BY <1>9, <3>1 DEF Complete, At, WorkerFacts, ActionWorker
      <4> QED
        BY <1>0, <1>9, <3>1, <4>1 DEF Complete, ActionRow
    <3>2. CASE wk[w].task # "action"
      BY <1>0, <1>9, <3>2 DEF Complete, ActionRow
    <3> QED
      BY <3>1, <3>2
  <2>3. wk[v].task = "action" => ~Midway
    BY <1>5, <1>9
  <2> QED
    BY <1>1, <2>1, <2>2, <2>3
<1>10. ASSUME NEW w \in Worker, v # w, wk[w].task \in TaskName, Work(w) PROVE Kept
  <2>1. CASE ReadAction(w) \/ LookAtUser(w) \/ StepFails(w) \/ Finish(w)
    BY <1>3, <2>1 DEF ReadAction, LookAtUser, StepFails, Finish
  <2>2. CASE Working
    BY <1>6, <1>8, <1>9, <1>10, <2>1, <2>2 DEF Work
  <2> QED
    BY <1>2, <2>2
<1> QED
  BY <1>3, <1>4, <1>10

\* A worker that has nothing left to do with the action relies on nothing.
LEMMA NothingKnown ==
  ASSUME NEW w \in Worker, wk'[w].phase \in {"idle", "finish", "error", "permanent"}
  PROVE  ActionWorker(w)' /\ RevertWorker(w)'
  BY DEF ActionWorker, RevertWorker

\* Every step of executeRiskAction leaves its worker knowing what the next
\* step relies on.
LEMMA StepWorkerFacts == Typed /\ Busy /\ Sources /\ Calm /\ [RiskNext]_riskVars => WorkerFacts'
<1> SUFFICES ASSUME Typed, Busy, Calm, [RiskNext]_riskVars, NEW v \in Worker
             PROVE  /\ wk'[v].task = "action" => ActionWorker(v)'
                    /\ wk'[v].task = "revert" => RevertWorker(v)'
  BY DEF WorkerFacts
<1> USE DEF Calm
<1> DEFINE Goal == /\ wk'[v].task = "action" => ActionWorker(v)'
                   /\ wk'[v].task = "revert" => RevertWorker(v)'
<1>0. /\ action \in ActionRow /\ history \in Past /\ remote \in BOOLEAN
      /\ \A w \in Worker : wk[w] \in Mind /\ (wk[w].phase # "idle" => wk[w].task \in TaskName)
      /\ wk[v].task = "action" => ActionWorker(v)
      /\ wk[v].task = "revert" => RevertWorker(v)
  BY DEF Typed, Busy, Mind, WorkerFacts
<1>1. CASE \/ UNCHANGED riskVars \/ Administrate
           \/ \E t \in TaskName : LeaseLapses(t) \/ LeaseStalls(t)
  <2>1. wk'[v] = wk[v]
    BY <1>1, OutsideMoves DEF riskVars
  <2>2. UNCHANGED <<action, remote, history>> \/ MarkRiskFalsePositive
    BY <1>1 DEF riskVars, Administrate, DispositionRiskEvent, RetryTask, LeaseLapses, LeaseStalls
  <2> QED
    BY <1>0, <2>1, <2>2, OthersKeep
<1>2. ASSUME NEW w \in Worker, NEW t \in TaskName, Claim(w, t) PROVE Goal
  <2>1. UNCHANGED <<action, remote, history>>
    BY <1>2 DEF Claim
  <2>2. CASE w = v
    <3>1. wk'[v].phase = "read" /\ wk'[v].seen = FALSE
      BY <1>2, <2>2, EndMoves
    <3> QED
      BY <3>1 DEF ActionWorker, RevertWorker
  <2>3. CASE w # v
    BY <1>0, <1>2, <2>1, <2>3, EndMoves, OthersKeep
  <2> QED
    BY <2>2, <2>3
<1>3. ASSUME NEW w \in Worker, Abandon(w) PROVE Goal
  <2>1. UNCHANGED <<action, remote, history>>
    BY <1>3 DEF Abandon
  <2>2. CASE w = v
    <3>1. wk'[v] = Idle /\ Idle.phase = "idle"
      BY <1>3, <2>2, EndMoves DEF Idle
    <3> QED
      BY <3>1, NothingKnown
  <2>3. CASE w # v
    BY <1>0, <1>3, <2>1, <2>3, EndMoves, OthersKeep
  <2> QED
    BY <2>2, <2>3
<1>4. ASSUME NEW w \in Worker, w # v, Work(w) PROVE Goal
  <2>1. wk'[v] = wk[v]
    <3>1. CASE \E p \in Phase : Go(w, p)
      BY <1>4, <3>1, GoMoves
    <3>2. CASE ReadAction(w) \/ LookAtUser(w) \/ RecordBefore(w)
      BY <1>4, <3>2, ReadMoves
    <3>3. CASE Finish(w) \/ Fail(w)
      BY <1>4, <3>3, EndMoves
    <3> QED
      BY <1>4, <3>1, <3>2, <3>3, WorkMoves DEF Work, Phase
  <2>2. wk[w].task \in TaskName
    BY <1>0, <1>4 DEF Work, ReadAction, Start, LookAtUser, RecordBefore, Apply, ApplyUnrecorded,
                      StepFails, FlagEffect, Complete, Finish, Fail, At
  <2> QED
    BY <1>0, <1>4, <2>1, <2>2, OthersKeep
<1>5. CASE ReadAction(v)
  <2>1. /\ wk'[v].phase \in {"finish", "start"} /\ wk'[v].task = wk[v].task
        /\ wk'[v].before = action.before /\ wk'[v].effect = EffectOf(wk[v].task)
        /\ wk'[v].seen = wk[v].seen
    BY <1>5, ReadMoves
  <2>4. UNCHANGED <<action, remote, history>> /\ wk[v].phase = "read"
    BY <1>5 DEF ReadAction, At
  <2>2. CASE wk[v].task = "action"
    BY <1>0, <2>1, <2>2, <2>4 DEF ActionWorker, EffectOf
  <2>3. CASE wk[v].task = "revert"
    BY <1>0, <2>1, <2>3, <2>4 DEF RevertWorker, EffectOf
  <2> QED
    BY <2>1, <2>2, <2>3
<1>6. CASE Start(v)
  <2>1. PICK p \in {"complete", "look", "record", "permanent"} : Go(v, p)
    BY <1>6, WorkMoves
  <2>2. /\ wk'[v].phase = p /\ wk'[v].task = wk[v].task /\ wk'[v].before = wk[v].before
        /\ wk'[v].effect = wk[v].effect /\ wk'[v].seen = wk[v].seen
    BY <2>1, GoMoves DEF Phase
  <2>3. UNCHANGED <<remote, history>> /\ wk[v].phase = "start"
    BY <1>6 DEF Start, At
  <2>4. CASE p = "permanent"
    BY <2>2, <2>4, NothingKnown
  <2>5. ASSUME p # "permanent"
        PROVE  /\ action' = [action EXCEPT !.status =
                               IF wk[v].task = "action" THEN "running" ELSE "reverting"]
               /\ p = "complete" <=> wk[v].effect
               /\ p = "look" => Disables
               /\ p = "record" => ~Disables
    <3>1. action' = [action EXCEPT !.status =
                       IF wk[v].task = "action" THEN "running" ELSE "reverting"]
          /\ Go(v, IF wk[v].effect THEN "complete" ELSE IF Disables THEN "look" ELSE "record")
      <4>1. ~Go(v, "permanent")
        BY <2>2, <2>5, GoMoves DEF Phase
      <4> QED
        BY <1>6, <4>1 DEF Start
    <3>2. p = IF wk[v].effect THEN "complete" ELSE IF Disables THEN "look" ELSE "record"
      BY <2>2, <3>1, GoMoves DEF Phase
    <3> QED
      BY <3>1, <3>2
  <2>6. CASE p # "permanent" /\ wk[v].task = "action"
    <3>1. /\ action'.status = "running" /\ action'.applied = action.applied
          /\ action'.before = action.before
      BY <2>5, <2>6, StatusOnly DEF ActionStatus
    <3>2. wk[v].effect = action.applied /\ ~wk[v].seen /\ wk[v].before = action.before
      BY <1>0, <2>3, <2>6 DEF ActionWorker
    <3>3. p = "record" => ~history.original
      BY <2>5, <2>6 DEF RowFacts
    <3>4. wk[v].seen \in BOOLEAN /\ history.original \in BOOLEAN
      BY <1>0 DEF Mind, Past
    <3>5. p = "record" => wk[v].seen = history.original
      BY <3>2, <3>3, <3>4
    <3>6. p # "complete" => ~action.applied
      BY <2>5, <2>6, <3>2
    <3>7. p = "complete" => action.applied
      BY <2>5, <2>6, <3>2
    <3>8. wk'[v].seen = wk[v].seen /\ wk'[v].before = action'.before /\ wk'[v].phase = p
      BY <2>2, <3>1, <3>2
    <3>9. p = "record" => wk'[v].seen = history'.original
      BY <2>3, <3>5, <3>8
    <3>10. action'.applied => action.applied
      BY <3>1
    <3>11. action.applied => action'.applied
      BY <3>1
    <3>12. wk'[v].phase \in {"look", "record", "apply", "flag"} =>
             action'.status = "running" /\ ~action'.applied
      BY <3>1, <3>6, <3>8, <3>10
    <3>13. wk'[v].phase = "complete" => action'.applied
      BY <3>7, <3>8, <3>11
    <3>14. wk'[v].phase \notin {"read", "start", "apply", "flag"}
      BY <2>6, <3>8
    <3>15. ActionWorker(v)'
      BY <3>8, <3>9, <3>12, <3>13, <3>14 DEF ActionWorker
    <3> QED
      BY <2>2, <2>6, <3>15
  <2>7. CASE p # "permanent" /\ wk[v].task = "revert"
    <3>1. /\ action'.undone = action.undone /\ action'.before = action.before
      BY <2>5, <2>7, StatusOnly DEF ActionStatus
    <3>2. wk[v].effect = action.undone /\ wk[v].before = action.before
      BY <1>0, <2>3, <2>7 DEF RevertWorker
    <3>3. Disables
      BY <2>7, Companions
    <3>4. action.undone => remote = history.original
      BY DEF RowFacts
    <3> QED
      BY <2>2, <2>3, <2>5, <2>7, <3>1, <3>2, <3>3, <3>4 DEF RevertWorker
  <2>8. wk[v].task \in TaskName
    BY <1>0, <2>3
  <2> QED
    BY <2>4, <2>6, <2>7, <2>8 DEF TaskName
<1>7. CASE LookAtUser(v)
  <2>1. /\ wk'[v].task = wk[v].task /\ wk'[v].before = wk[v].before
        /\ \/ /\ wk'[v].seen = remote
              /\ wk'[v].phase = IF wk[v].task = "action" THEN "record" ELSE "apply"
           \/ wk'[v].phase = "permanent"
    BY <1>7, ReadMoves
  <2>2. UNCHANGED <<action, remote, history>> /\ wk[v].phase = "look"
    BY <1>7 DEF LookAtUser, At
  <2>3. CASE wk'[v].phase = "permanent"
    BY <2>3, NothingKnown
  <2>4. CASE wk'[v].phase # "permanent" /\ wk[v].task = "action"
    <3>1. ~Known => remote = history.original
      BY DEF RowFacts
    <3> QED
      BY <1>0, <2>1, <2>2, <2>4, <3>1 DEF ActionWorker, Known
  <2>5. CASE wk'[v].phase # "permanent" /\ wk[v].task = "revert"
    BY <1>0, <2>1, <2>2, <2>5 DEF RevertWorker
  <2>6. wk[v].task \in TaskName
    BY <1>0, <2>2
  <2> QED
    BY <2>3, <2>4, <2>5, <2>6 DEF TaskName
<1>8. CASE RecordBefore(v)
  <2>1. /\ wk'[v].task = wk[v].task /\ wk'[v].phase = "apply"
        /\ wk'[v].before = IF wk[v].before = "unknown" THEN Flag(wk[v].seen) ELSE wk[v].before
    BY <1>8, ReadMoves
  <2>2. UNCHANGED <<remote, history>> /\ wk[v].phase = "record" /\ wk[v].task = "action"
    BY <1>0, <1>8 DEF RecordBefore, At, RevertWorker, TaskName
  <2>3. action.status = "running" /\ ~action.applied /\ wk[v].before = action.before
    BY <1>0, <2>2 DEF ActionWorker
  <2>4. /\ action'.before = wk'[v].before /\ action'.status = action.status
        /\ action'.applied = action.applied
    BY <1>0, <1>8, <2>1, <2>3 DEF RecordBefore, ActionRow
  <2>5. wk'[v].before # "unknown"
    BY <2>1 DEF Flag
  <2> QED
    BY <2>1, <2>2, <2>3, <2>4, <2>5 DEF ActionWorker, Known
<1>9. CASE Apply(v)
  <2>1. /\ wk'[v].phase = "flag" /\ wk'[v].task = wk[v].task /\ wk'[v].before = wk[v].before
    BY <1>9, WorkMoves, GoMoves DEF Phase
  <2>2. action' = action /\ wk[v].phase = "apply" /\ wk[v].task \in TaskName
    BY <1>0, <1>9 DEF Apply, At
  <2>3. CASE wk[v].task = "action"
    BY <1>0, <2>1, <2>2, <2>3 DEF ActionWorker, Known
  <2>4. CASE wk[v].task = "revert"
    <3>1. /\ wk[v].before = action.before /\ wk[v].seen = remote
          /\ action.before = Flag(history.original)
      BY <1>0, <2>2, <2>4, Companions DEF RevertWorker, RowFacts
    <3>2. history.original \in BOOLEAN /\ (Target(v) <=> wk[v].before = "yes")
      BY <1>0, <2>4 DEF Past, Target
    <3>3. Target(v) = history.original
      BY <2>4, <3>1, <3>2 DEF Flag, Target
    <3>4. remote' = history'.original
      <4>1. CASE Bring(v)
        BY <1>0, <3>3, <4>1 DEF Bring, Past
      <4>2. CASE UNCHANGED <<remote, history>> /\ wk[v].seen = Target(v)
        BY <3>1, <3>3, <4>2
      <4> QED
        BY <1>9, <4>1, <4>2 DEF Apply
    <3> QED
      BY <2>1, <2>4, <3>4 DEF RevertWorker
  <2> QED
    BY <2>2, <2>3, <2>4 DEF TaskName
<1>10. CASE FlagEffect(v)
  <2>1. /\ wk'[v].phase = "complete" /\ wk'[v].task = wk[v].task /\ wk'[v].before = wk[v].before
    BY <1>10, WorkMoves, GoMoves DEF Phase
  <2>2. /\ UNCHANGED <<remote, history>> /\ wk[v].phase = "flag" /\ wk[v].task \in TaskName
        /\ action'.before = action.before
    BY <1>0, <1>10 DEF FlagEffect, At, ActionRow
  <2>3. CASE wk[v].task = "action"
    <3>1. action'.applied
      BY <1>0, <1>10, <2>3 DEF FlagEffect, ActionRow
    <3> QED
      BY <1>0, <2>1, <2>2, <2>3, <3>1 DEF ActionWorker, Known
  <2>4. CASE wk[v].task = "revert"
    BY <1>0, <2>1, <2>2, <2>4 DEF RevertWorker
  <2> QED
    BY <2>2, <2>3, <2>4 DEF TaskName
<1>11. ASSUME wk'[v].phase \in {"idle", "finish", "error", "permanent"} PROVE Goal
  BY <1>11, NothingKnown
<1>12. CASE ApplyUnrecorded(v) \/ StepFails(v) \/ Complete(v)
  <2>1. PICK p \in {"error", "permanent", "finish"} : Go(v, p)
    BY <1>12, WorkMoves
  <2>2. wk'[v].phase = p
    BY <2>1, GoMoves DEF Phase
  <2> QED
    BY <1>11, <2>2
<1>13. CASE Finish(v) \/ Fail(v)
  <2>1. wk'[v] = Idle /\ Idle.phase = "idle"
    BY <1>13, EndMoves DEF Idle
  <2> QED
    BY <1>11, <2>1
<1> QED
  BY <1>1, <1>2, <1>3, <1>4, <1>5, <1>6, <1>7, <1>8, <1>9, <1>10, <1>12, <1>13 DEF RiskNext, Work

-----------------------------------------------------------------------------
(* The theorem. *)

IInv == Typed /\ Busy /\ Sources /\ (spent["stall"] = 0 => Calm)

\* When the action is created nothing has been done or recorded.
LEMMA InitInv == RiskInit => IInv
<1> SUFFICES ASSUME RiskInit PROVE IInv
  OBVIOUS
<1>1. Typed
  BY InitTyped, TypedIsTypeOK
<1>2. \A w \in Worker : wk[w] = Idle
  BY DEF RiskInit
<1>3. /\ Idle.task = NoTask /\ Idle.phase = "idle" /\ Idle.before = "unknown" /\ Idle.seen = FALSE
      /\ NoTask \notin TaskName
  BY RiskAssumption DEF Idle
<1>4. Busy
  BY <1>2, <1>3 DEF Busy
<1>5. /\ action.before = "unknown" /\ action.applied = FALSE /\ action.undone = FALSE
      /\ action.status = "pending" /\ (~Disables => ~remote)
  BY DEF RiskInit, Disables
<1>6. history.original = remote /\ history.enforced = FALSE /\ task["revert"].status = "absent"
  BY DEF RiskInit, TaskName
<1>7. Sources
  BY <1>2, <1>3, <1>5, <1>6 DEF Sources, Was
<1>8. OneWorker /\ WorkerFacts
  BY <1>2, <1>3 DEF OneWorker, WorkerFacts, TaskName
<1>9. RowFacts
  BY <1>5, <1>6 DEF RowFacts, Known
<1> QED
  BY <1>1, <1>4, <1>7, <1>8, <1>9 DEF IInv, Calm

\* The invariant is kept by every step; its second half as long as no lease
\* runs out under a living worker.
LEMMA StepInv == IInv /\ [RiskNext]_riskVars => IInv'
<1> SUFFICES ASSUME IInv, [RiskNext]_riskVars PROVE IInv'
  OBVIOUS
<1>1. Typed' /\ Busy' /\ Sources'
  BY StepTyped, StepBusy, StepSources DEF IInv
<1>2. ASSUME spent'["stall"] = 0 PROVE Calm'
  <2>1. Calm
    BY <1>2, StallsStay DEF IInv
  <2> QED
    BY <1>2, <2>1, StepOneWorker, StepRowFacts, StepWorkerFacts DEF IInv, Calm
<1> QED
  BY <1>1, <1>2 DEF IInv

\* A recorded effect has happened; the recorded state before is the original
\* one and was stored before the first call; and a reverted action has put the
\* user back: always, except what overlapping workers after a stall can spoil.
THEOREM RecordIsTruthfulHolds == RiskSpec => []RecordIsTruthful
<1>1. IInv => RecordIsTruthful
  <2> SUFFICES ASSUME IInv PROVE RecordIsTruthful
    OBVIOUS
  <2>1. RiskTypeOK
    BY TypedIsTypeOK DEF IInv
  <2>2. FlagsAreTruthful
    BY DEF IInv, Sources, Was, FlagsAreTruthful
  <2>3. BeforeIsOriginal /\ RevertRestores /\ EffectIsReversible
    BY DEF IInv, Calm, RowFacts, Known, BeforeIsOriginal, RevertRestores, EffectIsReversible
  <2> QED
    BY <2>1, <2>2, <2>3 DEF RecordIsTruthful
<1> QED
  BY <1>1, InitInv, StepInv, PTL DEF RiskSpec

=============================================================================
