----------------------------- MODULE RiskAction -----------------------------
(***************************************************************************)
(* One risk event with its action: createRiskEventTx, DispositionRiskEvent *)
(* and MarkRiskFalsePositive of internal/platform/risk.go, and             *)
(* executeRiskAction of worker.go for the tasks risk.action and            *)
(* risk.revert, with the claim, finish and fail of the task queue.         *)
(*                                                                         *)
(* The worker reads the action, moves it to 'running' (or 'reverting'),    *)
(* looks at the Emby user, records the state before, calls Emby, records   *)
(* the effect, and completes: seven steps, between which administrators    *)
(* and other workers act and the worker may die.                           *)
(*                                                                         *)
(* Abstractions: remote is what the action changes on the Emby server, the *)
(* user's disabled flag or the end of the session, and nobody else changes *)
(* it (the copy of the flag in emby_account_bindings is left out); whether *)
(* a failed task has attempts left is not counted but open.                *)
(***************************************************************************)
EXTENDS Naturals, Functions

CONSTANTS Worker, NoOwner, NoTask,
          MaxFaults   \* bound: how often one of Fault happens

Fault == {"stall", "abandon", "lost", "retry"}
TaskName == {"action", "revert"}

ASSUME RiskAssumption ==
    /\ NoOwner \notin Worker
    /\ NoTask \notin TaskName
    /\ MaxFaults \in Nat

VARIABLES
    event,     \* risk_events.status
    action,    \* risk_actions: action_type, status, before_state, result flags
    task,      \* platform_tasks of the two tasks: status, lease_owner, live
    remote,    \* on the Emby server: user disabled, or session stopped
    history,   \* the remote state at the start; calls that took effect
    wk,        \* per worker: task, place in executeRiskAction, what it read
    spent      \* how often each of Fault has happened

riskVars == <<event, action, task, remote, history, wk, spent>>

EventStatus == {"open", "acknowledged", "resolved", "false_positive"}
ActionStatus == {"pending", "running", "succeeded", "failed", "canceled",
                 "revert_pending", "reverting", "reverted", "revert_failed"}
TaskStatus == {"absent", "pending", "running", "retry", "succeeded", "failed", "dead"}
Phase == {"idle", "read", "start", "look", "record", "apply", "flag", "complete",
          "finish", "error", "permanent"}
Before == {"unknown", "yes", "no"}

Idle == [task |-> NoTask, phase |-> "idle", before |-> "unknown", effect |-> FALSE,
         seen |-> FALSE]

Flag(b) == IF b THEN "yes" ELSE "no"
Disables == action.type = "disable_user"
EffectOf(t) == IF t = "action" THEN action.applied ELSE action.undone

\* The remote state that the task is to bring about.
Target(w) == IF wk[w].task = "action" THEN TRUE ELSE wk[w].before = "yes"

Spend(fault) ==
    /\ FoldFunction(+, 0, spent) < MaxFaults
    /\ spent' = [spent EXCEPT ![fault] = @ + 1]

At(w, phase) == wk[w].phase = phase
Go(w, phase) == wk' = [wk EXCEPT ![w] = [@ EXCEPT !.phase = phase]]
Held(t) == \E w \in Worker : wk[w].task = t /\ task[t].owner = w

\* createRiskEventTx has inserted the event, its action and the task.
RiskInit ==
    /\ event = "open"
    /\ remote \in BOOLEAN
    /\ action \in [type: {"disable_user", "stop_session"}, status: {"pending"},
                   before: {"unknown"}, applied: {FALSE}, undone: {FALSE}]
    /\ action.type = "stop_session" => ~remote
    /\ task = [t \in TaskName |-> [status |-> IF t = "action" THEN "pending" ELSE "absent",
                                   owner |-> NoOwner, live |-> FALSE]]
    /\ history = [original |-> remote, enforced |-> FALSE, restored |-> FALSE]
    /\ wk = [w \in Worker |-> Idle]
    /\ spent = [f \in Fault |-> 0]

-----------------------------------------------------------------------------
(* Administrators. *)

DispositionRiskEvent(status) ==
    /\ event # "false_positive"
    /\ event' = status
    /\ UNCHANGED <<action, task, remote, history, wk, spent>>

\* What the review does to an action that has not changed anything remotely.
CancelAction ==
    /\ action.status \in {"pending", "failed"}
    /\ ~(action.status = "failed" /\ action.applied /\ Disables)
    /\ action' = [action EXCEPT !.status = "canceled"]
    /\ task' = [task EXCEPT !["action"] =
                  IF @.status \in {"pending", "retry", "failed", "dead"}
                  THEN [status |-> "failed", owner |-> NoOwner, live |-> FALSE] ELSE @]

\* ... and to one that has disabled the user.
QueueRevert ==
    /\ \/ action.status = "succeeded"
       \/ action.status = "failed" /\ action.applied
    /\ Disables
    /\ action' = [action EXCEPT !.status = "revert_pending"]
    /\ task' = [task EXCEPT !["revert"].status = "pending"]

\* A running or reverting action rejects the review; a stopped session has
\* nothing to revert.
MarkRiskFalsePositive ==
    /\ event # "false_positive"
    /\ action.status \notin {"running", "reverting"}
    /\ event' = "false_positive"
    /\ \/ CancelAction
       \/ QueueRevert
       \/ action.status = "succeeded" /\ ~Disables /\ UNCHANGED <<action, task>>
    /\ UNCHANGED <<remote, history, wk, spent>>

RetryTask(t) ==
    /\ task[t].status \in {"failed", "dead"}
    /\ Spend("retry")
    /\ task' = [task EXCEPT ![t] = [status |-> "retry", owner |-> NoOwner, live |-> FALSE]]
    /\ UNCHANGED <<event, action, remote, history, wk>>

-----------------------------------------------------------------------------
(* A worker. *)

Claim(w, t) ==
    /\ At(w, "idle")
    /\ \/ task[t].status \in {"pending", "retry"}
       \/ task[t].status = "running" /\ ~task[t].live
    /\ task' = [task EXCEPT ![t] = [status |-> "running", owner |-> w, live |-> TRUE]]
    /\ wk' = [wk EXCEPT ![w] = [Idle EXCEPT !.task = t, !.phase = "read"]]
    /\ UNCHANGED <<event, action, remote, history, spent>>

\* SELECT ... FROM risk_actions; a completed action is only acknowledged.
ReadAction(w) ==
    LET t == wk[w].task
        replayed == action.status = IF t = "action" THEN "succeeded" ELSE "reverted"
    IN  /\ At(w, "read")
        /\ wk' = [wk EXCEPT ![w] = [@ EXCEPT !.phase = IF replayed THEN "finish" ELSE "start",
                                             !.before = action.before,
                                             !.effect = EffectOf(t)]]
        /\ UNCHANGED <<event, action, task, remote, history, spent>>

\* The UPDATE that takes the action, from the statuses it may be taken from;
\* any other status is a permanent error.
Start(w) ==
    LET t == wk[w].task
        expected == IF t = "action" THEN {"pending", "failed"}
                    ELSE {"revert_pending", "revert_failed"}
    IN  /\ At(w, "start")
        /\ IF action.status \in expected
           THEN /\ action' = [action EXCEPT !.status = IF t = "action" THEN "running"
                                                       ELSE "reverting"]
                /\ Go(w, IF wk[w].effect THEN "complete"
                         ELSE IF Disables THEN "look" ELSE "record")
           ELSE Go(w, "permanent") /\ UNCHANGED action
        /\ UNCHANGED <<event, task, remote, history, spent>>

\* client.users: the user may be missing, which is a permanent error.
LookAtUser(w) ==
    /\ At(w, "look")
    /\ \/ wk' = [wk EXCEPT ![w] = [@ EXCEPT !.seen = remote, !.phase =
                                     IF wk[w].task = "action" THEN "record" ELSE "apply"]]
       \/ Go(w, "permanent")
    /\ UNCHANGED <<event, action, task, remote, history, spent>>

\* Slip: the state before is taken anew at every attempt.
RecordAgain(w) ==
    /\ At(w, "record")
    /\ wk' = [wk EXCEPT ![w] = [@ EXCEPT !.before = Flag(wk[w].seen), !.phase = "apply"]]
    /\ action' = IF action.status = "running"
                 THEN [action EXCEPT !.before = Flag(wk[w].seen)] ELSE action
    /\ UNCHANGED <<event, task, remote, history, spent>>

\* The state before is written once, and only while the action is running.
RecordBefore(w) ==
    /\ At(w, "record")
    /\ IF wk[w].before = "unknown"
       THEN /\ wk' = [wk EXCEPT ![w] = [@ EXCEPT !.before = Flag(wk[w].seen), !.phase = "apply"]]
            /\ action' = IF action.status = "running"
                         THEN [action EXCEPT !.before = Flag(wk[w].seen)] ELSE action
       ELSE Go(w, "apply") /\ UNCHANGED action
    /\ UNCHANGED <<event, task, remote, history, spent>>

Bring(w) ==
    /\ remote' = Target(w)
    /\ history' = IF wk[w].task = "action" THEN [history EXCEPT !.enforced = TRUE]
                  ELSE [history EXCEPT !.restored = TRUE]

\* The call to Emby, left out when the user was seen in the wanted state.
Apply(w) ==
    /\ At(w, "apply")
    /\ IF Disables /\ wk[w].seen = Target(w)
       THEN UNCHANGED <<remote, history>>
       ELSE Bring(w)
    /\ Go(w, "flag")
    /\ UNCHANGED <<event, action, task, spent>>

\* Emby does it, but its reply is lost or the statement that records the
\* effect fails.
ApplyUnrecorded(w) ==
    /\ At(w, "apply")
    /\ Spend("lost")
    /\ Bring(w)
    /\ Go(w, "error")
    /\ UNCHANGED <<event, action, task>>

\* Another call or statement fails; nothing has changed. A failure of the
\* statements that read and take the action counts as permanent.
StepFails(w) ==
    /\ \/ wk[w].phase \in {"read", "look", "record", "apply", "complete"} /\ Go(w, "error")
       \/ wk[w].phase \in {"read", "start"} /\ Go(w, "permanent")
    /\ UNCHANGED <<event, action, task, remote, history, spent>>

\* action_effect_applied or revert_effect_applied, whatever the status.
FlagEffect(w) ==
    /\ At(w, "flag")
    /\ action' = IF wk[w].task = "action" THEN [action EXCEPT !.applied = TRUE]
                 ELSE [action EXCEPT !.undone = TRUE]
    /\ Go(w, "complete")
    /\ UNCHANGED <<event, task, remote, history, spent>>

\* The last transaction, whatever the status.
Complete(w) ==
    /\ At(w, "complete")
    /\ action' = IF wk[w].task = "action"
                 THEN [action EXCEPT !.status = "succeeded", !.before = wk[w].before]
                 ELSE [action EXCEPT !.status = "reverted"]
    /\ Go(w, "finish")
    /\ UNCHANGED <<event, task, remote, history, spent>>

Release(w, status) ==
    LET t == wk[w].task
    IN  /\ task' = IF task[t].owner = w
                   THEN [task EXCEPT ![t] = [status |-> status, owner |-> NoOwner, live |-> FALSE]]
                   ELSE task
        /\ wk' = [wk EXCEPT ![w] = Idle]

Finish(w) ==
    /\ At(w, "finish")
    /\ Release(w, "succeeded")
    /\ UNCHANGED <<event, action, remote, history, spent>>

\* fail(): the action is marked whatever its status and whoever owns the task.
Fail(w) ==
    /\ \/ At(w, "error") /\ \E status \in {"retry", "dead"} : Release(w, status)
       \/ At(w, "permanent") /\ Release(w, "failed")
    /\ action' = [action EXCEPT !.status = IF wk[w].task = "action" THEN "failed"
                                           ELSE "revert_failed"]
    /\ UNCHANGED <<event, remote, history, spent>>

Abandon(w) ==
    /\ ~At(w, "idle")
    /\ Spend("abandon")
    /\ wk' = [wk EXCEPT ![w] = Idle]
    /\ UNCHANGED <<event, action, task, remote, history>>

LeaseLapses(t) ==
    /\ task[t].live /\ ~Held(t)
    /\ task' = [task EXCEPT ![t].live = FALSE]
    /\ UNCHANGED <<event, action, remote, history, wk, spent>>

LeaseStalls(t) ==
    /\ task[t].live /\ Held(t)
    /\ Spend("stall")
    /\ task' = [task EXCEPT ![t].live = FALSE]
    /\ UNCHANGED <<event, action, remote, history, wk>>

Administrate ==
    \/ \E status \in {"acknowledged", "resolved"} : DispositionRiskEvent(status)
    \/ MarkRiskFalsePositive
    \/ \E t \in TaskName : RetryTask(t)

Work(w) ==
    \/ ReadAction(w) \/ Start(w) \/ LookAtUser(w) \/ RecordBefore(w)
    \/ Apply(w) \/ ApplyUnrecorded(w) \/ StepFails(w) \/ FlagEffect(w) \/ Complete(w)
    \/ Finish(w) \/ Fail(w)

RiskNext ==
    \/ Administrate
    \/ \E t \in TaskName : LeaseLapses(t) \/ LeaseStalls(t)
    \/ \E w \in Worker : Work(w) \/ Abandon(w) \/ \E t \in TaskName : Claim(w, t)

RiskSpec == RiskInit /\ [][RiskNext]_riskVars

-----------------------------------------------------------------------------
(* Properties. *)

\* Types of the event, its action and tasks, the workers and the remote user.
RiskTypeOK ==
    /\ event \in EventStatus
    /\ action \in [type: {"disable_user", "stop_session"}, status: ActionStatus,
                   before: Before, applied: BOOLEAN, undone: BOOLEAN]
    /\ task \in [TaskName -> [status: TaskStatus, owner: Worker \cup {NoOwner}, live: BOOLEAN]]
    /\ remote \in BOOLEAN
    /\ history \in [original: BOOLEAN, enforced: BOOLEAN, restored: BOOLEAN]
    /\ wk \in [Worker -> [task: TaskName \cup {NoTask}, phase: Phase, before: Before,
                          effect: BOOLEAN, seen: BOOLEAN]]
    /\ spent \in [Fault -> Nat]

\* A recorded effect has happened: MarkRiskFalsePositive and the next attempt
\* decide by action_effect_applied, so it must never be ahead of the call to
\* Emby, whatever crashes, overlaps and lost replies there are.
FlagsAreTruthful == action.applied => history.enforced \/ history.original

\* Whatever attempts, crashes and lost replies came before, the recorded
\* state before is the one before the first call, and not the effect of an
\* earlier attempt; only overlapping workers can spoil it.
BeforeIsOriginal ==
    spent["stall"] = 0 /\ action.before # "unknown" => action.before = Flag(history.original)

\* A reverted action has put the user back, again unless workers overlapped.
RevertRestores ==
    spent["stall"] = 0 /\ action.status = "reverted" => remote = history.original

\* Nothing is changed on the server before the state to go back to is stored:
\* an action that took effect can be reverted after any crash.
EffectIsReversible ==
    spent["stall"] = 0 /\ history.enforced => action.before # "unknown"

\* What the row says of the effect, of the state before it and of its revert is
\* what happened on the server.
RecordIsTruthful ==
    RiskTypeOK /\ FlagsAreTruthful /\ BeforeIsOriginal /\ RevertRestores /\ EffectIsReversible

=============================================================================
