-------------------------- MODULE LegacyRegistration --------------------------
(***************************************************************************)
(* Registration in the archived v2: a user submits, from Telegram or the   *)
(* web, and a task is queued; one of several workers claims it, creates    *)
(* the account on Emby, completes the registration in the database, or     *)
(* takes the account back, and reports.                                    *)
(*                                                                         *)
(* A submission is one transaction whose snapshot is taken by its first    *)
(* read, before it gets the locks: what it counts may be behind. A handler *)
(* runs beside the heartbeats that renew its worker's lease; a task whose  *)
(* lease lapsed is given up by whoever polls next, while the handler may   *)
(* still be at work. Registration tasks have max_retries 0.                *)
(*                                                                         *)
(* Abstractions: a registration code is worth one day and us counts days;  *)
(* usernames are left out, Emby may refuse a creation; the idempotency key *)
(* stands for the task. Whether a code is needed is settings read before   *)
(* the transaction, an administrator may change them any time. Of the      *)
(* tables only what registration touches.                                  *)
(***************************************************************************)
EXTENDS Integers, FiniteSets, TLC

CONSTANTS User, TaskKey, Code, Worker, Id, Slot, None,
          UserLimit, QueueLimit,   \* registration.user_limit, registration.queue_limit
          MaxSubmits,              \* bound: submissions begun
          MaxRetries,              \* bound: retries by an administrator
          MaxFaults                \* bound: calls that fail, handlers and workers that stop

ASSUME RegistrationAssumption ==
    /\ {UserLimit, QueueLimit, MaxSubmits, MaxRetries, MaxFaults} \subseteq Nat
    /\ None \notin Id \union Worker \union User \union TaskKey /\ IsFiniteSet(User) /\ IsFiniteSet(TaskKey)
    /\ IsFiniteSet(Slot)   \* the submissions that can be open at once

VARIABLES
    user,      \* table emby: id, us
    code,      \* table Rcode: None while active, the user once used
    task,      \* operation_tasks of type registration.account, by idempotency key
    remote,    \* the accounts of the Emby server: unborn, live, gone
    worker,    \* a worker: what its handler is doing, for which task and account
    sub,       \* per slot: an open submission with what its snapshot showed
    spent,     \* per user: days consumed by registrations
    lost,      \* accounts nobody took back: the handler was interrupted or unanswered
    excess,    \* places taken without any count: by retries, by handlers whose task was given up
    crowd,     \* the most submissions that were open at once, at least 1
    budget     \* submissions, retries and faults so far

registrationVars == <<user, code, task, remote, worker, sub, spent, lost, excess, crowd, budget>>

NoTask == [st |-> "none"]
Resting == [phase |-> "idle"]
NoSub == [user |-> None]

Status(k) == task[k].st
Active(k) == Status(k) \in {"pending", "running"}
Registered == {u \in User : user[u].id # None}
Waiting == {k \in TaskKey : Status(k) = "pending"}
ActiveTasks == {k \in TaskKey : Active(k)}
OpenSubs == {s \in Slot : sub[s] # NoSub}
ActiveOf(u) == {k \in ActiveTasks : task[k].user = u}
Rests(w) == worker[w].phase = "idle"
Running(w) == worker[w].phase \notin {"idle", "picked"}
Mine(w) == LET t == task[worker[w].task] IN t.st = "running" /\ t.by = w

\* Slip: only the accounts are counted, not the places of tasks under way.
RegisteredOnly == Cardinality(Registered)

\* The users the limit is for: those with an account or a task under way.
Placed == Registered \union {task[k].user : k \in ActiveTasks}

\* registered + active_count of submit and status.
Taken == Cardinality(Registered) + Cardinality(ActiveTasks)

RegistrationInit ==
    /\ user = [u \in User |-> [id |-> None, us |-> 0]]
    /\ code = [c \in Code |-> None]
    /\ task = [k \in TaskKey |-> NoTask]
    /\ remote = [i \in Id |-> "unborn"]
    /\ worker = [w \in Worker |-> Resting]
    /\ sub = [s \in Slot |-> NoSub]
    /\ spent = [u \in User |-> 0]
    /\ lost = {}
    /\ excess = 0
    /\ crowd = 1
    /\ budget = [submits |-> 0, retries |-> 0, faults |-> 0]

Use(what, max) == budget[what] < max /\ budget' = [budget EXCEPT ![what] = @ + 1]
Fault == Use("faults", MaxFaults)

-----------------------------------------------------------------------------
(* Submission. *)

\* The first read: does a task with this key exist already? It fixes what the
\* transaction will see of tasks and counts.
SubmitBegins(u, k) ==
    /\ Status(k) = "none"
    /\ Use("submits", MaxSubmits)
    /\ \E s \in Slot, c \in Code \union {None} : \E needsCode \in BOOLEAN :
         /\ sub[s] = NoSub
         /\ sub' = [sub EXCEPT ![s] = [user |-> u, key |-> k, code |-> c, needsCode |-> needsCode,
                                       taken |-> Taken, waiting |-> Cardinality(Waiting),
                                       dup |-> ActiveOf(u) # {}]]
    /\ crowd' = IF Cardinality(OpenSubs) = crowd THEN crowd + 1 ELSE crowd
    /\ UNCHANGED <<user, code, task, remote, worker, spent, lost, excess>>

\* The button of the bot looks at the row and the tasks before it asks for a name;
\* every message is a submission of its own. The web retries under the same key.
CreateUser(u, k) == user[u].id = None /\ SubmitBegins(u, k)
SubmitRegistration(u, k) == SubmitBegins(u, k)

\* The request fails, or is answered with the task of its key.
SubmitReturns(s) ==
    /\ sub[s] # NoSub
    /\ sub' = [sub EXCEPT ![s] = NoSub]
    /\ UNCHANGED <<user, code, task, remote, worker, spent, lost, excess, crowd, budget>>

\* _redeem_code, and CodeService._redeem for a registration code: under the row
\* locks of the user and the code.
Redeem(u, c) ==
    /\ code[c] = None
    /\ code' = [code EXCEPT ![c] = u]
    /\ user' = [user EXCEPT ![u].us = @ + 1]

\* With the locks of the user and of registration_state: the row of the user is
\* current, the counts are those of the snapshot. An insert of a key that exists
\* by now fails and undoes all; a submission that is refused changes nothing.
SubmitCommits(s) ==
    LET b == sub[s] IN
    /\ b # NoSub
    /\ Status(b.key) = "none"
    /\ user[b.user].id = None
    /\ ~b.dup
    /\ b.taken < UserLimit /\ b.waiting < QueueLimit
    /\ IF b.needsCode /\ user[b.user].us = 0
       THEN b.code # None /\ Redeem(b.user, b.code)
       ELSE UNCHANGED <<user, code>>
    /\ task' = [task EXCEPT ![b.key] = [st |-> "pending", user |-> b.user, by |-> None, cancel |-> FALSE,
                                        lapsed |-> FALSE, consume |-> b.needsCode, over |-> FALSE]]
    /\ sub' = [sub EXCEPT ![s] = NoSub]
    /\ UNCHANGED <<remote, worker, spent, lost, excess, crowd, budget>>

\* A code redeemed by a command of the bot, or bought: the days wait in us.
RedeemBefore(u, c) ==
    /\ Redeem(u, c)
    /\ UNCHANGED <<task, remote, worker, sub, spent, lost, excess, crowd, budget>>

\* RegistrationService.cancel: of a task no worker has claimed.
OwnerCancels(k) ==
    /\ Status(k) = "pending"
    /\ task' = [task EXCEPT ![k].st = "canceled", ![k].cancel = TRUE]
    /\ UNCHANGED <<user, code, remote, worker, sub, spent, lost, excess, crowd, budget>>

\* TaskService.cancel: a running one is only asked to stop.
AdminCancels(k) ==
    /\ Active(k)
    /\ task' = [task EXCEPT ![k].cancel = TRUE, ![k].st = IF @ = "running" THEN @ ELSE "canceled"]
    /\ UNCHANGED <<user, code, remote, worker, sub, spent, lost, excess, crowd, budget>>

\* TaskService.retry: nobody counts again.
AdminRetries(k) ==
    /\ Status(k) \in {"failed", "canceled"}
    /\ Use("retries", MaxRetries)
    /\ task' = [task EXCEPT ![k].st = "pending", ![k].by = None, ![k].cancel = FALSE, ![k].lapsed = FALSE]
    /\ excess' = excess + 1
    /\ UNCHANGED <<user, code, remote, worker, sub, spent, lost, crowd>>

\* ReliabilityService.cleanup: old tasks go, and their keys with them.
Cleanup(k) ==
    /\ Status(k) \in {"succeeded", "canceled"}
    /\ \A w \in {v \in Worker : ~Rests(v)} : worker[w].task # k
    /\ task' = [task EXCEPT ![k] = NoTask]
    /\ UNCHANGED <<user, code, remote, worker, sub, spent, lost, excess, crowd, budget>>

-----------------------------------------------------------------------------
(* The worker. *)

Goes(w, phase) == worker' = [worker EXCEPT ![w].phase = phase]

\* claim: what the poll sees waiting ...
Picks(w, k) ==
    /\ Rests(w) /\ Status(k) = "pending"
    /\ worker' = [worker EXCEPT ![w] = [phase |-> "picked", task |-> k]]
    /\ UNCHANGED <<user, code, task, remote, sub, spent, lost, excess, crowd, budget>>

\* Tasks whose lease lapsed are given up: there are no retries left.
Recovered(k) ==
    LET t == task[k] IN
    IF t.st = "running" /\ t.lapsed
    THEN [t EXCEPT !.by = None, !.lapsed = FALSE, !.over = TRUE, !.st = IF t.cancel THEN "canceled" ELSE "failed"]
    ELSE t

\* ... and what the conditional update still finds waiting.
Claimable(k) == Status(k) = "pending" /\ ~task[k].cancel

Claims(w) ==
    LET k == worker[w].task
        won == Claimable(k)
    IN
    /\ worker[w].phase = "picked"
    /\ task' = [j \in TaskKey |-> IF j = k /\ won THEN [task[k] EXCEPT !.st = "running", !.by = w, !.lapsed = FALSE]
                              ELSE Recovered(j)]
    /\ worker' = [worker EXCEPT ![w] = IF won THEN [phase |-> "check", task |-> k, id |-> None] ELSE Resting]
    /\ UNCHANGED <<user, code, remote, sub, spent, lost, excess, crowd, budget>>

\* A poll that finds nothing waiting recovers all the same.
Recovers(w) ==
    /\ Rests(w)
    /\ \E k \in TaskKey : Recovered(k) # task[k]
    /\ task' = [k \in TaskKey |-> Recovered(k)]
    /\ UNCHANGED <<user, code, remote, worker, sub, spent, lost, excess, crowd, budget>>

\* The lease ends: its worker stopped, or cannot reach the database.
Lapses(k) ==
    /\ Status(k) = "running" /\ ~task[k].lapsed
    /\ IF task[k].by = None THEN UNCHANGED budget ELSE Fault
    /\ task' = [task EXCEPT ![k].lapsed = TRUE]
    /\ UNCHANGED <<user, code, remote, worker, sub, spent, lost, excess, crowd>>

-----------------------------------------------------------------------------
(* execute. *)

\* The row, before anything is created.
Check(w) ==
    /\ worker[w].phase = "check"
    /\ Goes(w, IF user[task[worker[w].task].user].id # None THEN "report" ELSE "create")
    /\ UNCHANGED <<user, code, task, remote, sub, spent, lost, excess, crowd, budget>>

\* emby_create, its first call: POST /Users/New.
Create(w) ==
    /\ worker[w].phase = "create"
    /\ \E i \in Id :
         /\ remote[i] = "unborn"
         /\ remote' = [remote EXCEPT ![i] = "live"]
         /\ \/ /\ worker' = [worker EXCEPT ![w].phase = "setup", ![w].id = i]
               /\ UNCHANGED <<lost, budget>>
            \/ /\ Fault
               /\ Goes(w, "report")
               /\ lost' = lost \union {i}
    /\ UNCHANGED <<user, code, task, sub, spent, excess, crowd>>
CreateRefused(w) ==
    /\ worker[w].phase = "create"
    /\ Goes(w, "report")
    /\ UNCHANGED <<user, code, task, remote, sub, spent, lost, excess, crowd, budget>>

\* The other calls, password and policy: when one fails the account stays.
Setup(w) ==
    /\ worker[w].phase = "setup"
    /\ \/ Goes(w, "complete") /\ UNCHANGED <<lost, budget>>
       \/ Fault /\ Goes(w, "report") /\ lost' = lost \union {worker[w].id}
    /\ UNCHANGED <<user, code, task, remote, sub, spent, excess, crowd>>

\* Slip: the row is not asked again whether it has an account by now.
FreeOrNot(u, consume) == consume => user[u].us > 0

\* complete_registration, under the row's lock.
MayComplete(u, consume) == user[u].id = None /\ (consume => user[u].us > 0)

Complete(w) ==
    LET k == worker[w].task
        u == task[k].user
        consume == task[k].consume
    IN
    /\ worker[w].phase = "complete"
    /\ IF MayComplete(u, consume)
       THEN /\ user' = [user EXCEPT ![u].id = worker[w].id, ![u].us = IF consume THEN 0 ELSE @]
            /\ spent' = [spent EXCEPT ![u] = IF consume THEN @ + user[u].us ELSE @]
            /\ excess' = IF Mine(w) THEN excess ELSE excess + 1
            /\ Goes(w, "report")
       ELSE Goes(w, "rollback") /\ UNCHANGED <<user, spent, excess>>
    /\ UNCHANGED <<code, task, remote, sub, lost, crowd, budget>>

\* The transaction raises: the account is taken back, the task fails.
CompleteRaises(w) ==
    /\ worker[w].phase = "complete"
    /\ Fault
    /\ Goes(w, "rollback")
    /\ UNCHANGED <<user, code, task, remote, sub, spent, lost, excess, crowd>>

\* _rollback_remote_account: whatever it raises is swallowed.
Rollback(w) ==
    LET i == worker[w].id IN
    /\ worker[w].phase = "rollback"
    /\ Goes(w, "report")
    /\ \/ remote' = [remote EXCEPT ![i] = "gone"] /\ UNCHANGED <<lost, budget>>
       \/ Fault /\ lost' = lost \union {i} /\ UNCHANGED remote
    /\ UNCHANGED <<user, code, task, sub, spent, excess, crowd>>

\* TaskService.complete and fail: only while the task is running and ours. A
\* registration that came to nothing is reported too, as a result.
Reports(w) ==
    LET k == worker[w].task IN
    /\ worker[w].phase = "report"
    /\ task' = IF ~Mine(w) THEN task
               ELSE [task EXCEPT ![k].by = None, ![k].lapsed = FALSE,
                                 ![k].st = IF task[k].cancel THEN "canceled" ELSE "succeeded"]
    /\ worker' = [worker EXCEPT ![w] = Resting]
    /\ UNCHANGED <<user, code, remote, sub, spent, lost, excess, crowd, budget>>
Fails(w) ==
    LET k == worker[w].task IN
    /\ worker[w].phase = "report"
    /\ Fault
    /\ task' = IF ~Mine(w) THEN task
               ELSE [task EXCEPT ![k].by = None, ![k].lapsed = FALSE,
                                 ![k].st = IF task[k].cancel THEN "canceled" ELSE "failed"]
    /\ worker' = [worker EXCEPT ![w] = Resting]
    /\ UNCHANGED <<user, code, remote, sub, spent, lost, excess, crowd>>

\* The heartbeat renews the lease, or tells the worker to stop its handler when
\* the task was canceled or is no longer its own.
Heartbeat(w) ==
    /\ Running(w) /\ Mine(w) /\ ~task[worker[w].task].cancel
    /\ task[worker[w].task].lapsed
    /\ task' = [task EXCEPT ![worker[w].task].lapsed = FALSE]
    /\ UNCHANGED <<user, code, remote, worker, sub, spent, lost, excess, crowd, budget>>

\* The handler is cancelled where it awaits Emby: what it has created stays, and
\* a creation under way may still be carried out.
Interrupted(w) ==
    /\ worker[w].phase \in {"create", "setup", "rollback"}
    /\ IF worker[w].phase = "create"
       THEN \/ UNCHANGED <<remote, lost>>
            \/ \E i \in Id : /\ remote[i] = "unborn"
                             /\ remote' = [remote EXCEPT ![i] = "live"]
                             /\ lost' = lost \union {i}
       ELSE lost' = lost \union {worker[w].id} /\ UNCHANGED remote
    /\ UNCHANGED <<user, code, task, sub, spent, excess, crowd>>
StopsOnHeartbeat(w) ==
    /\ Running(w) /\ (~Mine(w) \/ task[worker[w].task].cancel)
    /\ Interrupted(w)
    /\ Goes(w, "report")
    /\ UNCHANGED budget
TimesOut(w) ==
    /\ Fault
    /\ Interrupted(w)
    /\ Goes(w, "report")

\* The process stops, and comes back under another name.
Crash(w) ==
    /\ ~Rests(w)
    /\ Fault
    /\ worker' = [worker EXCEPT ![w] = Resting]
    /\ task' = [k \in TaskKey |-> IF task[k].st = "running" /\ task[k].by = w THEN [task[k] EXCEPT !.by = None] ELSE task[k]]
    /\ lost' = IF worker[w].phase \in {"setup", "complete", "rollback"} THEN lost \union {worker[w].id} ELSE lost
    /\ UNCHANGED <<user, code, remote, sub, spent, excess, crowd>>

-----------------------------------------------------------------------------
Execute(w) == Check(w) \/ Create(w) \/ CreateRefused(w) \/ Setup(w) \/ Complete(w) \/ CompleteRaises(w)
              \/ Rollback(w) \/ Reports(w) \/ Fails(w)

RegistrationNext ==
    \/ \E u \in User, k \in TaskKey : CreateUser(u, k) \/ SubmitRegistration(u, k)
    \/ \E s \in Slot : SubmitReturns(s) \/ SubmitCommits(s)
    \/ \E u \in User, c \in Code : RedeemBefore(u, c)
    \/ \E k \in TaskKey : OwnerCancels(k) \/ AdminCancels(k) \/ AdminRetries(k) \/ Cleanup(k) \/ Lapses(k)
    \/ \E w \in Worker, k \in TaskKey : Picks(w, k)
    \/ \E w \in Worker : Claims(w) \/ Recovers(w) \/ Execute(w) \/ Heartbeat(w)
                         \/ StopsOnHeartbeat(w) \/ TimesOut(w) \/ Crash(w)

-----------------------------------------------------------------------------
\* Every account created on Emby is bound to a row, or in the hands of the worker
\* that created it, or taken back, unless that worker was interrupted or not
\* answered: no interleaving of two handlers for one user loses an account.
AccountsAccountedFor ==
    \A i \in Id : remote[i] = "live" =>
        \/ \E u \in User : user[u].id = i
        \/ \E w \in Worker : worker[w].phase \in {"setup", "complete", "rollback"} /\ worker[w].id = i
        \/ i \in lost

\* The limit is exceeded by no more submissions than were ever open beside another: a
\* count that is behind lets in only who had begun before the places were gone, and as
\* long as submissions follow one another there is none. Retries, and handlers whose
\* task was given up, take places uncounted.
WithinLimit == Cardinality(Placed) <= UserLimit + (crowd - 1) + excess

\* What docs/web-registration.md:20 says of the lock of registration_state: users who
\* submit at the same time do not get more places than there are.
NeverOversold == excess = 0 => Cardinality(Placed) <= UserLimit

\* A code is worth its days once: what a user has and has spent is what the codes
\* it used are worth, whether they were redeemed before or while submitting, and
\* however submissions and registrations of one user overlap.
DaysAddUp == \A u \in User : user[u].us + spent[u] = Cardinality({c \in Code : code[c] = u})

\* Two handlers work on one task only if a lease lapsed in between.
OneHandler ==
    \A v, w \in Worker : v # w /\ Running(v) /\ Running(w) /\ worker[v].task = worker[w].task =>
        task[worker[w].task].over

\* No account is lost, and no two handlers create one for the same task unnoticed.
TasksAccountedFor == AccountsAccountedFor /\ OneHandler

=============================================================================
