------------------------------ MODULE TaskQueue ------------------------------
(***************************************************************************)
(* The durable task queue of the v3 platform: table platform_tasks, the    *)
(* claim / lease / finish / fail protocol of internal/platform/worker.go   *)
(* and the enqueue and retry operations of internal/platform/tasks.go.     *)
(*                                                                         *)
(* A worker process claims a row, processes it outside any transaction     *)
(* while a goroutine renews the lease, and then settles the row in a       *)
(* second statement.  Between the two the process may die, the lease may   *)
(* run out and another worker may claim the row again.  For tasks of type  *)
(* emby.provision a second row, emby_provision_requests, follows the task. *)
(*                                                                         *)
(* Abstractions: available_at and lease_expires_at are compared with the   *)
(* clock only, so a delayed task is claimable at any later moment and a    *)
(* lease is either live or run out; ORDER BY ... SKIP LOCKED LIMIT 1 picks *)
(* some claimable row; what process() does is a durable effect or none.    *)
(***************************************************************************)
EXTENDS Naturals

CONSTANTS
    Task,           \* rows of platform_tasks, named by their idempotency key
    ProvisionTask,  \* those of type emby.provision
    Worker,         \* worker processes (a restarted process reuses its slot)
    WorkerId,       \* values of lease_owner
    IdOf,           \* the lease_owner each worker process writes
    NoOwner,        \* SQL NULL in lease_owner
    NoTask,         \* a worker that is polling
    MaxAttempts,    \* platform_tasks.max_attempts
    MaxStalls,      \* bound: leases that run out under a living worker
    MaxAbandons,    \* bound: claims given up without settling the row
    MaxRetries      \* bound: RetryTask calls

ASSUME TaskAssumption ==
    /\ ProvisionTask \subseteq Task
    /\ NoTask \notin Task
    /\ NoOwner \notin WorkerId
    /\ IdOf \in [Worker -> WorkerId]

ASSUME BoundAssumption ==
    /\ MaxAttempts \in Nat \ {0}
    /\ MaxStalls \in Nat
    /\ MaxAbandons \in Nat
    /\ MaxRetries \in Nat

VARIABLES
    row,      \* platform_tasks: status, attempts, lease_owner, lease still live
    request,  \* emby_provision_requests.status of a provision task
    bound,    \* the durable effect of the task has been committed
    run,      \* per worker: the claim it is processing
    spent     \* how much of each bound has been used

vars == <<row, request, bound, run, spent>>

Status == {"absent", "pending", "running", "retry", "succeeded", "failed", "dead"}
Settled == {"succeeded", "failed", "dead"}
RequestStatus == {"none", "pending", "provisioning", "succeeded", "failed"}
Outcome == {"idle", "working", "ok", "error", "permanent"}

Row == [status: Status, attempts: Nat, owner: WorkerId \cup {NoOwner}, live: BOOLEAN]
Run == [task: Task \cup {NoTask}, attempt: Nat, keeping: BOOLEAN, outcome: Outcome]
Spent == [stalls: 0..MaxStalls, abandons: 0..MaxAbandons, retries: 0..MaxRetries]

Polling == [task |-> NoTask, attempt |-> 0, keeping |-> FALSE, outcome |-> "idle"]

\* The statement "... WHERE id=$1 AND lease_owner=$n" of worker w finds its row.
Owns(w, t) == row[t].owner = IdOf[w]

\* Some living worker still works on the claim that the row's lease names.
Held(t) == \E w \in Worker : run[w].task = t /\ Owns(w, t)

\* No two living processes write the same lease_owner.
DistinctIds == \A v, w \in Worker : IdOf[v] = IdOf[w] => v = w

\* Slip: the claim never takes a running row over.
ClaimableUnlessRunning(t) == row[t].status \in {"pending", "retry"}

\* status IN ('pending','retry') OR (status='running' AND lease_expires_at<NOW())
Claimable(t) ==
    \/ row[t].status \in {"pending", "retry"}
    \/ row[t].status = "running" /\ ~row[t].live

Init ==
    /\ row = [t \in Task |-> [status |-> "absent", attempts |-> 0,
                              owner |-> NoOwner, live |-> FALSE]]
    /\ request = [t \in Task |-> "none"]
    /\ bound = [t \in Task |-> FALSE]
    /\ run = [w \in Worker |-> Polling]
    /\ spent = [stalls |-> 0, abandons |-> 0, retries |-> 0]

-----------------------------------------------------------------------------
(* The API and the scheduler. *)

\* A first call with this idempotency key inserts the task and, for
\* provisioning, its request row; a later call only reads the row.
Enqueue(t) ==
    /\ row[t].status = "absent"
    /\ row' = [row EXCEPT ![t] = [@ EXCEPT !.status = "pending"]]
    /\ request' = [request EXCEPT ![t] = IF t \in ProvisionTask THEN "pending" ELSE @]
    /\ UNCHANGED <<bound, run, spent>>

\* The operator's retry of a task that gave up.
RetryTask(t) ==
    /\ spent.retries < MaxRetries
    /\ row[t].status \in {"failed", "dead"}
    /\ row' = [row EXCEPT ![t] = [status |-> "retry", attempts |-> 0,
                                  owner |-> NoOwner, live |-> FALSE]]
    /\ request' = [request EXCEPT ![t] = IF @ = "failed" THEN "pending" ELSE @]
    /\ spent' = [spent EXCEPT !.retries = @ + 1]
    /\ UNCHANGED <<bound, run>>

-----------------------------------------------------------------------------
(* One worker process. *)

Claim(w, t) ==
    /\ run[w].task = NoTask
    /\ Claimable(t)
    /\ row' = [row EXCEPT ![t] = [status |-> "running", attempts |-> @.attempts + 1,
                                  owner |-> IdOf[w], live |-> TRUE]]
    /\ request' = [request EXCEPT ![t] =
                     IF @ \in {"pending", "failed", "provisioning"} THEN "provisioning" ELSE @]
    /\ run' = [run EXCEPT ![w] = [task |-> t, attempt |-> row[t].attempts + 1,
                                  keeping |-> TRUE, outcome |-> "working"]]
    /\ UNCHANGED <<bound, spent>>

\* One tick of the keepLease goroutine; it stops once the row is not its own.
KeepLease(w) ==
    LET t == run[w].task
    IN  /\ run[w].keeping
        /\ IF row[t].status = "running" /\ Owns(w, t)
           THEN /\ row' = [row EXCEPT ![t] = [@ EXCEPT !.live = TRUE]]
                /\ UNCHANGED run
           ELSE /\ run' = [run EXCEPT ![w] = [@ EXCEPT !.keeping = FALSE]]
                /\ UNCHANGED row
        /\ UNCHANGED <<request, bound, spent>>

\* A tick whose statement failed also ends the goroutine; processing goes on.
KeepLeaseError(w) ==
    /\ run[w].keeping
    /\ run' = [run EXCEPT ![w] = [@ EXCEPT !.keeping = FALSE]]
    /\ UNCHANGED <<row, request, bound, spent>>

\* process() commits its last transaction; the reply to that commit can be
\* lost, and the call then counts as a retryable error.
ProcessCommits(w) ==
    LET t == run[w].task
    IN  /\ run[w].outcome = "working"
        /\ bound' = [bound EXCEPT ![t] = TRUE]
        /\ request' = [request EXCEPT ![t] = IF t \in ProvisionTask THEN "succeeded" ELSE @]
        /\ \E result \in {"ok", "error"} :
             run' = [run EXCEPT ![w] = [@ EXCEPT !.outcome = result, !.keeping = FALSE]]
        /\ UNCHANGED <<row, spent>>

\* process() returns an error, possibly a PermanentError, with nothing committed.
ProcessFails(w) ==
    /\ run[w].outcome = "working"
    /\ \E result \in {"error", "permanent"} :
         run' = [run EXCEPT ![w] = [@ EXCEPT !.outcome = result, !.keeping = FALSE]]
    /\ UNCHANGED <<row, request, bound, spent>>

\* Slip: finish() without "AND lease_owner=$3".
FinishUnguarded(w) ==
    LET t == run[w].task
    IN  /\ run[w].outcome = "ok"
        /\ row' = [row EXCEPT ![t] = [@ EXCEPT !.status = "succeeded",
                                              !.owner = NoOwner, !.live = FALSE]]
        /\ run' = [run EXCEPT ![w] = Polling]
        /\ UNCHANGED <<request, bound, spent>>

\* finish(): the row is settled only if the lease still names this worker.
Finish(w) ==
    LET t == run[w].task
    IN  /\ run[w].outcome = "ok"
        /\ row' = IF Owns(w, t)
                  THEN [row EXCEPT ![t] = [@ EXCEPT !.status = "succeeded",
                                                    !.owner = NoOwner, !.live = FALSE]]
                  ELSE row
        /\ run' = [run EXCEPT ![w] = Polling]
        /\ UNCHANGED <<request, bound, spent>>

\* The status fail() computes from the error and from the attempt it claimed.
Verdict(w) ==
    IF run[w].outcome = "permanent" THEN "failed"
    ELSE IF run[w].attempt >= MaxAttempts THEN "dead" ELSE "retry"

\* Slip: the request goes back to 'pending' when the task is dead.
FailForgetsDead(w) ==
    LET t == run[w].task
    IN  /\ run[w].outcome \in {"error", "permanent"}
        /\ row' = IF Owns(w, t)
                  THEN [row EXCEPT ![t] = [@ EXCEPT !.status = Verdict(w),
                                                    !.owner = NoOwner, !.live = FALSE]]
                  ELSE row
        /\ request' = [request EXCEPT ![t] =
                         IF t \notin ProvisionTask THEN @
                         ELSE IF Verdict(w) = "failed" THEN "failed" ELSE "pending"]
        /\ run' = [run EXCEPT ![w] = Polling]
        /\ UNCHANGED <<bound, spent>>

\* fail(): the task row is guarded by lease_owner, the request row is not.
Fail(w) ==
    LET t == run[w].task
    IN  /\ run[w].outcome \in {"error", "permanent"}
        /\ row' = IF Owns(w, t)
                  THEN [row EXCEPT ![t] = [@ EXCEPT !.status = Verdict(w),
                                                    !.owner = NoOwner, !.live = FALSE]]
                  ELSE row
        /\ request' = [request EXCEPT ![t] =
                         IF t \notin ProvisionTask THEN @
                         ELSE IF Verdict(w) \in {"failed", "dead"} THEN "failed" ELSE "pending"]
        /\ run' = [run EXCEPT ![w] = Polling]
        /\ UNCHANGED <<bound, spent>>

\* The process dies, is stopped, or its finish / fail statement fails: the
\* worker polls again and the row keeps the lease it had.
Abandon(w) ==
    /\ run[w].task # NoTask
    /\ spent.abandons < MaxAbandons
    /\ run' = [run EXCEPT ![w] = Polling]
    /\ spent' = [spent EXCEPT !.abandons = @ + 1]
    /\ UNCHANGED <<row, request, bound>>

-----------------------------------------------------------------------------
(* Time. *)

\* The lease of a claim nobody works on any more runs out.
LeaseLapses(t) ==
    /\ row[t].live
    /\ ~Held(t)
    /\ row' = [row EXCEPT ![t] = [@ EXCEPT !.live = FALSE]]
    /\ UNCHANGED <<request, bound, run, spent>>

\* The lease runs out under a worker that is alive but slow or cut off.
LeaseStalls(t) ==
    /\ row[t].live
    /\ Held(t)
    /\ spent.stalls < MaxStalls
    /\ row' = [row EXCEPT ![t] = [@ EXCEPT !.live = FALSE]]
    /\ spent' = [spent EXCEPT !.stalls = @ + 1]
    /\ UNCHANGED <<request, bound, run>>

TaskStep(t) == Enqueue(t) \/ RetryTask(t) \/ LeaseLapses(t) \/ LeaseStalls(t)

WorkerStep(w) ==
    \/ \E t \in Task : Claim(w, t)
    \/ KeepLease(w) \/ KeepLeaseError(w)
    \/ ProcessCommits(w) \/ ProcessFails(w)
    \/ Finish(w) \/ Fail(w) \/ Abandon(w)

Next == (\E t \in Task : TaskStep(t)) \/ (\E w \in Worker : WorkerStep(w))

Spec == Init /\ [][Next]_vars

(***************************************************************************)
(* Fairness.  Worker.Run never stops polling; a call of process() returns  *)
(* because every Emby, MoviePilot and probe request has a client timeout;  *)
(* a lease nobody renews runs out with time; and ORDER BY                  *)
(* available_at,created_at lets no claimable task be overtaken for ever.   *)
(***************************************************************************)
Fairness ==
    /\ \A t \in Task : SF_vars(\E w \in Worker : Claim(w, t))
    /\ \A t \in Task : WF_vars(LeaseLapses(t))
    /\ \A w \in Worker : WF_vars(ProcessCommits(w) \/ ProcessFails(w))
    /\ \A w \in Worker : WF_vars(Finish(w) \/ Fail(w))

FairSpec == Spec /\ Fairness

-----------------------------------------------------------------------------
(* Properties. *)

\* Types of the task rows, the request rows and the workers, and the bounds.
TypeOK ==
    /\ row \in [Task -> Row]
    /\ request \in [Task -> RequestStatus]
    /\ bound \in [Task -> BOOLEAN]
    /\ run \in [Worker -> Run]
    /\ spent \in Spent

\* finish() and fail() look at lease_owner only and never at the status: they
\* are harmless on a settled or re-queued row because a row carries an owner
\* exactly while it is running.
LeaseOnlyWhileRunning ==
    \A t \in Task : (row[t].status = "running") <=> (row[t].owner # NoOwner)

\* A task is put back to 'retry' only while attempts are left: the attempt
\* number that fail() compares with max_attempts, read when the task was
\* claimed, is the one in the row whenever the row is still the worker's own.
\* This rests on DistinctIds.
RetryBelowMax ==
    \A t \in Task : row[t].status = "retry" => row[t].attempts < MaxAttempts

\* claim() counts an attempt but does not compare it with max_attempts: what a
\* row counts beyond the maximum is paid for, one by one, by claims that were
\* abandoned or outlived by their lease.
ExcessAttemptsAccounted ==
    \A t \in Task : row[t].attempts <= MaxAttempts + spent.stalls + spent.abandons

\* No late finish(), fail(), renewal or retry moves a task out of 'succeeded'.
SucceededIsFinal ==
    [][\A t \in Task : row[t].status = "succeeded" => row'[t].status = "succeeded"]_vars

RequestAgrees ==
    \A t \in ProvisionTask :
        /\ row[t].status = "succeeded" => request[t] = "succeeded"
        /\ row[t].status \in {"failed", "dead"} => request[t] = "failed"

\* The task and its provision request settle together, whatever order the
\* claim, the commit of process(), finish(), fail(), RetryTask and crashes
\* come in, as long as no lease runs out under a living worker.
SettledTogether == spent.stalls = 0 => RequestAgrees

\* Every accepted task is settled in the end, through crashes, lapsed leases
\* and retries.
EventuallySettled ==
    \A t \in Task : row[t].status = "pending" ~> row[t].status \in Settled

\* The queue keeps TaskPromise: the rows a worker may still move are the open
\* jobs, and no interleaving of claims settles one without its effect.
JobOf(t) ==
    IF row[t].status \in {"pending", "running", "retry"} THEN "open"
    ELSE IF row[t].status \in {"failed", "dead"} THEN "stopped"
    ELSE row[t].status

Promise == INSTANCE TaskPromise WITH job <- [t \in Task |-> JobOf(t)], done <- bound

KeepsPromise == Promise!Spec

\* What holds of the rows at every moment, however claims, lapsed leases, late
\* answers and retries fall: leases, attempts and the request agree with the
\* task's status.
RowsConsistent ==
    TypeOK /\ LeaseOnlyWhileRunning /\ RetryBelowMax /\ ExcessAttemptsAccounted /\ SettledTogether

=============================================================================
