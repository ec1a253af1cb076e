--------------------------- MODULE BatchOperation ---------------------------
(***************************************************************************)
(* One batch operation and its items: internal/platform/batch.go.          *)
(*                                                                         *)
(* A worker claims the operation, reads a chunk of pending items, and for  *)
(* each of them looks at the operation's status, applies the effect and    *)
(* the item's status in one transaction, and renews the lease; at the end  *)
(* it counts the items and settles the operation.  Operators pause,        *)
(* resume, cancel and retry it meanwhile.  Each of these is a statement or *)
(* a transaction of its own, and workers may overlap: a lease runs out     *)
(* under a living worker, or the operation is paused, resumed and claimed  *)
(* again while its first worker is still inside the chunk.                 *)
(*                                                                         *)
(* Abstractions: the effect on an account (tag, membership, notification)  *)
(* is a counter; an item is 'running' inside its transaction only, so no   *)
(* other statement sees it; leases as in TaskQueue.                        *)
(***************************************************************************)
EXTENDS Naturals, FiniteSets, Functions

CONSTANTS
    Item,       \* ids of the items, ordered as BIGSERIAL gives them
    Chunk,      \* batch.chunk_size
    Worker,     \* worker processes; each writes its own lease_owner
    NoOwner,    \* SQL NULL in lease_owner
    MaxFaults   \* bound: how often one of Fault happens

Fault == {"stall", "abandon", "lost", "resume", "retry"}

VARIABLES
    op,        \* batch_operations: status, lease_owner, lease still live
    item,      \* batch_operation_items.status
    applied,   \* how often the effect of the item has been committed
    wk,        \* per worker: where it is in ProcessNextBatch and what it read
    late,      \* per worker: effects it committed after the batch was canceled
    spent      \* how often each of Fault has happened

vars == <<op, item, applied, wk, late, spent>>

OpStatus == {"absent", "pending", "running", "paused", "retry",
             "succeeded", "failed", "canceled"}
ItemStatus == {"absent", "pending", "succeeded", "failed"}
Phase == {"idle", "claimed", "loop", "item", "mark", "renew", "settle"}

Op == [status: OpStatus, owner: Worker \cup {NoOwner}, live: BOOLEAN]
Work == [phase: Phase, todo: SUBSET Item, verdict: {"none", "pending", "succeeded", "failed"}]
Idle == [phase |-> "idle", todo |-> {}, verdict |-> "none"]

Unowned(status) == [status |-> status, owner |-> NoOwner, live |-> FALSE]

\* The first item, in id order, of those a worker has still to do.
Current(w) == CHOOSE i \in wk[w].todo : \A j \in wk[w].todo : i <= j

\* Slip: a running operation is never taken over.
ClaimableUnlessRunning == op.status \in {"pending", "retry"}

\* status IN ('pending','retry') OR (status='running' AND lease_expires_at<NOW())
Claimable ==
    \/ op.status \in {"pending", "retry"}
    \/ op.status = "running" /\ ~op.live

\* The living worker whose claim the lease names is still at work.
Held == op.owner \in Worker /\ wk[op.owner].phase # "idle"

Spend(fault) ==
    /\ FoldFunction(+, 0, spent) < MaxFaults
    /\ spent' = [spent EXCEPT ![fault] = @ + 1]

Go(w, phase) == wk' = [wk EXCEPT ![w] = [@ EXCEPT !.phase = phase]]

Init ==
    /\ op = Unowned("absent")
    /\ item = [i \in Item |-> "absent"]
    /\ applied = [i \in Item |-> 0]
    /\ wk = [w \in Worker |-> Idle]
    /\ late = [w \in Worker |-> 0]
    /\ spent = [f \in Fault |-> 0]

-----------------------------------------------------------------------------
(* The API. *)

\* A repetition under the same idempotency key only reads the operation.
CreateBatch ==
    /\ op.status = "absent"
    /\ op' = Unowned("pending")
    /\ item' = [i \in Item |-> "pending"]
    /\ UNCHANGED <<applied, wk, late, spent>>

\* Slip: the UPDATE leaves lease_owner and lease_expires_at as they are.
TransitionKeepsLease(next, allowed) ==
    /\ op.status \in allowed
    /\ op' = [op EXCEPT !.status = next]
    /\ UNCHANGED <<item, applied, wk, late>>

batchTransition(next, allowed) ==
    /\ op.status \in allowed
    /\ op' = Unowned(next)
    /\ UNCHANGED <<item, applied, wk, late>>

PauseBatch ==
    batchTransition("paused", {"pending", "retry", "running"}) /\ UNCHANGED spent

ResumeBatch == batchTransition("pending", {"paused"}) /\ Spend("resume")

CancelBatch ==
    /\ batchTransition("canceled", {"pending", "retry", "paused", "running", "failed"})
    /\ UNCHANGED spent

\* Slip: every item starts again, not only the failed ones.
RetryEverything ==
    /\ op.status = "failed"
    /\ Spend("retry")
    /\ op' = Unowned("retry")
    /\ item' = [i \in Item |-> "pending"]
    /\ UNCHANGED <<applied, wk, late>>

RetryBatch ==
    /\ op.status = "failed"
    /\ Spend("retry")
    /\ op' = Unowned("retry")
    /\ item' = [i \in Item |-> IF item[i] = "failed" THEN "pending" ELSE item[i]]
    /\ UNCHANGED <<applied, wk, late>>

-----------------------------------------------------------------------------
(* ProcessNextBatch of one worker, statement by statement. *)

Claim(w) ==
    /\ wk[w].phase = "idle"
    /\ Claimable
    /\ op' = [status |-> "running", owner |-> w, live |-> TRUE]
    /\ Go(w, "claimed")
    /\ UNCHANGED <<item, applied, late, spent>>

\* SELECT ... WHERE status='pending' ORDER BY id LIMIT chunk
ReadChunk(w) ==
    LET pending == {i \in Item : item[i] = "pending"}
        chunk == {i \in pending : Cardinality({j \in pending : j < i}) < Chunk}
    IN  /\ wk[w].phase = "claimed"
        /\ wk' = [wk EXCEPT ![w] = [@ EXCEPT !.phase = "loop", !.todo = chunk]]
        /\ UNCHANGED <<op, item, applied, late, spent>>

\* The head of the loop: leave when the operation is no longer 'running'.  The
\* status is all it looks at, not whose lease it is.
CheckStatus(w) ==
    /\ wk[w].phase = "loop"
    /\ wk' = [wk EXCEPT ![w] =
                IF wk[w].todo = {} THEN [@ EXCEPT !.phase = "settle"]
                ELSE IF op.status # "running" THEN Idle
                ELSE [@ EXCEPT !.phase = "item"]]
    /\ UNCHANGED <<op, item, applied, late, spent>>

CommitEffect(w) ==
    /\ item' = [item EXCEPT ![Current(w)] = "succeeded"]
    /\ applied' = [applied EXCEPT ![Current(w)] = @ + 1]
    /\ late' = [late EXCEPT ![w] = IF op.status = "canceled" THEN @ + 1 ELSE @]

\* processBatchItem commits the effect with the item's status, or it fails and
\* commits neither; an item that is not 'pending' any more is a conflict, and
\* that too is an error of the item.
ProcessItem(w) ==
    /\ wk[w].phase = "item"
    /\ \/ /\ item[Current(w)] = "pending"
          /\ CommitEffect(w)
          /\ Go(w, "renew")
       \/ UNCHANGED <<item, applied, late>> /\ Go(w, "mark")
    /\ UNCHANGED <<op, spent>>

\* The transaction commits but the reply is lost: an error to the caller.
ProcessItemReplyLost(w) ==
    /\ wk[w].phase = "item"
    /\ item[Current(w)] = "pending"
    /\ Spend("lost")
    /\ CommitEffect(w)
    /\ Go(w, "mark")
    /\ UNCHANGED op

\* After an error the item is marked 'failed', whatever its status is by now;
\* should this statement fail, the error is dropped and the item stays.
MarkFailed(w) ==
    /\ wk[w].phase = "mark"
    /\ \/ item' = [item EXCEPT ![Current(w)] = "failed"]
       \/ UNCHANGED item
    /\ Go(w, "renew")
    /\ UNCHANGED <<op, applied, late, spent>>

\* The lease is renewed only if it is this worker's; then the next item.
RenewLease(w) ==
    /\ wk[w].phase = "renew"
    /\ op' = IF op.owner = w /\ op.status = "running" THEN [op EXCEPT !.live = TRUE] ELSE op
    /\ wk' = [wk EXCEPT ![w] = [@ EXCEPT !.phase = "loop", !.todo = wk[w].todo \ {Current(w)}]]
    /\ UNCHANGED <<item, applied, late, spent>>

\* finalizeBatchChunk, first statement: count the items by status.
CountItems(w) ==
    /\ wk[w].phase = "settle" /\ wk[w].verdict = "none"
    /\ wk' = [wk EXCEPT ![w].verdict =
                IF \E i \in Item : item[i] = "pending" THEN "pending"
                ELSE IF \E i \in Item : item[i] = "failed" THEN "failed" ELSE "succeeded"]
    /\ UNCHANGED <<op, item, applied, late, spent>>

\* finalizeBatchChunk, second statement, guarded by lease_owner alone.
Finalize(w) ==
    /\ wk[w].verdict # "none"
    /\ op' = IF op.owner = w THEN Unowned(wk[w].verdict) ELSE op
    /\ wk' = [wk EXCEPT ![w] = Idle]
    /\ UNCHANGED <<item, applied, late, spent>>

\* The process dies, or a statement outside an item fails and ends the call.
Abandon(w) ==
    /\ wk[w].phase # "idle"
    /\ Spend("abandon")
    /\ wk' = [wk EXCEPT ![w] = Idle]
    /\ UNCHANGED <<op, item, applied, late>>

-----------------------------------------------------------------------------
(* Time. *)

LeaseLapses ==
    /\ op.live /\ ~Held
    /\ op' = [op EXCEPT !.live = FALSE]
    /\ UNCHANGED <<item, applied, wk, late, spent>>

\* The lease runs out under a worker that is alive but slow or cut off.
LeaseStalls ==
    /\ op.live /\ Held
    /\ Spend("stall")
    /\ op' = [op EXCEPT !.live = FALSE]
    /\ UNCHANGED <<item, applied, wk, late>>

Operator == CreateBatch \/ PauseBatch \/ ResumeBatch \/ CancelBatch \/ RetryBatch

Proceed(w) ==
    \/ ReadChunk(w) \/ CheckStatus(w)
    \/ ProcessItem(w) \/ ProcessItemReplyLost(w) \/ MarkFailed(w) \/ RenewLease(w)
    \/ CountItems(w) \/ Finalize(w)

Next ==
    \/ Operator \/ LeaseLapses \/ LeaseStalls
    \/ \E w \in Worker : Claim(w) \/ Proceed(w) \/ Abandon(w)

-----------------------------------------------------------------------------
(* Properties. *)

\* Types of the operation, its items, the workers and the counters.
TypeOK ==
    /\ op \in Op
    /\ item \in [Item -> ItemStatus]
    /\ applied \in [Item -> Nat]
    /\ wk \in [Worker -> Work]
    /\ late \in [Worker -> Nat]
    /\ spent \in [Fault -> Nat]

\* However workers overlap, whatever replies are lost and however wrongly an
\* item is marked, its effect is applied at most once more than operators have
\* retried the batch, and an item marked 'succeeded' has been applied.
EffectsWithinRetries ==
    \A i \in Item :
        /\ applied[i] <= 1 + spent["retry"]
        /\ item[i] = "succeeded" => applied[i] > 0

\* A canceled batch stays canceled, and a paused one waits for an operator,
\* also when a worker was inside a chunk or about to settle it:
\* finalizeBatchChunk looks at lease_owner only and never at the status.
StopsAreKept ==
    [][/\ op.status = "canceled" => op'.status = "canceled"
       /\ op.status = "paused" => op'.status \in {"paused", "pending", "canceled"}]_vars

\* Canceling stops the batch up to the one item each worker was already in.
CancelStopsWork == \A w \in Worker : late[w] <= 1

\* No two workers were ever in the batch at the same time.
NoOverlap == spent["stall"] = 0 /\ spent["resume"] = 0

\* Status and effect of an item agree: applied exactly once when it has
\* succeeded, not at all otherwise.
EffectAgrees == \A i \in Item : applied[i] = IF item[i] = "succeeded" THEN 1 ELSE 0

\* They agree through crashes and retries, as long as workers do not overlap
\* and no reply to a commit is lost.
EffectMatchesItem == NoOverlap /\ spent["lost"] = 0 => EffectAgrees

\* A settled batch tells the truth about its items, unless a worker that was
\* overtaken changed one afterwards.
SettledMeansAll ==
    NoOverlap =>
        /\ op.status = "succeeded" => \A i \in Item : item[i] = "succeeded"
        /\ op.status = "failed" =>
              /\ \A i \in Item : item[i] \in {"succeeded", "failed"}
              /\ \E i \in Item : item[i] = "failed"

\* A batch that is not stopped by an operator is settled: crashed workers and
\* expired leases are taken over (v3/README.md:88).
EventuallySettled ==
    op.status = "pending" ~> op.status \in {"succeeded", "failed", "paused", "canceled"}

\* No effect is lost, repeated or ascribed to the wrong status while workers
\* claim, crash, overlap and are stopped, and a settled batch tells the truth.
EffectsAccounted ==
    TypeOK /\ EffectsWithinRetries /\ CancelStopsWork /\ EffectMatchesItem /\ SettledMeansAll

=============================================================================
