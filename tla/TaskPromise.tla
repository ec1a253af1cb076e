---------------------------- MODULE TaskPromise ----------------------------
(***************************************************************************)
(* What the task queue promises the code that enqueues a task, without     *)
(* workers, leases or attempts: an accepted task stays open until its      *)
(* effect has been committed at least once, or until the queue gives up    *)
(* and an operator may open it again; success is final.                    *)
(***************************************************************************)
CONSTANT Task

VARIABLES
    job,    \* where the task stands
    done    \* its effect has been committed at least once

Init ==
    /\ job = [t \in Task |-> "absent"]
    /\ done = [t \in Task |-> FALSE]

Move(t, from, to) ==
    /\ job[t] = from
    /\ job' = [job EXCEPT ![t] = to]
    /\ UNCHANGED done

Submit(t) == Move(t, "absent", "open")

\* The effect may be repeated, also by a worker that was given up on.
Perform(t) ==
    /\ job[t] # "absent"
    /\ done' = [done EXCEPT ![t] = TRUE]
    /\ UNCHANGED job

Succeed(t) == done[t] /\ Move(t, "open", "succeeded")
GiveUp(t) == Move(t, "open", "stopped")
Reopen(t) == Move(t, "stopped", "open")

Next == \E t \in Task : Submit(t) \/ Perform(t) \/ Succeed(t) \/ GiveUp(t) \/ Reopen(t)

Spec == Init /\ [][Next]_<<job, done>>
=============================================================================
