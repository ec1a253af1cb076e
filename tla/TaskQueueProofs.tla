-------------------------- MODULE TaskQueueProofs --------------------------
(***************************************************************************)
(* Proofs about TaskQueue, for every set of tasks and workers and every    *)
(* bound.  Only the theorems on retries and on the consistency of the rows *)
(* need the workers to have distinct lease_owner values.                   *)
(***************************************************************************)
EXTENDS TaskQueue, TLAPS

(* Type correctness. *)

\* The initial row, request, run and counter values have their types.
LEMMA InitTyped == Init => TypeOK
  BY TaskAssumption, BoundAssumption
  DEF Init, TypeOK, Row, Run, Spent, Status, RequestStatus, Outcome, Polling

\* A row keeps its type when its status and lease change as finish(), fail(),
\* the renewal and the passing of time change them.
LEMMA RowColumns ==
  ASSUME NEW r \in Row
  PROVE  /\ [r EXCEPT !.live = TRUE] \in Row
         /\ [r EXCEPT !.live = FALSE] \in Row
         /\ \A s \in Status :
              /\ [r EXCEPT !.status = s] \in Row
              /\ [r EXCEPT !.status = s, !.owner = NoOwner, !.live = FALSE] \in Row
  BY DEF Row

\* A claim keeps its type when processing ends or its renewal stops.
LEMMA RunColumns ==
  ASSUME NEW r \in Run
  PROVE  /\ [r EXCEPT !.keeping = FALSE] \in Run
         /\ \A o \in Outcome : [r EXCEPT !.outcome = o, !.keeping = FALSE] \in Run
  BY DEF Run

\* A counter below its bound can be counted up.
LEMMA SpentColumns ==
  ASSUME NEW s \in Spent
  PROVE  /\ s.stalls < MaxStalls => [s EXCEPT !.stalls = @ + 1] \in Spent
         /\ s.abandons < MaxAbandons => [s EXCEPT !.abandons = @ + 1] \in Spent
         /\ s.retries < MaxRetries => [s EXCEPT !.retries = @ + 1] \in Spent
  BY BoundAssumption DEF Spent

\* Every operation on platform_tasks and every step of a worker keeps the types.
LEMMA StepTyped == TypeOK /\ [Next]_vars => TypeOK'
<1> SUFFICES ASSUME TypeOK, [Next]_vars PROVE TypeOK'
  OBVIOUS
<1> USE TaskAssumption, BoundAssumption DEF TypeOK
<1>1. CASE UNCHANGED vars
  BY <1>1 DEF vars
<1>2. ASSUME NEW t \in Task, Enqueue(t) PROVE TypeOK'
  <2>1. [row[t] EXCEPT !.status = "pending"] \in Row
    BY RowColumns DEF Status
  <2> QED
    BY <1>2, <2>1 DEF Enqueue, RequestStatus
<1>3. ASSUME NEW t \in Task, RetryTask(t) PROVE TypeOK'
  <2>1. [status |-> "retry", attempts |-> 0, owner |-> NoOwner, live |-> FALSE] \in Row
    BY DEF Row, Status
  <2> QED
    BY <1>3, <2>1, SpentColumns DEF RetryTask, RequestStatus
<1>4. ASSUME NEW t \in Task, LeaseLapses(t) PROVE TypeOK'
  <2>1. [row[t] EXCEPT !.live = FALSE] \in Row
    BY RowColumns
  <2> QED
    BY <1>4, <2>1 DEF LeaseLapses
<1>5. ASSUME NEW t \in Task, LeaseStalls(t) PROVE TypeOK'
  <2>1. [row[t] EXCEPT !.live = FALSE] \in Row
    BY RowColumns
  <2> QED
    BY <1>5, <2>1, SpentColumns DEF LeaseStalls
<1>6. ASSUME NEW w \in Worker, NEW t \in Task, Claim(w, t) PROVE TypeOK'
  <2>1. [status |-> "running", attempts |-> row[t].attempts + 1,
         owner |-> IdOf[w], live |-> TRUE] \in Row
    BY DEF Row, Status
  <2>2. [task |-> t, attempt |-> row[t].attempts + 1,
         keeping |-> TRUE, outcome |-> "working"] \in Run
    BY DEF Run, Row, Outcome
  <2> QED
    BY <1>6, <2>1, <2>2 DEF Claim, RequestStatus
<1>7. ASSUME NEW w \in Worker, KeepLease(w) PROVE TypeOK'
  <2>1. \A t \in Task : [row[t] EXCEPT !.live = TRUE] \in Row
    BY RowColumns
  <2>2. [run[w] EXCEPT !.keeping = FALSE] \in Run
    BY RunColumns
  <2>3. row' \in [Task -> Row]
    BY <1>7, <2>1 DEF KeepLease
  <2>4. run' \in [Worker -> Run]
    BY <1>7, <2>2 DEF KeepLease
  <2> QED
    BY <1>7, <2>3, <2>4 DEF KeepLease
<1>8. ASSUME NEW w \in Worker, KeepLeaseError(w) PROVE TypeOK'
  <2>1. [run[w] EXCEPT !.keeping = FALSE] \in Run
    BY RunColumns
  <2> QED
    BY <1>8, <2>1 DEF KeepLeaseError
<1>9. ASSUME NEW w \in Worker, ProcessCommits(w) PROVE TypeOK'
  <2>1. \A o \in {"ok", "error"} : [run[w] EXCEPT !.outcome = o, !.keeping = FALSE] \in Run
    BY RunColumns DEF Outcome
  <2>2. run' \in [Worker -> Run]
    BY <1>9, <2>1 DEF ProcessCommits
  <2> QED
    BY <1>9, <2>2 DEF ProcessCommits, RequestStatus
<1>10. ASSUME NEW w \in Worker, ProcessFails(w) PROVE TypeOK'
  <2>1. \A o \in {"error", "permanent"} :
          [run[w] EXCEPT !.outcome = o, !.keeping = FALSE] \in Run
    BY RunColumns DEF Outcome
  <2> QED
    BY <1>10, <2>1 DEF ProcessFails
<1>11. ASSUME NEW w \in Worker, Finish(w) PROVE TypeOK'
  <2>1. \A t \in Task : [row[t] EXCEPT !.status = "succeeded",
                                        !.owner = NoOwner, !.live = FALSE] \in Row
    BY RowColumns DEF Status
  <2>2. Polling \in Run
    BY DEF Run, Polling, Outcome
  <2> QED
    BY <1>11, <2>1, <2>2 DEF Finish
<1>12. ASSUME NEW w \in Worker, Fail(w) PROVE TypeOK'
  <2>1. Verdict(w) \in {"failed", "dead", "retry"}
    BY DEF Verdict
  <2>2. \A t \in Task : [row[t] EXCEPT !.status = Verdict(w),
                                        !.owner = NoOwner, !.live = FALSE] \in Row
    BY <2>1, RowColumns DEF Status
  <2>3. Polling \in Run
    BY DEF Run, Polling, Outcome
  <2> QED
    BY <1>12, <2>2, <2>3 DEF Fail, RequestStatus
<1>13. ASSUME NEW w \in Worker, Abandon(w) PROVE TypeOK'
  <2>1. Polling \in Run
    BY DEF Run, Polling, Outcome
  <2> QED
    BY <1>13, <2>1, SpentColumns DEF Abandon
<1> QED
  BY <1>1, <1>2, <1>3, <1>4, <1>5, <1>6, <1>7, <1>8, <1>9, <1>10, <1>11, <1>12, <1>13
  DEF Next, TaskStep, WorkerStep

\* The tables and the workers' local state always have their types.
THEOREM TypeCorrect == Spec => []TypeOK
  BY InitTyped, StepTyped, PTL DEF Spec
-----------------------------------------------------------------------------
(* The inductive invariant. *)

\* What a worker process remembers agrees with the tables: it polls exactly
\* when it holds no claim, it works on accepted tasks only, it renews only
\* while process() runs, and a result "ok" stands for a committed effect.
RunsConsistent ==
    \A w \in Worker :
        /\ (run[w].task = NoTask) <=> (run[w].outcome = "idle")
        /\ run[w].keeping => run[w].outcome = "working"
        /\ run[w].task \in Task => row[run[w].task].status # "absent"
        /\ run[w].outcome = "ok" => bound[run[w].task]

IInv == TypeOK /\ LeaseOnlyWhileRunning /\ RunsConsistent

\* No lease is held and no worker holds a claim initially.
LEMMA InitInv == Init => IInv
<1> SUFFICES ASSUME Init PROVE IInv
  OBVIOUS
<1>1. TypeOK
  BY InitTyped
<1>2. LeaseOnlyWhileRunning
  BY DEF Init, LeaseOnlyWhileRunning
<1>3. RunsConsistent
  BY TaskAssumption DEF Init, RunsConsistent, Polling
<1> QED
  BY <1>1, <1>2, <1>3 DEF IInv

\* Every UPDATE of lease_owner writes the status that goes with it.
LEMMA StepLease == TypeOK /\ LeaseOnlyWhileRunning /\ [Next]_vars => LeaseOnlyWhileRunning'
<1> SUFFICES ASSUME TypeOK, LeaseOnlyWhileRunning, [Next]_vars,
                    NEW s \in Task
             PROVE  (row'[s].status = "running") <=> (row'[s].owner # NoOwner)
  BY DEF LeaseOnlyWhileRunning
<1>0. /\ row \in [Task -> Row] /\ row[s] \in Row
      /\ (row[s].status = "running") <=> (row[s].owner # NoOwner)
  BY DEF TypeOK, LeaseOnlyWhileRunning
<1>1. CASE UNCHANGED vars
  BY <1>0, <1>1 DEF vars
<1>2. CASE \E t \in Task : TaskStep(t)
  BY <1>0, <1>2 DEF TaskStep, Enqueue, RetryTask, LeaseLapses, LeaseStalls, Row
<1>3. ASSUME NEW w \in Worker, NEW t \in Task, Claim(w, t)
      PROVE  (row'[s].status = "running") <=> (row'[s].owner # NoOwner)
  BY <1>0, <1>3, TaskAssumption DEF Claim, Row
<1>4. ASSUME NEW w \in Worker,
             KeepLease(w) \/ KeepLeaseError(w) \/ ProcessCommits(w) \/ ProcessFails(w) \/ Abandon(w)
      PROVE  (row'[s].status = "running") <=> (row'[s].owner # NoOwner)
  BY <1>0, <1>4 DEF KeepLease, KeepLeaseError, ProcessCommits, ProcessFails, Abandon, Row
<1>5. ASSUME NEW w \in Worker, Finish(w)
      PROVE  (row'[s].status = "running") <=> (row'[s].owner # NoOwner)
  BY <1>0, <1>5 DEF Finish, Row
<1>6. ASSUME NEW w \in Worker, Fail(w)
      PROVE  (row'[s].status = "running") <=> (row'[s].owner # NoOwner)
  <2>1. Verdict(w) # "running"
    BY DEF Verdict
  <2> QED
    BY <1>0, <1>6, <2>1 DEF Fail, Row
<1> QED
  BY <1>1, <1>2, <1>3, <1>4, <1>5, <1>6 DEF Next, WorkerStep

\* No step makes a task absent again, and none undoes a committed effect.
LEMMA StepForward ==
  ASSUME TypeOK, [Next]_vars, NEW s \in Task
  PROVE  /\ row[s].status # "absent" => row'[s].status # "absent"
         /\ bound[s] => bound'[s]
<1>0. row \in [Task -> Row] /\ row[s] \in Row /\ bound \in [Task -> BOOLEAN]
  BY DEF TypeOK
<1>1. CASE UNCHANGED vars
  BY <1>1 DEF vars
<1>2. CASE \E t \in Task : TaskStep(t)
  BY <1>0, <1>2 DEF TaskStep, Enqueue, RetryTask, LeaseLapses, LeaseStalls, Row
<1>3. CASE \E w \in Worker : \E t \in Task : Claim(w, t)
  BY <1>0, <1>3 DEF Claim, Row
<1>4. CASE \E w \in Worker :
             KeepLease(w) \/ KeepLeaseError(w) \/ ProcessFails(w) \/ Abandon(w)
  BY <1>0, <1>4 DEF KeepLease, KeepLeaseError, ProcessFails, Abandon, Row
<1>5. CASE \E w \in Worker : ProcessCommits(w)
  BY <1>0, <1>5 DEF ProcessCommits
<1>6. CASE \E w \in Worker : Finish(w)
  BY <1>0, <1>6 DEF Finish, Row
<1>7. CASE \E w \in Worker : Fail(w)
  BY <1>0, <1>7 DEF Fail, Verdict, Row
<1> QED
  BY <1>1, <1>2, <1>3, <1>4, <1>5, <1>6, <1>7 DEF Next, WorkerStep

\* A step changes what at most one worker remembers, and consistently.
LEMMA StepRuns == IInv /\ [Next]_vars => RunsConsistent'
<1> SUFFICES ASSUME IInv, [Next]_vars, NEW v \in Worker
             PROVE  /\ (run'[v].task = NoTask) <=> (run'[v].outcome = "idle")
                    /\ run'[v].keeping => run'[v].outcome = "working"
                    /\ run'[v].task \in Task => row'[run'[v].task].status # "absent"
                    /\ run'[v].outcome = "ok" => bound'[run'[v].task]
  BY DEF RunsConsistent
<1> DEFINE Same == run'[v] = run[v]
           Polls == run'[v] = Polling
<1>0. /\ run \in [Worker -> Run] /\ run[v] \in Run /\ bound \in [Task -> BOOLEAN]
      /\ (run[v].task = NoTask) <=> (run[v].outcome = "idle")
      /\ run[v].keeping => run[v].outcome = "working"
      /\ run[v].task \in Task => row[run[v].task].status # "absent"
      /\ run[v].outcome = "ok" => bound[run[v].task]
      /\ run[v].task \in Task \cup {NoTask}
  BY DEF IInv, TypeOK, RunsConsistent, Run
<1>1. ASSUME Same
      PROVE  /\ (run'[v].task = NoTask) <=> (run'[v].outcome = "idle")
             /\ run'[v].keeping => run'[v].outcome = "working"
             /\ run'[v].task \in Task => row'[run'[v].task].status # "absent"
             /\ run'[v].outcome = "ok" => bound'[run'[v].task]
  BY <1>0, <1>1, StepForward DEF IInv
<1>2. ASSUME Polls
      PROVE  /\ (run'[v].task = NoTask) <=> (run'[v].outcome = "idle")
             /\ run'[v].keeping => run'[v].outcome = "working"
             /\ run'[v].task \in Task => row'[run'[v].task].status # "absent"
             /\ run'[v].outcome = "ok" => bound'[run'[v].task]
  BY <1>2, TaskAssumption DEF Polling
<1>3. CASE UNCHANGED vars \/ \E t \in Task : TaskStep(t)
  <2>1. Same
    BY <1>3 DEF vars, TaskStep, Enqueue, RetryTask, LeaseLapses, LeaseStalls
  <2> QED
    BY <1>1, <2>1
<1>4. ASSUME NEW w \in Worker, w # v, WorkerStep(w)
      PROVE  Same
  <2>1. CASE \E t \in Task : Claim(w, t)
    BY <1>0, <1>4, <2>1 DEF Claim
  <2>2. CASE KeepLease(w) \/ KeepLeaseError(w) \/ Abandon(w)
    BY <1>0, <1>4, <2>2 DEF KeepLease, KeepLeaseError, Abandon
  <2>3. CASE ProcessCommits(w) \/ ProcessFails(w)
    BY <1>0, <1>4, <2>3 DEF ProcessCommits, ProcessFails
  <2>4. CASE Finish(w) \/ Fail(w)
    BY <1>0, <1>4, <2>4 DEF Finish, Fail
  <2> QED
    BY <1>4, <2>1, <2>2, <2>3, <2>4 DEF WorkerStep
<1>5. CASE WorkerStep(v)
  <2>1. CASE \E t \in Task : Claim(v, t)
    <3>1. PICK t \in Task : Claim(v, t)
      BY <2>1
    <3>2. run'[v] = [task |-> t, attempt |-> row[t].attempts + 1,
                     keeping |-> TRUE, outcome |-> "working"]
      BY <1>0, <3>1 DEF Claim
    <3>3. row'[t].status = "running"
      BY <3>1 DEF Claim, IInv, TypeOK
    <3> QED
      BY <3>2, <3>3, TaskAssumption
  <2>2. CASE KeepLease(v)
    <3>1. Same \/ run'[v] = [run[v] EXCEPT !.keeping = FALSE]
      BY <1>0, <2>2 DEF KeepLease
    <3>2. CASE run'[v] = [run[v] EXCEPT !.keeping = FALSE]
      BY <1>0, <3>2, StepForward DEF IInv, Run
    <3> QED
      BY <1>1, <3>1, <3>2
  <2>3. CASE KeepLeaseError(v)
    <3>1. run'[v] = [run[v] EXCEPT !.keeping = FALSE]
      BY <1>0, <2>3 DEF KeepLeaseError
    <3> QED
      BY <1>0, <3>1, StepForward DEF IInv, Run
  <2>4. CASE ProcessCommits(v)
    <3>1. PICK o \in {"ok", "error"} :
            run'[v] = [run[v] EXCEPT !.outcome = o, !.keeping = FALSE]
      BY <1>0, <2>4 DEF ProcessCommits
    <3>2. run[v].task \in Task /\ bound'[run[v].task]
      BY <1>0, <2>4 DEF ProcessCommits
    <3> QED
      BY <1>0, <3>1, <3>2, StepForward, TaskAssumption DEF IInv, Run
  <2>5. CASE ProcessFails(v)
    <3>1. PICK o \in {"error", "permanent"} :
            run'[v] = [run[v] EXCEPT !.outcome = o, !.keeping = FALSE]
      BY <1>0, <2>5 DEF ProcessFails
    <3>2. run[v].task # NoTask
      BY <1>0, <2>5 DEF ProcessFails
    <3> QED
      BY <1>0, <3>1, <3>2, StepForward DEF IInv, Run
  <2>6. CASE Finish(v) \/ Fail(v) \/ Abandon(v)
    <3>1. Polls
      BY <1>0, <2>6 DEF Finish, Fail, Abandon
    <3> QED
      BY <1>2, <3>1
  <2> QED
    BY <1>5, <2>1, <2>2, <2>3, <2>4, <2>5, <2>6 DEF WorkerStep
<1> QED
  BY <1>1, <1>3, <1>4, <1>5 DEF Next

\* The three parts of the invariant are kept together.
LEMMA StepInv == IInv /\ [Next]_vars => IInv'
  BY StepTyped, StepLease, StepRuns DEF IInv

\* The inductive invariant holds in every reachable state.
THEOREM InvHolds == Spec => []IInv
  BY InitInv, StepInv, PTL DEF Spec

\* A row of platform_tasks names a lease owner exactly while it is running, for
\* any assignment of lease_owner values to processes.
THEOREM LeaseOnlyWhileRunningHolds == Spec => []LeaseOnlyWhileRunning
<1>1. IInv => LeaseOnlyWhileRunning
  BY DEF IInv
<1> QED
  BY <1>1, InvHolds, PTL

-----------------------------------------------------------------------------
(* Success is final. *)

\* A succeeded row has no owner, so no statement of a worker finds it.
LEMMA StepFinal ==
  ASSUME IInv, [Next]_vars, NEW s \in Task, row[s].status = "succeeded"
  PROVE  row'[s].status = "succeeded"
<1>0. /\ row \in [Task -> Row] /\ row[s].owner = NoOwner
      /\ \A w \in Worker : ~Owns(w, s)
  BY TaskAssumption DEF IInv, TypeOK, LeaseOnlyWhileRunning, Owns
<1>1. CASE UNCHANGED vars
  BY <1>1 DEF vars
<1>2. CASE \E t \in Task : TaskStep(t)
  BY <1>0, <1>2 DEF TaskStep, Enqueue, RetryTask, LeaseLapses, LeaseStalls, Row
<1>3. CASE \E w \in Worker : \E t \in Task : Claim(w, t)
  BY <1>0, <1>3 DEF Claim, Claimable
<1>4. CASE \E w \in Worker :
             KeepLease(w) \/ KeepLeaseError(w) \/ ProcessCommits(w) \/ ProcessFails(w) \/ Abandon(w)
  BY <1>0, <1>4 DEF KeepLease, KeepLeaseError, ProcessCommits, ProcessFails, Abandon, Row
<1>5. CASE \E w \in Worker : Finish(w)
  BY <1>0, <1>5 DEF Finish
<1>6. CASE \E w \in Worker : Fail(w)
  BY <1>0, <1>6 DEF Fail
<1> QED
  BY <1>1, <1>2, <1>3, <1>4, <1>5, <1>6 DEF Next, WorkerStep

\* No late finish(), fail(), renewal or retry moves a task out of 'succeeded',
\* even when several processes write the same lease_owner.
THEOREM SucceededIsFinalHolds == Spec => SucceededIsFinal
<1>1. IInv /\ [Next]_vars =>
        [\A t \in Task : row[t].status = "succeeded" => row'[t].status = "succeeded"]_vars
  BY StepFinal
<1> QED
  BY <1>1, InvHolds, PTL DEF Spec, SucceededIsFinal

-----------------------------------------------------------------------------
(* Retries stay below the maximum when lease_owner values are distinct. *)

\* While the row is a worker's own, the attempt it claimed is the row's.
ClaimCurrent ==
    \A w \in Worker :
        run[w].task \in Task /\ Owns(w, run[w].task) =>
            run[w].attempt = row[run[w].task].attempts

\* Another worker's claim takes the lease away; it never shares it.
LEMMA StepCurrent ==
  DistinctIds /\ IInv /\ ClaimCurrent /\ [Next]_vars => ClaimCurrent'
<1> SUFFICES ASSUME DistinctIds, IInv, ClaimCurrent, [Next]_vars,
                    NEW v \in Worker, run'[v].task \in Task,
                    row'[run'[v].task].owner = IdOf[v]
             PROVE  run'[v].attempt = row'[run'[v].task].attempts
  BY DEF ClaimCurrent, Owns
<1>0. /\ row \in [Task -> Row] /\ run \in [Worker -> Run] /\ IdOf[v] # NoOwner
      /\ run[v].task \in Task /\ row[run[v].task].owner = IdOf[v] =>
            run[v].attempt = row[run[v].task].attempts
      /\ \A t \in Task : row[t] \in Row
      /\ run[v] \in Run
  BY TaskAssumption DEF IInv, TypeOK, ClaimCurrent, Owns
<1>1. CASE UNCHANGED vars
  BY <1>0, <1>1 DEF vars
<1>2. CASE \E t \in Task : TaskStep(t)
  BY <1>0, <1>2 DEF TaskStep, Enqueue, RetryTask, LeaseLapses, LeaseStalls, Row
<1>3. ASSUME NEW w \in Worker, NEW t \in Task, Claim(w, t)
      PROVE  run'[v].attempt = row'[run'[v].task].attempts
  <2>1. CASE w = v
    BY <1>0, <1>3, <2>1 DEF Claim
  <2>2. CASE w # v
    BY <1>0, <1>3, <2>2 DEF Claim, DistinctIds
  <2> QED
    BY <2>1, <2>2
<1>4. ASSUME NEW w \in Worker, KeepLease(w) \/ KeepLeaseError(w)
      PROVE  run'[v].attempt = row'[run'[v].task].attempts
  BY <1>0, <1>4 DEF KeepLease, KeepLeaseError, Row, Run
<1>5. ASSUME NEW w \in Worker, ProcessCommits(w) \/ ProcessFails(w)
      PROVE  run'[v].attempt = row'[run'[v].task].attempts
  <2>1. row' = row /\ run'[v].task = run[v].task /\ run'[v].attempt = run[v].attempt
    <3>1. CASE ProcessCommits(w)
      BY <1>0, <3>1 DEF ProcessCommits, Run
    <3>2. CASE ProcessFails(w)
      BY <1>0, <3>2 DEF ProcessFails, Run
    <3> QED
      BY <1>5, <3>1, <3>2
  <2> QED
    BY <1>0, <2>1
<1>6. ASSUME NEW w \in Worker, Finish(w) \/ Fail(w) \/ Abandon(w)
      PROVE  run'[v].attempt = row'[run'[v].task].attempts
  <2>1. run'[w] = Polling /\ (w # v => run'[v] = run[v])
    BY <1>0, <1>6 DEF Finish, Fail, Abandon
  <2>2. w # v
    BY <2>1, TaskAssumption DEF Polling
  <2>3. row'[run[v].task] = row[run[v].task] \/ row'[run[v].task].owner = NoOwner
    <3>1. CASE Finish(w)
      BY <1>0, <2>1, <2>2, <3>1 DEF Finish, Row
    <3>2. CASE Fail(w)
      BY <1>0, <2>1, <2>2, <3>2 DEF Fail, Row
    <3>3. CASE Abandon(w)
      BY <3>3 DEF Abandon
    <3> QED
      BY <1>6, <3>1, <3>2, <3>3
  <2> QED
    BY <1>0, <2>1, <2>2, <2>3
<1> QED
  BY <1>1, <1>2, <1>3, <1>4, <1>5, <1>6 DEF Next, WorkerStep

\* fail() chooses 'retry' only for an attempt below the maximum, and the
\* operator's retry resets the count.
LEMMA StepRetry ==
  IInv /\ ClaimCurrent /\ RetryBelowMax /\ [Next]_vars => RetryBelowMax'
<1> SUFFICES ASSUME IInv, ClaimCurrent, RetryBelowMax, [Next]_vars,
                    NEW s \in Task, row'[s].status = "retry"
             PROVE  row'[s].attempts < MaxAttempts
  BY DEF RetryBelowMax
<1>0. /\ row \in [Task -> Row] /\ row[s] \in Row
      /\ row[s].status = "retry" => row[s].attempts < MaxAttempts
  BY DEF IInv, TypeOK, RetryBelowMax
<1>1. CASE UNCHANGED vars
  BY <1>0, <1>1 DEF vars
<1>2. CASE \E t \in Task : TaskStep(t)
  BY <1>0, <1>2, BoundAssumption DEF TaskStep, Enqueue, RetryTask, LeaseLapses, LeaseStalls, Row
<1>3. CASE \E w \in Worker : \E t \in Task : Claim(w, t)
  BY <1>0, <1>3 DEF Claim
<1>4. CASE \E w \in Worker :
             KeepLeaseError(w) \/ ProcessCommits(w) \/ ProcessFails(w) \/ Abandon(w)
  BY <1>0, <1>4 DEF KeepLeaseError, ProcessCommits, ProcessFails, Abandon
<1>7. CASE \E w \in Worker : KeepLease(w)
  BY <1>0, <1>7 DEF KeepLease, Row
<1>5. CASE \E w \in Worker : Finish(w)
  BY <1>0, <1>5 DEF Finish, Row
<1>6. ASSUME NEW w \in Worker, Fail(w)
      PROVE  row'[s].attempts < MaxAttempts
  <2>1. CASE row'[s] = row[s]
    BY <1>0, <2>1
  <2>2. CASE row'[s] # row[s]
    <3>1. row' = [row EXCEPT ![run[w].task] = [row[run[w].task] EXCEPT
                    !.status = Verdict(w), !.owner = NoOwner, !.live = FALSE]]
      BY <1>6, <2>2 DEF Fail
    <3>2. run[w].task = s /\ Owns(w, s)
      BY <1>0, <1>6, <2>2, <3>1 DEF Fail
    <3>3. Verdict(w) = "retry" /\ row'[s].attempts = row[s].attempts
      BY <1>0, <3>1, <3>2 DEF Row
    <3>4. run[w].attempt < MaxAttempts
      <4>1. run[w].attempt \in Nat
        BY DEF IInv, TypeOK, Run
      <4> QED
        BY <3>3, <4>1, BoundAssumption DEF Verdict
    <3>5. run[w].attempt = row[s].attempts
      BY <3>2 DEF ClaimCurrent
    <3> QED
      BY <3>3, <3>4, <3>5
  <2> QED
    BY <2>1, <2>2
<1> QED
  BY <1>1, <1>2, <1>3, <1>4, <1>5, <1>6, <1>7 DEF Next, WorkerStep

\* With a lease_owner of its own for every process, a task goes back to 'retry'
\* only while its attempts are below max_attempts.
THEOREM RetryBelowMaxHolds == DistinctIds => (Spec => []RetryBelowMax)
<1> SUFFICES ASSUME DistinctIds PROVE Spec => []RetryBelowMax
  OBVIOUS
<1>1. Init => IInv /\ ClaimCurrent /\ RetryBelowMax
  BY InitInv, TaskAssumption DEF Init, ClaimCurrent, RetryBelowMax, Polling
<1>2. IInv /\ ClaimCurrent /\ RetryBelowMax /\ [Next]_vars =>
        (IInv /\ ClaimCurrent /\ RetryBelowMax)'
  BY StepInv, StepCurrent, StepRetry
<1> QED
  BY <1>1, <1>2, PTL DEF Spec

-----------------------------------------------------------------------------
(* Attempts beyond the maximum are paid for. *)

Paid == spent.stalls + spent.abandons

\* A task not yet claimed has counted nothing, and a running row that nobody
\* holds, or whose lease has run out, has an attempt in hand: the crash or the
\* stall that got it there has been counted and the next claim has not.
AttemptsPaid ==
    \A t \in Task :
        /\ row[t].attempts <= MaxAttempts + Paid
        /\ row[t].status \in {"absent", "pending"} => row[t].attempts = 0
        /\ row[t].status = "running" /\ ~(row[t].live /\ Held(t)) =>
               row[t].attempts < MaxAttempts + Paid

\* Nobody gives back a stall or an abandoned claim that has been counted.
LEMMA PaidGrows == TypeOK /\ [Next]_vars => Paid \in Nat /\ Paid' \in Nat /\ Paid <= Paid'
<1> SUFFICES ASSUME TypeOK, [Next]_vars
             PROVE  Paid \in Nat /\ Paid' \in Nat /\ Paid <= Paid'
  OBVIOUS
<1>1. /\ spent \in Spent
      /\ spent' = spent \/ spent' = [spent EXCEPT !.stalls = @ + 1]
           \/ spent' = [spent EXCEPT !.abandons = @ + 1]
           \/ spent' = [spent EXCEPT !.retries = @ + 1]
  BY DEF TypeOK, Next, TaskStep, WorkerStep, vars, Enqueue, RetryTask, LeaseLapses, LeaseStalls,
         Claim, KeepLease, KeepLeaseError, ProcessCommits, ProcessFails, Finish, Fail, Abandon
<1>2. spent.stalls \in Nat /\ spent.abandons \in Nat
  BY <1>1, BoundAssumption DEF Spent
<1>3. /\ spent'.stalls = spent.stalls \/ spent'.stalls = spent.stalls + 1
      /\ spent'.abandons = spent.abandons \/ spent'.abandons = spent.abandons + 1
  BY <1>1 DEF Spent
<1> QED
  BY <1>2, <1>3 DEF Paid

\* Whoever still holds the task of a row left alone holds it afterwards.
LEMMA StillHeld ==
  ASSUME NEW t \in Task, NEW w \in Worker, run[w].task = t, Owns(w, t),
         run'[w].task = t, row'[t].owner = row[t].owner
  PROVE  Held(t)'
  BY DEF Held, Owns

\* One claim more costs one crash, one stall or one attempt below the maximum.
LEMMA StepPaid ==
  IInv /\ RetryBelowMax /\ AttemptsPaid /\ [Next]_vars => AttemptsPaid'
<1> SUFFICES ASSUME IInv, RetryBelowMax, AttemptsPaid, [Next]_vars, NEW s \in Task
             PROVE  /\ row'[s].attempts <= MaxAttempts + Paid'
                    /\ row'[s].status \in {"absent", "pending"} => row'[s].attempts = 0
                    /\ row'[s].status = "running" /\ ~(row'[s].live /\ Held(s)') =>
                           row'[s].attempts < MaxAttempts + Paid'
  BY DEF AttemptsPaid
<1> DEFINE Goal == /\ row'[s].attempts <= MaxAttempts + Paid'
                   /\ row'[s].status \in {"absent", "pending"} => row'[s].attempts = 0
                   /\ row'[s].status = "running" /\ ~(row'[s].live /\ Held(s)') =>
                          row'[s].attempts < MaxAttempts + Paid'
<1>0. /\ row \in [Task -> Row] /\ row[s] \in Row /\ row[s].attempts \in Nat
      /\ run \in [Worker -> Run] /\ spent \in Spent
      /\ MaxAttempts \in Nat \ {0}
      /\ Paid \in Nat /\ Paid' \in Nat /\ Paid <= Paid'
  BY PaidGrows, BoundAssumption DEF IInv, TypeOK, Row
<1>1. /\ row[s].attempts <= MaxAttempts + Paid
      /\ row[s].status \in {"absent", "pending"} => row[s].attempts = 0
      /\ row[s].status = "running" /\ ~(row[s].live /\ Held(s)) =>
             row[s].attempts < MaxAttempts + Paid
      /\ row[s].status = "retry" => row[s].attempts < MaxAttempts
      /\ row[s].status = "running" => row[s].owner # NoOwner
  BY DEF AttemptsPaid, RetryBelowMax, IInv, LeaseOnlyWhileRunning
<1>2. ASSUME row'[s] = row[s], Held(s) => Held(s)' PROVE Goal
  BY <1>0, <1>1, <1>2
<1>3. CASE UNCHANGED vars
  BY <1>2, <1>3 DEF vars, Held, Owns
<1>4. ASSUME NEW t \in Task, Enqueue(t) \/ RetryTask(t) PROVE Goal
  <2>1. run' = run
    BY <1>4 DEF Enqueue, RetryTask
  <2>2. CASE s # t
    <3>1. row'[s] = row[s]
      BY <1>0, <1>4, <2>2 DEF Enqueue, RetryTask
    <3> QED
      BY <1>2, <2>1, <3>1 DEF Held, Owns
  <2>3. CASE s = t
    <3>1. row'[s].attempts = 0
      BY <1>0, <1>1, <1>4, <2>3 DEF Enqueue, RetryTask, Row
    <3>2. \A m \in Nat \ {0} : \A p \in Nat : 0 < m + p /\ 0 <= m + p
      OBVIOUS
    <3> QED
      BY <1>0, <3>1, <3>2
  <2> QED
    BY <2>2, <2>3
<1>5. ASSUME NEW t \in Task, LeaseLapses(t) PROVE Goal
  <2>1. run' = run /\ Paid' = Paid
    BY <1>5 DEF LeaseLapses, Paid
  <2>2. CASE s # t
    <3>1. row'[s] = row[s]
      BY <1>0, <1>5, <2>2 DEF LeaseLapses
    <3> QED
      BY <1>2, <2>1, <3>1 DEF Held, Owns
  <2>3. CASE s = t
    <3>1. ~Held(s) /\ row'[s].attempts = row[s].attempts /\ row'[s].status = row[s].status
      BY <1>0, <1>5, <2>3 DEF LeaseLapses, Row
    <3> QED
      BY <1>0, <1>1, <2>1, <3>1
  <2> QED
    BY <2>2, <2>3
<1>6. ASSUME NEW t \in Task, LeaseStalls(t) PROVE Goal
  <2>1. run' = run /\ Paid' = Paid + 1
    <3>1. /\ spent.stalls \in Nat /\ spent.abandons \in Nat
          /\ spent'.stalls = spent.stalls + 1 /\ spent'.abandons = spent.abandons
      BY <1>0, <1>6, BoundAssumption DEF LeaseStalls, Spent
    <3> QED
      BY <1>6, <3>1 DEF LeaseStalls, Paid
  <2>2. CASE s # t
    <3>1. row'[s] = row[s]
      BY <1>0, <1>6, <2>2 DEF LeaseStalls
    <3> QED
      BY <1>2, <2>1, <3>1 DEF Held, Owns
  <2>3. CASE s = t
    <3>1. row'[s].attempts = row[s].attempts /\ row'[s].status = row[s].status
      BY <1>0, <1>6, <2>3 DEF LeaseStalls, Row
    <3> QED
      BY <1>0, <1>1, <2>1, <3>1
  <2> QED
    BY <2>2, <2>3
<1>7. ASSUME NEW w \in Worker, NEW t \in Task, Claim(w, t) PROVE Goal
  <2>1. CASE s # t
    <3>1. row'[s] = row[s] /\ run[w].task = NoTask
      BY <1>0, <1>7, <2>1 DEF Claim
    <3>2. \A v \in Worker : run[v].task = s => run'[v] = run[v]
      BY <1>0, <1>7, <3>1, TaskAssumption DEF Claim
    <3> QED
      BY <1>2, <3>1, <3>2 DEF Held, Owns
  <2>2. CASE s = t
    <3>1. row'[s] = [status |-> "running", attempts |-> row[s].attempts + 1,
                     owner |-> IdOf[w], live |-> TRUE]
      BY <1>0, <1>7, <2>2 DEF Claim
    <3>2. run'[w].task = s
      BY <1>0, <1>7, <2>2 DEF Claim
    <3>3. Held(s)'
      BY <3>1, <3>2 DEF Held, Owns
    <3>4. row[s].attempts + 1 <= MaxAttempts + Paid
      BY <1>0, <1>1, <1>7, <2>2 DEF Claim, Claimable
    <3> QED
      BY <1>0, <3>1, <3>3, <3>4
  <2> QED
    BY <2>1, <2>2
<1>8. ASSUME NEW w \in Worker, KeepLease(w) PROVE Goal
  <2>1. \A v \in Worker : run'[v].task = run[v].task
    BY <1>0, <1>8 DEF KeepLease, Run
  <2>2. CASE row'[s] = row[s]
    BY <1>2, <2>1, <2>2 DEF Held, Owns
  <2>3. CASE row'[s] # row[s]
    <3>1. run[w].task = s /\ Owns(w, s)
      BY <1>0, <1>8, <2>3 DEF KeepLease
    <3>2. /\ row'[s].attempts = row[s].attempts /\ row'[s].status = row[s].status
          /\ row'[s].owner = row[s].owner /\ row'[s].live
      BY <1>0, <1>8, <2>3, <3>1 DEF KeepLease, Row
    <3>3. Held(s)'
      BY <2>1, <3>1, <3>2, StillHeld
    <3> QED
      BY <1>0, <1>1, <3>2, <3>3
  <2> QED
    BY <2>2, <2>3
<1>9. ASSUME NEW w \in Worker, KeepLeaseError(w) \/ ProcessCommits(w) \/ ProcessFails(w)
      PROVE  Goal
  <2>1. row' = row
    BY <1>9 DEF KeepLeaseError, ProcessCommits, ProcessFails
  <2>2. \A v \in Worker : run'[v].task = run[v].task
    <3>1. CASE KeepLeaseError(w)
      BY <1>0, <3>1 DEF KeepLeaseError, Run
    <3>2. CASE ProcessCommits(w)
      BY <1>0, <3>2 DEF ProcessCommits, Run
    <3>3. CASE ProcessFails(w)
      BY <1>0, <3>3 DEF ProcessFails, Run
    <3> QED
      BY <1>9, <3>1, <3>2, <3>3
  <2> QED
    BY <1>2, <2>1, <2>2 DEF Held, Owns
<1>10. ASSUME NEW w \in Worker, Finish(w) \/ Fail(w) PROVE Goal
  <2>1. \A v \in Worker : v # w => run'[v] = run[v]
    BY <1>0, <1>10 DEF Finish, Fail
  <2>2. CASE run[w].task = s /\ Owns(w, s)
    <3>1. PICK result \in {"succeeded", "failed", "dead", "retry"} :
            row'[s] = [row[s] EXCEPT !.status = result, !.owner = NoOwner, !.live = FALSE]
      <4>1. CASE Finish(w)
        BY <1>0, <2>2, <4>1 DEF Finish
      <4>2. CASE Fail(w)
        <5>1. Verdict(w) \in {"failed", "dead", "retry"}
          BY DEF Verdict
        <5> QED
          BY <1>0, <2>2, <4>2, <5>1 DEF Fail
      <4> QED
        BY <1>10, <4>1, <4>2
    <3>2. /\ row'[s].status \in {"succeeded", "failed", "dead", "retry"}
          /\ row'[s].attempts = row[s].attempts
      BY <1>0, <3>1 DEF Row
    <3> QED
      BY <1>0, <1>1, <3>2
  <2>3. CASE ~(run[w].task = s /\ Owns(w, s))
    <3>1. row'[s] = row[s]
      BY <1>0, <1>10, <2>3 DEF Finish, Fail
    <3> QED
      BY <1>2, <2>1, <2>3, <3>1 DEF Held, Owns
  <2> QED
    BY <2>2, <2>3
<1>11. ASSUME NEW w \in Worker, Abandon(w) PROVE Goal
  <2>1. row' = row /\ Paid' = Paid + 1
    <3>1. /\ spent.stalls \in Nat /\ spent.abandons \in Nat
          /\ spent'.abandons = spent.abandons + 1 /\ spent'.stalls = spent.stalls
      BY <1>0, <1>11, BoundAssumption DEF Abandon, Spent
    <3> QED
      BY <1>11, <3>1 DEF Abandon, Paid
  <2> QED
    BY <1>0, <1>1, <2>1
<1> QED
  BY <1>3, <1>4, <1>5, <1>6, <1>7, <1>8, <1>9, <1>10, <1>11 DEF Next, TaskStep, WorkerStep

-----------------------------------------------------------------------------
(* The task and its request settle together while no lease stalls. *)

\* A claim that a worker works on is the only one of its task, and its lease
\* is live: nobody can claim the task a second time.
OneWorkerPerTask ==
    \A w \in Worker : \A t \in Task : run[w].task = t =>
        /\ row[t].status = "running" /\ row[t].live /\ Owns(w, t)
        /\ \A v \in Worker : run[v].task = t => v = w

\* process() that returned without an error has completed the request.
OkRecorded ==
    \A w \in Worker : \A t \in ProvisionTask :
        run[w].task = t /\ run[w].outcome = "ok" => request[t] = "succeeded"

Undisturbed == OneWorkerPerTask /\ OkRecorded /\ RequestAgrees

\* A row that a worker may claim is nobody's, and it gets one worker.
LEMMA StepOneWorker ==
  IInv /\ OneWorkerPerTask /\ [Next]_vars /\ spent'.stalls = 0 => OneWorkerPerTask'
<1> SUFFICES ASSUME IInv, OneWorkerPerTask, [Next]_vars, spent'.stalls = 0,
                    NEW w \in Worker, NEW t \in Task, run'[w].task = t
             PROVE  /\ row'[t].status = "running" /\ row'[t].live /\ row'[t].owner = IdOf[w]
                    /\ \A v \in Worker : run'[v].task = t => v = w
  BY DEF OneWorkerPerTask, Owns
<1> DEFINE Goal == /\ row'[t].status = "running" /\ row'[t].live /\ row'[t].owner = IdOf[w]
                   /\ \A v \in Worker : run'[v].task = t => v = w
<1>0. /\ row \in [Task -> Row] /\ run \in [Worker -> Run] /\ spent \in Spent
      /\ run[w].task = t => /\ row[t].status = "running" /\ row[t].live
                            /\ row[t].owner = IdOf[w]
      /\ \A v \in Worker : run[v].task = t =>
            /\ row[t].status = "running" /\ row[t].live
            /\ \A u \in Worker : run[u].task = t => u = v
  BY DEF IInv, TypeOK, OneWorkerPerTask, Owns
<1>1. ASSUME row'[t] = row[t], \A v \in Worker : run'[v].task \in {run[v].task, NoTask}
      PROVE  Goal
  BY <1>0, <1>1, TaskAssumption
<1>2. CASE UNCHANGED vars
  BY <1>1, <1>2 DEF vars
<1>3. ASSUME NEW s \in Task, Enqueue(s) \/ RetryTask(s) \/ LeaseLapses(s) PROVE Goal
  <2>1. run' = run
    BY <1>3 DEF Enqueue, RetryTask, LeaseLapses
  <2>2. s # t
    BY <1>0, <1>3, <2>1 DEF Enqueue, RetryTask, LeaseLapses, Held, Owns
  <2>3. row'[t] = row[t]
    BY <1>0, <1>3, <2>2 DEF Enqueue, RetryTask, LeaseLapses
  <2> QED
    BY <1>1, <2>1, <2>3
<1>4. ASSUME NEW s \in Task, LeaseStalls(s) PROVE FALSE
  <2>1. spent.stalls \in Nat /\ spent'.stalls = spent.stalls + 1
    BY <1>0, <1>4, BoundAssumption DEF LeaseStalls, Spent
  <2> QED
    BY <2>1
<1>5. ASSUME NEW u \in Worker, NEW s \in Task, Claim(u, s) PROVE Goal
  <2>1. /\ run'[u].task = s /\ run[u].task = NoTask
        /\ \A v \in Worker : v # u => run'[v] = run[v]
    BY <1>0, <1>5 DEF Claim
  <2>2. CASE s = t
    <3>1. \A v \in Worker : run[v].task # t
      BY <1>0, <1>5, <2>2 DEF Claim, Claimable
    <3>2. w = u /\ \A v \in Worker : run'[v].task = t => v = w
      BY <2>1, <3>1
    <3>3. row'[t].status = "running" /\ row'[t].live /\ row'[t].owner = IdOf[u]
      BY <1>0, <1>5, <2>2 DEF Claim
    <3> QED
      BY <3>2, <3>3
  <2>3. CASE s # t
    <3>1. row'[t] = row[t]
      BY <1>0, <1>5, <2>3 DEF Claim
    <3>2. w # u
      BY <2>1, <2>3
    <3> QED
      BY <1>0, <2>1, <2>3, <3>1, <3>2
  <2> QED
    BY <2>2, <2>3
<1>6. ASSUME NEW u \in Worker, KeepLease(u) PROVE Goal
  <2>1. \A v \in Worker : run'[v].task = run[v].task
    BY <1>0, <1>6 DEF KeepLease, Run
  <2>2. /\ row'[t].status = row[t].status /\ row'[t].owner = row[t].owner
        /\ row[t].live => row'[t].live
    BY <1>0, <1>6 DEF KeepLease, Row
  <2> QED
    BY <1>0, <2>1, <2>2
<1>7. ASSUME NEW u \in Worker, KeepLeaseError(u) \/ ProcessCommits(u) \/ ProcessFails(u)
      PROVE  Goal
  <2>1. row' = row
    BY <1>7 DEF KeepLeaseError, ProcessCommits, ProcessFails
  <2>2. \A v \in Worker : run'[v].task = run[v].task
    <3>1. CASE KeepLeaseError(u)
      BY <1>0, <3>1 DEF KeepLeaseError, Run
    <3>2. CASE ProcessCommits(u)
      BY <1>0, <3>2 DEF ProcessCommits, Run
    <3>3. CASE ProcessFails(u)
      BY <1>0, <3>3 DEF ProcessFails, Run
    <3> QED
      BY <1>7, <3>1, <3>2, <3>3
  <2> QED
    BY <1>1, <2>1, <2>2
<1>8. ASSUME NEW u \in Worker, Finish(u) \/ Fail(u) \/ Abandon(u) PROVE Goal
  <2>1. run'[u] = Polling /\ \A v \in Worker : v # u => run'[v] = run[v]
    BY <1>0, <1>8 DEF Finish, Fail, Abandon
  <2>2. u # w /\ run[w].task = t
    BY <2>1, TaskAssumption DEF Polling
  <2>3. run[u].task # t
    BY <1>0, <2>2
  <2>4. row'[t] = row[t]
    BY <1>0, <1>8, <2>3 DEF Finish, Fail, Abandon
  <2> QED
    BY <1>1, <2>1, <2>4 DEF Polling
<1> QED
  BY <1>2, <1>3, <1>4, <1>5, <1>6, <1>7, <1>8 DEF Next, TaskStep, WorkerStep

\* Only process() and the settling of the task itself touch a request that
\* its task's worker has completed.
LEMMA StepOkRecorded ==
  IInv /\ OneWorkerPerTask /\ OkRecorded /\ [Next]_vars => OkRecorded'
<1> SUFFICES ASSUME IInv, OneWorkerPerTask, OkRecorded, [Next]_vars,
                    NEW w \in Worker, NEW t \in ProvisionTask,
                    run'[w].task = t, run'[w].outcome = "ok"
             PROVE  request'[t] = "succeeded"
  BY DEF OkRecorded
<1>0. /\ row \in [Task -> Row] /\ run \in [Worker -> Run] /\ request \in [Task -> RequestStatus]
      /\ t \in Task /\ t # NoTask
      /\ run[w].task = t /\ run[w].outcome = "ok" => request[t] = "succeeded"
      /\ run[w].task = t => /\ row[t].status = "running" /\ row[t].live
                            /\ \A v \in Worker : run[v].task = t => v = w
  BY TaskAssumption DEF IInv, TypeOK, OneWorkerPerTask, OkRecorded
<1>1. ASSUME request'[t] = request[t], run'[w].task = run[w].task,
             run'[w].outcome = run[w].outcome
      PROVE  request'[t] = "succeeded"
  BY <1>0, <1>1
<1>2. CASE UNCHANGED vars \/ \E s \in Task : LeaseLapses(s) \/ LeaseStalls(s)
  BY <1>1, <1>2 DEF vars, LeaseLapses, LeaseStalls
<1>3. ASSUME NEW s \in Task, Enqueue(s) \/ RetryTask(s) PROVE request'[t] = "succeeded"
  <2>1. run' = run
    BY <1>3 DEF Enqueue, RetryTask
  <2>2. s # t
    BY <1>0, <1>3, <2>1 DEF Enqueue, RetryTask
  <2>3. request'[t] = request[t]
    BY <1>0, <1>3, <2>2 DEF Enqueue, RetryTask
  <2> QED
    BY <1>1, <2>1, <2>3
<1>4. ASSUME NEW u \in Worker, NEW s \in Task, Claim(u, s) PROVE request'[t] = "succeeded"
  <2>1. u # w /\ run'[w] = run[w]
    BY <1>0, <1>4 DEF Claim
  <2>2. s # t
    BY <1>0, <1>4, <2>1 DEF Claim, Claimable
  <2>3. request'[t] = request[t]
    BY <1>0, <1>4, <2>2 DEF Claim
  <2> QED
    BY <1>1, <2>1, <2>3
<1>5. ASSUME NEW u \in Worker, KeepLease(u) \/ KeepLeaseError(u) PROVE request'[t] = "succeeded"
  <2>1. /\ request' = request
        /\ run'[w].task = run[w].task /\ run'[w].outcome = run[w].outcome
    BY <1>0, <1>5 DEF KeepLease, KeepLeaseError, Run
  <2> QED
    BY <1>1, <2>1
<1>6. ASSUME NEW u \in Worker, ProcessCommits(u) PROVE request'[t] = "succeeded"
  <2>1. run'[w].task = run[w].task
    BY <1>0, <1>6 DEF ProcessCommits, Run
  <2>2. CASE u = w
    BY <1>0, <1>6, <2>1, <2>2 DEF ProcessCommits
  <2>3. CASE u # w
    <3>1. run[u].task # t /\ run'[w] = run[w]
      BY <1>0, <1>6, <2>1, <2>3 DEF ProcessCommits
    <3>2. request'[t] = request[t]
      BY <1>0, <1>6, <3>1 DEF ProcessCommits
    <3> QED
      BY <1>1, <3>1, <3>2
  <2> QED
    BY <2>2, <2>3
<1>7. ASSUME NEW u \in Worker, ProcessFails(u) PROVE request'[t] = "succeeded"
  <2>1. request' = request /\ \A v \in Worker : v # u => run'[v] = run[v]
    BY <1>0, <1>7 DEF ProcessFails
  <2>2. run'[u].outcome \in {"error", "permanent"}
    BY <1>0, <1>7 DEF ProcessFails, Run
  <2> QED
    BY <1>1, <2>1, <2>2
<1>8. ASSUME NEW u \in Worker, Finish(u) \/ Fail(u) \/ Abandon(u)
      PROVE  request'[t] = "succeeded"
  <2>1. run'[u] = Polling /\ \A v \in Worker : v # u => run'[v] = run[v]
    BY <1>0, <1>8 DEF Finish, Fail, Abandon
  <2>2. u # w /\ run'[w] = run[w]
    BY <1>0, <2>1 DEF Polling
  <2>3. run[u].task # t
    BY <1>0, <2>2
  <2>4. request'[t] = request[t]
    BY <1>0, <1>8, <2>3 DEF Finish, Fail, Abandon
  <2> QED
    BY <1>1, <2>2, <2>4
<1> QED
  BY <1>2, <1>3, <1>4, <1>5, <1>6, <1>7, <1>8 DEF Next, TaskStep, WorkerStep

\* finish() and fail() settle the row that carries the result they stand for.
LEMMA StepAgrees ==
  IInv /\ Undisturbed /\ [Next]_vars => RequestAgrees'
<1> SUFFICES ASSUME IInv, Undisturbed, [Next]_vars, NEW t \in ProvisionTask
             PROVE  /\ row'[t].status = "succeeded" => request'[t] = "succeeded"
                    /\ row'[t].status \in {"failed", "dead"} => request'[t] = "failed"
  BY DEF RequestAgrees
<1> DEFINE Goal == /\ row'[t].status = "succeeded" => request'[t] = "succeeded"
                   /\ row'[t].status \in {"failed", "dead"} => request'[t] = "failed"
<1>0. /\ row \in [Task -> Row] /\ run \in [Worker -> Run] /\ request \in [Task -> RequestStatus]
      /\ t \in Task /\ t # NoTask
      /\ \A w \in Worker : run[w].task = t =>
            row[t].status = "running" /\ (run[w].outcome = "ok" => request[t] = "succeeded")
      /\ \A w \in Worker : run[w].outcome # "idle" => run[w].task \in Task
      /\ row[t].status = "succeeded" => request[t] = "succeeded"
      /\ row[t].status \in {"failed", "dead"} => request[t] = "failed"
  BY TaskAssumption
  DEF IInv, TypeOK, RunsConsistent, Undisturbed, OneWorkerPerTask, OkRecorded, RequestAgrees, Run
<1>1. ASSUME row'[t].status = row[t].status, request'[t] = request[t] PROVE Goal
  BY <1>0, <1>1
<1>2. CASE UNCHANGED vars
  BY <1>1, <1>2 DEF vars
<1>3. ASSUME NEW s \in Task, TaskStep(s) PROVE Goal
  <2>1. CASE s # t
    <3>1. row'[t] = row[t] /\ request'[t] = request[t]
      BY <1>0, <1>3, <2>1 DEF TaskStep, Enqueue, RetryTask, LeaseLapses, LeaseStalls
    <3> QED
      BY <1>1, <3>1
  <2>2. CASE s = t
    BY <1>0, <1>3, <2>2 DEF TaskStep, Enqueue, RetryTask, LeaseLapses, LeaseStalls, Row
  <2> QED
    BY <2>1, <2>2
<1>4. ASSUME NEW u \in Worker, NEW s \in Task, Claim(u, s) PROVE Goal
  BY <1>0, <1>4 DEF Claim
<1>5. ASSUME NEW u \in Worker,
             KeepLease(u) \/ KeepLeaseError(u) \/ ProcessFails(u) \/ Abandon(u)
      PROVE  Goal
  <2>1. row'[t].status = row[t].status /\ request' = request
    BY <1>0, <1>5 DEF KeepLease, KeepLeaseError, ProcessFails, Abandon, Row
  <2> QED
    BY <1>1, <2>1
<1>6. ASSUME NEW u \in Worker, ProcessCommits(u) PROVE Goal
  BY <1>0, <1>6 DEF ProcessCommits
<1>7. ASSUME NEW u \in Worker, Finish(u) PROVE Goal
  <2>1. request' = request
    BY <1>7 DEF Finish
  <2>2. CASE run[u].task # t
    BY <1>0, <1>7, <2>1, <2>2 DEF Finish
  <2>3. CASE run[u].task = t
    <3>1. request[t] = "succeeded" /\ row[t].status = "running"
      BY <1>0, <1>7, <2>3 DEF Finish
    <3>2. row'[t].status \in {"running", "succeeded"}
      BY <1>0, <1>7, <2>3, <3>1 DEF Finish
    <3> QED
      BY <2>1, <3>1, <3>2
  <2> QED
    BY <2>2, <2>3
<1>8. ASSUME NEW u \in Worker, Fail(u) PROVE Goal
  <2>1. CASE run[u].task # t
    BY <1>0, <1>8, <2>1 DEF Fail
  <2>2. CASE run[u].task = t
    <3>1. Owns(u, t)
      BY <1>0, <2>2 DEF Undisturbed, OneWorkerPerTask
    <3>2. row'[t].status = Verdict(u) /\ Verdict(u) \in {"failed", "dead", "retry"}
      BY <1>0, <1>8, <2>2, <3>1 DEF Fail, Verdict
    <3>3. Verdict(u) \in {"failed", "dead"} => request'[t] = "failed"
      BY <1>0, <1>8, <2>2 DEF Fail
    <3> QED
      BY <3>2, <3>3
  <2> QED
    BY <2>1, <2>2
<1> QED
  BY <1>2, <1>3, <1>4, <1>5, <1>6, <1>7, <1>8 DEF Next, WorkerStep

\* Stalls are counted and never forgotten.
LEMMA StallsStay == TypeOK /\ [Next]_vars /\ spent'.stalls = 0 => spent.stalls = 0
<1> SUFFICES ASSUME TypeOK, [Next]_vars, spent'.stalls = 0 PROVE spent.stalls = 0
  OBVIOUS
<1>1. /\ spent \in Spent
      /\ spent' = spent \/ spent' = [spent EXCEPT !.stalls = @ + 1]
           \/ spent' = [spent EXCEPT !.abandons = @ + 1]
           \/ spent' = [spent EXCEPT !.retries = @ + 1]
  BY DEF TypeOK, Next, TaskStep, WorkerStep, vars, Enqueue, RetryTask, LeaseLapses, LeaseStalls,
         Claim, KeepLease, KeepLeaseError, ProcessCommits, ProcessFails, Finish, Fail, Abandon
<1>2. spent.stalls \in Nat /\ (spent'.stalls = spent.stalls \/ spent'.stalls = spent.stalls + 1)
  BY <1>1, BoundAssumption DEF Spent
<1> QED
  BY <1>2

\* The whole inductive invariant of the rows.
RowsInv ==
    /\ IInv /\ ClaimCurrent /\ RetryBelowMax /\ AttemptsPaid
    /\ spent.stalls = 0 => Undisturbed

LEMMA InitRows == Init => RowsInv
<1> SUFFICES ASSUME Init PROVE RowsInv
  OBVIOUS
<1> USE TaskAssumption, BoundAssumption DEF Init
<1>1. IInv
  BY InitInv
<1>2. ClaimCurrent /\ RetryBelowMax
  BY DEF ClaimCurrent, RetryBelowMax, Polling
<1>3. AttemptsPaid
  <2>1. MaxAttempts + Paid \in Nat /\ \A t \in Task : row[t].attempts = 0 /\ row[t].status = "absent"
    BY DEF Paid
  <2>2. \A m \in Nat : 0 <= m
    OBVIOUS
  <2> QED
    BY <2>1, <2>2 DEF AttemptsPaid
<1>4. Undisturbed
  BY DEF Undisturbed, OneWorkerPerTask, OkRecorded, RequestAgrees, Polling
<1> QED
  BY <1>1, <1>2, <1>3, <1>4 DEF RowsInv

LEMMA StepRows == DistinctIds /\ RowsInv /\ [Next]_vars => RowsInv'
<1> SUFFICES ASSUME DistinctIds, RowsInv, [Next]_vars PROVE RowsInv'
  OBVIOUS
<1>1. IInv' /\ ClaimCurrent' /\ RetryBelowMax' /\ AttemptsPaid'
  BY StepInv, StepCurrent, StepRetry, StepPaid DEF RowsInv
<1>2. ASSUME spent'.stalls = 0 PROVE Undisturbed'
  <2>1. IInv /\ Undisturbed
    BY <1>2, StallsStay DEF RowsInv, IInv
  <2>2. OneWorkerPerTask' /\ OkRecorded' /\ RequestAgrees'
    BY <1>2, <2>1, StepOneWorker, StepOkRecorded, StepAgrees DEF Undisturbed
  <2> QED
    BY <2>2 DEF Undisturbed
<1> QED
  BY <1>1, <1>2 DEF RowsInv

\* Leases, attempts and requests agree with the status of every task, however
\* claims, lapsed leases, late answers and retries fall, when every process
\* writes a lease_owner of its own.
THEOREM RowsConsistentHolds == DistinctIds => (Spec => []RowsConsistent)
<1> SUFFICES ASSUME DistinctIds PROVE Spec => []RowsConsistent
  OBVIOUS
<1>1. RowsInv /\ [Next]_vars => RowsInv'
  BY StepRows
<1>2. RowsInv => RowsConsistent
  <2>1. AttemptsPaid /\ IInv => ExcessAttemptsAccounted
    <3> SUFFICES ASSUME AttemptsPaid, IInv, NEW t \in Task
                 PROVE  row[t].attempts <= MaxAttempts + spent.stalls + spent.abandons
      BY DEF ExcessAttemptsAccounted
    <3>1. row[t].attempts <= MaxAttempts + Paid
      BY DEF AttemptsPaid
    <3>2. spent.stalls \in Nat /\ spent.abandons \in Nat /\ MaxAttempts \in Nat
      BY BoundAssumption DEF IInv, TypeOK, Spent
    <3> QED
      BY <3>1, <3>2 DEF Paid
  <2> QED
    BY <2>1 DEF RowsInv, Undisturbed, IInv, SettledTogether, RowsConsistent
<1> QED
  BY <1>1, <1>2, InitRows, PTL DEF Spec

-----------------------------------------------------------------------------
(* The queue implements TaskPromise. *)

JobMap == [t \in Task |-> JobOf(t)]

\* Rows that keep their status stand for the same jobs.
LEMMA SameJobs ==
  ASSUME \A s \in Task : row'[s].status = row[s].status
  PROVE  JobMap' = JobMap
  BY DEF JobMap, JobOf

\* A step that rewrites the status of one row moves one job.
LEMMA OneJobMoves ==
  ASSUME NEW t \in Task, NEW j, JobOf(t)' = j,
         \A s \in Task \ {t} : row'[s].status = row[s].status
  PROVE  JobMap' = [JobMap EXCEPT ![t] = j]
  BY DEF JobMap, JobOf

\* Before anything is enqueued every job is absent.
LEMMA InitPromise == Init => Promise!Init
  BY DEF Init, Promise!Init, JobOf

\* Claims, renewals, retries after an error, crashes and lease expiry are
\* invisible to the promise; every other step is one of its actions.
LEMMA StepPromise ==
  IInv /\ [Next]_vars => [Promise!Next]_<<JobMap, bound>>
<1> SUFFICES ASSUME IInv, [Next]_vars
             PROVE  Promise!Next \/ (JobMap' = JobMap /\ bound' = bound)
  BY DEF JobMap
<1> DEFINE Quiet == \A s \in Task : row'[s].status = row[s].status
<1>0. /\ row \in [Task -> Row] /\ \A s \in Task : row[s] \in Row
      /\ bound \in [Task -> BOOLEAN]
  BY DEF IInv, TypeOK
<1>1. CASE UNCHANGED vars
  BY <1>1, SameJobs DEF vars
<1>2. ASSUME NEW t \in Task, Enqueue(t) PROVE Promise!Next
  <2>1. JobOf(t) = "absent" /\ JobOf(t)' = "open" /\ bound' = bound
    BY <1>0, <1>2 DEF Enqueue, JobOf
  <2>2. \A s \in Task \ {t} : row'[s].status = row[s].status
    BY <1>0, <1>2 DEF Enqueue
  <2>3. JobMap' = [JobMap EXCEPT ![t] = "open"] /\ JobMap[t] = "absent"
    BY <2>1, <2>2, OneJobMoves DEF JobMap
  <2> QED
    BY <2>1, <2>3 DEF Promise!Next, Promise!Submit, Promise!Move, JobMap
<1>3. ASSUME NEW t \in Task, RetryTask(t) PROVE Promise!Next
  <2>1. JobOf(t) = "stopped" /\ JobOf(t)' = "open" /\ bound' = bound
    BY <1>0, <1>3 DEF RetryTask, JobOf
  <2>2. \A s \in Task \ {t} : row'[s].status = row[s].status
    BY <1>0, <1>3 DEF RetryTask
  <2>3. JobMap' = [JobMap EXCEPT ![t] = "open"] /\ JobMap[t] = "stopped"
    BY <2>1, <2>2, OneJobMoves DEF JobMap
  <2> QED
    BY <2>1, <2>3 DEF Promise!Next, Promise!Reopen, Promise!Move, JobMap
<1>4. CASE \E t \in Task : LeaseLapses(t) \/ LeaseStalls(t)
  <2>1. Quiet /\ bound' = bound
    BY <1>0, <1>4 DEF LeaseLapses, LeaseStalls, Row
  <2> QED
    BY <2>1, SameJobs
<1>5. ASSUME NEW w \in Worker, NEW t \in Task, Claim(w, t)
      PROVE  JobMap' = JobMap /\ bound' = bound
  <2>1. /\ JobOf(t) = "open" /\ JobOf(t)' = "open" /\ bound' = bound
        /\ \A s \in Task \ {t} : JobOf(s)' = JobOf(s)
    BY <1>0, <1>5 DEF Claim, Claimable, JobOf
  <2> QED
    BY <2>1 DEF JobMap
<1>6. CASE \E w \in Worker :
             KeepLease(w) \/ KeepLeaseError(w) \/ ProcessFails(w) \/ Abandon(w)
  <2>1. Quiet /\ bound' = bound
    BY <1>0, <1>6 DEF KeepLease, KeepLeaseError, ProcessFails, Abandon, Row
  <2> QED
    BY <2>1, SameJobs
<1>7. ASSUME NEW w \in Worker, ProcessCommits(w) PROVE Promise!Next
  <2>1. /\ run[w].task \in Task /\ JobOf(run[w].task) # "absent"
        /\ bound' = [bound EXCEPT ![run[w].task] = TRUE]
    BY <1>7 DEF ProcessCommits, IInv, TypeOK, RunsConsistent, Run, JobOf
  <2>2. JobMap' = JobMap
    BY <1>7, SameJobs DEF ProcessCommits
  <2> QED
    BY <2>1, <2>2 DEF Promise!Next, Promise!Perform, JobMap
<1>8. ASSUME NEW w \in Worker, Finish(w)
      PROVE  Promise!Next \/ (JobMap' = JobMap /\ bound' = bound)
  <2>1. PICK t \in Task : t = run[w].task /\ bound[t] /\ bound' = bound
    BY <1>8 DEF Finish, IInv, TypeOK, RunsConsistent, Run
  <2>2. CASE ~Owns(w, t)
    BY <1>8, <2>1, <2>2, SameJobs DEF Finish
  <2>3. CASE Owns(w, t)
    <3>1. row[t].status = "running"
      BY <2>1, <2>3, TaskAssumption DEF IInv, LeaseOnlyWhileRunning, Owns
    <3>2. JobOf(t) = "open" /\ JobOf(t)' = "succeeded"
      BY <1>0, <1>8, <2>1, <2>3, <3>1 DEF Finish, JobOf, Row
    <3>3. \A s \in Task \ {t} : row'[s].status = row[s].status
      BY <1>0, <1>8, <2>1, <2>3 DEF Finish
    <3>4. JobMap' = [JobMap EXCEPT ![t] = "succeeded"] /\ JobMap[t] = "open"
      BY <2>1, <3>2, <3>3, OneJobMoves DEF JobMap
    <3> QED
      BY <2>1, <3>4 DEF Promise!Next, Promise!Succeed, Promise!Move, JobMap
  <2> QED
    BY <2>2, <2>3
<1>9. ASSUME NEW w \in Worker, Fail(w)
      PROVE  Promise!Next \/ (JobMap' = JobMap /\ bound' = bound)
  <2>1. PICK t \in Task : t = run[w].task /\ bound' = bound
    BY <1>9 DEF Fail, IInv, TypeOK, RunsConsistent, Run
  <2>2. CASE ~Owns(w, t)
    BY <1>9, <2>1, <2>2, SameJobs DEF Fail
  <2>3. CASE Owns(w, t)
    <3>1. row[t].status = "running"
      BY <2>1, <2>3, TaskAssumption DEF IInv, LeaseOnlyWhileRunning, Owns
    <3>2. row'[t].status \in {"failed", "dead", "retry"}
      BY <1>0, <1>9, <2>1, <2>3 DEF Fail, Verdict, Row
    <3>3. JobOf(t) = "open" /\ JobOf(t)' \in {"open", "stopped"}
      BY <3>1, <3>2 DEF JobOf
    <3>4. \A s \in Task \ {t} : row'[s].status = row[s].status
      BY <1>0, <1>9, <2>1, <2>3 DEF Fail
    <3>5. CASE JobOf(t)' = "open"
      <4>1. \A s \in Task \ {t} : JobOf(s)' = JobOf(s)
        BY <3>4 DEF JobOf
      <4> QED
        BY <2>1, <3>3, <3>5, <4>1 DEF JobMap
    <3>6. CASE JobOf(t)' = "stopped"
      <4>1. JobMap' = [JobMap EXCEPT ![t] = "stopped"] /\ JobMap[t] = "open"
        BY <2>1, <3>3, <3>4, <3>6, OneJobMoves DEF JobMap
      <4> QED
        BY <2>1, <4>1 DEF Promise!Next, Promise!GiveUp, Promise!Move, JobMap
    <3> QED
      BY <3>3, <3>5, <3>6
  <2> QED
    BY <2>2, <2>3
<1> QED
  BY <1>1, <1>2, <1>3, <1>4, <1>5, <1>6, <1>7, <1>8, <1>9 DEF Next, TaskStep, WorkerStep

\* Every behaviour of the queue, with any workers, crashes and lease_owner
\* values, is one of TaskPromise under the refinement mapping JobOf.
THEOREM KeepsPromiseHolds == Spec => KeepsPromise
<1>1. IInv /\ [Next]_vars => [Promise!Next]_<<[t \in Task |-> JobOf(t)], bound>>
  BY StepPromise DEF JobMap
<1> QED
  BY <1>1, InitPromise, InvHolds, PTL DEF Spec, KeepsPromise, Promise!Spec

=============================================================================
