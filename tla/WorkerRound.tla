----------------------------- MODULE WorkerRound -----------------------------
(***************************************************************************)
(* What Worker.Run does in each round besides tasks: it works on a batch   *)
(* operation and on an automation event. The two share neither rows nor    *)
(* memory but a lease each, and a behaviour of this specification is one   *)
(* of either while the other stands still.                                 *)
(***************************************************************************)
EXTENDS Automation

CONSTANTS Item, Chunk, MaxFaults   \* of the batch

ASSUME BatchAssumption ==
    /\ Item \subseteq Nat
    /\ Chunk \in Nat \ {0}
    /\ MaxFaults \in Nat

VARIABLES
    op, item, late,
    committed, batchWorker, batchFaults,  \* applied, wk and spent of the batch
    round                                 \* what the workers do

Batch == INSTANCE BatchOperation WITH applied <- committed, wk <- batchWorker, spent <- batchFaults

batchVars == <<op, item, committed, batchWorker, late, batchFaults>>
roundVars == <<vars, batchVars, round>>

RoundInit == round \in {"batch", "event"} /\ Init /\ Batch!Init

MoveEvent(Action) == round = "event" /\ Action /\ UNCHANGED <<batchVars, round>>
MoveBatch(Action) == round = "batch" /\ Action /\ UNCHANGED <<vars, round>>

RoundNext == MoveEvent(Next) \/ MoveBatch(Batch!Next)

\* Every round polls for both, statements end, leases nobody renews run out, and the
\* statement that marks an item failed gets through when it is tried again and again.
RoundFairness ==
    /\ WF_vars(MoveEvent(\E w \in Worker : Claim(w)))
    /\ WF_vars(MoveEvent(LeaseLapses))
    /\ WF_batchVars(MoveBatch(\E w \in Worker : Batch!Claim(w)))
    /\ WF_batchVars(MoveBatch(Batch!LeaseLapses))
    /\ \A w \in Worker :
         /\ WF_vars(MoveEvent(Proceed(w)))
         /\ WF_batchVars(MoveBatch(Batch!Proceed(w)))
         /\ SF_batchVars(MoveBatch(Batch!MarkFailed(w) /\ item'[Batch!Current(w)] = "failed"))

RoundSpec == RoundInit /\ [][RoundNext]_roundVars /\ RoundFairness

-----------------------------------------------------------------------------
\* No effect of a batch is lost, repeated or ascribed to the wrong item status.
EffectsAccounted == Batch!EffectsAccounted

\* A canceled batch stays canceled, a paused one waits.
StopsAreKept == Batch!StopsAreKept

\* A batch that no operator stops is settled.
BatchSettled == Batch!EventuallySettled

\* An event is settled, unless a worker stopped in its last attempt.
EventSettled == round = "event" => SettledOrStranded

=============================================================================
