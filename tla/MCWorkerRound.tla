---------------------------- MODULE MCWorkerRound ----------------------------
(* WorkerRound for TLC: two workers at a batch of two items, or at an event  *)
(* that three rules answer, one of which does not match.                     *)
EXTENDS WorkerRound
=============================================================================
