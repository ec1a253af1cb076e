----------------------------- MODULE MCProvision -----------------------------
(* Instances of Provision for TLC. *)
EXTENDS Provision, TLC

\* No definition tells workers or accounts apart.
Interchangeable == Permutations(Worker) \cup Permutations(Account)
=============================================================================
