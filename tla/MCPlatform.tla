------------------------------ MODULE MCPlatform ------------------------------
(* An instance of Platform for TLC. *)
EXTENDS Platform, TLC

\* No definition tells transactions, accounts or keys apart, or two workers;
\* as only one part moves, the workers may be exchanged along with the accounts.
Swap(S) == {p \in Permutations(S) : \A x \in S : p[x] # x}
Interchangeable ==
    Permutations(Tx) \cup Permutations(Key)
    \cup {p @@ q : p \in Swap(Account), q \in Swap(Worker)}
===============================================================================
