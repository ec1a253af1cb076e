----------------------------- MODULE MCCommerce -----------------------------
(* An instance of Commerce for TLC. *)
EXTENDS Commerce, TLC

CONSTANTS a1, o1, o2

\* Two orders of one account.
SameOwner == (o1 :> a1) @@ (o2 :> a1)

\* One product that can only be refunded as a whole, one that can be refunded
\* in halves.
Offers == {[price |-> 1, grant |-> 2], [price |-> 2, grant |-> 2]}

Changes == {-1, 2}

\* The names of requests, payments and transactions are interchangeable, and
\* so are the orders, as they have the same owner.
Symmetry ==
    Permutations(Order) \cup Permutations(PaymentNo) \cup Permutations(EventId)
    \cup Permutations(Key) \cup Permutations(Session)
=============================================================================
