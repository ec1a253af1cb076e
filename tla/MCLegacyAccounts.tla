--------------------------- MODULE MCLegacyAccounts ---------------------------
(* Two users and one place, two keys, two workers, two submissions at a time; *)
(* the same users and accounts, two handlers at a time, one credit.           *)
EXTENDS LegacyAccounts

CONSTANTS u1, u2, k1, k2, c1, w1, w2, i1, i2, s1, s2

MCUser == {u1, u2}
MCTaskKey == {k1, k2}
MCCode == {c1}
MCWorker == {w1, w2}
MCId == {i1, i2}
MCSlot == {s1, s2}
Symmetry == UNION {Permutations(S) : S \in {MCUser, MCTaskKey, MCWorker, MCId, MCSlot}}

=============================================================================
