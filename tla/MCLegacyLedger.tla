--------------------------- MODULE MCLegacyLedger ---------------------------
(***************************************************************************)
(* Two users, two who read before they write, one code and one download.   *)
(***************************************************************************)
EXTENDS LegacyLedger

CONSTANTS u1, u2, s1, s2, c1, o1, o2, k1, q1, q2, d1, y1

\* One ordinary user, and one who is disabled or has no account.
MCLevels == {lv \in [{u1, u2} -> {"b", "c", "d"}] : \E u \in {u1, u2} : lv[u] = "b" /\ \A v \in {u1, u2} \ {u} : lv[v] # "b"}
Symmetric == Permutations({u1, u2}) \union Permutations({s1, s2}) \union Permutations({o1, o2})
             \union Permutations({q1, q2})

=============================================================================
