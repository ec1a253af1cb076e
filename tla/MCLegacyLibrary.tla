--------------------------- MODULE MCLegacyLibrary ---------------------------
(* Two users, two partitions that share a library, two codes, two handlers at *)
(* a time; b is emby_block, o an ordinary library.                            *)
EXTENDS LegacyLibrary

CONSTANTS u1, u2, s1, s2

MCUser == {u1, u2}
MCCode == {"cp", "cq"}
MCSlot == {s1, s2}
MCLib == {"x", "y", "b", "o"}
MCPartition == {"p", "q"}
MCLibsOf == [p |-> {"x", "y"}, q |-> {"y"}]
MCPartOf == [cp |-> "p", cq |-> "q"]
MCBlock == {"b"}
MCExtra == {"x", "y"}
Symmetry == Permutations(MCUser) \union Permutations(MCSlot)

=============================================================================
