--------------------------- MODULE MCLegacyPlatform ---------------------------
(* Two readers; a Telegram user with an account and one without, the two plans *)
(* of the migration and a third to come; an account on two Emby servers with a *)
(* common credential, two administrators, a worker and the webhook.            *)
EXTENDS LegacyPlatform

\* Servers are interchangeable, and hands.
Alike == Permutations(Instance) \union Permutations(Hand)

=============================================================================
