------------------------------- MODULE Platform -------------------------------
(***************************************************************************)
(* Two parts of internal/platform that share no row, put side by side:     *)
(* memberships with their invitations, and what follows from a risk event. *)
(***************************************************************************)
EXTENDS Membership, RiskAction

VARIABLE part  \* what moves

platformVars == <<membershipVars, riskVars, part>>

\* Of the part that stands still one initial state is enough.
Init ==
    /\ part \in {"membership", "risk"}
    /\ MembershipInit /\ RiskInit
    /\ part # "membership" => \A a \in Account : current[a] = NoRow
    /\ part # "risk" => action.type = "disable_user" /\ ~remote

Next ==
    \/ part = "membership" /\ MembershipNext /\ UNCHANGED <<riskVars, part>>
    \/ part = "risk" /\ RiskNext /\ UNCHANGED <<membershipVars, part>>

Spec == Init /\ [][Next]_platformVars

===============================================================================
