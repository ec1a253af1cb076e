----------------------------- MODULE LegacyAccounts -----------------------------
(***************************************************************************)
(* Registration and the handlers of existing accounts. Each has its own    *)
(* view of the table emby and of the Emby server: the first follows an     *)
(* account until it is bound, the second from then on. Every property is   *)
(* about one of them, so a behaviour is one of either while the other      *)
(* stands still.                                                           *)
(***************************************************************************)
EXTENDS LegacyRegistration, LegacyAccount

VARIABLE part  \* what moves

accountsVars == <<registrationVars, accountVars, part>>

AccountsInit ==
    /\ part \in {"registration", "account"}
    /\ RegistrationInit /\ AccountInit

AccountsNext ==
    \/ part = "registration" /\ RegistrationNext /\ UNCHANGED <<accountVars, part>>
    \/ part = "account" /\ AccountNext /\ UNCHANGED <<registrationVars, part>>

AccountsSpec == AccountsInit /\ [][AccountsNext]_accountsVars

-----------------------------------------------------------------------------
\* What codes gave and what the sweep took for renewals is what users have and have
\* spent, in both.
BalancesAddUp == DaysAddUp /\ CreditsAddUp

=============================================================================
