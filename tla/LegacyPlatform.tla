---------------------------- MODULE LegacyPlatform ----------------------------
(***************************************************************************)
(* Accounts, community, servers and monitoring of the archived v2: who may *)
(* enter and with which membership, what users write, react to and report, *)
(* the users on several Emby servers, and what becomes of a service that   *)
(* fails. They are put side by side as in LegacyWeb: the handlers modelled *)
(* here share no row.                                                      *)
(***************************************************************************)
EXTENDS LegacyCommunity, LegacyAccess, LegacyInstances, LegacyMonitoring

VARIABLE part  \* what moves

platformVars == <<communityVars, accessVars, instanceVars, monitoringVars, part>>

Init ==
    /\ part \in {"community", "access", "servers", "editing", "monitoring"}
    /\ CommunityInit /\ AccessInit /\ InstanceInit /\ MonitoringInit
    /\ part \notin {"servers", "editing"} => user = << >> /\ \A i \in Instance : instance[i] = Missing

MoveCommunity(Action) ==
    /\ part = "community" /\ Action
    /\ UNCHANGED <<accessVars, instanceVars, monitoringVars, part>>

MoveAccess(Action) ==
    /\ part = "access" /\ Action
    /\ UNCHANGED <<communityVars, instanceVars, monitoringVars, part>>

\* Either hands meet at users while the servers stay as they are configured, or one hand
\* meets administrators who configure them.
MoveInstances(Action) ==
    /\ part \in {"servers", "editing"} /\ Action
    /\ part = "servers" => edits' = edits
    /\ part = "editing" => Cardinality({w \in Hand : job'[w] # Missing}) <= 1
    /\ UNCHANGED <<communityVars, accessVars, monitoringVars, part>>

MoveMonitoring(Action) ==
    /\ part = "monitoring" /\ Action
    /\ UNCHANGED <<communityVars, accessVars, instanceVars, part>>

Next ==
    \/ MoveCommunity(CommunityNext) \/ MoveAccess(AccessNext)
    \/ MoveInstances(InstanceNext) \/ MoveMonitoring(MonitoringNext)

Spec == Init /\ [][Next]_platformVars

=============================================================================
