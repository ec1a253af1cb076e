------------------------------ MODULE MCLegacyWeb ------------------------------
(* Two administrators at two settings, in the bot and in a web process; two   *)
(* sessions on one device, seen from both processes; two lines; two workers   *)
(* and two automations.                                                       *)
EXTENDS LegacyWeb

CONSTANTS web, bot, tv

\* _validate refuses a limit of 0.
MCInvalid == {<<"limit", 0>>}

MCDeviceOf == [w \in Watch |-> tv]

\* A rule may ask for the events of tasks.
MCPattern == {{"task"}}

=============================================================================
