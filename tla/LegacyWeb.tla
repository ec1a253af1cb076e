------------------------------- MODULE LegacyWeb -------------------------------
(***************************************************************************)
(* What the backend of the archived v2 repeats until it is done: settings  *)
(* that reach the bot, what is played, lines, and automations. They share  *)
(* neither rows nor memory, so that a behaviour of the backend is one of   *)
(* each side by side, and every property is about one of them alone. A     *)
(* behaviour of this specification is one of any of them while the others  *)
(* stand still, which spares TLC their interleavings.                      *)
(***************************************************************************)
EXTENDS LegacySettings, LegacyOperations, LegacyAutomation

CONSTANT First  \* of the evaluators

VARIABLE part  \* what moves

webVars == <<settingVars, ops, operationsVars, automationVars, part>>

Init ==
    /\ part \in {"settings", "playback", "lines", "rules", "evaluations"}
    /\ SettingInit /\ OperationsInit /\ AutomationInit
    /\ \A p \in Process, s \in Setting : runtime[p][s] = 1  \* any other after a restart

MoveSettings(Action) ==
    /\ part = "settings" /\ Action
    /\ UNCHANGED <<operationsVars, automationVars, part>>

MovePlayback(Action) ==
    /\ part = "playback" /\ Action
    /\ UNCHANGED <<settingVars, ops, automationVars, part>>

MoveLines(Action) ==
    /\ part = "lines" /\ Action
    /\ UNCHANGED <<settingVars, ops, automationVars, part>>

\* Either a second rule is written or a second worker evaluates.
MoveAutomations(Action) ==
    /\ part \in {"rules", "evaluations"} /\ Action
    /\ part = "rules" => \A w \in Evaluator \ {First} : evaluation'[w] = Resting
    /\ part = "evaluations" => Cardinality({r \in Automation : automation'[r] # Unwritten}) <= 1
    /\ UNCHANGED <<settingVars, ops, operationsVars, part>>

Next ==
    \/ MoveSettings(SettingNext) \/ MovePlayback(PlaybackNext) \/ MoveLines(LineNext)
    \/ MoveAutomations(AutomationNext)

\* The scheduler runs the bot's job again and again, a process that starts goes on,
\* and an update that was begun runs to its end: one step of each is enabled at a
\* time. Nobody has to begin one.
SettingFairness ==
    /\ \A p \in Process : WF_settingVars(MoveSettings(Materialize(p) \/ SyncReads(p) \/ SyncWrites(p)))
    /\ \A e \in Editor : WF_settingVars(MoveSettings(Looks(e) \/ Updates(e) \/ Refused(e) \/ WritesRuntime(e)))

\* The scheduler synchronises again and again, whoever has begun to synchronise or to
\* stop a session goes on, and the pool renews its connections.
PlaybackFairness ==
    /\ \A p \in Syncer :
         WF_playbackVars(MovePlayback((p \in Recurring /\ Fetches(p)) \/ Reads(p) \/ SyncRefused(p) \/ SyncCommits(p)))
    /\ WF_playbackVars(MovePlayback(Recycles))
    /\ \A w \in Watch : WF_playbackVars(MovePlayback(StopWrites(w)))

\* An evaluation is queued for every slot of time, and one that was begun goes on; the
\* database answers.
AutomationFairness == \A w \in Evaluator : WF_automationVars(MoveAutomations(Evaluates(w)))

Spec == Init /\ [][Next]_webVars /\ SettingFairness /\ PlaybackFairness /\ AutomationFairness

=============================================================================
