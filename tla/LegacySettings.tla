---------------------------- MODULE LegacySettings ----------------------------
(***************************************************************************)
(* The dynamic settings of the archived v2. The table holds the value and  *)
(* the revision of every setting; every process keeps a copy in memory,    *)
(* which its own updates write after their transaction has committed, the  *)
(* bot's panels also before it, and which the bot's job overwrites with    *)
(* what the table held a moment ago.                                       *)
(*                                                                         *)
(* Abstractions: two settings, whether registration is open and its limit, *)
(* stand for the registry; config.json holds any values after a restart;   *)
(* how long a timed registration lasts is left out.                        *)
(***************************************************************************)
EXTENDS Integers, Sequences, FiniteSets, TLC

CONSTANTS Process,        \* what keeps a copy of the settings
          Bot,            \* one of them
          Periodic,       \* those that overwrite their copy again and again
          Editor,         \* administrators at work
          Setting, Open, Limit,
          Value,          \* numbers; of a switch 1 is on and 0 is off
          Invalid,        \* values _validate refuses: pairs of a setting and a value
          None, Starting,
          MaxOps          \* bound: what is begun

ASSUME SettingAssumption ==
    /\ Bot \in Process /\ Periodic \subseteq Process /\ {Open, Limit} \subseteq Setting
    /\ {0, 1} \subseteq Value /\ Value \subseteq Int /\ MaxOps \in Nat
    /\ None \notin [value : Int, revision : Nat]

VARIABLES
    row,      \* dynamic_settings: value and revision
    history,  \* config_revisions, with what the writer had looked at (ghost)
    runtime,  \* the copies in memory
    edit,     \* an update under way
    sync,     \* Starting while a process starts; what apply_runtime_overrides
              \* has read and not yet written
    timed,    \* _open.timing is not 0
    sleeping, \* a task change_for_timing sleeps
    ops

settingVars == <<row, history, runtime, edit, sync, timed, sleeping>>

Use == ops < MaxOps /\ ops' = ops + 1
Saved(s) == row[s] # None
Revision(s) == IF Saved(s) THEN row[s].revision ELSE 0
Shown(p, s) == IF Saved(s) THEN row[s].value ELSE runtime[p][s]
Valid(s, v) == <<s, v>> \notin Invalid
ValidFile == {f \in [Setting -> Value] : \A s \in Setting : Valid(s, f[s])}

\* The bot's panels update in the event loop: nothing of the bot comes in between.
BotFree == \A e \in Editor : edit[e] # None => edit[e].process # Bot

SettingInit ==
    /\ row = [s \in Setting |-> None]
    /\ history = [s \in Setting |-> << >>]
    /\ \E file \in ValidFile : runtime = [p \in Process |-> file]
    /\ edit = [e \in Editor |-> None]
    /\ sync = [p \in Process |-> Starting]
    /\ timed = FALSE
    /\ sleeping = FALSE
    /\ ops = 0

-----------------------------------------------------------------------------
\* materialize_defaults, at the start of a process: whatever has no row gets one.
Materialize(p) ==
    /\ sync[p] = Starting
    /\ \E s \in Setting : ~Saved(s)
    /\ \A s \in Setting : ~Saved(s) => Valid(s, runtime[p][s])
    /\ row' = [s \in Setting |-> IF Saved(s) THEN row[s] ELSE [value |-> runtime[p][s], revision |-> 1]]
    /\ UNCHANGED <<history, runtime, edit, sync, timed, sleeping, ops>>

\* Slip: the settings are applied at the start of a process alone.
NeverAgain(p) == FALSE

\* The bot's scheduler runs the job every 15 seconds.
Scheduled(p) == sync[p] = None /\ p \in Periodic

\* apply_runtime_overrides, at the start and by the job: read ...
SyncReads(p) ==
    /\ (sync[p] = Starting /\ \A s \in Setting : Saved(s)) \/ Scheduled(p)
    /\ sync' = [sync EXCEPT ![p] = row]
    /\ UNCHANGED <<row, history, runtime, edit, timed, sleeping, ops>>

\* ... and write. It runs in a thread of its own, beside the updates.
SyncWrites(p) ==
    /\ sync[p] \notin {None, Starting}
    /\ runtime' = [runtime EXCEPT ![p] =
           [s \in Setting |-> IF sync[p][s] = None THEN @[s] ELSE sync[p][s].value]]
    /\ sync' = [sync EXCEPT ![p] = None]
    /\ UNCHANGED <<row, history, edit, timed, sleeping, ops>>

\* The bot goes on when that fails, with what config.json holds.
StartFails ==
    /\ sync[Bot] = Starting
    /\ sync' = [sync EXCEPT ![Bot] = None]
    /\ UNCHANGED <<row, history, runtime, edit, timed, sleeping, ops>>

\* A process stops, what it was doing is lost; it starts with what config.json holds.
Restart(p) ==
    /\ Use
    /\ \E file \in ValidFile : runtime' = [runtime EXCEPT ![p] = file]
    /\ edit' = [e \in Editor |-> IF edit[e] # None /\ edit[e].process = p THEN None ELSE edit[e]]
    /\ sync' = [sync EXCEPT ![p] = Starting]
    /\ timed' = (timed /\ p # Bot)
    /\ sleeping' = (sleeping /\ p # Bot)
    /\ UNCHANGED <<row, history>>

-----------------------------------------------------------------------------
\* An update: who looks at the revision, what is to be set, how often a conflict
\* may still be tried again.
Job(p, todo, retries) ==
    [process |-> p, todo |-> todo, phase |-> "look", seen |-> 0, retries |-> retries]

\* The next value to set, or the end.
Next1(job) == IF Len(job.todo) = 1 THEN None
              ELSE [job EXCEPT !.todo = Tail(@), !.phase = "look", !.retries = 2]

\* The revision an administrator is shown, or update_latest reads ...
Looks(e) ==
    LET job == edit[e] IN
    /\ job # None /\ job.phase = "look"
    /\ edit' = [edit EXCEPT ![e].phase = "update", ![e].seen = Revision(job.todo[1][1])]
    /\ UNCHANGED <<row, history, runtime, sync, timed, sleeping, ops>>

\* Slip: the revision the administrator has seen is not compared.
AgreesAnyway(job, s) == TRUE

Agrees(job, s) == job.seen = Revision(s)

\* ... update: refused when the row has moved on, else the row and its revision.
Updates(e) ==
    LET job == edit[e]
        s == job.todo[1][1]
        v == job.todo[1][2]
        revision == Revision(s) + 1
    IN
    /\ job # None /\ job.phase = "update"
    /\ Valid(s, v) /\ Agrees(job, s)
    /\ row' = [row EXCEPT ![s] = [value |-> v, revision |-> revision]]
    /\ history' = [history EXCEPT ![s] = Append(@,
           [revision |-> revision, old |-> Shown(job.process, s), new |-> v, seen |-> job.seen])]
    /\ edit' = [edit EXCEPT ![e].phase = "runtime"]
    /\ UNCHANGED <<runtime, sync, timed, sleeping, ops>>

\* update_latest looks again, twice; the panels swallow every other error.
Refused(e) ==
    LET job == edit[e]
        s == job.todo[1][1]
    IN
    /\ job # None /\ job.phase = "update"
    /\ edit' = [edit EXCEPT ![e] =
           IF Valid(s, job.todo[1][2]) /\ ~Agrees(job, s) /\ job.retries > 0
           THEN [job EXCEPT !.phase = "look", !.retries = @ - 1]
           ELSE Next1(job)]
    /\ UNCHANGED <<row, history, runtime, sync, timed, sleeping, ops>>

\* The copy of the process, after the commit.
WritesRuntime(e) ==
    LET job == edit[e] IN
    /\ job # None /\ job.phase = "runtime"
    /\ runtime' = [runtime EXCEPT ![job.process][job.todo[1][1]] = job.todo[1][2]]
    /\ edit' = [edit EXCEPT ![e] = Next1(job)]
    /\ UNCHANGED <<row, history, sync, timed, sleeping, ops>>

-----------------------------------------------------------------------------
\* On the web: a new value ...
UpdateSetting(e, p, s, v) ==
    /\ edit[e] = None /\ p # Bot /\ sync[p] # Starting
    /\ Use
    /\ edit' = [edit EXCEPT ![e] = Job(p, <<<<s, v>>>>, 0)]
    /\ UNCHANGED <<row, history, runtime, sync, timed, sleeping>>

\* ... or the value of an earlier revision.
RollbackSetting(e, p, s, n) ==
    /\ n \in DOMAIN history[s]
    /\ UpdateSetting(e, p, s, history[s][n].new)

\* In the bot: the copy in memory first, then one row after the other.
BotSets(e, todo) ==
    /\ edit[e] = None /\ BotFree /\ sync[Bot] # Starting
    /\ Use
    /\ runtime' = [runtime EXCEPT ![Bot] = [s \in Setting |->
           LET at == {i \in DOMAIN todo : todo[i][1] = s} IN
           IF at = {} THEN @[s] ELSE todo[CHOOSE i \in at : TRUE][2]]]
    /\ edit' = [edit EXCEPT ![e] = Job(Bot, todo, 2)]
    /\ UNCHANGED <<row, history, sync>>

\* The other value, unless a timed registration runs.
OpenStats(e) ==
    /\ ~timed
    /\ BotSets(e, <<<<Open, 1 - runtime[Bot][Open]>>>>)
    /\ UNCHANGED <<timed, sleeping>>

OpenAllUserLimit(e) ==
    /\ \E v \in Value : BotSets(e, <<<<Limit, v>>>>)
    /\ UNCHANGED <<timed, sleeping>>

\* A timed registration. Whether one runs was asked up to two minutes before. When
\* Telegram fails, no task is left to end it.
OpenTiming(e) ==
    /\ ~sleeping
    /\ \E v \in Value : BotSets(e, <<<<Limit, v>>, <<Open, 1>>>>)
    /\ timed' = TRUE
    /\ sleeping' \in BOOLEAN

\* Its task ends, or is cancelled: registration is closed, whoever opened it since.
ChangeForTiming(e) ==
    /\ sleeping
    /\ BotSets(e, <<<<Open, 0>>>>)
    /\ timed' = FALSE
    /\ sleeping' = FALSE

SettingNext ==
    \/ \E p \in Process : Materialize(p) \/ SyncReads(p) \/ SyncWrites(p) \/ Restart(p)
    \/ StartFails
    \/ \E e \in Editor :
         \/ Looks(e) \/ Updates(e) \/ Refused(e) \/ WritesRuntime(e)
         \/ OpenStats(e) \/ OpenAllUserLimit(e) \/ OpenTiming(e) \/ ChangeForTiming(e)
         \/ \E p \in Process \ {Bot}, s \in Setting :
              (\E v \in Value : UpdateSetting(e, p, s, v)) \/ (\E n \in 1..MaxOps : RollbackSetting(e, p, s, n))

-----------------------------------------------------------------------------
\* The history of a setting has every revision once, each the successor of the one
\* before it, and ends at the row; whoever wrote a revision had seen the one before.
HistoryChains ==
    \A s \in Setting :
        /\ \A i \in DOMAIN history[s] :
             /\ history[s][i].seen = history[s][i].revision - 1
             /\ i > 1 => /\ history[s][i].revision = history[s][i - 1].revision + 1
                         /\ history[s][i].old = history[s][i - 1].new
        /\ history[s] # << >> =>
             LET last == history[s][Len(history[s])] IN row[s] = [value |-> last.new, revision |-> last.revision]

\* In the end every process that overwrites its copy periodically works with what the
\* table holds, in whatever order commits, copies and the job wrote it.
RuntimeCatchesUp ==
    <>[](\A p \in Periodic, s \in Setting : Saved(s) => runtime[p][s] = row[s].value)

=============================================================================
