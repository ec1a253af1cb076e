--------------------------- MODULE LegacyWebProofs ---------------------------
(***************************************************************************)
(* Proofs about the console of the archived v2, as LegacyWeb composes it,   *)
(* and about its partition libraries, as LegacyLibrary models them:         *)
(* for any processes, settings, administrators, sessions, items, rules and *)
(* workers, the history of a setting is a chain that ends at its row, a    *)
(* session has one open row at most, a line that is offline has been       *)
(* reported, and no rule acts twice on an event or passes one unhandled.   *)
(***************************************************************************)
EXTENDS LegacyWeb, LegacyLibrary, FiniteSetTheorems, SequenceTheorems, WellFoundedInduction, TLAPS

-----------------------------------------------------------------------------
(* Dynamic settings. *)

Row == [value : Int, revision : Nat]
Entry == [revision : Nat, old : Int, new : Int, seen : Nat]
Copy == [Setting -> Int]
Todo == Seq(Setting \X Int) \ {<< >>}
Update == [process : Process, todo : Todo, phase : {"look", "update", "runtime"}, seen : Nat, retries : Int]

SettingTypeOK ==
    /\ row \in [Setting -> {None} \cup Row]
    /\ history \in [Setting -> Seq(Entry)]
    /\ runtime \in [Process -> Copy]
    /\ edit \in [Editor -> {None} \cup Update]
    /\ sync \in [Process -> {None, Starting} \cup [Setting -> {None} \cup Row]]

\* A history h whose entries follow each other and end at the row r.
Chain(h, r) ==
    /\ \A i \in DOMAIN h :
         /\ h[i].seen = h[i].revision - 1
         /\ i > 1 => /\ h[i].revision = h[i - 1].revision + 1
                     /\ h[i].old = h[i - 1].new
    /\ h # << >> => r = [value |-> h[Len(h)].new, revision |-> h[Len(h)].revision]

SettingIInv == SettingTypeOK /\ HistoryChains

-----------------------------------------------------------------------------

LEMMA HistoriesAreChains == HistoryChains <=> \A s \in Setting : Chain(history[s], row[s])
      BY DEF HistoryChains, Chain

\* An entry written by whoever had seen the row goes on with the chain.
LEMMA ChainGrows ==
    ASSUME NEW h \in Seq(Entry), NEW r \in {None} \cup Row, Chain(h, r), NEW n \in Entry,
           n.seen = n.revision - 1,
           n.revision = (IF r # None THEN r.revision ELSE 0) + 1,
           r # None => n.old = r.value
    PROVE  Chain(Append(h, n), [value |-> n.new, revision |-> n.revision])
<1> DEFINE g == Append(h, n)
<1>1. /\ Len(g) = Len(h) + 1 /\ Len(h) \in Nat /\ DOMAIN h = 1..Len(h) /\ DOMAIN g = 1..Len(g)
      /\ g[Len(g)] = n
      /\ \A i \in 1..Len(h) : g[i] = h[i]
      OBVIOUS
<1> HIDE DEF g
<1>2. ASSUME NEW i \in DOMAIN g
      PROVE  /\ g[i].seen = g[i].revision - 1
             /\ i > 1 => g[i].revision = g[i - 1].revision + 1 /\ g[i].old = g[i - 1].new
      <2>1. CASE i \in 1..Len(h)
            <3>1. g[i] = h[i] /\ (i > 1 => g[i - 1] = h[i - 1])
                  BY <1>1, <2>1
            <3> QED BY <1>1, <2>1, <3>1 DEF Chain
      <2>2. CASE i = Len(g) /\ i > 1
            <3>1. h # << >> /\ Len(h) \in 1..Len(h)
                  BY <1>1, <2>2
            <3>2. r = [value |-> h[Len(h)].new, revision |-> h[Len(h)].revision]
                  BY <3>1 DEF Chain
            <3>3. h[Len(h)] \in Entry
                  BY <3>1
            <3>4. r \in Row
                  BY <3>2, <3>3 DEF Row, Entry
            <3>5. r # None
                  BY <3>4, SettingAssumption DEF Row
            <3>6. r.revision = h[Len(h)].revision /\ r.value = h[Len(h)].new
                  BY <3>2
            <3>7. g[i] = n /\ g[i - 1] = h[Len(h)]
                  BY <1>1, <2>2, <3>1
            <3> QED BY <3>5, <3>6, <3>7
      <2>3. CASE i = Len(g) /\ ~(i > 1)
            BY <1>1, <2>3
      <2>4. i \in 1..Len(h) \/ i = Len(g)
            BY <1>1
      <2> QED BY <2>1, <2>2, <2>3, <2>4
<1>3. Chain(g, [value |-> n.new, revision |-> n.revision])
      BY <1>1, <1>2 DEF Chain
<1> QED BY <1>3 DEF g

\* What is still to be set after the first value.
LEMMA NextTyped == \A work \in Update : Next1(work) \in {None} \cup Update
<1>1. ASSUME NEW t \in Todo, Len(t) # 1 PROVE Tail(t) \in Todo
      <2>1. t \in Seq(Setting \X Int) /\ t # << >>
            BY DEF Todo
      <2>2. Len(t) \in Nat /\ Len(t) # 0
            BY <2>1
      <2>3. Tail(t) \in Seq(Setting \X Int) /\ Len(Tail(t)) = Len(t) - 1
            BY <2>1
      <2>4. Tail(t) # << >>
            <3>1. Len(Tail(t)) # 0
                  BY <1>1, <2>2, <2>3
            <3>2. Len(<< >>) = 0
                  OBVIOUS
            <3> QED BY <3>1, <3>2, Zenon
      <2> QED BY <2>3, <2>4 DEF Todo
<1>2. ASSUME NEW work \in Update, NEW t \in Todo
      PROVE  [work EXCEPT !.todo = t, !.phase = "look", !.retries = 2] \in Update
      <2>1. [work EXCEPT !.todo = t] \in Update
            BY DEF Update
      <2>2. \A j \in Update, n \in Int : [j EXCEPT !.phase = "look", !.retries = n] \in Update
            BY DEF Update
      <2>3. [[work EXCEPT !.todo = t] EXCEPT !.phase = "look", !.retries = 2] \in Update
            <3>1. 2 \in Int
                  OBVIOUS
            <3> QED BY <2>1, <2>2, <3>1, Zenon
      <2> QED BY <2>3
<1>3. \A work \in Update : work.todo \in Todo
      BY DEF Update
<1> QED BY <1>1, <1>2, <1>3 DEF Next1

-----------------------------------------------------------------------------

\* Only an update writes a history, and nothing writes a row that has one.
LEMMA SettingStep == SettingIInv /\ SettingNext => SettingIInv'
<1> SUFFICES ASSUME SettingIInv, SettingNext PROVE SettingIInv'
    OBVIOUS
<1> USE SettingAssumption
<1>a. SettingTypeOK /\ HistoryChains
      BY DEF SettingIInv
\* A step that leaves rows and histories alone has only types to keep.
<1>b. ASSUME UNCHANGED <<row, history>>, runtime' \in [Process -> Copy],
             edit' \in [Editor -> {None} \cup Update],
             sync' \in [Process -> {None, Starting} \cup [Setting -> {None} \cup Row]]
      PROVE  SettingIInv'
      BY <1>a, <1>b DEF SettingIInv, SettingTypeOK, HistoryChains
<1>c. \A e \in Editor : edit[e] # None => edit[e] \in Update
      BY <1>a DEF SettingTypeOK
<1>d. \A e \in Editor, work \in {None} \cup Update :
         [edit EXCEPT ![e] = work] \in [Editor -> {None} \cup Update]
      BY <1>a DEF SettingTypeOK
<1>e. \A todo \in Todo : todo[1] \in Setting \X Int
      BY DEF Todo
<1>f. \A s \in Setting : Revision(s) \in Nat
      BY <1>a DEF SettingTypeOK, Revision, Saved, Row
<1>1. ASSUME NEW p \in Process, Materialize(p) PROVE SettingIInv'
      <2>1. row' = [s \in Setting |-> IF Saved(s) THEN row[s] ELSE [value |-> runtime[p][s], revision |-> 1]]
            BY <1>1 DEF Materialize
      <2>2. \A s \in Setting : [value |-> runtime[p][s], revision |-> 1] \in Row
            BY <1>a DEF SettingTypeOK, Copy, Row
      <2>3. row' \in [Setting -> {None} \cup Row]
            BY <1>a, <2>1, <2>2 DEF SettingTypeOK
      <2>4. \A s \in Setting : history[s] # << >> => row'[s] = row[s]
            <3> SUFFICES ASSUME NEW s \in Setting, history[s] # << >> PROVE row'[s] = row[s]
                OBVIOUS
            <3>1. history[s] \in Seq(Entry)
                  BY <1>a DEF SettingTypeOK
            <3>2. history[s][Len(history[s])] \in Entry
                  BY <3>1
            <3>3. row[s] = [value |-> history[s][Len(history[s])].new,
                            revision |-> history[s][Len(history[s])].revision]
                  BY <1>a DEF HistoryChains
            <3>4. row[s] \in Row
                  BY <3>2, <3>3 DEF Entry, Row
            <3>5. Saved(s)
                  BY <3>4 DEF Saved, Row
            <3> QED BY <2>1, <3>5
      <2>5. UNCHANGED <<history, runtime, edit, sync>>
            BY <1>1 DEF Materialize
      <2>6. HistoryChains'
            BY <1>a, <2>4, <2>5 DEF HistoryChains
      <2> QED BY <1>a, <2>3, <2>5, <2>6 DEF SettingIInv, SettingTypeOK
<1>2. ASSUME NEW p \in Process, SyncReads(p) PROVE SettingIInv'
      <2>1. sync' \in [Process -> {None, Starting} \cup [Setting -> {None} \cup Row]]
            BY <1>a, <1>2 DEF SyncReads, SettingTypeOK
      <2> QED BY <1>a, <1>b, <1>2, <2>1 DEF SyncReads, SettingTypeOK
<1>3. ASSUME NEW p \in Process, SyncWrites(p) PROVE SettingIInv'
      <2> DEFINE copy == [s \in Setting |-> IF sync[p][s] = None THEN runtime[p][s] ELSE sync[p][s].value]
      <2>1. sync[p] \in [Setting -> {None} \cup Row]
            BY <1>a, <1>3 DEF SyncWrites, SettingTypeOK
      <2>2. \A s \in Setting : runtime[p][s] \in Int
            BY <1>a DEF SettingTypeOK, Copy
      <2>3. copy \in Copy
            BY <2>1, <2>2 DEF Copy, Row
      <2>4. runtime' = [runtime EXCEPT ![p] = copy]
            BY <1>3 DEF SyncWrites
      <2> HIDE DEF copy
      <2>5. runtime' \in [Process -> Copy]
            BY <1>a, <2>3, <2>4 DEF SettingTypeOK
      <2>6. sync' \in [Process -> {None, Starting} \cup [Setting -> {None} \cup Row]]
            BY <1>a, <1>3 DEF SyncWrites, SettingTypeOK
      <2> QED BY <1>a, <1>b, <1>3, <2>5, <2>6 DEF SyncWrites, SettingTypeOK
<1>4. ASSUME StartFails PROVE SettingIInv'
      <2>1. sync' \in [Process -> {None, Starting} \cup [Setting -> {None} \cup Row]]
            BY <1>a, <1>4 DEF StartFails, SettingTypeOK
      <2> QED BY <1>a, <1>b, <1>4, <2>1 DEF StartFails, SettingTypeOK
<1>5. ASSUME NEW p \in Process, Restart(p) PROVE SettingIInv'
      <2>1. PICK file \in ValidFile : runtime' = [runtime EXCEPT ![p] = file]
            BY <1>5 DEF Restart
      <2>2. file \in Copy
            BY DEF ValidFile, Copy
      <2>3. runtime' \in [Process -> Copy]
            BY <1>a, <2>1, <2>2 DEF SettingTypeOK
      <2>4. edit' \in [Editor -> {None} \cup Update]
            BY <1>a, <1>5 DEF Restart, SettingTypeOK
      <2>5. sync' \in [Process -> {None, Starting} \cup [Setting -> {None} \cup Row]]
            BY <1>a, <1>5 DEF Restart, SettingTypeOK
      <2> QED BY <1>b, <1>5, <2>3, <2>4, <2>5 DEF Restart
<1>6. ASSUME NEW e \in Editor, Looks(e) PROVE SettingIInv'
      <2> DEFINE work == [edit[e] EXCEPT !.phase = "update", !.seen = Revision(edit[e].todo[1][1])]
      <2>1. edit[e] \in Update
            BY <1>c, <1>6 DEF Looks
      <2>2. edit[e].todo[1] \in Setting \X Int
            BY <1>e, <2>1 DEF Update
      <2>3. Revision(edit[e].todo[1][1]) \in Nat
            BY <1>f, <2>2
      <2>4. work \in Update
            BY <2>1, <2>3 DEF Update
      <2>5. edit' = [edit EXCEPT ![e] = work]
            BY <1>6 DEF Looks
      <2> HIDE DEF work
      <2>6. edit' \in [Editor -> {None} \cup Update]
            BY <1>d, <2>4, <2>5
      <2> QED BY <1>a, <1>b, <1>6, <2>6 DEF Looks, SettingTypeOK
<1>7. ASSUME NEW e \in Editor, Updates(e) PROVE SettingIInv'
      <2>1. edit[e] \in Update
            BY <1>c, <1>7 DEF Updates
      <2>2. edit[e].todo[1] \in Setting \X Int
            BY <1>e, <2>1 DEF Update
      <2>3. PICK s \in Setting, v \in Int : s = edit[e].todo[1][1] /\ v = edit[e].todo[1][2]
            BY <2>2
      <2> DEFINE n == [revision |-> Revision(s) + 1, old |-> Shown(edit[e].process, s), new |-> v,
                       seen |-> edit[e].seen]
                 r == [value |-> v, revision |-> Revision(s) + 1]
                 work == [edit[e] EXCEPT !.phase = "runtime"]
      <2>4. /\ row' = [row EXCEPT ![s] = r]
            /\ history' = [history EXCEPT ![s] = Append(history[s], n)]
            /\ edit' = [edit EXCEPT ![e] = work]
            /\ UNCHANGED <<runtime, sync>>
            /\ edit[e].seen = Revision(s)
            BY <1>7, <2>3 DEF Updates, Agrees
      <2>5. r \in Row
            BY <1>f DEF Row
      <2>6. Shown(edit[e].process, s) \in Int
            BY <1>a, <2>1 DEF Shown, Saved, SettingTypeOK, Row, Copy, Update
      <2>7. n \in Entry
            BY <1>f, <2>1, <2>6 DEF Entry, Update
      <2>8. work \in Update
            BY <2>1 DEF Update
      <2>9. Chain(history[s], row[s]) /\ history[s] \in Seq(Entry) /\ row[s] \in {None} \cup Row
            BY <1>a, HistoriesAreChains DEF SettingTypeOK
      <2>10. /\ n.seen = n.revision - 1 /\ n.new = v
             /\ n.revision = (IF row[s] # None THEN row[s].revision ELSE 0) + 1
             /\ row[s] # None => n.old = row[s].value
            BY <1>f, <2>4 DEF Revision, Saved, Shown
      <2>11. [value |-> n.new, revision |-> n.revision] = r
            OBVIOUS
      <2> HIDE DEF n, r, work
      <2>12. Chain(Append(history[s], n), r)
            <3>1. Chain(Append(history[s], n), [value |-> n.new, revision |-> n.revision])
                  BY <2>7, <2>9, <2>10, ChainGrows
            <3> QED BY <2>11, <3>1
      <2>13. Append(history[s], n) \in Seq(Entry)
            BY <2>7, <2>9
      <2>14. SettingTypeOK'
            <3>1. row' \in [Setting -> {None} \cup Row]
                  BY <1>a, <2>4, <2>5 DEF SettingTypeOK
            <3>2. history' \in [Setting -> Seq(Entry)]
                  BY <1>a, <2>4, <2>13 DEF SettingTypeOK
            <3>3. edit' \in [Editor -> {None} \cup Update]
                  BY <1>d, <2>4, <2>8
            <3> QED BY <1>a, <2>4, <3>1, <3>2, <3>3 DEF SettingTypeOK
      <2>15. \A t \in Setting : Chain(history'[t], row'[t])
            <3> SUFFICES ASSUME NEW t \in Setting PROVE Chain(history'[t], row'[t])
                OBVIOUS
            <3>1. CASE t = s
                  <4>1. history'[t] = Append(history[s], n) /\ row'[t] = r
                        BY <1>a, <2>4, <3>1 DEF SettingTypeOK
                  <4> QED BY <2>12, <4>1
            <3>2. CASE t # s
                  <4>1. history'[t] = history[t] /\ row'[t] = row[t]
                        BY <1>a, <2>4, <3>2 DEF SettingTypeOK
                  <4>2. Chain(history[t], row[t])
                        BY <1>a, HistoriesAreChains
                  <4> QED BY <4>1, <4>2
            <3> QED BY <3>1, <3>2
      <2>16. HistoryChains'
            BY <2>15 DEF HistoryChains, Chain
      <2> QED BY <2>14, <2>16 DEF SettingIInv
<1>8. ASSUME NEW e \in Editor, Refused(e) PROVE SettingIInv'
      <2>1. edit[e] \in Update
            BY <1>c, <1>8 DEF Refused
      <2>2. [edit[e] EXCEPT !.phase = "look", !.retries = @ - 1] \in Update
            <3>1. \A n \in Int, work \in Update : [work EXCEPT !.phase = "look", !.retries = n] \in Update
                  BY DEF Update
            <3>2. edit[e].retries - 1 \in Int
                  BY <2>1 DEF Update
            <3> QED BY <2>1, <3>1, <3>2
      <2>3. Next1(edit[e]) \in {None} \cup Update
            BY <2>1, NextTyped
      <2>4. PICK work \in {None} \cup Update : edit' = [edit EXCEPT ![e] = work]
            BY <1>8, <2>2, <2>3 DEF Refused
      <2>5. edit' \in [Editor -> {None} \cup Update]
            BY <1>d, <2>4
      <2> QED BY <1>a, <1>b, <1>8, <2>5 DEF Refused, SettingTypeOK
<1>9. ASSUME NEW e \in Editor, WritesRuntime(e) PROVE SettingIInv'
      <2>1. edit[e] \in Update
            BY <1>c, <1>9 DEF WritesRuntime
      <2>2. edit[e].todo[1] \in Setting \X Int /\ edit[e].process \in Process
            BY <1>e, <2>1 DEF Update
      <2>3. PICK p \in Process, s \in Setting, v \in Int :
               runtime' = [runtime EXCEPT ![p][s] = v]
            BY <1>9, <2>2 DEF WritesRuntime
      <2>4. runtime' \in [Process -> Copy]
            BY <1>a, <2>3 DEF SettingTypeOK, Copy
      <2>5. Next1(edit[e]) \in {None} \cup Update
            BY <2>1, NextTyped
      <2>6. edit' \in [Editor -> {None} \cup Update]
            BY <1>d, <1>9, <2>5 DEF WritesRuntime
      <2> QED BY <1>a, <1>b, <1>9, <2>4, <2>6 DEF WritesRuntime, SettingTypeOK
\* Whoever begins an update has values to set.
<1>10. \A p \in Process, todo \in Todo, retries \in Int : Job(p, todo, retries) \in Update
      BY DEF Job, Update
<1>11. ASSUME NEW e \in Editor, NEW p \in Process, NEW s \in Setting, NEW v \in Int,
              UpdateSetting(e, p, s, v)
       PROVE  SettingIInv'
      <2>1. <<<<s, v>>>> \in Todo
            BY DEF Todo
      <2>2. Job(p, <<<<s, v>>>>, 0) \in Update
            BY <1>10, <2>1
      <2>3. edit' \in [Editor -> {None} \cup Update]
            BY <1>d, <1>11, <2>2 DEF UpdateSetting
      <2> QED BY <1>a, <1>b, <1>11, <2>3 DEF UpdateSetting, SettingTypeOK
<1>12. ASSUME NEW e \in Editor, NEW p \in Process, NEW s \in Setting, NEW n \in 1..MaxOps,
              RollbackSetting(e, p, s, n)
       PROVE  SettingIInv'
      <2>1. n \in DOMAIN history[s] /\ history[s] \in Seq(Entry)
            BY <1>a, <1>12 DEF RollbackSetting, SettingTypeOK
      <2>2. history[s][n] \in Entry
            BY <2>1
      <2>3. history[s][n].new \in Int
            BY <2>2 DEF Entry
      <2> QED BY <1>11, <1>12, <2>3 DEF RollbackSetting
<1>13. ASSUME NEW e \in Editor, NEW todo \in Todo, BotSets(e, todo) PROVE SettingIInv'
      <2> DEFINE at(s) == {i \in DOMAIN todo : todo[i][1] = s}
                 copy == [s \in Setting |-> IF at(s) = {} THEN runtime[Bot][s]
                                            ELSE todo[CHOOSE i \in at(s) : TRUE][2]]
      <2>1. \A i \in DOMAIN todo : todo[i] \in Setting \X Int
            BY DEF Todo
      <2>2. \A s \in Setting : at(s) # {} => todo[CHOOSE i \in at(s) : TRUE][2] \in Int
            <3> SUFFICES ASSUME NEW s \in Setting, at(s) # {} PROVE todo[CHOOSE i \in at(s) : TRUE][2] \in Int
                OBVIOUS
            <3>1. (CHOOSE i \in at(s) : TRUE) \in DOMAIN todo
                  OBVIOUS
            <3> HIDE DEF at
            <3> QED BY <2>1, <3>1
      <2>3. runtime[Bot] \in Copy
            BY <1>a DEF SettingTypeOK
      <2>4. copy \in Copy
            <3> HIDE DEF at
            <3> QED BY <2>2, <2>3 DEF Copy
      <2>5. runtime' = [runtime EXCEPT ![Bot] = copy]
            BY <1>13 DEF BotSets
      <2> HIDE DEF copy
      <2>6. runtime' \in [Process -> Copy]
            BY <1>a, <2>4, <2>5 DEF SettingTypeOK
      <2>7. Job(Bot, todo, 2) \in Update
            BY <1>10
      <2>8. edit' \in [Editor -> {None} \cup Update]
            BY <1>d, <1>13, <2>7 DEF BotSets
      <2> QED BY <1>a, <1>b, <1>13, <2>6, <2>8 DEF BotSets, SettingTypeOK
<1>14. \A s \in Setting, v \in Int : <<<<s, v>>>> \in Todo
      BY DEF Todo
<1>15. ASSUME NEW e \in Editor, OpenStats(e) PROVE SettingIInv'
      <2>1. 1 - runtime[Bot][Open] \in Int
            BY <1>a DEF SettingTypeOK, Copy
      <2>2. <<<<Open, 1 - runtime[Bot][Open]>>>> \in Todo
            BY <1>14, <2>1
      <2> QED BY <1>13, <1>15, <2>2 DEF OpenStats
<1>16. ASSUME NEW e \in Editor, OpenAllUserLimit(e) PROVE SettingIInv'
      <2>1. PICK v \in Value : BotSets(e, <<<<Limit, v>>>>)
            BY <1>16 DEF OpenAllUserLimit
      <2>2. <<<<Limit, v>>>> \in Todo
            BY <1>14
      <2> QED BY <1>13, <2>1, <2>2
<1>17. ASSUME NEW e \in Editor, OpenTiming(e) PROVE SettingIInv'
      <2>1. PICK v \in Value : BotSets(e, <<<<Limit, v>>, <<Open, 1>>>>)
            BY <1>17 DEF OpenTiming
      <2>2. <<<<Limit, v>>, <<Open, 1>>>> \in Todo
            BY DEF Todo
      <2> QED BY <1>13, <2>1, <2>2
<1>18. ASSUME NEW e \in Editor, ChangeForTiming(e) PROVE SettingIInv'
      <2>1. <<<<Open, 0>>>> \in Todo
            BY <1>14
      <2> QED BY <1>13, <1>18, <2>1 DEF ChangeForTiming
<1> QED BY <1>1, <1>2, <1>3, <1>4, <1>5, <1>6, <1>7, <1>8, <1>9, <1>11, <1>12, <1>15, <1>16, <1>17, <1>18
        DEF SettingNext

-----------------------------------------------------------------------------

\* The parts of LegacyWeb share no variable: a step is one of the settings or leaves
\* them alone.
LEMMA SettingInvariant == Spec => []SettingIInv
<1>1. Init => SettingIInv
      <2> SUFFICES ASSUME Init PROVE SettingIInv
          OBVIOUS
      <2>1. PICK file \in ValidFile : runtime = [p \in Process |-> file]
            BY DEF Init, SettingInit
      <2>2. file \in Copy
            BY SettingAssumption DEF ValidFile, Copy
      <2> QED BY <2>1, <2>2 DEF Init, SettingInit, SettingIInv, SettingTypeOK, HistoryChains
<1>2. SettingIInv /\ [Next]_webVars => SettingIInv'
      <2> SUFFICES ASSUME SettingIInv, [Next]_webVars PROVE SettingIInv'
          OBVIOUS
      <2>1. SettingNext \/ UNCHANGED settingVars
            BY DEF Next, MoveSettings, MovePlayback, MoveLines, MoveAutomations, webVars
      <2>2. UNCHANGED settingVars => SettingIInv'
            BY DEF settingVars, SettingIInv, SettingTypeOK, HistoryChains
      <2> QED BY <2>1, <2>2, SettingStep
<1> QED BY <1>1, <1>2, PTL DEF Spec

\* The history of a setting tells every value it had, and who had seen what.
THEOREM HistoriesChain == Spec => []HistoryChains
<1>1. SettingIInv => HistoryChains
      BY DEF SettingIInv
<1> QED BY <1>1, SettingInvariant, PTL

-----------------------------------------------------------------------------
(* The operations console. *)

Rows == [Watch -> Seq(Item)]
Playing == [Watch -> Item \cup {Gone}]
Synchronising(s) == s \in [list : Playing, rows : {Gone} \cup Rows, devices : {s.devices}]

PlaybackTypeOK ==
    /\ playing \in Playing
    /\ open \in Rows
    /\ syncing = [p \in Syncer |-> syncing[p]]
    /\ \A p \in Syncer : syncing[p] # Gone => Synchronising(syncing[p])

\* A row that was read under the lock is still as it was read, or an administrator has
\* ended it.
RowsStand(rows) == \A w \in Watch : open[w] = rows[w] \/ open[w] = << >>

\* Whoever has read the rows holds the lock.
LockHeld ==
    \A p \in Syncer : syncing[p] # Gone /\ ~Fetched(p) => locked = p /\ RowsStand(syncing[p].rows)

PlaybackIInv == PlaybackTypeOK /\ LockHeld /\ OneOpenPlay

LineRow == [url : Url, revision : Nat, shown : BOOLEAN, status : LineStatus]

LineTypeOK ==
    /\ line \in [Line -> {Gone} \cup LineRow]
    /\ outages \in [Line -> Nat]
    /\ probing \subseteq Line \X Url \X LineStatus

\* Lines that are probed exist: nothing deletes one.
ProbedExist == \A t \in probing : line[t[1]] # Gone

LineIInv == LineTypeOK /\ ProbedExist /\ LinesReported

-----------------------------------------------------------------------------

\* As many rows stay as play the item, and the item is theirs.
LEMMA SameItemKept ==
    ASSUME NEW rows \in Seq(Item), Len(rows) <= 1, NEW item \in Item
    PROVE  /\ SameItem(rows, item) \in Seq(Item)
           /\ Len(SameItem(rows, item)) <= Len(rows)
<1> DEFINE same == {i \in DOMAIN rows : rows[i] = item /\ item # NoItem}
<1>1. Len(rows) \in Nat /\ DOMAIN rows = 1..Len(rows)
      OBVIOUS
<1>2. /\ IsFiniteSet(DOMAIN rows) /\ Cardinality(DOMAIN rows) = Len(rows)
      <2>1. /\ IsFiniteSet(1..Len(rows))
            /\ Cardinality(1..Len(rows)) = IF 1 > Len(rows) THEN 0 ELSE Len(rows) - 1 + 1
            <3>1. 1 \in Int /\ Len(rows) \in Int
                  BY <1>1
            <3> QED BY <3>1, FS_Interval, Zenon
      <2>2. Cardinality(1..Len(rows)) = Len(rows)
            BY <1>1, <2>1
      <2> QED BY <1>1, <2>1, <2>2
<1>3. same \subseteq DOMAIN rows
      OBVIOUS
<1>4. Cardinality(same) \in Nat /\ Cardinality(same) <= Len(rows)
      <2> HIDE DEF same
      <2> QED BY <1>2, <1>3, FS_Subset, FS_CardinalityType
<1>5. SameItem(rows, item) = [n \in 1..Cardinality(same) |-> item]
      BY DEF SameItem
<1> HIDE DEF same
<1> QED BY <1>4, <1>5

\* Of a session that has one row at most a synchronisation leaves one at most, if the
\* rows are those it has read or were ended since.
LEMMA RowsAfterOne ==
    ASSUME PlaybackTypeOK, OneOpenPlay, NEW p \in Syncer, syncing[p] # Gone, ~Fetched(p),
           RowsStand(syncing[p].rows), NEW w \in Watch
    PROVE  RowsAfter(p, w) \in Seq(Item) /\ Len(RowsAfter(p, w)) <= 1
<1> DEFINE item == syncing[p].list[w]
           rows == syncing[p].rows[w]
<1>1. syncing[p].rows \in Rows /\ syncing[p].list \in Playing
      BY DEF PlaybackTypeOK, Synchronising, Fetched
<1>2. open[w] \in Seq(Item) /\ Len(open[w]) <= 1
      BY DEF PlaybackTypeOK, Rows, OneOpenPlay
<1>3. CASE w \notin Listed(p)
      <2>1. RowsAfter(p, w) = << >>
            BY <1>3 DEF RowsAfter, EndsMissing
      <2> QED BY <2>1
<1>4. CASE w \in Listed(p)
      <2>1. item \in Item
            BY <1>1, <1>4 DEF Listed, Playing
      <2>2. open[w] = rows \/ open[w] = << >>
            BY DEF RowsStand
      <2>3. /\ SameItem(open[w], item) \in Seq(Item)
            /\ Len(SameItem(open[w], item)) <= Len(open[w])
            BY <1>2, <2>1, SameItemKept
      <2>4. RowsAfter(p, w) = SameItem(open[w], item)
                              \o (IF SameItem(rows, item) = << >> THEN <<item>> ELSE << >>)
            BY <1>4 DEF RowsAfter, IsNewPlay
      <2> HIDE DEF item, rows
      <2>5. CASE SameItem(rows, item) = << >>
            <3>1. SameItem(open[w], item) = << >>
                  <4>1. CASE open[w] = rows
                        BY <4>1, <2>5
                  <4>2. CASE open[w] = << >>
                        BY <4>2, <2>3
                  <4> QED BY <4>1, <4>2, <2>2
            <3>2. RowsAfter(p, w) = <<item>>
                  BY <2>1, <2>4, <2>5, <3>1
            <3> QED BY <2>1, <3>2
      <2>6. CASE SameItem(rows, item) # << >>
            <3>1. RowsAfter(p, w) = SameItem(open[w], item)
                  BY <2>3, <2>4, <2>6
            <3>2. Len(SameItem(open[w], item)) <= 1
                  BY <1>2, <2>3
            <3> QED BY <2>3, <3>1, <3>2
      <2> QED BY <2>5, <2>6
<1> QED BY <1>3, <1>4

-----------------------------------------------------------------------------

\* The lock orders what synchronisations read and write; only administrators come in
\* between, and they end rows.
LEMMA PlaybackStep == PlaybackIInv /\ PlaybackNext => PlaybackIInv'
<1> SUFFICES ASSUME PlaybackIInv, PlaybackNext PROVE PlaybackIInv'
    OBVIOUS
<1> USE OperationsAssumption
<1>a. PlaybackTypeOK /\ LockHeld /\ OneOpenPlay
      BY DEF PlaybackIInv
<1>b. syncing = [p \in Syncer |-> syncing[p]]
      BY <1>a DEF PlaybackTypeOK
<1>1. ASSUME UNCHANGED <<open, syncing, locked>>, playing' \in Playing PROVE PlaybackIInv'
      BY <1>a, <1>1 DEF PlaybackIInv, PlaybackTypeOK, LockHeld, OneOpenPlay, RowsStand, Fetched
\* A synchronisation that holds no lock begins or ends.
<1>2. ASSUME NEW p \in Syncer, NEW s, syncing' = [syncing EXCEPT ![p] = s],
             s # Gone => Synchronising(s) /\ s.rows = Gone, UNCHANGED <<playing, open, locked>>
      PROVE  PlaybackIInv'
      <2>1. \A q \in Syncer : syncing'[q] = IF q = p THEN s ELSE syncing[q]
            BY <1>b, <1>2
      <2>2. syncing' = [q \in Syncer |-> syncing'[q]]
            BY <1>b, <1>2
      <2>3. PlaybackTypeOK'
            BY <1>a, <1>2, <2>1, <2>2 DEF PlaybackTypeOK, Synchronising
      <2>4. LockHeld'
            BY <1>a, <1>2, <2>1 DEF LockHeld, Fetched, RowsStand
      <2> QED BY <1>a, <1>2, <2>3, <2>4 DEF PlaybackIInv, OneOpenPlay
\* The one that holds the lock ends, and nobody else holds it.
<1>3. ASSUME NEW p \in Syncer, syncing[p] # Gone, ~Fetched(p), syncing' = [syncing EXCEPT ![p] = Gone],
             playing' = playing, open' \in Rows, OneOpenPlay'
      PROVE  PlaybackIInv'
      <2>1. \A q \in Syncer : syncing'[q] = IF q = p THEN Gone ELSE syncing[q]
            BY <1>b, <1>3
      <2>2. syncing' = [q \in Syncer |-> syncing'[q]]
            BY <1>b, <1>3
      <2>3. \A q \in Syncer \ {p} : syncing[q] # Gone => Fetched(q)
            BY <1>a, <1>3 DEF LockHeld
      <2>4. PlaybackTypeOK'
            BY <1>a, <1>3, <2>1, <2>2 DEF PlaybackTypeOK, Synchronising
      <2>5. LockHeld'
            BY <2>1, <2>3 DEF LockHeld, Fetched
      <2> QED BY <1>3, <2>4, <2>5 DEF PlaybackIInv
<1>4. ASSUME NEW w \in Watch, Plays(w) PROVE PlaybackIInv'
      <2>1. playing' \in Playing
            BY <1>a, <1>4 DEF Plays, PlaybackTypeOK, Playing
      <2> QED BY <1>1, <1>4, <2>1 DEF Plays
<1>5. ASSUME NEW w \in Watch, StopPlayback(w) PROVE PlaybackIInv'
      <2>1. playing' \in Playing
            BY <1>a, <1>5 DEF StopPlayback, PlaybackTypeOK, Playing
      <2> QED BY <1>1, <1>5, <2>1 DEF StopPlayback
<1>6. ASSUME NEW w \in Watch, StopWrites(w) PROVE PlaybackIInv'
      <2>1. open[w] \in Seq(Item) /\ Len(open[w]) <= 1
            BY <1>a DEF PlaybackTypeOK, Rows, OneOpenPlay
      <2>2. SubSeq(open[w], 1, Len(open[w]) - 1) = << >>
            BY <2>1
      <2>3. open' = [open EXCEPT ![w] = << >>]
            BY <1>6, <2>2 DEF StopWrites
      <2>4. open' \in Rows /\ \A v \in Watch : open'[v] = open[v] \/ open'[v] = << >>
            BY <1>a, <2>3 DEF PlaybackTypeOK, Rows
      <2>5. UNCHANGED <<playing, syncing, locked>>
            BY <1>6 DEF StopWrites
      <2>6. PlaybackTypeOK'
            BY <1>a, <2>4, <2>5 DEF PlaybackTypeOK, Synchronising
      <2>7. LockHeld'
            BY <1>a, <2>4, <2>5 DEF LockHeld, RowsStand, Fetched
      <2>8. OneOpenPlay'
            BY <1>a, <2>4 DEF OneOpenPlay
      <2> QED BY <2>6, <2>7, <2>8 DEF PlaybackIInv
<1>7. ASSUME NEW p \in Syncer, Fetches(p) PROVE PlaybackIInv'
      <2> DEFINE s == [list |-> playing, rows |-> Gone, devices |-> Gone]
      <2>1. Synchronising(s) /\ s.rows = Gone
            BY <1>a DEF Synchronising, PlaybackTypeOK
      <2>2. syncing' = [syncing EXCEPT ![p] = s] /\ UNCHANGED <<playing, open, locked>>
            BY <1>7 DEF Fetches
      <2> HIDE DEF s
      <2> QED BY <1>2, <2>1, <2>2
<1>8. ASSUME NEW p \in Syncer, SyncRefused(p) PROVE PlaybackIInv'
      BY <1>2, <1>8 DEF SyncRefused
<1>9. ASSUME NEW p \in Syncer, Reads(p) PROVE PlaybackIInv'
      <2> DEFINE s == [syncing[p] EXCEPT !.rows = open, !.devices = device]
      <2>1. syncing[p] # Gone /\ locked = Gone
            BY <1>9 DEF Reads, Fetched, Lockable
      <2>2. s.rows = open /\ Synchronising(s)
            <3>1. Synchronising(syncing[p])
                  BY <1>a, <2>1 DEF PlaybackTypeOK
            <3>2. open \in Rows
                  BY <1>a DEF PlaybackTypeOK
            <3>3. s \in [list : Playing, rows : {Gone} \cup Rows, devices : {device}]
                  BY <3>1, <3>2 DEF Synchronising
            <3> HIDE DEF s
            <3>4. s.devices = device
                  BY <3>3
            <3>5. s.rows = open
                  BY <3>1 DEF Synchronising, s
            <3> QED BY <3>3, <3>4, <3>5 DEF Synchronising
      <2>3. /\ locked' = p /\ UNCHANGED <<playing, open>>
            /\ syncing' = [syncing EXCEPT ![p] = s]
            BY <1>9 DEF Reads
      <2> HIDE DEF s
      <2>4. \A q \in Syncer : syncing'[q] = IF q = p THEN s ELSE syncing[q]
            BY <1>b, <2>3
      <2>5. syncing' = [q \in Syncer |-> syncing'[q]]
            BY <1>b, <2>3
      <2>6. \A q \in Syncer : syncing[q] # Gone => Fetched(q)
            BY <1>a, <2>1 DEF LockHeld
      <2>7. PlaybackTypeOK'
            BY <1>a, <2>2, <2>3, <2>4, <2>5 DEF PlaybackTypeOK, Synchronising
      <2>8. LockHeld'
            BY <2>2, <2>3, <2>4, <2>6 DEF LockHeld, Fetched, RowsStand
      <2>9. OneOpenPlay'
            BY <1>a, <2>3 DEF OneOpenPlay
      <2> QED BY <2>7, <2>8, <2>9 DEF PlaybackIInv
<1>10. ASSUME NEW p \in Syncer, SyncCommits(p) PROVE PlaybackIInv'
      <2>1. syncing[p] # Gone /\ ~Fetched(p) /\ RowsStand(syncing[p].rows)
            BY <1>a, <1>10 DEF SyncCommits, LockHeld
      <2>2. open' = [w \in Watch |-> RowsAfter(p, w)]
            BY <1>10 DEF SyncCommits
      <2>3. \A w \in Watch : RowsAfter(p, w) \in Seq(Item) /\ Len(RowsAfter(p, w)) <= 1
            BY <1>a, <2>1, RowsAfterOne
      <2>4. open' \in Rows /\ OneOpenPlay'
            BY <2>2, <2>3 DEF Rows, OneOpenPlay
      <2>5. syncing' = [syncing EXCEPT ![p] = Gone] /\ playing' = playing
            BY <1>10 DEF SyncCommits
      <2> QED BY <1>3, <2>1, <2>4, <2>5
<1>11. ASSUME NEW p \in Syncer, SyncFails(p) PROVE PlaybackIInv'
      <2>1. open' \in Rows /\ OneOpenPlay'
            BY <1>a, <1>11 DEF SyncFails, PlaybackTypeOK, OneOpenPlay
      <2> QED BY <1>3, <1>11, <2>1 DEF SyncFails
<1>12. ASSUME Recycles \/ UpdateDeviceCommits \/ \E d \in Device : UpdateDevice(d) PROVE PlaybackIInv'
      <2>1. UNCHANGED <<playing, open, syncing, locked>>
            BY <1>12 DEF Recycles, UpdateDeviceCommits, UpdateDevice
      <2> QED BY <1>1, <1>a, <2>1 DEF PlaybackTypeOK
<1> QED BY <1>4, <1>5, <1>6, <1>7, <1>8, <1>9, <1>10, <1>11, <1>12 DEF PlaybackNext

-----------------------------------------------------------------------------

\* A line goes offline in the transaction that reports it.
LEMMA LineStep == LineIInv /\ LineNext => LineIInv'
<1> SUFFICES ASSUME LineIInv, LineNext PROVE LineIInv'
    OBVIOUS
<1> USE OperationsAssumption DEF LineStatus
<1>a. LineTypeOK /\ ProbedExist /\ LinesReported
      BY DEF LineIInv
<1>b. Gone \notin LineRow
      BY DEF LineRow
\* A line is written that is as it was, offline or not.
<1>1. ASSUME NEW l \in Line, NEW r \in LineRow, line' = [line EXCEPT ![l] = r],
             r.status = "offline" <=> line[l] # Gone /\ line[l].status = "offline",
             UNCHANGED <<probing, outages>>
      PROVE  LineIInv'
      <2>1. \A m \in Line : line'[m] = IF m = l THEN r ELSE line[m]
            BY <1>a, <1>1 DEF LineTypeOK
      <2>2. LineTypeOK'
            BY <1>a, <1>1 DEF LineTypeOK
      <2>3. ProbedExist'
            BY <1>a, <1>b, <1>1, <2>1 DEF ProbedExist, LineTypeOK
      <2>4. LinesReported'
            BY <1>a, <1>b, <1>1, <2>1 DEF LinesReported
      <2> QED BY <2>2, <2>3, <2>4 DEF LineIInv
<1>2. ASSUME NEW l \in Line, NEW url \in Url, CreateLine(l, url) PROVE LineIInv'
      <2>1. PICK shown \in BOOLEAN :
               line' = [line EXCEPT ![l] = [url |-> url, revision |-> 1, shown |-> shown, status |-> "unknown"]]
            BY <1>2 DEF CreateLine
      <2>2. [url |-> url, revision |-> 1, shown |-> shown, status |-> "unknown"] \in LineRow
            BY DEF LineRow
      <2>3. line[l] = Gone /\ UNCHANGED <<probing, outages>>
            BY <1>2 DEF CreateLine
      <2> QED BY <1>1, <2>1, <2>2, <2>3
<1>3. ASSUME NEW l \in Line, NEW url \in Url, NEW seen, UpdateLine(l, url, seen) PROVE LineIInv'
      <2>1. PICK shown \in BOOLEAN :
               line' = [line EXCEPT ![l].url = url, ![l].shown = shown, ![l].revision = @ + 1]
            BY <1>3 DEF UpdateLine
      <2> DEFINE r == [line[l] EXCEPT !.url = url, !.shown = shown, !.revision = @ + 1]
      <2>2. line[l] \in LineRow /\ line[l] # Gone
            BY <1>a, <1>3 DEF UpdateLine, LineTypeOK
      <2>3. r \in LineRow /\ r.status = line[l].status
            <3>1. line[l].revision + 1 \in Nat
                  BY <2>2 DEF LineRow
            <3>2. ASSUME NEW x \in LineRow, NEW n \in Nat
                  PROVE  /\ [x EXCEPT !.url = url, !.shown = shown, !.revision = n] \in LineRow
                         /\ [x EXCEPT !.url = url, !.shown = shown, !.revision = n].status = x.status
                  BY DEF LineRow
            <3> QED BY <2>2, <3>1, <3>2
      <2>4. line' = [line EXCEPT ![l] = r]
            BY <2>1
      <2>5. UNCHANGED <<probing, outages>>
            BY <1>3 DEF UpdateLine
      <2> HIDE DEF r
      <2> QED BY <1>1, <2>2, <2>3, <2>4, <2>5
<1>4. ASSUME NEW l \in Line, ProbeLine(l) PROVE LineIInv'
      <2>1. line[l] \in LineRow /\ line[l] # Gone
            BY <1>a, <1>4 DEF ProbeLine, LineTypeOK
      <2>2. <<l, line[l].url, line[l].status>> \in Line \X Url \X LineStatus
            BY <2>1 DEF LineRow
      <2>3. probing' = probing \cup {<<l, line[l].url, line[l].status>>} /\ UNCHANGED <<line, outages>>
            BY <1>4 DEF ProbeLine
      <2>4. LineTypeOK'
            BY <1>a, <2>2, <2>3 DEF LineTypeOK
      <2>5. ProbedExist'
            BY <1>a, <2>1, <2>3 DEF ProbedExist
      <2> QED BY <1>a, <2>3, <2>4, <2>5 DEF LineIInv, LinesReported
<1>5. ASSUME NEW l \in Line, NEW url \in Url, NEW then \in LineStatus, NEW success \in BOOLEAN,
             ProbeCommits(l, url, then, success)
      PROVE  LineIInv'
      <2> DEFINE r == [line[l] EXCEPT !.status = IF success THEN "healthy" ELSE "offline"]
      <2>1. line[l] # Gone
            BY <1>a, <1>5 DEF ProbeCommits, ProbedExist
      <2>2. line[l] \in LineRow
            BY <1>a, <2>1 DEF LineTypeOK
      <2>3. r \in LineRow /\ (r.status = "offline" <=> ~success)
            BY <2>2 DEF LineRow
      <2>4. /\ line' = [line EXCEPT ![l] = r]
            /\ probing' \subseteq probing
            /\ outages' = [outages EXCEPT ![l] =
                   IF success THEN 0 ELSE IF line[l].status # "offline" THEN @ + 1 ELSE @]
            BY <1>5 DEF ProbeCommits, WasOnline
      <2> HIDE DEF r
      <2>5. \A m \in Line : line'[m] = IF m = l THEN r ELSE line[m]
            BY <1>a, <2>4 DEF LineTypeOK
      <2>6. /\ outages' \in [Line -> Nat]
            /\ \A m \in Line \ {l} : outages'[m] = outages[m]
            BY <1>a, <2>4 DEF LineTypeOK
      <2>7. outages'[l] = IF success THEN 0 ELSE 1
            <3>1. outages'[l] = IF success THEN 0 ELSE IF line[l].status # "offline" THEN outages[l] + 1 ELSE outages[l]
                  BY <1>a, <2>4 DEF LineTypeOK
            <3>2. outages[l] = IF line[l].status = "offline" THEN 1 ELSE 0
                  BY <1>a, <2>1 DEF LinesReported
            <3> QED BY <3>1, <3>2
      <2>8. LineTypeOK'
            BY <1>a, <2>3, <2>4, <2>6 DEF LineTypeOK
      <2>9. ProbedExist'
            BY <1>a, <1>b, <2>3, <2>4, <2>5 DEF ProbedExist, LineTypeOK
      <2>10. LinesReported'
            <3> SUFFICES ASSUME NEW m \in Line
                         PROVE  outages'[m] = IF line'[m] # Gone /\ line'[m].status = "offline" THEN 1 ELSE 0
                BY DEF LinesReported
            <3>1. CASE m = l
                  BY <1>b, <2>3, <2>5, <2>7, <3>1
            <3>2. CASE m # l
                  BY <1>a, <2>5, <2>6, <3>2 DEF LinesReported
            <3> QED BY <3>1, <3>2
      <2> QED BY <2>8, <2>9, <2>10 DEF LineIInv
<1> QED BY <1>2, <1>3, <1>4, <1>5 DEF LineNext

-----------------------------------------------------------------------------

\* The parts of LegacyWeb share no variable: a step is one of playback, one of lines,
\* or leaves both alone.
LEMMA OperationsInvariant == Spec => [](PlaybackIInv /\ LineIInv)
<1>1. Init => PlaybackIInv /\ LineIInv
      <2> SUFFICES ASSUME Init PROVE PlaybackIInv /\ LineIInv
          OBVIOUS
      <2> USE DEF Init, OperationsInit
      <2>1. PlaybackTypeOK
            BY DEF PlaybackTypeOK, Playing, Rows
      <2>2. LockHeld /\ OneOpenPlay
            BY DEF LockHeld, OneOpenPlay
      <2>3. LineTypeOK /\ ProbedExist /\ LinesReported
            BY DEF LineTypeOK, ProbedExist, LinesReported
      <2> QED BY <2>1, <2>2, <2>3 DEF PlaybackIInv, LineIInv
<1>2. PlaybackIInv /\ LineIInv /\ [Next]_webVars => (PlaybackIInv /\ LineIInv)'
      <2> SUFFICES ASSUME PlaybackIInv, LineIInv, [Next]_webVars PROVE (PlaybackIInv /\ LineIInv)'
          OBVIOUS
      <2>1. \/ PlaybackNext /\ UNCHANGED lineVars
            \/ LineNext /\ UNCHANGED playbackVars
            \/ UNCHANGED <<playbackVars, lineVars>>
            <3>1. PlaybackNext => UNCHANGED lineVars
                  BY DEF PlaybackNext, lineVars, Plays, StopPlayback, StopWrites, Fetches, Reads, SyncRefused,
                         SyncCommits, SyncFails, Recycles, UpdateDevice, UpdateDeviceCommits
            <3>2. LineNext => UNCHANGED playbackVars
                  BY DEF LineNext, ProbeLine, CreateLine, UpdateLine, ProbeCommits
            <3> QED BY <3>1, <3>2 DEF Next, MoveSettings, MovePlayback, MoveLines, MoveAutomations,
                                      webVars, operationsVars
      <2>2. UNCHANGED lineVars => LineIInv'
            BY DEF lineVars, LineIInv, LineTypeOK, ProbedExist, LinesReported
      <2>3. UNCHANGED playbackVars => PlaybackIInv'
            BY DEF playbackVars, PlaybackIInv, PlaybackTypeOK, LockHeld, OneOpenPlay, RowsStand, Fetched,
                   Synchronising
      <2> QED BY <2>1, <2>2, <2>3, PlaybackStep, LineStep
<1> QED BY <1>1, <1>2, PTL DEF Spec

\* However synchronisations, stops and failures interleave, a session has one open row.
THEOREM OneRowIsOpen == Spec => []OneOpenPlay
<1>1. PlaybackIInv => OneOpenPlay
      BY DEF PlaybackIInv
<1> QED BY <1>1, OperationsInvariant, PTL

\* A line that is offline was reported, whatever its address was meanwhile.
THEOREM OfflineIsReported == Spec => []LinesReported
<1>1. LineIInv => LinesReported
      BY DEF LineIInv
<1> QED BY <1>1, OperationsInvariant, PTL

-----------------------------------------------------------------------------
(* Automations. *)

Event == [kind : Kind \cup {TaskKind}, open : BOOLEAN]
Rule == [on : Triggers, enabled : BOOLEAN, cursor : Nat, ran : BOOLEAN, revision : Nat]
Known == UNION {[S -> Rule] : S \in SUBSET Automation}
Dealing == [phase : {"events", "act", "finish"}, rules : Known, at : Automation, as : Rule,
            left : SUBSET Nat, read : SUBSET Nat, open : SUBSET Nat]
Doing == {Resting} \cup [phase : {"rules"}, rules : Known] \cup Dealing

AutomationTypeOK ==
    /\ journal \in Seq(Event) /\ Len(journal) <= MaxEvents
    /\ automation \in [Automation -> {Unwritten, Deleted} \cup Rule]
    /\ runs \in [Automation -> [1..MaxEvents -> Nat]]
    /\ evaluation \in [Evaluator -> Doing]

\* What a rule has done about an event.
Handled(r, n) == runs[r][n] = 1 \/ <<r, n>> \in spared \cup overtaken

RunsOnce == \A r \in Automation, n \in 1..MaxEvents : runs[r][n] <= 1

\* Everything up to the cursor was handled, also what has not been committed yet.
Passed ==
    \A r \in Automation : Exists(r) =>
        /\ automation[r].cursor <= Len(journal)
        /\ \A n \in 1..automation[r].cursor : Handled(r, n)

\* A rule as it was read is behind the row, which may be deleted.
Stands(r, s) == automation[r] # Unwritten /\ (Exists(r) => s.cursor <= automation[r].cursor)

\* What a worker has read of the journal, and what it has done about it.
ReadsJournal(e) ==
    /\ e.left \subseteq e.read
    /\ \/ e.read = {0}
       \/ /\ e.read \subseteq DOMAIN journal
          /\ \A n \in e.read \ e.left : Handled(e.at, n)
          /\ \A n \in DOMAIN journal :
               n > e.as.cursor /\ (\E m \in e.read : n <= m) => n \in e.read \cup e.open
    /\ e.phase # "events" =>
         e.left # {} /\ (Oldest(e.left) # 0 => runs[e.at][Oldest(e.left)] = 1)

\* What is true of what a worker remembers.
Right(d) ==
    /\ d # Resting => \A r \in DOMAIN d.rules : Stands(r, d.rules[r])
    /\ d \in Dealing => Stands(d.at, d.as) /\ ReadsJournal(d)

Informed(w) == Right(evaluation[w])

AutomationIInv == AutomationTypeOK /\ RunsOnce /\ Passed /\ \A w \in Evaluator : Informed(w)

-----------------------------------------------------------------------------

\* A nonempty set of numbers has a least one, which is what Oldest picks.
LEMMA OldestOf ==
    ASSUME NEW S, S \subseteq Nat, S # {}
    PROVE  Oldest(S) \in S /\ \A m \in S : Oldest(S) <= m
<1> DEFINE R == OpToRel(<, Nat)
<1>1. IsWellFoundedOn(R, Nat)
      BY NatLessThanWellFounded
<1>2. \A a, b \in Nat : a < b => <<a, b>> \in R
      BY DEF OpToRel
<1> HIDE DEF R
<1>3. PICK i \in S : \A j \in S : ~ (<<j, i>> \in R)
      BY <1>1, WFMin
<1>4. \A j \in S : ~ (j < i)
      BY <1>2, <1>3
<1>5. \A j \in S : i <= j
      BY <1>4
<1> QED BY <1>3, <1>5 DEF Oldest

\* A nonempty set of numbers with a bound has a greatest one.
LEMMA GreatestOf ==
    ASSUME NEW L \in Nat, NEW S, S \subseteq 0..L, S # {}
    PROVE  Greatest(S) \in S /\ \A m \in S : m <= Greatest(S)
<1> DEFINE T == {L - n : n \in S}
           k == Oldest(T)
<1>1. T \subseteq Nat /\ T # {}
      <2>1. ASSUME NEW n \in S PROVE L - n \in Nat
            <3>1. n \in 0..L
                  OBVIOUS
            <3> QED BY <3>1
      <2> QED BY <2>1
<1>2. k \in T /\ \A m \in T : k <= m
      BY <1>1, OldestOf
<1>3. PICK n \in S : k = L - n
      BY <1>2
<1>4. ASSUME NEW m \in S PROVE m <= n
      <2>1. L - m \in T /\ m \in 0..L /\ n \in 0..L
            OBVIOUS
      <2> HIDE DEF T, k
      <2> QED BY <1>2, <1>3, <2>1
<1> QED BY <1>3, <1>4 DEF Greatest

\* What is read after a cursor are the oldest committed events: none is left out
\* that is older than one that is read.
LEMMA AfterReads ==
    ASSUME AutomationTypeOK, NEW c \in Nat
    PROVE  /\ After(c) \subseteq DOMAIN journal
           /\ \A n \in DOMAIN journal :
                n > c /\ Committed(n) /\ (\E m \in After(c) : n <= m) => n \in After(c)
<1> DEFINE shown == {n \in DOMAIN journal : n > c /\ Committed(n)}
           before(n) == {m \in shown : m < n}
<1>1. After(c) = {n \in shown : Cardinality(before(n)) < Chunk}
      BY DEF After
<1>2. DOMAIN journal = 1..Len(journal) /\ Len(journal) \in Nat
      BY DEF AutomationTypeOK
<1>3. IsFiniteSet(shown)
      <2>1. IsFiniteSet(DOMAIN journal) /\ shown \subseteq DOMAIN journal
            BY <1>2, FS_Interval
      <2> QED BY <2>1, FS_Subset
<1>4. ASSUME NEW n \in shown, NEW m \in After(c), n <= m PROVE n \in After(c)
      <2>1. m \in shown /\ before(n) \subseteq before(m) /\ before(m) \subseteq shown
            BY <1>1, <1>2, <1>4
      <2>2. IsFiniteSet(before(m)) /\ Cardinality(before(m)) \in Nat
            BY <1>3, <2>1, FS_Subset, FS_CardinalityType
      <2>3. Cardinality(before(n)) <= Cardinality(before(m)) /\ Cardinality(before(n)) \in Nat
            BY <2>1, <2>2, FS_Subset, FS_CardinalityType
      <2>4. Cardinality(before(m)) < Chunk /\ Chunk \in Nat
            BY <1>1, AutomationAssumption
      <2> HIDE DEF before, shown
      <2> QED BY <1>1, <2>2, <2>3, <2>4
<1> QED BY <1>1, <1>4

-----------------------------------------------------------------------------

\* Rules move forward until they are deleted, events and what was done about them stay.
Grows ==
    /\ \A r \in Automation : automation[r] # Unwritten =>
         /\ automation'[r] # Unwritten
         /\ Exists(r)' => Exists(r) /\ automation[r].cursor <= automation'[r].cursor
    /\ Len(journal) <= Len(journal')
    /\ \A r \in Automation, n \in 1..MaxEvents : runs[r][n] = 1 => runs'[r][n] = 1
    /\ spared \subseteq spared' /\ overtaken \subseteq overtaken'

LEMMA RowsExist == AutomationTypeOK => \A r \in Automation : Exists(r) <=> automation[r] \in Rule
<1> \A x \in Rule : x # Unwritten /\ x # Deleted
    BY AutomationAssumption DEF Rule, Triggers
<1> QED BY DEF AutomationTypeOK, Exists

\* What a worker remembers, by what it is doing.
LEMMA Remembered ==
    ASSUME AutomationTypeOK, NEW w \in Evaluator
    PROVE  /\ evaluation[w].phase \in {"events", "act", "finish"} => evaluation[w] \in Dealing
           /\ evaluation[w].phase # "rest" <=> evaluation[w] # Resting
           /\ evaluation[w] # Resting => evaluation[w].rules \in Known
           /\ evaluation[w] \in Dealing => evaluation[w].phase \in {"events", "act", "finish"}
<1>1. evaluation[w] \in {Resting} \cup [phase : {"rules"}, rules : Known] \cup Dealing
      BY DEF AutomationTypeOK, Doing
<1> QED BY <1>1 DEF Resting, Dealing

LEMMA KnownRules ==
    ASSUME NEW k \in Known
    PROVE  DOMAIN k \subseteq Automation /\ \A r \in DOMAIN k : k[r] \in Rule
BY DEF Known

\* The rest of the journal keeps to what a step adds.
LEMMA ReadingKept ==
    ASSUME AutomationTypeOK, AutomationTypeOK', Grows, NEW e \in Dealing
    PROVE  /\ Stands(e.at, e.as) => Stands(e.at, e.as)'
           /\ ReadsJournal(e) => ReadsJournal(e)'
<1> e.at \in Automation /\ e.as \in Rule /\ e.left \subseteq Nat /\ e.read \subseteq Nat
    BY DEF Dealing
<1>1. Stands(e.at, e.as) => Stands(e.at, e.as)'
      <2>1. e.as.cursor \in Nat
            BY DEF Rule
      <2>2. Exists(e.at) => automation[e.at].cursor \in Nat
            BY RowsExist DEF Rule
      <2>3. Exists(e.at)' => automation'[e.at] \in Rule
            BY AutomationAssumption DEF AutomationTypeOK, Exists, Rule, Triggers
      <2> QED BY <2>1, <2>2, <2>3 DEF Stands, Grows, Rule
<1>2. ASSUME ReadsJournal(e) PROVE ReadsJournal(e)'
      <2>1. /\ DOMAIN journal = 1..Len(journal) /\ DOMAIN journal' = 1..Len(journal')
            /\ Len(journal) \in Nat /\ Len(journal') \in Nat /\ Len(journal) <= Len(journal')
            /\ Len(journal) <= MaxEvents /\ MaxEvents \in Nat
            BY AutomationAssumption DEF AutomationTypeOK, Grows
      <2>2. \A n \in 1..MaxEvents : Handled(e.at, n) => Handled(e.at, n)'
            BY DEF Handled, Grows
      <2>3. e.phase # "events" => e.left # {} /\ (Oldest(e.left) # 0 => runs'[e.at][Oldest(e.left)] = 1)
            <3>1. ASSUME e.phase # "events", Oldest(e.left) # 0 PROVE runs'[e.at][Oldest(e.left)] = 1
                  <4>1. e.left # {} /\ runs[e.at][Oldest(e.left)] = 1 /\ e.left \subseteq e.read
                        BY <1>2, <3>1 DEF ReadsJournal
                  <4>2. Oldest(e.left) \in e.left
                        BY <4>1, OldestOf
                  <4>3. Oldest(e.left) \in 1..MaxEvents
                        BY <1>2, <2>1, <3>1, <4>1, <4>2 DEF ReadsJournal
                  <4> QED BY <4>1, <4>3 DEF Grows
            <3> QED BY <1>2, <3>1 DEF ReadsJournal
      <2>4. CASE e.read = {0}
            BY <1>2, <2>3, <2>4 DEF ReadsJournal
      <2>5. CASE e.read # {0}
            <3>1. /\ e.read \subseteq DOMAIN journal
                  /\ \A n \in e.read \ e.left : Handled(e.at, n)
                  /\ \A n \in DOMAIN journal :
                       n > e.as.cursor /\ (\E m \in e.read : n <= m) => n \in e.read \cup e.open
                  BY <1>2, <2>5 DEF ReadsJournal
            <3>2. e.read \subseteq DOMAIN journal' /\ \A n \in e.read \ e.left : Handled(e.at, n)'
                  BY <2>1, <2>2, <3>1
            <3>3. \A n \in DOMAIN journal' :
                       n > e.as.cursor /\ (\E m \in e.read : n <= m) => n \in e.read \cup e.open
                  BY <2>1, <3>1
            <3> QED BY <1>2, <2>3, <3>2, <3>3 DEF ReadsJournal
      <2> QED BY <2>4, <2>5
<1> QED BY <1>1, <1>2

\* What is right stays right, while rows grow.
LEMMA RightKept ==
    ASSUME AutomationTypeOK, AutomationTypeOK', Grows, NEW d \in Doing, Right(d)
    PROVE  Right(d)'
<1>1. ASSUME NEW r \in Automation, NEW s \in Rule, Stands(r, s)
      PROVE  automation'[r] # Unwritten /\ (Exists(r)' => s.cursor <= automation'[r].cursor)
      <2>1. s.cursor \in Nat /\ (Exists(r) => automation[r].cursor \in Nat)
            BY RowsExist DEF Rule
      <2>2. Exists(r)' => automation'[r] \in Rule
            BY DEF AutomationTypeOK, Exists
      <2> QED BY <1>1, <2>1, <2>2 DEF Stands, Grows, Rule
<1>2. d # Resting => d.rules \in Known
      BY DEF Doing, Dealing
<1>3. ASSUME d # Resting, NEW r \in DOMAIN d.rules
      PROVE  Stands(r, d.rules[r]) /\ r \in Automation /\ d.rules[r] \in Rule
      BY <1>2, <1>3, KnownRules DEF Right
<1>4. d # Resting => \A r \in DOMAIN d.rules : Stands(r, d.rules[r])'
      BY <1>1, <1>3 DEF Stands
<1>5. d \in Dealing => Stands(d.at, d.as)' /\ ReadsJournal(d)'
      BY ReadingKept DEF Right
<1> QED BY <1>4, <1>5 DEF Right

\* It is enough to look at the worker that moves and at the rules that advance.
LEMMA GrowsKept ==
    ASSUME AutomationIInv, AutomationTypeOK', RunsOnce', Grows,
           \A v \in Evaluator : evaluation'[v] = evaluation[v] \/ Informed(v)',
           \A r \in Automation : Exists(r)' =>
               \/ automation'[r].cursor = 0
               \/ Exists(r) /\ automation'[r].cursor = automation[r].cursor
               \/ /\ automation'[r].cursor <= Len(journal)
                  /\ \A n \in 1..automation'[r].cursor : Handled(r, n)'
    PROVE  AutomationIInv'
<1>1. ASSUME NEW v \in Evaluator, evaluation'[v] = evaluation[v] PROVE Informed(v)'
      <2>1. PICK d \in Doing : d = evaluation[v]
            BY DEF AutomationIInv, AutomationTypeOK
      <2>2. Right(d)
            BY <2>1 DEF AutomationIInv, Informed
      <2>3. Right(d)'
            BY <2>2, RightKept DEF AutomationIInv
      <2>4. d = evaluation'[v]
            BY <1>1, <2>1
      <2> QED BY <2>3, <2>4 DEF Informed
<1>2. ASSUME NEW r \in Automation, Exists(r)'
      PROVE  automation'[r].cursor <= Len(journal') /\ \A n \in 1..automation'[r].cursor : Handled(r, n)'
      <2>1. /\ Len(journal) \in Nat /\ Len(journal') \in Nat /\ Len(journal) <= Len(journal')
            /\ Len(journal) <= MaxEvents /\ MaxEvents \in Nat
            BY AutomationAssumption DEF AutomationIInv, AutomationTypeOK, Grows
      <2>2. Exists(r)' => automation'[r] \in Rule
            BY DEF AutomationTypeOK, Exists
      <2>3. automation'[r].cursor \in Nat
            BY <1>2, <2>2 DEF Rule
      <2>4. \A n \in 1..MaxEvents : Handled(r, n) => Handled(r, n)'
            BY DEF Handled, Grows
      <2>5. CASE automation'[r].cursor = 0
            BY <2>1, <2>5
      <2>6. CASE Exists(r) /\ automation'[r].cursor = automation[r].cursor
            <3>1. automation[r].cursor <= Len(journal) /\ \A n \in 1..automation[r].cursor : Handled(r, n)
                  BY <2>6 DEF AutomationIInv, Passed
            <3>2. \A n \in 1..automation'[r].cursor : n \in 1..MaxEvents
                  BY <2>1, <2>3, <2>6, <3>1
            <3>3. \A n \in 1..automation'[r].cursor : Handled(r, n)'
                  BY <2>4, <2>6, <3>1, <3>2
            <3> QED BY <2>1, <2>3, <2>6, <3>1, <3>3
      <2>7. CASE automation'[r].cursor <= Len(journal) /\ \A n \in 1..automation'[r].cursor : Handled(r, n)'
            BY <2>1, <2>3, <2>7
      <2> QED BY <1>2, <2>5, <2>6, <2>7
<1>3. Passed'
      BY <1>2 DEF Passed
<1>4. \A v \in Evaluator : Informed(v)'
      BY <1>1
<1> QED BY <1>3, <1>4 DEF AutomationIInv

\* A step that changes what one worker remembers and no rows.
LEMMA OneWorker ==
    ASSUME AutomationIInv, NEW w \in Evaluator, NEW d \in Doing, evaluation' = [evaluation EXCEPT ![w] = d],
           UNCHANGED <<journal, automation, runs>>, spared \subseteq spared', overtaken \subseteq overtaken'
    PROVE  AutomationTypeOK' /\ Grows /\ RunsOnce'
<1>1. AutomationTypeOK'
      BY DEF AutomationIInv, AutomationTypeOK
<1>2. Grows
      <2>1. \A r \in Automation : Exists(r) => automation[r].cursor \in Nat
            BY RowsExist DEF AutomationIInv, Rule
      <2>2. Len(journal) \in Nat
            BY DEF AutomationIInv, AutomationTypeOK
      <2> QED BY <2>1, <2>2 DEF Grows, Exists
<1> QED BY <1>1, <1>2 DEF AutomationIInv, RunsOnce

LEMMA WorkerStep ==
    ASSUME AutomationIInv, NEW w \in Evaluator, NEW d \in Doing, evaluation' = [evaluation EXCEPT ![w] = d],
           UNCHANGED <<journal, automation, runs>>, spared \subseteq spared', overtaken \subseteq overtaken',
           Right(d)'
    PROVE  AutomationIInv'
<1>1. evaluation'[w] = d /\ \A v \in Evaluator \ {w} : evaluation'[v] = evaluation[v]
      BY DEF AutomationIInv, AutomationTypeOK
<1>2. \A v \in Evaluator : evaluation'[v] = evaluation[v] \/ Informed(v)'
      BY <1>1 DEF Informed
<1>3. \A r \in Automation : Exists(r)' => Exists(r) /\ automation'[r].cursor = automation[r].cursor
      BY DEF Exists
<1> QED BY <1>2, <1>3, OneWorker, GrowsKept

\* A new event, or one that is committed at last.
LEMMA JournalStep ==
    ASSUME AutomationIInv, AddEvent \/ \E n \in DOMAIN journal : CommitEvent(n)
    PROVE  AutomationIInv'
<1>1. UNCHANGED <<automation, runs, evaluation, spared, overtaken>>
      BY DEF AddEvent, CommitEvent
<1>2. journal' \in Seq(Event) /\ Len(journal') <= MaxEvents /\ Len(journal) <= Len(journal') /\ Len(journal) \in Nat
      <2>0. journal \in Seq(Event) /\ Len(journal) <= MaxEvents /\ MaxEvents \in Nat
            BY AutomationAssumption DEF AutomationIInv, AutomationTypeOK
      <2>1. CASE AddEvent
            <3>1. PICK k \in Kind : journal' = Append(journal, [kind |-> k, open |-> TRUE])
                  BY <2>1 DEF AddEvent
            <3>2. [kind |-> k, open |-> TRUE] \in Event /\ Len(journal) < MaxEvents
                  BY <2>1 DEF AddEvent, Event
            <3> QED BY <2>0, <3>1, <3>2
      <2>2. CASE \E n \in DOMAIN journal : CommitEvent(n)
            <3>1. PICK n \in DOMAIN journal : journal' = [journal EXCEPT ![n].open = FALSE]
                  BY <2>2 DEF CommitEvent
            <3>2. journal[n] \in Event
                  BY <2>0, <3>1
            <3>3. PICK v \in Event : journal' = [journal EXCEPT ![n] = v]
                  <4>1. [journal[n] EXCEPT !.open = FALSE] \in Event
                        BY <3>2 DEF Event
                  <4> QED BY <3>1, <4>1
            <3> QED BY <2>0, <3>3
      <2> QED BY <2>1, <2>2
<1>3. AutomationTypeOK'
      BY <1>1, <1>2 DEF AutomationIInv, AutomationTypeOK
<1>4. Grows
      <2>1. \A r \in Automation : Exists(r) => automation[r].cursor \in Nat
            BY RowsExist DEF AutomationIInv, Rule
      <2> QED BY <1>1, <1>2, <2>1 DEF Grows, Exists
<1>5. RunsOnce'
      BY <1>1 DEF AutomationIInv, RunsOnce
<1>6. \A r \in Automation : Exists(r)' => Exists(r) /\ automation'[r].cursor = automation[r].cursor
      BY <1>1 DEF Exists
<1>7. \A v \in Evaluator : evaluation'[v] = evaluation[v]
      BY <1>1
<1> QED BY <1>3, <1>4, <1>5, <1>6, <1>7, GrowsKept

\* Rules are written, edited and deleted; none of that moves a cursor, and a rule that
\* is deleted does not come back.
LEMMA RuleStep ==
    ASSUME AutomationIInv, NEW r \in Automation,
           \/ CreateAutomation(r) \/ DeleteAutomation(r)
           \/ \E seen \in 1..MaxRevisions : UpdateAutomation(r, seen)
    PROVE  AutomationIInv'
<1>1. UNCHANGED <<journal, runs, evaluation, spared, overtaken>>
      BY DEF CreateAutomation, DeleteAutomation, UpdateAutomation
<1>2. /\ automation' \in [Automation -> {Unwritten, Deleted} \cup Rule]
      /\ \A q \in Automation \ {r} : automation'[q] = automation[q]
      /\ \/ automation[r] = Unwritten /\ automation'[r] \in Rule /\ automation'[r].cursor = 0
         \/ automation'[r] = Deleted
         \/ /\ automation[r] \in Rule /\ automation'[r] \in Rule
            /\ automation'[r].cursor = automation[r].cursor
      <2>0. automation \in [Automation -> {Unwritten, Deleted} \cup Rule]
            BY DEF AutomationIInv, AutomationTypeOK
      <2>1. CASE CreateAutomation(r)
            <3>1. PICK on \in Triggers : automation' = [automation EXCEPT ![r] =
                      [on |-> on, enabled |-> TRUE, cursor |-> 0, ran |-> FALSE, revision |-> 1]]
                  BY <2>1 DEF CreateAutomation
            <3>2. [on |-> on, enabled |-> TRUE, cursor |-> 0, ran |-> FALSE, revision |-> 1] \in Rule
                  BY DEF Rule
            <3> QED BY <2>0, <2>1, <3>1, <3>2 DEF CreateAutomation
      <2>2. CASE DeleteAutomation(r)
            BY <2>0, <2>2 DEF DeleteAutomation
      <2>3. CASE \E seen \in 1..MaxRevisions : UpdateAutomation(r, seen)
            <3>1. PICK seen \in 1..MaxRevisions, on \in Triggers, enabled \in BOOLEAN :
                      automation' = [automation EXCEPT ![r].on = on, ![r].enabled = enabled, ![r].revision = seen + 1]
                  BY <2>3 DEF UpdateAutomation
            <3>2. automation[r] \in Rule
                  BY <2>3, RowsExist DEF UpdateAutomation, AutomationIInv
            <3>3. seen + 1 \in Nat
                  BY AutomationAssumption
            <3>4. PICK v \in Rule : v.cursor = automation[r].cursor /\ automation' = [automation EXCEPT ![r] = v]
                  <4> DEFINE x == [[[automation[r] EXCEPT !.on = on] EXCEPT !.enabled = enabled]
                                        EXCEPT !.revision = seen + 1]
                  <4>1. x \in Rule /\ x.cursor = automation[r].cursor
                        BY <3>2, <3>3 DEF Rule
                  <4>2. automation' = [automation EXCEPT ![r] = x]
                        BY <2>0, <3>1, <3>2
                  <4> QED BY <4>1, <4>2
            <3> QED BY <2>0, <3>2, <3>4
      <2> QED BY <2>1, <2>2, <2>3
<1>3. AutomationTypeOK'
      BY <1>1, <1>2 DEF AutomationIInv, AutomationTypeOK
<1>4. /\ \A x \in Rule : x # Unwritten /\ x # Deleted /\ x.cursor \in Nat
      /\ Unwritten # Deleted
      BY AutomationAssumption DEF Rule, Triggers
<1>5. /\ \A q \in Automation : Exists(q) <=> automation[q] \in Rule
      /\ \A q \in Automation : Exists(q)' <=> automation'[q] \in Rule
      BY <1>2, <1>4, RowsExist DEF AutomationIInv, Exists
<1>6. Grows
      <2>1. Len(journal) \in Nat
            BY DEF AutomationIInv, AutomationTypeOK
      <2>2. \A q \in Automation : automation[q] # Unwritten =>
              automation'[q] # Unwritten /\ (Exists(q)' => Exists(q) /\ automation[q].cursor <= automation'[q].cursor)
            BY <1>2, <1>4, <1>5
      <2> QED BY <1>1, <2>1, <2>2 DEF Grows
<1>7. RunsOnce'
      BY <1>1 DEF AutomationIInv, RunsOnce
<1>8. \A q \in Automation : Exists(q)' =>
         \/ automation'[q].cursor = 0
         \/ Exists(q) /\ automation'[q].cursor = automation[q].cursor
      BY <1>2, <1>4, <1>5
<1>9. \A v \in Evaluator : evaluation'[v] = evaluation[v]
      BY <1>1
<1> QED BY <1>3, <1>6, <1>7, <1>8, <1>9, GrowsKept

-----------------------------------------------------------------------------

\* A worker that has dealt with an event leaves it behind.
DealsRightly(e) ==
    /\ AutomationTypeOK /\ Right(e) /\ e.left # {}
    /\ Oldest(e.left) # 0 => Handled(e.at, Oldest(e.left))
    => Right(Dealt(e))

LEMMA DealtTyped ==
    ASSUME NEW e \in Dealing
    PROVE  /\ Dealt(e) \in Dealing
           /\ Dealt(e).phase = "events" /\ Dealt(e).left = e.left \ {Oldest(e.left)}
           /\ Dealt(e).rules = e.rules /\ Dealt(e).at = e.at /\ Dealt(e).as = e.as
           /\ Dealt(e).read = e.read /\ Dealt(e).open = e.open
<1>1. Dealt(e) = [[e EXCEPT !.phase = "events"] EXCEPT !.left = e.left \ {Oldest(e.left)}]
      BY DEF Dealt, Dealing
<1>2. e.left \ {Oldest(e.left)} \in SUBSET Nat
      BY DEF Dealing
<1> QED BY <1>1, <1>2 DEF Dealing

AllDealRightly == \A e \in Dealing : DealsRightly(e)

LEMMA Deals == AllDealRightly
<1> SUFFICES ASSUME NEW e \in Dealing, AutomationTypeOK, Right(e), e.left # {},
                    Oldest(e.left) # 0 => Handled(e.at, Oldest(e.left))
             PROVE  Right(Dealt(e))
    BY DEF AllDealRightly, DealsRightly
<1>1. e # Resting /\ Stands(e.at, e.as) /\ ReadsJournal(e) /\ \A r \in DOMAIN e.rules : Stands(r, e.rules[r])
      BY DEF Right, Dealing, Resting
<1>2. PICK d \in Dealing :
        /\ d = Dealt(e) /\ d.phase = "events" /\ d.left = e.left \ {Oldest(e.left)}
        /\ d.rules = e.rules /\ d.at = e.at /\ d.as = e.as /\ d.read = e.read /\ d.open = e.open
      BY DealtTyped
<1>3. ReadsJournal(d)
      <2>1. d.left \subseteq d.read
            BY <1>1, <1>2 DEF ReadsJournal
      <2>2. CASE e.read = {0}
            BY <1>2, <2>1, <2>2 DEF ReadsJournal
      <2>3. CASE e.read # {0}
            <3>1. /\ e.read \subseteq DOMAIN journal
                  /\ \A n \in e.read \ e.left : Handled(e.at, n)
                  /\ \A n \in DOMAIN journal :
                       n > e.as.cursor /\ (\E m \in e.read : n <= m) => n \in e.read \cup e.open
                  BY <1>1, <2>3 DEF ReadsJournal
            <3>2. Handled(e.at, Oldest(e.left))
                  <4>1. Oldest(e.left) \in e.left /\ e.left \subseteq e.read
                        BY <1>1, OldestOf DEF Dealing, ReadsJournal
                  <4>2. 0 \notin DOMAIN journal
                        BY DEF AutomationTypeOK
                  <4> QED BY <3>1, <4>1, <4>2
            <3>3. \A n \in d.read \ d.left : Handled(d.at, n)
                  BY <1>2, <3>1, <3>2
            <3> QED BY <1>2, <2>1, <3>1, <3>3 DEF ReadsJournal
      <2> QED BY <2>2, <2>3
<1>4. Right(d)
      BY <1>1, <1>2, <1>3 DEF Right
<1> QED BY <1>2, <1>4

\* A worker that goes on from one event to the next, or stops.
LEMMA MovesOn ==
    ASSUME AutomationIInv, AutomationTypeOK', RunsOnce', Grows, NEW w \in Evaluator, evaluation[w] \in Dealing,
           evaluation[w].left # {},
           \/ /\ evaluation' = [evaluation EXCEPT ![w] = Dealt(evaluation[w])]
              /\ \A n, r : n # 0 /\ n = Current(w) /\ r = evaluation[w].at => Handled(r, n)'
           \/ evaluation' = [evaluation EXCEPT ![w] = Resting]
    PROVE  \A v \in Evaluator : evaluation'[v] = evaluation[v] \/ Informed(v)'
<1>1. evaluation \in [Evaluator -> Doing]
      BY DEF AutomationIInv, AutomationTypeOK
<1>2. CASE evaluation' = [evaluation EXCEPT ![w] = Resting]
      <2>1. Right(Resting)'
            BY DEF Right, Resting, Dealing
      <2> QED BY <1>1, <1>2, <2>1 DEF Informed
<1>3. CASE /\ evaluation' = [evaluation EXCEPT ![w] = Dealt(evaluation[w])]
           /\ \A n, r : n # 0 /\ n = Current(w) /\ r = evaluation[w].at => Handled(r, n)'
      <2>1. PICK e \in Dealing : e = evaluation[w]
            OBVIOUS
      <2>2. PICK d \in Dealing : d = Dealt(e)
            BY DealtTyped
      <2>3. d = evaluation'[w] /\ \A v \in Evaluator \ {w} : evaluation'[v] = evaluation[v]
            BY <1>1, <1>3, <2>1, <2>2
      <2>4. Right(e)
            BY <2>1 DEF AutomationIInv, Informed
      <2>5. Right(e)'
            BY <2>4, RightKept DEF AutomationIInv, Doing
      <2>6. e.left # {} /\ (Oldest(e.left) # 0 => Handled(e.at, Oldest(e.left))')
            <3>1. Current(w) = Oldest(e.left)
                  BY <2>1 DEF Current
            <3>2. PICK n, r : n = Oldest(e.left) /\ r = e.at
                  OBVIOUS
            <3>3. n # 0 => Handled(r, n)'
                  BY <1>3, <2>1, <3>1, <3>2
            <3> QED BY <2>1, <3>2, <3>3 DEF Handled
      <2>7. AllDealRightly'
            BY Deals, PTL
      <2>8. Right(d)'
            BY <2>2, <2>5, <2>6, <2>7 DEF AllDealRightly, DealsRightly
      <2> QED BY <2>3, <2>8 DEF Informed
<1> QED BY <1>2, <1>3

\* Rows that are read are the rows.
LEMMA EvaluateAllStep == ASSUME AutomationIInv, NEW w \in Evaluator, EvaluateAll(w) PROVE AutomationIInv'
<1> DEFINE enabled == {q \in Automation : Exists(q) /\ automation[q].enabled}
           known == [r \in enabled |-> automation[r]]
<1>1. known \in Known
      <2>1. \A r \in enabled : automation[r] \in Rule
            BY RowsExist DEF AutomationIInv
      <2>2. known \in [enabled -> Rule] /\ enabled \in SUBSET Automation
            BY <2>1
      <2> HIDE DEF known, enabled
      <2> QED BY <2>2 DEF Known
<1>2. PICK d : d = [phase |-> "rules", rules |-> known]
      OBVIOUS
<1>3. d \in Doing /\ d \notin Dealing /\ d.rules = known
      BY <1>1, <1>2 DEF Doing, Dealing
<1>4. evaluation' = [evaluation EXCEPT ![w] = d] /\ UNCHANGED <<journal, automation, runs, spared, overtaken>>
      BY <1>2 DEF EvaluateAll
<1>5. \A r \in enabled : Stands(r, known[r])
      <2>1. \A r \in enabled : Exists(r) /\ automation[r] \in Rule
            BY RowsExist DEF AutomationIInv
      <2> QED BY <2>1 DEF Stands, Exists, Rule
<1>6. Right(d)
      BY <1>3, <1>5 DEF Right
<1>7. Right(d)'
      BY <1>3, <1>4, <1>6, OneWorker, RightKept DEF AutomationIInv
<1> QED BY <1>3, <1>4, <1>7, WorkerStep

\* What is read after the cursor is all there is to see, and what is not to be seen is
\* remembered.
LEMMA TakesRuleStep ==
    ASSUME AutomationIInv, NEW w \in Evaluator, NEW r \in Automation, TakesRule(w, r)
    PROVE  AutomationIInv'
<1>0. AutomationTypeOK
      BY DEF AutomationIInv
<1>1. PICK e \in Doing : e = evaluation[w]
      BY <1>0 DEF AutomationTypeOK
<1>2. e.phase = "rules" /\ e # Resting /\ e.rules \in Known /\ r \in DOMAIN e.rules /\ Right(e)
      <2>1. e.phase = "rules" /\ r \in DOMAIN e.rules /\ Right(e)
            BY <1>1 DEF TakesRule, AutomationIInv, Informed
      <2> QED BY <2>1 DEF Doing, Dealing, Resting
<1>3. PICK s \in Rule : s = e.rules[r] /\ Stands(r, s)
      BY <1>2, KnownRules DEF Right
<1>4. PICK others \in Known : /\ others = [q \in DOMAIN e.rules \ {r} |-> e.rules[q]]
                              /\ \A q \in DOMAIN others : Stands(q, others[q])
      <2> DEFINE D == DOMAIN e.rules \ {r}
                 f == [q \in D |-> e.rules[q]]
      <2>1. D \subseteq Automation /\ \A q \in D : e.rules[q] \in Rule /\ Stands(q, e.rules[q])
            BY <1>2, KnownRules DEF Right
      <2>2. f \in [D -> Rule]
            BY <2>1
      <2>3. DOMAIN f = D /\ \A q \in D : f[q] = e.rules[q]
            OBVIOUS
      <2>4. f \in Known
            <3> HIDE DEF f, D
            <3> QED BY <2>1, <2>2 DEF Known
      <2> QED BY <2>1, <2>3, <2>4
<1>5. UNCHANGED <<journal, automation, runs, spared, overtaken>>
      BY DEF TakesRule
<1>6. ASSUME NEW d \in Doing, evaluation' = [evaluation EXCEPT ![w] = d], Right(d) PROVE AutomationIInv'
      <2>1. Right(d)'
            BY <1>5, <1>6, OneWorker, RightKept DEF AutomationIInv
      <2> QED BY <1>5, <1>6, <2>1, WorkerStep
<1>7. CASE evaluation' = [evaluation EXCEPT ![w] = Resting]
      <2>1. Resting \in Doing /\ Right(Resting)
            BY DEF Doing, Right, Resting, Dealing
      <2> QED BY <1>6, <1>7, <2>1
<1>8. CASE evaluation' = [evaluation EXCEPT ![w].rules = others]
      <2>1. e \in [phase : {"rules"}, rules : Known]
            BY <1>2 DEF Doing, Dealing, Resting
      <2>2. PICK d : d = [e EXCEPT !.rules = others]
            OBVIOUS
      <2>3. d \in Doing /\ d \notin Dealing /\ d.rules = others
            BY <2>1, <2>2 DEF Doing, Dealing
      <2>4. evaluation' = [evaluation EXCEPT ![w] = d]
            BY <1>1, <1>8, <2>2
      <2>5. Right(d)
            BY <1>4, <2>3 DEF Right
      <2> QED BY <1>6, <2>3, <2>4, <2>5
<1> DEFINE Evaluating(events) == [phase |-> "events", rules |-> others, at |-> r, as |-> s, left |-> events, read |-> events,
                          open |-> {n \in DOMAIN journal : journal[n].open /\ \E m \in events : n < m}]
           All(events) ==
             \/ events = {0}
             \/ /\ events \subseteq DOMAIN journal
                /\ \A n \in DOMAIN journal :
                     n > s.cursor /\ Committed(n) /\ (\E m \in events : n <= m) => n \in events
<1>9. ASSUME NEW events \in SUBSET Nat,
             All(events),
             evaluation' = [evaluation EXCEPT ![w] = Evaluating(events)]
      PROVE  AutomationIInv'
      <2>0. PICK o : o = {n \in DOMAIN journal : journal[n].open /\ \E m \in events : n < m}
            OBVIOUS
      <2>1. DOMAIN journal \subseteq Nat /\ o \in SUBSET Nat
            BY <1>0, <2>0 DEF AutomationTypeOK
      <2>2. PICK d : d = [phase |-> "events", rules |-> others, at |-> r, as |-> s, left |-> events,
                          read |-> events, open |-> o]
            OBVIOUS
      <2>3. /\ d \in Dealing /\ d.phase = "events" /\ d.rules = others /\ d.at = r /\ d.as = s
            /\ d.left = events /\ d.read = events /\ d.open = o
            BY <2>1, <2>2 DEF Dealing
      <2>4. ReadsJournal(d)
            <3>1. CASE events = {0}
                  BY <2>3, <3>1 DEF ReadsJournal
            <3>2. CASE /\ events \subseteq DOMAIN journal
                       /\ \A n \in DOMAIN journal :
                            n > s.cursor /\ Committed(n) /\ (\E m \in events : n <= m) => n \in events
                  <4>1. ASSUME NEW n \in DOMAIN journal, n > s.cursor, NEW m \in events, n <= m
                        PROVE  n \in events \cup o
                        <5>1. CASE Committed(n)
                              BY <3>2, <4>1, <5>1
                        <5>2. CASE n = m
                              BY <5>2
                        <5>3. CASE ~Committed(n) /\ n # m
                              <6>1. n < m
                                    BY <2>1, <4>1, <5>3
                              <6> QED BY <2>0, <5>3, <6>1 DEF Committed
                        <5> QED BY <5>1, <5>2, <5>3
                  <4> QED BY <2>3, <3>2, <4>1 DEF ReadsJournal
            <3> QED BY <1>9, <3>1, <3>2
      <2>5. Right(d)
            BY <1>3, <1>4, <2>3, <2>4 DEF Right
      <2>6. d = Evaluating(events)
            BY <2>0, <2>2
      <2> QED BY <1>6, <1>9, <2>3, <2>5, <2>6 DEF Doing
<1>10. CASE evaluation' = [evaluation EXCEPT ![w] = Evaluating(After(s.cursor))]
      <2>1. PICK events : events = After(s.cursor)
            OBVIOUS
      <2>2. /\ events \subseteq DOMAIN journal
            /\ \A n \in DOMAIN journal :
                 n > s.cursor /\ Committed(n) /\ (\E m \in events : n <= m) => n \in events
            BY <1>0, <2>1, AfterReads DEF Rule
      <2>3. DOMAIN journal \subseteq Nat
            BY <1>0 DEF AutomationTypeOK
      <2>4. events \in SUBSET Nat
            BY <2>2, <2>3
      <2>5. All(events)
            BY <2>2
      <2>6. evaluation' = [evaluation EXCEPT ![w] = Evaluating(events)]
            BY <1>10, <2>1
      <2> HIDE DEF Evaluating, All
      <2> QED BY <1>9, <2>4, <2>5, <2>6
<1>11. CASE evaluation' = [evaluation EXCEPT ![w] = Evaluating({0})]
      <2>1. {0} \in SUBSET Nat /\ All({0})
            OBVIOUS
      <2> HIDE DEF Evaluating, All
      <2> QED BY <1>9, <1>11, <2>1
<1> QED
      <2>1. \/ evaluation' = [evaluation EXCEPT ![w] = Resting]
            \/ evaluation' = [evaluation EXCEPT ![w] = Evaluating(After(s.cursor))]
            \/ evaluation' = [evaluation EXCEPT ![w] = Evaluating({0})]
            \/ evaluation' = [evaluation EXCEPT ![w].rules = others]
            BY <1>1, <1>3, <1>4, ZenonT(60) DEF TakesRule
      <2> QED BY <1>7, <1>8, <1>10, <1>11, <2>1

\* An event that does not match, or comes while the rule is cooling, is left alone, which
\* is remembered.
LEMMA SparesStep == ASSUME AutomationIInv, NEW w \in Evaluator, Spares(w) PROVE AutomationIInv'
<1>1. /\ evaluation[w] \in Dealing /\ evaluation[w].left # {} /\ AutomationTypeOK
      /\ evaluation' = [evaluation EXCEPT ![w] = Dealt(evaluation[w])]
      /\ UNCHANGED <<journal, automation, runs, overtaken>> /\ spared \subseteq spared'
      BY Remembered DEF Spares, Looking, AutomationIInv
<1>2. PICK d \in Dealing : d = Dealt(evaluation[w])
      BY <1>1, DealtTyped
<1>3. AutomationTypeOK' /\ Grows /\ RunsOnce'
      BY <1>1, <1>2, OneWorker DEF Doing
<1>4. \A n, r : n # 0 /\ n = Current(w) /\ r = evaluation[w].at => Handled(r, n)'
      BY DEF Spares, Handled
<1>5. \A v \in Evaluator : evaluation'[v] = evaluation[v] \/ Informed(v)'
      BY <1>1, <1>3, <1>4, MovesOn
<1>6. \A r \in Automation : Exists(r)' => Exists(r) /\ automation'[r].cursor = automation[r].cursor
      BY <1>1 DEF Exists
<1> QED BY <1>3, <1>5, <1>6, GrowsKept

\* A step of a worker that leaves rules and the journal as they are, but adds a run.
LEMMA ReservesStep == ASSUME AutomationIInv, NEW w \in Evaluator, Reserves(w) PROVE AutomationIInv'
<1>1. PICK e \in Dealing : e = evaluation[w] /\ Right(e) /\ e.left # {} /\ e.phase = "events"
      BY Remembered DEF Reserves, Looking, AutomationIInv, Informed
<1>2. PICK r \in Automation, n \in Nat : /\ r = e.at /\ n = Oldest(e.left) /\ n \in e.left /\ n = Current(w)
                                         /\ e.left \subseteq e.read
      BY <1>1, OldestOf DEF Dealing, Current, Right, ReadsJournal
<1>3. n # 0 => n \in 1..MaxEvents
      <2>1. Len(journal) \in Nat /\ Len(journal) <= MaxEvents /\ MaxEvents \in Nat /\ DOMAIN journal = 1..Len(journal)
            BY AutomationAssumption DEF AutomationIInv, AutomationTypeOK
      <2>2. e.read = {0} \/ e.read \subseteq DOMAIN journal
            BY <1>1 DEF Right, ReadsJournal
      <2> QED BY <1>2, <2>1, <2>2
<1>4. UNCHANGED <<journal, automation, spared, overtaken>>
      BY DEF Reserves
<1>5. /\ evaluation \in [Evaluator -> Doing] /\ AutomationTypeOK /\ runs \in [Automation -> [1..MaxEvents -> Nat]]
      /\ RunsOnce
      BY DEF AutomationIInv, AutomationTypeOK
<1>6. \A q \in Automation : Exists(q)' => Exists(q) /\ automation'[q].cursor = automation[q].cursor
      BY <1>4 DEF Exists
<1>7. ASSUME Unreserved(r, n),
             runs' = IF n = 0 THEN runs ELSE [runs EXCEPT ![r][n] = runs[r][n] + 1],
             evaluation' = [evaluation EXCEPT ![w].phase = "act"]
      PROVE  AutomationIInv'
      <2>1. PICK d \in Dealing : /\ evaluation' = [evaluation EXCEPT ![w] = d]
                                 /\ d.phase = "act" /\ d.left = e.left /\ d.read = e.read /\ d.open = e.open
                                 /\ d.rules = e.rules /\ d.at = e.at /\ d.as = e.as
            <3>1. PICK d : d = [e EXCEPT !.phase = "act"]
                  OBVIOUS
            <3>2. /\ d \in Dealing /\ d.phase = "act" /\ d.left = e.left /\ d.read = e.read /\ d.open = e.open
                  /\ d.rules = e.rules /\ d.at = e.at /\ d.as = e.as
                  BY <3>1 DEF Dealing
            <3>3. evaluation' = [evaluation EXCEPT ![w] = d]
                  BY <1>1, <1>7, <3>1
            <3> QED BY <3>2, <3>3
      <2>2. /\ runs' \in [Automation -> [1..MaxEvents -> Nat]] /\ RunsOnce'
            /\ n # 0 => runs'[r][n] = 1
            /\ \A q \in Automation, m \in 1..MaxEvents : runs[q][m] = 1 => runs'[q][m] = 1
            <3>1. CASE n = 0
                  BY <1>5, <1>7, <3>1 DEF RunsOnce
            <3>2. CASE n # 0
                  <4>1. runs[r][n] = 0
                        BY <1>7, <3>2 DEF Unreserved
                  <4>2. runs' = [runs EXCEPT ![r][n] = 1]
                        BY <1>7, <3>2, <4>1
                  <4>3. /\ runs' \in [Automation -> [1..MaxEvents -> Nat]]
                        /\ \A q \in Automation, m \in 1..MaxEvents :
                             runs'[q][m] = IF q = r /\ m = n THEN 1 ELSE runs[q][m]
                        BY <1>3, <1>5, <3>2, <4>2
                  <4>4. \A q \in Automation, m \in 1..MaxEvents : runs[q][m] <= 1
                        BY <1>5 DEF RunsOnce
                  <4>5. \A q \in Automation, m \in 1..MaxEvents : runs'[q][m] <= 1
                        BY <4>3, <4>4
                  <4> QED BY <1>3, <3>2, <4>3, <4>5 DEF RunsOnce
            <3> QED BY <3>1, <3>2
      <2>3. AutomationTypeOK'
            BY <1>4, <1>5, <2>1, <2>2 DEF AutomationTypeOK, Doing
      <2>4. Grows
            <3>1. \A q \in Automation : Exists(q) => automation[q].cursor \in Nat
                  BY <1>5, RowsExist DEF Rule
            <3>2. Len(journal) \in Nat
                  BY <1>5 DEF AutomationTypeOK
            <3> QED BY <1>4, <2>2, <3>1, <3>2 DEF Grows, Exists
      <2>5. Right(e)'
            BY <1>1, <1>5, <2>3, <2>4, RightKept DEF Doing
      <2>6. e # Resting /\ d # Resting
            BY DEF Dealing, Resting
      <2>7. Right(d)'
            <3>1. ReadsJournal(e)' /\ Stands(e.at, e.as)' /\ \A q \in DOMAIN e.rules : Stands(q, e.rules[q])'
                  BY <2>5, <2>6 DEF Right
            <3>2. Stands(d.at, d.as)' /\ \A q \in DOMAIN d.rules : Stands(q, d.rules[q])'
                  BY <2>1, <3>1 DEF Stands
            <3>3. ReadsJournal(d)'
                  BY <1>1, <1>2, <2>1, <2>2, <3>1 DEF ReadsJournal, Handled
            <3> QED BY <3>2, <3>3 DEF Right
      <2>8. \A v \in Evaluator : evaluation'[v] = evaluation[v] \/ Informed(v)'
            BY <1>5, <2>1, <2>7 DEF Informed
      <2> QED BY <1>6, <2>2, <2>3, <2>4, <2>8, GrowsKept
<1>8. ASSUME ~Unreserved(r, n), UNCHANGED runs, evaluation' = [evaluation EXCEPT ![w] = Dealt(evaluation[w])]
      PROVE  AutomationIInv'
      <2>1. PICK d \in Dealing : d = Dealt(evaluation[w])
            BY <1>1, DealtTyped
      <2>2. AutomationTypeOK' /\ Grows /\ RunsOnce'
            BY <1>4, <1>8, <2>1, OneWorker DEF Doing
      <2>3. n # 0 /\ runs[r][n] = 1
            <3>1. n # 0 /\ runs[r][n] # 0 /\ n \in 1..MaxEvents
                  BY <1>3, <1>8 DEF Unreserved
            <3>2. runs[r][n] \in Nat /\ runs[r][n] <= 1
                  BY <1>5, <3>1 DEF RunsOnce
            <3> QED BY <3>1, <3>2
      <2>4. \A m, q : m # 0 /\ m = Current(w) /\ q = evaluation[w].at => Handled(q, m)'
            BY <1>1, <1>2, <1>8, <2>3 DEF Handled
      <2>5. \A v \in Evaluator : evaluation'[v] = evaluation[v] \/ Informed(v)'
            BY <1>1, <1>8, <2>2, <2>4, MovesOn
      <2> QED BY <1>6, <2>2, <2>5, GrowsKept
<1> QED
      <2>1. evaluation[w].at = r /\ Current(w) = n
            BY <1>1, <1>2
      <2> QED BY <1>7, <1>8, <2>1 DEF Reserves

\* The action of a run may add an event of its own to the journal.
LEMMA ActsStep == ASSUME AutomationIInv, NEW w \in Evaluator, Acts(w) PROVE AutomationIInv'
<1>1. PICK e \in Dealing : e = evaluation[w] /\ Right(e) /\ e.phase = "act"
      BY Remembered DEF Acts, AutomationIInv, Informed
<1>2. UNCHANGED <<automation, runs, spared, overtaken>>
      BY DEF Acts
<1>3. /\ evaluation \in [Evaluator -> Doing] /\ AutomationTypeOK
      /\ journal \in Seq(Event) /\ Len(journal) <= MaxEvents /\ MaxEvents \in Nat
      BY AutomationAssumption DEF AutomationIInv, AutomationTypeOK
<1>4. journal' \in Seq(Event) /\ Len(journal') <= MaxEvents /\ Len(journal) <= Len(journal') /\ Len(journal) \in Nat
      <2>1. CASE UNCHANGED journal
            BY <1>3, <2>1
      <2>2. CASE Len(journal) < MaxEvents /\ journal' = Append(journal, [kind |-> TaskKind, open |-> FALSE])
            <3>1. [kind |-> TaskKind, open |-> FALSE] \in Event
                  BY DEF Event
            <3> QED BY <1>3, <2>2, <3>1
      <2> QED BY <2>1, <2>2 DEF Acts
<1>5. PICK d \in Dealing : /\ evaluation' = [evaluation EXCEPT ![w] = d]
                           /\ d.phase = "finish" /\ d.left = e.left /\ d.read = e.read /\ d.open = e.open
                           /\ d.rules = e.rules /\ d.at = e.at /\ d.as = e.as
      <2>1. PICK d : d = [e EXCEPT !.phase = "finish"]
            OBVIOUS
      <2>2. /\ d \in Dealing /\ d.phase = "finish" /\ d.left = e.left /\ d.read = e.read /\ d.open = e.open
            /\ d.rules = e.rules /\ d.at = e.at /\ d.as = e.as
            BY <2>1 DEF Dealing
      <2>3. evaluation' = [evaluation EXCEPT ![w] = d]
            BY <1>1, <2>1 DEF Acts
      <2> QED BY <2>2, <2>3
<1>6. AutomationTypeOK'
      BY <1>2, <1>3, <1>4, <1>5 DEF AutomationTypeOK, Doing
<1>7. Grows
      <2>1. \A q \in Automation : Exists(q) => automation[q].cursor \in Nat
            BY <1>3, RowsExist DEF Rule
      <2> QED BY <1>2, <1>4, <2>1 DEF Grows, Exists
<1>8. RunsOnce'
      BY <1>2 DEF AutomationIInv, RunsOnce
<1>9. Right(e)'
      BY <1>1, <1>3, <1>6, <1>7, RightKept DEF Doing
<1>10. Right(d)'
      <2>1. e # Resting
            BY DEF Dealing, Resting
      <2>2. ReadsJournal(e)' /\ Stands(e.at, e.as)' /\ \A q \in DOMAIN e.rules : Stands(q, e.rules[q])'
            BY <1>9, <2>1 DEF Right
      <2>3. Stands(d.at, d.as)' /\ \A q \in DOMAIN d.rules : Stands(q, d.rules[q])'
            BY <1>5, <2>2 DEF Stands
      <2>4. ReadsJournal(d)'
            BY <1>1, <1>5, <2>2 DEF ReadsJournal, Handled
      <2> QED BY <2>3, <2>4 DEF Right
<1>11. \A v \in Evaluator : evaluation'[v] = evaluation[v] \/ Informed(v)'
      BY <1>3, <1>5, <1>10 DEF Informed
<1>12. \A q \in Automation : Exists(q)' => Exists(q) /\ automation'[q].cursor = automation[q].cursor
      BY <1>2 DEF Exists
<1> QED BY <1>6, <1>7, <1>8, <1>11, <1>12, GrowsKept

\* Once a run is over its event has been handled; a rule that was deleted ends it all.
LEMMA FinishesStep == ASSUME AutomationIInv, NEW w \in Evaluator, Finishes(w) PROVE AutomationIInv'
<1>1. PICK e \in Dealing : /\ e = evaluation[w] /\ Right(e) /\ e.phase = "finish" /\ e.left # {}
                           /\ Oldest(e.left) # 0 => runs[e.at][Oldest(e.left)] = 1
      <2>1. evaluation[w] \in Dealing /\ evaluation[w].phase = "finish" /\ Right(evaluation[w])
            BY Remembered DEF Finishes, AutomationIInv, Informed
      <2> QED BY <2>1 DEF Right, ReadsJournal
<1>2. PICK r \in Automation, d \in Dealing : r = e.at /\ d = Dealt(e)
      BY DealtTyped DEF Dealing
<1>3. UNCHANGED <<journal, runs, spared, overtaken>>
      BY DEF Finishes
<1>4. /\ evaluation \in [Evaluator -> Doing] /\ AutomationTypeOK
      /\ automation \in [Automation -> {Unwritten, Deleted} \cup Rule]
      BY DEF AutomationIInv, AutomationTypeOK
<1>5. /\ automation' \in [Automation -> {Unwritten, Deleted} \cup Rule]
      /\ \A q \in Automation \ {r} : automation'[q] = automation[q]
      /\ \/ automation'[r] = automation[r]
         \/ automation[r] \in Rule /\ automation'[r] \in Rule /\ automation'[r].cursor = automation[r].cursor
      <2>1. CASE UNCHANGED automation
            BY <1>4, <2>1
      <2>2. CASE Exists(r) /\ automation' = [automation EXCEPT ![r].ran = TRUE]
            <3>1. automation[r] \in Rule
                  BY <1>4, <2>2, RowsExist
            <3>2. PICK v : v = [automation[r] EXCEPT !.ran = TRUE]
                  OBVIOUS
            <3>3. v \in Rule /\ v.cursor = automation[r].cursor
                  BY <3>1, <3>2 DEF Rule
            <3>4. automation' = [automation EXCEPT ![r] = v]
                  BY <2>2, <3>2
            <3> QED BY <1>4, <3>1, <3>3, <3>4
      <2> QED BY <1>1, <1>2, <2>1, <2>2 DEF Finishes
<1>6. \/ evaluation' = [evaluation EXCEPT ![w] = Dealt(evaluation[w])]
      \/ evaluation' = [evaluation EXCEPT ![w] = Resting]
      BY DEF Finishes
<1>7. evaluation' \in [Evaluator -> Doing]
      BY <1>1, <1>2, <1>4, <1>6 DEF Doing
<1>8. AutomationTypeOK'
      BY <1>3, <1>4, <1>5, <1>7 DEF AutomationTypeOK
<1>9. \A q \in Automation : /\ Exists(q)' <=> Exists(q)
                            /\ automation[q] # Unwritten => automation'[q] # Unwritten
                            /\ Exists(q) => /\ automation'[q].cursor = automation[q].cursor
                                            /\ automation[q].cursor \in Nat
      <2>1. \A x \in Rule : x # Unwritten /\ x # Deleted /\ x.cursor \in Nat
            BY AutomationAssumption DEF Rule, Triggers
      <2> QED BY <1>4, <1>5, <2>1 DEF Exists
<1>10. Grows
      <2>1. Len(journal) \in Nat
            BY <1>4 DEF AutomationTypeOK
      <2> QED BY <1>3, <1>9, <2>1 DEF Grows
<1>11. RunsOnce'
      BY <1>3 DEF AutomationIInv, RunsOnce
<1>12. \A n, q : n # 0 /\ n = Current(w) /\ q = evaluation[w].at => Handled(q, n)'
      BY <1>1, <1>3 DEF Handled, Current
<1>13. \A v \in Evaluator : evaluation'[v] = evaluation[v] \/ Informed(v)'
      BY <1>1, <1>6, <1>8, <1>10, <1>11, <1>12, MovesOn
<1> QED BY <1>8, <1>9, <1>10, <1>11, <1>13, GrowsKept

\* What is between the old cursor of a rule and the new one was read and handled, or was
\* not to be seen yet.
LEMMA AdvancesStep == ASSUME AutomationIInv, NEW w \in Evaluator, Advances(w) PROVE AutomationIInv'
<1>1. PICK e \in Dealing : e = evaluation[w] /\ Right(e) /\ e.phase = "events" /\ e.left = {}
      BY Remembered DEF Advances, AutomationIInv, Informed
<1>2. PICK r \in Automation : r = e.at
      BY DEF Dealing
<1>3. UNCHANGED <<journal, runs, spared>>
      BY DEF Advances
<1>4. /\ evaluation \in [Evaluator -> Doing] /\ AutomationTypeOK
      /\ automation \in [Automation -> {Unwritten, Deleted} \cup Rule]
      /\ Len(journal) \in Nat /\ DOMAIN journal = 1..Len(journal) /\ Len(journal) <= MaxEvents /\ MaxEvents \in Nat
      BY AutomationAssumption DEF AutomationIInv, AutomationTypeOK
<1>5. Stands(r, e.as) /\ ReadsJournal(e) /\ e.as.cursor \in Nat /\ e # Resting /\ e.rules \in Known
      /\ \A q \in DOMAIN e.rules : Stands(q, e.rules[q])
      BY <1>1, <1>2 DEF Right, Dealing, Rule, Resting
<1>6. PICK d : d = [phase |-> "rules", rules |-> e.rules]
      OBVIOUS
<1>7. d \in Doing /\ d \notin Dealing /\ d # Resting /\ d.rules = e.rules
      BY <1>5, <1>6 DEF Doing, Dealing, Resting
<1>8. evaluation' = [evaluation EXCEPT ![w] = d]
      BY <1>1, <1>6 DEF Advances
<1>9. ASSUME UNCHANGED <<automation, overtaken>> PROVE AutomationIInv'
      <2>1. Right(d)
            BY <1>5, <1>7 DEF Right
      <2>2. Right(d)'
            BY <1>3, <1>4, <1>7, <1>8, <1>9, <2>1, OneWorker, RightKept
      <2> QED BY <1>3, <1>7, <1>8, <1>9, <2>2, WorkerStep
<1>10. ASSUME Exists(r), e.read # {}, e.read # {0},
              automation' = [automation EXCEPT ![r].cursor = NewCursor(automation[r].cursor, e.read)],
              overtaken' = overtaken \union {<<r, n>> : n \in e.open}
       PROVE  AutomationIInv'
      <2>1. PICK c \in Nat, v \in Rule : c = automation[r].cursor /\ v = automation[r]
            BY <1>4, <1>10, RowsExist DEF Rule
      <2>2. c <= Len(journal) /\ \A n \in 1..c : Handled(r, n)
            BY <1>10, <2>1 DEF AutomationIInv, Passed
      <2>3. /\ e.read \subseteq DOMAIN journal
            /\ \A n \in e.read : Handled(r, n)
            /\ \A n \in DOMAIN journal :
                 n > e.as.cursor /\ (\E m \in e.read : n <= m) => n \in e.read \cup e.open
            BY <1>1, <1>2, <1>5, <1>10 DEF ReadsJournal
      <2>4. PICK x \in Nat : /\ x = NewCursor(c, e.read) /\ x \in e.read \union {c}
                             /\ c <= x /\ x <= Len(journal)
            <3>1. e.read \union {c} \subseteq 0..Len(journal) /\ e.read \union {c} # {}
                  BY <1>4, <2>2, <2>3
            <3>2. /\ Greatest(e.read \union {c}) \in e.read \union {c}
                  /\ \A m \in e.read \union {c} : m <= Greatest(e.read \union {c})
                  BY <1>4, <3>1, GreatestOf
            <3>3. PICK g \in e.read \union {c} : g = NewCursor(c, e.read) /\ \A m \in e.read \union {c} : m <= g
                  BY <3>2 DEF NewCursor
            <3>4. g \in Nat /\ g <= Len(journal) /\ c <= g
                  BY <1>4, <3>1, <3>3
            <3> QED BY <3>3, <3>4
      <2>5. PICK y \in Rule : y.cursor = x /\ automation' = [automation EXCEPT ![r] = y]
            <3>1. PICK y : y = [v EXCEPT !.cursor = x]
                  OBVIOUS
            <3>2. y \in Rule /\ y.cursor = x
                  BY <3>1 DEF Rule
            <3>3. automation' = [automation EXCEPT ![r] = y]
                  BY <1>10, <2>1, <2>4, <3>1
            <3> QED BY <3>2, <3>3
      <2>6. /\ automation' \in [Automation -> {Unwritten, Deleted} \cup Rule] /\ automation'[r] = y
            /\ \A q \in Automation \ {r} : automation'[q] = automation[q]
            BY <1>4, <2>5
      <2>7. AutomationTypeOK'
            BY <1>3, <1>4, <1>7, <1>8, <2>6 DEF AutomationTypeOK
      <2>8. \A z \in Rule : z # Unwritten /\ z # Deleted /\ z.cursor \in Nat
            BY AutomationAssumption DEF Rule, Triggers
      <2>9. /\ Exists(r)' /\ automation'[r] # Unwritten /\ automation'[r].cursor = x
            /\ \A q \in Automation \ {r} :
                 /\ Exists(q)' <=> Exists(q)
                 /\ automation[q] # Unwritten => automation'[q] # Unwritten
                 /\ Exists(q) => automation'[q].cursor = automation[q].cursor /\ automation[q].cursor \in Nat
            BY <1>4, <2>5, <2>6, <2>8 DEF Exists
      <2>10. Grows
            <3>1. spared \subseteq spared' /\ overtaken \subseteq overtaken' /\ Len(journal) <= Len(journal')
                  BY <1>3, <1>4, <1>10
            <3>2. \A q \in Automation : automation[q] # Unwritten =>
                    /\ automation'[q] # Unwritten
                    /\ Exists(q)' => Exists(q) /\ automation[q].cursor <= automation'[q].cursor
                  BY <1>10, <2>1, <2>4, <2>9
            <3> QED BY <1>3, <3>1, <3>2 DEF Grows
      <2>11. RunsOnce'
            BY <1>3 DEF AutomationIInv, RunsOnce
      <2>12. Right(d)'
            <3>1. Right(d)
                  BY <1>5, <1>7 DEF Right
            <3> QED BY <1>4, <1>7, <2>7, <2>10, <3>1, RightKept
      <2>13. \A u \in Evaluator : evaluation'[u] = evaluation[u] \/ Informed(u)'
            BY <1>4, <1>8, <2>12 DEF Informed
      <2>14. ASSUME NEW n \in 1..x PROVE Handled(r, n)'
            <3>1. Handled(r, n) => Handled(r, n)'
                  BY <1>3, <1>10 DEF Handled
            <3>2. CASE n <= c
                  BY <2>2, <3>1, <3>2
            <3>3. CASE ~ (n <= c)
                  <4>1. x \in e.read /\ n <= x /\ n \in DOMAIN journal
                        BY <1>4, <2>4, <2>14, <3>3
                  <4>2. e.as.cursor <= c
                        BY <1>5, <1>10, <2>1 DEF Stands
                  <4>3. n > e.as.cursor
                        BY <1>5, <3>3, <4>2
                  <4>4. n \in e.read \cup e.open
                        BY <2>3, <4>1, <4>3
                  <4>5. n \in e.open => Handled(r, n)'
                        BY <1>10 DEF Handled
                  <4> QED BY <2>3, <3>1, <4>4, <4>5
            <3> QED BY <3>2, <3>3
      <2>15. \A q \in Automation : Exists(q)' =>
               \/ Exists(q) /\ automation'[q].cursor = automation[q].cursor
               \/ /\ automation'[q].cursor <= Len(journal)
                  /\ \A n \in 1..automation'[q].cursor : Handled(q, n)'
            BY <2>4, <2>9, <2>14
      <2> QED BY <2>7, <2>10, <2>11, <2>13, <2>15, GrowsKept
<1> QED BY <1>1, <1>2, <1>9, <1>10 DEF Advances

LEMMA AutomationStep == AutomationIInv /\ AutomationNext => AutomationIInv'
<1> SUFFICES ASSUME AutomationIInv, AutomationNext PROVE AutomationIInv'
    OBVIOUS
<1>1. ASSUME NEW w \in Evaluator, EndsEvaluation(w) \/ BreaksOff(w) PROVE AutomationIInv'
      <2>1. evaluation' = [evaluation EXCEPT ![w] = Resting] /\ UNCHANGED <<journal, automation, runs, spared, overtaken>>
            BY <1>1 DEF EndsEvaluation, BreaksOff
      <2>2. Resting \in Doing /\ Right(Resting)'
            BY DEF Doing, Right, Resting, Dealing
      <2> QED BY <2>1, <2>2, WorkerStep
<1>2. ASSUME NEW w \in Evaluator, Evaluates(w) PROVE AutomationIInv'
      BY <1>1, <1>2, EvaluateAllStep, TakesRuleStep, SparesStep, ReservesStep, ActsStep, FinishesStep, AdvancesStep
      DEF Evaluates
<1> QED BY <1>1, <1>2, JournalStep, RuleStep DEF AutomationNext

LEMMA AutomationInvariant == Spec => []AutomationIInv
<1>1. Init => AutomationIInv
      <2> SUFFICES ASSUME Init PROVE AutomationIInv
          OBVIOUS
      <2> USE AutomationAssumption DEF Init, AutomationInit
      <2>1. AutomationTypeOK
            BY DEF AutomationTypeOK, Doing
      <2>2. RunsOnce /\ Passed
            BY DEF RunsOnce, Passed, Exists
      <2>3. \A w \in Evaluator : Informed(w)
            BY DEF Informed, Right, Resting, Dealing
      <2> QED BY <2>1, <2>2, <2>3 DEF AutomationIInv
<1>2. AutomationIInv /\ [Next]_webVars => AutomationIInv'
      <2> SUFFICES ASSUME AutomationIInv, [Next]_webVars PROVE AutomationIInv'
          OBVIOUS
      <2>1. AutomationNext \/ UNCHANGED automationVars
            BY DEF Next, MoveSettings, MovePlayback, MoveLines, MoveAutomations, webVars
      <2>2. CASE UNCHANGED automationVars
            BY <2>2 DEF automationVars, AutomationIInv, AutomationTypeOK, RunsOnce, Passed, Handled, Exists,
                        Informed, Right, Stands, ReadsJournal
      <2> QED BY <2>1, <2>2, AutomationStep
<1> QED BY <1>1, <1>2, PTL DEF Spec

\* AutomationService.evaluate: no two runs of a rule are about one event, and whatever a
\* rule has passed had its run, was spared, or was uncommitted when a later event was read.
THEOREM NoEventIsForgotten == Spec => []EventsHandled
<1>1. AutomationIInv => EventsHandled
      <2> SUFFICES ASSUME AutomationIInv, NEW r \in Automation, NEW n \in DOMAIN journal
                   PROVE  /\ runs[r][n] <= 1
                          /\ Exists(r) /\ n <= automation[r].cursor /\ Committed(n) =>
                                 runs[r][n] = 1 \/ <<r, n>> \in spared \union overtaken
          BY DEF EventsHandled
      <2>1. n \in 1..MaxEvents
            BY AutomationAssumption DEF AutomationIInv, AutomationTypeOK
      <2>2. Exists(r) => automation[r].cursor \in Nat
            BY RowsExist DEF AutomationIInv, Rule
      <2>3. Exists(r) /\ n <= automation[r].cursor => Handled(r, n)
            BY <2>1, <2>2 DEF AutomationIInv, Passed
      <2> QED BY <2>1, <2>3 DEF AutomationIInv, RunsOnce, Handled
<1> QED BY <1>1, AutomationInvariant, PTL

-----------------------------------------------------------------------------
(* Libraries: codes, grants and policies, as LegacyLibrary models them. A    *)
(* user no handler disturbed is calm: its one handler knows the policy as it *)
(* is, and is going to post what its purpose changes of it, so that between  *)
(* handlers the policy shows what is granted and wanted.                     *)

Ops == {"show", "hide", "showAll", "hideAll", "disable", "restore"}
ToPost == {<<"read", "get", "post">>, <<"get", "post">>, <<"post">>}
ToSettle == {<<"read", "get", "post", "settle">>, <<"get", "post", "settle">>, <<"post", "settle">>}
ToMark == {<<"read", "get", "post", "mark">>, <<"get", "post", "mark">>, <<"post", "mark">>}
Plans == ToPost \union ToSettle \union ToMark \union {<<"settle">>, <<"mark">>}

PolicyRow == [bound : BOOLEAN, all : BOOLEAN, enabled : SUBSET Lib, off : BOOLEAN]
Handler == [user : User, op : Ops, libs : SUBSET Lib, todo : Plans, ok : BOOLEAN,
            seen : SUBSET Lib, all : BOOLEAN, post : PolicyRow,
            token : 0..MaxJobs, code : Code \union {"none"}, parts : SUBSET Partition]
GrantRow == [status : {"none", "active", "expired"}, over : BOOLEAN, code : Code \union {"none"}]
Reserved == [status : {"reserved"}, by : User, token : 0..MaxJobs, stale : BOOLEAN]
CodeRow == {Unborn, Available, Consumed} \union Reserved
Want == [off : BOOLEAN, block : BOOLEAN]

Settling(j) == j.todo \in ToSettle \union {<<"settle">>}
Marking(j) == j.todo \in ToMark \union {<<"mark">>}

\* What a handler is about: a redemption shows the libraries of its code, a
\* sweep hides, and administrators' commands on all folders read none.
Shaped(j) ==
    /\ Settling(j) => j.op = "show" /\ j.code \in Code /\ j.libs = LibsOf[PartOf[j.code]]
    /\ Marking(j) => j.op = "hide"

LibraryTyped ==
    /\ code \in [Code -> CodeRow]
    /\ grant \in [User -> [Partition -> GrantRow]]
    /\ policy \in [User -> PolicyRow]
    /\ job \in [Slot -> Handler \union {NoJob}]
    /\ done \in SUBSET (0..MaxJobs)
    /\ uses \in [Code -> Nat]
    /\ wanted \in [User -> Want]
    /\ loose \in SUBSET User
    /\ started \in 0..MaxJobs
    /\ faults \in Nat

Shapes == \A s \in Slot : Active(s) => Shaped(job[s])

\* The policy p of an account, of which w is wanted and the libraries shown
\* are to be seen of the partitions'.
InOrder(p, w, shown) ==
    /\ p.bound /\ ~p.all
    /\ p.enabled \intersect Covered(Partition) = shown
    /\ p.off = w.off
    /\ p.enabled \intersect Block = IF w.block THEN Block ELSE {}
    /\ Lib \ (Block \union Extra) \subseteq p.enabled

\* The libraries an undisturbed handler asks for, when g is granted to its user.
Purpose(j, g) ==
    \/ j.op \in {"disable", "restore"} /\ j.todo \in ToPost
    \/ j.op \in {"show", "hide"} /\ j.todo \in ToPost /\ j.libs = Block
    \/ j.op = "show" /\ Settling(j)
    \/ /\ j.op = "hide" /\ Marking(j)
       /\ j.parts \subseteq g /\ j.libs = Covered(j.parts) \ Covered(g \ j.parts)
       /\ j.todo \in ToMark => j.libs # {}

\* How far it has got: what it has read is still so, and what it is going to
\* post differs from the policy only in what it is about.
Remembers(j, p) ==
    /\ j.todo[1] = "get" /\ j.op \in {"show", "hide"} => j.seen = p.enabled /\ ~j.all
    /\ j.todo[1] = "post" =>
         /\ j.post.bound = p.bound /\ j.post.all = p.all
         /\ j.post.off = IF j.op \in {"disable", "restore"} THEN j.op = "disable" ELSE p.off
         /\ j.op = "show" => j.post.enabled = p.enabled \union j.libs
         /\ j.op = "hide" => j.post.enabled = p.enabled \ j.libs
         /\ j.op \notin {"show", "hide"} => j.post.enabled = p.enabled
Shows(j, g) ==
    CASE j.todo = <<"settle">> -> Covered(g) \union j.libs
      [] j.todo = <<"mark">> -> Covered(g) \ j.libs
      [] OTHER -> Covered(g)

OnTrack(j, p, w, g) == j.ok /\ Purpose(j, g) /\ Remembers(j, p) /\ InOrder(p, w, Shows(j, g))

\* An undisturbed user has one handler at most, which is on track, and sees what
\* is granted when there is none.
Calm(u) ==
    /\ \A s \in Slot : Active(s) /\ job[s].user = u => OnTrack(job[s], policy[u], wanted[u], Granted(u))
    /\ \A s, t \in Slot : Active(s) /\ job[s].user = u /\ Active(t) /\ job[t].user = u => s = t
    /\ ~Busy(u) => InOrder(policy[u], wanted[u], Covered(Granted(u)))
AllCalm == \A u \in User \ loose : Calm(u)

\* The handler in a slot, and what becomes of it, is user w's.
Puts(s, w) ==
    \E r \in Handler \union {NoJob} :
       job' = [job EXCEPT ![s] = r] /\ (r = NoJob \/ r.user = w)

\* The plans of handlers, step by step.
LEMMA Steps ==
  /\ Tail(<<"read", "get", "post">>) = <<"get", "post">>
  /\ Tail(<<"get", "post">>) = <<"post">>
  /\ Tail(<<"post">>) = <<>>
  /\ Tail(<<"read", "get", "post", "settle">>) = <<"get", "post", "settle">>
  /\ Tail(<<"get", "post", "settle">>) = <<"post", "settle">>
  /\ Tail(<<"post", "settle">>) = <<"settle">>
  /\ Tail(<<"settle">>) = <<>>
  /\ Tail(<<"read", "get", "post", "mark">>) = <<"get", "post", "mark">>
  /\ Tail(<<"get", "post", "mark">>) = <<"post", "mark">>
  /\ Tail(<<"post", "mark">>) = <<"mark">>
  /\ Tail(<<"mark">>) = <<>>
  OBVIOUS

LEMMA Starts ==
  ASSUME NEW t \in Plans
  PROVE  /\ t # <<>> /\ Head(t) = t[1]
         /\ t[1] = "read" => \/ t = <<"read", "get", "post">> 
                             \/ t = <<"read", "get", "post", "settle">>
                             \/ t = <<"read", "get", "post", "mark">>
         /\ t[1] = "get" => \/ t = <<"get", "post">> 
                            \/ t = <<"get", "post", "settle">>
                            \/ t = <<"get", "post", "mark">>
         /\ t[1] = "post" => \/ t = <<"post">> 
                             \/ t = <<"post", "settle">>
                             \/ t = <<"post", "mark">>
         /\ t[1] = "settle" => t = <<"settle">>
         /\ t[1] = "mark" => t = <<"mark">>
  BY DEF Plans, ToPost, ToSettle, ToMark

LEMMA Lasts ==
  ASSUME NEW t \in Plans
  PROVE  /\ t[Len(t)] = "settle" <=> t \in ToSettle \union {<<"settle">>}
         /\ t[Len(t)] = "mark" <=> t \in ToMark \union {<<"mark">>}
  <1>1. CASE t = <<"read", "get", "post">>
    <2>1. <<"read", "get", "post">>[Len(<<"read", "get", "post">>)] = "post"
      OBVIOUS
    <2>2. <<"read", "get", "post">> \notin ToSettle \union {<<"settle">>} /\ <<"read", "get", "post">> \notin ToMark \union {<<"mark">>}
      BY DEF ToSettle, ToMark
    <2>3. "settle" # "mark" /\ "settle" # "post" /\ "mark" # "post"
      OBVIOUS
    <2> QED BY <1>1, <2>1, <2>2, <2>3, Zenon
  <1>2. CASE t = <<"get", "post">>
    <2>1. <<"get", "post">>[Len(<<"get", "post">>)] = "post"
      OBVIOUS
    <2>2. <<"get", "post">> \notin ToSettle \union {<<"settle">>} /\ <<"get", "post">> \notin ToMark \union {<<"mark">>}
      BY DEF ToSettle, ToMark
    <2>3. "settle" # "mark" /\ "settle" # "post" /\ "mark" # "post"
      OBVIOUS
    <2> QED BY <1>2, <2>1, <2>2, <2>3, Zenon
  <1>3. CASE t = <<"post">>
    <2>1. <<"post">>[Len(<<"post">>)] = "post"
      OBVIOUS
    <2>2. <<"post">> \notin ToSettle \union {<<"settle">>} /\ <<"post">> \notin ToMark \union {<<"mark">>}
      BY DEF ToSettle, ToMark
    <2>3. "settle" # "mark" /\ "settle" # "post" /\ "mark" # "post"
      OBVIOUS
    <2> QED BY <1>3, <2>1, <2>2, <2>3, Zenon
  <1>4. CASE t = <<"read", "get", "post", "settle">>
    <2>1. <<"read", "get", "post", "settle">>[Len(<<"read", "get", "post", "settle">>)] = "settle"
      OBVIOUS
    <2>2. <<"read", "get", "post", "settle">> \in ToSettle \union {<<"settle">>} /\ <<"read", "get", "post", "settle">> \notin ToMark \union {<<"mark">>}
      BY DEF ToSettle, ToMark
    <2>3. "settle" # "mark" /\ "settle" # "post" /\ "mark" # "post"
      OBVIOUS
    <2> QED BY <1>4, <2>1, <2>2, <2>3, Zenon
  <1>5. CASE t = <<"get", "post", "settle">>
    <2>1. <<"get", "post", "settle">>[Len(<<"get", "post", "settle">>)] = "settle"
      OBVIOUS
    <2>2. <<"get", "post", "settle">> \in ToSettle \union {<<"settle">>} /\ <<"get", "post", "settle">> \notin ToMark \union {<<"mark">>}
      BY DEF ToSettle, ToMark
    <2>3. "settle" # "mark" /\ "settle" # "post" /\ "mark" # "post"
      OBVIOUS
    <2> QED BY <1>5, <2>1, <2>2, <2>3, Zenon
  <1>6. CASE t = <<"post", "settle">>
    <2>1. <<"post", "settle">>[Len(<<"post", "settle">>)] = "settle"
      OBVIOUS
    <2>2. <<"post", "settle">> \in ToSettle \union {<<"settle">>} /\ <<"post", "settle">> \notin ToMark \union {<<"mark">>}
      BY DEF ToSettle, ToMark
    <2>3. "settle" # "mark" /\ "settle" # "post" /\ "mark" # "post"
      OBVIOUS
    <2> QED BY <1>6, <2>1, <2>2, <2>3, Zenon
  <1>7. CASE t = <<"settle">>
    <2>1. <<"settle">>[Len(<<"settle">>)] = "settle"
      OBVIOUS
    <2>2. <<"settle">> \in ToSettle \union {<<"settle">>} /\ <<"settle">> \notin ToMark \union {<<"mark">>}
      BY DEF ToSettle, ToMark
    <2>3. "settle" # "mark" /\ "settle" # "post" /\ "mark" # "post"
      OBVIOUS
    <2> QED BY <1>7, <2>1, <2>2, <2>3, Zenon
  <1>8. CASE t = <<"read", "get", "post", "mark">>
    <2>1. <<"read", "get", "post", "mark">>[Len(<<"read", "get", "post", "mark">>)] = "mark"
      OBVIOUS
    <2>2. <<"read", "get", "post", "mark">> \notin ToSettle \union {<<"settle">>} /\ <<"read", "get", "post", "mark">> \in ToMark \union {<<"mark">>}
      BY DEF ToSettle, ToMark
    <2>3. "settle" # "mark" /\ "settle" # "post" /\ "mark" # "post"
      OBVIOUS
    <2> QED BY <1>8, <2>1, <2>2, <2>3, Zenon
  <1>9. CASE t = <<"get", "post", "mark">>
    <2>1. <<"get", "post", "mark">>[Len(<<"get", "post", "mark">>)] = "mark"
      OBVIOUS
    <2>2. <<"get", "post", "mark">> \notin ToSettle \union {<<"settle">>} /\ <<"get", "post", "mark">> \in ToMark \union {<<"mark">>}
      BY DEF ToSettle, ToMark
    <2>3. "settle" # "mark" /\ "settle" # "post" /\ "mark" # "post"
      OBVIOUS
    <2> QED BY <1>9, <2>1, <2>2, <2>3, Zenon
  <1>10. CASE t = <<"post", "mark">>
    <2>1. <<"post", "mark">>[Len(<<"post", "mark">>)] = "mark"
      OBVIOUS
    <2>2. <<"post", "mark">> \notin ToSettle \union {<<"settle">>} /\ <<"post", "mark">> \in ToMark \union {<<"mark">>}
      BY DEF ToSettle, ToMark
    <2>3. "settle" # "mark" /\ "settle" # "post" /\ "mark" # "post"
      OBVIOUS
    <2> QED BY <1>10, <2>1, <2>2, <2>3, Zenon
  <1>11. CASE t = <<"mark">>
    <2>1. <<"mark">>[Len(<<"mark">>)] = "mark"
      OBVIOUS
    <2>2. <<"mark">> \notin ToSettle \union {<<"settle">>} /\ <<"mark">> \in ToMark \union {<<"mark">>}
      BY DEF ToSettle, ToMark
    <2>3. "settle" # "mark" /\ "settle" # "post" /\ "mark" # "post"
      OBVIOUS
    <2> QED BY <1>11, <2>1, <2>2, <2>3, Zenon
  <1> QED BY <1>1, <1>2, <1>3, <1>4, <1>5, <1>6, <1>7, <1>8, <1>9, <1>10, <1>11 DEF Plans, ToPost, ToSettle, ToMark

LEMMA Appended ==
  ASSUME NEW K, NEW a \in Seq(K), NEW e \in K
  PROVE  /\ Append(a, e) \in Seq(K) /\ Len(Append(a, e)) = Len(a) + 1
         /\ \A i \in 1 .. Len(a) : Append(a, e)[i] = a[i]
         /\ Append(a, e)[Len(a) + 1] = e
  OBVIOUS

LEMMA Thens ==
  ASSUME NEW e \in {"settle", "mark"}
  PROVE  Append(<<"read", "get", "post">>, e) = <<"read", "get", "post", e>>
  <1> DEFINE K == {"read", "get", "post", "settle", "mark"}
             a == <<"read", "get", "post">>
             b == <<"read", "get", "post", e>>
  <1>0. "read" \in K /\ "get" \in K /\ "post" \in K /\ e \in K
    OBVIOUS
  <1>1. a \in Seq(K) /\ Len(a) = 3
    <2> HIDE DEF K
    <2> QED BY <1>0
  <1>2. b \in Seq(K) /\ Len(b) = 4 /\ b[1] = a[1] /\ b[2] = a[2] /\ b[3] = a[3] /\ b[4] = e
    <2> HIDE DEF K
    <2> QED BY <1>0
  <1> HIDE DEF a, b, K
  <1>3. /\ Append(a, e) \in Seq(K) /\ Len(Append(a, e)) = 4
        /\ \A i \in 1 .. 3 : Append(a, e)[i] = a[i]
        /\ Append(a, e)[4] = e
    <2>1. /\ Append(a, e) \in Seq(K) /\ Len(Append(a, e)) = Len(a) + 1
          /\ \A i \in 1 .. Len(a) : Append(a, e)[i] = a[i]
          /\ Append(a, e)[Len(a) + 1] = e
      BY <1>0, <1>1, Appended, ZenonT(60)
    <2> QED BY <1>0, <1>1, <2>1
  <1>4. \A i \in 1 .. 4 : Append(a, e)[i] = b[i]
    BY <1>2, <1>3
  <1>5. Append(a, e) = b
    BY <1>2, <1>3, <1>4, SeqEqual
  <1> QED BY <1>5 DEF a, b

\* What the constants say of libraries.
LEMMA LibraryFacts ==
  /\ Covered(Partition) \subseteq Extra /\ Extra \subseteq Lib /\ Block \subseteq Lib
  /\ Block \intersect Extra = {}
  /\ \A p \in Partition : LibsOf[p] \subseteq Covered(Partition) /\ LibsOf[p] # {}
  /\ \A g \in SUBSET Partition : Covered(g) \subseteq Covered(Partition)
  /\ \A c \in Code : PartOf[c] \in Partition
  /\ NewPolicy \in PolicyRow /\ Nothing \in PolicyRow
  /\ MaxJobs \in Nat
  <1>1. /\ Covered(Partition) \subseteq Extra /\ Extra \subseteq Lib /\ Block \subseteq Lib
        /\ Block \intersect Extra = {} /\ MaxJobs \in Nat
    BY LibraryAssumption
  <1>2. /\ \A p \in Partition : LibsOf[p] \subseteq Covered(Partition) /\ LibsOf[p] # {}
        /\ \A c \in Code : PartOf[c] \in Partition
    BY LibraryAssumption DEF Covered
  <1>3. \A g \in SUBSET Partition : Covered(g) \subseteq Covered(Partition)
    BY DEF Covered
  <1>4. NewPolicy \in PolicyRow /\ Nothing \in PolicyRow
    BY <1>1 DEF NewPolicy, Nothing, PolicyRow
  <1> QED BY <1>1, <1>2, <1>3, <1>4

\* What a handler keeps from its start to its end.
Same(r, j) ==
    /\ r.user = j.user /\ r.op = j.op /\ r.libs = j.libs
    /\ r.token = j.token /\ r.code = j.code /\ r.parts = j.parts

LEMMA RestOf ==
  ASSUME NEW j \in Handler
  PROVE  /\ j.todo \in {<<"post">>, <<"settle">>, <<"mark">>} => Rest(j) = NoJob
         /\ j.todo \notin {<<"post">>, <<"settle">>, <<"mark">>} =>
              /\ Tail(j.todo) \in Plans /\ Rest(j) \in Handler
              /\ Same(Rest(j), j) /\ Rest(j).todo = Tail(j.todo) /\ Rest(j).ok = j.ok
              /\ Rest(j).seen = j.seen /\ Rest(j).all = j.all /\ Rest(j).post = j.post
  <1>1. j.todo \in Plans
    BY DEF Handler
  <1>2. CASE j.todo \in {<<"post">>, <<"settle">>, <<"mark">>}
    BY <1>2, Steps DEF Rest
  <1>3. CASE j.todo \notin {<<"post">>, <<"settle">>, <<"mark">>}
    <2>1. Tail(j.todo) \in Plans
      BY <1>1, <1>3, Steps DEF Plans, ToPost, ToSettle, ToMark
    <2>2. Tail(j.todo) # <<>>
      BY <2>1, Starts
    <2>3. Rest(j) = [j EXCEPT !.todo = Tail(j.todo)]
      BY <2>2, Zenon DEF Rest
    <2>4. PICK r : r = [j EXCEPT !.todo = Tail(j.todo)]
      OBVIOUS
    <2>5. /\ r \in Handler /\ Same(r, j) /\ r.todo = Tail(j.todo) /\ r.ok = j.ok
          /\ r.seen = j.seen /\ r.all = j.all /\ r.post = j.post
      BY <2>1, <2>4 DEF Handler, Same
    <2> QED BY <1>3, <2>1, <2>3, <2>4, <2>5, Zenon
  <1> QED BY <1>2, <1>3

LEMMA GetOn ==
  ASSUME NEW j \in Handler, j.todo[1] = "get", NEW post \in PolicyRow
  PROVE  LET r == [Rest(j) EXCEPT !.post = post, !.seen = {}, !.all = FALSE] IN
           /\ r \in Handler /\ Same(r, j) /\ r.ok = j.ok /\ r.seen = {} /\ r.all = FALSE /\ r.post = post
           /\ r.todo = Tail(j.todo)
  <1>1. j.todo \in Plans
    BY DEF Handler
  <1>2. j.todo \notin {<<"post">>, <<"settle">>, <<"mark">>}
    BY <1>1, Starts
  <1>3. PICK q \in Handler : q = Rest(j)
    BY <1>2, RestOf
  <1>4. Same(q, j) /\ q.todo = Tail(j.todo) /\ q.ok = j.ok /\ q.seen = j.seen /\ q.all = j.all /\ q.post = j.post
    BY <1>2, <1>3, RestOf
  <1>5. LET r == [q EXCEPT !.post = post, !.seen = {}, !.all = FALSE] IN
           r \in Handler /\ Same(r, q) /\ r.todo = q.todo /\ r.ok = q.ok /\ r.seen = {} /\ r.all = FALSE /\ r.post = post
    BY DEF Handler, Same
  <1> QED BY <1>3, <1>4, <1>5 DEF Same

LEMMA PostOn ==
  ASSUME NEW j \in Handler, j.todo[1] = "post"
  PROVE  LET r == Rest([j EXCEPT !.post = Nothing]) IN
           /\ j.todo = <<"post">> => r = NoJob
           /\ j.todo # <<"post">> =>
                /\ j.todo \in {<<"post", "settle">>, <<"post", "mark">>}
                /\ r \in Handler /\ Same(r, j) /\ r.ok = j.ok /\ r.todo = Tail(j.todo)
  <1>1. j.todo \in Plans
    BY DEF Handler
  <1>2. j.todo \in {<<"post">>, <<"post", "settle">>, <<"post", "mark">>}
    BY <1>1, Starts
  <1>3. PICK q : q = [j EXCEPT !.post = Nothing]
    OBVIOUS
  <1>4. q \in Handler /\ Same(q, j) /\ q.todo = j.todo /\ q.ok = j.ok
    BY <1>3, LibraryFacts DEF Handler, Same
  <1>5. CASE j.todo = <<"post">>
    BY <1>3, <1>4, <1>5, RestOf
  <1>6. CASE j.todo # <<"post">>
    <2>1. j.todo \notin {<<"post">>, <<"settle">>, <<"mark">>}
      BY <1>1, <1>2, <1>6, Starts
    <2> QED BY <1>2, <1>3, <1>4, <1>6, <2>1, RestOf, ZenonT(60) DEF Same
  <1> QED BY <1>5, <1>6

LEMMA GiveUp ==
  ASSUME NEW j \in Handler
  PROVE  \/ GivesUp(j) = NoJob
         \/ LET r == GivesUp(j) IN
              /\ r \in Handler /\ Same(r, j)
              /\ \/ Settling(j) /\ r.todo = <<"settle">>
                 \/ Marking(j) /\ r.todo = <<"mark">>
  <1>1. j.todo \in Plans
    BY DEF Handler
  <1> DEFINE last == j.todo[Len(j.todo)]
  <1>2. CASE last \notin {"settle", "mark"}
    BY <1>2 DEF GivesUp
  <1>3. CASE last \in {"settle", "mark"}
    <2>1. GivesUp(j) = [j EXCEPT !.todo = <<last>>, !.ok = FALSE, !.seen = {}, !.all = FALSE, !.post = Nothing]
      BY <1>3 DEF GivesUp
    <2>2. <<last>> \in Plans
      BY <1>3 DEF Plans
    <2>3. (Settling(j) /\ last = "settle") \/ (Marking(j) /\ last = "mark")
      <3>1. /\ last = "settle" <=> j.todo \in ToSettle \union {<<"settle">>}
            /\ last = "mark" <=> j.todo \in ToMark \union {<<"mark">>}
        BY <1>1, Lasts, Zenon
      <3>2. last = "settle" \/ last = "mark"
        BY <1>3
      <3> QED BY <3>1, <3>2, Zenon DEF Settling, Marking
    <2> HIDE DEF last
    <2>4. PICK r : r = GivesUp(j)
      OBVIOUS
    <2>5. r = [j EXCEPT !.todo = <<last>>, !.ok = FALSE, !.seen = {}, !.all = FALSE, !.post = Nothing]
      BY <2>1, <2>4
    <2>6. r \in Handler /\ Same(r, j) /\ r.todo = <<last>>
      BY <2>2, <2>5, LibraryFacts DEF Handler, Same
    <2> QED BY <2>3, <2>4, <2>6
  <1> QED BY <1>2, <1>3

LibrarySound == LibraryTyped /\ Shapes /\ GrantedOnce

LEMMA ActiveIs ==
  ASSUME LibraryTyped, NEW s \in Slot
  PROVE  /\ Active(s) <=> job[s] \in Handler
         /\ Active(s) => job[s].todo \in Plans /\ Head(job[s].todo) = job[s].todo[1]
         /\ ~Active(s) => job[s] = NoJob
         /\ \A step : At(s, step) => job[s] \in Handler /\ job[s].todo[1] = step
  <1>1. job[s] \in Handler \union {NoJob}
    BY DEF LibraryTyped
  <1>2. NoJob.todo = <<>>
    BY DEF NoJob
  <1>3. job[s] \in Handler => job[s].todo \in Plans /\ job[s].todo # <<>> /\ Head(job[s].todo) = job[s].todo[1]
    BY Starts DEF Handler
  <1> QED BY <1>1, <1>2, <1>3, Zenon DEF Active, At

LEMMA Suffixes ==
  ASSUME NEW t \in Plans, t[1] \in {"read", "get", "post"}, t # <<"post">>
  PROVE  /\ Tail(t) \in Plans
         /\ Tail(t) \in ToSettle \union {<<"settle">>} <=> t \in ToSettle \union {<<"settle">>}
         /\ Tail(t) \in ToMark \union {<<"mark">>} <=> t \in ToMark \union {<<"mark">>}
  <1>1. \A q \in Plans : ~(q \in ToSettle \union {<<"settle">>} /\ q \in ToMark \union {<<"mark">>})
    BY Lasts
  <1>2. \A q \in ToPost : q \notin ToSettle \union {<<"settle">>} /\ q \notin ToMark \union {<<"mark">>}
    BY DEF ToPost, ToSettle, ToMark
  <1>3. CASE t \in ToPost
    <2>1. Tail(t) \in ToPost
      BY <1>3, Steps DEF ToPost
    <2> QED BY <1>2, <1>3, <2>1 DEF Plans
  <1>4. CASE t \in ToSettle
    <2>1. Tail(t) \in ToSettle \union {<<"settle">>}
      BY <1>4, Steps DEF ToSettle
    <2>2. Tail(t) \in Plans /\ t \in Plans
      BY <1>4, <2>1 DEF Plans
    <2> QED BY <1>1, <1>4, <2>1, <2>2
  <1>5. CASE t \in ToMark
    <2>1. Tail(t) \in ToMark \union {<<"mark">>}
      BY <1>5, Steps DEF ToMark
    <2>2. Tail(t) \in Plans /\ t \in Plans
      BY <1>5, <2>1 DEF Plans
    <2> QED BY <1>1, <1>5, <2>1, <2>2
  <1>6. t \notin {<<"settle">>, <<"mark">>}
    OBVIOUS
  <1> QED BY <1>3, <1>4, <1>5, <1>6 DEF Plans

LEMMA KindKept ==
  ASSUME NEW j \in Handler, NEW r \in Handler, Same(r, j), r.todo = Tail(j.todo),
         j.todo[1] \in {"read", "get", "post"}
  PROVE  /\ Settling(r) <=> Settling(j)
         /\ Marking(r) <=> Marking(j)
         /\ Shaped(j) => Shaped(r)
  <1>1. j.todo \in Plans /\ r.todo \in Plans /\ r.todo # <<>>
    BY Starts DEF Handler
  <1>2. j.todo # <<"post">>
    BY <1>1, Steps
  <1>3. (Settling(r) <=> Settling(j)) /\ (Marking(r) <=> Marking(j))
    BY <1>1, <1>2, Suffixes DEF Settling, Marking
  <1> QED BY <1>3 DEF Shaped, Same

LEMMA JobPut ==
  ASSUME LibraryTyped, Shapes, NEW s \in Slot, NEW r, r = NoJob \/ (r \in Handler /\ Shaped(r)),
         job' = [job EXCEPT ![s] = r]
  PROVE  job' \in [Slot -> Handler \union {NoJob}] /\ Shapes'
  <1>1. job \in [Slot -> Handler \union {NoJob}]
    BY DEF LibraryTyped
  <1>2. job' \in [Slot -> Handler \union {NoJob}]
    BY <1>1
  <1>3. \A t \in Slot : job'[t].todo # <<>> => Shaped(job'[t])
    BY <1>1 DEF Shapes, Active, NoJob
  <1> QED BY <1>2, <1>3 DEF Shapes, Active

LEMMA EnterTypes ==
  ASSUME LibraryTyped, Shapes, NEW j \in Handler, Shaped(j), Enter(j)
  PROVE  /\ job' \in [Slot -> Handler \union {NoJob}] /\ Shapes'
         /\ loose' \in SUBSET User /\ started' \in 0..MaxJobs /\ faults' \in Nat
  <1>1. PICK s \in Slot : job' = [job EXCEPT ![s] = j]
    BY DEF Enter
  <1>2. job' \in [Slot -> Handler \union {NoJob}] /\ Shapes'
    BY <1>1, JobPut
  <1>3. j.user \in User
    BY DEF Handler
  <1>4. loose' \in SUBSET User
    BY <1>3 DEF Enter, LibraryTyped
  <1>5. started' \in 0..MaxJobs /\ faults' \in Nat
    BY LibraryFacts DEF Enter, Count, LibraryTyped
  <1> QED BY <1>2, <1>4, <1>5

LEMMA FaultTypes ==
  ASSUME LibraryTyped, NEW u \in User, Fault(u)
  PROVE  loose' \in SUBSET User /\ started' \in 0..MaxJobs /\ faults' \in Nat /\ u \in loose'
         /\ \A v \in loose : v \in loose'
  BY DEF LibraryTyped, Fault

LEMMA FoldersPlan ==
  ASSUME NEW u \in User, NEW op \in Ops, NEW libs \in SUBSET Lib
  PROVE  LET j == Folders(u, op, libs) IN
           /\ j \in Handler /\ j.user = u /\ j.op = op /\ j.libs = libs /\ j.ok
           /\ j.todo = <<"read", "get", "post">> /\ j.parts = {}
  BY LibraryFacts DEF Folders, Handler, Plans, ToPost

LEMMA EveryPlan ==
  ASSUME NEW u \in User, NEW op \in Ops
  PROVE  LET j == EveryFolder(u, op) IN
           /\ j \in Handler /\ j.user = u /\ j.op = op /\ j.ok /\ j.todo = <<"get", "post">>
  <1> DEFINE f == Folders(u, op, Lib)
  <1>1. f \in Handler /\ f.user = u /\ f.op = op /\ f.ok /\ f.todo = <<"read", "get", "post">>
    BY FoldersPlan
  <1> HIDE DEF f
  <1>2. PICK g : g = [f EXCEPT !.todo = <<"get", "post">>]
    OBVIOUS
  <1>3. g \in Handler /\ g.user = u /\ g.op = op /\ g.ok /\ g.todo = <<"get", "post">>
    BY <1>1, <1>2 DEF Handler, Plans, ToPost
  <1>4. EveryFolder(u, op) = g
    BY <1>1, <1>2, Steps, Zenon DEF EveryFolder, f
  <1> QED BY <1>3, <1>4

LEMMA RedemptionPlan ==
  ASSUME NEW u \in User, NEW c \in Code, NEW token \in 0..MaxJobs
  PROVE  LET j == Redemption(u, c, token) IN
           /\ j \in Handler /\ j.user = u /\ j.op = "show" /\ j.libs = LibsOf[PartOf[c]] /\ j.ok
           /\ j.todo = <<"read", "get", "post", "settle">> /\ j.code = c
  <1>1. LibsOf[PartOf[c]] \in SUBSET Lib
    BY LibraryFacts
  <1> DEFINE f == Folders(u, "show", LibsOf[PartOf[c]])
  <1>2. f \in Handler /\ f.user = u /\ f.op = "show" /\ f.libs = LibsOf[PartOf[c]] /\ f.ok /\ f.todo = <<"read", "get", "post">>
    BY <1>1, FoldersPlan DEF Ops
  <1>3. Append(f.todo, "settle") = <<"read", "get", "post", "settle">>
    BY <1>2, Thens
  <1> HIDE DEF f
  <1>4. PICK g : g = [f EXCEPT !.todo = <<"read", "get", "post", "settle">>]
    OBVIOUS
  <1>5. g \in Handler /\ Same(g, f) /\ g.todo = <<"read", "get", "post", "settle">> /\ g.ok
    BY <1>2, <1>4 DEF Handler, Same, Plans, ToSettle
  <1>6. Then(f, "settle") = g
    BY <1>3, <1>4, Zenon DEF Then
  <1>7. PICK j : j = [g EXCEPT !.token = token, !.code = c]
    OBVIOUS
  <1>8. /\ j \in Handler /\ j.user = g.user /\ j.op = g.op /\ j.libs = g.libs /\ j.ok
        /\ j.todo = g.todo /\ j.code = c
    BY <1>5, <1>7 DEF Handler
  <1>9. Redemption(u, c, token) = j
    BY <1>6, <1>7, Zenon DEF Redemption, f
  <1> QED BY <1>2, <1>5, <1>8, <1>9 DEF Same

\* The sweep of one user.
SweepOf(u) ==
    [(IF Bound(u) /\ HideTargets(u) # {}
      THEN Then(Folders(u, "hide", HideTargets(u)), "mark")
      ELSE [Folders(u, "hide", {}) EXCEPT !.todo = <<"mark">>]) EXCEPT !.parts = Expired(u)]

LEMMA SweepPlan ==
  ASSUME NEW u \in User, LibraryTyped
  PROVE  LET j == SweepOf(u) IN
           /\ j \in Handler /\ j.user = u /\ j.op = "hide" /\ j.ok /\ j.parts = Expired(u)
           /\ \/ /\ j.todo = <<"read", "get", "post", "mark">>
                 /\ j.libs = HideTargets(u) /\ HideTargets(u) # {}
              \/ /\ j.todo = <<"mark">> /\ j.libs = {}
                 /\ HideTargets(u) = {} \/ ~Bound(u)
  <1>1. Expired(u) \in SUBSET Partition /\ HideTargets(u) \in SUBSET Lib
    BY LibraryFacts DEF Expired, Granted, HideTargets
  <1>2. "hide" \in Ops
    BY DEF Ops
  <1>3. CASE Bound(u) /\ HideTargets(u) # {}
    <2> DEFINE f == Folders(u, "hide", HideTargets(u))
    <2>2. f \in Handler /\ f.user = u /\ f.op = "hide" /\ f.libs = HideTargets(u) /\ f.ok /\ f.todo = <<"read", "get", "post">>
      BY <1>1, <1>2, FoldersPlan
    <2>3. Append(f.todo, "mark") = <<"read", "get", "post", "mark">>
      BY <2>2, Thens
    <2> HIDE DEF f
    <2>4. PICK g : g = [f EXCEPT !.todo = <<"read", "get", "post", "mark">>]
      OBVIOUS
    <2>5. g \in Handler /\ Same(g, f) /\ g.todo = <<"read", "get", "post", "mark">> /\ g.ok
      BY <2>2, <2>4 DEF Handler, Same, Plans, ToMark
    <2>6. Then(f, "mark") = g
      BY <2>3, <2>4, Zenon DEF Then
    <2>7. PICK j : j = [g EXCEPT !.parts = Expired(u)]
      OBVIOUS
    <2>8. /\ j \in Handler /\ j.user = g.user /\ j.op = g.op /\ j.libs = g.libs /\ j.ok
          /\ j.todo = g.todo /\ j.parts = Expired(u)
      BY <1>1, <2>5, <2>7 DEF Handler
    <2>9. SweepOf(u) = j
      BY <1>3, <2>6, <2>7, Zenon DEF SweepOf, f
    <2> QED BY <1>3, <2>2, <2>5, <2>8, <2>9 DEF Same
  <1>4. CASE ~(Bound(u) /\ HideTargets(u) # {})
    <2> DEFINE f == Folders(u, "hide", {})
    <2>2. f \in Handler /\ f.user = u /\ f.op = "hide" /\ f.libs = {} /\ f.ok
      BY <1>2, FoldersPlan
    <2> HIDE DEF f
    <2>4. PICK g : g = [f EXCEPT !.todo = <<"mark">>]
      OBVIOUS
    <2>5. g \in Handler /\ Same(g, f) /\ g.todo = <<"mark">> /\ g.ok
      BY <2>2, <2>4 DEF Handler, Same, Plans
    <2>7. PICK j : j = [g EXCEPT !.parts = Expired(u)]
      OBVIOUS
    <2>8. /\ j \in Handler /\ j.user = g.user /\ j.op = g.op /\ j.libs = g.libs /\ j.ok
          /\ j.todo = g.todo /\ j.parts = Expired(u)
      BY <1>1, <2>5, <2>7 DEF Handler
    <2>9. SweepOf(u) = j
      BY <1>4, <2>4, <2>7, Zenon DEF SweepOf, f
    <2> QED BY <1>4, <2>2, <2>5, <2>8, <2>9 DEF Same
  <1> QED BY <1>3, <1>4

\* What each step puts into the slot of its handler.
LEMMA ReadPuts ==
  ASSUME LibrarySound, NEW s \in Slot, NEW seen \in SUBSET Lib, NEW all \in BOOLEAN, At(s, "read"),
         job' = [job EXCEPT ![s] = [Rest(job[s]) EXCEPT !.seen = seen, !.all = all]]
  PROVE  \E r \in Handler :
           /\ job' = [job EXCEPT ![s] = r]
           /\ Same(r, job[s]) /\ Shaped(r) /\ r.todo = Tail(job[s].todo)
           /\ r.ok = job[s].ok /\ r.seen = seen /\ r.all = all
  <1>1. job[s] \in Handler /\ job[s].todo[1] = "read" /\ Shaped(job[s])
    BY ActiveIs DEF LibrarySound, Shapes, At
  <1>2. job[s].todo \notin {<<"post">>, <<"settle">>, <<"mark">>}
    BY <1>1
  <1>3. PICK q : q = Rest(job[s])
    OBVIOUS
  <1>4. /\ q \in Handler /\ Same(q, job[s]) /\ q.todo = Tail(job[s].todo) /\ q.ok = job[s].ok
    BY <1>1, <1>2, <1>3, RestOf
  <1>5. PICK r : r = [q EXCEPT !.seen = seen, !.all = all]
    OBVIOUS
  <1>6. /\ r \in Handler /\ Same(r, q) /\ r.todo = q.todo /\ r.ok = q.ok /\ r.seen = seen /\ r.all = all
    BY <1>4, <1>5 DEF Handler, Same
  <1>7. Same(r, job[s])
    BY <1>4, <1>6 DEF Same
  <1>8. Shaped(r)
    BY <1>1, <1>4, <1>6, <1>7, KindKept
  <1>9. job' = [job EXCEPT ![s] = r]
    BY <1>3, <1>5
  <1> QED BY <1>4, <1>6, <1>7, <1>8, <1>9

LEMMA GetPuts ==
  ASSUME LibrarySound, NEW s \in Slot, NEW post \in PolicyRow, At(s, "get"),
         job' = [job EXCEPT ![s] = [Rest(job[s]) EXCEPT !.post = post, !.seen = {}, !.all = FALSE]]
  PROVE  \E r \in Handler :
           /\ job' = [job EXCEPT ![s] = r]
           /\ Same(r, job[s]) /\ Shaped(r) /\ r.todo = Tail(job[s].todo)
           /\ r.ok = job[s].ok /\ r.post = post
  <1>1. job[s] \in Handler /\ job[s].todo[1] = "get" /\ Shaped(job[s])
    BY ActiveIs DEF LibrarySound, Shapes, At
  <1>2. PICK r : r = [Rest(job[s]) EXCEPT !.post = post, !.seen = {}, !.all = FALSE]
    OBVIOUS
  <1>3. r \in Handler /\ Same(r, job[s]) /\ r.todo = Tail(job[s].todo) /\ r.ok = job[s].ok /\ r.post = post
    BY <1>1, <1>2, GetOn
  <1>4. Shaped(r)
    BY <1>1, <1>3, KindKept
  <1>5. job' = [job EXCEPT ![s] = r]
    BY <1>2
  <1> QED BY <1>3, <1>4, <1>5

LEMMA GiveUpShaped ==
  ASSUME NEW j \in Handler, Shaped(j)
  PROVE  GivesUp(j) = NoJob \/ (GivesUp(j) \in Handler /\ Same(GivesUp(j), j) /\ Shaped(GivesUp(j)))
  <1> SUFFICES ASSUME GivesUp(j) # NoJob
               PROVE  GivesUp(j) \in Handler /\ Same(GivesUp(j), j) /\ Shaped(GivesUp(j))
    OBVIOUS
  <1>1. PICK r : r = GivesUp(j)
    OBVIOUS
  <1>2. /\ r \in Handler /\ Same(r, j)
        /\ \/ Settling(j) /\ r.todo = <<"settle">>
           \/ Marking(j) /\ r.todo = <<"mark">>
    BY <1>1, GiveUp
  <1>3. /\ Settling(r) => Settling(j)
        /\ Marking(r) => Marking(j)
    BY <1>2, Lasts DEF Settling, Marking, Handler
  <1> QED BY <1>1, <1>2, <1>3 DEF Shaped, Same

LEMMA PostPuts ==
  ASSUME LibrarySound, NEW s \in Slot, At(s, "post"),
         job' = [job EXCEPT ![s] = Rest([job[s] EXCEPT !.post = Nothing])]
  PROVE  \/ job[s].todo = <<"post">> /\ job' = [job EXCEPT ![s] = NoJob]
         \/ /\ job[s].todo \in {<<"post", "settle">>, <<"post", "mark">>}
            /\ \E r \in Handler :
                 /\ job' = [job EXCEPT ![s] = r]
                 /\ Same(r, job[s]) /\ Shaped(r) /\ r.todo = Tail(job[s].todo) /\ r.ok = job[s].ok
  <1>1. job[s] \in Handler /\ job[s].todo[1] = "post" /\ Shaped(job[s])
    BY ActiveIs DEF LibrarySound, Shapes, At
  <1>2. PICK r : r = Rest([job[s] EXCEPT !.post = Nothing])
    OBVIOUS
  <1>3. CASE job[s].todo = <<"post">>
    BY <1>1, <1>2, <1>3, PostOn
  <1>4. CASE job[s].todo # <<"post">>
    <2>1. /\ job[s].todo \in {<<"post", "settle">>, <<"post", "mark">>}
          /\ r \in Handler /\ Same(r, job[s]) /\ r.todo = Tail(job[s].todo) /\ r.ok = job[s].ok
      BY <1>1, <1>2, <1>4, PostOn
    <2>2. Shaped(r)
      BY <1>1, <2>1, KindKept
    <2> QED BY <1>2, <2>1, <2>2
  <1> QED BY <1>3, <1>4

LEMMA PostedType ==
  ASSUME NEW j \in Handler, NEW got \in PolicyRow
  PROVE  Posted(j, got) \in PolicyRow \/ j.op \notin Ops
  <1>1. j.op \in Ops /\ j.libs \in SUBSET Lib /\ j.seen \in SUBSET Lib /\ j.all \in BOOLEAN
    BY DEF Handler
  <1>2. CASE j.op = "show" /\ j.all
    BY <1>1, <1>2 DEF Posted, PolicyRow
  <1>3. CASE j.op = "show" /\ ~j.all
    BY <1>1, <1>3 DEF Posted, PolicyRow
  <1>4. CASE j.op = "hide"
    BY <1>1, <1>4 DEF Posted, PolicyRow
  <1>5. CASE j.op \in {"showAll", "hideAll"}
    BY <1>1, <1>5 DEF Posted, PolicyRow
  <1>6. CASE j.op \in {"disable", "restore"}
    BY <1>1, <1>6 DEF Posted, PolicyRow
  <1> QED BY <1>1, <1>2, <1>3, <1>4, <1>5, <1>6 DEF Ops

LEMMA WantsType ==
  ASSUME LibraryTyped, NEW j \in Handler
  PROVE  Wants(j) \in Want
  <1>1. j.op \in Ops /\ wanted[j.user] \in Want
    BY DEF Handler, LibraryTyped
  <1>2. CASE j.op \in {"show", "hide"} /\ j.libs = Block
    BY <1>1, <1>2 DEF Wants, Want
  <1>3. CASE j.op \in {"disable", "restore"}
    BY <1>1, <1>3 DEF Wants, Want
  <1>4. CASE j.op \notin {"disable", "restore"} /\ ~(j.op \in {"show", "hide"} /\ j.libs = Block)
    BY <1>1, <1>4 DEF Wants, Want
  <1> QED BY <1>2, <1>3, <1>4

\* Types and codes, action by action.
LEMMA JobOnly ==
  ASSUME LibrarySound, job' \in [Slot -> Handler \union {NoJob}], Shapes',
         UNCHANGED <<code, grant, policy, done, uses, wanted>>,
         loose' \in SUBSET User, started' \in 0..MaxJobs, faults' \in Nat
  PROVE  LibrarySound'
  BY DEF LibrarySound, LibraryTyped, GrantedOnce

LEMMA Kept ==
  ASSUME LibrarySound
  PROVE  /\ UNCHANGED job => job' \in [Slot -> Handler \union {NoJob}] /\ Shapes'
         /\ UNCHANGED <<loose, started, faults>> =>
              loose' \in SUBSET User /\ started' \in 0..MaxJobs /\ faults' \in Nat
  BY DEF LibrarySound, LibraryTyped, Shapes, Active

LEMMA ReadFoldersSound ==
  ASSUME LibrarySound, NEW s \in Slot, ReadFolders(s)
  PROVE  LibrarySound'
  <1> DEFINE u == job[s].user
  <1>1. u \in User
    BY ActiveIs DEF LibrarySound, ReadFolders, Handler
  <1>2. policy[u] \in PolicyRow
    BY <1>1 DEF LibrarySound, LibraryTyped
  <1>3. Visible(u) \in SUBSET Lib /\ policy[u].all \in BOOLEAN
    BY <1>2 DEF Visible, PolicyRow
  <1>4. /\ At(s, "read")
        /\ job' = [job EXCEPT ![s] = [Rest(job[s]) EXCEPT !.seen = Visible(u), !.all = policy[u].all]]
        /\ UNCHANGED <<code, grant, policy, done, uses, wanted, loose, started, faults>>
    BY DEF ReadFolders
  <1>5. PICK r \in Handler : job' = [job EXCEPT ![s] = r] /\ Shaped(r)
    BY <1>3, <1>4, ReadPuts
  <1> QED BY <1>4, <1>5, JobPut, Kept, JobOnly DEF LibrarySound

LEMMA ReadNothingSound ==
  ASSUME LibrarySound, NEW s \in Slot, ReadNothing(s)
  PROVE  /\ LibrarySound' /\ job[s].user \in User /\ Active(s) /\ Puts(s, job[s].user)
         /\ job[s].user \in loose' /\ (\A v \in loose : v \in loose')
  <1> DEFINE u == job[s].user
  <1>1. u \in User
    BY ActiveIs DEF LibrarySound, ReadNothing, Handler
  <1>4. /\ At(s, "read")
        /\ job' = [job EXCEPT ![s] = [Rest(job[s]) EXCEPT !.seen = {}, !.all = FALSE]]
        /\ UNCHANGED <<code, grant, policy, done, uses, wanted>> /\ Fault(u)
    BY DEF ReadNothing
  <1>5. PICK r \in Handler : job' = [job EXCEPT ![s] = r] /\ Shaped(r) /\ Same(r, job[s])
    BY <1>4, ReadPuts
  <1>6. Puts(s, u) /\ Active(s)
    BY <1>4, <1>5 DEF Puts, Same, At
  <1> QED BY <1>1, <1>4, <1>5, <1>6, JobPut, FaultTypes, JobOnly DEF LibrarySound

LEMMA FailsSound ==
  ASSUME LibrarySound, NEW s \in Slot, NEW step, Fails(s, step)
  PROVE  /\ LibrarySound' /\ job[s].user \in User /\ Active(s) /\ Puts(s, job[s].user)
         /\ job[s].user \in loose' /\ (\A v \in loose : v \in loose')
  <1> DEFINE u == job[s].user
  <1>1. job[s] \in Handler /\ u \in User /\ Shaped(job[s])
    BY ActiveIs DEF LibrarySound, Shapes, Fails, At, Handler
  <1>2. /\ job' = [job EXCEPT ![s] = GivesUp(job[s])]
        /\ UNCHANGED <<code, grant, policy, done, uses, wanted>> /\ Fault(u)
    BY DEF Fails
  <1>3. Puts(s, u) /\ Active(s)
    BY <1>1, <1>2, GiveUpShaped DEF Puts, Same, At, Fails
  <1> QED BY <1>1, <1>2, <1>3, GiveUpShaped, JobPut, FaultTypes, JobOnly DEF LibrarySound

LEMMA FindsNoneSound ==
  ASSUME LibrarySound, NEW s \in Slot, FindsNone(s)
  PROVE  /\ LibrarySound' /\ job[s].user \in User /\ Active(s) /\ Puts(s, job[s].user)
         /\ job[s].user \in loose' /\ (\A v \in loose : v \in loose')
  <1> DEFINE u == job[s].user
  <1>1. job[s] \in Handler /\ u \in User /\ Shaped(job[s])
    BY ActiveIs DEF LibrarySound, Shapes, FindsNone, At, Handler
  <1>2. PICK g : g = GivesUp(job[s])
    OBVIOUS
  <1>3. PICK r : r = IF g = NoJob THEN NoJob ELSE [g EXCEPT !.ok = TRUE]
    OBVIOUS
  <1>4. /\ job' = [job EXCEPT ![s] = r]
        /\ UNCHANGED <<code, grant, policy, done, uses, wanted>> /\ Fault(u)
    BY <1>2, <1>3 DEF FindsNone
  <1>5. r = NoJob \/ (r \in Handler /\ Shaped(r) /\ r.user = u)
    <2>1. SUFFICES ASSUME g # NoJob PROVE r \in Handler /\ Shaped(r) /\ r.user = u
      BY <1>3
    <2>2. g \in Handler /\ Shaped(g) /\ g.user = u
      BY <1>1, <1>2, <2>1, GiveUpShaped DEF Same
    <2>3. r = [g EXCEPT !.ok = TRUE]
      BY <1>3, <2>1
    <2>4. r \in Handler /\ Same(r, g) /\ r.todo = g.todo
      BY <2>2, <2>3 DEF Handler, Same
    <2> QED BY <2>2, <2>4 DEF Shaped, Same, Settling, Marking
  <1>6. Puts(s, u) /\ Active(s)
    BY <1>4, <1>5 DEF Puts, FindsNone, At
  <1> QED BY <1>1, <1>4, <1>5, <1>6, JobPut, FaultTypes, JobOnly DEF LibrarySound

LEMMA GetPolicySound ==
  ASSUME LibrarySound, NEW s \in Slot, GetPolicy(s)
  PROVE  LibrarySound'
  <1> DEFINE j == job[s]
  <1>1. j \in Handler /\ j.user \in User /\ j.op \in Ops
    BY ActiveIs DEF LibrarySound, GetPolicy, Handler
  <1>2. policy[j.user] \in PolicyRow
    BY <1>1 DEF LibrarySound, LibraryTyped
  <1>3. Posted(j, policy[j.user]) \in PolicyRow
    BY <1>1, <1>2, PostedType
  <1>4. /\ At(s, "get")
        /\ job' = [job EXCEPT ![s] = [Rest(j) EXCEPT !.post = Posted(j, policy[j.user]), !.seen = {}, !.all = FALSE]]
        /\ UNCHANGED <<code, grant, policy, done, uses, wanted, loose, started, faults>>
    BY DEF GetPolicy, Gets
  <1>5. PICK r \in Handler : job' = [job EXCEPT ![s] = r] /\ Shaped(r)
    BY <1>3, <1>4, GetPuts
  <1> QED BY <1>4, <1>5, JobPut, Kept, JobOnly DEF LibrarySound

LEMMA GetDefaultSound ==
  ASSUME LibrarySound, NEW s \in Slot, GetDefault(s)
  PROVE  /\ LibrarySound' /\ job[s].user \in User /\ Active(s) /\ Puts(s, job[s].user)
         /\ job[s].user \in loose' /\ (\A v \in loose : v \in loose')
  <1> DEFINE j == job[s]
  <1>1. j \in Handler /\ j.user \in User /\ j.op \in Ops
    BY ActiveIs DEF LibrarySound, GetDefault, Handler
  <1>2. PICK all \in BOOLEAN :
          job' = [job EXCEPT ![s] = Gets(job[s], [NewPolicy EXCEPT !.all = all, !.enabled = {}])]
    BY DEF GetDefault
  <1>3. PICK got : got = [NewPolicy EXCEPT !.all = all, !.enabled = {}]
    OBVIOUS
  <1>4. got \in PolicyRow
    BY <1>3, LibraryFacts DEF PolicyRow
  <1>5. Posted(j, got) \in PolicyRow
    BY <1>1, <1>4, PostedType
  <1>6. /\ At(s, "get")
        /\ UNCHANGED <<code, grant, policy, done, uses, wanted>> /\ Fault(j.user)
    BY DEF GetDefault
  <1>7. job' = [job EXCEPT ![s] = [Rest(j) EXCEPT !.post = Posted(j, got), !.seen = {}, !.all = FALSE]]
    BY <1>2, <1>3 DEF Gets
  <1>8. PICK r \in Handler : job' = [job EXCEPT ![s] = r] /\ Shaped(r) /\ Same(r, j)
    BY <1>5, <1>6, <1>7, GetPuts
  <1>9. Puts(s, j.user) /\ Active(s)
    BY <1>6, <1>8 DEF Puts, Same, At
  <1> QED BY <1>1, <1>6, <1>8, <1>9, JobPut, FaultTypes, JobOnly DEF LibrarySound

LEMMA PostPolicySound ==
  ASSUME LibrarySound, NEW s \in Slot, PostPolicy(s)
  PROVE  LibrarySound'
  <1> DEFINE j == job[s]
  <1>1. j \in Handler /\ j.user \in User /\ j.post \in PolicyRow
    BY ActiveIs DEF LibrarySound, PostPolicy, Handler
  <1>2. /\ At(s, "post")
        /\ job' = [job EXCEPT ![s] = Rest([j EXCEPT !.post = Nothing])]
        /\ policy' = [policy EXCEPT ![j.user] = j.post] /\ wanted' = [wanted EXCEPT ![j.user] = Wants(j)]
        /\ UNCHANGED <<code, grant, done, uses, loose, started, faults>>
    BY DEF PostPolicy
  <1>3. job' \in [Slot -> Handler \union {NoJob}] /\ Shapes'
    BY <1>2, PostPuts, JobPut DEF LibrarySound
  <1>4. Wants(j) \in Want
    BY <1>1, WantsType DEF LibrarySound
  <1> QED BY <1>1, <1>2, <1>3, <1>4 DEF LibrarySound, LibraryTyped, GrantedOnce

LEMMA PostUnansweredSound ==
  ASSUME LibrarySound, NEW s \in Slot, PostUnanswered(s)
  PROVE  /\ LibrarySound' /\ job[s].user \in User /\ Active(s) /\ Puts(s, job[s].user)
         /\ job[s].user \in loose' /\ (\A v \in loose : v \in loose')
  <1> DEFINE j == job[s]
  <1>1. j \in Handler /\ j.user \in User /\ j.post \in PolicyRow /\ Shaped(j)
    BY ActiveIs DEF LibrarySound, PostUnanswered, Handler, Shapes, At
  <1>2. /\ job' = [job EXCEPT ![s] = GivesUp(j)]
        /\ policy' = [policy EXCEPT ![j.user] = j.post]
        /\ UNCHANGED <<code, grant, done, uses, wanted>> /\ Fault(j.user)
    BY DEF PostUnanswered
  <1>3. job' \in [Slot -> Handler \union {NoJob}] /\ Shapes'
    BY <1>1, <1>2, GiveUpShaped, JobPut DEF LibrarySound
  <1>4. Puts(s, j.user) /\ Active(s)
    BY <1>1, <1>2, GiveUpShaped DEF Puts, Same, At, PostUnanswered
  <1> QED BY <1>1, <1>2, <1>3, <1>4, FaultTypes DEF LibrarySound, LibraryTyped, GrantedOnce

LEMMA StopsSound ==
  ASSUME LibrarySound, NEW s \in Slot, Stops(s)
  PROVE  /\ LibrarySound' /\ job[s].user \in User /\ Active(s) /\ Puts(s, job[s].user)
         /\ job[s].user \in loose' /\ (\A v \in loose : v \in loose')
  <1>1. job[s] \in Handler /\ job[s].user \in User
    BY ActiveIs DEF LibrarySound, Stops, Handler
  <1>2. Puts(s, job[s].user) /\ Active(s)
    BY DEF Puts, Stops
  <1> QED BY <1>1, <1>2, JobPut, FaultTypes, JobOnly DEF LibrarySound, Stops

LEMMA NotGone ==
  ASSUME LibrarySound, NEW c \in Code, code[c].status # "gone"
  PROVE  uses[c] = 0
  <1>1. uses[c] \in Nat /\ uses[c] <= 1 /\ uses[c] # 1
    BY DEF LibrarySound, LibraryTyped, GrantedOnce
  <1> QED BY <1>1

LEMMA CompleteSound ==
  ASSUME LibrarySound, NEW s \in Slot, Complete(s)
  PROVE  LibrarySound'
  <1> DEFINE j == job[s]
  <1>1. /\ j \in Handler /\ j.user \in User /\ j.token \in 0..MaxJobs /\ j.todo[1] = "settle" /\ j.todo \in Plans
        /\ Shaped(j)
    BY ActiveIs DEF LibrarySound, Complete, Handler, Shapes, At
  <1>2. j.code \in Code /\ Settling(j)
    BY <1>1, Starts DEF Shaped, Settling
  <1>3. Rest(j) = NoJob
    BY <1>1, Starts, RestOf
  <1>4. job' \in [Slot -> Handler \union {NoJob}] /\ Shapes'
    BY <1>3, JobPut DEF LibrarySound, Complete
  <1>5. CASE Bound(j.user) /\ j.token \notin done /\ Reservation(j)
    <2>1. /\ grant' = [grant EXCEPT ![j.user][PartOf[j.code]] = [status |-> "active", over |-> FALSE, code |-> j.code]]
          /\ code' = [code EXCEPT ![j.code] = Consumed]
          /\ done' = done \union {j.token}
          /\ uses' = [uses EXCEPT ![j.code] = @ + 1]
          /\ UNCHANGED <<loose, policy, wanted, started, faults>>
      BY <1>5 DEF Complete
    <2>2. uses[j.code] = 0
      <3>1. code[j.code].status = "reserved"
        BY <1>5 DEF Reservation
      <3> QED BY <1>2, <3>1, NotGone
    <2>3. GrantedOnce'
      BY <1>2, <2>1, <2>2 DEF LibrarySound, LibraryTyped, GrantedOnce, Consumed
    <2>4. [status |-> "active", over |-> FALSE, code |-> j.code] \in GrantRow
      BY <1>2 DEF GrantRow
    <2>5. grant' \in [User -> [Partition -> GrantRow]]
      BY <1>1, <2>1, <2>4 DEF LibrarySound, LibraryTyped
    <2>6. /\ code' \in [Code -> CodeRow] /\ uses' \in [Code -> Nat] /\ done' \in SUBSET (0..MaxJobs)
      <3>1. code' \in [Code -> CodeRow]
        BY <2>1 DEF LibrarySound, LibraryTyped, CodeRow
      <3>2. uses' \in [Code -> Nat]
        BY <1>2, <2>1 DEF LibrarySound, LibraryTyped
      <3>3. done' \in SUBSET (0..MaxJobs)
        BY <1>1, <2>1 DEF LibrarySound, LibraryTyped
      <3> QED BY <3>1, <3>2, <3>3
    <2> QED BY <1>4, <2>1, <2>3, <2>5, <2>6 DEF LibrarySound, LibraryTyped
  <1>6. CASE ~(Bound(j.user) /\ j.token \notin done /\ Reservation(j))
    <2>1. /\ loose' = loose \union {j.user}
          /\ UNCHANGED <<grant, code, done, uses, policy, wanted, started, faults>>
      BY <1>6 DEF Complete
    <2> QED BY <1>1, <1>4, <2>1 DEF LibrarySound, LibraryTyped, GrantedOnce
  <1> QED BY <1>5, <1>6

LEMMA ReleaseSound ==
  ASSUME LibrarySound, NEW s \in Slot, Release(s)
  PROVE  LibrarySound'
  <1> DEFINE j == job[s]
  <1>1. j \in Handler /\ j.todo[1] = "settle" /\ j.todo \in Plans /\ Shaped(j)
    BY ActiveIs DEF LibrarySound, Release, Handler, Shapes, At
  <1>2. j.code \in Code
    BY <1>1, Starts DEF Shaped, Settling
  <1>3. Rest(j) = NoJob
    BY <1>1, Starts, RestOf
  <1>4. job' \in [Slot -> Handler \union {NoJob}] /\ Shapes'
    BY <1>3, JobPut DEF LibrarySound, Release
  <1>5. CASE Reservation(j)
    <2>1. code' = [code EXCEPT ![j.code] = Available] /\ UNCHANGED <<grant, policy, done, uses, wanted, loose, started, faults>>
      BY <1>5 DEF Release
    <2>2. code[j.code].status = "reserved"
      BY <1>5 DEF Reservation
    <2>3. GrantedOnce'
      BY <1>2, <2>1, <2>2 DEF LibrarySound, LibraryTyped, GrantedOnce
    <2> QED BY <1>2, <1>4, <2>1, <2>3 DEF LibrarySound, LibraryTyped, CodeRow
  <1>6. CASE ~Reservation(j)
    <2>1. UNCHANGED <<code, grant, policy, done, uses, wanted, loose, started, faults>>
      BY <1>6 DEF Release
    <2> QED BY <1>4, <2>1 DEF LibrarySound, LibraryTyped, GrantedOnce
  <1> QED BY <1>5, <1>6

LEMMA MarkExpiredSound ==
  ASSUME LibrarySound, NEW s \in Slot, MarkExpired(s)
  PROVE  /\ LibrarySound' /\ job' = [job EXCEPT ![s] = NoJob]
         /\ grant' \in [User -> [Partition -> GrantRow]]
         /\ \A u \in User \ {job[s].user} : grant'[u] = grant[u]
         /\ \A p \in Partition : grant'[job[s].user][p].status =
              IF p \in job[s].parts /\ grant[job[s].user][p].status # "none"
              THEN "expired" ELSE grant[job[s].user][p].status
  <1> DEFINE j == job[s]
             marked == [p \in Partition |-> IF p \in j.parts /\ grant[j.user][p].status # "none"
                                            THEN [grant[j.user][p] EXCEPT !.status = "expired"] ELSE grant[j.user][p]]
  <1>1. j \in Handler /\ j.user \in User /\ j.todo[1] = "mark" /\ j.todo \in Plans
    BY ActiveIs DEF LibrarySound, MarkExpired, Handler
  <1>3. Rest(j) = NoJob
    BY <1>1, Starts, RestOf
  <1>4. job' = [job EXCEPT ![s] = NoJob]
    BY <1>3 DEF MarkExpired
  <1>5. grant' = [grant EXCEPT ![j.user] = marked] /\ UNCHANGED <<code, policy, done, uses, wanted, loose, started, faults>>
    BY DEF MarkExpired
  <1>6. ASSUME NEW p \in Partition
        PROVE  /\ marked[p] \in GrantRow
               /\ marked[p].status = IF p \in j.parts /\ grant[j.user][p].status # "none"
                                     THEN "expired" ELSE grant[j.user][p].status
    <2>1. grant[j.user][p] \in GrantRow
      BY <1>1 DEF LibrarySound, LibraryTyped
    <2> QED BY <2>1 DEF GrantRow
  <1>7. marked \in [Partition -> GrantRow]
    BY <1>6
  <1>8. \A p \in Partition : grant'[j.user][p] = marked[p]
    BY <1>1, <1>5 DEF LibrarySound, LibraryTyped
  <1> HIDE DEF marked
  <1>9. grant' \in [User -> [Partition -> GrantRow]] /\ \A u \in User \ {j.user} : grant'[u] = grant[u]
    BY <1>1, <1>5, <1>7 DEF LibrarySound, LibraryTyped
  <1>10. LibrarySound'
    BY <1>4, <1>5, <1>9, JobPut DEF LibrarySound, LibraryTyped, GrantedOnce
  <1> QED BY <1>4, <1>6, <1>8, <1>9, <1>10

\* The handlers that members, administrators and the sweep enter.
LEMMA StartSound ==
  ASSUME LibrarySound, NEW j \in Handler, Shaped(j), Start(j)
  PROVE  LibrarySound'
  BY EnterTypes, JobOnly DEF Start, LibrarySound

LEMMA StartLooseSound ==
  ASSUME LibrarySound, NEW j \in Handler, Shaped(j), StartLoose(j)
  PROVE  /\ LibrarySound' /\ j.user \in loose'
         /\ \E s \in Slot : ~Active(s) /\ job' = [job EXCEPT ![s] = j]
         /\ UNCHANGED <<grant, policy, wanted>> /\ loose' = loose \union {j.user}
  <1>1. PICK s \in Slot : ~Active(s) /\ job' = [job EXCEPT ![s] = j]
    BY DEF StartLoose
  <1>2. job' \in [Slot -> Handler \union {NoJob}] /\ Shapes'
    BY <1>1, JobPut DEF LibrarySound
  <1>3. j.user \in User
    BY DEF Handler
  <1>4. loose' \in SUBSET User /\ started' \in 0..MaxJobs /\ faults' \in Nat
    BY <1>3, LibraryFacts DEF StartLoose, Count, LibrarySound, LibraryTyped
  <1>5. UNCHANGED <<code, grant, policy, done, uses, wanted>> /\ loose' = loose \union {j.user}
    BY DEF StartLoose
  <1> QED BY <1>1, <1>2, <1>4, <1>5, JobOnly

LEMMA UnbindSound ==
  ASSUME LibrarySound, NEW u \in User, Unbind(u)
  PROVE  LibrarySound'
  <1>1. [NewPolicy EXCEPT !.bound = FALSE] \in PolicyRow
    BY LibraryFacts DEF PolicyRow
  <1>2. policy' \in [User -> PolicyRow]
    BY <1>1 DEF Unbind, LibrarySound, LibraryTyped
  <1> QED BY <1>2, Kept, LibraryFacts DEF Unbind, Count, LibrarySound, LibraryTyped, GrantedOnce

LEMMA RebindSound ==
  ASSUME LibrarySound, NEW u \in User, Rebind(u)
  PROVE  LibrarySound'
  <1>1. policy' \in [User -> PolicyRow]
    BY LibraryFacts DEF Rebind, LibrarySound, LibraryTyped
  <1>2. wanted' \in [User -> Want]
    BY DEF Rebind, LibrarySound, LibraryTyped, Want
  <1> QED BY <1>1, <1>2, Kept DEF Rebind, LibrarySound, LibraryTyped, GrantedOnce

LEMMA RebindUnhiddenSound ==
  ASSUME LibrarySound, NEW u \in User, RebindUnhidden(u)
  PROVE  LibrarySound'
  <1>1. PICK all \in BOOLEAN : policy' = [policy EXCEPT ![u] = [NewPolicy EXCEPT !.all = all, !.enabled = {}]]
    BY DEF RebindUnhidden
  <1>2. [NewPolicy EXCEPT !.all = all, !.enabled = {}] \in PolicyRow
    BY LibraryFacts DEF PolicyRow
  <1>3. policy' \in [User -> PolicyRow]
    BY <1>1, <1>2 DEF LibrarySound, LibraryTyped
  <1>4. wanted' \in [User -> Want]
    BY DEF RebindUnhidden, LibrarySound, LibraryTyped, Want
  <1>5. loose' \in SUBSET User /\ faults' \in Nat
    BY DEF RebindUnhidden, LibrarySound, LibraryTyped
  <1> QED BY <1>3, <1>4, <1>5, Kept DEF RebindUnhidden, LibrarySound, LibraryTyped, GrantedOnce

LEMMA ExpireSound ==
  ASSUME LibrarySound, NEW u \in User, NEW p \in Partition, Expire(u, p)
  PROVE  LibrarySound' /\ \A v \in User : \A q \in Partition : grant'[v][q].status = grant[v][q].status
  <1>1. grant[u][p] \in GrantRow
    BY DEF LibrarySound, LibraryTyped
  <1>2. PICK g : g = [grant[u][p] EXCEPT !.over = TRUE]
    OBVIOUS
  <1>3. g \in GrantRow /\ g.status = grant[u][p].status
    BY <1>1, <1>2 DEF GrantRow
  <1>4. grant' = [grant EXCEPT ![u][p] = g] /\ UNCHANGED <<code, policy, job, done, uses, wanted, loose, started, faults>>
    BY <1>2 DEF Expire
  <1>5. grant' \in [User -> [Partition -> GrantRow]]
    BY <1>3, <1>4 DEF LibrarySound, LibraryTyped
  <1>6. \A v \in User : \A q \in Partition : grant'[v][q].status = grant[v][q].status
    BY <1>3, <1>4 DEF LibrarySound, LibraryTyped
  <1> QED BY <1>4, <1>5, <1>6, Kept DEF LibrarySound, LibraryTyped, GrantedOnce

LEMMA CreateCodeSound ==
  ASSUME LibrarySound, NEW c \in Code, CreateCode(c)
  PROVE  LibrarySound'
  <1>1. uses[c] = 0
    BY NotGone DEF CreateCode
  <1>2. code' \in [Code -> CodeRow]
    BY DEF CreateCode, LibrarySound, LibraryTyped, CodeRow
  <1>3. GrantedOnce'
    BY <1>1 DEF CreateCode, LibrarySound, LibraryTyped, GrantedOnce
  <1> QED BY <1>2, <1>3, Kept DEF CreateCode, LibrarySound, LibraryTyped

LEMMA LapseSound ==
  ASSUME LibrarySound, NEW c \in Code, Lapse(c)
  PROVE  LibrarySound'
  <1>1. code[c] \in Reserved
    BY DEF Lapse, LibrarySound, LibraryTyped, CodeRow, Unborn, Available, Consumed
  <1>2. PICK r : r = [code[c] EXCEPT !.stale = TRUE]
    OBVIOUS
  <1>3. r \in Reserved /\ r.status = "reserved"
    BY <1>1, <1>2 DEF Reserved
  <1>4. code' = [code EXCEPT ![c] = r] /\ UNCHANGED <<grant, policy, job, done, uses, wanted, loose, started, faults>>
    BY <1>2 DEF Lapse
  <1>5. GrantedOnce'
    BY <1>3, <1>4 DEF Lapse, LibrarySound, LibraryTyped, GrantedOnce
  <1> QED BY <1>3, <1>4, <1>5, Kept DEF LibrarySound, LibraryTyped, CodeRow

LEMMA ReserveSound ==
  ASSUME LibrarySound, NEW u \in User, NEW c \in Code, Reserve(u, c)
  PROVE  LibrarySound'
  <1>1. started \in 0..MaxJobs /\ Enter(Redemption(u, c, started))
    BY DEF Reserve, LibrarySound, LibraryTyped
  <1>2. PICK j : j = Redemption(u, c, started)
    OBVIOUS
  <1>3. j \in Handler /\ Shaped(j)
    <2>1. /\ j \in Handler /\ j.user = u /\ j.op = "show" /\ j.libs = LibsOf[PartOf[c]]
          /\ j.todo = <<"read", "get", "post", "settle">> /\ j.code = c
      BY <1>1, <1>2, RedemptionPlan
    <2>2. ~Marking(j)
      BY <2>1 DEF Marking, ToMark
    <2> QED BY <2>1, <2>2 DEF Shaped
  <1>4. /\ job' \in [Slot -> Handler \union {NoJob}] /\ Shapes'
        /\ loose' \in SUBSET User /\ started' \in 0..MaxJobs /\ faults' \in Nat
    BY <1>1, <1>2, <1>3, EnterTypes DEF LibrarySound
  <1>5. PICK r : r = [status |-> "reserved", by |-> u, token |-> started, stale |-> FALSE]
    OBVIOUS
  <1>6. r \in Reserved /\ r.status = "reserved"
    BY <1>1, <1>5 DEF Reserved
  <1>7. code' = [code EXCEPT ![c] = r] /\ UNCHANGED <<grant, policy, done, uses, wanted>>
    BY <1>5 DEF Reserve
  <1>8. GrantedOnce'
    BY <1>6, <1>7 DEF Reserve, LibrarySound, LibraryTyped, GrantedOnce
  <1> QED BY <1>4, <1>6, <1>7, <1>8 DEF LibrarySound, LibraryTyped, CodeRow

LEMMA ReserveAgainSound ==
  ASSUME LibrarySound, NEW u \in User, NEW c \in Code, ReserveAgain(u, c)
  PROVE  LibrarySound'
  <1>1. code[c] \in Reserved
    BY DEF ReserveAgain, LibrarySound, LibraryTyped, CodeRow, Unborn, Available, Consumed
  <1>2. code[c].token \in 0..MaxJobs
    BY <1>1 DEF Reserved
  <1>3. PICK j : j = Redemption(u, c, code[c].token)
    OBVIOUS
  <1>4. /\ j \in Handler /\ j.user = u /\ j.op = "show" /\ j.libs = LibsOf[PartOf[c]]
        /\ j.todo = <<"read", "get", "post", "settle">> /\ j.code = c
    BY <1>2, <1>3, RedemptionPlan
  <1>5. ~Marking(j)
    BY <1>4 DEF Marking, ToMark
  <1>6. Shaped(j)
    BY <1>4, <1>5 DEF Shaped
  <1> QED BY <1>3, <1>4, <1>6, StartSound DEF ReserveAgain

LEMMA ClearCodesSound ==
  ASSUME LibrarySound, NEW cs \in SUBSET Code, ClearCodes(cs)
  PROVE  LibrarySound'
  <1>1. code' \in [Code -> CodeRow]
    BY DEF ClearCodes, LibrarySound, LibraryTyped, CodeRow
  <1>2. GrantedOnce'
    BY DEF ClearCodes, LibrarySound, LibraryTyped, GrantedOnce, Unused
  <1> QED BY <1>1, <1>2, Kept, LibraryFacts DEF ClearCodes, Count, LibrarySound, LibraryTyped

LEMMA ClearGrantsSound ==
  ASSUME LibrarySound, NEW gs, ClearGrants(gs)
  PROVE  LibrarySound'
  <1>1. NoGrant \in GrantRow
    BY DEF NoGrant, GrantRow
  <1>2. grant' \in [User -> [Partition -> GrantRow]]
    BY <1>1 DEF ClearGrants, LibrarySound, LibraryTyped
  <1>3. loose' \in SUBSET User
    BY DEF ClearGrants, LibrarySound, LibraryTyped
  <1> QED BY <1>2, <1>3, Kept, LibraryFacts DEF ClearGrants, Count, LibrarySound, LibraryTyped, GrantedOnce

LEMMA ClearAllSound ==
  ASSUME LibrarySound, ClearAll
  PROVE  LibrarySound'
  <1>1. NoGrant \in GrantRow
    BY DEF NoGrant, GrantRow
  <1>2. grant' \in [User -> [Partition -> GrantRow]] /\ loose' \in SUBSET User
    BY <1>1 DEF ClearAll, LibrarySound, LibraryTyped
  <1>3. code' \in [Code -> CodeRow]
    BY DEF ClearAll, LibrarySound, LibraryTyped, CodeRow
  <1>4. GrantedOnce'
    BY DEF ClearAll, LibrarySound, LibraryTyped, GrantedOnce, Unused
  <1> QED BY <1>2, <1>3, <1>4, Kept, LibraryFacts DEF ClearAll, Count, LibrarySound, LibraryTyped

\* What members, administrators and the sweep start.
LEMMA BlockPlans ==
  ASSUME NEW u \in User, NEW op \in {"show", "hide"}, NEW libs \in {Block, Extra}
  PROVE  Folders(u, op, libs) \in Handler /\ Shaped(Folders(u, op, libs))
  <1>1. PICK j : j = Folders(u, op, libs)
    OBVIOUS
  <1>2. j \in Handler /\ j.todo = <<"read", "get", "post">>
    BY <1>1, LibraryFacts, FoldersPlan DEF Ops
  <1>3. ~Settling(j) /\ ~Marking(j)
    BY <1>2 DEF Settling, Marking, ToSettle, ToMark
  <1> QED BY <1>1, <1>2, <1>3 DEF Shaped

LEMMA EveryPlans ==
  ASSUME NEW u \in User, NEW op \in Ops
  PROVE  EveryFolder(u, op) \in Handler /\ Shaped(EveryFolder(u, op))
  <1>1. PICK j : j = EveryFolder(u, op)
    OBVIOUS
  <1>2. j \in Handler /\ j.todo = <<"get", "post">>
    BY <1>1, EveryPlan
  <1>3. ~Settling(j) /\ ~Marking(j)
    BY <1>2 DEF Settling, Marking, ToSettle, ToMark
  <1> QED BY <1>1, <1>2, <1>3 DEF Shaped

LEMMA SweepPlans ==
  ASSUME NEW u \in User, LibraryTyped
  PROVE  SweepOf(u) \in Handler /\ Shaped(SweepOf(u))
  <1>1. PICK j : j = SweepOf(u)
    OBVIOUS
  <1>2. j \in Handler /\ j.op = "hide" /\ j.todo \in {<<"read", "get", "post", "mark">>, <<"mark">>}
    BY <1>1, SweepPlan
  <1>3. ~Settling(j)
    BY <1>2 DEF Settling, ToSettle
  <1> QED BY <1>1, <1>2, <1>3 DEF Shaped

LEMMA AdminSound ==
  ASSUME LibrarySound, NEW u \in User,
         ExtraLibUnblock(u) \/ ExtraLibBlock(u) \/ LibsUnblockAll(u) \/ LibsBlockAll(u)
  PROVE  \E j \in Handler : Shaped(j) /\ StartLoose(j) /\ j.user = u
  <1>1. "show" \in Ops /\ "hide" \in Ops /\ "showAll" \in Ops /\ "hideAll" \in Ops /\ Extra \in SUBSET Lib
    BY LibraryFacts DEF Ops
  <1>2. CASE ExtraLibUnblock(u)
    BY <1>1, <1>2, BlockPlans, FoldersPlan DEF ExtraLibUnblock
  <1>3. CASE ExtraLibBlock(u)
    BY <1>1, <1>3, BlockPlans, FoldersPlan DEF ExtraLibBlock
  <1>4. CASE LibsUnblockAll(u)
    BY <1>1, <1>4, EveryPlans, EveryPlan DEF LibsUnblockAll
  <1>5. CASE LibsBlockAll(u)
    BY <1>1, <1>5, EveryPlans, EveryPlan DEF LibsBlockAll
  <1> QED BY <1>2, <1>3, <1>4, <1>5

LEMMA LibraryInitSound == LibraryInit => LibrarySound
  <1> SUFFICES ASSUME LibraryInit PROVE LibrarySound
    OBVIOUS
  <1>1. LibraryTyped
    BY LibraryFacts DEF LibraryInit, LibraryTyped, CodeRow, NoGrant, GrantRow, Want
  <1>2. Shapes
    BY DEF LibraryInit, Shapes, Active, NoJob
  <1>3. GrantedOnce
    BY DEF LibraryInit, GrantedOnce
  <1> QED BY <1>1, <1>2, <1>3 DEF LibrarySound

LEMMA LibraryStepSound == LibrarySound /\ [LibraryNext]_vars => LibrarySound'
  <1> SUFFICES ASSUME LibrarySound, [LibraryNext]_vars PROVE LibrarySound'
    OBVIOUS
  <1>1. ASSUME NEW s \in Slot, JobStep(s) PROVE LibrarySound'
    <2>1. CASE EmbyStep(s)
      BY <2>1, ReadFoldersSound, ReadNothingSound, FindsNoneSound, GetPolicySound, FailsSound, GetDefaultSound,
         PostPolicySound, PostUnansweredSound, StopsSound, Zenon DEF EmbyStep, GetFails
    <2>2. CASE ~EmbyStep(s)
      BY <1>1, <2>2, CompleteSound, ReleaseSound, MarkExpiredSound, Zenon DEF JobStep
    <2> QED BY <2>1, <2>2
  <1>2. ASSUME NEW u \in User, UserStep(u) PROVE LibrarySound'
    <2>1. CASE Sweep(u)
      BY <2>1, SweepPlans, StartSound, Zenon DEF Sweep, LibrarySound, SweepOf
    <2>2. CASE UserEmbyBlock(u) \/ UserEmbyUnblock(u)
      BY <2>2, BlockPlans, StartSound DEF UserEmbyBlock, UserEmbyUnblock
    <2>3. CASE Ban(u) \/ Pardon(u)
      <3>1. "disable" \in Ops /\ "restore" \in Ops
        BY DEF Ops
      <3> QED BY <2>3, <3>1, EveryPlans, StartSound, Zenon DEF Ban, Pardon, ChangePolicy
    <2>4. CASE \/ ExtraLibUnblock(u) \/ ExtraLibBlock(u) \/ LibsUnblockAll(u) \/ LibsBlockAll(u)
               \/ ExtraLibsUnblockAll(u) \/ ExtraLibsBlockAll(u)
      BY <2>4, AdminSound, StartLooseSound, Zenon DEF ExtraLibsUnblockAll, ExtraLibsBlockAll
    <2>5. CASE Unbind(u) \/ Rebind(u) \/ RebindUnhidden(u)
      BY <2>5, UnbindSound, RebindSound, RebindUnhiddenSound
    <2> QED BY <1>2, <2>1, <2>2, <2>3, <2>4, <2>5, Zenon DEF UserStep
  <1>3. ASSUME NEW c \in Code, CreateCode(c) \/ Lapse(c) \/ DeleteByCode(c) PROVE LibrarySound'
    <2>1. {c} \in SUBSET Code
      OBVIOUS
    <2> QED BY <1>3, <2>1, CreateCodeSound, LapseSound, ClearCodesSound, ClearGrantsSound, Zenon DEF DeleteByCode
  <1>4. ASSUME NEW c \in Code, NEW u \in User, Reserve(u, c) \/ ReserveAgain(u, c) PROVE LibrarySound'
    BY <1>4, ReserveSound, ReserveAgainSound
  <1>5. CASE ClearUnused \/ ClearUsed \/ ClearAll
    <2>1. Code \in SUBSET Code
      OBVIOUS
    <2> QED BY <1>5, <2>1, ClearCodesSound, ClearGrantsSound, ClearAllSound, Zenon DEF ClearUnused, ClearUsed
  <1>6. ASSUME NEW u \in User, NEW p \in Partition, Expire(u, p) PROVE LibrarySound'
    BY <1>6, ExpireSound
  <1>7. CASE UNCHANGED vars
    BY <1>7, Kept DEF vars, LibrarySound, LibraryTyped, GrantedOnce
  <1> QED BY <1>1, <1>2, <1>3, <1>4, <1>5, <1>6, <1>7, Zenon DEF LibraryNext

LEMMA SoundCodes == LibrarySound => CodesSound
  <1> SUFFICES ASSUME LibrarySound PROVE CodesSound
    OBVIOUS
  <1>1. \A c \in Code : code[c].status \in {"unborn", "available", "reserved", "gone"}
    BY DEF LibrarySound, LibraryTyped, CodeRow, Unborn, Available, Consumed, Reserved
  <1> QED BY <1>1 DEF CodesSound, LibrarySound, TypeOK, LibraryTyped, PolicyRow, GrantRow

\* Nothing of user u changes.
Untouched(u) ==
    policy'[u] = policy[u] /\ wanted'[u] = wanted[u] /\ Granted(u)' = Granted(u)
Owns(s, u) == Active(s) /\ job[s].user = u

\* Calm, kept for users a step is not about.
LEMMA GrantedSame ==
  ASSUME NEW u \in User, \A p \in Partition : grant'[u][p].status = grant[u][p].status
  PROVE  Granted(u)' = Granted(u)
  BY DEF Granted

LEMMA Aside ==
  ASSUME NEW u \in User, Calm(u), Untouched(u),
         \A s \in Slot : job'[s] = job[s] \/ (~Owns(s, u) /\ ~Owns(s, u)')
  PROVE  Calm(u)'
  <1>1. Granted(u)' = Granted(u)
    BY DEF Untouched
  <1>2. \A s \in Slot : Owns(s, u)' => Owns(s, u) /\ job'[s] = job[s]
    BY DEF Owns, Active
  <1>3. \A s \in Slot : Owns(s, u) => Owns(s, u)'
    BY DEF Owns, Active
  <1>4. Busy(u)' <=> Busy(u)
    BY <1>2, <1>3 DEF Busy, Owns
  <1>5. /\ \A s \in Slot : Owns(s, u)' => OnTrack(job'[s], policy'[u], wanted'[u], Granted(u)')
        /\ \A s, t \in Slot : Owns(s, u)' /\ Owns(t, u)' => s = t
        /\ ~Busy(u)' => InOrder(policy'[u], wanted'[u], Covered(Granted(u)'))
    <2>1. \A s \in Slot : Owns(s, u) => OnTrack(job[s], policy[u], wanted[u], Granted(u))
      BY DEF Calm, Owns
    <2>2. \A s, t \in Slot : Owns(s, u) /\ Owns(t, u) => s = t
      BY DEF Calm, Owns
    <2>3. ~Busy(u) => InOrder(policy[u], wanted[u], Covered(Granted(u)))
      BY DEF Calm
    <2>4. \A s \in Slot : Owns(s, u)' => OnTrack(job'[s], policy'[u], wanted'[u], Granted(u)')
      <3> SUFFICES ASSUME NEW s \in Slot, Owns(s, u)'
                   PROVE  OnTrack(job'[s], policy'[u], wanted'[u], Granted(u)')
        OBVIOUS
      <3>1. OnTrack(job[s], policy[u], wanted[u], Granted(u)) /\ job'[s] = job[s]
        BY <1>2, <2>1
      <3> QED BY <1>1, <3>1 DEF Untouched
    <2>5. ~Busy(u)' => InOrder(policy'[u], wanted'[u], Covered(Granted(u)'))
      BY <1>1, <1>4, <2>3 DEF Untouched
    <2> QED BY <1>2, <2>2, <2>4, <2>5
  <1> QED BY <1>5 DEF Calm, Owns

LEMMA PutsAside ==
  ASSUME LibrarySound, NEW s \in Slot, NEW w, Puts(s, w), ~Active(s) \/ job[s].user = w,
         NEW u \in User, u # w, Calm(u), Untouched(u)
  PROVE  Calm(u)'
  <1>1. PICK r \in Handler \union {NoJob} : job' = [job EXCEPT ![s] = r] /\ (r = NoJob \/ r.user = w)
    BY DEF Puts
  <1>2. job \in [Slot -> Handler \union {NoJob}]
    BY DEF LibrarySound, LibraryTyped
  <1>3. \A t \in Slot \ {s} : job'[t] = job[t]
    BY <1>1, <1>2
  <1>4. job'[s] = r
    BY <1>1, <1>2
  <1>5. ~Owns(s, u)
    BY DEF Owns
  <1>6. ~Owns(s, u)'
    <2>1. r = NoJob => r.todo = <<>>
      BY DEF NoJob
    <2> QED BY <1>1, <1>4, <2>1 DEF Owns, Active
  <1> QED BY <1>3, <1>5, <1>6, Aside

\* A user's own handler goes on, ends, or is entered.
LEMMA GoesOn ==
  ASSUME LibrarySound, NEW u \in User, Calm(u), NEW s \in Slot, Owns(s, u) \/ ~Busy(u), NEW r \in Handler, r.user = u,
         job' = [job EXCEPT ![s] = r], OnTrack(r, policy'[u], wanted'[u], Granted(u)')
  PROVE  Calm(u)'
  <1>1. job \in [Slot -> Handler \union {NoJob}]
    BY DEF LibrarySound, LibraryTyped
  <1>2. job'[s] = r /\ \A t \in Slot \ {s} : job'[t] = job[t]
    BY <1>1
  <1>3. \A t \in Slot \ {s} : ~Owns(t, u)
    BY DEF Calm, Owns, Busy
  <1>4. \A t \in Slot \ {s} : ~(job'[t].todo # <<>> /\ job'[t].user = u)
    BY <1>2, <1>3 DEF Owns, Active
  <1>5. r.todo # <<>>
    BY Starts DEF Handler
  <1>6. Busy(u)'
    BY <1>2, <1>5 DEF Busy, Active
  <1>7. \A t \in Slot : Active(t)' /\ job'[t].user = u => t = s
    BY <1>4 DEF Active
  <1>8. \A t \in Slot : Active(t)' /\ job'[t].user = u => OnTrack(job'[t], policy'[u], wanted'[u], Granted(u)')
    BY <1>2, <1>7
  <1> QED BY <1>6, <1>7, <1>8 DEF Calm

LEMMA Ends ==
  ASSUME LibrarySound, NEW u \in User, Calm(u), NEW s \in Slot, Owns(s, u),
         job' = [job EXCEPT ![s] = NoJob], InOrder(policy'[u], wanted'[u], Covered(Granted(u)'))
  PROVE  Calm(u)'
  <1>1. job \in [Slot -> Handler \union {NoJob}]
    BY DEF LibrarySound, LibraryTyped
  <1>2. job'[s] = NoJob /\ \A t \in Slot \ {s} : job'[t] = job[t]
    BY <1>1
  <1>3. \A t \in Slot \ {s} : ~Owns(t, u)
    BY DEF Calm, Owns
  <1>4. \A t \in Slot : ~(Active(t)' /\ job'[t].user = u)
    BY <1>2, <1>3 DEF Owns, Active, NoJob
  <1> QED BY <1>4 DEF Calm

\* A handler that fails leaves a disturbed user.
LEMMA FaultCalm ==
  ASSUME LibrarySound, AllCalm, NEW s \in Slot, NEW w \in User, Active(s), job[s].user = w, Puts(s, w),
         \A u \in User \ {w} : Untouched(u), w \in loose', \A u \in loose : u \in loose'
  PROVE  AllCalm'
  <1> SUFFICES ASSUME NEW u \in User, u \notin loose' PROVE Calm(u)'
    BY DEF AllCalm
  <1> QED BY PutsAside DEF AllCalm

\* No handler changes, and nobody who stays undisturbed.
LEMMA IdleCalm ==
  ASSUME LibrarySound, AllCalm, UNCHANGED job,
         \A u \in User : u \notin loose' => u \notin loose /\ Untouched(u)
  PROVE  AllCalm'
  <1> SUFFICES ASSUME NEW u \in User, u \notin loose' PROVE Calm(u)'
    BY DEF AllCalm
  <1>1. Calm(u) /\ Untouched(u)
    BY DEF AllCalm
  <1>2. \A s \in Slot : job'[s] = job[s]
    OBVIOUS
  <1> QED BY <1>1, <1>2, Aside

\* A handler stays on track.
LEMMA PurposeKept ==
  ASSUME NEW j \in Handler, NEW r \in Handler, NEW g, Same(r, j), r.todo = Tail(j.todo), Purpose(j, g),
         j.todo[1] \in {"read", "get"}
  PROVE  Purpose(r, g) /\ Shows(r, g) = Shows(j, g)
  <1>1. j.todo \in Plans /\ r.todo \in Plans
    BY DEF Handler
  <1>0. j.todo[1] \in {"read", "get", "post"}
    OBVIOUS
  <1>2. (Settling(r) <=> Settling(j)) /\ (Marking(r) <=> Marking(j))
    BY <1>0, KindKept
  <1>3. j.todo \in ToPost => r.todo \in ToPost
    BY <1>1, Steps, Starts DEF ToPost
  <1>4. Marking(j) => j.todo \in ToMark
    BY DEF Marking
  <1>5. /\ j.todo # <<"settle">> /\ j.todo # <<"mark">>
        /\ r.todo # <<"settle">> /\ r.todo # <<"mark">>
    <2>1. j.todo \in {<<"read", "get", "post">>, <<"read", "get", "post", "settle">>, <<"read", "get", "post", "mark">>,
                      <<"get", "post">>, <<"get", "post", "settle">>, <<"get", "post", "mark">>}
      BY <1>1, Starts
    <2>2. Tail(j.todo) \in {<<"get", "post">>, <<"get", "post", "settle">>, <<"get", "post", "mark">>,
                            <<"post">>, <<"post", "settle">>, <<"post", "mark">>}
      BY <2>1, Steps
    <2>3. \A t \in {<<"get", "post">>, <<"get", "post", "settle">>, <<"get", "post", "mark">>,
                    <<"post">>, <<"post", "settle">>, <<"post", "mark">>} : t # <<"settle">> /\ t # <<"mark">>
      OBVIOUS
    <2>4. \A t \in {<<"read", "get", "post">>, <<"read", "get", "post", "settle">>, <<"read", "get", "post", "mark">>} :
            t # <<"settle">> /\ t # <<"mark">>
      OBVIOUS
    <2> QED BY <2>1, <2>2, <2>3, <2>4
  <1>6. Shows(r, g) = Shows(j, g)
    <2>1. r.libs = j.libs
      BY DEF Same
    <2> QED BY <1>5, <2>1 DEF Shows
  <1>7. Purpose(r, g)
    BY <1>2, <1>3, <1>4 DEF Purpose, Same
  <1> QED BY <1>6, <1>7

LEMMA ReadTrack ==
  ASSUME NEW j \in Handler, NEW r \in Handler, NEW p \in PolicyRow, NEW w, NEW g,
         Same(r, j), r.todo = Tail(j.todo), r.ok = j.ok, r.seen = p.enabled, r.all = FALSE,
         j.todo[1] = "read", OnTrack(j, p, w, g)
  PROVE  OnTrack(r, p, w, g)
  <1>1. Purpose(r, g) /\ Shows(r, g) = Shows(j, g)
    BY PurposeKept DEF OnTrack
  <1>2. r.todo[1] = "get"
    BY Starts, Steps DEF Handler
  <1>3. Remembers(r, p)
    BY <1>2 DEF Remembers
  <1> QED BY <1>1, <1>3 DEF OnTrack

LEMMA GetTrack ==
  ASSUME NEW j \in Handler, NEW r \in Handler, NEW p \in PolicyRow, NEW w, NEW g,
         Same(r, j), r.todo = Tail(j.todo), r.ok = j.ok, r.post = Posted(j, p),
         j.todo[1] = "get", OnTrack(j, p, w, g)
  PROVE  OnTrack(r, p, w, g)
  <1>1. Purpose(r, g) /\ Shows(r, g) = Shows(j, g)
    BY PurposeKept DEF OnTrack
  <1>2. r.todo[1] = "post"
    BY Starts, Steps DEF Handler
  <1>3. j.op \in {"disable", "restore", "show", "hide"} /\ ~p.all
    BY DEF OnTrack, Purpose, InOrder
  <1>6. r.op = j.op /\ r.libs = j.libs
    BY DEF Same
  <1>7. p.all = FALSE
    BY <1>3 DEF PolicyRow
  <1>4. CASE j.op \in {"show", "hide"}
    <2>1. j.seen = p.enabled /\ ~j.all
      BY <1>4 DEF OnTrack, Remembers
    <2>2. CASE j.op = "show"
      <3>1. r.post = [p EXCEPT !.all = FALSE, !.enabled = p.enabled \union j.libs]
        BY <2>1, <2>2 DEF Posted
      <3>2. r.post.bound = p.bound /\ r.post.all = FALSE /\ r.post.off = p.off /\ r.post.enabled = p.enabled \union j.libs
        BY <3>1 DEF PolicyRow
      <3>3. Remembers(r, p)
        BY <1>2, <1>7, <1>6, <2>2, <3>2 DEF Remembers
      <3> QED BY <1>1, <3>3 DEF OnTrack
    <2>3. CASE j.op = "hide"
      <3>1. r.post = [p EXCEPT !.all = FALSE, !.enabled = p.enabled \ j.libs]
        BY <2>1, <2>3 DEF Posted
      <3>2. r.post.bound = p.bound /\ r.post.all = FALSE /\ r.post.off = p.off /\ r.post.enabled = p.enabled \ j.libs
        BY <3>1 DEF PolicyRow
      <3>3. Remembers(r, p)
        BY <1>2, <1>7, <1>6, <2>3, <3>2 DEF Remembers
      <3> QED BY <1>1, <3>3 DEF OnTrack
    <2> QED BY <1>4, <2>2, <2>3
  <1>5. CASE j.op \in {"disable", "restore"}
    <2>0. r.post = [p EXCEPT !.off = (j.op = "disable")]
      BY <1>5 DEF Posted
    <2>2. r.post.bound = p.bound /\ r.post.all = p.all /\ r.post.off = (j.op = "disable") /\ r.post.enabled = p.enabled
      BY <2>0 DEF PolicyRow
    <2>1. Remembers(r, p)
      BY <1>2, <1>5, <1>6, <2>2 DEF Remembers
    <2> QED BY <1>1, <2>1 DEF OnTrack
  <1> QED BY <1>3, <1>4, <1>5

\* What is posted is right again: the libraries of the partitions that are to
\* be seen, and what is wanted otherwise.
LEMMA PostTrack ==
  ASSUME NEW j \in Handler, Shaped(j), NEW p \in PolicyRow, NEW w \in Want, NEW g \in SUBSET Partition, NEW v,
         j.todo[1] = "post", OnTrack(j, p, w, g),
         v.off = IF j.op \in {"disable", "restore"} THEN j.op = "disable" ELSE w.off,
         v.block = IF j.op \in {"show", "hide"} /\ j.libs = Block THEN j.op = "show" ELSE w.block
  PROVE  InOrder(j.post, v, IF Settling(j) THEN Covered(g) \union j.libs
                          ELSE IF Marking(j) THEN Covered(g) \ j.libs ELSE Covered(g))
  <1>1. j.todo \in {<<"post">>, <<"post", "settle">>, <<"post", "mark">>}
    BY Starts DEF Handler
  <1>2. InOrder(p, w, Covered(g))
    BY <1>1 DEF OnTrack, Shows
  <1>3. /\ j.post.bound /\ ~j.post.all
        /\ j.post.off = v.off
    BY <1>2 DEF OnTrack, Remembers, InOrder
  <1>4. /\ Covered(g) \subseteq Covered(Partition) /\ Block \intersect Extra = {} /\ Covered(Partition) \subseteq Extra
        /\ p.enabled \intersect Covered(Partition) = Covered(g)
        /\ p.enabled \intersect Block = IF w.block THEN Block ELSE {}
        /\ Lib \ (Block \union Extra) \subseteq p.enabled
    BY <1>2, LibraryFacts DEF InOrder
  <1>5. CASE j.op \in {"disable", "restore"}
    <2>1. ~Settling(j) /\ ~Marking(j)
      BY <1>5 DEF Shaped
    <2>2. j.post.enabled = p.enabled /\ v.block = w.block
      BY <1>5 DEF OnTrack, Remembers
    <2> QED BY <1>3, <1>4, <2>1, <2>2 DEF InOrder
  <1>6. CASE j.op \in {"show", "hide"} /\ j.todo \in ToPost /\ j.libs = Block
    <2>1. ~Settling(j) /\ ~Marking(j)
      BY <1>6 DEF Settling, Marking, ToPost, ToSettle, ToMark
    <2>2. CASE j.op = "show"
      <3>1. j.post.enabled = p.enabled \union Block /\ v.block
        BY <1>6, <2>2 DEF OnTrack, Remembers
      <3>2. /\ j.post.enabled \intersect Covered(Partition) = Covered(g)
            /\ j.post.enabled \intersect Block = Block
            /\ Lib \ (Block \union Extra) \subseteq j.post.enabled
        BY <1>4, <3>1
      <3> QED BY <1>3, <2>1, <3>1, <3>2 DEF InOrder
    <2>3. CASE j.op = "hide"
      <3>1. j.post.enabled = p.enabled \ Block /\ ~v.block
        BY <1>6, <2>3 DEF OnTrack, Remembers
      <3>2. /\ j.post.enabled \intersect Covered(Partition) = Covered(g)
            /\ j.post.enabled \intersect Block = {}
            /\ Lib \ (Block \union Extra) \subseteq j.post.enabled
        BY <1>4, <3>1
      <3> QED BY <1>3, <2>1, <3>1, <3>2 DEF InOrder
    <2> QED BY <1>6, <2>2, <2>3
  <1>7. CASE j.op = "show" /\ Settling(j)
    <2>1. j.libs \subseteq Covered(Partition) /\ j.libs # {}
      BY <1>7, LibraryFacts DEF Shaped
    <2>2. j.libs # Block
      BY <1>4, <2>1
    <2>3. j.post.enabled = p.enabled \union j.libs /\ v.block = w.block
      BY <1>7, <2>2 DEF OnTrack, Remembers
    <2>4. /\ j.post.enabled \intersect Covered(Partition) = Covered(g) \union j.libs
          /\ j.post.enabled \intersect Block = IF v.block THEN Block ELSE {}
          /\ Lib \ (Block \union Extra) \subseteq j.post.enabled
      BY <1>4, <2>1, <2>3
    <2> QED BY <1>3, <1>7, <2>4 DEF InOrder
  <1>8. CASE j.op = "hide" /\ Marking(j) /\ j.parts \subseteq g /\ j.libs = Covered(j.parts) \ Covered(g \ j.parts)
             /\ j.libs # {}
    <2>1. j.libs \subseteq Covered(Partition)
      BY <1>8, LibraryFacts
    <2>2. j.libs # Block /\ ~Settling(j)
      BY <1>4, <1>8, <2>1 DEF Shaped
    <2>3. j.post.enabled = p.enabled \ j.libs /\ v.block = w.block
      BY <1>8, <2>2 DEF OnTrack, Remembers
    <2>4. /\ j.post.enabled \intersect Covered(Partition) = Covered(g) \ j.libs
          /\ j.post.enabled \intersect Block = IF v.block THEN Block ELSE {}
          /\ Lib \ (Block \union Extra) \subseteq j.post.enabled
      BY <1>4, <2>1, <2>3
    <2> QED BY <1>3, <1>8, <2>2, <2>4 DEF InOrder
  <1>9. Marking(j) => j.todo \in ToMark
    BY DEF Marking
  <1> QED BY <1>5, <1>6, <1>7, <1>8, <1>9 DEF OnTrack, Purpose

\* Calm, action by action.
LEMMA OwnTrack ==
  ASSUME LibrarySound, NEW s \in Slot, Active(s), NEW u \in User, job[s].user = u, Calm(u)
  PROVE  /\ OnTrack(job[s], policy[u], wanted[u], Granted(u))
         /\ policy[u] \in PolicyRow /\ wanted[u] \in Want /\ Granted(u) \in SUBSET Partition
         /\ job[s] \in Handler /\ Shaped(job[s]) /\ Owns(s, u)
  <1>1. OnTrack(job[s], policy[u], wanted[u], Granted(u))
    BY DEF Calm
  <1>2. job[s] \in Handler /\ Shaped(job[s]) /\ Owns(s, u)
    BY ActiveIs DEF LibrarySound, Shapes, Owns
  <1>3. policy[u] \in PolicyRow /\ wanted[u] \in Want /\ Granted(u) \in SUBSET Partition
    BY DEF LibrarySound, LibraryTyped, Granted
  <1> QED BY <1>1, <1>2, <1>3

LEMMA ReadFoldersCalm ==
  ASSUME LibrarySound, AllCalm, NEW s \in Slot, ReadFolders(s)
  PROVE  AllCalm'
  <1>1. /\ At(s, "read") /\ Active(s)
        /\ job' = [job EXCEPT ![s] = [Rest(job[s]) EXCEPT !.seen = Visible(job[s].user), !.all = policy[job[s].user].all]]
        /\ UNCHANGED <<grant, policy, wanted, loose>>
    BY DEF ReadFolders, At
  <1>2. PICK w \in User : w = job[s].user
    BY <1>1, ActiveIs DEF LibrarySound, Handler
  <1>3. policy[w] \in PolicyRow
    BY <1>2 DEF LibrarySound, LibraryTyped
  <1>4. Visible(w) \in SUBSET Lib /\ policy[w].all \in BOOLEAN
    BY <1>3 DEF Visible, PolicyRow
  <1>5. PICK r0 \in Handler : job' = [job EXCEPT ![s] = r0] /\ Same(r0, job[s])
    <2>1. Visible(job[s].user) \in SUBSET Lib /\ policy[job[s].user].all \in BOOLEAN
      BY <1>2, <1>4
    <2> QED BY <1>1, <2>1, ReadPuts
  <1>8. Puts(s, w)
    BY <1>2, <1>5 DEF Puts, Same
  <1> SUFFICES ASSUME NEW u \in User, u \notin loose' PROVE Calm(u)'
    BY DEF AllCalm
  <1>9. Calm(u) /\ Untouched(u)
    BY <1>1 DEF AllCalm, Untouched, Granted
  <1>10. CASE u # w
    BY <1>2, <1>8, <1>9, <1>10, PutsAside
  <1>11. CASE u = w
    <2>1. /\ OnTrack(job[s], policy[u], wanted[u], Granted(u)) /\ Owns(s, u)
          /\ job[s] \in Handler /\ job[s].todo[1] = "read"
      BY <1>1, <1>2, <1>9, <1>11, OwnTrack, ActiveIs DEF LibrarySound
    <2>2. ~policy[u].all
      BY <2>1 DEF OnTrack, InOrder
    <2>3. Visible(job[s].user) = policy[u].enabled /\ policy[job[s].user].all = FALSE /\ policy[u].enabled \in SUBSET Lib
      BY <1>2, <1>3, <1>4, <1>11, <2>2 DEF Visible, PolicyRow
    <2>6. job' = [job EXCEPT ![s] = [Rest(job[s]) EXCEPT !.seen = policy[u].enabled, !.all = FALSE]]
      BY <1>1, <2>3
    <2>7. PICK r \in Handler :
             /\ job' = [job EXCEPT ![s] = r]
             /\ Same(r, job[s]) /\ Shaped(r) /\ r.todo = Tail(job[s].todo)
             /\ r.ok = job[s].ok /\ r.seen = policy[u].enabled /\ r.all = FALSE
      BY <1>1, <2>3, <2>6, ReadPuts
    <2>8. r.user = u
      BY <1>2, <1>11, <2>7 DEF Same
    <2>4. OnTrack(r, policy[u], wanted[u], Granted(u))
      BY <1>3, <1>11, <2>1, <2>7, ReadTrack
    <2>5. OnTrack(r, policy'[u], wanted'[u], Granted(u)')
      BY <1>9, <2>4 DEF Untouched
    <2> QED BY <1>9, <1>11, <2>1, <2>5, <2>7, <2>8, GoesOn
  <1> QED BY <1>10, <1>11

LEMMA GetPolicyCalm ==
  ASSUME LibrarySound, AllCalm, NEW s \in Slot, GetPolicy(s)
  PROVE  AllCalm'
  <1>1. /\ At(s, "get") /\ Active(s)
        /\ job' = [job EXCEPT ![s] = [Rest(job[s]) EXCEPT !.post = Posted(job[s], policy[job[s].user]), !.seen = {}, !.all = FALSE]]
        /\ UNCHANGED <<grant, policy, wanted, loose>>
    BY DEF GetPolicy, At, Gets
  <1>2. PICK w \in User : w = job[s].user
    BY <1>1, ActiveIs DEF LibrarySound, Handler
  <1>3. policy[w] \in PolicyRow
    BY <1>2 DEF LibrarySound, LibraryTyped
  <1>4. Posted(job[s], policy[w]) \in PolicyRow
    <2>1. job[s] \in Handler /\ job[s].op \in Ops
      BY <1>1, ActiveIs DEF LibrarySound, Handler
    <2> QED BY <1>3, <2>1, PostedType
  <1>5. job' = [job EXCEPT ![s] = [Rest(job[s]) EXCEPT !.post = Posted(job[s], policy[w]), !.seen = {}, !.all = FALSE]]
    BY <1>1, <1>2
  <1>6. PICK r \in Handler :
           /\ job' = [job EXCEPT ![s] = r]
           /\ Same(r, job[s]) /\ Shaped(r) /\ r.todo = Tail(job[s].todo)
           /\ r.ok = job[s].ok /\ r.post = Posted(job[s], policy[w])
    BY <1>1, <1>4, <1>5, GetPuts
  <1>7. r.user = w
    BY <1>2, <1>6 DEF Same
  <1>8. Puts(s, w)
    BY <1>6, <1>7 DEF Puts
  <1> SUFFICES ASSUME NEW u \in User, u \notin loose' PROVE Calm(u)'
    BY DEF AllCalm
  <1>9. Calm(u) /\ Untouched(u)
    BY <1>1 DEF AllCalm, Untouched, Granted
  <1>10. CASE u # w
    BY <1>2, <1>8, <1>9, <1>10, PutsAside
  <1>11. CASE u = w
    <2>1. /\ OnTrack(job[s], policy[u], wanted[u], Granted(u)) /\ Owns(s, u)
          /\ job[s] \in Handler /\ job[s].todo[1] = "get"
      BY <1>1, <1>2, <1>9, <1>11, OwnTrack, ActiveIs DEF LibrarySound
    <2>4. OnTrack(r, policy[u], wanted[u], Granted(u))
      BY <1>3, <1>6, <1>11, <2>1, GetTrack
    <2>5. OnTrack(r, policy'[u], wanted'[u], Granted(u)')
      BY <1>9, <2>4 DEF Untouched
    <2> QED BY <1>6, <1>7, <1>9, <1>11, <2>1, <2>5, GoesOn
  <1> QED BY <1>10, <1>11

\* A policy is posted: the code or the mark is still to come.
LEMMA PostedTrack ==
  ASSUME NEW j \in Handler, Shaped(j), NEW r \in Handler, Same(r, j), r.todo = Tail(j.todo), r.ok = j.ok,
         j.todo \in {<<"post", "settle">>, <<"post", "mark">>},
         NEW p, NEW w, NEW g, OnTrack(j, p, w, g), NEW post, NEW v,
         InOrder(post, v, IF Settling(j) THEN Covered(g) \union j.libs
                        ELSE IF Marking(j) THEN Covered(g) \ j.libs ELSE Covered(g))
  PROVE  OnTrack(r, post, v, g)
  <1>1. r.op = j.op /\ r.libs = j.libs /\ r.parts = j.parts
    BY DEF Same
  <1>2. Purpose(j, g) /\ j.ok
    BY DEF OnTrack
  <1>3. j.todo \notin ToPost
    BY DEF ToPost
  <1>4. CASE j.todo = <<"post", "settle">>
    <2>1. r.todo = <<"settle">> /\ r.todo[1] = "settle" /\ r.todo # <<"mark">>
      BY <1>4, Steps
    <2>2. Settling(j) /\ Settling(r)
      BY <1>4, <2>1 DEF Settling, ToSettle
    <2>3. Purpose(r, g)
      BY <1>1, <2>2 DEF Purpose, Shaped
    <2>4. Remembers(r, post)
      BY <2>1 DEF Remembers
    <2>5. Shows(r, g) = Covered(g) \union j.libs
      BY <1>1, <2>1 DEF Shows
    <2>6. InOrder(post, v, Covered(g) \union j.libs)
      BY <2>2
    <2>7. InOrder(post, v, Shows(r, g))
      BY <2>5, <2>6
    <2> QED BY <1>2, <2>3, <2>4, <2>7 DEF OnTrack
  <1>5. CASE j.todo = <<"post", "mark">>
    <2>1. r.todo = <<"mark">> /\ r.todo[1] = "mark" /\ r.todo # <<"settle">>
      BY <1>5, Steps
    <2>2. Marking(j) /\ Marking(r) /\ ~Settling(j) /\ r.todo \notin ToMark
      BY <1>5, <2>1 DEF Settling, ToSettle, Marking, ToMark
    <2>3. Purpose(r, g)
      <3>1. j.op = "hide"
        BY <2>2 DEF Shaped
      <3>2. j.parts \subseteq g /\ j.libs = Covered(j.parts) \ Covered(g \ j.parts)
        BY <1>2, <1>3, <3>1 DEF Purpose
      <3> QED BY <1>1, <2>2, <3>1, <3>2 DEF Purpose
    <2>4. Remembers(r, post)
      BY <2>1 DEF Remembers
    <2>5. InOrder(post, v, Shows(r, g))
      BY <1>1, <2>1, <2>2 DEF Shows
    <2> QED BY <1>2, <2>3, <2>4, <2>5 DEF OnTrack
  <1> QED BY <1>4, <1>5

LEMMA WantsFields ==
  ASSUME LibraryTyped, NEW j \in Handler
  PROVE  /\ Wants(j).off = IF j.op \in {"disable", "restore"} THEN j.op = "disable" ELSE wanted[j.user].off
         /\ Wants(j).block = IF j.op \in {"show", "hide"} /\ j.libs = Block THEN j.op = "show" ELSE wanted[j.user].block
  <1>1. wanted[j.user] \in Want
    BY DEF LibraryTyped, Handler
  <1>2. CASE j.op \in {"show", "hide"} /\ j.libs = Block
    BY <1>1, <1>2 DEF Wants, Want
  <1>3. CASE j.op \in {"disable", "restore"}
    BY <1>1, <1>3 DEF Wants, Want
  <1>4. CASE j.op \notin {"disable", "restore"} /\ ~(j.op \in {"show", "hide"} /\ j.libs = Block)
    BY <1>1, <1>4 DEF Wants, Want
  <1> QED BY <1>2, <1>3, <1>4

LEMMA PostPolicyCalm ==
  ASSUME LibrarySound, AllCalm, NEW s \in Slot, PostPolicy(s)
  PROVE  AllCalm'
  <1>1. /\ At(s, "post") /\ Active(s)
        /\ job' = [job EXCEPT ![s] = Rest([job[s] EXCEPT !.post = Nothing])]
        /\ policy' = [policy EXCEPT ![job[s].user] = job[s].post]
        /\ wanted' = [wanted EXCEPT ![job[s].user] = Wants(job[s])]
        /\ UNCHANGED <<grant, loose>>
    BY DEF PostPolicy, At
  <1>2. PICK w \in User : w = job[s].user
    BY <1>1, ActiveIs DEF LibrarySound, Handler
  <1>3. /\ policy'[w] = job[s].post /\ wanted'[w] = Wants(job[s])
        /\ \A u \in User \ {w} : policy'[u] = policy[u] /\ wanted'[u] = wanted[u]
    BY <1>1, <1>2 DEF LibrarySound, LibraryTyped
  <1>4. \/ job[s].todo = <<"post">> /\ job' = [job EXCEPT ![s] = NoJob]
        \/ /\ job[s].todo \in {<<"post", "settle">>, <<"post", "mark">>}
           /\ \E r \in Handler :
                /\ job' = [job EXCEPT ![s] = r]
                /\ Same(r, job[s]) /\ Shaped(r) /\ r.todo = Tail(job[s].todo) /\ r.ok = job[s].ok
    BY <1>1, PostPuts
  <1>8. Puts(s, w)
    BY <1>2, <1>4 DEF Puts, Same
  <1> SUFFICES ASSUME NEW u \in User, u \notin loose' PROVE Calm(u)'
    BY DEF AllCalm
  <1>9. Calm(u) /\ Granted(u)' = Granted(u)
    BY <1>1 DEF AllCalm, Granted
  <1>10. CASE u # w
    <2>1. Untouched(u)
      BY <1>3, <1>9, <1>10 DEF Untouched
    <2> QED BY <1>2, <1>8, <1>9, <1>10, <2>1, PutsAside
  <1>11. CASE u = w
    <2>1. /\ OnTrack(job[s], policy[u], wanted[u], Granted(u)) /\ Owns(s, u)
          /\ job[s] \in Handler /\ job[s].todo[1] = "post" /\ Shaped(job[s])
          /\ policy[u] \in PolicyRow /\ wanted[u] \in Want /\ Granted(u) \in SUBSET Partition
      BY <1>1, <1>2, <1>9, <1>11, OwnTrack, ActiveIs DEF LibrarySound
    <2>2. PICK v : v = Wants(job[s])
      OBVIOUS
    <2>3. /\ v.off = IF job[s].op \in {"disable", "restore"} THEN job[s].op = "disable" ELSE wanted[u].off
          /\ v.block = IF job[s].op \in {"show", "hide"} /\ job[s].libs = Block THEN job[s].op = "show" ELSE wanted[u].block
      BY <1>2, <1>11, <2>1, <2>2, WantsFields DEF LibrarySound
    <2>4. InOrder(job[s].post, v, IF Settling(job[s]) THEN Covered(Granted(u)) \union job[s].libs
                                ELSE IF Marking(job[s]) THEN Covered(Granted(u)) \ job[s].libs ELSE Covered(Granted(u)))
      BY <2>1, <2>3, PostTrack
    <2>5. CASE job[s].todo = <<"post">> /\ job' = [job EXCEPT ![s] = NoJob]
      <3>1. ~Settling(job[s]) /\ ~Marking(job[s])
        BY <2>5 DEF Settling, Marking, ToSettle, ToMark
      <3>2. InOrder(job[s].post, v, Covered(Granted(u)))
        BY <2>4, <3>1
      <3>3. InOrder(policy'[u], wanted'[u], Covered(Granted(u)'))
        BY <1>3, <1>9, <1>11, <2>2, <3>2
      <3> QED BY <1>9, <2>1, <2>5, <3>3, Ends
    <2>6. CASE /\ job[s].todo \in {<<"post", "settle">>, <<"post", "mark">>}
               /\ \E r \in Handler :
                    /\ job' = [job EXCEPT ![s] = r]
                    /\ Same(r, job[s]) /\ Shaped(r) /\ r.todo = Tail(job[s].todo) /\ r.ok = job[s].ok
      <3>1. PICK r \in Handler :
              /\ job' = [job EXCEPT ![s] = r]
              /\ Same(r, job[s]) /\ Shaped(r) /\ r.todo = Tail(job[s].todo) /\ r.ok = job[s].ok
        BY <2>6
      <3>2. OnTrack(r, job[s].post, v, Granted(u))
        BY <2>1, <2>4, <2>6, <3>1, PostedTrack
      <3>3. OnTrack(r, policy'[u], wanted'[u], Granted(u)')
        BY <1>3, <1>9, <1>11, <2>2, <3>2
      <3>4. r.user = u
        BY <1>2, <1>11, <3>1 DEF Same
      <3> QED BY <1>9, <2>1, <3>1, <3>3, <3>4, GoesOn
    <2> QED BY <1>4, <2>5, <2>6
  <1> QED BY <1>10, <1>11

LEMMA CoveredMore ==
  ASSUME NEW g \in SUBSET Partition, NEW p \in Partition
  PROVE  Covered(g \union {p}) = Covered(g) \union LibsOf[p]
  BY DEF Covered

LEMMA CoveredLess ==
  ASSUME NEW g \in SUBSET Partition, NEW ps \in SUBSET g
  PROVE  Covered(g \ ps) = Covered(g) \ (Covered(ps) \ Covered(g \ ps))
  BY DEF Covered

LEMMA CompleteCalm ==
  ASSUME LibrarySound, AllCalm, NEW s \in Slot, Complete(s)
  PROVE  AllCalm'
  <1>1. /\ At(s, "settle") /\ Active(s)
        /\ job' = [job EXCEPT ![s] = Rest(job[s])]
        /\ UNCHANGED <<policy, wanted>>
    BY DEF Complete, At
  <1>2. /\ job[s] \in Handler /\ job[s].todo = <<"settle">> /\ Rest(job[s]) = NoJob /\ Shaped(job[s])
    <2>1. job[s] \in Handler /\ job[s].todo[1] = "settle" /\ job[s].todo \in Plans
      BY <1>1, ActiveIs DEF LibrarySound
    <2>2. job[s].todo = <<"settle">>
      BY <2>1, Starts
    <2> QED BY <1>1, <2>1, <2>2, RestOf DEF LibrarySound, Shapes
  <1>3. PICK w \in User : w = job[s].user
    BY <1>2 DEF Handler
  <1>4. job[s].code \in Code /\ job[s].libs = LibsOf[PartOf[job[s].code]] /\ job[s].op = "show"
    BY <1>2 DEF Shaped, Settling
  <1>5. job' = [job EXCEPT ![s] = NoJob] /\ Puts(s, w)
    BY <1>1, <1>2 DEF Puts
  <1> SUFFICES ASSUME NEW u \in User, u \notin loose' PROVE Calm(u)'
    BY DEF AllCalm
  <1>6. CASE Bound(w) /\ job[s].token \notin done /\ Reservation(job[s])
    <2>1. /\ grant' = [grant EXCEPT ![w][PartOf[job[s].code]] = [status |-> "active", over |-> FALSE, code |-> job[s].code]]
          /\ UNCHANGED loose
      BY <1>3, <1>6 DEF Complete
    <2>2. Calm(u)
      BY <2>1 DEF AllCalm
    <2>3. PICK p \in Partition : p = PartOf[job[s].code]
      BY <1>4, LibraryFacts
    <2>4. /\ \A v \in User \ {w} : grant'[v] = grant[v]
          /\ grant'[w][p].status = "active"
          /\ \A q \in Partition \ {p} : grant'[w][q] = grant[w][q]
      BY <2>1, <2>3 DEF LibrarySound, LibraryTyped
    <2>5. CASE u # w
      <3>1. Untouched(u)
        BY <1>1, <2>4, <2>5 DEF Untouched, Granted
      <3> QED BY <1>3, <1>5, <2>2, <2>5, <3>1, PutsAside
    <2>6. CASE u = w
      <3>1. /\ OnTrack(job[s], policy[u], wanted[u], Granted(u)) /\ Owns(s, u)
            /\ Granted(u) \in SUBSET Partition
        BY <1>1, <1>3, <2>2, <2>6, OwnTrack
      <3>2. Granted(u)' = Granted(u) \union {p}
        BY <2>4, <2>6 DEF Granted
      <3>3. Covered(Granted(u) \union {p}) = Covered(Granted(u)) \union job[s].libs
        BY <1>4, <2>3, <3>1, CoveredMore
      <3>4. InOrder(policy[u], wanted[u], Covered(Granted(u)) \union job[s].libs)
        BY <1>2, <3>1 DEF OnTrack, Shows
      <3>5. InOrder(policy'[u], wanted'[u], Covered(Granted(u)'))
        BY <1>1, <3>2, <3>3, <3>4
      <3> QED BY <1>5, <2>2, <3>1, <3>5, Ends
    <2> QED BY <2>5, <2>6
  <1>7. CASE ~(Bound(w) /\ job[s].token \notin done /\ Reservation(job[s]))
    <2>1. loose' = loose \union {w} /\ UNCHANGED grant
      BY <1>3, <1>7 DEF Complete
    <2>2. Calm(u) /\ u # w
      BY <2>1 DEF AllCalm
    <2>3. Untouched(u)
      BY <1>1, <2>1 DEF Untouched, Granted
    <2> QED BY <1>3, <1>5, <2>2, <2>3, PutsAside
  <1> QED BY <1>6, <1>7

LEMMA ReleaseCalm ==
  ASSUME LibrarySound, AllCalm, NEW s \in Slot, Release(s)
  PROVE  AllCalm'
  <1>1. /\ At(s, "settle") /\ Active(s) /\ ~job[s].ok
        /\ job' = [job EXCEPT ![s] = Rest(job[s])]
        /\ UNCHANGED <<grant, policy, wanted, loose>>
    BY DEF Release, At
  <1>2. job[s] \in Handler /\ Rest(job[s]) = NoJob
    <2>1. job[s] \in Handler /\ job[s].todo[1] = "settle" /\ job[s].todo \in Plans
      BY <1>1, ActiveIs DEF LibrarySound
    <2>2. job[s].todo = <<"settle">>
      BY <2>1, Starts
    <2> QED BY <2>1, <2>2, RestOf
  <1>3. PICK w \in User : w = job[s].user
    BY <1>2 DEF Handler
  <1>5. Puts(s, w)
    BY <1>1, <1>2 DEF Puts
  <1> SUFFICES ASSUME NEW u \in User, u \notin loose' PROVE Calm(u)'
    BY DEF AllCalm
  <1>6. Calm(u) /\ Untouched(u)
    BY <1>1 DEF AllCalm, Untouched, Granted
  <1>7. u # w
    <2> SUFFICES ASSUME u = w PROVE FALSE
      OBVIOUS
    <2>1. OnTrack(job[s], policy[u], wanted[u], Granted(u))
      BY <1>1, <1>3, <1>6, OwnTrack
    <2> QED BY <1>1, <2>1 DEF OnTrack
  <1> QED BY <1>3, <1>5, <1>6, <1>7, PutsAside

LEMMA MarkExpiredCalm ==
  ASSUME LibrarySound, AllCalm, NEW s \in Slot, MarkExpired(s)
  PROVE  AllCalm'
  <1>1. /\ At(s, "mark") /\ Active(s)
        /\ UNCHANGED <<policy, wanted, loose>>
    BY DEF MarkExpired, At
  <1>2. /\ job[s] \in Handler /\ job[s].todo = <<"mark">> /\ Shaped(job[s])
    <2>1. job[s] \in Handler /\ job[s].todo[1] = "mark" /\ job[s].todo \in Plans
      BY <1>1, ActiveIs DEF LibrarySound
    <2>2. job[s].todo = <<"mark">>
      BY <2>1, Starts
    <2> QED BY <1>1, <2>1, <2>2 DEF LibrarySound, Shapes
  <1>3. PICK w \in User : w = job[s].user
    BY <1>2 DEF Handler
  <1>4. /\ job' = [job EXCEPT ![s] = NoJob]
        /\ \A u \in User \ {w} : grant'[u] = grant[u]
        /\ \A p \in Partition : grant'[w][p].status =
              IF p \in job[s].parts /\ grant[w][p].status # "none" THEN "expired" ELSE grant[w][p].status
    BY <1>3, MarkExpiredSound
  <1>5. Puts(s, w)
    BY <1>4 DEF Puts
  <1> SUFFICES ASSUME NEW u \in User, u \notin loose' PROVE Calm(u)'
    BY DEF AllCalm
  <1>6. Calm(u)
    BY <1>1 DEF AllCalm
  <1>7. CASE u # w
    <2>1. Untouched(u)
      BY <1>1, <1>4, <1>7 DEF Untouched, Granted
    <2> QED BY <1>3, <1>5, <1>6, <1>7, <2>1, PutsAside
  <1>8. CASE u = w
    <2>1. /\ OnTrack(job[s], policy[u], wanted[u], Granted(u)) /\ Owns(s, u)
          /\ Granted(u) \in SUBSET Partition
      BY <1>1, <1>3, <1>6, <1>8, OwnTrack
    <2>2. job[s].op = "hide" /\ job[s].todo \notin ToPost /\ job[s].todo # <<"settle">>
      BY <1>2 DEF Shaped, Marking, ToPost
    <2>3. job[s].parts \subseteq Granted(u) /\ job[s].libs = Covered(job[s].parts) \ Covered(Granted(u) \ job[s].parts)
      BY <2>1, <2>2 DEF OnTrack, Purpose
    <2>4. Shows(job[s], Granted(u)) = Covered(Granted(u)) \ job[s].libs
      BY <1>2, <2>2 DEF Shows
    <2>5. Covered(Granted(u) \ job[s].parts) = Covered(Granted(u)) \ job[s].libs
      BY <2>1, <2>3, CoveredLess
    <2>6. Granted(u)' = Granted(u) \ job[s].parts
      BY <1>4, <1>8, <2>3 DEF Granted
    <2>7. InOrder(policy[u], wanted[u], Covered(Granted(u) \ job[s].parts))
      BY <2>1, <2>4, <2>5 DEF OnTrack
    <2>8. InOrder(policy'[u], wanted'[u], Covered(Granted(u)'))
      BY <1>1, <2>6, <2>7
    <2> QED BY <1>4, <1>6, <2>1, <2>8, Ends
  <1> QED BY <1>7, <1>8

\* Emby's refusals and silences, and processes that stop.
LEMMA FaultsCalm ==
  ASSUME LibrarySound, AllCalm, NEW s \in Slot,
         \/ ReadNothing(s) \/ FindsNone(s) \/ GetFails(s) \/ GetDefault(s)
         \/ PostUnanswered(s) \/ Fails(s, "post") \/ Stops(s)
  PROVE  AllCalm'
  <1>1. /\ job[s].user \in User /\ Active(s) /\ Puts(s, job[s].user)
        /\ job[s].user \in loose' /\ (\A v \in loose : v \in loose')
    BY ReadNothingSound, FindsNoneSound, FailsSound, GetDefaultSound, PostUnansweredSound, StopsSound, Zenon DEF GetFails
  <1>2. PICK w \in User : w = job[s].user
    BY <1>1
  <1>3. UNCHANGED <<grant, wanted>> /\ \A u \in User \ {w} : policy'[u] = policy[u]
    <2>1. CASE PostUnanswered(s)
      BY <1>2, <2>1 DEF PostUnanswered, LibrarySound, LibraryTyped
    <2>2. CASE ~PostUnanswered(s)
      BY <2>2 DEF ReadNothing, FindsNone, GetFails, GetDefault, Fails, Stops
    <2> QED BY <2>1, <2>2
  <1>4. \A u \in User \ {w} : Untouched(u)
    BY <1>3 DEF Untouched, Granted
  <1> QED BY <1>1, <1>2, <1>4, FaultCalm

\* A handler that is entered, as long as nothing else of its user is going on.
LEMMA EnterCalm ==
  ASSUME LibrarySound, AllCalm, NEW j \in Handler, Enter(j), UNCHANGED <<grant, policy, wanted>>,
         Calm(j.user) /\ ~Busy(j.user) => OnTrack(j, policy[j.user], wanted[j.user], Granted(j.user))
  PROVE  AllCalm'
  <1>1. PICK s \in Slot : ~Active(s) /\ job' = [job EXCEPT ![s] = j]
    BY DEF Enter
  <1>2. PICK w \in User : w = j.user
    BY DEF Handler
  <1>3. Puts(s, w)
    BY <1>1, <1>2 DEF Puts
  <1> SUFFICES ASSUME NEW u \in User, u \notin loose' PROVE Calm(u)'
    BY DEF AllCalm
  <1>4. u \notin loose /\ (u = w => ~Busy(u))
    BY <1>2 DEF Enter
  <1>5. Calm(u) /\ Untouched(u)
    BY <1>4 DEF AllCalm, Untouched, Granted
  <1>6. CASE u # w
    BY <1>1, <1>3, <1>5, <1>6, PutsAside
  <1>7. CASE u = w
    <2>1. OnTrack(j, policy[u], wanted[u], Granted(u))
      BY <1>2, <1>4, <1>5, <1>7
    <2>2. OnTrack(j, policy'[u], wanted'[u], Granted(u)')
      BY <1>5, <2>1 DEF Untouched
    <2> QED BY <1>1, <1>2, <1>4, <1>5, <1>7, <2>2, GoesOn
  <1> QED BY <1>6, <1>7

LEMMA FreshTrack ==
  ASSUME NEW j \in Handler, j.ok, NEW p, NEW w, NEW g, Purpose(j, g), InOrder(p, w, Covered(g)),
         \/ j.todo \in {<<"read", "get", "post">>, <<"read", "get", "post", "settle">>, <<"read", "get", "post", "mark">>}
         \/ j.todo = <<"get", "post">> /\ j.op \in {"disable", "restore"}
  PROVE  OnTrack(j, p, w, g)
  <1>1. j.todo # <<"settle">> /\ j.todo # <<"mark">>
    OBVIOUS
  <1>2. Shows(j, g) = Covered(g)
    BY <1>1 DEF Shows
  <1>3. Remembers(j, p)
    BY DEF Remembers
  <1> QED BY <1>2, <1>3 DEF OnTrack

LEMMA StartCalm ==
  ASSUME LibrarySound, AllCalm, NEW u \in User, NEW j \in Handler, j.user = u, j.ok, Start(j),
         \/ /\ j.todo = <<"read", "get", "post">> /\ j.op \in {"show", "hide"} /\ j.libs = Block
         \/ /\ j.todo = <<"get", "post">> /\ j.op \in {"disable", "restore"}
  PROVE  AllCalm'
  <1>1. Purpose(j, Granted(u))
    BY DEF Purpose, ToPost
  <1>2. Calm(u) /\ ~Busy(u) => OnTrack(j, policy[u], wanted[u], Granted(u))
    BY <1>1, FreshTrack DEF Calm
  <1> QED BY <1>2, EnterCalm DEF Start

LEMMA RedeemCalm ==
  ASSUME LibrarySound, AllCalm, NEW u \in User, NEW c \in Code, NEW token \in 0..MaxJobs,
         Enter(Redemption(u, c, token)), UNCHANGED <<grant, policy, wanted>>
  PROVE  AllCalm'
  <1>1. PICK j : j = Redemption(u, c, token)
    OBVIOUS
  <1>2. /\ j \in Handler /\ j.user = u /\ j.op = "show" /\ j.ok
        /\ j.todo = <<"read", "get", "post", "settle">>
    BY <1>1, RedemptionPlan
  <1>3. Purpose(j, Granted(u))
    BY <1>2 DEF Purpose, Settling, ToSettle
  <1>4. Calm(u) /\ ~Busy(u) => OnTrack(j, policy[u], wanted[u], Granted(u))
    BY <1>2, <1>3, FreshTrack DEF Calm
  <1> QED BY <1>1, <1>2, <1>4, EnterCalm

LEMMA SweepCalm ==
  ASSUME LibrarySound, AllCalm, NEW u \in User, Sweep(u)
  PROVE  AllCalm'
  <1>1. PICK j : j = SweepOf(u)
    OBVIOUS
  <1>2. /\ j \in Handler /\ j.user = u /\ j.op = "hide" /\ j.ok /\ j.parts = Expired(u)
        /\ \/ /\ j.todo = <<"read", "get", "post", "mark">>
              /\ j.libs = HideTargets(u) /\ HideTargets(u) # {}
           \/ /\ j.todo = <<"mark">> /\ j.libs = {}
              /\ HideTargets(u) = {} \/ ~Bound(u)
    BY <1>1, SweepPlan DEF LibrarySound
  <1>3. Start(j)
    BY <1>1 DEF Sweep, SweepOf
  <1>4. Expired(u) \subseteq Granted(u)
    BY DEF Expired
  <1>5. ASSUME Calm(u), ~Busy(u) PROVE OnTrack(j, policy[u], wanted[u], Granted(u))
    <2>1. InOrder(policy[u], wanted[u], Covered(Granted(u)))
      BY <1>5 DEF Calm
    <2>2. Bound(u)
      BY <2>1 DEF InOrder, Bound
    <2>3. CASE j.todo = <<"read", "get", "post", "mark">>
      <3>1. j.libs = HideTargets(u) /\ HideTargets(u) # {}
        BY <1>2, <2>3
      <3>2. Marking(j)
        BY <2>3 DEF Marking, ToMark
      <3>3. Purpose(j, Granted(u))
        BY <1>2, <1>4, <3>1, <3>2 DEF Purpose, HideTargets
      <3> QED BY <1>2, <2>1, <2>3, <3>3, FreshTrack
    <2>4. CASE j.todo = <<"mark">>
      <3>1. j.libs = {} /\ HideTargets(u) = {}
        BY <1>2, <2>2, <2>4
      <3>2. Marking(j) /\ j.todo \notin ToMark /\ j.todo # <<"settle">> /\ j.todo[1] = "mark"
        BY <2>4 DEF Marking, ToMark
      <3>3. Purpose(j, Granted(u))
        BY <1>2, <1>4, <3>1, <3>2 DEF Purpose, HideTargets
      <3>4. Shows(j, Granted(u)) = Covered(Granted(u))
        BY <2>4, <3>1, <3>2 DEF Shows
      <3>5. Remembers(j, policy[u])
        BY <3>2 DEF Remembers
      <3> QED BY <1>2, <2>1, <3>3, <3>4, <3>5 DEF OnTrack
    <2> QED BY <1>2, <2>3, <2>4
  <1> QED BY <1>2, <1>3, <1>5, EnterCalm DEF Start

LEMMA StartLooseCalm ==
  ASSUME LibrarySound, AllCalm, NEW j \in Handler, Shaped(j), StartLoose(j)
  PROVE  AllCalm'
  <1>1. PICK s \in Slot : ~Active(s) /\ job' = [job EXCEPT ![s] = j]
    BY DEF StartLoose
  <1>2. PICK w \in User : w = j.user
    BY DEF Handler
  <1>3. Puts(s, w)
    BY <1>1, <1>2 DEF Puts
  <1>4. UNCHANGED <<grant, policy, wanted>> /\ loose' = loose \union {w}
    BY <1>2 DEF StartLoose
  <1> SUFFICES ASSUME NEW u \in User, u \notin loose' PROVE Calm(u)'
    BY DEF AllCalm
  <1>5. Calm(u) /\ Untouched(u) /\ u # w
    BY <1>4 DEF AllCalm, Untouched, Granted
  <1> QED BY <1>1, <1>3, <1>5, PutsAside

\* What an account begins with is right, with nothing granted.
LEMMA NewRight ==
  ASSUME NEW w, ~w.off, ~w.block, w.off \in BOOLEAN
  PROVE  InOrder(NewPolicy, w, Covered({}))
  <1>1. /\ NewPolicy.bound /\ ~NewPolicy.all /\ NewPolicy.enabled = Lib \ (Block \union Extra)
        /\ NewPolicy.off = FALSE
    BY DEF NewPolicy
  <1>2. Covered({}) = {}
    BY DEF Covered
  <1> QED BY <1>1, <1>2, LibraryFacts DEF InOrder

LEMMA UnbindCalm ==
  ASSUME LibrarySound, AllCalm, NEW u \in User, Unbind(u)
  PROVE  AllCalm'
  <1>1. \A v \in User : v \notin loose' => v \notin loose /\ v # u
    BY DEF Unbind
  <1>2. \A v \in User \ {u} : Untouched(v)
    BY DEF Unbind, Untouched, Granted, LibrarySound, LibraryTyped
  <1> QED BY <1>1, <1>2, IdleCalm DEF Unbind

LEMMA RebindUnhiddenCalm ==
  ASSUME LibrarySound, AllCalm, NEW u \in User, RebindUnhidden(u)
  PROVE  AllCalm'
  <1>1. \A v \in User : v \notin loose' => v \notin loose /\ v # u
    BY DEF RebindUnhidden
  <1>2. \A v \in User \ {u} : Untouched(v)
    BY DEF RebindUnhidden, Untouched, Granted, LibrarySound, LibraryTyped
  <1> QED BY <1>1, <1>2, IdleCalm DEF RebindUnhidden

LEMMA RebindCalm ==
  ASSUME LibrarySound, AllCalm, NEW u \in User, Rebind(u)
  PROVE  AllCalm'
  <1>1. /\ UNCHANGED <<grant, job>> /\ policy'[u] = NewPolicy /\ wanted'[u] = [off |-> FALSE, block |-> FALSE]
        /\ \A v \in User \ {u} : policy'[v] = policy[v] /\ wanted'[v] = wanted[v]
    BY DEF Rebind, LibrarySound, LibraryTyped
  <1>2. \A v \in User \ {u} : Untouched(v)
    BY <1>1 DEF Untouched, Granted
  <1> SUFFICES ASSUME NEW v \in User, v \notin loose' PROVE Calm(v)'
    BY DEF AllCalm
  <1>3. CASE v # u
    <2>1. v \notin loose
      BY <1>3 DEF Rebind
    <2>2. \A s \in Slot : job'[s] = job[s]
      BY <1>1
    <2> QED BY <1>2, <1>3, <2>1, <2>2, Aside DEF AllCalm
  <1>4. CASE v = u /\ Granted(u) = {} /\ ~Busy(u)
    <2>1. \A s \in Slot : ~(Active(s)' /\ job'[s].user = v)
      BY <1>1, <1>4 DEF Busy, Active
    <2>2. Granted(v)' = {}
      BY <1>1, <1>4 DEF Granted
    <2>3. PICK w : w = [off |-> FALSE, block |-> FALSE]
      OBVIOUS
    <2>4. InOrder(NewPolicy, w, Covered({}))
      BY <2>3, NewRight
    <2>5. InOrder(policy'[v], wanted'[v], Covered(Granted(v)'))
      BY <1>1, <1>4, <2>2, <2>3, <2>4
    <2> QED BY <2>1, <2>5 DEF Calm
  <1>5. ASSUME v = u, Granted(u) # {} \/ Busy(u) PROVE FALSE
    <2>1. u \notin loose
      BY <1>5 DEF Rebind
    <2>2. Calm(u)
      BY <2>1 DEF AllCalm
    <2>3. Bound(u)
      <3>1. CASE Busy(u)
        <4>1. PICK s \in Slot : Active(s) /\ job[s].user = u
          BY <3>1 DEF Busy
        <4>2. OnTrack(job[s], policy[u], wanted[u], Granted(u))
          BY <2>2, <4>1, OwnTrack
        <4> QED BY <4>2 DEF OnTrack, InOrder, Bound
      <3>2. CASE ~Busy(u)
        BY <2>2, <3>2 DEF Calm, InOrder, Bound
      <3> QED BY <3>1, <3>2
    <2> QED BY <2>3 DEF Rebind
  <1> QED BY <1>3, <1>4, <1>5

LEMMA ExpireCalm ==
  ASSUME LibrarySound, AllCalm, NEW u \in User, NEW p \in Partition, Expire(u, p)
  PROVE  AllCalm'
  <1>1. \A v \in User : \A q \in Partition : grant'[v][q].status = grant[v][q].status
    BY ExpireSound
  <1>2. UNCHANGED <<job, policy, wanted, loose>>
    BY DEF Expire
  <1>3. ASSUME NEW v \in User PROVE Untouched(v)
    <2>1. Granted(v)' = Granted(v)
      BY <1>1, GrantedSame
    <2> QED BY <1>2, <2>1 DEF Untouched
  <1> QED BY <1>2, <1>3, IdleCalm

\* Codes that are made, lapse or are deleted, and grants that are cleared.
LEMMA CodeCalm ==
  ASSUME LibrarySound, AllCalm, UNCHANGED <<job, grant, policy, wanted, loose>>
  PROVE  AllCalm'
  <1>1. \A v \in User : Untouched(v)
    BY DEF Untouched, Granted
  <1> QED BY <1>1, IdleCalm

LEMMA ClearGrantsCalm ==
  ASSUME LibrarySound, AllCalm, NEW gs, ClearGrants(gs)
  PROVE  AllCalm'
  <1>1. UNCHANGED <<job, policy, wanted>>
    BY DEF ClearGrants
  <1>2. ASSUME NEW v \in User, v \notin loose' PROVE v \notin loose /\ Untouched(v)
    <2>1. v \notin loose /\ Granted(v) \intersect gs[v] = {}
      BY <1>2 DEF ClearGrants
    <2>2. \A p \in Partition : grant'[v][p] = IF p \in gs[v] THEN NoGrant ELSE grant[v][p]
      BY DEF ClearGrants
    <2>3. NoGrant.status # "active"
      BY DEF NoGrant
    <2>4. Granted(v)' = Granted(v)
      BY <2>1, <2>2, <2>3 DEF Granted
    <2> QED BY <1>1, <2>1, <2>4 DEF Untouched
  <1> QED BY <1>1, <1>2, IdleCalm

LEMMA ClearAllCalm ==
  ASSUME LibrarySound, AllCalm, ClearAll
  PROVE  AllCalm'
  <1>1. UNCHANGED <<job, policy, wanted>>
    BY DEF ClearAll
  <1>2. ASSUME NEW v \in User, v \notin loose' PROVE v \notin loose /\ Untouched(v)
    <2>1. v \notin loose /\ Granted(v) = {}
      BY <1>2 DEF ClearAll
    <2>2. \A p \in Partition : grant'[v][p] = NoGrant
      BY DEF ClearAll
    <2>3. NoGrant.status # "active"
      BY DEF NoGrant
    <2>4. Granted(v)' = {}
      BY <2>2, <2>3 DEF Granted
    <2> QED BY <1>1, <2>1, <2>4 DEF Untouched
  <1> QED BY <1>1, <1>2, IdleCalm

LEMMA CalmInit == LibraryInit => AllCalm
  <1> SUFFICES ASSUME LibraryInit, NEW u \in User PROVE Calm(u)
    BY DEF AllCalm
  <1>1. \A s \in Slot : ~Active(s)
    BY DEF LibraryInit, Active, NoJob
  <1>2. Granted(u) = {}
    BY DEF LibraryInit, Granted, NoGrant
  <1>3. PICK w : w = [off |-> FALSE, block |-> FALSE]
    OBVIOUS
  <1>4. InOrder(NewPolicy, w, Covered({}))
    BY <1>3, NewRight
  <1>5. policy[u] = NewPolicy /\ wanted[u] = w
    BY <1>3 DEF LibraryInit
  <1>6. InOrder(policy[u], wanted[u], Covered(Granted(u)))
    BY <1>2, <1>4, <1>5
  <1> QED BY <1>1, <1>6 DEF Calm

LEMMA CalmStep == LibrarySound /\ AllCalm /\ [LibraryNext]_vars => AllCalm'
  <1> SUFFICES ASSUME LibrarySound, AllCalm, [LibraryNext]_vars PROVE AllCalm'
    OBVIOUS
  <1>1. ASSUME NEW s \in Slot, JobStep(s) PROVE AllCalm'
    <2>1. CASE EmbyStep(s)
      BY <2>1, ReadFoldersCalm, GetPolicyCalm, PostPolicyCalm, FaultsCalm, Zenon DEF EmbyStep
    <2>2. CASE ~EmbyStep(s)
      BY <1>1, <2>2, CompleteCalm, ReleaseCalm, MarkExpiredCalm, Zenon DEF JobStep
    <2> QED BY <2>1, <2>2
  <1>2. ASSUME NEW u \in User, UserStep(u) PROVE AllCalm'
    <2>1. CASE Sweep(u)
      BY <2>1, SweepCalm
    <2>2. CASE UserEmbyBlock(u) \/ UserEmbyUnblock(u)
      <3>1. PICK op \in {"show", "hide"} : Start(Folders(u, op, Block))
        BY <2>2 DEF UserEmbyBlock, UserEmbyUnblock
      <3>2. PICK j : j = Folders(u, op, Block)
        OBVIOUS
      <3>3. /\ j \in Handler /\ j.user = u /\ j.op = op /\ j.libs = Block /\ j.ok
            /\ j.todo = <<"read", "get", "post">>
        BY <3>2, FoldersPlan, LibraryFacts DEF Ops
      <3> QED BY <3>1, <3>2, <3>3, StartCalm
    <2>3. CASE Ban(u) \/ Pardon(u)
      <3>1. PICK op \in {"disable", "restore"} : Start(EveryFolder(u, op))
        BY <2>3 DEF Ban, Pardon, ChangePolicy
      <3>2. PICK j : j = EveryFolder(u, op)
        OBVIOUS
      <3>3. j \in Handler /\ j.user = u /\ j.op = op /\ j.ok /\ j.todo = <<"get", "post">>
        BY <3>2, EveryPlan DEF Ops
      <3> QED BY <3>1, <3>2, <3>3, StartCalm
    <2>4. CASE \/ ExtraLibUnblock(u) \/ ExtraLibBlock(u) \/ LibsUnblockAll(u) \/ LibsBlockAll(u)
               \/ ExtraLibsUnblockAll(u) \/ ExtraLibsBlockAll(u)
      BY <2>4, AdminSound, StartLooseCalm, Zenon DEF ExtraLibsUnblockAll, ExtraLibsBlockAll
    <2>5. CASE Unbind(u) \/ Rebind(u) \/ RebindUnhidden(u)
      BY <2>5, UnbindCalm, RebindCalm, RebindUnhiddenCalm
    <2> QED BY <1>2, <2>1, <2>2, <2>3, <2>4, <2>5, Zenon DEF UserStep
  <1>3. ASSUME NEW c \in Code, CreateCode(c) \/ Lapse(c) \/ ClearCodes({c}) PROVE AllCalm'
    <2>1. UNCHANGED <<job, grant, policy, wanted, loose>>
      BY <1>3 DEF CreateCode, Lapse, ClearCodes
    <2> QED BY <2>1, CodeCalm
  <1>4. ASSUME NEW c \in Code, NEW u \in User, Reserve(u, c) \/ ReserveAgain(u, c) PROVE AllCalm'
    <2>1. CASE Reserve(u, c)
      <3>1. started \in 0..MaxJobs
        BY DEF LibrarySound, LibraryTyped
      <3> QED BY <2>1, <3>1, RedeemCalm DEF Reserve
    <2>2. CASE ReserveAgain(u, c)
      <3>1. code[c] \in Reserved
        BY <2>2 DEF ReserveAgain, LibrarySound, LibraryTyped, CodeRow, Unborn, Available, Consumed
      <3>2. code[c].token \in 0..MaxJobs
        BY <3>1 DEF Reserved
      <3> QED BY <2>2, <3>2, RedeemCalm DEF ReserveAgain, Start
    <2> QED BY <1>4, <2>1, <2>2
  <1>5. ASSUME NEW c \in Code, DeleteByCode(c) PROVE AllCalm'
    BY <1>3, <1>5, ClearGrantsCalm, Zenon DEF DeleteByCode
  <1>6. CASE ClearUnused
    <2>1. UNCHANGED <<job, grant, policy, wanted, loose>>
      BY <1>6 DEF ClearUnused, ClearCodes
    <2> QED BY <2>1, CodeCalm
  <1>7. CASE ClearUsed \/ ClearAll
    BY <1>7, ClearGrantsCalm, ClearAllCalm, Zenon DEF ClearUsed
  <1>8. ASSUME NEW u \in User, NEW p \in Partition, Expire(u, p) PROVE AllCalm'
    BY <1>8, ExpireCalm
  <1>9. CASE UNCHANGED vars
    BY <1>9, CodeCalm DEF vars
  <1> QED BY <1>1, <1>2, <1>3, <1>4, <1>5, <1>6, <1>7, <1>8, <1>9, Zenon DEF LibraryNext

LEMMA CalmShows ==
  ASSUME LibrarySound, AllCalm
  PROVE  AccessMatchesGrants /\ OtherSettingsKept
  <1>1. ASSUME NEW u \in User \ loose, Bound(u), ~Busy(u)
        PROVE  /\ Visible(u) \intersect Covered(Partition) = Covered(Granted(u))
               /\ policy[u].off = wanted[u].off
               /\ Visible(u) \intersect Block = IF wanted[u].block THEN Block ELSE {}
               /\ Lib \ (Block \union Extra) \subseteq Visible(u)
    <2>1. InOrder(policy[u], wanted[u], Covered(Granted(u)))
      BY <1>1 DEF AllCalm, Calm
    <2>2. Visible(u) = policy[u].enabled
      BY <2>1 DEF InOrder, Visible
    <2> QED BY <2>1, <2>2 DEF InOrder
  <1> QED BY <1>1 DEF AccessMatchesGrants, OtherSettingsKept

-----------------------------------------------------------------------------
\* However reservations of partition codes lapse, are taken over, asked for
\* again, released or deleted while Emby is awaited, a code becomes a grant once
\* at most, and codes, reservations and grants keep their form.
THEOREM CodesSoundAlways == LibrarySpec => []CodesSound
  <1>1. LibrarySound /\ [LibraryNext]_vars => LibrarySound'
    BY LibraryStepSound
  <1> QED BY <1>1, LibraryInitSound, SoundCodes, PTL DEF LibrarySpec

\* The inductive invariant of both properties of who sees what.
THEOREM LibraryCalm == LibrarySpec => [](LibrarySound /\ AllCalm)
  BY LibraryInitSound, LibraryStepSound, CalmInit, CalmStep, PTL DEF LibrarySpec

\* A user whose handlers did not overlap, were answered, and were no
\* administrator's sees of the partitions' libraries what active grants cover,
\* whatever partitions share and in whatever order the sweep ends them.
THEOREM AccessMatchesGrantsAlways == LibrarySpec => []AccessMatchesGrants
  BY LibraryCalm, CalmShows, PTL

\* Nor do the policies that redemptions, sweeps, bans and the members' own
\* switch post lose what another of them decided.
THEOREM OtherSettingsKeptAlways == LibrarySpec => []OtherSettingsKept
  BY LibraryCalm, CalmShows, PTL

=============================================================================
