--------------------------- MODULE LegacyOperations ---------------------------
(***************************************************************************)
(* The operations console of the archived v2: what Emby plays and the rows *)
(* kept of it, the devices it is played on, and the lines users reach Emby *)
(* by. The list of sessions is fetched before an advisory lock is taken,   *)
(* which belongs to a connection and is released, after the commit, on     *)
(* whatever connection the pool hands out then.                            *)
(*                                                                         *)
(* Abstractions: a session has one user and one device, and is named after *)
(* both; rows that have ended, how often a device has played, how long     *)
(* a probe took and what is audited are left out; MySQL is the database.   *)
(***************************************************************************)
EXTENDS Integers, Sequences, FiniteSets, TLC

CONSTANTS Watch,          \* sessions of Emby
          Device, DeviceOf,
          Item, NoItem,   \* what is played; one without an Id
          Syncer,         \* processes that synchronise ...
          Recurring,      \* ... and the one of the scheduler
          Line, Url,
          Gone,
          MaxMoves        \* bound: what users, administrators and failures do

ASSUME OperationsAssumption ==
    /\ NoItem \in Item /\ Recurring \subseteq Syncer /\ DeviceOf \in [Watch -> Device]
    /\ Gone \notin Syncer \cup Item /\ MaxMoves \in Nat
    /\ Gone \notin [url : Url, revision : Nat, shown : BOOLEAN, status : {"unknown", "healthy", "offline"}]

VARIABLES
    playing,  \* Emby: what a session plays, or Gone
    open,     \* playback_sessions without ended_at: the items of a session, oldest first
    device,   \* known_devices: the session seen last, trusted, banned, risk_level
    patch,    \* an update of a device between its read and its write
    syncing,  \* a synchronisation: the list fetched, and what it has read under the lock
    locked,   \* who holds the advisory lock at work, or Gone
    stranded, \* a connection in the pool holds it
    stopping, \* sessions Emby has been asked to stop, their rows not yet ended
    line,     \* line_endpoints: address, revision, whether shown, last_status
    probing,  \* probes under way: a line, the address and the status it had
    outages,  \* security_events line.offline since a line was last found healthy
    moves

playbackVars == <<playing, open, device, patch, syncing, locked, stranded, stopping>>
lineVars == <<line, probing, outages>>
operationsVars == <<playbackVars, lineVars, moves>>

Move == moves < MaxMoves /\ moves' = moves + 1

OperationsInit ==
    /\ playing = [w \in Watch |-> Gone]
    /\ open = [w \in Watch |-> << >>]
    /\ device = [d \in Device |-> Gone]
    /\ patch = Gone
    /\ syncing = [p \in Syncer |-> Gone]
    /\ locked = Gone
    /\ stranded = FALSE
    /\ stopping = {}
    /\ line = [l \in Line |-> Gone]
    /\ probing = {}
    /\ outages = [l \in Line |-> 0]
    /\ moves = 0

-----------------------------------------------------------------------------
\* A user starts, changes or ends what he plays.
Plays(w) ==
    /\ Move
    /\ \E item \in (Item \cup {Gone}) \ {playing[w]} : playing' = [playing EXCEPT ![w] = item]
    /\ UNCHANGED <<open, device, patch, syncing, locked, stranded, stopping, lineVars>>

\* sync_live_sessions asks Emby first; without an answer it ends.
Fetches(p) ==
    /\ syncing[p] = Gone
    /\ syncing' = [syncing EXCEPT ![p] = [list |-> playing, rows |-> Gone, devices |-> Gone]]
    /\ UNCHANGED <<playing, open, device, patch, locked, stranded, stopping, lineVars, moves>>

Fetched(p) == syncing[p] # Gone /\ syncing[p].rows = Gone

\* Slip: the lock is not asked for.
Unlocked(p) == TRUE

\* GET_LOCK: free, or held by the very connection the pool hands out.
Lockable(p) == locked = Gone

\* With the lock held: what is read of the rows and devices.
Reads(p) ==
    /\ Fetched(p) /\ Lockable(p)
    /\ locked' = p
    /\ syncing' = [syncing EXCEPT ![p].rows = open, ![p].devices = device]
    /\ UNCHANGED <<playing, open, device, patch, stranded, stopping, lineVars, moves>>

\* The lock is not to be had within 8 seconds.
SyncRefused(p) ==
    /\ Fetched(p) /\ (locked # Gone \/ stranded)
    /\ syncing' = [syncing EXCEPT ![p] = Gone]
    /\ UNCHANGED <<playing, open, device, patch, locked, stranded, stopping, lineVars, moves>>

\* end_other_playback_items: the rows that play the item stay; an item without an Id
\* is none of those.
SameItem(rows, item) ==
    [n \in 1..Cardinality({i \in DOMAIN rows : rows[i] = item /\ item # NoItem}) |-> item]

\* active_playback, as the synchronisation has read it.
IsNewPlay(p, w) == SameItem(syncing[p].rows[w], syncing[p].list[w]) = << >>

Listed(p) == {w \in Watch : syncing[p].list[w] # Gone}

\* Slip: nothing to compare with, when nobody plays anything.
EndsUnlessEmpty(p) == IF Listed(p) = {} THEN {} ELSE Watch \ Listed(p)

\* end_missing_playback
EndsMissing(p) == Watch \ Listed(p)

RowsAfter(p, w) ==
    IF w \in Listed(p)
    THEN SameItem(open[w], syncing[p].list[w])
         \o (IF IsNewPlay(p, w) THEN <<syncing[p].list[w]>> ELSE << >>)
    ELSE IF w \in EndsMissing(p) THEN << >> ELSE open[w]

\* A device as it was read, after a session that plays on it: a new owner makes it
\* suspicious unless it is trusted.
Seen(known, w) ==
    IF known = Gone THEN [owner |-> w, trusted |-> FALSE, banned |-> FALSE, level |-> "normal"]
    ELSE [known EXCEPT !.owner = w,
                       !.level = IF known.owner # w /\ ~known.trusted THEN "warning" ELSE @]

\* Only what differs from what was read is written.
Merge(now, read, new) ==
    IF read = Gone THEN new
    ELSE [f \in DOMAIN new |-> IF new[f] = read[f] THEN now[f] ELSE new[f]]

\* The devices of the sessions that play, in the order of Emby's list.
DeviceAfter(p, d, order) ==
    LET on == SelectSeq(order, LAMBDA w : DeviceOf[w] = d)
        new[i \in 0..Len(on)] == IF i = 0 THEN syncing[p].devices[d] ELSE Seen(new[i - 1], on[i])
    IN IF on = << >> THEN device[d] ELSE Merge(device[d], syncing[p].devices[d], new[Len(on)])

Orders(S) == {o \in [1..Cardinality(S) -> S] : \A i, j \in DOMAIN o : i # j => o[i] # o[j]}

\* The commit; RELEASE_LOCK after it, on this or on another connection.
SyncCommits(p) ==
    /\ syncing[p] # Gone /\ ~Fetched(p)
    /\ open' = [w \in Watch |-> RowsAfter(p, w)]
    /\ \E order \in Orders(Listed(p)) : device' = [d \in Device |-> DeviceAfter(p, d, order)]
    /\ syncing' = [syncing EXCEPT ![p] = Gone]
    /\ locked' = Gone
    /\ stranded' \in {TRUE, stranded}
    /\ UNCHANGED <<playing, patch, stopping, lineVars, moves>>

\* An error is rolled back; the lock stays with the connection, unless that breaks.
SyncFails(p) ==
    /\ syncing[p] # Gone /\ ~Fetched(p)
    /\ Move
    /\ syncing' = [syncing EXCEPT ![p] = Gone]
    /\ locked' = Gone
    /\ stranded' \in {TRUE, stranded}
    /\ UNCHANGED <<playing, open, device, patch, stopping, lineVars>>

\* The pool renews a connection after half an hour.
Recycles ==
    /\ stranded /\ locked = Gone
    /\ stranded' = FALSE
    /\ UNCHANGED <<playing, open, device, patch, syncing, locked, stopping, lineVars, moves>>

-----------------------------------------------------------------------------
\* An administrator stops a session: Emby answers, though it may only have shown the
\* message ...
StopPlayback(w) ==
    /\ Move /\ w \notin stopping
    /\ playing' \in {playing, [playing EXCEPT ![w] = Gone]}
    /\ stopping' = stopping \cup {w}
    /\ UNCHANGED <<open, device, patch, syncing, locked, stranded, lineVars>>

\* ... and the newest open row ends, whatever it is of by now.
StopWrites(w) ==
    /\ w \in stopping
    /\ stopping' = stopping \ {w}
    /\ open' = [open EXCEPT ![w] = SubSeq(@, 1, Len(@) - 1)]
    /\ UNCHANGED <<playing, device, patch, syncing, locked, stranded, lineVars, moves>>

\* update_device reads without a lock ...
UpdateDevice(d) ==
    /\ patch = Gone /\ device[d] # Gone
    /\ Move
    /\ \E trusted, banned \in BOOLEAN :
         LET new == [device[d] EXCEPT !.trusted = trusted, !.banned = banned] IN
         patch' = [of |-> d, read |-> device[d],
                   new |-> [new EXCEPT !.level = IF banned THEN "high" ELSE IF trusted THEN "normal" ELSE @]]
    /\ UNCHANGED <<playing, open, device, syncing, locked, stranded, stopping, lineVars>>

\* ... and writes what it has changed.
UpdateDeviceCommits ==
    /\ patch # Gone
    /\ device' = [device EXCEPT ![patch.of] = Merge(@, patch.read, patch.new)]
    /\ patch' = Gone
    /\ UNCHANGED <<playing, open, syncing, locked, stranded, stopping, lineVars, moves>>

-----------------------------------------------------------------------------
LineStatus == {"unknown", "healthy", "offline"}

\* line_by_url, and the unique index behind it.
UrlFree(l, url) == \A other \in Line \ {l} : line[other] # Gone => line[other].url # url

CreateLine(l, url) ==
    /\ line[l] = Gone /\ UrlFree(l, url)
    /\ Move
    /\ \E shown \in BOOLEAN :
         line' = [line EXCEPT ![l] = [url |-> url, revision |-> 1, shown |-> shown, status |-> "unknown"]]
    /\ UNCHANGED <<playbackVars, probing, outages>>

\* An administrator saves what he has edited; a revision other than the row's is refused.
UpdateLine(l, url, seen) ==
    /\ line[l] # Gone /\ UrlFree(l, url)
    /\ seen \in {Gone, line[l].revision}
    /\ Move
    /\ \E shown \in BOOLEAN :
         line' = [line EXCEPT ![l].url = url, ![l].shown = shown, ![l].revision = @ + 1]
    /\ UNCHANGED <<playbackVars, probing, outages>>

\* probe_line reads the address ...
ProbeLine(l) ==
    /\ line[l] # Gone
    /\ Move
    /\ probing' = probing \cup {<<l, line[l].url, line[l].status>>}
    /\ UNCHANGED <<playbackVars, line, outages>>

\* Slip: previous_status is taken from the row read before the probe.
OnlineBefore(now, then) == then # "offline"

\* previous_status: what the row says now. It is read and written without an await in
\* between, and only the web process probes.
WasOnline(now, then) == now # "offline"

\* ... and writes what came of it to the line, whose address may be another one by now.
\* Probes alike are one member: others may still be under way.
ProbeCommits(l, url, then, success) ==
    /\ <<l, url, then>> \in probing
    /\ probing' \in {probing, probing \ {<<l, url, then>>}}
    /\ line' = [line EXCEPT ![l].status = IF success THEN "healthy" ELSE "offline"]
    /\ outages' = [outages EXCEPT ![l] =
           IF success THEN 0 ELSE IF WasOnline(line[l].status, then) THEN @ + 1 ELSE @]
    /\ UNCHANGED <<playbackVars, moves>>

PlaybackNext ==
    \/ \E w \in Watch : Plays(w) \/ StopPlayback(w) \/ StopWrites(w)
    \/ \E p \in Syncer : Fetches(p) \/ Reads(p) \/ SyncRefused(p) \/ SyncCommits(p) \/ SyncFails(p)
    \/ Recycles
    \/ (\E d \in Device : UpdateDevice(d)) \/ UpdateDeviceCommits

LineNext ==
    \E l \in Line :
        \/ ProbeLine(l)
        \/ \E url \in Url :
             \/ CreateLine(l, url)
             \/ \E seen \in {Gone} \cup 1..MaxMoves : UpdateLine(l, url, seen)
             \/ \E then \in LineStatus, success \in BOOLEAN : ProbeCommits(l, url, then, success)

-----------------------------------------------------------------------------
\* A session has one open row at most, however synchronisations from several
\* processes, stops and failures interleave.
OneOpenPlay == \A w \in Watch : Len(open[w]) <= 1

\* Once users have come to rest, the open rows are what Emby plays, for good, though
\* lists may be applied out of order and the lock may be lost in the pool.
PlaybackCatchesUp ==
    <>[](\A w \in Watch : open[w] = IF playing[w] = Gone THEN << >> ELSE <<playing[w]>>)

\* Every outage of a line is reported once: since it was last found healthy there is one
\* event if it is offline and none otherwise, however many probes were under way when it
\* went down or came back, and whatever its address has become meanwhile.
LinesReported ==
    \A l \in Line : outages[l] = IF line[l] # Gone /\ line[l].status = "offline" THEN 1 ELSE 0

=============================================================================
