--------------------------- MODULE LegacyRequests ---------------------------
(***************************************************************************)
(* Media requests of the archived v2: users ask on the web, administrators *)
(* decide or hand a request to MoviePilot, and a job copies the progress   *)
(* of the downloads into the rows. MoviePilot is external.                 *)
(*                                                                         *)
(* The job writes a row it read without a lock: SQLAlchemy sends only the  *)
(* columns it changed, so that a decision in between is partly kept.       *)
(*                                                                         *)
(* Abstractions: "reviewing" has the guards of "submitted" and "searching" *)
(* those of "approved"; of the progress only whether it is 100. Transfers  *)
(* are told apart from downloads by the state "moved" or "unmoved".        *)
(***************************************************************************)
EXTENDS Integers, Sequences, FiniteSetsExt, TLC

CONSTANTS Request, Download, Sync, None,
          MaxOps          \* bound: what users, administrators and jobs begin

VARIABLES
    request,   \* media_requests: status, whether progress is 100, download_id, source
    moviepilot,\* what MoviePilot has of a download
    post,      \* per request: the download a submission added and has not stored yet
    sync,      \* a run of the job: what it was told of the downloads, the row it read
    torn,      \* requests changed between the job's read and its write
    ops        \* how much has been begun

requestVars == <<request, moviepilot, post, sync, torn>>

\* A row of media_requests.
RequestRow ==
    [status: {"submitted", "approved", "downloading", "completed", "rejected", "canceled"},
     full: BOOLEAN, download: Download \union {None}, source: {"web", "telegram"}]

ASSUME RequestAssumption == None \notin RequestRow \union Download

Exists(q) == request[q] # None
RowOf(d) == {q \in Request : Exists(q) /\ request[q].download = d}
Use == ops < MaxOps /\ ops' = ops + 1
NewRow(status, d, source) == [status |-> status, full |-> FALSE, download |-> d, source |-> source]

RequestInit ==
    /\ request = [q \in Request |-> None]
    /\ moviepilot = [d \in Download |-> "none"]
    /\ post = [q \in Request |-> None]
    /\ sync = [y \in Sync |-> None]
    /\ torn = {}
    /\ ops = 0

\* Whoever changes a row tears it for the runs that have read it.
Change(q, row) ==
    /\ request' = [request EXCEPT ![q] = row]
    /\ torn' = IF \E y \in Sync : sync[y] # None /\ sync[y].row = q THEN torn \union {q} ELSE torn

-----------------------------------------------------------------------------
\* MediaRequestService.create, from the web and from the open API.
Create(q) ==
    /\ ~Exists(q)
    /\ Use
    /\ Change(q, NewRow("submitted", None, "web"))
    /\ UNCHANGED <<moviepilot, post, sync>>
CreateMyMediaRequest(q) == Create(q)
OpenCreateRequest(q) == Create(q)

\* By its owner, only while nobody has accepted it.
Cancel(q) ==
    /\ Exists(q) /\ request[q].status = "submitted"
    /\ Change(q, [request[q] EXCEPT !.status = "canceled"])
    /\ UNCHANGED <<moviepilot, post, sync, ops>>
CancelMyMediaRequest(q) == Cancel(q)

\* Slip: completing a request leaves its progress where it was.
UpdatedStatus(row, status) == [row EXCEPT !.status = status]

\* The row after an update: a completed request has progress 100.
Updated(row, status) == [row EXCEPT !.status = status, !.full = @ \/ status = "completed"]

\* update: any status, and the download id of one nobody else is bound to.
Update(q, status, d) ==
    /\ Exists(q)
    /\ d = None \/ RowOf(d) \subseteq {q}
    /\ Change(q, [Updated(request[q], status) EXCEPT !.download = IF d = None THEN @ ELSE d])
UpdateMediaRequest(q) ==
    /\ Use
    /\ \E status \in {"submitted", "approved", "downloading", "completed", "rejected", "canceled"},
          d \in Download \union {None} : Update(q, status, d)
    /\ UNCHANGED <<moviepilot, post, sync>>

\* MoviePilotGateway.submit: first the download ...
SubmitPosts(q) ==
    /\ Exists(q) /\ post[q] = None
    /\ Use
    /\ \E d \in Download :
         /\ moviepilot' = [moviepilot EXCEPT ![d] = IF @ = "none" THEN "downloading" ELSE @]
         /\ post' = [post EXCEPT ![q] = d]
    /\ UNCHANGED <<request, sync, torn>>

\* ... then the row. An id that is bound elsewhere is refused, the download stays;
\* so it does when the process stops in between.
SubmitStores(q) ==
    LET d == post[q] IN
    /\ d # None
    /\ \/ /\ RowOf(d) \subseteq {q}
          /\ Change(q, [request[q] EXCEPT !.status = "downloading", !.download = d, !.full = FALSE])
       \/ UNCHANGED <<request, torn>>
    /\ post' = [post EXCEPT ![q] = None]
    /\ UNCHANGED <<moviepilot, sync, ops>>

\* MoviePilot goes on, or forgets a download.
Progress(d) ==
    /\ \E s \in {"completed", "failed", "moved", "unmoved", "none"} :
         /\ moviepilot[d] # "none" /\ s # moviepilot[d]
         /\ moviepilot' = [moviepilot EXCEPT ![d] = s]
    /\ UNCHANGED <<request, post, sync, torn, ops>>

-----------------------------------------------------------------------------
\* sync_download_tasks: what MoviePilot says of all downloads; the transfers are
\* asked for the rows under way only.
SyncReads(y) ==
    /\ sync[y] = None
    /\ Use
    /\ sync' = [sync EXCEPT ![y] = [told |-> moviepilot, todo |-> Download, row |-> None, seen |-> None]]
    /\ UNCHANGED <<request, moviepilot, post, torn>>

UnderWay(q) == request[q].status \in {"approved", "downloading"}

\* sync_download: the row of the id ...
RowReads(y, d) ==
    LET run == sync[y] IN
    /\ run # None /\ run.row = None /\ d \in run.todo
    /\ \E q \in RowOf(d) :
         /\ run.told[d] \in {"moved", "unmoved"} => UnderWay(q)
         /\ run.told[d] # "none"
         /\ sync' = [sync EXCEPT ![y].row = q, ![y].seen = request[q], ![y].todo = @ \ {d}]
    /\ UNCHANGED <<request, moviepilot, post, torn, ops>>

\* The row as the job would have it.
Synced(row, told) ==
    CASE told = "moved" -> [row EXCEPT !.status = "completed", !.full = TRUE]
      [] told \in {"failed", "unmoved"} -> [row EXCEPT !.status = "rejected"]
      [] OTHER -> [row EXCEPT !.status = "downloading", !.full = (told = "completed")]

\* ... and the columns that differ from what was read.
RowWrites(y) ==
    LET run == sync[y]
        q == run.row
        new == Synced(run.seen, run.told[request[q].download])
        now == request[q]
    IN
    /\ run # None /\ run.row # None
    /\ request[q].download # None
    /\ request' = [request EXCEPT ![q] = [now EXCEPT
           !.status = IF new.status # run.seen.status THEN new.status ELSE @,
           !.full = IF new.full # run.seen.full THEN new.full ELSE @]]
    /\ sync' = [sync EXCEPT ![y].row = None, ![y].seen = None]
    /\ torn' = IF \E z \in Sync \ {y} : sync[z] # None /\ sync[z].row = q THEN torn \union {q} ELSE torn
    /\ UNCHANGED <<moviepilot, post, ops>>

\* The job ends, or fails at a download it cannot ask about.
SyncEnds(y) ==
    /\ sync[y] # None /\ sync[y].row = None
    /\ sync' = [sync EXCEPT ![y] = None]
    /\ UNCHANGED <<request, moviepilot, post, torn, ops>>

RequestNext ==
    \/ \E q \in Request : CreateMyMediaRequest(q) \/ OpenCreateRequest(q) \/ CancelMyMediaRequest(q)
                          \/ UpdateMediaRequest(q) \/ SubmitPosts(q) \/ SubmitStores(q)
    \/ \E d \in Download : Progress(d)
    \/ \E y \in Sync : SyncReads(y) \/ RowWrites(y) \/ SyncEnds(y) \/ \E d \in Download : RowReads(y, d)

=============================================================================
