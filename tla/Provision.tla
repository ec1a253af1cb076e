------------------------------ MODULE Provision ------------------------------
(***************************************************************************)
(* Opening Emby accounts: RequestProvisioning and the two claim calls of   *)
(* internal/platform/emby.go, and the provision and sync tasks of          *)
(* internal/platform/worker.go, against an Emby server that the platform   *)
(* shares with people who create and rename users by hand.                 *)
(*                                                                         *)
(* A worker reads the request, lists the remote users, marks the           *)
(* preflight, creates the user, stores its id, sets the password and       *)
(* binds it, each a separate statement or call that may be the last thing  *)
(* the process does.  Creating a user is not idempotent and its reply may  *)
(* be lost.                                                                *)
(*                                                                         *)
(* Abstractions: the task row keeps its attempts, whether it is open, and  *)
(* the worker its lease names (module TaskQueue has the rest); memberships *)
(* are current and accounts active; a claim token exists for every user    *)
(* that may be claimed; deleted and disabled remote users, the lapse of    *)
(* the shown password and the v2 import are left out.                      *)
(***************************************************************************)
EXTENDS FiniteSetsExt, SequencesExt, Integers

CONSTANTS
    Account, Instance,
    Name,        \* normalised user names
    Wanted,      \* those somebody requests
    Worker,
    None,        \* SQL NULL, nobody, nothing
    Outside,     \* whoever creates users on the Emby server itself
    MaxBindings, \* max_emby_accounts of the plan
    MaxAttempts, \* platform_tasks.max_attempts
    MaxUsers,    \* bound: remote users ever created
    MaxFaults,   \* bound: crashes, stalled leases and retries together
    MaxOutside   \* bound: users created or renamed on the server itself

ASSUME ProvisionAssumption ==
    /\ MaxBindings \in Nat \ {0}
    /\ MaxAttempts \in Nat \ {0}
    /\ MaxUsers \in Nat \ {0}
    /\ MaxFaults \in Nat /\ MaxOutside \in Nat
    /\ Wanted \subseteq Name

VARIABLES
    request,   \* emby_provision_requests and its task, by UNIQUE(instance, name)
    emby,      \* the users of all Emby servers; a user's index is its id
    binding,   \* emby_account_bindings, by remote user
    directory, \* remote_emby_users.claim_status, by remote user
    claiming,  \* ClaimRemoteUser transactions that have read and not written
    run,       \* per worker: the task it works on
    spent      \* the faults so far, by kind

vars == <<request, emby, binding, directory, claiming, run, spent>>

Key == Instance \X Wanted
UserId == 1..MaxUsers
Task == {"none", "open", "succeeded", "failed"}
Fallible == {"read", "mark", "create", "record", "password", "bind"}
Phase == Fallible \cup {"ok", "error", "permanent"} \cup {"idle", "list", "store"}
Fault == {"crash", "stall", "retry", "outside"}

Request == [account: Account \cup {None}, task: Task, attempts: Nat, holder: Worker \cup {None},
            status: {"none", "open", "succeeded", "failed"}, preflight: BOOLEAN,
            remote: UserId \cup {None}, before: 0..MaxUsers]
User == [instance: Instance, name: Name, made: Key \cup {Outside},
         renamed: {"no", "early", "late"}, password: Key \cup {None}]
Binding == [account: Account, origin: {"provision", "manual_claim", "remote_import"},
            status: {"active", "missing"}]
Run == [job: Key \cup Instance \cup {None}, phase: Phase, preflight: BOOLEAN,
        user: UserId \cup {None}, seen: SUBSET UserId, attempt: Nat]

\* NULL is no id, key or row, and whoever is outside is no request.
ASSUME IdAssumption ==
    /\ None \notin Account \cup Worker \cup UserId \cup Key \cup Binding
    /\ Outside \notin Key

NoRequest == [account |-> None, task |-> "none", attempts |-> 0, holder |-> None,
              status |-> "none", preflight |-> FALSE, remote |-> None, before |-> 0]
Polling == [job |-> None, phase |-> "idle", preflight |-> FALSE,
            user |-> None, seen |-> {}, attempt |-> 0]

Users(i) == {u \in DOMAIN emby : emby[u].instance = i}
Named(i, n) == {u \in Users(i) : emby[u].name = n}
BindingsOf(a) == {u \in UserId : binding[u] # None /\ binding[u].account = a}
\* UNIQUE(account_id, instance_id)
BoundAt(a, i) == BindingsOf(a) \cap Users(i) # {}
\* The remote_emby_users rows a claim transaction holds.
Locked == {c.user : c \in claiming}
Spend(kind) ==
    /\ spent["crash"] + spent["stall"] + spent["retry"] < MaxFaults
    /\ spent' = [spent EXCEPT ![kind] = @ + 1]
SpendOutside == spent["outside"] < MaxOutside /\ spent' = [spent EXCEPT !["outside"] = @ + 1]

Init ==
    /\ request = [k \in Key |-> NoRequest]
    /\ emby = <<>>
    /\ binding = [u \in UserId |-> None]
    /\ directory = [u \in UserId |-> "unknown"]
    /\ claiming = {}
    /\ run = [w \in Worker |-> Polling]
    /\ spent = [f \in Fault |-> 0]

-----------------------------------------------------------------------------
(* The API. *)

\* Bindings are counted, requests on other instances are not.
RequestProvisioning(a, k) ==
    /\ request[k].task = "none"
    /\ ~BoundAt(a, k[1])
    /\ ~\E j \in Key : /\ j[1] = k[1] /\ request[j].account = a
                       /\ request[j].status \in {"open", "succeeded"}
    /\ Cardinality(BindingsOf(a)) < MaxBindings
    /\ request' = [request EXCEPT ![k] =
                     [account |-> a, task |-> "open", attempts |-> 0, holder |-> None, status |-> "open",
                      preflight |-> FALSE, remote |-> None, before |-> Len(emby)]]
    /\ UNCHANGED <<emby, binding, directory, claiming, run, spent>>

\* status='pending', or 'provisioning', WHERE the status is 'failed'.
Reopened(k) == IF request[k].status = "failed" THEN "open" ELSE request[k].status

RetryTask(k) ==
    /\ request[k].task = "failed"
    /\ request' = [request EXCEPT ![k] = [@ EXCEPT !.task = "open", !.attempts = 0,
                     !.holder = None, !.status = Reopened(k)]]
    /\ Spend("retry")
    /\ UNCHANGED <<emby, binding, directory, claiming, run>>

\* SELECT ... FROM remote_emby_users ... FOR UPDATE; claim_status = 'unclaimed'.
MayClaim(u) == directory[u] = "unclaimed" /\ u \notin Locked

\* ClaimRemoteUser with a valid token locks the remote user and counts the
\* account's bindings, which nothing locks: its membership is locked FOR SHARE ...
ClaimRemoteUser(a, u) ==
    /\ MayClaim(u)
    /\ Cardinality(BindingsOf(a)) < MaxBindings
    /\ claiming' = claiming \cup {[account |-> a, user |-> u]}
    /\ UNCHANGED <<request, emby, binding, directory, run, spent>>

Bind(u, a, origin) ==
    /\ binding' = [binding EXCEPT ![u] = [account |-> a, origin |-> origin, status |-> "active"]]
    /\ directory' = [directory EXCEPT ![u] = "claimed"]

\* ... and then inserts the binding; a violated unique key, like any other
\* error or the end of the process, rolls everything back.
ClaimEnds(c) ==
    /\ \/ /\ binding[c.user] = None /\ ~BoundAt(c.account, emby[c.user].instance)
          /\ Bind(c.user, c.account, "manual_claim")
       \/ UNCHANGED <<binding, directory>>
    /\ claiming' = claiming \ {c}
    /\ UNCHANGED <<request, emby, run, spent>>

\* An administrator's claim asks for no capacity.
AdminClaimRemoteUser(a, u) ==
    /\ MayClaim(u)
    /\ binding[u] = None /\ ~BoundAt(a, emby[u].instance)
    /\ Bind(u, a, "remote_import")
    /\ UNCHANGED <<request, emby, claiming, run, spent>>

-----------------------------------------------------------------------------
(* The Emby server. *)

NewUser(i, n, by) == [instance |-> i, name |-> n, made |-> by, renamed |-> "no", password |-> None]
CanCreate(i, n) == Named(i, n) = {} /\ Len(emby) < MaxUsers

OutsideCreates(i, n) ==
    /\ CanCreate(i, n)
    /\ emby' = Append(emby, NewUser(i, n, Outside))
    /\ SpendOutside
    /\ UNCHANGED <<request, binding, directory, claiming, run>>

\* "early": nobody has stored this user's id yet.
OutsideRenames(u, n) ==
    /\ Named(emby[u].instance, n) = {}
    /\ emby' = [emby EXCEPT ![u] = [@ EXCEPT !.name = n, !.renamed =
                  IF emby[u].renamed # "no" THEN emby[u].renamed
                  ELSE IF \E k \in Key : request[k].remote = u THEN "late" ELSE "early"]]
    /\ SpendOutside
    /\ UNCHANGED <<request, binding, directory, claiming, run>>

-----------------------------------------------------------------------------
(* A worker and its provision task. *)

Goto(w, phase) == run' = [run EXCEPT ![w] = [@ EXCEPT !.phase = phase]]
At(w, phase) == run[w].phase = phase

\* The claim of the task and the read of the request; a second worker gets the
\* task while the first is alive only after the lease ran out under it.
Start(w, k) ==
    /\ At(w, "idle")
    /\ request[k].task = "open"
    /\ IF \E v \in Worker : run[v].job = k THEN Spend("stall") ELSE UNCHANGED spent
    /\ request' = [request EXCEPT ![k] = [@ EXCEPT
                     !.attempts = request[k].attempts + 1, !.holder = w, !.status = Reopened(k)]]
    /\ run' = [run EXCEPT ![w] = [job |-> k, phase |-> "read", preflight |-> request[k].preflight,
                                  user |-> request[k].remote, seen |-> {},
                                  attempt |-> request[k].attempts + 1]]
    /\ UNCHANGED <<emby, binding, directory, claiming>>

\* Slip: the stored id is forgotten and only the name is compared.
MatchByName(k, known) ==
    IF Named(k[1], k[2]) # {} THEN CHOOSE u \in Named(k[1], k[2]) : TRUE ELSE None

\* The remote user of a request: by its stored id, else by its name.
Match(k, known) ==
    IF known # None THEN known
    ELSE IF Named(k[1], k[2]) # {} THEN CHOOSE u \in Named(k[1], k[2]) : TRUE ELSE None

\* What follows the listing: a user that existed before the preflight is not ours.
AfterList(found, preflight) ==
    IF found # None THEN (IF preflight THEN "password" ELSE "permanent")
    ELSE IF preflight THEN "create" ELSE "mark"

ListUsers(w) ==
    LET found == Match(run[w].job, run[w].user)
    IN  /\ At(w, "read")
        /\ run' = [run EXCEPT ![w] = [@ EXCEPT !.user = found,
                                              !.phase = AfterList(found, run[w].preflight)]]
        /\ UNCHANGED <<request, emby, binding, directory, claiming, spent>>

\* UPDATE ... WHERE id=$1 AND NOT preflight_completed must change one row.
MarkPreflight(w) ==
    LET k == run[w].job
    IN  /\ At(w, "mark")
        /\ IF request[k].preflight
           THEN Goto(w, "error") /\ UNCHANGED request
           ELSE /\ Goto(w, "create")
                /\ request' = [request EXCEPT ![k] = [@ EXCEPT !.preflight = TRUE]]
        /\ UNCHANGED <<emby, binding, directory, claiming, spent>>

\* The server refuses a name in use; the reply to a creation may be lost.
CreateUser(w) ==
    LET k == run[w].job
    IN  /\ At(w, "create")
        /\ CanCreate(k[1], k[2])
        /\ emby' = Append(emby, NewUser(k[1], k[2], k))
        /\ \E after \in {"record", "error"} :
             run' = [run EXCEPT ![w] = [@ EXCEPT !.user = Len(emby) + 1, !.phase = after]]
        /\ UNCHANGED <<request, binding, directory, claiming, spent>>

RecordUser(w) ==
    /\ At(w, "record")
    /\ request' = [request EXCEPT ![run[w].job] = [@ EXCEPT !.remote = run[w].user]]
    /\ Goto(w, "password")
    /\ UNCHANGED <<emby, binding, directory, claiming, spent>>

SetPassword(w) ==
    /\ At(w, "password")
    /\ emby' = [emby EXCEPT ![run[w].user] = [@ EXCEPT !.password = run[w].job]]
    /\ \E after \in {"bind", "error"} : Goto(w, after)
    /\ UNCHANGED <<request, binding, directory, claiming, spent>>

\* The last transaction; an existing binding of the remote user is accepted
\* whoever it belongs to, a second one of the account only fails (CallFails), and
\* the reply to the commit may be lost.
BindUser(w) ==
    LET k == run[w].job
        u == run[w].user
        a == request[k].account
    IN  /\ At(w, "bind")
        /\ u \notin Locked
        /\ IF binding[u] = None
           THEN ~BoundAt(a, k[1]) /\ Bind(u, a, "provision")
           ELSE directory' = [directory EXCEPT ![u] = "claimed"] /\ UNCHANGED binding
        /\ request' = [request EXCEPT ![k] = [@ EXCEPT !.status = "succeeded", !.remote = u]]
        /\ \E after \in {"ok", "error"} : Goto(w, after)
        /\ UNCHANGED <<emby, claiming, spent>>

\* Any statement or call may fail with nothing done.
CallFails(w) ==
    /\ run[w].phase \in Fallible
    /\ Goto(w, "error")
    /\ UNCHANGED <<request, emby, binding, directory, claiming, spent>>

Finish(w) ==
    LET k == run[w].job
    IN  /\ At(w, "ok")
        /\ request' = IF request[k].holder = w
                      THEN [request EXCEPT ![k] = [@ EXCEPT !.task = "succeeded", !.holder = None]]
                      ELSE request
        /\ run' = [run EXCEPT ![w] = Polling]
        /\ UNCHANGED <<emby, binding, directory, claiming, spent>>

\* fail(): the request's status is not guarded by the lease.
Fail(w) ==
    LET k == run[w].job
        over == At(w, "permanent") \/ run[w].attempt >= MaxAttempts
    IN  /\ run[w].phase \in {"error", "permanent"}
        /\ request' = [request EXCEPT ![k] = [@ EXCEPT
                         !.status = IF over THEN "failed" ELSE "open",
                         !.task = IF request[k].holder = w /\ over THEN "failed" ELSE request[k].task,
                         !.holder = IF request[k].holder = w THEN None ELSE request[k].holder]]
        /\ run' = [run EXCEPT ![w] = Polling]
        /\ UNCHANGED <<emby, binding, directory, claiming, spent>>

Crash(w) ==
    /\ ~At(w, "idle")
    /\ run' = [run EXCEPT ![w] = Polling]
    /\ Spend("crash")
    /\ UNCHANGED <<request, emby, binding, directory, claiming>>

-----------------------------------------------------------------------------
(* A worker and its sync task. *)

\* Two may be at work for one instance: asked for by hand, or after a lapsed lease.
StartSync(w, i) ==
    /\ At(w, "idle")
    /\ run' = [run EXCEPT ![w] = [Polling EXCEPT !.job = i, !.phase = "list"]]
    /\ UNCHANGED <<request, emby, binding, directory, claiming, spent>>

SyncList(w) ==
    /\ At(w, "list")
    /\ run' = [run EXCEPT ![w] = [@ EXCEPT !.phase = "store", !.seen = Users(run[w].job)]]
    /\ UNCHANGED <<request, emby, binding, directory, claiming, spent>>

\* claim_status = CASE WHEN binding_id IS NULL THEN 'unclaimed' ELSE 'claimed' END
ListedStatus(u) == IF binding[u] = None THEN "unclaimed" ELSE "claimed"

\* The transaction writes the listed users and marks all others missing.
SyncStore(w) ==
    LET mine == Users(run[w].job)
        seen == run[w].seen
    IN  /\ At(w, "store")
        /\ mine \cap Locked = {}
        /\ directory' = [u \in UserId |->
                           IF u \notin mine THEN directory[u]
                           ELSE IF u \in seen THEN ListedStatus(u)
                           ELSE IF directory[u] = "unknown" THEN "unknown" ELSE "missing"]
        /\ binding' = [u \in UserId |->
                         IF u \notin mine \/ binding[u] = None THEN binding[u]
                         ELSE [binding[u] EXCEPT !.status =
                                 IF u \in seen THEN "active" ELSE "missing"]]
        /\ run' = [run EXCEPT ![w] = Polling]
        /\ UNCHANGED <<request, emby, claiming, spent>>

-----------------------------------------------------------------------------

Process(w) ==
    \/ ListUsers(w) \/ MarkPreflight(w) \/ CreateUser(w) \/ RecordUser(w)
    \/ SetPassword(w) \/ BindUser(w) \/ CallFails(w) \/ Finish(w) \/ Fail(w)
    \/ SyncList(w) \/ SyncStore(w)

Next ==
    \/ \E a \in Account, k \in Key : RequestProvisioning(a, k)
    \/ \E k \in Key : RetryTask(k)
    \/ \E a \in Account, u \in DOMAIN emby : ClaimRemoteUser(a, u) \/ AdminClaimRemoteUser(a, u)
    \/ \E c \in claiming : ClaimEnds(c)
    \/ \E i \in Instance, n \in Name : OutsideCreates(i, n)
    \/ \E u \in DOMAIN emby, n \in Name : OutsideRenames(u, n)
    \/ \E w \in Worker, k \in Key : Start(w, k)
    \/ \E w \in Worker, i \in Instance : StartSync(w, i)
    \/ \E w \in Worker : Process(w) \/ Crash(w)

Spec == Init /\ [][Next]_vars

-----------------------------------------------------------------------------
(* Properties. *)

\* Types of the rows, the remote users, the bindings and the workers' positions.
TypeOK ==
    /\ request \in [Key -> Request]
    /\ emby \in Seq(User) /\ Len(emby) <= MaxUsers
    /\ binding \in [UserId -> Binding \cup {None}]
    /\ directory \in [UserId -> {"unknown", "unclaimed", "claimed", "missing"}]
    /\ claiming \subseteq [account: Account, user: UserId]
    /\ run \in [Worker -> Run]
    /\ spent \in [Fault -> Nat]

\* README.md:64: after a lost reply or a crash the retry adopts the user that was
\* created and never creates another.  Only a rename breaks this: one made before
\* the id was stored, or one that meets a stalled worker's old read.
CreatedOnce ==
    \A u, v \in DOMAIN emby :
        u < v /\ emby[u].made = emby[v].made /\ emby[u].made # Outside =>
            \/ emby[u].renamed = "early"
            \/ emby[u].renamed = "late" /\ spent["stall"] > 0

\* A remote user that existed when the request was made is neither given the
\* request's password nor recorded as its user, unless it was renamed since.
PreexistingLeftAlone ==
    \A k \in Key, u \in DOMAIN emby :
        u <= request[k].before /\ emby[u].renamed = "no" =>
            emby[u].password # k /\ request[k].remote # u

\* A user of request k was renamed, or, where a stalled worker may have left it
\* behind, one that another worker adopted.
Renamed(k) ==
    \E u \in DOMAIN emby :
        /\ emby[u].renamed # "no"
        /\ \/ emby[u].made = k \/ request[k].remote = u
           \/ spent["stall"] > 0 /\ emby[u].instance = k[1]

\* A request that succeeded left its account a binding of the remote user, with
\* the password GetProvisioning shows, unless one of its users was renamed or
\* someone claimed the user by hand before the worker could bind it.
SucceededIsUsable ==
    \A k \in Key :
        LET u == request[k].remote
        IN  request[k].status = "succeeded" /\ ~Renamed(k) =>
                /\ emby[u].password = k
                /\ binding[u] # None
                /\ binding[u].origin = "provision" => binding[u].account = request[k].account

\* A bound user is never in the list of users that may be claimed.
BoundNotOffered ==
    \A u \in UserId : directory[u] = "unclaimed" => binding[u] = None

\* A request makes one remote user, touches no user that was there before, and
\* ends with a binding that works and that nobody else is offered.
UserIsSound ==
    TypeOK /\ CreatedOnce /\ PreexistingLeftAlone /\ SucceededIsUsable /\ BoundNotOffered

=============================================================================
