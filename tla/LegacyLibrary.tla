---------------------------- MODULE LegacyLibrary ----------------------------
(***************************************************************************)
(* Which libraries a user of the archived v2 bot sees: partition codes,    *)
(* the time-limited grants they turn into, and the policy of the account   *)
(* on the Emby server, where the libraries are shown and hidden.           *)
(*                                                                         *)
(* A code is reserved, Emby is asked to show the libraries of its          *)
(* partition, and the reservation is completed or released; a sweep hides  *)
(* the libraries of expired grants. Emby has no call that changes a part   *)
(* of a policy: every handler reads which folders are enabled, reads the   *)
(* policy again, and posts the whole of it, so that handlers that overlap  *)
(* write back what they read. A handler is a job, as in LegacyAccount.     *)
(*                                                                         *)
(* Abstractions: a policy keeps EnableAllFolders, EnabledFolders and       *)
(* IsDisabled; BlockedMediaFolders is written as the names of what is not  *)
(* enabled. A grant's expiry lies ahead or is over. The loops of the       *)
(* sweep and of the administrators' commands over the users are one job a  *)
(* user: each is independent of the others.                                *)
(***************************************************************************)
EXTENDS Integers, FiniteSets, Sequences, TLC

CONSTANTS User, Lib, Partition, Code, Slot,
          LibsOf,        \* partition_libs: the libraries of a partition
          PartOf,        \* the partition a code is made for
          Block, Extra,  \* emby_block, extra_emby_libs: hidden from a new account
          MaxJobs,       \* bound: handlers that are ever started
          MaxFaults      \* bound: calls that fail and processes that stop

Covered(ps) == UNION {LibsOf[p] : p \in ps}

ASSUME LibraryAssumption ==
    /\ LibsOf \in [Partition -> (SUBSET Lib) \ {{}}] /\ PartOf \in [Code -> Partition]
    /\ Covered(Partition) \subseteq Extra /\ Block \subseteq Lib \ Extra /\ Extra \subseteq Lib
    /\ MaxJobs \in Nat /\ MaxFaults \in Nat

VARIABLES
    code,      \* partition_codes: status, by, token, stale
    grant,     \* partition_grants of a user: status, over, code (the last)
    policy,    \* the account of a user on Emby: bound, all, enabled, off
    job,       \* per slot: a handler in progress, or Idle
    done,      \* reservation tokens whose redemption is recorded
    uses,      \* per code: grants it was turned into
    wanted,    \* per user: disabled or not, and Block shown or not, as last answered
    loose,     \* users whose access a handler left or found in disorder
    started,   \* handlers started so far
    faults     \* faults so far

vars == <<code, grant, policy, job, done, uses, wanted, loose, started, faults>>

NoJob == [todo |-> <<>>]
Nothing == [bound |-> FALSE, all |-> FALSE, enabled |-> {}, off |-> FALSE]
NoGrant == [status |-> "none", over |-> FALSE, code |-> "none"]
Unborn == [status |-> "unborn"]
Available == [status |-> "available"]
Consumed == [status |-> "gone"]

Visible(u) == IF policy[u].all THEN Lib ELSE policy[u].enabled
Granted(u) == {p \in Partition : grant[u][p].status = "active"}
Expired(u) == {p \in Granted(u) : grant[u][p].over}
Bound(u) == policy[u].bound
Active(s) == job[s].todo # <<>>
At(s, step) == Active(s) /\ Head(job[s].todo) = step
Busy(u) == \E s \in Slot : Active(s) /\ job[s].user = u
Rest(j) == IF Tail(j.todo) = <<>> THEN NoJob ELSE [j EXCEPT !.todo = Tail(@)]
\* Emby's answer is no: what the handler still does about it, if anything.
GivesUp(j) ==
    LET last == j.todo[Len(j.todo)] IN
    IF last \in {"settle", "mark"}
    THEN [j EXCEPT !.todo = <<last>>, !.ok = FALSE, !.seen = {}, !.all = FALSE, !.post = Nothing]
    ELSE NoJob

\* emby_create hides emby_block and extra_emby_libs from a new account.
NewPolicy == [bound |-> TRUE, all |-> FALSE, enabled |-> Lib \ (Block \union Extra), off |-> FALSE]

LibraryInit ==
    /\ code = [c \in Code |-> Unborn]
    /\ grant = [u \in User |-> [p \in Partition |-> NoGrant]]
    /\ policy = [u \in User |-> NewPolicy]
    /\ job = [s \in Slot |-> NoJob]
    /\ done = {}
    /\ uses = [c \in Code |-> 0]
    /\ wanted = [u \in User |-> [off |-> FALSE, block |-> FALSE]]
    /\ loose = {}
    /\ started = 0
    /\ faults = 0

-----------------------------------------------------------------------------
(* Asking Emby. *)

\* hide_folders_by_names and show_folders_by_names: read, read again, post.
Folders(u, op, libs) ==
    [user |-> u, op |-> op, libs |-> libs, todo |-> <<"read", "get", "post">>, ok |-> TRUE,
     seen |-> {}, all |-> FALSE, post |-> Nothing, token |-> 0, code |-> "none", parts |-> {}]
\* enable_all_folders_for_user and disable_all_folders_for_user.
EveryFolder(u, op) == [Folders(u, op, Lib) EXCEPT !.todo = Tail(@)]
\* emby_change_policy.
ChangePolicy(u, op) == EveryFolder(u, op)
Then(plan, step) == [plan EXCEPT !.todo = Append(@, step)]

Count == started < MaxJobs /\ started' = started + 1 /\ UNCHANGED faults

\* Calls on an account that does not exist fail by themselves.
Fault(u) ==
    /\ faults < MaxFaults \/ ~Bound(u)
    /\ faults' = IF Bound(u) THEN faults + 1 ELSE faults
    /\ loose' = loose \union {u}
    /\ UNCHANGED started

Enter(plan) ==
    /\ Count
    /\ \E s \in Slot : ~Active(s) /\ job' = [job EXCEPT ![s] = plan]
    /\ loose' = IF Busy(plan.user) THEN loose \union {plan.user} ELSE loose

Start(plan) == Enter(plan) /\ UNCHANGED <<code, grant, policy, done, uses, wanted>>

\* A call that is refused, or gets no answer, before anything is changed.
Fails(s, step) ==
    /\ At(s, step)
    /\ job' = [job EXCEPT ![s] = GivesUp(@)]
    /\ Fault(job[s].user)
    /\ UNCHANGED <<code, grant, policy, done, uses, wanted>>

\* get_current_enabled_folder_ids: all folders, when all are enabled.
ReadFolders(s) ==
    LET u == job[s].user IN
    /\ At(s, "read") /\ Bound(u)
    /\ job' = [job EXCEPT ![s] = [Rest(@) EXCEPT !.seen = Visible(u), !.all = policy[u].all]]
    /\ UNCHANGED <<code, grant, policy, done, uses, wanted, loose, started, faults>>

\* A user that cannot be read has no folders enabled, for the caller: what it
\* posts takes away all the others.
ReadNothing(s) ==
    /\ At(s, "read")
    /\ job' = [job EXCEPT ![s] = [Rest(@) EXCEPT !.seen = {}, !.all = FALSE]]
    /\ Fault(job[s].user)
    /\ UNCHANGED <<code, grant, policy, done, uses, wanted>>

\* get_folder_ids_by_names finds none: the handler reports success.
FindsNone(s) ==
    /\ At(s, "read")
    /\ job' = [job EXCEPT ![s] = IF GivesUp(@) = NoJob THEN NoJob ELSE [GivesUp(@) EXCEPT !.ok = TRUE]]
    /\ Fault(job[s].user)
    /\ UNCHANGED <<code, grant, policy, done, uses, wanted>>

\* Slip: showing folders posts only those.
PostedOnlyShown(j, got) ==
    CASE j.op = "show" -> [got EXCEPT !.all = FALSE, !.enabled = j.libs]
      [] OTHER -> got

\* The policy a handler posts.
Posted(j, got) ==
    CASE j.op = "show" /\ j.all -> [got EXCEPT !.all = TRUE]
      [] j.op = "show" /\ ~j.all -> [got EXCEPT !.all = FALSE, !.enabled = j.seen \union j.libs]
      [] j.op = "hide" -> [got EXCEPT !.all = FALSE, !.enabled = j.seen \ j.libs]
      [] j.op = "showAll" -> [got EXCEPT !.all = TRUE, !.enabled = Lib]
      [] j.op = "hideAll" -> [got EXCEPT !.all = FALSE, !.enabled = {}]
      [] j.op = "disable" -> [got EXCEPT !.off = TRUE]
      [] j.op = "restore" -> [got EXCEPT !.off = FALSE]

Gets(j, got) == [Rest(j) EXCEPT !.post = Posted(j, got), !.seen = {}, !.all = FALSE]

\* update_user_enabled_folder and emby_change_policy get the policy first.
GetPolicy(s) ==
    LET u == job[s].user IN
    /\ At(s, "get") /\ Bound(u)
    /\ job' = [job EXCEPT ![s] = Gets(@, policy[u])]
    /\ UNCHANGED <<code, grant, policy, done, uses, wanted, loose, started, faults>>
GetFails(s) ==
    /\ At(s, "get") /\ job[s].op \notin {"disable", "restore"}
    /\ Fails(s, "get")
\* emby_change_policy falls back to its default policy, which does not say which
\* folders are enabled.
GetDefault(s) ==
    /\ At(s, "get") /\ job[s].op \in {"disable", "restore"}
    /\ \E all \in BOOLEAN :
         job' = [job EXCEPT ![s] = Gets(@, [NewPolicy EXCEPT !.all = all, !.enabled = {}])]
    /\ Fault(job[s].user)
    /\ UNCHANGED <<code, grant, policy, done, uses, wanted>>

\* What an answered handler has asked for, besides the libraries of partitions.
Wants(j) ==
    CASE j.op = "disable" -> [wanted[j.user] EXCEPT !.off = TRUE]
      [] j.op = "restore" -> [wanted[j.user] EXCEPT !.off = FALSE]
      [] j.op \in {"show", "hide"} /\ j.libs = Block -> [wanted[j.user] EXCEPT !.block = (j.op = "show")]
      [] OTHER -> wanted[j.user]

PostPolicy(s) ==
    LET j == job[s] IN
    /\ At(s, "post") /\ Bound(j.user)
    /\ policy' = [policy EXCEPT ![j.user] = j.post]
    /\ wanted' = [wanted EXCEPT ![j.user] = Wants(j)]
    /\ job' = [job EXCEPT ![s] = Rest([j EXCEPT !.post = Nothing])]
    /\ UNCHANGED <<code, grant, done, uses, loose, started, faults>>

\* No answer, although the policy is changed.
PostUnanswered(s) ==
    LET j == job[s] IN
    /\ At(s, "post") /\ Bound(j.user)
    /\ policy' = [policy EXCEPT ![j.user] = j.post]
    /\ job' = [job EXCEPT ![s] = GivesUp(j)]
    /\ Fault(j.user)
    /\ UNCHANGED <<code, grant, done, uses, wanted>>

\* The process stops: a reservation remains until it is stale.
Stops(s) ==
    /\ Active(s)
    /\ job' = [job EXCEPT ![s] = NoJob]
    /\ Fault(job[s].user)
    /\ UNCHANGED <<code, grant, policy, done, uses, wanted>>

-----------------------------------------------------------------------------
(* Partition codes. *)

\* partition_code_create.
CreateCode(c) ==
    /\ code[c].status = "unborn"
    /\ code' = [code EXCEPT ![c] = Available]
    /\ UNCHANGED <<grant, policy, job, done, uses, wanted, loose, started, faults>>

\* RESERVATION_TTL is over.
Lapse(c) ==
    /\ code[c].status = "reserved" /\ ~code[c].stale
    /\ code' = [code EXCEPT ![c].stale = TRUE]
    /\ UNCHANGED <<grant, policy, job, done, uses, wanted, loose, started, faults>>

Redemption(u, c, token) ==
    [Then(Folders(u, "show", LibsOf[PartOf[c]]), "settle") EXCEPT !.token = token, !.code = c]

\* reserve_code: a code that is free or whose reservation is stale gets a new
\* token; the same user gets the token of its reservation again; then Emby is asked.
Reserve(u, c) ==
    /\ Bound(u)
    /\ code[c].status \in {"available", "reserved"}
    /\ code[c].status = "reserved" => code[c].stale
    /\ code' = [code EXCEPT ![c] = [status |-> "reserved", by |-> u,
                                    token |-> started, stale |-> FALSE]]
    /\ Enter(Redemption(u, c, started))
    /\ UNCHANGED <<grant, policy, done, uses, wanted>>
ReserveAgain(u, c) ==
    /\ Bound(u)
    /\ code[c].status = "reserved" /\ ~code[c].stale /\ code[c].by = u
    /\ Start(Redemption(u, c, code[c].token))

\* Slip: the code is looked for, not the reservation.
AnyReservation(j) == code[j.code].status # "unborn"

\* get_reservation_for_update finds the token, still reserved, by the same user.
Reservation(j) ==
    LET c == code[j.code] IN c.status = "reserved" /\ c.token = j.token /\ c.by = j.user

\* complete_redemption: the grant is extended or made, the code is deleted; a
\* token that is done already is answered as before.
Complete(s) ==
    LET j == job[s] IN
    /\ At(s, "settle") /\ j.ok
    /\ job' = [job EXCEPT ![s] = Rest(j)]
    /\ IF Bound(j.user) /\ j.token \notin done /\ Reservation(j)
       THEN /\ grant' = [grant EXCEPT ![j.user][PartOf[j.code]] =
                             [status |-> "active", over |-> FALSE, code |-> j.code]]
            /\ code' = [code EXCEPT ![j.code] = Consumed]
            /\ done' = done \union {j.token}
            /\ uses' = [uses EXCEPT ![j.code] = @ + 1]
            /\ UNCHANGED loose
       ELSE /\ loose' = loose \union {j.user}
            /\ UNCHANGED <<grant, code, done, uses>>
    /\ UNCHANGED <<policy, wanted, started, faults>>

\* release_reservation: Emby was not changed, the code is not consumed.
Release(s) ==
    LET j == job[s] IN
    /\ At(s, "settle") /\ ~j.ok
    /\ code' = IF Reservation(j)
               THEN [code EXCEPT ![j.code] = Available] ELSE code
    /\ job' = [job EXCEPT ![s] = Rest(j)]
    /\ UNCHANGED <<grant, policy, done, uses, wanted, loose, started, faults>>

\* partition_code_delete: the code, or what has become of the last code of a
\* grant; a grant that is over but not swept leaves its libraries shown.
Unused(c) == code[c].status \in {"available", "reserved"}

ClearCodes(cs) ==
    /\ Count
    /\ \E c \in cs : Unused(c)
    /\ code' = [c \in Code |-> IF c \in cs /\ Unused(c) THEN Consumed ELSE code[c]]
    /\ UNCHANGED <<grant, policy, job, done, uses, wanted, loose>>

\* Grants that are not active or over, of those given.
ClearGrants(gs) ==
    /\ Count
    /\ \E u \in User : \E p \in gs[u] : grant[u][p].status # "none"
    /\ grant' = [u \in User |-> [p \in Partition |-> IF p \in gs[u] THEN NoGrant ELSE grant[u][p]]]
    /\ loose' = loose \union {u \in User : Granted(u) \intersect gs[u] # {}}
    /\ UNCHANGED <<code, policy, job, done, uses, wanted>>
Spent(u) == {p \in Partition : grant[u][p].status = "expired" \/ p \in Expired(u)}

DeleteByCode(c) ==
    \/ ClearCodes({c})
    \/ ClearGrants([u \in User |-> {p \in Spent(u) : grant[u][p].code = c}])
ClearUnused == ClearCodes(Code)
ClearUsed == ClearGrants([u \in User |-> Spent(u)])
ClearAll ==
    /\ Count
    /\ code' = [c \in Code |-> IF Unused(c) THEN Consumed ELSE code[c]]
    /\ grant' = [u \in User |-> [p \in Partition |-> NoGrant]]
    /\ code' # code \/ grant' # grant
    /\ loose' = loose \union {u \in User : Granted(u) # {}}
    /\ UNCHANGED <<policy, job, done, uses, wanted>>

\* expires_at passes.
Expire(u, p) ==
    /\ grant[u][p].status = "active" /\ ~grant[u][p].over
    /\ grant' = [grant EXCEPT ![u][p].over = TRUE]
    /\ UNCHANGED <<code, policy, job, done, uses, wanted, loose, started, faults>>

\* Slip: the libraries of other grants are not spared.
HidesAll(u) == Covered(Expired(u))

\* Only libraries that no grant still in force covers.
HideTargets(u) == Covered(Expired(u)) \ Covered(Granted(u) \ Expired(u))

\* check_partition_access, for one user: what is expired and what is in force
\* is decided before Emby is asked, the mark comes after.
Sweep(u) ==
    /\ Expired(u) # {}
    /\ Start([(IF Bound(u) /\ HideTargets(u) # {}
               THEN Then(Folders(u, "hide", HideTargets(u)), "mark")
               ELSE [Folders(u, "hide", {}) EXCEPT !.todo = <<"mark">>]) EXCEPT !.parts = Expired(u)])

\* sql_mark_grants_expired: by id, whatever they have become; a grant that was
\* deleted meanwhile is not there, one renewed is marked all the same.
MarkExpired(s) ==
    LET j == job[s] IN
    /\ At(s, "mark")
    /\ grant' = [grant EXCEPT ![j.user] = [p \in Partition |->
                    IF p \in j.parts /\ @[p].status # "none"
                    THEN [@[p] EXCEPT !.status = "expired"] ELSE @[p]]]
    /\ job' = [job EXCEPT ![s] = Rest(j)]
    /\ UNCHANGED <<code, policy, done, uses, wanted, loose, started, faults>>

-----------------------------------------------------------------------------
(* Other handlers that post policies. *)

\* A member hides or shows emby_block.
UserEmbyBlock(u) == Bound(u) /\ Start(Folders(u, "hide", Block))
UserEmbyUnblock(u) == Bound(u) /\ Start(Folders(u, "show", Block))

\* An administrator shows or hides libraries whatever the grants say.
StartLoose(plan) ==
    /\ Bound(plan.user)
    /\ Count
    /\ \E s \in Slot : ~Active(s) /\ job' = [job EXCEPT ![s] = plan]
    /\ loose' = loose \union {plan.user}
    /\ UNCHANGED <<code, grant, policy, done, uses, wanted>>
ExtraLibUnblock(u) == StartLoose(Folders(u, "show", Extra))
ExtraLibBlock(u) == StartLoose(Folders(u, "hide", Extra))
ExtraLibsUnblockAll(u) == ExtraLibUnblock(u)
ExtraLibsBlockAll(u) == ExtraLibBlock(u)
LibsUnblockAll(u) == StartLoose(EveryFolder(u, "showAll"))
LibsBlockAll(u) == StartLoose(EveryFolder(u, "hideAll"))

\* Bans and pardons, from LegacyAccount.
Ban(u) == Bound(u) /\ Start(ChangePolicy(u, "disable"))
Pardon(u) == Bound(u) /\ Start(ChangePolicy(u, "restore"))

\* The account goes, or there is a new one: grants belong to the Telegram user
\* and outlive it.
Unbind(u) ==
    /\ Count
    /\ Bound(u)
    /\ policy' = [policy EXCEPT ![u] = [NewPolicy EXCEPT !.bound = FALSE]]
    /\ loose' = loose \union {u}
    /\ UNCHANGED <<code, grant, job, done, uses, wanted>>
Rebind(u) ==
    /\ ~Bound(u)
    /\ policy' = [policy EXCEPT ![u] = NewPolicy]
    /\ wanted' = [wanted EXCEPT ![u] = [off |-> FALSE, block |-> FALSE]]
    /\ loose' = IF Granted(u) = {} /\ ~Busy(u) THEN loose \ {u} ELSE loose
    /\ UNCHANGED <<code, grant, job, done, uses, started, faults>>

\* emby_create goes on when the libraries cannot be hidden; its first policy does not
\* say which folders are enabled.
RebindUnhidden(u) ==
    /\ ~Bound(u) /\ faults < MaxFaults
    /\ \E all \in BOOLEAN : policy' = [policy EXCEPT ![u] = [NewPolicy EXCEPT !.all = all, !.enabled = {}]]
    /\ wanted' = [wanted EXCEPT ![u] = [off |-> FALSE, block |-> FALSE]]
    /\ loose' = loose \union {u}
    /\ faults' = faults + 1
    /\ UNCHANGED <<code, grant, job, done, uses, started>>

-----------------------------------------------------------------------------
EmbyStep(s) == ReadFolders(s) \/ ReadNothing(s) \/ FindsNone(s) \/ GetPolicy(s) \/ GetFails(s)
               \/ GetDefault(s) \/ PostPolicy(s) \/ PostUnanswered(s) \/ Fails(s, "post") \/ Stops(s)
JobStep(s) == EmbyStep(s) \/ Complete(s) \/ Release(s) \/ MarkExpired(s)
UserStep(u) == Sweep(u) \/ UserEmbyBlock(u) \/ UserEmbyUnblock(u) \/ ExtraLibUnblock(u) \/ ExtraLibBlock(u)
               \/ ExtraLibsUnblockAll(u) \/ ExtraLibsBlockAll(u) \/ LibsUnblockAll(u) \/ LibsBlockAll(u)
               \/ Ban(u) \/ Pardon(u) \/ Unbind(u) \/ Rebind(u) \/ RebindUnhidden(u)

LibraryNext ==
    \/ \E s \in Slot : JobStep(s)
    \/ \E u \in User : UserStep(u) \/ \E p \in Partition : Expire(u, p)
    \/ \E c \in Code : CreateCode(c) \/ Lapse(c) \/ DeleteByCode(c)
                       \/ \E u \in User : Reserve(u, c) \/ ReserveAgain(u, c)
    \/ ClearUnused \/ ClearUsed \/ ClearAll

LibrarySpec == LibraryInit /\ [][LibraryNext]_vars

-----------------------------------------------------------------------------
\* Every variable stays in its type.
TypeOK ==
    /\ \A c \in Code : code[c].status \in {"unborn", "available", "reserved", "gone"}
    /\ grant \in [User -> [Partition -> [status : {"none", "active", "expired"}, over : BOOLEAN,
                                         code : Code \union {"none"}]]]
    /\ policy \in [User -> [bound : BOOLEAN, all : BOOLEAN, enabled : SUBSET Lib, off : BOOLEAN]]
    /\ done \subseteq 0..MaxJobs /\ uses \in [Code -> Nat] /\ loose \subseteq User

\* However reservations lapse and are taken over, are asked for twice, released,
\* or deleted while Emby is awaited, a code becomes a grant at most once, and
\* once it has it cannot be reserved again.
GrantedOnce == \A c \in Code : uses[c] <= 1 /\ (uses[c] = 1 => code[c].status = "gone")

\* A user whose handlers did not overlap, were all answered, and were not an
\* administrator's sees exactly those of the partitions' libraries that an
\* active grant covers, also when partitions share a library and one expires.
AccessMatchesGrants ==
    \A u \in User \ loose : Bound(u) /\ ~Busy(u) =>
        Visible(u) \intersect Covered(Partition) = Covered(Granted(u))

\* And what handlers of other settings decided stays: whether the account is
\* disabled, whether emby_block is shown, that all other libraries are.
OtherSettingsKept ==
    \A u \in User \ loose : Bound(u) /\ ~Busy(u) =>
        /\ policy[u].off = wanted[u].off
        /\ Visible(u) \intersect Block = IF wanted[u].block THEN Block ELSE {}
        /\ Lib \ (Block \union Extra) \subseteq Visible(u)

\* Codes, reservations and grants are well-formed, and a code is spent once.
CodesSound == TypeOK /\ GrantedOnce

=============================================================================
