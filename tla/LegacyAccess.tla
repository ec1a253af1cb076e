----------------------------- MODULE LegacyAccess -----------------------------
(***************************************************************************)
(* Who may enter the web backend of the archived v2: requests to log in    *)
(* that a Telegram user claims and decides in the bot and the browser      *)
(* polls and exchanges for a session; unified accounts with their local    *)
(* names; membership plans and who has one.                                *)
(*                                                                         *)
(* A handler that locks its row first (FOR UPDATE) is one step. Those that *)
(* read without a lock, or keep one from a read to a write, have two, and  *)
(* what they read waits in a slot.                                         *)
(*                                                                         *)
(* Abstractions: an account is its key in the table emby, the Telegram id  *)
(* of a person or a negative number; passwords are right; the limits per   *)
(* address, roles, tags and the end of sessions by time are left out. A    *)
(* handler reads the clock before it waits for the row, so that it may     *)
(* take a request for open that has expired meanwhile.                     *)
(***************************************************************************)
EXTENDS Integers, Sequences, FiniteSetsExt, TLC

CONSTANTS Person,         \* Telegram ids, positive
          Known,          \* those with a row in emby
          Owner,          \* one of them
          Name, Request,
          Plan,           \* membership plans
          Seeded,         \* those the migration creates ...
          Standard,       \* ... and the one of them that is the default
          Slot, Nobody,
          MaxBegun        \* bound: what is begun

ASSUME AccessAssumption ==
    /\ Person \subseteq Nat \ {0} /\ Known \subseteq Person /\ Owner \in Known
    /\ Seeded \subseteq Plan /\ Standard \in Seeded
    /\ Request \intersect {"emby", "local"} = {}
    /\ Nobody \notin Int \union Name \union {"active", "suspended"} /\ MaxBegun \in Nat
    /\ Nobody \notin [status : {"pending", "claimed", "approved", "rejected", "consumed", "expired"},
                      wanted : Person \union {Nobody}, approved : Person \union {Nobody},
                      purpose : {"login", "registration"}]

VARIABLES
    request,  \* web_login_requests: status, requested_tg, approved_tg, purpose
    late,     \* requests whose expires_at has passed
    polled,   \* requests a poll is about to mark as expired
    decided,  \* ghost: per request, who decided and how
    session,  \* web_sessions: account, origin, whether not revoked
    account,  \* accounts: status, or Nobody
    identity, \* account_identities of the provider local: name to account
    member,   \* account_memberships of an account: their status, oldest first
    plan,     \* membership_plans: enabled, is_default
    busy,     \* per slot: a handler between its read and its write
    created,  \* ghost: local accounts whose creation succeeded
    begun

accessVars == <<request, late, polled, decided, session, account, identity, member, plan, busy, created, begun>>

LocalKeys == -MaxBegun .. -1
Key == Person \union LocalKeys
HasAccount(k) == account[k] # Nobody
Begin == begun < MaxBegun /\ begun' = begun + 1
Purposes == {"login", "registration"}

AccessInit ==
    /\ request = [r \in Request |-> Nobody]
    /\ late = {} /\ polled = {}
    /\ decided = [r \in Request |-> {}]
    /\ session = << >>
    /\ account = [k \in Key |-> Nobody]
    /\ identity = [n \in Name |-> Nobody]
    /\ member = [k \in Key |-> << >>]
    /\ plan = [p \in Plan |-> IF p \in Seeded THEN [enabled |-> TRUE, default |-> p = Standard] ELSE Nobody]
    /\ busy = [s \in Slot |-> Nobody]
    /\ created = 0
    /\ begun = 0

-----------------------------------------------------------------------------
\* Requests to log in.
NewRequest(wanted, purpose) ==
    [status |-> "pending", wanted |-> wanted, approved |-> Nobody, purpose |-> purpose]

\* create_telegram_login, for anybody or for one person.
CreateTelegramLogin(r, wanted, purpose) ==
    /\ request[r] = Nobody
    /\ Begin
    /\ request' = [request EXCEPT ![r] = NewRequest(wanted, purpose)]
    /\ UNCHANGED <<late, polled, decided, session, account, identity, member, plan, busy, created>>
TelegramStart(r, wanted) == CreateTelegramLogin(r, wanted, "login")
TelegramRegistrationStart(r, wanted) == CreateTelegramLogin(r, wanted, "registration")

Expires(r) ==
    /\ request[r] # Nobody /\ r \notin late
    /\ late' = late \union {r}
    /\ UNCHANGED <<request, polled, decided, session, account, identity, member, plan, busy, created, begun>>

\* Whoever locks the row after it has expired notes that, whatever its status was.
MarkExpired(r) ==
    /\ r \in late
    /\ request' = [request EXCEPT ![r].status = "expired"]
    /\ UNCHANGED <<late, polled, decided, session, account, identity, member, plan, busy, created, begun>>

WithAccount(k) == [account EXCEPT ![k] = IF @ = Nobody THEN "active" ELSE @]

\* claim: by the person it is for, which whoever claims it first becomes. Strangers
\* may claim only to register.
ClaimTelegramLogin(r, tg, purpose) ==
    /\ request[r] # Nobody /\ request[r].purpose = purpose
    /\ request[r].status \in {"pending", "claimed"}
    /\ request[r].wanted \in {Nobody, tg}
    /\ tg \in Known \/ HasAccount(tg) \/ purpose = "registration"
    /\ account' = WithAccount(tg)
    /\ request' = [request EXCEPT ![r].wanted = tg, ![r].status = "claimed"]
    /\ UNCHANGED <<late, polled, decided, session, identity, member, plan, busy, created, begun>>
HandleWebLoginStart(r, tg) == \E purpose \in Purposes : ClaimTelegramLogin(r, tg, purpose)

\* decide: once, by the person it is for.
DecideTelegramLogin(r, tg, approve) ==
    /\ request[r] # Nobody /\ request[r].wanted = tg
    /\ request[r].status \in {"pending", "claimed"}
    /\ request' = [request EXCEPT ![r].status = IF approve THEN "approved" ELSE "rejected",
                                  ![r].approved = IF approve THEN tg ELSE Nobody]
    /\ decided' = [decided EXCEPT ![r] = @ \union {<<tg, approve>>}]
    /\ UNCHANGED <<late, polled, session, account, identity, member, plan, busy, created, begun>>
WebLoginDecision(r, tg) == \E approve \in BOOLEAN : DecideTelegramLogin(r, tg, approve)

\* telegram_login_status reads without a lock ...
PollReads(r) ==
    /\ request[r] # Nobody /\ r \in late
    /\ request[r].status \notin {"consumed", "rejected", "expired"}
    /\ polled' = polled \union {r}
    /\ UNCHANGED <<request, late, decided, session, account, identity, member, plan, busy, created, begun>>

Polled(row) == "expired"

\* ... and writes over whatever the status has become.
PollWrites(r) ==
    /\ r \in polled
    /\ request' = [request EXCEPT ![r].status = Polled(request[r])]
    /\ polled' = polled \ {r}
    /\ UNCHANGED <<late, decided, session, account, identity, member, plan, busy, created, begun>>

\* _create_session.
CreateSession(k, from) == session' = Append(session, [account |-> k, from |-> from, live |-> TRUE])

\* exchange: an approved request becomes a session, and is consumed.
ExchangeTelegramLogin(r, purpose) ==
    LET tg == request[r].approved IN
    /\ request[r] # Nobody /\ request[r].purpose = purpose
    /\ request[r].status = "approved" /\ tg # Nobody
    /\ account' = WithAccount(tg)
    /\ CreateSession(tg, r)
    /\ request' = [request EXCEPT ![r].status = "consumed"]
    /\ UNCHANGED <<late, polled, decided, identity, member, plan, busy, created, begun>>
TelegramExchange(r) == ExchangeTelegramLogin(r, "login")
TelegramRegistrationExchange(r) == ExchangeTelegramLogin(r, "registration")

\* With the password of the Emby account of a person ...
EmbyLogin(tg) ==
    /\ tg \in Known
    /\ Begin
    /\ account' = WithAccount(tg)
    /\ CreateSession(tg, "emby")
    /\ UNCHANGED <<request, late, polled, decided, identity, member, plan, busy, created>>

\* ... or with the name of an account, suspended or not.
LocalLogin(n) ==
    /\ identity[n] # Nobody
    /\ Begin
    /\ CreateSession(identity[n], "local")
    /\ UNCHANGED <<request, late, polled, decided, account, identity, member, plan, busy, created>>

Logout(i) ==
    /\ session[i].live
    /\ session' = [session EXCEPT ![i].live = FALSE]
    /\ UNCHANGED <<request, late, polled, decided, account, identity, member, plan, busy, created, begun>>

\* logout_all: every session of the account that has been committed.
LogoutAll(i) ==
    /\ session[i].live
    /\ session' = [j \in DOMAIN session |->
           IF session[j].account = session[i].account THEN [session[j] EXCEPT !.live = FALSE] ELSE session[j]]
    /\ UNCHANGED <<request, late, polled, decided, account, identity, member, plan, busy, created, begun>>

-----------------------------------------------------------------------------
\* Accounts and names.

\* next_local_legacy_key: one less than the least, and never positive.
NextLocalKey == Min({0} \union {k \in Key : HasAccount(k)}) - 1

\* create_local: looks for the name and computes a key, without a lock ...
LocalStartReads(s, n) ==
    /\ busy[s] = Nobody /\ identity[n] = Nobody
    /\ Begin
    /\ busy' = [busy EXCEPT ![s] = [kind |-> "create", name |-> n, key |-> NextLocalKey]]
    /\ UNCHANGED <<request, late, polled, decided, session, account, identity, member, plan, created>>

\* The unique columns.
Insertable(job) == identity[job.name] = Nobody /\ ~HasAccount(job.key)

\* ... and inserts both, then a session to register with. Any conflict is told as a
\* name that is taken.
LocalStartWrites(s) ==
    LET job == busy[s] IN
    /\ job # Nobody /\ job.kind = "create"
    /\ busy' = [busy EXCEPT ![s] = Nobody]
    /\ IF Insertable(job)
       THEN /\ identity' = [identity EXCEPT ![job.name] = job.key]
            /\ account' = [account EXCEPT ![job.key] = "active"]
            /\ created' = created + 1
            /\ CreateSession(job.key, "local")
       ELSE UNCHANGED <<identity, account, created, session>>
    /\ UNCHANGED <<request, late, polled, decided, member, plan, begun>>

\* add_local_identity: a name for an account, in place of the one it had.
SetLocalIdentity(k, n) ==
    /\ HasAccount(k) /\ identity[n] \in {Nobody, k}
    /\ Begin
    /\ identity' = [m \in Name |-> IF m = n THEN k ELSE IF identity[m] = k THEN Nobody ELSE identity[m]]
    /\ UNCHANGED <<request, late, polled, decided, session, account, member, plan, busy, created>>

\* bootstrap_owner, when the backend starts: the owner's first name.
BootstrapOwner(n) ==
    /\ \A m \in Name : identity[m] # Owner
    /\ identity[n] = Nobody
    /\ Begin
    /\ account' = WithAccount(Owner)
    /\ identity' = [identity EXCEPT ![n] = Owner]
    /\ UNCHANGED <<request, late, polled, decided, session, member, plan, busy, created>>

-----------------------------------------------------------------------------
\* Membership plans and memberships.
Current(k) == {i \in DOMAIN member[k] : member[k][i] \in {"active", "suspended"}}
Newest(k) == IF Current(k) = {} THEN 0 ELSE Max(Current(k))
Assigning(k) == \E s \in Slot : busy[s] # Nobody /\ busy[s].kind = "assign" /\ busy[s].key = k

\* Slip: neither the account nor its membership is read for update.
AccountRead(k) == TRUE

\* An assignment holds the row of the account, and that of its membership, to its commit.
AccountFree(k) == ~Assigning(k)

\* assign_plan: an enabled plan, for an account that exists ...
AssignLocks(s, k, p) ==
    /\ busy[s] = Nobody
    /\ HasAccount(k) /\ AccountFree(k)
    /\ plan[p] # Nobody /\ plan[p].enabled
    /\ busy' = [busy EXCEPT ![s] = [kind |-> "assign", key |-> k, current |-> Newest(k)]]
    /\ UNCHANGED <<request, late, polled, decided, session, account, identity, member, plan, created>>

AssignMembership(s, k, p) == AssignLocks(s, k, p) /\ Begin

\* assign_default_plan, when a registration ends, looks for the plan in a transaction
\* of its own. By then it may be disabled, and nothing is assigned.
ChooseDefault(s, k, p) ==
    /\ busy[s] = Nobody
    /\ plan[p] # Nobody /\ plan[p].enabled /\ plan[p].default
    /\ Begin
    /\ busy' = [busy EXCEPT ![s] = [kind |-> "default", key |-> k, plan |-> p]]
    /\ UNCHANGED <<request, late, polled, decided, session, account, identity, member, plan, created>>

AssignDefault(s) ==
    LET job == busy[s] IN
    /\ job # Nobody /\ job.kind = "default"
    /\ AccountFree(job.key)
    /\ busy' = [busy EXCEPT ![s] =
           IF HasAccount(job.key) /\ plan[job.plan].enabled
           THEN [kind |-> "assign", key |-> job.key, current |-> Newest(job.key)] ELSE Nobody]
    /\ UNCHANGED <<request, late, polled, decided, session, account, identity, member, plan, created, begun>>

\* ... replaces the membership the account has by a new one.
AssignCommits(s) ==
    LET job == busy[s] IN
    /\ job # Nobody /\ job.kind = "assign"
    /\ busy' = [busy EXCEPT ![s] = Nobody]
    /\ member' = [member EXCEPT ![job.key] =
           Append([i \in DOMAIN @ |-> IF i = job.current THEN "replaced" ELSE @[i]], "active")]
    /\ UNCHANGED <<request, late, polled, decided, session, account, identity, plan, created, begun>>

WithMember(k, status) == [member EXCEPT ![k] = [i \in DOMAIN @ |-> IF i = Newest(k) THEN status ELSE @[i]]]

\* _set_account_status: a lifecycle action suspends an account or restores it, its
\* membership with it.
SetAccountStatus(k, status) ==
    /\ HasAccount(k) /\ AccountFree(k)
    /\ Begin
    /\ account' = [account EXCEPT ![k] = status]
    /\ member' = WithMember(k, status)
    /\ UNCHANGED <<request, late, polled, decided, session, identity, plan, busy, created>>

\* _expire_membership and _extend_membership: a suspended one becomes active, too.
SetMembership(k, status) ==
    /\ HasAccount(k) /\ Current(k) # {} /\ AccountFree(k)
    /\ Begin
    /\ member' = WithMember(k, status)
    /\ UNCHANGED <<request, late, polled, decided, session, account, identity, plan, busy, created>>
ExpireMembership(k) == SetMembership(k, "expired")
ExtendMembership(k) == SetMembership(k, "active")

\* create_plan and update_plan: read every plan, without a lock. The default plan is
\* not disabled, the others are ...
NewPlan == [enabled |-> TRUE, default |-> FALSE]
PlanReads(s, p, change) ==
    /\ busy[s] = Nobody
    /\ plan[p] = Nobody => change # "disable"
    /\ plan[p] # Nobody /\ change = "disable" => ~plan[p].default
    /\ Begin
    /\ busy' = [busy EXCEPT ![s] = [kind |-> "plan", plan |-> p, change |-> change, seen |-> plan]]
    /\ UNCHANGED <<request, late, polled, decided, session, account, identity, member, plan, created>>

\* ... and write the columns that differ from what they have read: a plan made the
\* default one is enabled, and those they saw to be it no longer are.
Changed(job) ==
    LET p == job.plan
        old == IF job.seen[p] = Nobody THEN NewPlan ELSE job.seen[p]
        now == IF plan[p] = Nobody THEN NewPlan ELSE plan[p]
        others == {q \in Plan \ {p} : job.seen[q] # Nobody /\ job.seen[q].default}
    IN
    CASE job.change = "default" ->
           [q \in Plan |-> IF q = p THEN [enabled |-> now.enabled \/ ~old.enabled, default |-> now.default \/ ~old.default]
                           ELSE IF q \in others THEN [plan[q] EXCEPT !.default = FALSE] ELSE plan[q]]
      [] job.change = "disable" -> [plan EXCEPT ![p].enabled = now.enabled /\ ~old.enabled]
      [] OTHER -> [plan EXCEPT ![p] = [enabled |-> now.enabled \/ ~old.enabled, default |-> now.default]]

PlanWrites(s) ==
    LET job == busy[s] IN
    /\ job # Nobody /\ job.kind = "plan"
    /\ plan' = Changed(job)
    /\ busy' = [busy EXCEPT ![s] = Nobody]
    /\ UNCHANGED <<request, late, polled, decided, session, account, identity, member, created, begun>>

AccessNext ==
    \/ \E r \in Request :
         \/ \E wanted \in Person \union {Nobody} : TelegramStart(r, wanted) \/ TelegramRegistrationStart(r, wanted)
         \/ Expires(r) \/ MarkExpired(r) \/ PollReads(r) \/ PollWrites(r)
         \/ \E tg \in Person : HandleWebLoginStart(r, tg) \/ WebLoginDecision(r, tg)
         \/ TelegramExchange(r) \/ TelegramRegistrationExchange(r)
    \/ \E tg \in Person : EmbyLogin(tg)
    \/ \E n \in Name : LocalLogin(n) \/ BootstrapOwner(n) \/ \E k \in Key : SetLocalIdentity(k, n)
    \/ \E i \in DOMAIN session : Logout(i) \/ LogoutAll(i)
    \/ \E s \in Slot :
         \/ \E n \in Name : LocalStartReads(s, n)
         \/ LocalStartWrites(s) \/ AssignDefault(s) \/ AssignCommits(s) \/ PlanWrites(s)
         \/ \E k \in Key, p \in Plan : AssignMembership(s, k, p) \/ ChooseDefault(s, k, p)
         \/ \E p \in Plan, change \in {"default", "disable", "enable"} : PlanReads(s, p, change)
    \/ \E k \in Key :
         \/ \E status \in {"active", "suspended"} : SetAccountStatus(k, status)
         \/ ExpireMembership(k) \/ ExtendMembership(k)

-----------------------------------------------------------------------------
\* A request to log in is decided at most once and opens at most one session: of the
\* person who approved it, and of nobody when it was rejected. No order of polls, of
\* the bot's handlers and of exchanges, nor the request's expiry among them, brings
\* a request back.
LoginOnce ==
    \A r \in Request :
        LET opened == {i \in DOMAIN session : session[i].from = r} IN
        /\ Cardinality(decided[r]) <= 1
        /\ Cardinality(opened) <= 1
        /\ \A i \in opened : decided[r] = {<<session[i].account, TRUE>>}

\* Every local account that was created is there, and has a key of its own: two that
\* computed the same key are not both told that they succeeded.
KeysAreNew == Cardinality({k \in LocalKeys : HasAccount(k)}) = created

\* An account has at most one membership that is active or suspended, whoever assigns,
\* suspends, expires and extends at once.
OneMembership == \A k \in Key : Cardinality(Current(k)) <= 1

\* A request opens one session at most, of whom it was decided for; and an account
\* shares its key with no other and holds one plan.
AccessIsExclusive == LoginOnce /\ KeysAreNew /\ OneMembership

=============================================================================
