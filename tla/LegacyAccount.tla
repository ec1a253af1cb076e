---------------------------- MODULE LegacyAccount ----------------------------
(***************************************************************************)
(* The row of a Telegram user (table emby) of the archived v2 bot and the  *)
(* account it is bound to on the Emby server, under the handlers that ban, *)
(* restore, renew, delete, move and clear it: the nightly sweeps           *)
(* (check_expired, check_low_activity, user_plays_rank), the commands and  *)
(* buttons of administrators and members, the webhooks and the batch task  *)
(* of the web backend.                                                     *)
(*                                                                         *)
(* Almost every handler reads the row, awaits Emby and then writes columns *)
(* with sql_update_emby, which locks nothing and compares nothing; between *)
(* the steps the event loop, the web process and the worker run others. A  *)
(* handler is a job: what it has read is fixed when it starts, what is     *)
(* left of it is a sequence of steps.                                      *)
(*                                                                         *)
(* Abstractions: a credit is 30 registration days (us) or exchange_cost    *)
(* coins (iv); ex is where the expiry lies: nowhere, ahead, past, or past  *)
(* the freeze days too. Passwords, names, messages, the table emby2 of     *)
(* accounts without Telegram and the counter _open.tem are left out.       *)
(***************************************************************************)
EXTENDS Integers, FiniteSets, Sequences, TLC

CONSTANTS Member, EmbyId, NoId, Handler,
          MaxCredit,     \* bound: credits a user ever holds
          MaxJobs,       \* bound: handlers that are ever started
          Exchange       \* _open.exchange: coins renew an expired account

ASSUME AccountAssumption == NoId \notin EmbyId /\ MaxCredit \in Nat /\ MaxJobs \in Nat /\ Exchange \in BOOLEAN

VARIABLES
    row,       \* table emby: embyid, lv, ex, us, iv
    server,    \* the accounts of the Emby server: unborn, on, off, gone
    job,       \* per slot: a handler in progress, or Idle
    owed,      \* credits granted to a user less those that bought something
    loose,     \* users whose handlers overlapped, went unanswered or check nothing
    stray,     \* accounts deleted with nobody left to tell the database, or bound twice
    started    \* handlers started so far

accountVars == <<row, server, job, owed, loose, stray, started>>

Level == {"a", "b", "c", "d"}
Expiry == {"none", "live", "due", "frozen"}
Row == [id: EmbyId \union {NoId}, lv: Level, ex: Expiry, us: 0..MaxCredit, iv: 0..MaxCredit]
Step == {"ask", "write", "complete", "remove", "clear", "rebind"}

NoJob == [todo |-> <<>>]
Exists(i) == i # NoId /\ server[i] \in {"on", "off"}
Expired(r) == r.ex \in {"due", "frozen"}
Bound(u) == row[u].id # NoId
AtWork(s) == job[s].todo # <<>>
At(s, step) == AtWork(s) /\ Head(job[s].todo) = step
Busy(u) == \E s \in Handler : AtWork(s) /\ job[s].user = u
Holders(i) == {u \in Member : row[u].id = i}

\* A row of which some columns are written.
Over(set, r) == [c \in DOMAIN set \union DOMAIN r |-> IF c \in DOMAIN set THEN set[c] ELSE r[c]]

Fresh == [id |-> NoId, lv |-> "d", ex |-> "none", us |-> 0, iv |-> 0]
Cleared == [id |-> NoId, lv |-> "d", ex |-> "none"]
Nothing == <<>>

AccountInit ==
    /\ row = [u \in Member |-> Fresh]
    /\ server = [i \in EmbyId |-> "unborn"]
    /\ job = [s \in Handler |-> NoJob]
    /\ owed = [u \in Member |-> 0]
    /\ loose = {}
    /\ stray = {}
    /\ started = 0

-----------------------------------------------------------------------------
(* Jobs. *)

\* A handler for u that has read the row: op is what it asks of Emby, for the
\* account id; set the columns it writes; by how sql_update_emby finds the row.
Plan(u, todo, op, by, set) ==
    [user |-> u, id |-> row[u].id, todo |-> todo, op |-> op, by |-> by, set |-> set,
     checked |-> TRUE, buys |-> FALSE]

AskThenWrite(u, op, by, set) == Plan(u, <<"ask", "write">>, op, by, set)
Unchecked(plan) == [plan EXCEPT !.checked = FALSE]
Buying(plan) == [plan EXCEPT !.buys = TRUE]

\* Some deletions find the row to clear by the user, not by the account.
DeletionByUser(u) == AskThenWrite(u, "delete", "tg", Cleared)

\* Nearly every deletion: emby_del, then clear the row of that account.
Deletion(u) == AskThenWrite(u, "delete", "embyid", Cleared)

\* Two handlers meet when they are for the same user or the same account.
Meets(t, u, i) == AtWork(t) /\ (job[t].user = u \/ (i # NoId /\ job[t].id = i))
Loosened(u) ==
    IF \E t \in Handler : Meets(t, u, row[u].id) THEN loose \union {u} ELSE loose

\* Binding u to i in slot s goes wrong unnoticed when somebody deleted i, when
\* another row is bound to it as well, or when another handler is at work on it.
BoundAmiss(s, u, i) ==
    ~Exists(i) \/ Holders(i) # {} \/ \E t \in Handler \ {s} : Meets(t, u, i)

\* Whom that concerns: nobody of them is undisturbed any more.
Concerned(s, u, i) ==
    {u} \union Holders(i) \union {job[t].user : t \in {t \in Handler \ {s} : Meets(t, u, i)}}

Count == started < MaxJobs /\ started' = started + 1

Enter(plan) ==
    /\ Count
    /\ \E s \in Handler : ~AtWork(s) /\ job' = [job EXCEPT ![s] = plan]

Launch(plan) ==
    /\ Enter(plan)
    /\ UNCHANGED <<row, server, stray>>

Start(plan) == Launch(plan) /\ loose' = Loosened(plan.user) /\ UNCHANGED owed

\* A handler that leaves level and account apart whatever Emby answers.
StartLoose(plan) == Launch(plan) /\ loose' = loose \union {plan.user} /\ UNCHANGED owed

\* A handler that neither asks Emby nor awaits anything between read and write.
AtOnce(u, set) ==
    /\ Count
    /\ row' = [row EXCEPT ![u] = Over(set, @)]
    /\ loose' = Loosened(u)
    /\ UNCHANGED <<server, job, stray>>

Outcome(op) == CASE op = "off" -> "off" [] op = "on" -> "on" [] op = "delete" -> "gone"
Takes(j) == IF j.op = "check" THEN server[j.id] = "on" ELSE Exists(j.id)
Applied(j) == IF j.op = "check" THEN server ELSE [server EXCEPT ![j.id] = Outcome(j.op)]

Rest(j) == IF Tail(j.todo) = <<>> THEN NoJob ELSE [j EXCEPT !.todo = Tail(@)]

\* Slip: a handler writes whatever Emby answered.
GoesOnRegardless(j, ok) == Rest(j)

\* What remains of the job after Emby's answer: a handler that checks it stops.
GoesOn(j, ok) == IF ok \/ ~j.checked THEN Rest(j) ELSE NoJob

\* Every call on an account that does not exist fails.
EmbyAnswers(s) ==
    LET j == job[s] IN
    /\ At(s, "ask")
    /\ job' = [job EXCEPT ![s] = GoesOn(j, Takes(j))]
    /\ server' = IF Takes(j) THEN Applied(j) ELSE server
    /\ loose' = IF Takes(j) \/ j.checked THEN loose ELSE loose \union {j.user}
    /\ UNCHANGED <<row, owed, stray, started>>

\* The call fails, or takes effect although the handler gets no answer:
\* _request gives up after its timeout and does not repeat it.
EmbyFails(s) ==
    LET j == job[s] IN
    /\ At(s, "ask")
    /\ job' = [job EXCEPT ![s] = GoesOn(j, FALSE)]
    /\ \/ UNCHANGED <<server, stray>>
       \/ /\ Takes(j)
          /\ server' = Applied(j)
          /\ stray' = IF j.op = "delete" THEN stray \union {j.id} ELSE stray
    /\ loose' = loose \union {j.user}
    /\ UNCHANGED <<row, owed, started>>

\* sql_update_emby and sql_delete_emby: the first row that fits, if any.
Matches(j) ==
    CASE j.by = "tg" -> {j.user}
      [] j.by = "embyid" -> Holders(j.id)
      [] j.by = "either" -> {j.user} \union Holders(j.id)

\* A deletion that looks for the user misses the row its account has moved to.
Astray(j, after) ==
    IF j.op = "delete" /\ j.by # "embyid" /\ \E u \in Member : after[u].id = j.id
    THEN {j.id} ELSE {}

\* Of what is bound to an account that is gone or has a row, no deletion will tell.
Lost(i) == IF ~Exists(i) \/ Holders(i) # {} THEN {i} ELSE {}

\* Only the columns given.
Write(s) ==
    LET j == job[s]
        binds == "id" \in DOMAIN j.set /\ j.set.id # NoId
    IN
    /\ At(s, "write")
    /\ IF Matches(j) = {} THEN UNCHANGED row
       ELSE \E u \in Matches(j) : row' = [row EXCEPT ![u] = Over(j.set, @)]
    /\ owed' = [owed EXCEPT ![j.user] = IF j.buys THEN @ - 1 ELSE @]
    /\ job' = [job EXCEPT ![s] = Rest(j)]
    /\ stray' = stray \union Astray(j, row')
                      \union IF binds THEN Lost(j.set.id) ELSE {}
    /\ loose' = IF binds /\ (BoundAmiss(s, j.user, j.set.id) \/ server[j.set.id] # "on")
                THEN loose \union Concerned(s, j.user, j.set.id) ELSE loose
    /\ UNCHANGED <<server, started>>

\* sql_delete_emby, sql_delete_emby_by_tg: the row goes, with its balances.
Remove(s) ==
    LET j == job[s] IN
    /\ At(s, "remove")
    /\ IF Matches(j) = {} THEN UNCHANGED <<row, owed>>
       ELSE \E u \in Matches(j) :
              /\ row' = [row EXCEPT ![u] = Fresh]
              /\ owed' = [owed EXCEPT ![u] = 0]
    /\ job' = [job EXCEPT ![s] = Rest(j)]
    /\ stray' = stray \union Astray(j, row')
    /\ UNCHANGED <<server, loose, started>>

\* A write raises, or the process stops, before it.
StepFails(s) ==
    LET j == job[s] IN
    /\ AtWork(s) /\ Head(j.todo) # "ask"
    /\ job' = [job EXCEPT ![s] = NoJob]
    /\ loose' = loose \union {j.user}
    /\ stray' = IF j.op = "delete" THEN stray \union {j.id} ELSE stray
    /\ UNCHANGED <<row, server, owed, started>>

-----------------------------------------------------------------------------
(* Registration, as far as the row sees it: execute has created the account  *)
(* and completes it under the row's lock, or takes the account back.         *)

Register(u) ==
    /\ ~Bound(u)
    /\ \E i \in EmbyId :
         /\ server[i] = "unborn"
         /\ server' = [server EXCEPT ![i] = "on"]
         /\ Enter([user |-> u, id |-> i, op |-> "create", todo |-> <<"complete">>])
    /\ loose' = Loosened(u)
    /\ UNCHANGED <<row, owed, stray>>

\* The registration days are spent when they were what allowed it.
Completes(s) ==
    LET j == job[s] IN
    /\ At(s, "complete")
    /\ \/ /\ Bound(j.user)
          /\ server' = [server EXCEPT ![j.id] = "gone"]
          /\ UNCHANGED <<row, owed, loose, stray>>
       \/ /\ ~Bound(j.user)
          /\ \E us \in {row[j.user].us, 0} :
               row' = [row EXCEPT ![j.user] = Over([id |-> j.id, lv |-> "b", ex |-> "live", us |-> us], @)]
          /\ IF server[j.id] = "on" /\ ~BoundAmiss(s, j.user, j.id)
             THEN /\ loose' = loose \ {j.user}
                  /\ owed' = [owed EXCEPT ![j.user] = row'[j.user].us + row[j.user].iv]
             ELSE loose' = loose \union Concerned(s, j.user, j.id) /\ UNCHANGED owed
          /\ stray' = stray \union Lost(j.id)
          /\ UNCHANGED server
    /\ job' = [job EXCEPT ![s] = NoJob]
    /\ UNCHANGED started

\* Time passes: ex falls behind, then the freeze days after it are over.
Tick(u) ==
    /\ row[u].ex \in {"live", "due"}
    /\ row' = [row EXCEPT ![u].ex = IF @ = "live" THEN "due" ELSE "frozen"]
    /\ UNCHANGED <<server, job, owed, loose, stray, started>>

-----------------------------------------------------------------------------
(* The sweeps. check_expired holds the rows it has read while it awaits Emby *)
(* and Telegram for the rows before.                                         *)

\* us is spent before iv, and iv only when coins renew.
Pays(u) ==
    IF row[u].us > 0 THEN [us |-> row[u].us - 1] ELSE [iv |-> row[u].iv - 1]
CanPay(u) == row[u].us > 0 \/ (Exchange /\ row[u].iv > 0)

\* Slip: the sweep renews without taking the credit.
SweepRenewsFree(u) ==
    /\ row[u].lv = "b" /\ Expired(row[u]) /\ CanPay(u)
    /\ Start(Buying(Plan(u, <<"write">>, "none", "tg", [ex |-> "live"])))

SweepRenews(u) ==
    /\ row[u].lv = "b" /\ Expired(row[u]) /\ CanPay(u)
    /\ Start(Buying(Plan(u, <<"write">>, "none", "tg", Over([ex |-> "live"], Pays(u)))))

SweepDisables(u) ==
    /\ row[u].lv = "b" /\ Expired(row[u]) /\ ~CanPay(u)
    /\ Start(AskThenWrite(u, "off", "tg", [lv |-> "c"]))

SweepRestores(u) ==
    /\ row[u].lv = "c" /\ Expired(row[u]) /\ CanPay(u)
    /\ Start(Buying(AskThenWrite(u, "on", "tg", Over([lv |-> "b", ex |-> "live"], Pays(u)))))

SweepDeletes(u) ==
    /\ row[u].lv = "c" /\ row[u].ex = "frozen" /\ ~CanPay(u)
    /\ Start(Deletion(u))

\* check_low_activity goes through the users of Emby; how long ago each was
\* active is open.
LowActivity(u) ==
    /\ Exists(row[u].id)
    /\ \/ row[u].lv = "b" /\ Start(AskThenWrite(u, "off", "embyid", [lv |-> "c"]))
       \/ row[u].lv = "c" /\ Start(Deletion(u))

\* user_plays_rank adds the points to the coins it read before it awaited the
\* names and the picture.
RankReward(u) ==
    /\ Bound(u) /\ owed[u] < MaxCredit /\ row[u].iv < MaxCredit
    /\ Launch(Plan(u, <<"write">>, "none", "tg", [iv |-> row[u].iv + 1]))
    /\ owed' = [owed EXCEPT ![u] = @ + 1]
    /\ loose' = Loosened(u)

-----------------------------------------------------------------------------
(* Bans and pardons. *)

KkUserBan(u) ==
    /\ Bound(u)
    /\ \/ row[u].lv # "c" /\ Start(AskThenWrite(u, "off", "tg", [lv |-> "c"]))
       \/ row[u].lv = "c" /\ Start(AskThenWrite(u, "on", "tg", [lv |-> "b"]))

UinfoDisable(u) ==
    /\ Bound(u) /\ row[u].lv # "c"
    /\ Start(AskThenWrite(u, "off", "embyid", [lv |-> "c"]))

\* Slip: enabling an account leaves its level banned.
UinfoEnableOnly(u) ==
    /\ Bound(u) /\ row[u].lv = "c"
    /\ Start(AskThenWrite(u, "on", "embyid", <<>>))

UinfoEnable(u) ==
    /\ Bound(u) /\ row[u].lv = "c"
    /\ Start(AskThenWrite(u, "on", "embyid", [lv |-> "b"]))

BanUser(u) == Bound(u) /\ Start(AskThenWrite(u, "off", "tg", [lv |-> "c"]))
HandleClientFilter(u) == BanUser(u)

\* line_report spares the whitelisted.
HandleLineViolation(u) == BanUser(u)
LineReport(u) == row[u].lv # "a" /\ HandleLineViolation(u)

\* ban_playlist writes the level only if the group could be told.
BanPlaylist(u) ==
    /\ Bound(u)
    /\ \/ BanUser(u)
       \/ StartLoose(Plan(u, <<"ask">>, "off", "tg", Nothing))

\* banall and unbanall go through the accounts of Emby but write only rows of
\* the level they expect.
BanAll(u) ==
    /\ Exists(row[u].id)
    /\ \/ row[u].lv = "b" /\ Start(AskThenWrite(u, "off", "tg", [lv |-> "c"]))
       \/ row[u].lv # "b" /\ StartLoose(Plan(u, <<"ask">>, "off", "tg", Nothing))
UnbanAll(u) ==
    /\ Exists(row[u].id)
    /\ \/ row[u].lv = "c" /\ Start(AskThenWrite(u, "on", "tg", [lv |-> "b"]))
       \/ row[u].lv # "c" /\ StartLoose(Plan(u, <<"ask">>, "on", "tg", Nothing))

\* proadmin, prouser and a whitelist code, revuser: the account is not asked for.
ProUser(u) ==
    /\ Count
    /\ Bound(u)
    /\ row' = [row EXCEPT ![u].lv = "a"]
    /\ loose' = IF row[u].lv = "c" THEN loose \union {u} ELSE Loosened(u)
    /\ UNCHANGED <<server, job, owed, stray>>
RevUser(u) ==
    /\ Count
    /\ row' = [row EXCEPT ![u].lv = "b"]
    /\ loose' = IF row[u].lv = "c" THEN loose \union {u} ELSE Loosened(u)
    /\ UNCHANGED <<server, job, owed, stray>>

-----------------------------------------------------------------------------
(* Renewals and credits. *)

\* /renew [+/-days]: what Emby answers is not looked at, nor is an account
\* needed; a whitelisted account stays enabled.
Renew(u) ==
    LET level == IF row[u].lv = "a" THEN "a" ELSE "b" IN
    \/ Start(Unchecked(AskThenWrite(u, "on", "tg", [ex |-> "live", lv |-> level])))
    \/ row[u].lv = "a" /\ AtOnce(u, [ex |-> "due"]) /\ UNCHANGED owed
    \/ /\ row[u].lv # "a"
       /\ Start(Unchecked(AskThenWrite(u, "off", "tg", [ex |-> "due", lv |-> "c"])))

\* A renewal code is redeemed under the row's lock; only an expired account is
\* unbanned, and Emby asked for it afterwards.
RedeemRenewal(u) ==
    /\ Bound(u)
    /\ \/ /\ ~Expired(row[u])
          /\ AtOnce(u, [ex |-> "live"]) /\ UNCHANGED owed
       \/ /\ Expired(row[u])
          /\ row' = [row EXCEPT ![u].ex = "live", ![u].lv = IF @ = "c" THEN "b" ELSE @]
          /\ Enter(Unchecked(Plan(u, <<"ask">>, "on", "tg", Nothing)))
          /\ loose' = Loosened(u)
          /\ UNCHANGED <<server, owed, stray>>

\* store-reborn: the answer to a question lies between the coins that were read
\* and those that are written; the account is enabled after the level.
Reborn(u) ==
    /\ Bound(u) /\ row[u].lv = "c" /\ row[u].iv > 0
    /\ Start(Buying(Unchecked(Plan(u, <<"write", "ask">>, "on", "tg",
                                   [iv |-> row[u].iv - 1, lv |-> "b"]))))

RenewAll ==
    LET given == {u \in Member : row[u].lv = "b" /\ row[u].ex # "none"} IN
    /\ Count /\ given # {}
    /\ row' = [u \in Member |-> IF u \in given THEN [row[u] EXCEPT !.ex = "live"] ELSE row[u]]
    /\ loose' = loose \union {u \in given : Busy(u)}
    /\ UNCHANGED <<server, job, owed, stray>>

\* Adjustments and gifts of registration days or coins: a credit more.
Earns(u, set) ==
    /\ owed[u] < MaxCredit /\ AtOnce(u, set)
    /\ owed' = [owed EXCEPT ![u] = @ + 1]
ScoreUser(u) == row[u].us < MaxCredit /\ Earns(u, [us |-> row[u].us + 1])
CoinsUser(u) == row[u].iv < MaxCredit /\ Earns(u, [iv |-> row[u].iv + 1])
UpdateCredit(u) == CoinsUser(u)

CoinsAll ==
    LET given == {u \in Member : row[u].lv = "b"} IN
    /\ Count /\ \A u \in given : owed[u] < MaxCredit /\ row[u].iv < MaxCredit
    /\ row' = [u \in Member |-> IF u \in given THEN [row[u] EXCEPT !.iv = @ + 1] ELSE row[u]]
    /\ owed' = [u \in Member |-> IF u \in given THEN owed[u] + 1 ELSE owed[u]]
    /\ loose' = loose \union {u \in Member : Busy(u)}
    /\ UNCHANGED <<server, job, stray>>

CoinsClear ==
    /\ Count
    /\ row' = [u \in Member |-> [row[u] EXCEPT !.iv = 0]]
    /\ owed' = [u \in Member |-> owed[u] - row[u].iv]
    /\ loose' = loose \union {u \in Member : Busy(u)}
    /\ UNCHANGED <<server, job, stray>>

-----------------------------------------------------------------------------
(* Deletions. *)

CloseEmby(u) == Bound(u) /\ Start(Deletion(u))
RmEmby(u) == CloseEmby(u)
UinfoDelete(u) == CloseEmby(u)
LeaveDelEmby(u) == CloseEmby(u)

\* delme asks for the security code and a confirmation; the button holds the
\* account there was before.
DelEmby(u) == CloseEmby(u)

\* urm clears the row of the user it found.
Urm(u) == Bound(u) /\ Start(DeletionByUser(u))

\* syncgroupm clears the row of the account, then removes that of the user.
SyncGroupm(u) ==
    /\ row[u].lv = "b"
    /\ Start([Deletion(u) EXCEPT !.todo = <<"ask", "write", "remove">>, !.by = "embyid"])

\* paolu removes the row of the user or of the account, whichever comes first.
Paolu(u) ==
    /\ Exists(row[u].id)
    /\ Start(Plan(u, <<"ask", "remove">>, "delete", "either", Nothing))

OnlyRmRecord(u) == Start(Plan(u, <<"remove">>, "none", "tg", Nothing))

OnlyRmEmby(i) ==
    /\ Count
    /\ Exists(i)
    /\ server' = [server EXCEPT ![i] = "gone"]
    /\ stray' = stray \union {i}
    /\ loose' = loose \union Holders(i)
    /\ UNCHANGED <<row, job, owed>>

\* syncunbound: also the account whose registration is not completed yet.
SyncUnbound(i) ==
    /\ Count
    /\ Exists(i) /\ Holders(i) = {}
    /\ server' = [server EXCEPT ![i] = "gone"]
    /\ stray' = stray \union {i}
    /\ UNCHANGED <<row, job, owed, loose>>

-----------------------------------------------------------------------------
(* Moving and binding. *)

\* change_tg: one write clears the old row, balances included, the next binds
\* what was read of it to the new one, which is not looked at again.
ChangeTg(u, w) ==
    /\ Bound(u) /\ u # w
    /\ Enter([user |-> u, to |-> w, id |-> row[u].id, op |-> "move", by |-> "tg",
              todo |-> <<"clear", "rebind">>,
              set |-> [id |-> row[u].id, lv |-> row[u].lv, ex |-> row[u].ex, iv |-> row[u].iv]])
    /\ loose' = Loosened(u)
    /\ UNCHANGED <<row, server, owed, stray>>

ClearOld(s) ==
    LET j == job[s] IN
    /\ At(s, "clear")
    /\ row' = [row EXCEPT ![j.user] = Fresh]
    /\ owed' = [owed EXCEPT ![j.user] = 0]
    /\ job' = [job EXCEPT ![s] = Rest(j)]
    /\ UNCHANGED <<server, loose, stray, started>>

Rebind(s) ==
    LET j == job[s]
        amiss == BoundAmiss(s, j.to, j.id) \/ Meets(s, j.to, NoId) \/ j.user \in loose
    IN
    /\ At(s, "rebind")
    /\ row' = [row EXCEPT ![j.to] = Over(j.set, @)]
    /\ owed' = [owed EXCEPT ![j.to] = row[j.to].us + j.set.iv]
    /\ job' = [job EXCEPT ![s] = Rest(j)]
    /\ loose' = IF amiss THEN loose \union Concerned(s, j.to, j.id) ELSE loose
    /\ stray' = stray \union Lost(j.id)
    /\ UNCHANGED <<server, started>>

\* bind_tg: no row has the account when it is looked for; then its password is
\* checked, which fails for a disabled account. The password of an account still
\* being registered is nobody's yet.
BindTg(u, i) ==
    /\ ~Bound(u) /\ Exists(i) /\ Holders(i) = {}
    /\ ~\E s \in Handler : At(s, "complete") /\ job[s].id = i
    /\ Start([Plan(u, <<"ask", "write">>, "check", "tg", [id |-> i, lv |-> "b", ex |-> "live"])
                EXCEPT !.id = i])

\* restore_from_db: a new account for a row whose account is gone.
RestoreFromDb(u) ==
    /\ Bound(u) /\ ~Exists(row[u].id)
    /\ \E i \in EmbyId :
         /\ server[i] = "unborn"
         /\ server' = [server EXCEPT ![i] = "on"]
         /\ Enter(Plan(u, <<"write">>, "create", "tg", [id |-> i]))
    /\ loose' = loose \union {u}
    /\ UNCHANGED <<row, owed, stray>>

-----------------------------------------------------------------------------
(* users.batch of the web backend, one user of the list. *)

\* suspend and restore change the account and the status of the unified
\* account, not the level.
BatchPolicy(u) ==
    \E op \in {"off", "on"} : Bound(u) /\ StartLoose(Plan(u, <<"ask">>, op, "tg", Nothing))

\* clear_account finds the row by the user; without an account it asks nobody.
BatchClear(u) ==
    Start(IF Bound(u) THEN DeletionByUser(u) ELSE Plan(u, <<"write">>, "none", "tg", Cleared))

\* extend adds to the expiry it read in a transaction before.
BatchExtend(u) == Start(Plan(u, <<"write">>, "none", "tg", [ex |-> "live"]))

Batch(u) == BatchPolicy(u) \/ BatchClear(u) \/ BatchExtend(u)

-----------------------------------------------------------------------------
Sweep(u) == SweepRenews(u) \/ SweepDisables(u) \/ SweepRestores(u) \/ SweepDeletes(u)
            \/ LowActivity(u) \/ RankReward(u)
Judge(u) == KkUserBan(u) \/ UinfoDisable(u) \/ UinfoEnable(u) \/ BanUser(u)
            \/ HandleClientFilter(u) \/ LineReport(u) \/ BanPlaylist(u) \/ BanAll(u) \/ UnbanAll(u) \/ ProUser(u) \/ RevUser(u)
Credit(u) == Renew(u) \/ RedeemRenewal(u) \/ Reborn(u) \/ ScoreUser(u) \/ CoinsUser(u) \/ UpdateCredit(u)
Erase(u) == CloseEmby(u) \/ RmEmby(u) \/ UinfoDelete(u) \/ LeaveDelEmby(u) \/ DelEmby(u)
            \/ Urm(u) \/ SyncGroupm(u) \/ Paolu(u) \/ OnlyRmRecord(u)
JobStep(s) == EmbyAnswers(s) \/ EmbyFails(s) \/ Write(s) \/ Remove(s) \/ Completes(s)
              \/ ClearOld(s) \/ Rebind(s) \/ StepFails(s)

AccountNext ==
    \/ \E s \in Handler : JobStep(s)
    \/ \E u \in Member : Register(u) \/ Tick(u) \/ Sweep(u) \/ Judge(u) \/ Credit(u) \/ Erase(u)
                       \/ Batch(u) \/ RestoreFromDb(u)
    \/ \E u, w \in Member : ChangeTg(u, w)
    \/ \E u \in Member, i \in EmbyId : BindTg(u, i)
    \/ \E i \in EmbyId : OnlyRmEmby(i) \/ SyncUnbound(i)
    \/ RenewAll \/ CoinsAll \/ CoinsClear

-----------------------------------------------------------------------------
\* Every variable stays in its type; a job is made of known steps.
AccountTypeOK ==
    /\ row \in [Member -> Row]
    /\ server \in [EmbyId -> {"unborn", "on", "off", "gone"}]
    /\ \A s \in Handler : \A k \in DOMAIN job[s].todo : job[s].todo[k] \in Step
    /\ owed \in [Member -> Int]
    /\ loose \subseteq Member /\ stray \subseteq EmbyId

\* However the handlers of the bot, the web process and the worker interleave,
\* a row is bound to a deleted account only while the handler that deleted it is
\* still to clear it, unless the deletion was lost on the way to the database.
DanglingOnlyInFlight ==
    \A u \in Member : Bound(u) /\ server[row[u].id] = "gone" =>
        \/ row[u].id \in stray
        \/ \E s \in Handler : AtWork(s) /\ job[s].op = "delete" /\ job[s].id = row[u].id

\* A handler that finds the row by its account clears it only after Emby has
\* deleted that account: an answer that is lost or negative leaves the binding.
ByUser(u) == \E s \in Handler : (At(s, "write") \/ At(s, "remove") \/ At(s, "clear"))
                             /\ job[s].by \in {"tg", "either"} /\ u \in Matches(job[s])
ClearedOnlyDeleted ==
    [][\A u \in Member : (Bound(u) /\ row'[u].id # row[u].id /\ ~ByUser(u) /\ ~\E s \in Handler : At(s, "rebind"))
                       => server[row[u].id] = "gone"]_accountVars

\* Of a user whose handlers did not overlap and were all answered, the level says
\* what the account is: banned means disabled, any other level of an account enabled.
LevelMatchesServer ==
    \A u \in Member \ loose : Bound(u) /\ ~Busy(u) /\ row[u].id \notin stray =>
        /\ row[u].lv = "c" => server[row[u].id] # "on"
        /\ row[u].lv \in {"a", "b"} => server[row[u].id] = "on"

\* And the balances are the credits granted less those that bought a renewal.
CreditsAddUp ==
    \A u \in Member \ loose : ~Busy(u) => row[u].us + row[u].iv = owed[u]

\* A row and the account on the server tell the same: none is left bound to what Emby
\* has deleted, and no level contradicts what the account is.
RowsMatchServer == AccountTypeOK /\ DanglingOnlyInFlight /\ LevelMatchesServer

=============================================================================
