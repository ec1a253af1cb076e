---------------------------- MODULE LegacyLedger ----------------------------
(***************************************************************************)
(* The coins of the archived v2 and what they buy: check-ins, adjustments, *)
(* the shop, codes, recharge orders, red envelopes and MoviePilot requests.*)
(*                                                                         *)
(* Two kinds of writers share the column emby.iv. The services change it   *)
(* in one transaction that locks the user's row (FOR UPDATE), with an      *)
(* idempotency record. The older bot code reads a row, computes, and       *)
(* writes the value: at once, when only a web transaction can come in      *)
(* between, or after it awaited Telegram, Emby or the user.                *)
(*                                                                         *)
(* Abstractions: amounts are small integers; one day; the dates of a       *)
(* renewal are left out, whether it was late is a choice; the red envelope *)
(* is one. The draw of exactly 0.0, which gives 1 of an empty envelope, is *)
(* left out, and so are the bounds of a 32-bit balance. row.red is a ghost:*)
(* the coins of the envelope within row.iv.                                *)
(***************************************************************************)
EXTENDS LegacyRequests

CONSTANTS User, Slot, Code, Order, Key,
          FirstLevels,   \* who has an account, who is disabled, in the beginning
          Start,         \* coins of everybody in the beginning
          WhitelistCost, ExchangeCost, InviteCost, RankFee, Reward,
          Coins,         \* what a product may give
          Money,         \* what envelopes may hold
          RedMinimum     \* the least of them

ASSUME LedgerAssumption ==
    /\ {Start, WhitelistCost, ExchangeCost, InviteCost, RankFee, Reward, RedMinimum} \subseteq Nat
    /\ Coins \subseteq Nat /\ Money \subseteq Nat
    /\ FirstLevels \subseteq [User -> {"a", "b", "c", "d"}]
    /\ IsFiniteSet(User)

VARIABLES
    user,     \* emby: iv, us (registration days), lv, whether ch is today
    code,     \* registration_codes: kind, status, used
    product,  \* recharge_products: the coins of the product, None while it is off
    order,    \* recharge_orders: user, coins, status, key, and its billing entries
    red,      \* the envelope in the bot's memory
    slot,     \* who has read and not yet written
    saved,    \* idempotency_records
    due,      \* ghost: the sum of a user's changes, replays not counted
    stale,    \* ghost: users whose coins were written over from an old read
    listed,   \* ghost: users who acquired the whitelist
    demoted   \* ghost: users whose level was written over from an old read

ledgerVars == <<user, code, product, order, red, slot, saved, due, stale, listed, demoted>>
booksVars == <<requestVars, ledgerVars, ops>>

Levels == {"a", "b", "c", "d"}
HasAccount(u) == user[u].lv # "d"
NoRed == [money |-> 0, members |-> 0, rest |-> 0, left |-> 0, kind |-> "none", target |-> None, got |-> {}, on |-> FALSE]

LedgerInit ==
    /\ RequestInit
    /\ \E lv \in FirstLevels :
         user = [u \in User |-> [iv |-> Start, us |-> 0, lv |-> lv[u], ch |-> FALSE, red |-> 0]]
    /\ code = [c \in Code |-> None]
    /\ product = None
    /\ order = [o \in Order |-> None]
    /\ red = NoRed
    /\ slot = [s \in Slot |-> None]
    /\ saved = {}
    /\ due = [u \in User |-> Start]
    /\ stale = {}
    /\ listed = {}
    /\ demoted = {}

\* The bot runs one thing at a time: nobody of it comes in between a read and a
\* write with no await in between.
AtOnce == {"send", "now", "share"}
BotFree == \A s \in Slot : slot[s] # None => slot[s].kind \notin AtOnce

-----------------------------------------------------------------------------
\* The transactions of the services, with the row of the user locked.

\* Slip: the saved result of a key is not looked for.
FreshEver(scope, key) == TRUE

\* get_idempotent_result: a replay returns the saved result and changes nothing.
Fresh(scope, key) == key = None \/ <<scope, key>> \notin saved

Replay(scope, key) == key # None /\ <<scope, key>> \in saved
Transfer(scope, key, u, amount, row) ==
    /\ Fresh(scope, key)
    /\ user' = [user EXCEPT ![u] = row]
    /\ saved' = IF key = None THEN saved ELSE saved \union {<<scope, key>>}
    /\ due' = [due EXCEPT ![u] = IF Replay(scope, key) THEN @ ELSE @ + amount]

Paid(u, amount) == [user[u] EXCEPT !.iv = @ + amount]
Others == UNCHANGED <<code, product, order, red, slot, stale, listed, demoted>>

\* PointService.adjust on either balance.
AdjustCoins(u, amount, key, negative) ==
    /\ negative \/ user[u].iv + amount >= 0
    /\ Transfer("adjust", key, u, amount, Paid(u, amount))
AdjustDays(u, amount, key, negative) ==
    /\ negative \/ user[u].us + amount >= 0
    /\ Transfer("adjust days", key, u, 0, [user[u] EXCEPT !.us = @ + amount])

CoinsUser(u) == Use /\ \E n \in {-1, 1}, k \in Key : AdjustCoins(u, n, k, TRUE) /\ Others
ScoreUser(u) == Use /\ \E k \in Key : AdjustDays(u, 1, k, TRUE) /\ Others
AdjustPoints(u) ==
    /\ Use
    /\ \E n \in {-1, 1}, k \in Key \union {None}, negative \in BOOLEAN :
         AdjustCoins(u, n, k, negative) \/ (n = 1 /\ AdjustDays(u, n, k, negative))
    /\ Others

\* check_in: once a day, whatever the key.
CheckIn(u) ==
    /\ ~user[u].ch
    /\ Transfer("check in", None, u, Reward, [Paid(u, Reward) EXCEPT !.ch = TRUE])
UserInCheckin(u) == Use /\ CheckIn(u) /\ Others

\* purchase_level, which the shop calls for the whitelist.
PurchaseLevel(u, key) ==
    /\ HasAccount(u) /\ user[u].lv # "a" /\ user[u].iv >= WhitelistCost
    /\ Transfer("level", key, u, -WhitelistCost, [Paid(u, -WhitelistCost) EXCEPT !.lv = "a"])
    /\ listed' = listed \union {u}
DoStoreWhitelist(u) ==
    /\ Use
    /\ \E k \in Key : PurchaseLevel(u, k)
    /\ UNCHANGED <<code, product, order, red, slot, stale, demoted>>

-----------------------------------------------------------------------------
\* Codes.

NewCode(kind) == [kind |-> kind, status |-> "active", used |-> None]
Absent(c) == code[c] = None
CodesOnly == UNCHANGED <<user, product, order, red, slot, saved, due, stale, listed, demoted>>

Generate(c, kind) == Absent(c) /\ code' = [code EXCEPT ![c] = NewCode(kind)]
GenerateCodes(c) == Use /\ (\E k \in {"registration", "renewal", "whitelist"} : Generate(c, k)) /\ CodesOnly

\* /cr_link of the bot: the links of one kind.
CrLinkOne(c) == Generate(c, "registration")
RnLinkOne(c) == Generate(c, "renewal")
WlLinkOne(c) == Generate(c, "whitelist")
CrLink(c) == Use /\ (CrLinkOne(c) \/ RnLinkOne(c) \/ WlLinkOne(c)) /\ CodesOnly

\* purchase_registration_codes: the coins and the codes in one transaction.
PurchaseCodes(u, c, key) ==
    /\ Absent(c) /\ user[u].iv >= InviteCost
    /\ Transfer("codes", key, u, -InviteCost, Paid(u, -InviteCost))
    /\ code' = [code EXCEPT ![c] = NewCode("registration")]
DoStoreInvite(u, c) ==
    /\ Use
    /\ \E k \in Key : PurchaseCodes(u, c, k)
    /\ UNCHANGED <<product, order, red, slot, stale, listed, demoted>>

\* Unused codes are withdrawn (also expired ones) or deleted.
Revoke(c) ==
    /\ ~Absent(c) /\ code[c].used = None
    /\ code' = [code EXCEPT ![c].status = "revoked"]
    /\ CodesOnly /\ UNCHANGED ops
DeleteAllUnused(c) ==
    /\ ~Absent(c) /\ code[c].used = None
    /\ code' = [code EXCEPT ![c] = None]
DeleteUnusedCodes(c) == DeleteAllUnused(c) /\ CodesOnly /\ UNCHANGED ops

\* _redeem: the code is locked after the user; one out of date is marked.
Redeem(c, u, kind, row) ==
    /\ ~Absent(c) /\ code[c].kind = kind /\ code[c].used = None /\ code[c].status = "active"
    /\ \/ /\ user' = [user EXCEPT ![u] = row]
          /\ code' = [code EXCEPT ![c].used = u, ![c].status = "used"]
          /\ listed' = IF kind = "whitelist" THEN listed \union {u} ELSE listed
       \/ /\ code' = [code EXCEPT ![c].status = "expired"]
          /\ UNCHANGED <<user, listed>>
    /\ UNCHANGED <<product, order, red, slot, saved, due, stale, demoted, ops>>

RedeemWhitelist(c, u) ==
    HasAccount(u) /\ user[u].lv # "a" /\ Redeem(c, u, "whitelist", [user[u] EXCEPT !.lv = "a"])
RedeemRegistration(c, u) ==
    ~HasAccount(u) /\ user[u].us <= 0 /\ Redeem(c, u, "registration", [user[u] EXCEPT !.us = @ + 1])

\* Slip: a renewal makes everybody an ordinary user again.
RenewedPlainly(lv, late) == "b"

\* The level after a renewal: only one who is disabled and late is enabled again.
Renewed(lv, late) == IF late /\ lv = "c" THEN "b" ELSE lv

RedeemRenewal(c, u) ==
    HasAccount(u) /\ \E late \in BOOLEAN :
        Redeem(c, u, "renewal", [user[u] EXCEPT !.lv = Renewed(@, late)])
RgsCode(c, u) == RedeemWhitelist(c, u) \/ RedeemRegistration(c, u) \/ RedeemRenewal(c, u)
CallExchange(c, u) == RgsCode(c, u)
CallWlExchange(c, u) == RedeemWhitelist(c, u)

-----------------------------------------------------------------------------
\* What is for sale. An order keeps the coins it was created with.
ProductOnly == UNCHANGED <<user, code, order, red, slot, saved, due, stale, listed, demoted>>
CreateProduct == Use /\ product = None /\ product' \in Coins /\ ProductOnly
UpdateProduct == Use /\ product' \in (Coins \union {None}) \ {product} /\ ProductOnly

\* Recharge orders. The creation looks for the key without a lock; the unique
\* record of the key decides at the commit.

OrdersOnly == UNCHANGED <<user, code, product, red, due, stale, listed, demoted>>
CreateMyRechargeOrder(s, u) ==
    /\ slot[s] = None /\ product # None
    /\ Use
    /\ \E k \in Key \union {None} :
         /\ ~Replay("order", k)
         /\ slot' = [slot EXCEPT ![s] = [kind |-> "order", user |-> u, key |-> k, coins |-> product]]
    /\ OrdersOnly /\ UNCHANGED <<order, saved>>

\* Slip: the record of a key is not unique.
CommitsAlways(scope, key) == TRUE

\* save_idempotent_result at the commit: the second record of a key is refused.
Commits(scope, key) == ~Replay(scope, key)

CreateOrderCommits(s, o) ==
    LET now == slot[s] IN
    /\ now # None /\ now.kind = "order" /\ order[o] = None
    /\ slot' = [slot EXCEPT ![s] = None]
    /\ IF Commits("order", now.key)
       THEN /\ order' = [order EXCEPT ![o] = [user |-> now.user, coins |-> now.coins, status |-> "pending",
                                              key |-> now.key, entries |-> <<"created">>]]
            /\ saved' = IF now.key = None THEN saved ELSE saved \union {<<"order", now.key>>}
       ELSE UNCHANGED <<order, saved>>
    /\ OrdersOnly /\ UNCHANGED ops

Entered(o, status, entry) ==
    [order EXCEPT ![o].status = status, ![o].entries = Append(@, entry)]
Book(u, amount) ==
    /\ user' = [user EXCEPT ![u] = Paid(u, amount)]
    /\ due' = [due EXCEPT ![u] = @ + amount]
BooksOnly == UNCHANGED <<code, product, red, slot, saved, stale, listed, demoted, ops>>

\* decide_order and cancel_order take a pending order only.
Decidable(o) == order[o].status = "pending"

Approve(o) ==
    /\ order[o] # None /\ Decidable(o)
    /\ order' = Entered(o, "credited", "credited")
    /\ Book(order[o].user, order[o].coins)
    /\ BooksOnly
Reject(o) ==
    /\ order[o] # None /\ Decidable(o)
    /\ order' = Entered(o, "canceled", "rejected")
    /\ UNCHANGED <<user, due>> /\ BooksOnly
DecideOrder(o) == Approve(o) \/ Reject(o)
CancelOrder(o) ==
    /\ order[o] # None /\ Decidable(o)
    /\ order' = Entered(o, "canceled", "canceled")
    /\ UNCHANGED <<user, due>> /\ BooksOnly
CancelMyOrder(o) == CancelOrder(o)

\* refund_order: only what the user still has.
Refund(o) ==
    /\ order[o] # None /\ order[o].status = "credited"
    /\ user[order[o].user].iv >= order[o].coins
    /\ order' = Entered(o, "refunded", "refunded")
    /\ Book(order[o].user, -order[o].coins)
    /\ BooksOnly
RefundOrder(o) == Refund(o)

-----------------------------------------------------------------------------
\* The older writers: a read of the rows, then the values for some of them.

Reading(kind, who, delta) ==
    [kind |-> kind, delta |-> delta, lv |-> None, gain |-> 0,
     seen |-> [u \in who |-> [iv |-> user[u].iv, lv |-> user[u].lv, red |-> user[u].red]]]
Who(now) == DOMAIN now.seen
Reads(s, record) ==
    /\ slot[s] = None
    /\ slot' = [slot EXCEPT ![s] = record]
    /\ UNCHANGED <<user, code, product, order, red, saved, due, stale, listed, demoted>>

\* sql_update_emby and sql_update_embys with the values computed from the read.
Written(now, u) ==
    [user[u] EXCEPT !.iv = now.seen[u].iv + now.delta,
                    !.red = now.seen[u].red + now.gain,
                    !.lv = IF now.lv = None THEN @ ELSE now.lv]
Writes(s, next) ==
    LET now == slot[s] IN
    /\ slot' = [slot EXCEPT ![s] = next]
    /\ UNCHANGED <<code, product, order, saved, listed>>
    /\ user' = [u \in User |-> IF u \in Who(now) THEN Written(now, u) ELSE user[u]]
    /\ due' = [u \in User |-> IF u \in Who(now) THEN due[u] + now.delta ELSE due[u]]
    /\ stale' = stale \union {u \in Who(now) : user[u].iv # now.seen[u].iv}
    /\ demoted' = IF now.lv = None THEN demoted
                  ELSE demoted \union {u \in Who(now) : user[u].lv # now.seen[u].lv}

\* The helpers answer False when the database fails; these callers go on.
WritesOrFails(s, next) ==
    \/ Writes(s, next)
    \/ /\ slot' = [slot EXCEPT ![s] = next]
       /\ UNCHANGED <<user, code, product, order, saved, due, stale, listed, demoted>>

\* /srank, the credit endpoint, and /coinsall for a level.
SRank(s, u) == Use /\ user[u].iv >= RankFee /\ Reads(s, Reading("now", {u}, -RankFee))
UpdateCredit(s, u) ==
    Use /\ \E n \in {-1, 1} : user[u].iv + n >= 0 /\ Reads(s, Reading("now", {u}, n))
CoinsAll(s) ==
    Use /\ \E lv \in Levels, n \in {-1, 1} : Reads(s, Reading("now", {u \in User : user[u].lv = lv}, n))
\* The weekly ranking has the photo drawn and sent before it writes.
UserPlaysRank(s) ==
    Use /\ \E who \in SUBSET {u \in User : HasAccount(u)} \ {{}} : Reads(s, Reading("later", who, 1))

\* The check of the expired: a renewal paid with coins, and what it does to the level.
CheckEx(s, u) ==
    /\ Use
    /\ user[u].lv \in {"b", "c"} /\ user[u].iv >= ExchangeCost
    /\ Reads(s, [Reading("later", {u}, -ExchangeCost)
                   EXCEPT !.lv = IF user[u].lv = "c" THEN "b" ELSE None])
\* The revival from the shop waits for the user's /ok.
DoStoreReborn(s, u) ==
    /\ Use
    /\ user[u].lv = "c" /\ user[u].iv >= ExchangeCost
    /\ Reads(s, [Reading("later", {u}, -ExchangeCost) EXCEPT !.lv = "b"])

SimpleKinds == {"now", "later"}
BlindWrite(s) ==
    /\ slot[s] # None /\ slot[s].kind \in SimpleKinds
    /\ slot[s].kind \in AtOnce \/ BotFree
    /\ Writes(s, None)
    /\ UNCHANGED <<red, ops>>

\* /coinsclear: one statement, whatever was there.
CoinsClear ==
    /\ Use
    /\ \E lv \in SUBSET Levels \ {{}} :
         LET who == {u \in User : user[u].lv \in lv} IN
         /\ lv = Levels \/ Cardinality(lv) = 1
         /\ user' = [u \in User |-> IF u \in who THEN [user[u] EXCEPT !.iv = 0, !.red = 0] ELSE user[u]]
         /\ due' = [u \in User |-> IF u \in who THEN 0 ELSE due[u]]
         /\ stale' = stale \ who
    /\ UNCHANGED <<code, product, order, red, slot, saved, listed, demoted>>

-----------------------------------------------------------------------------
\* Red envelopes.

\* The sender pays first; the envelope is made after messages were sent.
VerifySender(s, u) ==
    /\ Use
    /\ red.kind = "none"
    /\ \E m \in Money : m >= RedMinimum /\ user[u].iv >= m
                        /\ Reads(s, Reading("send", {u}, -m))
SenderPaid(s) ==
    /\ slot[s] # None /\ slot[s].kind = "send"
    /\ WritesOrFails(s, [kind |-> "paid", money |-> -slot[s].delta])
    /\ UNCHANGED <<red, ops>>

\* create_reds. Channels and groups pay nothing and may have more shares than coins.
CreateReds(money, most) ==
    /\ red.kind = "none"
    /\ \E n \in 1 .. Cardinality(User), kind \in {"random", "equal", "private"}, t \in User :
         /\ kind = "private" => n = 1
         /\ n <= most
         /\ red' = [money |-> money, members |-> n, rest |-> money, left |-> n, kind |-> kind,
                    target |-> IF kind = "private" THEN t ELSE None, got |-> {}, on |-> TRUE]
    /\ UNCHANGED <<user, code, product, order, saved, due, stale, listed, demoted>>
SendRedEnvelope(s) ==
    /\ slot[s] # None /\ slot[s].kind = "paid"
    /\ CreateReds(slot[s].money, slot[s].money)
    /\ slot' = [slot EXCEPT ![s] = None]
    /\ UNCHANGED ops
SendAsChannel == Use /\ (\E m \in Money : CreateReds(m, Cardinality(User))) /\ UNCHANGED slot

\* Slip: the last one draws as the others do.
SharesDrawn == 0 .. (2 * red.rest) \div red.left

\* The possible shares: a draw up to twice the mean, all the rest for the last.
Shares ==
    CASE red.kind = "equal" -> {red.money \div red.members}
      [] red.kind = "private" -> {red.rest}
      [] red.kind = "random" /\ red.left = 1 -> {red.rest}
      [] OTHER -> IF 2 * red.rest < red.left THEN {0} ELSE 1 .. (2 * red.rest) \div red.left

\* grab_red_envelope up to the write. A private one answers the user meanwhile.
GrabReads(s, u) ==
    /\ red.on /\ u \notin red.got /\ red.left > 0
    /\ red.kind = "private" => u = red.target
    /\ Use
    /\ \E n \in Shares :
         Reads(s, [Reading(IF red.kind = "private" THEN "private" ELSE "share", {u}, n) EXCEPT !.gain = n])

\* The write, and the envelope, which goes when it is empty.
GrabWrites(s) ==
    LET now == slot[s]
        u == CHOOSE v \in Who(now) : TRUE
    IN
    /\ now # None /\ now.kind \in {"private", "share"}
    /\ now.kind = "private" => BotFree
    /\ WritesOrFails(s, None)
    /\ red' = [red EXCEPT !.rest = @ - now.delta, !.left = @ - 1, !.got = @ \union {u},
                          !.on = @ /\ red.left # 1]
    /\ UNCHANGED ops

-----------------------------------------------------------------------------
\* A download from the bot: MoviePilot first, then three transactions, one after the
\* other. The bot may stop between any two.

Picking(u, phase, d) == [kind |-> "pick", user |-> u, phase |-> phase, download |-> d]
PickReads(s, u) ==
    /\ Use
    /\ user[u].iv >= 1
    /\ Reads(s, Picking(u, "chosen", None))

\* Slip: the request is imported before it is charged.
NextPhaseEager(phase) == "import"

\* What is done next, and in which order.
NextPhase(phase) ==
    CASE phase = "added" -> "charge" [] phase = "charge" -> "record" [] phase = "record" -> "import"

AddDownload(s) ==
    LET now == slot[s] IN
    /\ now # None /\ now.kind = "pick" /\ now.phase = "chosen"
    /\ \E d \in {e \in Download : moviepilot[e] = "none"} :
         /\ moviepilot' = [moviepilot EXCEPT ![d] = "downloading"]
         /\ slot' = [slot EXCEPT ![s] = Picking(now.user, NextPhase("added"), d)]
    /\ UNCHANGED <<user, code, product, order, red, saved, due, stale, listed, demoted, request, post, sync, torn, ops>>
PickCharges(s) ==
    LET now == slot[s] IN
    /\ now # None /\ now.kind = "pick" /\ now.phase = "charge"
    /\ \/ AdjustCoins(now.user, -1, now.download, TRUE)
       \/ Replay("adjust", now.download) /\ UNCHANGED <<user, saved, due>>
    /\ slot' = [slot EXCEPT ![s] = Picking(now.user, NextPhase("charge"), now.download)]
    /\ UNCHANGED <<code, product, order, red, stale, listed, demoted, requestVars, ops>>

\* sql_add_request_record, written or refused: only the list of one's requests shows it.
AddRequestRecord(s) ==
    LET now == slot[s] IN
    /\ now # None /\ now.kind = "pick" /\ now.phase = "record"
    /\ slot' = [slot EXCEPT ![s] = Picking(now.user, NextPhase("record"), now.download)]
    /\ UNCHANGED <<user, code, product, order, red, saved, due, stale, listed, demoted, requestVars, ops>>

\* import_download: unless the download has a row already.
ImportDownload(s, q) ==
    LET now == slot[s] IN
    /\ now # None /\ now.kind = "pick" /\ now.phase = "import"
    /\ \/ /\ RowOf(now.download) = {} /\ ~Exists(q)
          /\ Change(q, NewRow("approved", now.download, "telegram"))
       \/ RowOf(now.download) # {} /\ UNCHANGED <<request, torn>>
    /\ slot' = [slot EXCEPT ![s] = None]
    /\ UNCHANGED <<user, code, product, order, red, saved, due, stale, listed, demoted, moviepilot, post, sync, ops>>

-----------------------------------------------------------------------------
\* Somebody never answers, or the request is dropped: nothing more is written.
NeverAnswers(s) ==
    /\ slot[s] # None
    /\ slot' = [slot EXCEPT ![s] = None]
    /\ UNCHANGED <<user, code, product, order, red, saved, due, stale, listed, demoted, ops>>

\* The bot stops: what it was at is gone, and so is the envelope.
Crash ==
    /\ Use
    /\ slot' = [s \in Slot |-> IF slot[s] = None \/ slot[s].kind = "order" THEN slot[s] ELSE None]
    /\ red' = [red EXCEPT !.on = FALSE]
    /\ UNCHANGED <<user, code, product, order, saved, due, stale, listed, demoted>>

WebStep ==
    \/ CreateProduct \/ UpdateProduct
    \/ \E u \in User : AdjustPoints(u) \/ \E s \in Slot : CreateMyRechargeOrder(s, u)
    \/ \E c \in Code : GenerateCodes(c) \/ Revoke(c) \/ \E u \in User : CallExchange(c, u) \/ CallWlExchange(c, u)
    \/ \E o \in Order : DecideOrder(o) \/ CancelMyOrder(o) \/ RefundOrder(o)
                        \/ \E s \in Slot : CreateOrderCommits(s, o)

BotStep ==
    /\ BotFree
    /\ \/ \E u \in User : CoinsUser(u) \/ ScoreUser(u) \/ UserInCheckin(u) \/ DoStoreWhitelist(u)
       \/ \E u \in User, c \in Code : DoStoreInvite(u, c)
       \/ \E c \in Code : CrLink(c) \/ DeleteUnusedCodes(c)
       \/ \E s \in Slot, u \in User : \/ SRank(s, u) \/ UpdateCredit(s, u) \/ CheckEx(s, u)
                                      \/ DoStoreReborn(s, u) \/ VerifySender(s, u)
                                      \/ GrabReads(s, u) \/ (PickReads(s, u))
       \/ \E s \in Slot : CoinsAll(s) \/ UserPlaysRank(s) \/ SendRedEnvelope(s)
       \/ CoinsClear \/ SendAsChannel

LedgerStep ==
    \/ WebStep
    \/ BotStep
    \/ \E s \in Slot : BlindWrite(s) \/ SenderPaid(s) \/ GrabWrites(s) \/ NeverAnswers(s)
    \/ Crash

PickStep ==
    BotFree /\ \E s \in Slot : \/ AddDownload(s) \/ PickCharges(s) \/ AddRequestRecord(s)
                              \/ \E q \in Request : ImportDownload(s, q)

LedgerNext ==
    \/ LedgerStep /\ UNCHANGED requestVars
    \/ PickStep
    \/ RequestNext /\ UNCHANGED ledgerVars

LedgerSpec == LedgerInit /\ [][LedgerNext]_booksVars

-----------------------------------------------------------------------------
\* The coins of a user are the start and the sum of what was paid and received,
\* each key counted once, unless an older writer wrote over somebody else's change.
CoinsAddUp == \A u \in User \ stale : user[u].iv = due[u]

\* All users together never hold more of an envelope than its sender put in, for
\* all the shares, the double taps and the writes from old reads.
EnvelopeCovers == MapThenSumSet(LAMBDA u : user[u].red, User) <= red.money

\* Who acquired the whitelist has it, unless a level computed before was written
\* after.
WhitelistKept == \A u \in listed \ demoted : user[u].lv = "a"

\* reconciliation_summary: nothing credited without its entry, none twice.
Credits(o) == {k \in DOMAIN order[o].entries : order[o].entries[k] = "credited"}
Healthy == \A o \in {p \in Order : order[p] # None} :
    /\ order[o].status = "credited" => Credits(o) # {}
    /\ \A j, k \in Credits(o) : j = k

EntriesOf(status) ==
    CASE status = "pending" -> {<<"created">>}
      [] status = "credited" -> {<<"created", "credited">>}
      [] status = "canceled" -> {<<"created", "canceled">>, <<"created", "rejected">>}
      [] status = "refunded" -> {<<"created", "credited", "refunded">>}

\* The billing entries of an order tell its status, and a key has one order: what
\* the reconciliation of the platform asks, and more.
BooksAgree ==
    /\ Healthy
    /\ \A o \in Order : order[o] # None =>
         /\ order[o].entries \in EntriesOf(order[o].status)
         /\ \A p \in Order \ {o} : order[p] # None => order[p].key = None \/ order[p].key # order[o].key

\* A request from Telegram is recorded only after its download was charged,
\* wherever the bot stopped.
RecordedMeansCharged ==
    [][\A q \in Request :
         ~Exists(q) /\ request'[q] # None /\ request'[q].source = "telegram" =>
             <<"adjust", request'[q].download>> \in saved]_booksVars

\* A completed request has progress 100, unless the row changed between the
\* job's read and its write.
CompletedIsFull ==
    \A q \in Request \ torn : Exists(q) /\ request[q].status = "completed" => request[q].full

=============================================================================
