----------------------------- MODULE Membership -----------------------------
(***************************************************************************)
(* Membership assignment and invitation codes of                           *)
(* internal/platform/membership.go as concurrent transactions at READ      *)
(* COMMITTED: RedeemInvitation, RevokeInvitation and assignMembershipTx,   *)
(* which the administrator's, the batch and the purchase path share.       *)
(*                                                                         *)
(* An assignment reads the expiry of the account's current row FOR UPDATE, *)
(* expires whatever current row it then finds, and inserts a new one that  *)
(* starts at the expiry it read.  A SELECT FOR UPDATE that had to wait     *)
(* looks again only at the row it waited for: if that row is no longer     *)
(* current it finds nothing, not the row that replaced it.                 *)
(*                                                                         *)
(* Abstractions: the clock stands still at day 0, so an expiry is a number *)
(* of days still to come and a code that lapses is one that is rolled      *)
(* back; one plan, enabled; a transaction's writes appear at its commit    *)
(* and its locks are what others wait for.                                 *)
(***************************************************************************)
EXTENDS Naturals, FiniteSets

CONSTANTS
    Account,
    Code,           \* rows of invitation_codes
    Key,            \* idempotency keys of redemptions
    Tx,             \* transactions that run at the same time
    None,
    MaxUses,        \* invitation_codes.max_uses
    PlanDays,       \* duration_days of the plan
    MaxAssignments  \* bound: assignments other than by invitation

ASSUME MembershipAssumption ==
    /\ MaxUses \in Nat \ {0}
    /\ PlanDays \in Nat \ {0}
    /\ MaxAssignments \in Nat
    /\ None \notin Code \cup Account \cup Key

VARIABLES
    code,        \* invitation_codes
    redeemed,    \* invitation_redemptions
    current,     \* per account: the row in status 'active' or 'grace'
    tx,          \* the open transactions
    granted,     \* per account: the days its assignments added up to
    overlapped,  \* accounts with two assignments open at a time
    assignments  \* how much of MaxAssignments is used

membershipVars == <<code, redeemed, current, tx, granted, overlapped, assignments>>

Invitation == [status: {"active", "used", "expired", "revoked"}, used: Nat]
Redemption == [code: Code, account: Account, key: Key]
\* Row 0 stands for no current row.
Row == [id: Nat, expires: Nat]
TxPhase == {"idle", "code", "look", "lock", "expire", "insert", "replayed"}
Transaction == [phase: TxPhase, account: Account \cup {None}, code: Code \cup {None},
                key: Key \cup {None}, used: Nat, saw: Row, base: Nat, holds: BOOLEAN]

NoRow == [id |-> 0, expires |-> 0]
IdleTx == [phase |-> "idle", account |-> None, code |-> None, key |-> None,
           used |-> 0, saw |-> NoRow, base |-> 0, holds |-> FALSE]

Open(p) == tx[p].phase # "idle"
\* p has locked its invitation code.
LocksCode(p, c) == tx[p].code = c /\ tx[p].phase \notin {"idle", "code"}

\* Slip: the code is read without FOR UPDATE.
CodeUnlocked(c) == TRUE

\* Nobody holds the lock of the code's row.
CodeFree(c) == \A p \in Tx : ~LocksCode(p, c)

\* Nobody but p holds the current row of account a.
RowFree(p, a) == \A q \in Tx \ {p} : ~(tx[q].holds /\ tx[q].account = a)

\* No row, a row that lapsed and is still 'active', or a row with days left.
MembershipInit ==
    /\ code = [c \in Code |-> [status |-> "active", used |-> 0]]
    /\ redeemed = {}
    /\ current \in [Account -> {NoRow, [id |-> 1, expires |-> 0], [id |-> 1, expires |-> 2]}]
    /\ tx = [p \in Tx |-> IdleTx]
    /\ granted = [a \in Account |-> current[a].expires]
    /\ overlapped = {}
    /\ assignments = 0

-----------------------------------------------------------------------------
(* Transactions. *)

Begin(p, a, request) ==
    /\ ~Open(p)
    /\ tx' = [tx EXCEPT ![p] = [request EXCEPT !.account = a]]
    /\ overlapped' = IF \E q \in Tx : tx[q].account = a THEN overlapped \cup {a} ELSE overlapped
    /\ UNCHANGED <<code, redeemed, current, granted>>

RedeemInvitation(p, a, c, k) ==
    /\ Begin(p, a, [IdleTx EXCEPT !.phase = "code", !.code = c, !.key = k])
    /\ UNCHANGED assignments

\* AssignMembership, a batch item, or a purchase that has paid.
AssignMembership(p, a) ==
    /\ assignments < MaxAssignments
    /\ Begin(p, a, [IdleTx EXCEPT !.phase = "look"])
    /\ assignments' = assignments + 1

Step(p, row) == tx' = [tx EXCEPT ![p] = row]
Holding == <<code, redeemed, current, granted, overlapped, assignments>>

Redeemable(c) == code[c].status = "active" /\ code[c].used < MaxUses
IsReplay(p) == [code |-> tx[p].code, account |-> tx[p].account, key |-> tx[p].key] \in redeemed

\* The code is locked before the replay is looked up and its uses are read; a
\* code that cannot be redeemed ends in RollBack.
LockCode(p) ==
    LET c == tx[p].code
    IN  /\ tx[p].phase = "code"
        /\ CodeFree(c)
        /\ \/ IsReplay(p) /\ Step(p, [tx[p] EXCEPT !.phase = "replayed"])
           \/ /\ ~IsReplay(p) /\ Redeemable(c)
              /\ Step(p, [tx[p] EXCEPT !.phase = "look", !.used = code[c].used])
        /\ UNCHANGED Holding

\* The snapshot of SELECT expires_at ... FOR UPDATE.
LookAtCurrent(p) ==
    LET row == current[tx[p].account]
    IN  /\ tx[p].phase = "look"
        /\ Step(p, [tx[p] EXCEPT !.saw = row, !.phase = IF row = NoRow THEN "expire" ELSE "lock"])
        /\ UNCHANGED Holding

\* It gets the lock: on the row it saw, or on nothing if that row was replaced
\* while it waited; without a row the base is the present.
LockCurrent(p) ==
    LET a == tx[p].account
    IN  /\ tx[p].phase = "lock"
        /\ RowFree(p, a)
        /\ Step(p, IF current[a] = tx[p].saw
                   THEN [tx[p] EXCEPT !.phase = "expire", !.base = current[a].expires, !.holds = TRUE]
                   ELSE [tx[p] EXCEPT !.phase = "expire"])
        /\ UNCHANGED Holding

\* UPDATE ... SET status='expired' locks the row that is current by now.
ExpireCurrent(p) ==
    LET a == tx[p].account
    IN  /\ tx[p].phase = "expire"
        /\ RowFree(p, a)
        /\ Step(p, [tx[p] EXCEPT !.phase = "insert", !.saw = current[a],
                                 !.holds = current[a] # NoRow])
        /\ UNCHANGED Holding

\* Slip: the new membership starts today.
NewExpiryToday(p) == PlanDays

\* expiryBase + duration_days
NewExpiry(p) == tx[p].base + PlanDays

\* used_count = used_count + 1, and the status computed from the uses read.
AfterUse(p) == [status |-> IF tx[p].used + 1 >= MaxUses THEN "used" ELSE "active",
                used |-> code[tx[p].code].used + 1]

\* UNIQUE(invitation_id, account_id) and UNIQUE(idempotency_key)
Redeem(p) ==
    LET c == tx[p].code
    IN  IF c = None THEN UNCHANGED <<code, redeemed>>
        ELSE /\ \A r \in redeemed : r.key # tx[p].key /\ ~(r.code = c /\ r.account = tx[p].account)
             /\ redeemed' = redeemed \cup {[code |-> c, account |-> tx[p].account, key |-> tx[p].key]}
             /\ code' = [code EXCEPT ![c] = AfterUse(p)]

\* The insert violates account_memberships_one_current_idx if a row became
\* current that this transaction did not expire.
Commit(p) ==
    LET a == tx[p].account
    IN  /\ tx[p].phase = "insert"
        /\ current[a] = tx[p].saw
        /\ current' = [current EXCEPT ![a] = [id |-> @.id + 1, expires |-> NewExpiry(p)]]
        /\ granted' = [granted EXCEPT ![a] = @ + PlanDays]
        /\ Redeem(p)
        /\ Step(p, IdleTx)
        /\ UNCHANGED <<overlapped, assignments>>

\* A replay, a refusal, an error or the end of the process: nothing is written.
RollBack(p) ==
    /\ Open(p)
    /\ Step(p, IdleTx)
    /\ UNCHANGED Holding

\* UPDATE ... WHERE id=$1 AND status='active' waits for the row's lock.
RevokeInvitation(c) ==
    /\ CodeFree(c)
    /\ code[c].status = "active"
    /\ code' = [code EXCEPT ![c] = [@ EXCEPT !.status = "revoked"]]
    /\ UNCHANGED <<redeemed, current, tx, granted, overlapped, assignments>>

Proceed(p) ==
    \/ LockCode(p) \/ LookAtCurrent(p) \/ LockCurrent(p)
    \/ ExpireCurrent(p) \/ Commit(p) \/ RollBack(p)

MembershipNext ==
    \/ \E p \in Tx, a \in Account, c \in Code, k \in Key : RedeemInvitation(p, a, c, k)
    \/ \E p \in Tx, a \in Account : AssignMembership(p, a)
    \/ \E p \in Tx : Proceed(p)
    \/ \E c \in Code : RevokeInvitation(c)

MembershipSpec == MembershipInit /\ [][MembershipNext]_membershipVars

-----------------------------------------------------------------------------
(* Properties. *)

\* Types of the codes, redemptions, current rows and transactions.
MembershipTypeOK ==
    /\ code \in [Code -> Invitation]
    /\ redeemed \subseteq Redemption
    /\ current \in [Account -> Row]
    /\ tx \in [Tx -> Transaction]
    /\ granted \in [Account -> Nat]
    /\ overlapped \subseteq Account
    /\ assignments \in 0..MaxAssignments

\* redeemInvitationTx: however many transactions redeem a code at once, it is
\* used at most max_uses times, used_count is the number of redemptions on
\* record, and the status tells when the last use is taken.
UsesWithinMaximum ==
    \A c \in Code :
        /\ code[c].used <= MaxUses
        /\ code[c].used = Cardinality({r \in redeemed : r.code = c})
        /\ code[c].used = MaxUses <=> code[c].status = "used"

\* RevokeInvitation: a redemption under way never brings a revoked code back.
RevokedIsFinal ==
    [][\A c \in Code : code[c].status = "revoked" => code'[c] = code[c]]_membershipVars

\* assignMembershipTx: as long as no two assignments of an account overlap, the
\* days of every assignment are kept in its expiry.
ExtensionsAddUp ==
    \A a \in Account \ overlapped : current[a].expires = granted[a]

\* Uses of codes and days of memberships add up, however redemptions,
\* assignments and a revocation meet.
CodesAccounted == MembershipTypeOK /\ UsesWithinMaximum /\ ExtensionsAddUp

=============================================================================
