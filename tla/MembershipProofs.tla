-------------------------- MODULE MembershipProofs --------------------------
(***************************************************************************)
(* Proofs about Membership: for all sets of accounts, codes, keys and      *)
(* concurrent transactions, a code is never used beyond its maximum and a  *)
(* revocation is final.  Both rest on the lock on the invitation row: what *)
(* a transaction read of the code it has locked is still so.  The uses of  *)
(* a code and the days on an account are those of the assignments that     *)
(* were committed, so a redemption pays once.                              *)
(***************************************************************************)
EXTENDS Membership, FiniteSetTheorems, TLAPS

\* An open transaction has an account, and one on a code also a key.
Named(t) ==
    /\ t.phase # "idle" => t.account \in Account
    /\ t.phase \in {"code", "replayed"} => t.code # None
    /\ t.code # None => t.key # None

Typed == MembershipTypeOK /\ \A p \in Tx : Named(tx[p])

Assigning == {"look", "lock", "expire", "insert"}

\* What transaction row t read of its locked code is what the code still says.
Fresh(t) ==
    t.phase \in Assigning /\ t.code # None =>
        /\ code[t.code].status = "active"
        /\ code[t.code].used < MaxUses
        /\ t.used = code[t.code].used

LockedIsFresh == \A p \in Tx : Fresh(tx[p])

\* No two transactions hold the same code.
LocksExclusive ==
    \A p, q \in Tx, c \in Code : p # q => ~(LocksCode(p, c) /\ LocksCode(q, c))

IInv ==
    /\ Typed
    /\ IsFiniteSet(redeemed)
    /\ UsesWithinMaximum
    /\ LockedIsFresh
    /\ LocksExclusive

-----------------------------------------------------------------------------

\* The initial rows and transactions have their types.
LEMMA InitIInv == MembershipInit => IInv
<1> SUFFICES ASSUME MembershipInit PROVE IInv
    OBVIOUS
<1> USE MembershipAssumption
<1>1. IdleTx \in Transaction /\ NoRow \in Row
      BY DEF IdleTx, NoRow, Transaction, TxPhase, Row
<1>2. current \in [Account -> Row]
      BY <1>1 DEF MembershipInit, Row
<1>3. granted \in [Account -> Nat]
      <2>1. \A a \in Account : current[a].expires \in Nat
            BY <1>2 DEF Row
      <2> QED BY <2>1 DEF MembershipInit
<1>4. Typed
      BY <1>1, <1>2, <1>3 DEF MembershipInit, MembershipTypeOK, Invitation, Redemption, Typed, Named, IdleTx
<1>5. IsFiniteSet(redeemed)
      BY FS_EmptySet DEF MembershipInit
<1>6. UsesWithinMaximum
      <2>1. ASSUME NEW c \in Code PROVE {r \in redeemed : r.code = c} = {}
            BY DEF MembershipInit
      <2>2. Cardinality({}) = 0
            BY FS_EmptySet
      <2> QED BY <2>1, <2>2 DEF MembershipInit, UsesWithinMaximum
<1>7. LockedIsFresh /\ LocksExclusive
      BY DEF MembershipInit, LockedIsFresh, LocksExclusive, Fresh, LocksCode, IdleTx, Assigning
<1> QED BY <1>4, <1>5, <1>6, <1>7 DEF IInv

\* A step of one transaction that writes nothing keeps what the locks promise,
\* if the transaction knows the code it holds and took no other's lock.
LEMMA OwnStep ==
    ASSUME MembershipTypeOK, LockedIsFresh, LocksExclusive, code' = code,
           NEW p \in Tx, NEW t \in Transaction,
           tx' = [tx EXCEPT ![p] = t],
           Fresh(t),
           \A c \in Code : t.code = c /\ t.phase \notin {"idle", "code"} =>
                               LocksCode(p, c) \/ CodeFree(c)
    PROVE  LockedIsFresh' /\ LocksExclusive'
<1> USE DEF MembershipTypeOK
<1>1. \A q \in Tx : tx'[q] = IF q = p THEN t ELSE tx[q]
      OBVIOUS
<1>2. LockedIsFresh'
      BY <1>1 DEF LockedIsFresh, Fresh
<1>3. ASSUME NEW c \in Code, NEW q \in Tx, q # p PROVE ~(LocksCode(p, c) /\ LocksCode(q, c))'
      BY <1>1, <1>3 DEF LocksCode, CodeFree, LocksExclusive
<1>4. ASSUME NEW c \in Code, NEW q \in Tx, NEW u \in Tx, q # u, q # p, u # p
      PROVE  ~(LocksCode(q, c) /\ LocksCode(u, c))'
      BY <1>1, <1>4 DEF LocksCode, LocksExclusive
<1>5. LocksExclusive'
      BY <1>3, <1>4 DEF LocksExclusive
<1> QED BY <1>2, <1>5

\* Every step keeps the types and the names.
LEMMA TypeStep == Typed /\ [MembershipNext]_membershipVars => Typed'
<1> SUFFICES ASSUME Typed, [MembershipNext]_membershipVars PROVE Typed'
    OBVIOUS
<1> USE MembershipAssumption
<1>a. MembershipTypeOK /\ \A p \in Tx : Named(tx[p]) /\ tx[p] \in Transaction
      BY DEF Typed, MembershipTypeOK
<1>0. IdleTx \in Transaction /\ Named(IdleTx)
      BY DEF IdleTx, NoRow, Transaction, TxPhase, Row, Named
<1>1. ASSUME NEW p \in Tx, NEW t \in Transaction, Named(t), tx' = [tx EXCEPT ![p] = t]
      PROVE  tx' \in [Tx -> Transaction] /\ \A q \in Tx : Named(tx'[q])
      BY <1>a, <1>1 DEF MembershipTypeOK
<1>2. ASSUME NEW p \in Tx, NEW t \in Transaction, Named(t), Step(p, t), UNCHANGED Holding
      PROVE  Typed'
      BY <1>a, <1>1, <1>2 DEF Step, Holding, Typed, MembershipTypeOK, Named
<1>3. ASSUME NEW p \in Tx, NEW a \in Account, NEW c \in Code, NEW k \in Key,
             RedeemInvitation(p, a, c, k)
      PROVE  Typed'
      <2> DEFINE t == [[IdleTx EXCEPT !.phase = "code", !.code = c, !.key = k] EXCEPT !.account = a]
      <2>1. t \in Transaction /\ Named(t)
            BY <1>0 DEF Transaction, TxPhase, Named, IdleTx
      <2>2. tx' = [tx EXCEPT ![p] = t]
            BY <1>3 DEF RedeemInvitation, Begin
      <2> HIDE DEF t
      <2>3. tx' \in [Tx -> Transaction] /\ \A q \in Tx : Named(tx'[q])
            BY <1>1, <2>1, <2>2
      <2> QED BY <1>3, <1>a, <2>3 DEF RedeemInvitation, Begin, Typed, MembershipTypeOK, Named
<1>4. ASSUME NEW p \in Tx, NEW a \in Account, AssignMembership(p, a) PROVE Typed'
      <2> DEFINE t == [[IdleTx EXCEPT !.phase = "look"] EXCEPT !.account = a]
      <2>1. t \in Transaction /\ Named(t)
            BY <1>0 DEF Transaction, TxPhase, Named, IdleTx
      <2>2. tx' = [tx EXCEPT ![p] = t]
            BY <1>4 DEF AssignMembership, Begin
      <2> HIDE DEF t
      <2>3. tx' \in [Tx -> Transaction] /\ \A q \in Tx : Named(tx'[q])
            BY <1>1, <2>1, <2>2
      <2>4. assignments' \in 0..MaxAssignments
            BY <1>4, <1>a DEF AssignMembership, MembershipTypeOK
      <2> QED BY <1>4, <1>a, <2>3, <2>4 DEF AssignMembership, Begin, Typed, MembershipTypeOK, Named
<1>5. ASSUME NEW p \in Tx, LockCode(p) PROVE Typed'
      <2>1. CASE Step(p, [tx[p] EXCEPT !.phase = "replayed"])
            <3>1. /\ [tx[p] EXCEPT !.phase = "replayed"] \in Transaction
                  /\ Named([tx[p] EXCEPT !.phase = "replayed"])
                  BY <1>5, <1>a DEF Transaction, TxPhase, Named, LockCode
            <3> QED BY <1>2, <1>5, <2>1, <3>1 DEF LockCode
      <2>2. CASE Step(p, [tx[p] EXCEPT !.phase = "look", !.used = code[tx[p].code].used])
            <3>1. tx[p].code \in Code
                  BY <1>5, <1>a DEF LockCode, Transaction, Named
            <3>2. code[tx[p].code].used \in Nat
                  BY <1>a, <3>1 DEF MembershipTypeOK, Invitation
            <3>3. /\ [tx[p] EXCEPT !.phase = "look", !.used = code[tx[p].code].used] \in Transaction
                  /\ Named([tx[p] EXCEPT !.phase = "look", !.used = code[tx[p].code].used])
                  BY <1>5, <1>a, <3>2 DEF Transaction, TxPhase, Named, LockCode
            <3> QED BY <1>2, <1>5, <2>2, <3>3 DEF LockCode
      <2> QED BY <1>5, <2>1, <2>2 DEF LockCode
<1>6. ASSUME NEW p \in Tx, tx[p].phase # "idle" PROVE current[tx[p].account] \in Row
      BY <1>6, <1>a DEF Named, MembershipTypeOK
<1>7. ASSUME NEW p \in Tx, LookAtCurrent(p) PROVE Typed'
      <2> DEFINE row == current[tx[p].account]
                 t == [tx[p] EXCEPT !.saw = row, !.phase = IF row = NoRow THEN "expire" ELSE "lock"]
      <2>1. row \in Row
            BY <1>6, <1>7 DEF LookAtCurrent
      <2>2. Step(p, t) /\ UNCHANGED Holding
            BY <1>7 DEF LookAtCurrent
      <2> HIDE DEF row
      <2>3. t \in Transaction /\ Named(t)
            BY <1>7, <1>a, <2>1 DEF LookAtCurrent, Transaction, TxPhase, Named
      <2> HIDE DEF t
      <2> QED BY <1>2, <2>2, <2>3
<1>8. ASSUME NEW p \in Tx, LockCurrent(p) PROVE Typed'
      <2> DEFINE row == current[tx[p].account]
                 t == IF row = tx[p].saw
                      THEN [tx[p] EXCEPT !.phase = "expire", !.base = row.expires, !.holds = TRUE]
                      ELSE [tx[p] EXCEPT !.phase = "expire"]
      <2>1. row \in Row
            BY <1>6, <1>8 DEF LockCurrent
      <2>2. Step(p, t) /\ UNCHANGED Holding
            BY <1>8 DEF LockCurrent
      <2> HIDE DEF row
      <2>3. row.expires \in Nat
            BY <2>1 DEF Row
      <2>4. t \in Transaction /\ Named(t)
            BY <1>8, <1>a, <2>3 DEF LockCurrent, Transaction, TxPhase, Named
      <2> HIDE DEF t
      <2> QED BY <1>2, <2>2, <2>4
<1>9. ASSUME NEW p \in Tx, ExpireCurrent(p) PROVE Typed'
      <2> DEFINE row == current[tx[p].account]
                 t == [tx[p] EXCEPT !.phase = "insert", !.saw = row, !.holds = row # NoRow]
      <2>1. row \in Row
            BY <1>6, <1>9 DEF ExpireCurrent
      <2>2. Step(p, t) /\ UNCHANGED Holding
            BY <1>9 DEF ExpireCurrent
      <2> HIDE DEF row
      <2>3. t \in Transaction /\ Named(t)
            BY <1>9, <1>a, <2>1 DEF ExpireCurrent, Transaction, TxPhase, Named
      <2> HIDE DEF t
      <2> QED BY <1>2, <2>2, <2>3
<1>10. ASSUME NEW p \in Tx, Commit(p) PROVE Typed'
      <2>1. tx[p].account \in Account /\ tx[p].base \in Nat /\ tx[p].used \in Nat
            BY <1>10, <1>a DEF Commit, Transaction, Named
      <2>2. current' \in [Account -> Row]
            BY <1>10, <1>a, <2>1 DEF Commit, MembershipTypeOK, Row, NewExpiry
      <2>3. granted' \in [Account -> Nat]
            BY <1>10, <1>a, <2>1 DEF Commit, MembershipTypeOK
      <2>4. code' \in [Code -> Invitation] /\ redeemed' \subseteq Redemption
            <3>1. CASE tx[p].code = None
                  BY <1>10, <1>a, <3>1 DEF Commit, Redeem, MembershipTypeOK
            <3>2. CASE tx[p].code # None
                  <4>1. tx[p].code \in Code /\ tx[p].key \in Key
                        BY <1>a, <3>2 DEF Transaction, Named
                  <4>2. AfterUse(p) \in Invitation
                        BY <1>a, <4>1, <2>1 DEF AfterUse, Invitation, MembershipTypeOK
                  <4>3. code' = [code EXCEPT ![tx[p].code] = AfterUse(p)]
                        BY <1>10, <3>2 DEF Commit, Redeem
                  <4>4. redeemed' \subseteq Redemption
                        BY <1>10, <1>a, <2>1, <3>2, <4>1 DEF Commit, Redeem, MembershipTypeOK, Redemption
                  <4> QED BY <1>a, <4>2, <4>3, <4>4, Zenon DEF MembershipTypeOK
            <3> QED BY <3>1, <3>2
      <2>5. tx' \in [Tx -> Transaction] /\ \A q \in Tx : Named(tx'[q])
            BY <1>0, <1>1, <1>10 DEF Commit, Step
      <2> QED BY <1>10, <1>a, <2>2, <2>3, <2>4, <2>5 DEF Commit, Typed, MembershipTypeOK, Named
<1>11. ASSUME NEW p \in Tx, RollBack(p) PROVE Typed'
      BY <1>0, <1>2, <1>11 DEF RollBack
<1>12. ASSUME NEW c \in Code, RevokeInvitation(c) PROVE Typed'
      <2>1. code' \in [Code -> Invitation]
            BY <1>12, <1>a DEF RevokeInvitation, MembershipTypeOK, Invitation
      <2> QED BY <1>12, <1>a, <2>1 DEF RevokeInvitation, Typed, MembershipTypeOK, Named
<1>13. CASE UNCHANGED membershipVars
      BY <1>13, <1>a DEF membershipVars, Typed, MembershipTypeOK, Named
<1> QED
    BY <1>3, <1>4, <1>5, <1>7, <1>8, <1>9, <1>10, <1>11, <1>12, <1>13 DEF MembershipNext, Proceed

\* A transaction that looked at its code and read nothing of it since stays fresh.
LEMMA QuietStep ==
    ASSUME IInv, Typed', UNCHANGED <<code, redeemed>>,
           NEW p \in Tx, NEW t \in Transaction,
           tx' = [tx EXCEPT ![p] = t],
           \/ t.phase \in {"idle", "code"}
           \/ t.code = None
           \/ t.phase = "replayed" /\ CodeFree(t.code)
           \/ t.phase = "look" /\ CodeFree(t.code) /\ Redeemable(t.code) /\ t.used = code[t.code].used
           \/ /\ t.code = tx[p].code /\ t.used = tx[p].used
              /\ t.phase \in Assigning /\ tx[p].phase \in Assigning
    PROVE  IInv'
<1> USE MembershipAssumption
<1>1. Fresh(t)
      BY DEF IInv, LockedIsFresh, Fresh, Assigning, Redeemable
<1>2. ASSUME NEW c \in Code, t.code = c, t.phase \notin {"idle", "code"}
      PROVE  LocksCode(p, c) \/ CodeFree(c)
      BY <1>2 DEF LocksCode, Assigning
<1>3. LockedIsFresh' /\ LocksExclusive'
      BY <1>1, <1>2, OwnStep DEF IInv, Typed
<1>4. UsesWithinMaximum'
      BY DEF IInv, UsesWithinMaximum
<1> QED BY <1>3, <1>4 DEF IInv

\* Recording a redemption keeps the count, and the lock keeps others away from the code.
LEMMA CommitStep == ASSUME IInv, Typed', NEW p \in Tx, Commit(p) PROVE IInv'
<1> USE MembershipAssumption
<1> DEFINE c == tx[p].code
<1>1. /\ tx[p].phase = "insert" /\ tx[p] \in Transaction /\ Named(tx[p])
      /\ IdleTx \in Transaction /\ IdleTx.phase = "idle"
      /\ tx' = [tx EXCEPT ![p] = IdleTx]
      /\ Redeem(p)
      BY DEF IInv, Typed, MembershipTypeOK, Commit, Step, IdleTx, NoRow, Transaction, TxPhase, Row
<1>2. CASE c = None
      BY <1>1, <1>2, QuietStep DEF Redeem
<1>3. CASE c # None
  <2>1. /\ c \in Code /\ tx[p].key \in Key /\ tx[p].account \in Account
        BY <1>1, <1>3 DEF Transaction, Named
  <2> DEFINE new == [code |-> c, account |-> tx[p].account, key |-> tx[p].key]
             of(rs, d) == {r \in rs : r.code = d}
  <2>2. /\ redeemed' = redeemed \cup {new}
        /\ new \notin redeemed
        /\ code' = [code EXCEPT ![c] = AfterUse(p)]
        BY <1>1, <1>3 DEF Redeem
  <2>3. code[c].status = "active" /\ code[c].used < MaxUses /\ tx[p].used = code[c].used
        BY <1>1, <1>3 DEF IInv, LockedIsFresh, Fresh, Assigning
  <2>4. code \in [Code -> Invitation] /\ code[c].used \in Nat
        BY <2>1 DEF IInv, Typed, MembershipTypeOK, Invitation
  <2>5. IsFiniteSet(redeemed) /\ IsFiniteSet(redeemed')
        BY <2>2, FS_AddElement DEF IInv
  <2>6. /\ code'[c].used = code[c].used + 1
        /\ code'[c].status = IF code[c].used + 1 >= MaxUses THEN "used" ELSE "active"
        /\ \A d \in Code \ {c} : code'[d] = code[d]
        BY <2>1, <2>2, <2>3, <2>4 DEF AfterUse
  <2>7. Cardinality(of(redeemed', c)) = Cardinality(of(redeemed, c)) + 1
    <3>1. of(redeemed', c) = of(redeemed, c) \cup {new}
          BY <2>2
    <3>2. new \notin of(redeemed, c)
          BY <2>2
    <3>3. IsFiniteSet(of(redeemed, c))
          BY <2>5, FS_Subset
    <3> HIDE DEF of, new
    <3> QED BY <3>1, <3>2, <3>3, FS_AddElement
  <2>8. \A d \in Code \ {c} : of(redeemed', d) = of(redeemed, d)
        BY <2>2
  <2>9. UsesWithinMaximum'
    <3>1. ASSUME NEW d \in Code, d # c
          PROVE  /\ code'[d].used <= MaxUses
                 /\ code'[d].used = Cardinality({r \in redeemed' : r.code = d})
                 /\ code'[d].used = MaxUses <=> code'[d].status = "used"
          BY <2>6, <2>8, <3>1 DEF IInv, UsesWithinMaximum
    <3>2. /\ code'[c].used <= MaxUses
          /\ code'[c].used = MaxUses <=> code'[c].status = "used"
          BY <2>3, <2>4, <2>6
    <3>3. code'[c].used = Cardinality({r \in redeemed' : r.code = c})
          BY <2>1, <2>6, <2>7 DEF IInv, UsesWithinMaximum
    <3> QED BY <3>1, <3>2, <3>3 DEF UsesWithinMaximum
  <2>10. \A q \in Tx : tx'[q] = IF q = p THEN IdleTx ELSE tx[q]
        BY <1>1 DEF IInv, Typed, MembershipTypeOK
  <2>11. LocksExclusive'
        BY <1>1, <2>10 DEF IInv, LocksExclusive, LocksCode
  <2>12. ASSUME NEW q \in Tx PROVE Fresh(tx[q])' 
    <3>1. CASE q = p
          BY <1>1, <2>10, <3>1 DEF Fresh, Assigning
    <3>2. CASE q # p /\ tx[q].phase \in Assigning /\ tx[q].code # None
      <4>1. tx[q].code \in Code /\ tx[q].code # c
            BY <1>1, <2>1, <3>2 DEF IInv, Typed, MembershipTypeOK, Transaction, LocksExclusive, LocksCode, Assigning
      <4> QED BY <2>6, <2>10, <3>2, <4>1 DEF IInv, LockedIsFresh, Fresh
    <3>3. CASE q # p /\ ~(tx[q].phase \in Assigning /\ tx[q].code # None)
          BY <2>10, <3>3 DEF Fresh
    <3> QED BY <3>1, <3>2, <3>3
  <2> QED BY <2>5, <2>9, <2>11, <2>12 DEF IInv, LockedIsFresh
<1> QED BY <1>2, <1>3

\* A revocation waits for the lock, so no open transaction has read the code.
LEMMA RevokeStep == ASSUME IInv, Typed', NEW c \in Code, RevokeInvitation(c) PROVE IInv'
<1> USE MembershipAssumption
<1>1. /\ code[c].status = "active"
      /\ code' = [code EXCEPT ![c] = [@ EXCEPT !.status = "revoked"]]
      /\ redeemed' = redeemed /\ tx' = tx
      BY DEF RevokeInvitation
<1>2. code \in [Code -> Invitation]
      BY DEF IInv, Typed, MembershipTypeOK
<1>3. /\ code'[c].used = code[c].used /\ code'[c].status = "revoked"
      /\ \A d \in Code \ {c} : code'[d] = code[d]
      BY <1>1, <1>2 DEF Invitation
<1>4. UsesWithinMaximum'
      BY <1>1, <1>3, ZenonT(60) DEF IInv, UsesWithinMaximum
<1>5. LocksExclusive'
      BY <1>1 DEF IInv, LocksExclusive, LocksCode
<1>6. ASSUME NEW q \in Tx PROVE Fresh(tx[q])'
  <2>1. CASE tx[q].phase \in Assigning /\ tx[q].code # None
    <3>1. tx[q].code \in Code /\ tx[q].code # c
          BY <2>1 DEF IInv, Typed, MembershipTypeOK, Transaction, RevokeInvitation, CodeFree, LocksCode, Assigning
    <3> QED BY <1>1, <1>3, <2>1, <3>1 DEF IInv, LockedIsFresh, Fresh
  <2>2. CASE ~(tx[q].phase \in Assigning /\ tx[q].code # None)
        BY <1>1, <2>2 DEF Fresh
  <2> QED BY <2>1, <2>2
<1> QED BY <1>1, <1>4, <1>5, <1>6 DEF IInv, LockedIsFresh

\* Every step keeps the invariant.
LEMMA IInvStep == IInv /\ [MembershipNext]_membershipVars => IInv'
<1> SUFFICES ASSUME IInv, [MembershipNext]_membershipVars PROVE IInv'
    OBVIOUS
<1>a. Typed'
      BY TypeStep DEF IInv
<1>b. \A p \in Tx : tx[p] \in Transaction /\ tx'[p] \in Transaction /\ Named(tx[p])
      BY <1>a DEF IInv, Typed, MembershipTypeOK
<1>c. tx \in [Tx -> Transaction]
      BY DEF IInv, Typed, MembershipTypeOK
<1>1. ASSUME NEW p \in Tx, NEW a \in Account, NEW c \in Code, NEW k \in Key,
             RedeemInvitation(p, a, c, k)
      PROVE  IInv'
  <2> DEFINE t == [[IdleTx EXCEPT !.phase = "code", !.code = c, !.key = k] EXCEPT !.account = a]
  <2>1. tx' = [tx EXCEPT ![p] = t] /\ UNCHANGED <<code, redeemed>>
        BY <1>1 DEF RedeemInvitation, Begin
  <2>2. t.phase = "code"
        BY DEF IdleTx
  <2> HIDE DEF t
  <2>3. t \in Transaction
        BY <1>b, <1>c, <2>1
  <2> QED BY <1>a, <2>1, <2>2, <2>3, QuietStep
<1>2. ASSUME NEW p \in Tx, NEW a \in Account, AssignMembership(p, a) PROVE IInv'
  <2> DEFINE t == [[IdleTx EXCEPT !.phase = "look"] EXCEPT !.account = a]
  <2>1. tx' = [tx EXCEPT ![p] = t] /\ UNCHANGED <<code, redeemed>>
        BY <1>2 DEF AssignMembership, Begin
  <2>2. t.code = None
        BY DEF IdleTx
  <2> HIDE DEF t
  <2>3. t \in Transaction
        BY <1>b, <1>c, <2>1
  <2> QED BY <1>a, <2>1, <2>2, <2>3, QuietStep
<1>3. ASSUME NEW p \in Tx, LockCode(p) PROVE IInv'
  <2> DEFINE t == tx'[p]
  <2>1. tx' = [tx EXCEPT ![p] = t] /\ UNCHANGED <<code, redeemed>>
        BY <1>3, <1>c DEF LockCode, Step, Holding
  <2>2. t.code = tx[p].code /\ CodeFree(t.code)
        BY <1>3, <1>b, <1>c, ZenonT(60) DEF LockCode, Step, Transaction
  <2>3. \/ t.phase = "replayed"
        \/ t.phase = "look" /\ Redeemable(t.code) /\ t.used = code[t.code].used
    <3>1. CASE t = [tx[p] EXCEPT !.phase = "replayed"]
          BY <1>b, <3>1 DEF Transaction
    <3>2. CASE /\ Redeemable(tx[p].code)
               /\ t = [tx[p] EXCEPT !.phase = "look", !.used = code[tx[p].code].used]
      <4>1. t.phase = "look" /\ t.used = code[tx[p].code].used
            BY <1>b, <3>2 DEF Transaction
      <4> HIDE DEF t
      <4> QED BY <2>2, <3>2, <4>1
    <3> QED BY <1>3, <1>c, <3>1, <3>2 DEF LockCode, Step
  <2>4. t \in Transaction
        BY <1>b
  <2> HIDE DEF t
  <2> QED BY <1>a, <2>1, <2>2, <2>3, <2>4, QuietStep
<1>4. ASSUME NEW p \in Tx, LookAtCurrent(p) \/ LockCurrent(p) \/ ExpireCurrent(p) PROVE IInv'
  <2> DEFINE t == tx'[p]
  <2>1. tx' = [tx EXCEPT ![p] = t] /\ UNCHANGED <<code, redeemed>>
        BY <1>4, <1>c DEF LookAtCurrent, LockCurrent, ExpireCurrent, Step, Holding
  <2>2. /\ t.code = tx[p].code /\ t.used = tx[p].used
        /\ t.phase \in Assigning /\ tx[p].phase \in Assigning
    <3> DEFINE row == current[tx[p].account]
    <3>1. CASE LookAtCurrent(p)
      <4>1. t = [tx[p] EXCEPT !.saw = row, !.phase = IF row = NoRow THEN "expire" ELSE "lock"]
            BY <1>c, <3>1 DEF LookAtCurrent, Step
      <4> QED BY <1>b, <3>1, <4>1 DEF LookAtCurrent, Transaction, Assigning
    <3>2. CASE LockCurrent(p)
      <4>1. t = IF row = tx[p].saw
                THEN [tx[p] EXCEPT !.phase = "expire", !.base = row.expires, !.holds = TRUE]
                ELSE [tx[p] EXCEPT !.phase = "expire"]
            BY <1>c, <3>2 DEF LockCurrent, Step
      <4> QED BY <1>b, <3>2, <4>1 DEF LockCurrent, Transaction, Assigning
    <3>3. CASE ExpireCurrent(p)
      <4>1. t = [tx[p] EXCEPT !.phase = "insert", !.saw = row, !.holds = row # NoRow]
            BY <1>c, <3>3 DEF ExpireCurrent, Step
      <4> QED BY <1>b, <3>3, <4>1 DEF ExpireCurrent, Transaction, Assigning
    <3> QED BY <1>4, <3>1, <3>2, <3>3
  <2>3. t \in Transaction
        BY <1>b
  <2> HIDE DEF t
  <2> QED BY <1>a, <2>1, <2>2, <2>3, QuietStep
<1>5. ASSUME NEW p \in Tx, RollBack(p) PROVE IInv'
  <2>1. tx' = [tx EXCEPT ![p] = IdleTx] /\ UNCHANGED <<code, redeemed>>
        BY <1>5 DEF RollBack, Step, Holding
  <2>2. IdleTx.phase = "idle"
        BY DEF IdleTx
  <2>3. IdleTx \in Transaction
        BY <1>b, <1>c, <2>1
  <2> QED BY <1>a, <2>1, <2>2, <2>3, QuietStep
<1>6. ASSUME NEW p \in Tx, Commit(p) PROVE IInv'
      BY <1>a, <1>6, CommitStep
<1>7. ASSUME NEW c \in Code, RevokeInvitation(c) PROVE IInv'
      BY <1>a, <1>7, RevokeStep
<1>8. CASE UNCHANGED membershipVars
      BY <1>a, <1>8 DEF membershipVars, IInv, UsesWithinMaximum, LockedIsFresh, Fresh, LocksExclusive, LocksCode
<1> QED
    BY <1>1, <1>2, <1>3, <1>4, <1>5, <1>6, <1>7, <1>8 DEF MembershipNext, Proceed

\* Every reachable state satisfies the invariant.
LEMMA Inductive == MembershipSpec => []IInv
  BY InitIInv, IInvStep, PTL DEF MembershipSpec

\* The rows of codes, memberships and redemptions keep their types, and the
\* statuses the ones the columns' constraints know.
THEOREM TypeCorrect == MembershipSpec => []MembershipTypeOK
<1>1. IInv => MembershipTypeOK
      BY DEF IInv, Typed
<1> QED BY <1>1, Inductive, PTL

\* redeemInvitationTx: no code is used more than max_uses times, its count is
\* the number of redemptions on record and "used" tells that none is left.
THEOREM UsesWithinMaximumHolds == MembershipSpec => []UsesWithinMaximum
<1>1. IInv => UsesWithinMaximum
      BY DEF IInv
<1> QED BY <1>1, Inductive, PTL

\* RevokeInvitation: nothing changes a code once it is revoked.
THEOREM RevokedIsFinalHolds == MembershipSpec => RevokedIsFinal
<1>1. IInv /\ [MembershipNext]_membershipVars =>
          [\A c \in Code : code[c].status = "revoked" => code'[c] = code[c]]_membershipVars
  <2> SUFFICES ASSUME IInv, [MembershipNext]_membershipVars, NEW c \in Code, code[c].status = "revoked"
               PROVE  code'[c] = code[c]
      OBVIOUS
  <2>1. ASSUME NEW p \in Tx, Commit(p) PROVE code'[c] = code[c]
    <3>1. CASE tx[p].code = None
          BY <2>1, <3>1 DEF Commit, Redeem
    <3>2. CASE tx[p].code # None
      <4>1. code[tx[p].code].status = "active"
            BY <2>1, <3>2 DEF Commit, IInv, LockedIsFresh, Fresh, Assigning
      <4>2. code' = [code EXCEPT ![tx[p].code] = AfterUse(p)]
            BY <2>1, <3>2 DEF Commit, Redeem
      <4>3. code \in [Code -> Invitation]
            BY DEF IInv, Typed, MembershipTypeOK
      <4> QED BY <4>1, <4>2, <4>3
    <3> QED BY <3>1, <3>2
  <2>2. ASSUME NEW d \in Code, RevokeInvitation(d) PROVE code'[c] = code[c]
        BY <2>2 DEF RevokeInvitation, IInv, Typed, MembershipTypeOK
  <2>3. ASSUME NEW p \in Tx,
               \/ LockCode(p) \/ LookAtCurrent(p) \/ LockCurrent(p)
               \/ ExpireCurrent(p) \/ RollBack(p)
        PROVE  code' = code
        BY <2>3 DEF LockCode, LookAtCurrent, LockCurrent, ExpireCurrent, RollBack, Holding
  <2>4. ASSUME NEW p \in Tx, NEW a \in Account, MembershipNext,
               \/ AssignMembership(p, a)
               \/ \E d \in Code, k \in Key : RedeemInvitation(p, a, d, k)
        PROVE  code' = code
        BY <2>4 DEF AssignMembership, RedeemInvitation, Begin
  <2>5. CASE UNCHANGED membershipVars
        BY <2>5 DEF membershipVars
  <2> QED BY <2>1, <2>2, <2>3, <2>4, <2>5 DEF MembershipNext, Proceed
<1> QED BY <1>1, Inductive, PTL DEF MembershipSpec, RevokedIsFinal

-----------------------------------------------------------------------------
(* The days of assignments that did not overlap. *)

\* What a transaction knows of the row it extends: nothing at first, then the
\* row it waits for, then the expiry from which it will count.
Based(t) ==
    /\ t.phase \in {"code", "look", "lock", "replayed"} => t.base = 0
    /\ t.phase = "lock" => t.saw = current[t.account]
    /\ t.phase \in {"expire", "insert"} => t.base = current[t.account].expires

\* An account whose assignments never met has one open at most, which knows
\* the row it extends, and no day of it is lost.
DaysKept ==
    \A a \in Account \ overlapped :
        /\ current[a].expires = granted[a]
        /\ \A p, q \in Tx : tx[p].account = a /\ tx[q].account = a => p = q
        /\ \A p \in Tx : tx[p].account = a => Based(tx[p])

\* A transaction's own step, as long as what it learns is so.
LEMMA MoveKept ==
    ASSUME Typed, DaysKept, UNCHANGED <<current, granted, overlapped>>,
           NEW p \in Tx, NEW t \in Transaction, tx' = [tx EXCEPT ![p] = t],
           t.account \in {tx[p].account, None},
           tx[p].account \in Account /\ Based(tx[p]) => Based(t) \/ t.account = None
    PROVE  DaysKept'
<1> USE MembershipAssumption
<1>1. \A q \in Tx : tx'[q] = IF q = p THEN t ELSE tx[q]
      BY DEF Typed, MembershipTypeOK
<1> QED BY <1>1 DEF DaysKept, Based

\* A first statement: an account that is in another transaction's hands counts
\* as overlapped from then on.
LEMMA BeginKept ==
    ASSUME Typed, DaysKept, NEW p \in Tx, NEW a \in Account, NEW t,
           tx' = [tx EXCEPT ![p] = t], t.account = a, t.base = 0, t.phase \in {"code", "look"},
           UNCHANGED <<current, granted>>,
           overlapped' = IF \E q \in Tx : tx[q].account = a THEN overlapped \cup {a} ELSE overlapped
    PROVE  DaysKept'
<1>1. \A q \in Tx : tx'[q] = IF q = p THEN t ELSE tx[q]
      BY DEF Typed, MembershipTypeOK
<1>2. ASSUME NEW b \in Account \ overlapped', b # a
      PROVE  /\ current'[b].expires = granted'[b]
             /\ \A u, q \in Tx : tx'[u].account = b /\ tx'[q].account = b => u = q
             /\ \A u \in Tx : tx'[u].account = b => Based(tx[u])'
  <2>1. b \notin overlapped /\ \A q \in Tx : tx'[q].account = b => tx'[q] = tx[q]
        BY <1>1, <1>2
  <2>2. \A u \in Tx : tx'[u].account = b => Based(tx[u])'
        BY <2>1, <1>2 DEF DaysKept, Based
  <2> QED BY <2>1, <2>2, <1>2 DEF DaysKept
<1>3. ASSUME a \notin overlapped'
      PROVE  /\ current'[a].expires = granted'[a]
             /\ \A u, q \in Tx : tx'[u].account = a /\ tx'[q].account = a => u = q
             /\ \A u \in Tx : tx'[u].account = a => Based(tx[u])'
  <2>1. a \notin overlapped /\ \A q \in Tx : tx[q].account # a
        BY <1>3
  <2>2. \A q \in Tx : tx'[q].account = a => q = p
        BY <1>1, <2>1
  <2>3. Based(tx[p])'
        BY <1>1 DEF Based
  <2> QED BY <2>1, <2>2, <2>3 DEF DaysKept
<1> QED BY <1>2, <1>3 DEF DaysKept

\* An assignment commits the days it counted from the row it knows.
LEMMA CommitKept == ASSUME Typed, DaysKept, NEW p \in Tx, Commit(p) PROVE DaysKept'
<1> USE MembershipAssumption
<1> DEFINE a == tx[p].account
<1>1. /\ a \in Account /\ tx[p].phase = "insert" /\ tx[p].base \in Nat
      /\ current \in [Account -> Row] /\ granted \in [Account -> Nat]
      /\ tx \in [Tx -> Transaction] /\ \A q \in Tx : tx[q].account \in Account \cup {None}
      BY DEF Commit, Typed, MembershipTypeOK, Named, Transaction
<1>2. /\ current' = [current EXCEPT ![a] = [id |-> current[a].id + 1, expires |-> tx[p].base + PlanDays]]
      /\ granted' = [granted EXCEPT ![a] = granted[a] + PlanDays]
      /\ UNCHANGED overlapped /\ tx' = [tx EXCEPT ![p] = IdleTx]
      BY DEF Commit, NewExpiry, Step
<1>3. /\ current'[a].expires = tx[p].base + PlanDays
      /\ granted'[a] = granted[a] + PlanDays
      /\ \A b \in Account \ {a} : current'[b] = current[b] /\ granted'[b] = granted[b]
      BY <1>1, <1>2
<1>4. /\ tx'[p].account = None
      /\ \A q \in Tx \ {p} : tx'[q] = tx[q]
      BY <1>1, <1>2 DEF IdleTx
<1>5. ASSUME NEW b \in Account \ overlapped', b # a
      PROVE  /\ current'[b].expires = granted'[b]
             /\ \A u, q \in Tx : tx'[u].account = b /\ tx'[q].account = b => u = q
             /\ \A u \in Tx : tx'[u].account = b => Based(tx[u])'
  <2>1. \A q \in Tx : tx'[q].account = b => tx'[q] = tx[q]
        BY <1>4, <1>5
  <2>2. \A u \in Tx : tx'[u].account = b => Based(tx[u])'
        BY <2>1, <1>2, <1>3, <1>5 DEF DaysKept, Based
  <2> QED BY <2>1, <2>2, <1>2, <1>3, <1>5 DEF DaysKept
<1>6. ASSUME a \notin overlapped'
      PROVE  /\ current'[a].expires = granted'[a]
             /\ \A u \in Tx : tx'[u].account # a
  <2>1. tx[p].base = granted[a]
        BY <1>1, <1>2, <1>6 DEF DaysKept, Based
  <2>2. \A u \in Tx : tx[u].account = a => u = p
        BY <1>1, <1>2, <1>6 DEF DaysKept
  <2> QED BY <1>1, <1>3, <1>4, <2>1, <2>2
<1> QED BY <1>5, <1>6 DEF DaysKept

LEMMA DaysKeptStep == Typed /\ DaysKept /\ [MembershipNext]_membershipVars => DaysKept'
<1> SUFFICES ASSUME Typed, DaysKept, [MembershipNext]_membershipVars PROVE DaysKept'
    OBVIOUS
<1>a. /\ tx \in [Tx -> Transaction] /\ tx' \in [Tx -> Transaction] /\ IdleTx \in Transaction
      /\ current \in [Account -> Row] /\ NoRow.expires = 0
      BY TypeStep DEF Typed, MembershipTypeOK, IdleTx, NoRow, Transaction, TxPhase, Row
<1>b. ASSUME NEW p \in Tx PROVE tx[p] \in Transaction /\ tx'[p] \in Transaction
      BY <1>a
<1>1. ASSUME NEW p \in Tx, NEW a \in Account, NEW c \in Code, NEW k \in Key,
             RedeemInvitation(p, a, c, k)
      PROVE  DaysKept'
  <2> DEFINE t == [[IdleTx EXCEPT !.phase = "code", !.code = c, !.key = k] EXCEPT !.account = a]
  <2>1. t.account = a /\ t.base = 0 /\ t.phase = "code"
        BY DEF IdleTx
  <2>2. /\ tx' = [tx EXCEPT ![p] = t] /\ UNCHANGED <<current, granted>>
        /\ overlapped' = IF \E q \in Tx : tx[q].account = a THEN overlapped \cup {a} ELSE overlapped
        BY <1>1 DEF RedeemInvitation, Begin
  <2> HIDE DEF t
  <2> QED BY <2>1, <2>2, BeginKept
<1>2. ASSUME NEW p \in Tx, NEW a \in Account, AssignMembership(p, a) PROVE DaysKept'
  <2> DEFINE t == [[IdleTx EXCEPT !.phase = "look"] EXCEPT !.account = a]
  <2>1. t.account = a /\ t.base = 0 /\ t.phase = "look"
        BY DEF IdleTx
  <2>2. /\ tx' = [tx EXCEPT ![p] = t] /\ UNCHANGED <<current, granted>>
        /\ overlapped' = IF \E q \in Tx : tx[q].account = a THEN overlapped \cup {a} ELSE overlapped
        BY <1>2 DEF AssignMembership, Begin
  <2> HIDE DEF t
  <2> QED BY <2>1, <2>2, BeginKept
<1>3. ASSUME NEW p \in Tx, LockCode(p) PROVE DaysKept'
  <2>1. /\ tx[p].phase = "code" /\ UNCHANGED <<current, granted, overlapped>>
        /\ tx' = [tx EXCEPT ![p] = tx'[p]]
        BY <1>a, <1>3 DEF LockCode, Step, Holding
  <2>2. /\ tx'[p].account = tx[p].account /\ tx'[p].base = tx[p].base
        /\ tx'[p].phase \in {"look", "replayed"}
    <3>1. CASE tx'[p] = [tx[p] EXCEPT !.phase = "replayed"]
          BY <1>b, <3>1 DEF Transaction
    <3>2. CASE tx'[p] = [tx[p] EXCEPT !.phase = "look", !.used = code[tx[p].code].used]
          BY <1>b, <3>2 DEF Transaction
    <3> QED BY <1>a, <1>3, <3>1, <3>2 DEF LockCode, Step
  <2>3. Based(tx[p]) => Based(tx'[p])
        BY <2>1, <2>2 DEF Based
  <2> QED BY <1>b, <2>1, <2>2, <2>3, MoveKept
<1>4. ASSUME NEW p \in Tx, LookAtCurrent(p) PROVE DaysKept'
  <2> DEFINE row == current[tx[p].account]
  <2>1. /\ tx[p].phase = "look" /\ UNCHANGED <<current, granted, overlapped>>
        /\ tx' = [tx EXCEPT ![p] = tx'[p]]
        /\ tx'[p] = [tx[p] EXCEPT !.saw = row, !.phase = IF row = NoRow THEN "expire" ELSE "lock"]
        BY <1>a, <1>4 DEF LookAtCurrent, Step, Holding
  <2> HIDE DEF row
  <2>2. /\ tx'[p].account = tx[p].account /\ tx'[p].base = tx[p].base /\ tx'[p].saw = row
        /\ tx'[p].phase = IF row = NoRow THEN "expire" ELSE "lock"
        BY <1>b, <2>1 DEF Transaction
  <2>3. Based(tx[p]) => Based(tx'[p])
        BY <1>a, <2>1, <2>2 DEF Based, row
  <2> QED BY <1>b, <2>1, <2>2, <2>3, MoveKept
<1>5. ASSUME NEW p \in Tx, LockCurrent(p) PROVE DaysKept'
  <2> DEFINE row == current[tx[p].account]
  <2>1. /\ tx[p].phase = "lock" /\ UNCHANGED <<current, granted, overlapped>>
        /\ tx' = [tx EXCEPT ![p] = tx'[p]]
        /\ tx'[p] = IF row = tx[p].saw
                    THEN [tx[p] EXCEPT !.phase = "expire", !.base = row.expires, !.holds = TRUE]
                    ELSE [tx[p] EXCEPT !.phase = "expire"]
        BY <1>a, <1>5 DEF LockCurrent, Step, Holding
  <2> HIDE DEF row
  <2>2. /\ tx'[p].account = tx[p].account /\ tx'[p].phase = "expire"
        /\ row = tx[p].saw => tx'[p].base = row.expires
        BY <1>b, <2>1 DEF Transaction
  <2>3. Based(tx[p]) => Based(tx'[p])
        BY <2>1, <2>2 DEF Based, row
  <2> QED BY <1>b, <2>1, <2>2, <2>3, MoveKept
<1>6. ASSUME NEW p \in Tx, ExpireCurrent(p) PROVE DaysKept'
  <2> DEFINE row == current[tx[p].account]
  <2>1. /\ tx[p].phase = "expire" /\ UNCHANGED <<current, granted, overlapped>>
        /\ tx' = [tx EXCEPT ![p] = tx'[p]]
        /\ tx'[p] = [tx[p] EXCEPT !.phase = "insert", !.saw = row, !.holds = row # NoRow]
        BY <1>a, <1>6 DEF ExpireCurrent, Step, Holding
  <2> HIDE DEF row
  <2>2. /\ tx'[p].account = tx[p].account /\ tx'[p].phase = "insert" /\ tx'[p].base = tx[p].base
        BY <1>b, <2>1 DEF Transaction
  <2>3. Based(tx[p]) => Based(tx'[p])
        BY <2>1, <2>2 DEF Based
  <2> QED BY <1>b, <2>1, <2>2, <2>3, MoveKept
<1>7. ASSUME NEW p \in Tx, Commit(p) PROVE DaysKept'
      BY <1>7, CommitKept
<1>8. ASSUME NEW p \in Tx, RollBack(p) PROVE DaysKept'
  <2>1. UNCHANGED <<current, granted, overlapped>> /\ tx' = [tx EXCEPT ![p] = IdleTx]
        BY <1>8 DEF RollBack, Step, Holding
  <2>2. IdleTx.account = None
        BY DEF IdleTx
  <2> QED BY <1>a, <2>1, <2>2, MoveKept
<1>9. CASE (\E c \in Code : RevokeInvitation(c)) \/ UNCHANGED membershipVars
      BY <1>9 DEF RevokeInvitation, membershipVars, DaysKept, Based
<1> QED
    BY <1>1, <1>2, <1>3, <1>4, <1>5, <1>6, <1>7, <1>8, <1>9 DEF MembershipNext, Proceed

\* Every use of a code and every day of a membership is accounted for, however
\* redemptions, assignments and revocations interleave; days may be lost only
\* by an account two of whose assignments were open at once.
THEOREM CodesAccountedHolds == MembershipSpec => []CodesAccounted
<1>1. MembershipInit => DaysKept
  <2> SUFFICES ASSUME MembershipInit PROVE DaysKept
      OBVIOUS
  <2>1. \A p \in Tx : tx[p].account = None
        BY DEF MembershipInit, IdleTx
  <2>2. \A a \in Account : current[a].expires = granted[a]
        BY DEF MembershipInit
  <2> QED BY <2>1, <2>2, MembershipAssumption DEF DaysKept
<1>2. IInv /\ DaysKept /\ [MembershipNext]_membershipVars => DaysKept'
      BY DaysKeptStep DEF IInv
<1>3. IInv /\ DaysKept => CodesAccounted
      BY DEF IInv, Typed, DaysKept, ExtensionsAddUp, CodesAccounted
<1> QED BY <1>1, <1>2, <1>3, Inductive, PTL DEF MembershipSpec

=============================================================================
