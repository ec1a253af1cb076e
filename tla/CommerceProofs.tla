--------------------------- MODULE CommerceProofs ---------------------------
(***************************************************************************)
(* Proofs about what is sold: Commerce (commerce.go, wallet.go), for every *)
(* number of accounts, orders, requests and concurrent transactions, and   *)
(* LegacyAccounts (auth_service.py, background_registration_queue.py,      *)
(* sql_code.py, sql_emby.py and the handlers of existing accounts), for    *)
(* every number of users, tasks, workers, codes and handlers.              *)
(*                                                                         *)
(* No wallet is overdrawn.  A transaction compares the balance with its    *)
(* cost in one statement and posts in another: at most one transaction is  *)
(* between the two for each wallet (Exclusive), and no other one changes   *)
(* the balance it has compared (Covered).                                  *)
(*                                                                         *)
(* The tables tell one story.  What a transaction has checked of the order *)
(* it has locked is still so when it commits (OrderChecked, OrdersApart),  *)
(* so a payment settles one order, and postings, orders, refunds,          *)
(* purchases and extensions correspond one to one (Books).                 *)
(*                                                                         *)
(* Balances and refunds are sums of rows.  Each commit adds one row to one *)
(* sum and its amount to the balance, once, as its key is new (FreshKey);  *)
(* and what is left of a locked order stays left (RefundChecked).          *)
(*                                                                         *)
(* v2 registration.  A task whose lease never lapsed belongs to the worker *)
(* that runs it (Owners), so an account on the server answers to its task; *)
(* and a step adds at most one place to those taken, and says so.          *)
(*                                                                         *)
(* v2 accounts.  Whoever overlaps, a row is bound to a deleted account     *)
(* only while the handler that deleted it is still to clear it             *)
(* (AccountSound).  A user nobody disturbed has one handler, and what it   *)
(* is still to do leaves row, account and credits in agreement (Calm).     *)
(***************************************************************************)
EXTENDS Commerce, LegacyAccounts, FiniteSetTheorems, WellFoundedInduction, TLAPS

\* A running transaction has a request.
Requested == \A s \in Session : session[s].phase # "idle" => session[s].request \in Request

\* A transaction about to post can still pay for its request.
Covered ==
    \A s \in Session : session[s].phase = "commit" =>
        balance[WalletOf(session[s].request)] >= Cost(session[s].request)

\* Two transactions about to post use different wallets.
Exclusive ==
    \A s, t \in Session :
        /\ session[s].phase = "commit" /\ session[t].phase = "commit"
        /\ WalletOf(session[s].request) = WalletOf(session[t].request)
        => s = t

IInv == TypeOK /\ Requested /\ NoOverdraft /\ Covered /\ Exclusive

-----------------------------------------------------------------------------

\* Every request posts to the wallet of an existing account.
LEMMA WalletOfAccount == \A r \in Request : WalletOf(r) \in Account
  BY CommerceAssumption DEF Request, WalletOf

\* What a request takes out of a wallet is a natural number.
LEMMA CostNat == \A r \in Request : Cost(r) \in Nat
  <1> SUFFICES ASSUME NEW r \in Request PROVE Cost(r) \in Nat
    OBVIOUS
  <1>1. CASE r.kind = "confirm"
    BY <1>1 DEF Cost
  <1>2. CASE r \in [kind: {"refund"}, order: Order, key: Key, wallet: Amount, external: Amount]
    BY <1>2, CommerceAssumption DEF Cost
  <1>3. CASE r \in [kind: {"purchase"}, account: Account, key: Key]
    BY <1>3, CommerceAssumption DEF Cost
  <1>4. CASE r \in [kind: {"adjust"}, account: Account, key: Key, amount: Change]
    <2>1. r.amount \in Int
      BY <1>4, CommerceAssumption
    <2> QED
      BY <1>4, <2>1 DEF Cost
  <1>5. r \in [kind: {"confirm"}, order: Order, event: EventId, external: PaymentNo, amount: Amount]
          => r.kind = "confirm"
    OBVIOUS
  <1> QED
    BY <1>1, <1>2, <1>3, <1>4, <1>5 DEF Request

\* What Commit does to the balances: the wallet of its request loses at most
\* the cost of the request, and no other wallet changes.
LEMMA CommitPays ==
  ASSUME NEW s \in Session, TypeOK, Requested, session[s].phase = "commit", Commit(s)
  PROVE  LET r == session[s].request
         IN  /\ balance' \in [Account -> Int]
             /\ balance'[WalletOf(r)] >= balance[WalletOf(r)] - Cost(r)
             /\ \A a \in Account \ {WalletOf(r)} : balance'[a] = balance[a]
  <1> DEFINE r == session[s].request
  <1>0. r \in Request /\ WalletOf(r) \in Account /\ Cost(r) \in Nat
    BY WalletOfAccount, CostNat DEF Requested
  <1>1. ASSUME NEW amount \in Int, amount >= -Cost(r), Post(r, amount)
        PROVE  /\ balance' \in [Account -> Int]
               /\ balance'[WalletOf(r)] >= balance[WalletOf(r)] - Cost(r)
               /\ \A a \in Account \ {WalletOf(r)} : balance'[a] = balance[a]
    <2> HIDE DEF r
    <2>1. CASE UNCHANGED balance
      BY <1>0, <2>1 DEF TypeOK
    <2>2. CASE balance' = [balance EXCEPT ![WalletOf(r)] = @ + amount]
      BY <1>0, <1>1, <2>2 DEF TypeOK
    <2> QED
      BY <1>1, <2>1, <2>2 DEF Post
  <1>2. CASE r.kind = "confirm" /\ Pay(r)
    <2>1. r \in [kind: {"confirm"}, order: Order, event: EventId,
                 external: PaymentNo, amount: Amount]
      BY <1>0, <1>2 DEF Request
    <2>2. order[r.order].grant \in Nat
      BY <2>1 DEF TypeOK
    <2>3. order[r.order].grant >= -Cost(r)
      BY <1>0, <2>2
    <2> QED
      BY <1>1, <1>2, <2>2, <2>3 DEF Pay
  <1>3. CASE r.kind = "refund" /\ GiveBack(r)
    <2>1. Cost(r) = r.wallet
      BY <1>3 DEF Cost
    <2>2. -r.wallet \in Int /\ -r.wallet >= -Cost(r)
      BY <1>0, <2>1
    <2> QED
      BY <1>1, <1>3, <2>2 DEF GiveBack
  <1>4. CASE r.kind = "purchase" /\ Buy(r)
    <2>1. Cost(r) = Price
      BY <1>4 DEF Cost
    <2>2. -Price \in Int /\ -Price >= -Cost(r)
      BY <1>0, <2>1
    <2> QED
      BY <1>1, <1>4, <2>2 DEF Buy
  <1>5. CASE r.kind = "adjust" /\ Adjust(r)
    <2>1. r \in [kind: {"adjust"}, account: Account, key: Key, amount: Change]
      BY <1>0, <1>5 DEF Request
    <2>2. r.amount \in Int
      BY <2>1, CommerceAssumption
    <2>3. Cost(r) = IF r.amount < 0 THEN -r.amount ELSE 0
      BY <1>5 DEF Cost
    <2>4. r.amount >= -Cost(r)
      BY <2>2, <2>3
    <2> QED
      BY <1>1, <1>5, <2>2, <2>4 DEF Adjust
  <1> QED
    BY <1>2, <1>3, <1>4, <1>5 DEF Commit

-----------------------------------------------------------------------------

\* Every operation keeps the types of the tables.
LEMMA TypeStep == TypeOK /\ Requested /\ [Next]_vars => TypeOK'
  <1> SUFFICES ASSUME TypeOK, Requested, [Next]_vars PROVE TypeOK'
    OBVIOUS
  <1> USE DEF TypeOK
  <1>1. ASSUME NEW o \in Order, CreateRechargeOrder(o) PROVE TypeOK'
    BY <1>1, CommerceAssumption DEF CreateRechargeOrder, OrderStatus
  <1>2. ASSUME NEW o \in Order, OrderExpires(o) PROVE TypeOK'
    BY <1>2 DEF OrderExpires
  <1>3. ASSUME NEW s \in Session, NEW r \in Request, Begin(s, r) PROVE TypeOK'
    <2>1. session' \in [Session -> [phase: Phase, request: Request \cup {Nobody}]]
      <3>1. CASE session' = session
        BY <3>1
      <3>2. CASE \E phase \in {"order", "wallet"} :
                   session' = [session EXCEPT ![s] = [phase |-> phase, request |-> r]]
        BY <3>2 DEF Phase
      <3> QED
        BY <1>3, <3>1, <3>2, Zenon DEF Begin
    <2>2. begun' \in 0..MaxRequests
      BY <1>3, CommerceAssumption DEF Begin
    <2> QED
      BY <1>3, <2>1, <2>2 DEF Begin
  <1>4. ASSUME NEW s \in Session, LockOrder(s) PROVE TypeOK'
    <2> DEFINE r == session[s].request
    <2>1. session' \in [Session -> [phase: Phase, request: Request \cup {Nobody}]]
      BY <1>4 DEF LockOrder, Ends, Go, Idle, Phase
    <2>2. CASE UNCHANGED callbacks
      BY <1>4, <2>1, <2>2 DEF LockOrder
    <2>3. CASE r.kind = "confirm" /\ RecordEvent(r)
      <3>1. r \in [kind: {"confirm"}, order: Order, event: EventId,
                   external: PaymentNo, amount: Amount]
        BY <1>4, <2>3 DEF LockOrder, Requested, Request
      <3>2. callbacks' \subseteq Callback
        BY <2>3, <3>1 DEF RecordEvent, Callback
      <3> QED
        BY <1>4, <2>1, <3>2 DEF LockOrder
    <2> QED
      BY <1>4, <2>2, <2>3 DEF LockOrder
  <1>5. ASSUME NEW s \in Session, LockWallet(s) PROVE TypeOK'
    BY <1>5 DEF LockWallet, Ends, Go, Idle, Phase
  <1>6. ASSUME NEW s \in Session, Commit(s) PROVE TypeOK'
    <2> DEFINE r == session[s].request
    <2>0. r \in Request /\ WalletOf(r) \in Account
      BY <1>6, WalletOfAccount DEF Commit, Requested
    <2>1. /\ session' \in [Session -> [phase: Phase, request: Request \cup {Nobody}]]
          /\ begun' \in 0..MaxRequests
      BY <1>6 DEF Commit, Ends, Idle, Phase
    <2>2. ASSUME NEW amount \in Int, Post(r, amount)
          PROVE  /\ \A t \in ledger' : t.account \in Account /\ t.amount \in Int
                 /\ balance' \in [Account -> Int]
      <3> HIDE DEF r
      <3> QED
        BY <2>0, <2>2 DEF Post
    <2>3. CASE r.kind = "confirm" /\ Pay(r)
      <3>1. r \in [kind: {"confirm"}, order: Order, event: EventId,
                   external: PaymentNo, amount: Amount]
        BY <2>0, <2>3 DEF Request
      <3>2. order[r.order].grant \in Int
        BY <3>1
      <3>3. callbacks' \subseteq Callback
        BY <2>3, <3>1 DEF Pay, RecordEvent, Callback
      <3>4. order' \in [Order -> [status: OrderStatus, price: Nat, grant: Nat,
                                  external: PaymentNo \cup {Nobody}, open: BOOLEAN]]
        <4> DEFINE OrderRow == [status: OrderStatus, price: Nat, grant: Nat,
                                external: PaymentNo \cup {Nobody}, open: BOOLEAN]
                   paid == [order[r.order] EXCEPT !.status = "paid", !.external = r.external]
        <4>1. order[r.order] \in OrderRow /\ "paid" \in OrderStatus
              /\ r.external \in PaymentNo \cup {Nobody}
          BY <3>1 DEF OrderStatus
        <4>2. paid \in OrderRow
          BY <4>1
        <4>3. order' = [order EXCEPT ![r.order] = paid]
          BY <2>3, Zenon DEF Pay
        <4> HIDE DEF paid, OrderRow
        <4>4. order \in [Order -> OrderRow] /\ r.order \in Order
          BY <3>1 DEF OrderRow
        <4>5. order' \in [Order -> OrderRow]
          BY <4>2, <4>3, <4>4, Zenon
        <4> QED
          BY <4>5 DEF OrderRow
      <3> QED
        BY <2>1, <2>2, <2>3, <3>2, <3>3, <3>4 DEF Pay
    <2>4. CASE r.kind = "refund" /\ GiveBack(r)
      <3>1. r \in [kind: {"refund"}, order: Order, key: Key, wallet: Amount, external: Amount]
        BY <2>0, <2>4 DEF Request
      <3>2. -r.wallet \in Int
        BY <3>1, CommerceAssumption
      <3>3. refunds' \subseteq Refund
        BY <2>4, <3>1 DEF GiveBack, Refund
      <3>4. PICK status \in {"refunded", "partially_refunded"} :
              order' = [order EXCEPT ![r.order].status = status]
        BY <2>4, Zenon DEF GiveBack
      <3>5. order' \in [Order -> [status: OrderStatus, price: Nat, grant: Nat,
                                  external: PaymentNo \cup {Nobody}, open: BOOLEAN]]
        BY <3>1, <3>4 DEF OrderStatus
      <3> QED
        BY <2>1, <2>2, <2>4, <3>2, <3>3, <3>5 DEF GiveBack
    <2>5. CASE r.kind = "purchase" /\ Buy(r)
      <3>1. r \in [kind: {"purchase"}, account: Account, key: Key]
        BY <2>0, <2>5 DEF Request
      <3>2. -Price \in Int
        BY CommerceAssumption
      <3>3. purchases' \subseteq Purchase /\ extended' \in [Account -> Nat]
        BY <2>5, <3>1 DEF Buy, Purchase
      <3> QED
        BY <2>1, <2>2, <2>5, <3>2, <3>3 DEF Buy
    <2>6. CASE r.kind = "adjust" /\ Adjust(r)
      <3>1. r \in [kind: {"adjust"}, account: Account, key: Key, amount: Change]
        BY <2>0, <2>6 DEF Request
      <3>2. r.amount \in Int
        BY <3>1, CommerceAssumption
      <3> QED
        BY <2>1, <2>2, <2>6, <3>2 DEF Adjust
    <2> QED
      BY <1>6, <2>3, <2>4, <2>5, <2>6 DEF Commit
  <1>7. ASSUME NEW s \in Session, RollBack(s) PROVE TypeOK'
    BY <1>7 DEF RollBack, Ends, Idle, Phase
  <1>8. CASE UNCHANGED vars
    BY <1>8 DEF vars
  <1> QED
    BY <1>1, <1>2, <1>3, <1>4, <1>5, <1>6, <1>7, <1>8 DEF Next

\* Every operation keeps the rest of the invariant.
LEMMA IInvStep == IInv /\ [Next]_vars => IInv'
  <1> SUFFICES ASSUME IInv, [Next]_vars PROVE IInv'
    OBVIOUS
  <1>0. TypeOK'
    BY TypeStep DEF IInv
  <1>1. ASSUME NEW o \in Order, CreateRechargeOrder(o) \/ OrderExpires(o) PROVE IInv'
    BY <1>0, <1>1 DEF IInv, CreateRechargeOrder, OrderExpires, Requested, NoOverdraft, Covered, Exclusive
  <1>2. ASSUME NEW s \in Session, NEW r \in Request, Begin(s, r) PROVE IInv'
    <2>1. UNCHANGED balance /\ \A t \in Session :
            \/ session'[t] = session[t]
            \/ session'[t].phase \in {"order", "wallet"} /\ session'[t].request \in Request
      BY <1>2 DEF Begin, IInv, TypeOK
    <2> QED
      BY <1>0, <2>1 DEF IInv, Requested, NoOverdraft, Covered, Exclusive
  <1>3. ASSUME NEW s \in Session, LockOrder(s) \/ RollBack(s) PROVE IInv'
    <2>1. UNCHANGED balance /\ \A t \in Session :
            \/ session'[t] = session[t]
            \/ session'[t].phase = "idle"
            \/ session'[t].phase = "wallet" /\ session[t].phase = "order"
                 /\ session'[t].request = session[t].request
      BY <1>3 DEF LockOrder, RollBack, Ends, Go, Idle, IInv, TypeOK
    <2> QED
      BY <1>0, <2>1 DEF IInv, Requested, NoOverdraft, Covered, Exclusive
  <1>4. ASSUME NEW s \in Session, LockWallet(s) PROVE IInv'
    <2> DEFINE r == session[s].request
    <2>1. /\ UNCHANGED balance
          /\ \A t \in Session \ {s} : session'[t] = session[t]
          /\ session[s].phase = "wallet"
      BY <1>4 DEF LockWallet, Ends, Go, IInv, TypeOK
    <2>2. r \in Request /\ WalletOf(r) \in Account /\ Cost(r) \in Nat
      BY <2>1, WalletOfAccount, CostNat DEF IInv, Requested
    <2>3. CASE balance[WalletOf(r)] < Cost(r)
      <3>1. session'[s].phase = "idle"
        BY <1>4, <2>3 DEF LockWallet, Ends, Idle, IInv, TypeOK
      <3> QED
        BY <1>0, <2>1, <3>1 DEF IInv, Requested, NoOverdraft, Covered, Exclusive
    <2>4. CASE ~(balance[WalletOf(r)] < Cost(r))
      <3>1. session'[s].phase = "commit" /\ session'[s].request = r
        BY <1>4, <2>4 DEF LockWallet, Go, IInv, TypeOK
      <3>2. Requested' /\ NoOverdraft'
        BY <2>1, <2>2, <3>1 DEF IInv, Requested, NoOverdraft
      <3>3. balance[WalletOf(r)] >= Cost(r)
        BY <2>2, <2>4 DEF IInv, TypeOK
      <3>4. Covered'
        BY <2>1, <3>1, <3>3 DEF IInv, Covered
      <3>5. \A t \in Session : session[t].phase = "commit" => WalletOf(session[t].request) # WalletOf(r)
        BY <1>4 DEF LockWallet, LocksWallet
      <3>6. Exclusive'
        BY <2>1, <3>1, <3>5 DEF IInv, Exclusive
      <3> QED
        BY <1>0, <3>2, <3>4, <3>6 DEF IInv
    <2> QED
      BY <2>3, <2>4
  <1>5. ASSUME NEW s \in Session, Commit(s) PROVE IInv'
    <2> DEFINE r == session[s].request
    <2>1. /\ session[s].phase = "commit"
          /\ session'[s].phase = "idle"
          /\ \A t \in Session \ {s} : session'[t] = session[t]
      BY <1>5 DEF Commit, Ends, Idle, IInv, TypeOK
    <2>2. r \in Request /\ WalletOf(r) \in Account /\ Cost(r) \in Nat
      BY <2>1, WalletOfAccount, CostNat DEF IInv, Requested
    <2>3. /\ balance' \in [Account -> Int]
          /\ balance'[WalletOf(r)] >= balance[WalletOf(r)] - Cost(r)
          /\ \A a \in Account \ {WalletOf(r)} : balance'[a] = balance[a]
      BY <1>5, <2>1, CommitPays DEF IInv
    <2>4. Requested'
      BY <2>1 DEF IInv, Requested
    <2>5. NoOverdraft'
      <3>1. balance[WalletOf(r)] - Cost(r) >= 0 /\ balance[WalletOf(r)] \in Int
        BY <2>1, <2>2 DEF IInv, Covered, TypeOK
      <3>2. balance'[WalletOf(r)] >= 0
        BY <2>2, <2>3, <3>1
      <3> QED
        BY <2>3, <3>2 DEF IInv, NoOverdraft
    <2>6. Covered'
      <3> SUFFICES ASSUME NEW t \in Session, session'[t].phase = "commit"
                   PROVE  balance'[WalletOf(session'[t].request)] >= Cost(session'[t].request)
        BY DEF Covered
      <3>1. t # s /\ session'[t] = session[t]
        BY <2>1
      <3>2. WalletOf(session[t].request) # WalletOf(r)
        BY <2>1, <3>1 DEF IInv, Exclusive
      <3>3. WalletOf(session[t].request) \in Account
        BY <3>1, WalletOfAccount DEF IInv, Requested
      <3> QED
        BY <2>3, <3>1, <3>2, <3>3 DEF IInv, Covered
    <2>7. Exclusive'
      BY <2>1 DEF IInv, Exclusive
    <2> QED
      BY <1>0, <2>4, <2>5, <2>6, <2>7 DEF IInv
  <1>6. CASE UNCHANGED vars
    BY <1>0, <1>6 DEF vars, IInv, Requested, NoOverdraft, Covered, Exclusive
  <1> QED
    BY <1>1, <1>2, <1>3, <1>4, <1>5, <1>6 DEF Next

\* No wallet holds anything at the start, and no transaction runs.
LEMMA IInvInit == Init => IInv
  BY CommerceAssumption
  DEF Init, Idle, Phase, OrderStatus, IInv, TypeOK, Requested, NoOverdraft, Covered, Exclusive

\* The invariant holds throughout.
THEOREM Inductive == Spec => []IInv
  BY IInvInit, IInvStep, PTL DEF Spec

\* The tables and the transactions of wallet.go and commerce.go keep their types.
THEOREM TypeCorrect == Spec => []TypeOK
  <1>1. IInv => TypeOK
    BY DEF IInv
  <1> QED
    BY <1>1, Inductive, PTL

\* walletBalanceTx under the lock of ensureWalletTx: no interleaving of
\* purchases, refunds and adjustments overdraws a wallet.
THEOREM NoOverdraftHolds == Spec => []NoOverdraft
  <1>1. IInv => NoOverdraft
    BY DEF IInv
  <1> QED
    BY <1>1, Inductive, PTL

-----------------------------------------------------------------------------
(* Orders, callbacks and postings. *)

\* What kind of request names which rows.
LEMMA RequestKinds ==
  ASSUME NEW r \in Request
  PROVE  /\ r.kind \in {"confirm", "refund", "purchase", "adjust"}
         /\ r.kind = "confirm" =>
              r.event \in EventId /\ r.order \in Order /\ r.external \in PaymentNo /\ r.amount \in Amount
         /\ r.kind = "refund" =>
              r.order \in Order /\ r.key \in Key /\ r.wallet \in Amount /\ r.external \in Amount
         /\ r.kind = "purchase" => r.account \in Account /\ r.key \in Key
         /\ r.kind = "adjust" => r.account \in Account /\ r.key \in Key /\ r.amount \in Change
  BY DEF Request

\* What a transaction has checked of the order it has locked is still so.
OrderChecked ==
    \A s \in Session : session[s].phase \in {"wallet", "commit"} =>
        LET r == session[s].request
        IN  /\ r.kind = "confirm" =>
                 order[r.order].status = "pending" /\ r.amount = order[r.order].price
            /\ r.kind = "refund" => order[r.order].status \in {"paid", "partially_refunded"}

\* No two transactions have locked the same order.
OrdersApart ==
    \A s, t \in Session, o \in Order : LocksOrder(s, o) /\ LocksOrder(t, o) => s = t

\* The ledger transactions of a paid order, a refund and a purchase.
Payment(o) ==
    [key |-> <<"payment", order[o].external>>, account |-> OwnerOf[o], amount |-> order[o].grant]
GivenBack(f) ==
    [key |-> <<"refund", f.order, f.key>>, account |-> OwnerOf[f.order], amount |-> -f.wallet]
Bought(p) ==
    [key |-> <<"purchase", p.account, p.key>>, account |-> p.account, amount |-> -Price]

\* Every paid order, refund and purchase has its one ledger transaction, and
\* every ledger transaction is one of theirs or an administrator's adjustment.
PostingsMatch ==
    /\ \A o \in Order : order[o].status \in Settled => Payment(o) \in ledger
    /\ \A f \in refunds : GivenBack(f) \in ledger
    /\ \A p \in purchases : Bought(p) \in ledger
    /\ \A t \in ledger :
         \/ \E o \in Order : order[o].status \in Settled /\ t = Payment(o)
         \/ \E f \in refunds : t = GivenBack(f)
         \/ \E p \in purchases : t = Bought(p)
         \/ t.key[1] = "adjust"
    /\ \A t, u \in ledger : t.key = u.key => t = u

PurchasesCounted == IsFiniteSet(purchases) /\ ExtendedOncePerPurchase

Books ==
    /\ TypeOK /\ Requested
    /\ OrderChecked /\ OrdersApart
    /\ CallbacksAgree /\ PostingsMatch /\ PurchasesCounted

\* What Pay and GiveBack write into the order, and nobody else into another.
LEMMA OrderWrites ==
  ASSUME TypeOK, Requested, NEW s \in Session, Commit(s), NEW r, r = session[s].request
  PROVE  /\ r \in Request /\ session[s].phase = "commit" /\ session'[s].phase = "idle"
         /\ \A t \in Session \ {s} : session'[t] = session[t]
         /\ \/ /\ r.kind = "confirm" /\ Pay(r)
               /\ order'[r.order].status = "paid" /\ order'[r.order].external = r.external
               /\ order'[r.order].price = order[r.order].price
               /\ order'[r.order].grant = order[r.order].grant
               /\ \A o \in Order \ {r.order} : order'[o] = order[o]
            \/ /\ r.kind = "refund" /\ GiveBack(r)
               /\ order'[r.order].status \in {"partially_refunded", "refunded"}
               /\ order'[r.order].external = order[r.order].external
               /\ order'[r.order].price = order[r.order].price
               /\ order'[r.order].grant = order[r.order].grant
               /\ \A o \in Order \ {r.order} : order'[o] = order[o]
            \/ r.kind = "purchase" /\ Buy(r) /\ UNCHANGED order
            \/ r.kind = "adjust" /\ Adjust(r) /\ UNCHANGED order
<1> DEFINE OrderRow == [status: OrderStatus, price: Nat, grant: Nat,
                        external: PaymentNo \cup {Nobody}, open: BOOLEAN]
<1>1. /\ r \in Request /\ session[s].phase = "commit" /\ session'[s].phase = "idle"
      /\ \A t \in Session \ {s} : session'[t] = session[t]
  BY DEF Commit, Ends, Idle, TypeOK, Requested
<1>2. order \in [Order -> OrderRow]
  BY DEF TypeOK
<1>3. CASE r.kind = "confirm" /\ Pay(r)
  <2>1. r.order \in Order /\ order[r.order] \in OrderRow
    BY <1>1, <1>2, <1>3, RequestKinds
  <2>2. order' = [order EXCEPT ![r.order] = [order[r.order] EXCEPT !.status = "paid", !.external = r.external]]
    BY <1>3, Zenon DEF Pay
  <2>3. order'[r.order] = [order[r.order] EXCEPT !.status = "paid", !.external = r.external]
    BY <1>2, <2>1, <2>2
  <2>4. \A o \in Order \ {r.order} : order'[o] = order[o]
    BY <1>2, <2>1, <2>2
  <2>5. /\ order'[r.order].status = "paid" /\ order'[r.order].external = r.external
        /\ order'[r.order].price = order[r.order].price
        /\ order'[r.order].grant = order[r.order].grant
    BY <2>1, <2>3
  <2> QED
    BY <1>1, <1>3, <2>4, <2>5
<1>4. CASE r.kind = "refund" /\ GiveBack(r)
  <2>1. r.order \in Order /\ order[r.order] \in OrderRow
    BY <1>1, <1>2, <1>4, RequestKinds
  <2>2. PICK status \in {"refunded", "partially_refunded"} :
          order' = [order EXCEPT ![r.order].status = status]
    BY <1>4, Zenon DEF GiveBack
  <2>3. order'[r.order] = [order[r.order] EXCEPT !.status = status]
    BY <1>2, <2>1, <2>2
  <2>4. \A o \in Order \ {r.order} : order'[o] = order[o]
    BY <1>2, <2>1, <2>2
  <2>5. /\ order'[r.order].status = status /\ order'[r.order].external = order[r.order].external
        /\ order'[r.order].price = order[r.order].price
        /\ order'[r.order].grant = order[r.order].grant
    BY <2>1, <2>3
  <2> QED
    BY <1>1, <1>4, <2>2, <2>4, <2>5
<1>5. CASE (r.kind = "purchase" /\ Buy(r)) \/ (r.kind = "adjust" /\ Adjust(r))
  BY <1>1, <1>5 DEF Buy, Adjust
<1> QED
  BY <1>3, <1>4, <1>5 DEF Commit

\* How the requests for an order and time change it.
LEMMA OrderBegins ==
  ASSUME TypeOK, NEW o \in Order, CreateRechargeOrder(o) \/ OrderExpires(o)
  PROVE  /\ UNCHANGED <<callbacks, refunds, purchases, extended, ledger, session>>
         /\ \A p \in Order \ {o} : order'[p] = order[p]
         /\ \/ order[o].status = "absent" /\ order'[o].status = "pending" /\ order'[o].external = Nobody
            \/ /\ order'[o].status = order[o].status /\ order'[o].external = order[o].external
               /\ order'[o].price = order[o].price /\ order'[o].grant = order[o].grant
               /\ order[o].status = "pending"
  BY DEF TypeOK, CreateRechargeOrder, OrderExpires

\* How a transaction goes on without committing.
LEMMA SessionMoves ==
  ASSUME TypeOK, Requested, NEW s \in Session, LockOrder(s) \/ LockWallet(s) \/ RollBack(s),
         NEW r, r = session[s].request
  PROVE  /\ UNCHANGED <<order, refunds, purchases, extended, ledger, balance>>
         /\ r \in Request
         /\ \A t \in Session \ {s} : session'[t] = session[t]
         /\ \/ session'[s].phase = "idle"
            \/ /\ session'[s].phase = "wallet" /\ session'[s].request = r /\ UNCHANGED callbacks
               /\ Acceptable(r) /\ \A t \in Session : ~LocksOrder(t, r.order)
            \/ /\ session'[s].phase = "commit" /\ session'[s].request = r /\ UNCHANGED callbacks
               /\ session[s].phase = "wallet"
         /\ \/ UNCHANGED callbacks
            \/ r.kind = "confirm" /\ PaidBySame(r) /\ RecordEvent(r)
<1>1. /\ UNCHANGED <<order, refunds, purchases, extended, ledger, balance>>
      /\ r \in Request /\ session \in [Session -> [phase: Phase, request: Request \cup {Nobody}]]
      /\ Idle.phase = "idle"
  BY DEF LockOrder, LockWallet, RollBack, Requested, TypeOK, Idle
<1>2. CASE LockOrder(s)
  <2>1. \/ Acceptable(r) /\ Go(s, "wallet") /\ UNCHANGED callbacks
        \/ r.kind = "confirm" /\ PaidBySame(r) /\ Ends(s) /\ RecordEvent(r)
        \/ Ends(s) /\ UNCHANGED callbacks
    BY <1>2 DEF LockOrder
  <2>2. \A t \in Session : ~LocksOrder(t, r.order)
    BY <1>2 DEF LockOrder
  <2> QED
    BY <1>1, <2>1, <2>2 DEF Go, Ends
<1>3. CASE LockWallet(s)
  BY <1>1, <1>3 DEF LockWallet, Go, Ends
<1>4. CASE RollBack(s)
  BY <1>1, <1>4 DEF RollBack, Ends
<1> QED
  BY <1>2, <1>3, <1>4

LEMMA BeginMoves ==
  ASSUME TypeOK, NEW s \in Session, NEW r \in Request, Begin(s, r)
  PROVE  /\ UNCHANGED <<order, callbacks, refunds, purchases, extended, ledger>>
         /\ \A t \in Session \ {s} : session'[t] = session[t]
         /\ \/ session'[s].phase = "idle" \/ session'[s].phase = "order"
            \/ session'[s].phase = "wallet" /\ session'[s].request.kind \notin {"confirm", "refund"}
  BY DEF TypeOK, Begin

\* What a row lock protects does not change before the transaction ends.
LEMMA LocksStep ==
  TypeOK /\ Requested /\ OrderChecked /\ OrdersApart /\ [Next]_vars => OrderChecked' /\ OrdersApart'
<1> SUFFICES ASSUME TypeOK, Requested, OrderChecked, OrdersApart, [Next]_vars
             PROVE  OrderChecked' /\ OrdersApart'
  OBVIOUS
<1>1. ASSUME NEW o \in Order, CreateRechargeOrder(o) \/ OrderExpires(o)
      PROVE  OrderChecked' /\ OrdersApart'
  <2>1. /\ UNCHANGED session
        /\ \A p \in Order : \/ order'[p].status = order[p].status /\ order'[p].price = order[p].price
                            \/ order[p].status = "absent"
    BY <1>1, OrderBegins
  <2>2. ASSUME NEW s \in Session, session[s].phase \in {"wallet", "commit"},
               session[s].request.kind \in {"confirm", "refund"}
        PROVE  session[s].request.order \in Order
    BY <2>2, RequestKinds DEF Requested
  <2>3. OrdersApart'
    BY <2>1 DEF OrdersApart, LocksOrder
  <2>4. OrderChecked'
    BY <2>1, <2>2 DEF OrderChecked
  <2> QED
    BY <2>3, <2>4
<1>2. ASSUME NEW s \in Session, NEW r \in Request, Begin(s, r) PROVE OrderChecked' /\ OrdersApart'
  <2>1. OrderChecked'
    BY <1>2, BeginMoves DEF OrderChecked
  <2>2. \A o \in Order : ~LocksOrder(s, o)'
    BY <1>2, BeginMoves DEF LocksOrder
  <2>3. \A t \in Session \ {s}, o \in Order : LocksOrder(t, o)' = LocksOrder(t, o)
    BY <1>2, BeginMoves DEF LocksOrder
  <2>4. OrdersApart'
    BY <2>2, <2>3 DEF OrdersApart
  <2> QED
    BY <2>1, <2>4
<1>3. ASSUME NEW s \in Session, LockOrder(s) \/ LockWallet(s) \/ RollBack(s)
      PROVE  OrderChecked' /\ OrdersApart'
  <2> DEFINE r == session[s].request
  <2>1. /\ UNCHANGED order /\ r \in Request
        /\ \A t \in Session \ {s} : session'[t] = session[t]
        /\ \/ session'[s].phase = "idle"
           \/ /\ session'[s].phase = "wallet" /\ session'[s].request = r
              /\ Acceptable(r) /\ \A t \in Session : ~LocksOrder(t, r.order)
           \/ /\ session'[s].phase = "commit" /\ session'[s].request = r
              /\ session[s].phase = "wallet"
    BY <1>3, SessionMoves
  <2>2. Acceptable(r) =>
          /\ r.kind = "confirm" =>
               order[r.order].status = "pending" /\ r.amount = order[r.order].price
          /\ r.kind = "refund" => order[r.order].status \in {"paid", "partially_refunded"}
    BY DEF Acceptable, Payable, Refundable
  <2>3. OrderChecked'
    BY <2>1, <2>2 DEF OrderChecked
  <2>4. \A t \in Session \ {s}, o \in Order : LocksOrder(t, o)' = LocksOrder(t, o)
    BY <2>1 DEF LocksOrder
  <2>5. \A o \in Order : LocksOrder(s, o)' => LocksOrder(s, o) \/ \A t \in Session : ~LocksOrder(t, o)
    BY <2>1 DEF LocksOrder
  <2>6. OrdersApart'
    BY <2>4, <2>5 DEF OrdersApart
  <2> QED
    BY <2>3, <2>6
<1>4. ASSUME NEW s \in Session, Commit(s) PROVE OrderChecked' /\ OrdersApart'
  <2> DEFINE r == session[s].request
  <2>1. /\ session[s].phase = "commit" /\ session'[s].phase = "idle" /\ r \in Request
        /\ \A t \in Session \ {s} : session'[t] = session[t]
        /\ \/ UNCHANGED order
           \/ r.kind \in {"confirm", "refund"} /\ \A o \in Order \ {r.order} : order'[o] = order[o]
    BY <1>4, OrderWrites
  <2>2. \A t \in Session \ {s}, o \in Order : LocksOrder(t, o)' = LocksOrder(t, o)
    BY <2>1 DEF LocksOrder
  <2>3. \A o \in Order : ~LocksOrder(s, o)'
    BY <2>1 DEF LocksOrder
  <2>4. OrdersApart'
    BY <2>2, <2>3 DEF OrdersApart
  <2>5. ASSUME NEW t \in Session, session'[t].phase \in {"wallet", "commit"},
               session'[t].request.kind \in {"confirm", "refund"}
        PROVE  order'[session'[t].request.order] = order[session[t].request.order]
    <3>1. t # s /\ session'[t] = session[t] /\ session[t].request.order \in Order
      BY <2>1, <2>5, RequestKinds DEF Requested
    <3>2. r.kind \in {"confirm", "refund"} => r.order # session[t].request.order
      BY <2>1, <2>5, <3>1 DEF OrdersApart, LocksOrder
    <3> QED
      BY <2>1, <3>1, <3>2
  <2>6. OrderChecked'
    BY <2>1, <2>5 DEF OrderChecked
  <2> QED
    BY <2>4, <2>6
<1>5. CASE UNCHANGED vars
  BY <1>5 DEF vars, OrderChecked, OrdersApart, LocksOrder
<1> QED
  BY <1>1, <1>2, <1>3, <1>4, <1>5 DEF Next

\* A callback that is recorded agrees with its order for ever, and no second
\* order is paid with the same external number.
LEMMA CallbacksStep ==
  TypeOK /\ Requested /\ OrderChecked /\ CallbacksAgree /\ [Next]_vars => CallbacksAgree'
<1> SUFFICES ASSUME TypeOK, Requested, OrderChecked, CallbacksAgree, [Next]_vars PROVE CallbacksAgree'
  OBVIOUS
<1>0. callbacks \subseteq Callback /\ (\A c \in callbacks : c.order \in Order) /\ Nobody \notin PaymentNo
  BY CommerceAssumption DEF TypeOK, Callback
<1>1. ASSUME NEW o \in Order, CreateRechargeOrder(o) \/ OrderExpires(o) PROVE CallbacksAgree'
  BY <1>0, <1>1, OrderBegins DEF CallbacksAgree, Settled
<1>2. ASSUME NEW s \in Session, NEW r \in Request, Begin(s, r) PROVE CallbacksAgree'
  BY <1>2, BeginMoves DEF CallbacksAgree
<1>3. ASSUME NEW s \in Session, LockOrder(s) \/ LockWallet(s) \/ RollBack(s) PROVE CallbacksAgree'
  <2>1. UNCHANGED order
    BY <1>3, SessionMoves
  <2>2. CASE UNCHANGED callbacks
    BY <2>1, <2>2 DEF CallbacksAgree
  <2>3. CASE PaidBySame(session[s].request) /\ RecordEvent(session[s].request)
    <3> DEFINE r == session[s].request
    <3>1. \A c \in callbacks' : c \in callbacks \/
              c = [event |-> r.event, order |-> r.order, external |-> r.external, amount |-> r.amount]
      BY <2>3 DEF RecordEvent
    <3>2. /\ order[r.order].status \in Settled /\ order[r.order].external = r.external
          /\ order[r.order].price = r.amount
      BY <2>3 DEF PaidBySame
    <3> QED
      BY <2>1, <3>1, <3>2 DEF CallbacksAgree
  <2> QED
    BY <1>3, <2>2, <2>3, SessionMoves
<1>4. ASSUME NEW s \in Session, Commit(s) PROVE CallbacksAgree'
  <2> DEFINE r == session[s].request
  <2>1. r \in Request /\ session[s].phase = "commit"
    BY <1>4, OrderWrites
  <2>2. CASE /\ r.kind = "confirm" /\ Pay(r)
             /\ order'[r.order].status = "paid" /\ order'[r.order].external = r.external
             /\ order'[r.order].price = order[r.order].price
             /\ \A o \in Order \ {r.order} : order'[o] = order[o]
    <3>1. /\ order[r.order].status = "pending" /\ r.amount = order[r.order].price
          /\ r.order \in Order
      BY <2>1, <2>2, RequestKinds DEF OrderChecked
    <3>2. \A o \in Order : order[o].external # r.external
      BY <2>2 DEF Pay
    <3>3. \A c \in callbacks' : c \in callbacks \/
            c = [event |-> r.event, order |-> r.order, external |-> r.external, amount |-> r.amount]
      BY <2>2 DEF Pay, RecordEvent
    <3>4. \A c \in callbacks : c.order # r.order
      BY <3>1 DEF CallbacksAgree, Settled
    <3>5. /\ \A c \in callbacks :
               /\ order'[c.order].status \in Settled
               /\ order'[c.order].external = c.external
               /\ order'[c.order].price = c.amount
          /\ order'[r.order].status \in Settled /\ order'[r.order].price = r.amount
      BY <1>0, <2>2, <3>1, <3>4 DEF CallbacksAgree, Settled
    <3>6. \A c \in callbacks' :
            /\ order'[c.order].status \in Settled
            /\ order'[c.order].external = c.external
            /\ order'[c.order].price = c.amount
      BY <2>2, <3>3, <3>5
    <3>7. \A o, p \in Order : order'[o].external = order'[p].external /\ order'[o].external # Nobody => o = p
      BY <2>2, <3>2 DEF CallbacksAgree
    <3> QED
      BY <3>6, <3>7 DEF CallbacksAgree
  <2>3. CASE /\ UNCHANGED callbacks
             /\ \A o \in Order : /\ order'[o].external = order[o].external
                                 /\ order'[o].price = order[o].price
                                 /\ order[o].status \in Settled => order'[o].status \in Settled
    BY <1>0, <2>3 DEF CallbacksAgree
  <2>4. r.kind = "refund" /\ GiveBack(r) => UNCHANGED callbacks
    BY DEF GiveBack
  <2>5. Buy(r) \/ Adjust(r) => UNCHANGED callbacks
    BY DEF Buy, Adjust
  <2> QED
    BY <1>4, <2>2, <2>3, <2>4, <2>5, OrderWrites DEF Settled
<1>5. CASE UNCHANGED vars
  BY <1>5 DEF vars, CallbacksAgree
<1> QED
  BY <1>1, <1>2, <1>3, <1>4, <1>5 DEF Next

\* A posting under a key that the ledger does not have is added to it.
LEMMA PostAdds ==
  ASSUME NEW r, NEW amount, Post(r, amount), \A t \in ledger : t.key # LedgerKey(r), NEW posting,
         posting = [key |-> LedgerKey(r), account |-> WalletOf(r), amount |-> amount]
  PROVE  ledger' = ledger \cup {posting} /\ posting.key = LedgerKey(r)
  BY DEF Post

\* Keys of two sources are told apart by their first component, and keys of one
\* source by the others.
LEMMA KeysApart ==
  /\ \A x, y : <<x, y>>[1] = x /\ <<x, y>>[2] = y
  /\ \A x, y, z : <<x, y, z>>[1] = x /\ <<x, y, z>>[2] = y /\ <<x, y, z>>[3] = z
  OBVIOUS

\* What the key of a transaction of the ledger says about its source.
LEMMA PostingKeys ==
  /\ \A o \in Order : Payment(o).key[1] = "payment" /\ Payment(o).key[2] = order[o].external
  /\ \A f \in refunds : /\ GivenBack(f).key[1] = "refund"
                        /\ GivenBack(f).key[2] = f.order /\ GivenBack(f).key[3] = f.key
  /\ \A p \in purchases : /\ Bought(p).key[1] = "purchase"
                          /\ Bought(p).key[2] = p.account /\ Bought(p).key[3] = p.key
<1>1. ASSUME NEW o \in Order
      PROVE  Payment(o).key[1] = "payment" /\ Payment(o).key[2] = order[o].external
  <2>1. Payment(o).key = <<"payment", order[o].external>>
    BY DEF Payment
  <2> QED
    BY <2>1
<1>2. ASSUME NEW f \in refunds
      PROVE  /\ GivenBack(f).key[1] = "refund"
             /\ GivenBack(f).key[2] = f.order /\ GivenBack(f).key[3] = f.key
  <2>1. GivenBack(f).key = <<"refund", f.order, f.key>>
    BY DEF GivenBack
  <2> QED
    BY <2>1
<1>3. ASSUME NEW p \in purchases
      PROVE  /\ Bought(p).key[1] = "purchase"
             /\ Bought(p).key[2] = p.account /\ Bought(p).key[3] = p.key
  <2>1. Bought(p).key = <<"purchase", p.account, p.key>>
    BY DEF Bought
  <2> QED
    BY <2>1
<1> QED
  BY <1>1, <1>2, <1>3

\* A key that none of the sources has is not in the ledger.
LEMMA NewKey ==
  ASSUME PostingsMatch, NEW k, k[1] # "adjust",
         \A o \in Order : order[o].status \in Settled => Payment(o).key # k,
         \A f \in refunds : GivenBack(f).key # k,
         \A p \in purchases : Bought(p).key # k
  PROVE  \A t \in ledger : t.key # k
  BY DEF PostingsMatch

\* Whoever pays, gives back or sells posts under a key that the ledger does not have yet:
\* the unique keys of the tables are also those of the postings.
LEMMA FreshKey ==
  ASSUME TypeOK, PostingsMatch, NEW r \in Request,
         \/ r.kind = "confirm" /\ Pay(r)
         \/ r.kind = "refund" /\ GiveBack(r)
         \/ r.kind = "purchase" /\ Buy(r)
  PROVE  \A t \in ledger : t.key # LedgerKey(r)
<1>1. PICK k : k = LedgerKey(r)
  OBVIOUS
<1>2. purchases \subseteq Purchase
  BY DEF TypeOK
<1>3. CASE r.kind = "confirm" /\ Pay(r)
  <2>1. LedgerKey(r) = <<"payment", r.external>> /\ \A o \in Order : order[o].external # r.external
    BY <1>3 DEF LedgerKey, Pay
  <2>2. k[1] = "payment" /\ k[2] = r.external
    BY <1>1, <2>1, KeysApart
  <2> QED
    BY <1>1, <2>1, <2>2, PostingKeys, NewKey
<1>4. CASE r.kind = "refund" /\ GiveBack(r)
  <2>1. LedgerKey(r) = <<"refund", r.order, r.key>> /\ \A f \in refunds : ~(f.order = r.order /\ f.key = r.key)
    BY <1>4 DEF LedgerKey, GiveBack
  <2>2. k[1] = "refund" /\ k[2] = r.order /\ k[3] = r.key
    BY <1>1, <2>1, KeysApart
  <2> QED
    BY <1>1, <2>1, <2>2, PostingKeys, NewKey
<1>5. CASE r.kind = "purchase" /\ Buy(r)
  <2>1. /\ LedgerKey(r) = <<"purchase", r.account, r.key>>
        /\ \A p \in purchases : ~(p.account = r.account /\ p.key = r.key)
    BY <1>2, <1>5 DEF LedgerKey, Buy, Purchase
  <2>2. k[1] = "purchase" /\ k[2] = r.account /\ k[3] = r.key
    BY <1>1, <2>1, KeysApart
  <2> QED
    BY <1>1, <2>1, <2>2, PostingKeys, NewKey
<1> QED
  BY <1>3, <1>4, <1>5

LEMMA PostingsStep ==
  TypeOK /\ Requested /\ OrderChecked /\ PostingsMatch /\ [Next]_vars => PostingsMatch'
<1> SUFFICES ASSUME TypeOK, Requested, OrderChecked, PostingsMatch, [Next]_vars PROVE PostingsMatch'
  OBVIOUS
<1>0. refunds \subseteq Refund /\ purchases \subseteq Purchase
  BY DEF TypeOK
\* A step that settles no order, gives nothing back, sells and posts nothing.
<1>1. ASSUME UNCHANGED <<refunds, purchases, ledger>>,
             \A o \in Order : \/ order'[o] = order[o]
                              \/ order[o].status \notin Settled /\ order'[o].status \notin Settled
                              \/ /\ order[o].status \in Settled /\ order'[o].status \in Settled
                                 /\ order'[o].external = order[o].external
                                 /\ order'[o].grant = order[o].grant
      PROVE  PostingsMatch'
  <2>1. \A o \in Order : order[o].status \in Settled <=> order'[o].status \in Settled
    BY <1>1
  <2>2. \A o \in Order : order[o].status \in Settled => Payment(o)' = Payment(o)
    BY <1>1 DEF Payment
  <2>3. \A f : GivenBack(f)' = GivenBack(f) /\ Bought(f)' = Bought(f)
    BY DEF GivenBack, Bought
  <2> QED
    BY <1>1, <2>1, <2>2, <2>3 DEF PostingsMatch
<1>2. ASSUME NEW o \in Order, CreateRechargeOrder(o) \/ OrderExpires(o) PROVE PostingsMatch'
  BY <1>1, <1>2, OrderBegins DEF Settled
<1>3. ASSUME NEW s \in Session, NEW r \in Request, Begin(s, r) PROVE PostingsMatch'
  BY <1>1, <1>3, BeginMoves
<1>4. ASSUME NEW s \in Session, LockOrder(s) \/ LockWallet(s) \/ RollBack(s) PROVE PostingsMatch'
  BY <1>1, <1>4, SessionMoves
<1>5. ASSUME NEW s \in Session, Commit(s) PROVE PostingsMatch'
  <2> DEFINE r == session[s].request
  <2>1. r \in Request /\ session[s].phase = "commit"
    BY <1>5, OrderWrites
  <2>2. CASE /\ r.kind = "confirm" /\ Pay(r)
             /\ order'[r.order].status = "paid" /\ order'[r.order].external = r.external
             /\ order'[r.order].grant = order[r.order].grant
             /\ \A o \in Order \ {r.order} : order'[o] = order[o]
    <3> DEFINE posting == [key |-> LedgerKey(r), account |-> WalletOf(r), amount |-> order[r.order].grant]
    <3>1. r.order \in Order /\ order[r.order].status \notin Settled
      BY <2>1, <2>2, RequestKinds DEF OrderChecked, Settled
    <3>2. LedgerKey(r) = <<"payment", r.external>> /\ WalletOf(r) = OwnerOf[r.order]
      BY <2>2 DEF LedgerKey, WalletOf
    <3>3. \A o \in Order : order[o].external # r.external
      BY <2>2 DEF Pay
    <3>4. \A t \in ledger : t.key # LedgerKey(r)
      BY <2>1, <2>2, FreshKey
    <3>5. ledger' = ledger \cup {posting} /\ posting.key = LedgerKey(r)
      BY <2>2, <3>4, PostAdds DEF Pay
    <3>6. ASSUME NEW o \in Order, o = r.order PROVE Payment(o)' = posting
      <4>1. Payment(o)' = [key |-> <<"payment", order'[o].external>>,
                           account |-> OwnerOf[o], amount |-> order'[o].grant]
        BY DEF Payment
      <4>2. order'[o].external = r.external /\ order'[o].grant = order[o].grant
        BY <2>2, <3>6
      <4> QED
        BY <3>2, <3>6, <4>1, <4>2
    <3>7. \A o \in Order \ {r.order} : Payment(o)' = Payment(o)
      BY <2>2 DEF Payment
    <3>8. UNCHANGED <<refunds, purchases>> /\ order'[r.order].status \in Settled
      BY <2>2 DEF Pay, Settled
    <3>9. \A f : GivenBack(f)' = GivenBack(f) /\ Bought(f)' = Bought(f)
      BY DEF GivenBack, Bought
    <3> HIDE DEF posting
    <3>10. \A o \in Order : order'[o].status \in Settled => Payment(o)' \in ledger'
      <4> SUFFICES ASSUME NEW o \in Order, order'[o].status \in Settled PROVE Payment(o)' \in ledger'
        OBVIOUS
      <4>1. CASE o = r.order
        BY <3>5, <3>6, <4>1
      <4>2. CASE o # r.order
        <5>1. order'[o] = order[o] /\ Payment(o)' = Payment(o)
          BY <2>2, <3>7, <4>2
        <5> QED
          BY <3>5, <5>1 DEF PostingsMatch
      <4> QED
        BY <4>1, <4>2
    <3>11. \A t \in ledger' :
             \/ \E o \in Order : order'[o].status \in Settled /\ t = Payment(o)'
             \/ \E f \in refunds' : t = GivenBack(f)'
             \/ \E p \in purchases' : t = Bought(p)'
             \/ t.key[1] = "adjust"
      <4> SUFFICES ASSUME NEW t \in ledger, ~ \E o \in Order : order'[o].status \in Settled /\ t = Payment(o)'
                   PROVE  (\E f \in refunds : t = GivenBack(f)) \/ (\E p \in purchases : t = Bought(p))
                            \/ t.key[1] = "adjust"
        BY <3>1, <3>5, <3>6, <3>8, <3>9
      <4>1. ~ \E o \in Order : order[o].status \in Settled /\ t = Payment(o)
        BY <2>2, <3>1, <3>7
      <4> QED
        BY <4>1 DEF PostingsMatch
    <3>12. \A t, u \in ledger' : t.key = u.key => t = u
      BY <3>4, <3>5 DEF PostingsMatch
    <3> QED
      BY <3>5, <3>8, <3>9, <3>10, <3>11, <3>12 DEF PostingsMatch
  <2>3. CASE /\ r.kind = "refund" /\ GiveBack(r)
             /\ order'[r.order].status \in {"partially_refunded", "refunded"}
             /\ order'[r.order].external = order[r.order].external
             /\ order'[r.order].grant = order[r.order].grant
             /\ \A o \in Order \ {r.order} : order'[o] = order[o]
    <3> DEFINE posting == [key |-> LedgerKey(r), account |-> WalletOf(r), amount |-> -r.wallet]
               new == [order |-> r.order, key |-> r.key, wallet |-> r.wallet, external |-> r.external]
    <3>1. r.order \in Order /\ order[r.order].status \in Settled
      BY <2>1, <2>3, RequestKinds DEF OrderChecked, Settled
    <3>2. LedgerKey(r) = <<"refund", r.order, r.key>> /\ WalletOf(r) = OwnerOf[r.order]
      BY <2>3 DEF LedgerKey, WalletOf
    <3>3. \A f \in refunds : ~(f.order = r.order /\ f.key = r.key)
      BY <2>3 DEF GiveBack
    <3>4. \A t \in ledger : t.key # LedgerKey(r)
      BY <2>1, <2>3, FreshKey
    <3>5. ledger' = ledger \cup {posting} /\ posting.key = LedgerKey(r)
      BY <2>3, <3>4, PostAdds DEF GiveBack
    <3>6. refunds' = refunds \cup {new} /\ UNCHANGED purchases
      BY <2>3 DEF GiveBack
    <3>7. GivenBack(new) = posting
      BY <3>2 DEF GivenBack
    <3>8. \A o \in Order : /\ Payment(o)' = Payment(o)
                           /\ order'[o].status \in Settled <=> order[o].status \in Settled
      BY <2>3, <3>1 DEF Payment, Settled
    <3>9. \A f : GivenBack(f)' = GivenBack(f) /\ Bought(f)' = Bought(f)
      BY DEF GivenBack, Bought
    <3> HIDE DEF posting, new
    <3>10. \A t, u \in ledger' : t.key = u.key => t = u
      BY <3>4, <3>5 DEF PostingsMatch
    <3>11. \A f \in refunds' : GivenBack(f)' \in ledger'
      BY <3>5, <3>6, <3>7, <3>9 DEF PostingsMatch
    <3>12. \A t \in ledger' :
             \/ \E o \in Order : order'[o].status \in Settled /\ t = Payment(o)'
             \/ \E f \in refunds' : t = GivenBack(f)'
             \/ \E p \in purchases' : t = Bought(p)'
             \/ t.key[1] = "adjust"
      BY <3>5, <3>6, <3>7, <3>8, <3>9 DEF PostingsMatch
    <3>13. /\ \A o \in Order : order'[o].status \in Settled => Payment(o)' \in ledger'
           /\ \A p \in purchases' : Bought(p)' \in ledger'
      BY <3>5, <3>6, <3>8, <3>9 DEF PostingsMatch
    <3> QED
      BY <3>10, <3>11, <3>12, <3>13 DEF PostingsMatch
  <2>4. CASE r.kind = "purchase" /\ Buy(r)
    <3> DEFINE posting == [key |-> LedgerKey(r), account |-> WalletOf(r), amount |-> -Price]
               new == [account |-> r.account, key |-> r.key]
    <3>1. LedgerKey(r) = <<"purchase", r.account, r.key>> /\ WalletOf(r) = r.account
      BY <2>4 DEF LedgerKey, WalletOf
    <3>2. \A p \in purchases : ~(p.account = r.account /\ p.key = r.key)
      BY <1>0, <2>4 DEF Buy, Purchase
    <3>3. \A t \in ledger : t.key # LedgerKey(r)
      BY <2>1, <2>4, FreshKey
    <3>4. ledger' = ledger \cup {posting} /\ posting.key = LedgerKey(r)
      BY <2>4, <3>3, PostAdds DEF Buy
    <3>5. purchases' = purchases \cup {new} /\ UNCHANGED <<order, refunds>>
      BY <2>4 DEF Buy
    <3>6. Bought(new) = posting
      BY <3>1 DEF Bought
    <3>7. /\ \A o \in Order : Payment(o)' = Payment(o)
          /\ \A f : GivenBack(f)' = GivenBack(f) /\ Bought(f)' = Bought(f)
      BY <3>5 DEF Payment, GivenBack, Bought
    <3> HIDE DEF posting, new
    <3>8. \A t, u \in ledger' : t.key = u.key => t = u
      BY <3>3, <3>4 DEF PostingsMatch
    <3>9. \A p \in purchases' : Bought(p)' \in ledger'
      BY <3>4, <3>5, <3>6, <3>7 DEF PostingsMatch
    <3>10. \A t \in ledger' :
             \/ \E o \in Order : order'[o].status \in Settled /\ t = Payment(o)'
             \/ \E f \in refunds' : t = GivenBack(f)'
             \/ \E p \in purchases' : t = Bought(p)'
             \/ t.key[1] = "adjust"
      BY <3>4, <3>5, <3>6, <3>7 DEF PostingsMatch
    <3>11. /\ \A o \in Order : order'[o].status \in Settled => Payment(o)' \in ledger'
           /\ \A f \in refunds' : GivenBack(f)' \in ledger'
      BY <3>4, <3>5, <3>7 DEF PostingsMatch
    <3> QED
      BY <3>8, <3>9, <3>10, <3>11 DEF PostingsMatch
  <2>5. CASE r.kind = "adjust" /\ Adjust(r)
    <3> DEFINE posting == [key |-> LedgerKey(r), account |-> WalletOf(r), amount |-> r.amount]
    <3>1. UNCHANGED <<order, refunds, purchases>> /\ Post(r, r.amount)
      BY <2>5 DEF Adjust
    <3>2. CASE UNCHANGED ledger
      BY <1>1, <3>1, <3>2
    <3>3. CASE \A t \in ledger : t.key # LedgerKey(r)
      <4>1. ledger' = ledger \cup {posting} /\ posting.key = LedgerKey(r)
        BY <3>1, <3>3, PostAdds
      <4>2. posting.key[1] = "adjust"
        BY <2>5, <4>1 DEF LedgerKey
      <4>3. /\ \A o \in Order : Payment(o)' = Payment(o)
            /\ \A f : GivenBack(f)' = GivenBack(f) /\ Bought(f)' = Bought(f)
        BY <3>1 DEF Payment, GivenBack, Bought
      <4> HIDE DEF posting
      <4>4. \A t, u \in ledger' : t.key = u.key => t = u
        BY <3>3, <4>1 DEF PostingsMatch
      <4>5. \A t \in ledger' :
             \/ \E o \in Order : order'[o].status \in Settled /\ t = Payment(o)'
             \/ \E f \in refunds' : t = GivenBack(f)'
             \/ \E p \in purchases' : t = Bought(p)'
             \/ t.key[1] = "adjust"
        BY <3>1, <4>1, <4>2, <4>3 DEF PostingsMatch
      <4> QED
        BY <3>1, <4>1, <4>3, <4>4, <4>5 DEF PostingsMatch
    <3> QED
      BY <3>1, <3>2, <3>3 DEF Post
  <2> QED
    BY <1>5, <2>2, <2>3, <2>4, <2>5, OrderWrites
<1>6. CASE UNCHANGED vars
  BY <1>1, <1>6 DEF vars
<1> QED
  BY <1>2, <1>3, <1>4, <1>5, <1>6 DEF Next

\* A membership is extended once by each purchase that is recorded.
LEMMA PurchasesStep == TypeOK /\ Requested /\ PurchasesCounted /\ [Next]_vars => PurchasesCounted'
<1> SUFFICES ASSUME TypeOK, Requested, PurchasesCounted, [Next]_vars PROVE PurchasesCounted'
  OBVIOUS
<1>1. CASE UNCHANGED <<purchases, extended>>
  BY <1>1 DEF PurchasesCounted, ExtendedOncePerPurchase
<1>2. ASSUME NEW r \in Request, r.kind = "purchase", Buy(r) PROVE PurchasesCounted'
  <2> DEFINE new == [account |-> r.account, key |-> r.key]
             of(ps, a) == {p \in ps : p.account = a}
  <2>1. r.account \in Account /\ extended \in [Account -> Nat]
    BY <1>2, RequestKinds DEF TypeOK
  <2>2. /\ purchases' = purchases \cup {new} /\ new \notin purchases /\ new.account = r.account
        /\ extended' = [extended EXCEPT ![r.account] = extended[r.account] + 1]
    BY <1>2 DEF Buy
  <2> HIDE DEF new
  <2>3. IsFiniteSet(purchases) /\ IsFiniteSet(purchases')
    BY <2>2, FS_AddElement DEF PurchasesCounted
  <2>4. Cardinality(of(purchases', r.account)) = Cardinality(of(purchases, r.account)) + 1
    <3>1. of(purchases', r.account) = of(purchases, r.account) \cup {new}
      BY <2>2
    <3>2. new \notin of(purchases, r.account) /\ IsFiniteSet(of(purchases, r.account))
      BY <2>2, <2>3, FS_Subset
    <3> HIDE DEF of
    <3> QED
      BY <3>1, <3>2, FS_AddElement
  <2>5. \A a \in Account \ {r.account} : of(purchases', a) = of(purchases, a)
    BY <2>2
  <2>6. \A a \in Account : extended[a] = Cardinality(of(purchases, a))
    BY DEF PurchasesCounted, ExtendedOncePerPurchase
  <2>7. \A a \in Account : extended'[a] = Cardinality(of(purchases', a))
    <3> HIDE DEF of
    <3> QED
      BY <2>1, <2>2, <2>4, <2>5, <2>6
  <2> QED
    BY <2>3, <2>7 DEF PurchasesCounted, ExtendedOncePerPurchase
<1>3. ASSUME NEW s \in Session, Commit(s) PROVE PurchasesCounted'
  <2>1. session[s].request \in Request
    BY <1>3, OrderWrites
  <2>2. ASSUME NEW r, Pay(r) \/ GiveBack(r) \/ Adjust(r) PROVE UNCHANGED <<purchases, extended>>
    BY <2>2 DEF Pay, GiveBack, Adjust
  <2> QED
    BY <1>1, <1>2, <1>3, <2>1, <2>2 DEF Commit
<1>4. ASSUME NEW s \in Session, NEW r \in Request, Begin(s, r) PROVE PurchasesCounted'
  BY <1>1, <1>4 DEF Begin
<1>5. ASSUME NEW s \in Session, LockOrder(s) \/ LockWallet(s) \/ RollBack(s) PROVE PurchasesCounted'
  BY <1>1, <1>5 DEF LockOrder, LockWallet, RollBack
<1>6. CASE (\E o \in Order : CreateRechargeOrder(o) \/ OrderExpires(o)) \/ UNCHANGED vars
  BY <1>1, <1>6 DEF CreateRechargeOrder, OrderExpires, vars
<1> QED
  BY <1>3, <1>4, <1>5, <1>6 DEF Next

LEMMA BooksHold == Spec => []Books
<1>1. Init => Books
  <2> SUFFICES ASSUME Init PROVE Books
    OBVIOUS
  <2>1. TypeOK /\ Requested
    BY IInvInit DEF IInv
  <2>2. OrderChecked /\ OrdersApart /\ CallbacksAgree /\ PostingsMatch
    BY DEF Init, Idle, OrderChecked, OrdersApart, LocksOrder, CallbacksAgree, PostingsMatch, Settled
  <2>3. PurchasesCounted
    <3>1. \A a \in Account : {p \in purchases : p.account = a} = {}
      BY DEF Init
    <3> QED
      BY <3>1, FS_EmptySet DEF Init, PurchasesCounted, ExtendedOncePerPurchase
  <2> QED
    BY <2>1, <2>2, <2>3 DEF Books
<1>2. IInv /\ Books /\ [Next]_vars => Books'
  <2> SUFFICES ASSUME IInv, Books, [Next]_vars PROVE Books'
    OBVIOUS
  <2>1. TypeOK' /\ Requested'
    BY IInvStep DEF IInv
  <2> QED
    BY <2>1, LocksStep, CallbacksStep, PostingsStep, PurchasesStep DEF Books
<1> QED
  BY <1>1, <1>2, Inductive, PTL DEF Spec

\* ConfirmRecharge: whatever callbacks repeat, race or reuse a number, a recorded
\* one speaks of the payment that paid its order, and a payment pays one order.
THEOREM CallbacksAgreeHolds == Spec => []CallbacksAgree
<1>1. Books => CallbacksAgree
  BY DEF Books
<1> QED
  BY <1>1, BooksHold, PTL

\* postLedgerTx: the ledger has exactly one transaction for each paid order, each
\* refund and each purchase, of its amount and on its wallet, and no other but
\* adjustments: no money without its record, no record without its money.
THEOREM PostingsMatchHolds == Spec => []PostingsMatch
<1>1. Books => PostingsMatch
  BY DEF Books
<1> QED
  BY <1>1, BooksHold, PTL

\* PurchaseMembership: the extensions of an account are as many as its purchases.
THEOREM ExtendedOncePerPurchaseHolds == Spec => []ExtendedOncePerPurchase
<1>1. Books => ExtendedOncePerPurchase
  BY DEF Books, PurchasesCounted
<1> QED
  BY <1>1, BooksHold, PTL

-----------------------------------------------------------------------------
(* Sums over finite sets.  The folds of the library are recursive          *)
(* functions; that such a function exists, and what one element more adds, *)
(* is shown by a counterexample of least cardinality.                      *)

\* The sum of a function over a set.
Total(f, S) == MapThenSumSet(LAMBDA x : f[x], S)

\* One more step of it.
Picked(t) == CHOOSE x \in t : TRUE
Summed(g, f, S) == g = [t \in S |-> IF t = {} THEN 0 ELSE f[Picked(t)] + g[t \ {Picked(t)}]]

LEMMA TotalIs ==
  ASSUME NEW S, NEW f
  PROVE  Total(f, S) = (CHOOSE g : Summed(g, f, SUBSET S))[S]
  BY DEF Total, Summed, Picked, MapThenSumSet, MapThenFoldSet

\* What holds of a set if it holds of the set without any one of its elements,
\* holds of all finite sets.
LEMMA SetInduction ==
  ASSUME NEW S, IsFiniteSet(S), NEW Good,
         \A t \in SUBSET S : (\A u \in t : t \ {u} \in Good) => t \in Good
  PROVE  \A t \in SUBSET S : t \in Good
<1> SUFFICES ASSUME NEW t0 \in SUBSET S, t0 \notin Good PROVE FALSE
  OBVIOUS
<1> DEFINE Bad == {n \in Nat : \E t \in SUBSET S : t \notin Good /\ Cardinality(t) = n}
<1>1. \A t \in SUBSET S : IsFiniteSet(t) /\ Cardinality(t) \in Nat
  BY FS_Subset, FS_CardinalityType
<1>2. Bad # {} /\ Bad \subseteq Nat
  BY <1>1
<1> HIDE DEF Bad
<1>3. PICK n \in Bad : \A m \in Bad : ~(<<m, n>> \in OpToRel(<, Nat))
  BY <1>2, NatLessThanWellFounded, WFMin
<1>4. \A m \in Bad : ~(m < n)
  BY <1>2, <1>3 DEF OpToRel
<1>5. PICK t \in SUBSET S : t \notin Good /\ Cardinality(t) = n
  BY <1>3 DEF Bad
<1>6. PICK u \in t : t \ {u} \notin Good
  BY <1>5
<1>7. t \ {u} \in SUBSET S
  BY <1>5
<1>8. Cardinality(t \ {u}) = n - 1 /\ n \in Nat /\ Cardinality(t \ {u}) \in Nat
  BY <1>1, <1>5, <1>6, <1>7, FS_RemoveElement
<1>9. n - 1 \in Bad
  BY <1>6, <1>7, <1>8 DEF Bad
<1> QED BY <1>4, <1>8, <1>9

\* The same, for the element that a fold takes first.
LEMMA PickInduction ==
  ASSUME NEW S, IsFiniteSet(S), NEW Good, {} \in Good,
         \A t \in SUBSET S : t # {} /\ t \ {Picked(t)} \in Good => t \in Good
  PROVE  \A t \in SUBSET S : t \in Good
<1>1. ASSUME NEW t \in SUBSET S, \A u \in t : t \ {u} \in Good PROVE t \in Good
  <2>1. t # {} => Picked(t) \in t
    BY DEF Picked
  <2> QED BY <1>1, <2>1
<1> QED BY <1>1, SetInduction

\* There is a function that adds the terms up.
LEMMA TotalExists ==
  ASSUME NEW S, IsFiniteSet(S), NEW f
  PROVE  \E g : Summed(g, f, SUBSET S)
<1> DEFINE U(n) == {t \in SUBSET S : Cardinality(t) < n}
           Bad == {n \in Nat : ~\E g : Summed(g, f, U(n))}
<1>1. \A t \in SUBSET S : IsFiniteSet(t) /\ Cardinality(t) \in Nat
  BY FS_Subset, FS_CardinalityType
<1>2. ASSUME Bad # {} PROVE FALSE
  <2>1. PICK n \in Bad : \A m \in Bad : ~(<<m, n>> \in OpToRel(<, Nat))
    <3>1. Bad \subseteq Nat
      OBVIOUS
    <3> HIDE DEF Bad
    <3> QED BY <1>2, <3>1, NatLessThanWellFounded, WFMin
  <2>2. n \in Nat /\ ~\E g : Summed(g, f, U(n))
    OBVIOUS
  <2>3. n # 0
    <3>1. Summed([t \in {} |-> 0], f, {})
      BY DEF Summed
    <3>2. U(0) = {}
      BY <1>1
    <3> QED BY <2>2, <3>1, <3>2
  <2>4. n - 1 \in Nat /\ n - 1 \notin Bad
    <3>1. \A m \in Nat : m \in Bad => ~(m < n)
      <4> HIDE DEF Bad
      <4> QED BY <2>1, <2>2 DEF OpToRel
    <3> HIDE DEF Bad
    <3> QED BY <2>2, <2>3, <3>1
  <2>5. PICK g : Summed(g, f, U(n - 1))
    BY <2>4
  <2> DEFINE h == [t \in U(n) |-> IF t = {} THEN 0 ELSE f[Picked(t)] + g[t \ {Picked(t)}]]
  <2>6. ASSUME NEW t \in U(n), t # {} PROVE t \ {Picked(t)} \in U(n - 1)
    <3>1. Picked(t) \in t
      BY <2>6 DEF Picked
    <3>2. Cardinality(t \ {Picked(t)}) = Cardinality(t) - 1
      BY <1>1, <3>1, FS_RemoveElement
    <3> QED BY <1>1, <2>2, <3>2
  <2>7. U(n - 1) \subseteq U(n)
    BY <1>1, <2>2
  <2>8. \A t \in U(n - 1) : h[t] = g[t]
    <3>1. g = [t \in U(n - 1) |-> IF t = {} THEN 0 ELSE f[Picked(t)] + g[t \ {Picked(t)}]]
      BY <2>5 DEF Summed
    <3> HIDE DEF U
    <3> QED BY <2>7, <3>1
  <2>9. Summed(h, f, U(n))
    <3> HIDE DEF U
    <3>1. \A t \in U(n) : t # {} => h[t \ {Picked(t)}] = g[t \ {Picked(t)}]
      BY <2>6, <2>8
    <3> QED BY <3>1 DEF Summed
  <2> QED BY <2>2, <2>9
<1>3. Cardinality(S) + 1 \in Nat /\ Cardinality(S) + 1 \notin Bad
  <2>1. S \in SUBSET S
    OBVIOUS
  <2> HIDE DEF Bad
  <2> QED BY <1>1, <1>2, <2>1
<1>4. U(Cardinality(S) + 1) = SUBSET S
  <2>1. \A t \in SUBSET S : Cardinality(t) <= Cardinality(S)
    BY FS_Subset
  <2> QED BY <1>1, <1>3, <2>1
<1> QED BY <1>3, <1>4

AddsUp(g, f, S) ==
  /\ g[{}] = 0
  /\ \A t \in SUBSET S : t # {} => g[t] = f[Picked(t)] + g[t \ {Picked(t)}]

\* The sum is the value at the whole set of a function that adds up.
LEMMA TotalIter ==
  ASSUME NEW S, IsFiniteSet(S), NEW f
  PROVE  \E g : Total(f, S) = g[S] /\ AddsUp(g, f, S)
<1>1. PICK g : g = CHOOSE h : Summed(h, f, SUBSET S)
  OBVIOUS
<1>2. Summed(g, f, SUBSET S)
  BY <1>1, TotalExists
<1>3. Total(f, S) = g[S]
  BY <1>1, TotalIs
<1>4. g[{}] = 0 /\ \A t \in SUBSET S : t # {} => g[t] = f[Picked(t)] + g[t \ {Picked(t)}]
  <2>1. {} \in SUBSET S
    OBVIOUS
  <2>2. g = [t \in SUBSET S |-> IF t = {} THEN 0 ELSE f[Picked(t)] + g[t \ {Picked(t)}]]
    BY <1>2 DEF Summed
  <2> QED BY <2>1, <2>2
<1> QED BY <1>3, <1>4 DEF AddsUp

\* The sum over a set is an element and the sum over the others, whichever it is.
LEMMA AnyPicked ==
  ASSUME NEW S, IsFiniteSet(S), NEW f, \A x \in S : f[x] \in Int, NEW g, AddsUp(g, f, S)
  PROVE  /\ \A t \in SUBSET S : g[t] \in Int
         /\ \A t \in SUBSET S : \A u \in t : g[t] = f[u] + g[t \ {u}]
<1>1. \A t \in SUBSET S : t # {} => Picked(t) \in t /\ g[t] = f[Picked(t)] + g[t \ {Picked(t)}]
  BY DEF Picked, AddsUp
<1>2. \A t \in SUBSET S : g[t] \in Int
  <2> DEFINE Good == {t \in SUBSET S : g[t] \in Int}
  <2>1. {} \in Good
    BY DEF AddsUp
  <2>2. ASSUME NEW t \in SUBSET S, t # {}, t \ {Picked(t)} \in Good PROVE t \in Good
    <3>1. Picked(t) \in S /\ g[t] = f[Picked(t)] + g[t \ {Picked(t)}]
      BY <1>1, <2>2
    <3> QED BY <2>2, <3>1
  <2>3. \A t \in SUBSET S : t \in Good
    <3> HIDE DEF Good
    <3> QED BY <2>1, <2>2, PickInduction
  <2> QED BY <2>3
<1> DEFINE Good == {t \in SUBSET S : \A u \in t : g[t] = f[u] + g[t \ {u}]}
<1>3. ASSUME NEW t \in SUBSET S, \A u \in t : t \ {u} \in Good PROVE t \in Good
  <2> SUFFICES ASSUME NEW u \in t PROVE g[t] = f[u] + g[t \ {u}]
    OBVIOUS
  <2>1. PICK p : p = Picked(t)
    OBVIOUS
  <2>2. p \in t /\ p \in S /\ g[t] = f[p] + g[t \ {p}]
    BY <1>1, <2>1
  <2>3. CASE u = p
    BY <2>2, <2>3
  <2>4. CASE u # p
    <3>1. PICK rest : rest = t \ {p, u}
      OBVIOUS
    <3>2. rest = (t \ {p}) \ {u} /\ rest = (t \ {u}) \ {p} /\ u \in t \ {p} /\ p \in t \ {u}
      BY <2>2, <2>4, <3>1
    <3>3. t \ {p} \in Good /\ t \ {u} \in Good
      BY <1>3, <2>2
    <3>4. g[t \ {p}] = f[u] + g[rest] /\ g[t \ {u}] = f[p] + g[rest]
      BY <3>2, <3>3
    <3>5. g[rest] \in Int /\ f[u] \in Int /\ f[p] \in Int
      BY <1>2, <2>2, <3>1
    <3> QED BY <2>2, <3>4, <3>5
  <2> QED BY <2>3, <2>4
<1>4. \A t \in SUBSET S : t \in Good
  <2> HIDE DEF Good
  <2> QED BY <1>3, SetInduction
<1> QED BY <1>2, <1>4

\* There is one sum.
LEMMA SumsAgree ==
  ASSUME NEW S, IsFiniteSet(S), NEW f, NEW k, AddsUp(k, f, S)
  PROVE  k[S] = Total(f, S)
<1>1. PICK g : Total(f, S) = g[S] /\ AddsUp(g, f, S)
  BY TotalIter
<1> DEFINE Good == {t \in SUBSET S : k[t] = g[t]}
<1>2. {} \in Good
  BY <1>1 DEF AddsUp
<1>3. ASSUME NEW t \in SUBSET S, t # {}, t \ {Picked(t)} \in Good PROVE t \in Good
  <2>1. g[t] = f[Picked(t)] + g[t \ {Picked(t)}] /\ k[t] = f[Picked(t)] + k[t \ {Picked(t)}]
    BY <1>1, <1>3 DEF AddsUp
  <2> QED BY <1>3, <2>1
<1>4. S \in Good
  <2> HIDE DEF Good
  <2> QED BY <1>2, <1>3, PickInduction
<1> QED BY <1>1, <1>4


\* One term more; the others stay, though the function may be another.
LEMMA TotalOfAdded ==
  ASSUME NEW S, IsFiniteSet(S), NEW x, x \notin S, NEW f, NEW h,
         \A y \in S : f[y] \in Int /\ h[y] = f[y], h[x] \in Int
  PROVE  Total(h, S \cup {x}) = Total(f, S) + h[x] /\ Total(f, S) \in Int
<1>1. PICK T : T = S \cup {x}
  OBVIOUS
<1>2. IsFiniteSet(T) /\ (\A y \in T : h[y] \in Int) /\ T \ {x} = S /\ SUBSET S \subseteq SUBSET T
      /\ T \in SUBSET T /\ x \in T /\ S \in SUBSET T
  BY <1>1, FS_AddElement
<1>3. PICK g : Total(h, T) = g[T] /\ AddsUp(g, h, T)
  BY <1>2, TotalIter
<1>4. g[S] \in Int /\ g[T] = h[x] + g[S]
  BY <1>2, <1>3, AnyPicked
<1>5. AddsUp(g, f, S)
  BY <1>2, <1>3 DEF AddsUp, Picked
<1>6. g[S] = Total(f, S)
  BY <1>5, SumsAgree
<1> QED BY <1>1, <1>2, <1>3, <1>4, <1>6

\* The sum depends on the terms alone, and is an integer, or a natural number, like them.
LEMMA TotalOfSame ==
  ASSUME NEW S, IsFiniteSet(S), NEW f, NEW h, \A y \in S : h[y] = f[y]
  PROVE  Total(h, S) = Total(f, S)
<1>1. PICK g : Total(h, S) = g[S] /\ AddsUp(g, h, S)
  BY TotalIter
<1>2. AddsUp(g, f, S)
  BY <1>1 DEF AddsUp, Picked
<1> QED BY <1>1, <1>2, SumsAgree

LEMMA TotalType ==
  ASSUME NEW S, IsFiniteSet(S), NEW f, \A x \in S : f[x] \in Int
  PROVE  Total(f, S) \in Int
<1>1. PICK g : Total(f, S) = g[S] /\ AddsUp(g, f, S)
  BY TotalIter
<1> DEFINE Good == {t \in SUBSET S : g[t] \in Int}
<1>2. {} \in Good
  BY <1>1 DEF AddsUp
<1>3. ASSUME NEW t \in SUBSET S, t # {}, t \ {Picked(t)} \in Good PROVE t \in Good
  <2>1. Picked(t) \in S
    BY <1>3 DEF Picked
  <2>2. g[t] = f[Picked(t)] + g[t \ {Picked(t)}]
    BY <1>1, <1>3 DEF AddsUp
  <2> QED BY <1>3, <2>1, <2>2
<1>4. S \in Good
  <2> HIDE DEF Good
  <2> QED BY <1>2, <1>3, PickInduction
<1> QED BY <1>1, <1>4

LEMMA TotalNatural ==
  ASSUME NEW S, IsFiniteSet(S), NEW f, \A x \in S : f[x] \in Nat
  PROVE  Total(f, S) \in Nat
<1>1. PICK g : Total(f, S) = g[S] /\ AddsUp(g, f, S)
  BY TotalIter
<1> DEFINE Good == {t \in SUBSET S : g[t] \in Nat}
<1>2. {} \in Good
  BY <1>1 DEF AddsUp
<1>3. ASSUME NEW t \in SUBSET S, t # {}, t \ {Picked(t)} \in Good PROVE t \in Good
  <2>1. Picked(t) \in S
    BY <1>3 DEF Picked
  <2>2. g[t] = f[Picked(t)] + g[t \ {Picked(t)}]
    BY <1>1, <1>3 DEF AddsUp
  <2> QED BY <1>3, <2>1, <2>2
<1>4. S \in Good
  <2> HIDE DEF Good
  <2> QED BY <1>2, <1>3, PickInduction
<1> QED BY <1>1, <1>4

LEMMA TotalOfEmpty == \A f : Total(f, {}) = 0
<1> SUFFICES ASSUME NEW f PROVE Total(f, {}) = 0
  OBVIOUS
<1>1. PICK g : Total(f, {}) = g[{}] /\ AddsUp(g, f, {})
  BY FS_EmptySet, TotalIter
<1> QED BY <1>1 DEF AddsUp

-----------------------------------------------------------------------------
(* The sums of the books. *)

GrantSum(ord, os) == MapThenSumSet(LAMBDA o : ord[o].grant, os)
WalletSum(fs) == MapThenSumSet(LAMBDA f : f.wallet, fs)
ExternalSum(fs) == MapThenSumSet(LAMBDA f : f.external, fs)
AmountSum(ts) == MapThenSumSet(LAMBDA t : t.amount, ts)

\* Each is the sum of a function.
LEMMA GrantSumIs ==
  ASSUME NEW ord, NEW S, IsFiniteSet(S), NEW f, f = [o \in S |-> ord[o].grant]
  PROVE  GrantSum(ord, S) = Total(f, S)
<1> DEFINE Is(g) == g = [t \in SUBSET S |-> IF t = {} THEN 0 ELSE ord[Picked(t)].grant + g[t \ {Picked(t)}]]
<1>1. PICK g : g = CHOOSE h : Is(h)
  OBVIOUS
<1>2. GrantSum(ord, S) = g[S]
  BY <1>1 DEF GrantSum, MapThenSumSet, MapThenFoldSet, Picked
<1>3. \A t \in SUBSET S : t # {} => f[Picked(t)] = ord[Picked(t)].grant
  BY DEF Picked
<1>4. \E h : Is(h)
  <2>1. PICK h : Summed(h, f, SUBSET S)
    BY TotalExists
  <2>2. Is(h)
    BY <1>3, <2>1 DEF Summed
  <2> QED BY <2>2
<1>5. Is(g)
  <2> HIDE DEF Is
  <2> QED BY <1>1, <1>4
<1>6. AddsUp(g, f, S)
  <2>1. {} \in SUBSET S
    OBVIOUS
  <2> QED BY <1>3, <1>5, <2>1 DEF AddsUp
<1> QED BY <1>2, <1>6, SumsAgree

LEMMA WalletSumIs ==
  ASSUME NEW S, IsFiniteSet(S), NEW f, f = [o \in S |-> o.wallet]
  PROVE  WalletSum(S) = Total(f, S)
<1> DEFINE Is(g) == g = [t \in SUBSET S |-> IF t = {} THEN 0 ELSE Picked(t).wallet + g[t \ {Picked(t)}]]
<1>1. PICK g : g = CHOOSE h : Is(h)
  OBVIOUS
<1>2. WalletSum(S) = g[S]
  BY <1>1 DEF WalletSum, MapThenSumSet, MapThenFoldSet, Picked
<1>3. \A t \in SUBSET S : t # {} => f[Picked(t)] = Picked(t).wallet
  BY DEF Picked
<1>4. \E h : Is(h)
  <2>1. PICK h : Summed(h, f, SUBSET S)
    BY TotalExists
  <2>2. Is(h)
    BY <1>3, <2>1 DEF Summed
  <2> QED BY <2>2
<1>5. Is(g)
  <2> HIDE DEF Is
  <2> QED BY <1>1, <1>4
<1>6. AddsUp(g, f, S)
  <2>1. {} \in SUBSET S
    OBVIOUS
  <2> QED BY <1>3, <1>5, <2>1 DEF AddsUp
<1> QED BY <1>2, <1>6, SumsAgree

LEMMA ExternalSumIs ==
  ASSUME NEW S, IsFiniteSet(S), NEW f, f = [o \in S |-> o.external]
  PROVE  ExternalSum(S) = Total(f, S)
<1> DEFINE Is(g) == g = [t \in SUBSET S |-> IF t = {} THEN 0 ELSE Picked(t).external + g[t \ {Picked(t)}]]
<1>1. PICK g : g = CHOOSE h : Is(h)
  OBVIOUS
<1>2. ExternalSum(S) = g[S]
  BY <1>1 DEF ExternalSum, MapThenSumSet, MapThenFoldSet, Picked
<1>3. \A t \in SUBSET S : t # {} => f[Picked(t)] = Picked(t).external
  BY DEF Picked
<1>4. \E h : Is(h)
  <2>1. PICK h : Summed(h, f, SUBSET S)
    BY TotalExists
  <2>2. Is(h)
    BY <1>3, <2>1 DEF Summed
  <2> QED BY <2>2
<1>5. Is(g)
  <2> HIDE DEF Is
  <2> QED BY <1>1, <1>4
<1>6. AddsUp(g, f, S)
  <2>1. {} \in SUBSET S
    OBVIOUS
  <2> QED BY <1>3, <1>5, <2>1 DEF AddsUp
<1> QED BY <1>2, <1>6, SumsAgree

LEMMA AmountSumIs ==
  ASSUME NEW S, IsFiniteSet(S), NEW f, f = [o \in S |-> o.amount]
  PROVE  AmountSum(S) = Total(f, S)
<1> DEFINE Is(g) == g = [t \in SUBSET S |-> IF t = {} THEN 0 ELSE Picked(t).amount + g[t \ {Picked(t)}]]
<1>1. PICK g : g = CHOOSE h : Is(h)
  OBVIOUS
<1>2. AmountSum(S) = g[S]
  BY <1>1 DEF AmountSum, MapThenSumSet, MapThenFoldSet, Picked
<1>3. \A t \in SUBSET S : t # {} => f[Picked(t)] = Picked(t).amount
  BY DEF Picked
<1>4. \E h : Is(h)
  <2>1. PICK h : Summed(h, f, SUBSET S)
    BY TotalExists
  <2>2. Is(h)
    BY <1>3, <2>1 DEF Summed
  <2> QED BY <2>2
<1>5. Is(g)
  <2> HIDE DEF Is
  <2> QED BY <1>1, <1>4
<1>6. AddsUp(g, f, S)
  <2>1. {} \in SUBSET S
    OBVIOUS
  <2> QED BY <1>3, <1>5, <2>1 DEF AddsUp
<1> QED BY <1>2, <1>6, SumsAgree

\* One row more, and rows that do not change.
LEMMA GrantSumMore ==
  ASSUME NEW ord, NEW new, NEW S, IsFiniteSet(S), NEW x, x \notin S,
         \A o \in S : ord[o].grant \in Int /\ new[o].grant = ord[o].grant, new[x].grant \in Int
  PROVE  GrantSum(new, S \cup {x}) = GrantSum(ord, S) + new[x].grant /\ GrantSum(ord, S) \in Int
<1>1. PICK f : f = [o \in S |-> ord[o].grant]
  OBVIOUS
<1>2. PICK h : h = [o \in S \cup {x} |-> new[o].grant]
  OBVIOUS
<1>3. GrantSum(ord, S) = Total(f, S)
  BY <1>1, GrantSumIs
<1>4. GrantSum(new, S \cup {x}) = Total(h, S \cup {x})
  BY <1>2, GrantSumIs, FS_AddElement
<1>5. (\A o \in S : f[o] \in Int /\ h[o] = f[o]) /\ h[x] = new[x].grant
  BY <1>1, <1>2
<1>6. Total(h, S \cup {x}) = Total(f, S) + h[x] /\ Total(f, S) \in Int
  BY <1>5, TotalOfAdded
<1> QED BY <1>3, <1>4, <1>5, <1>6

LEMMA GrantSumSame ==
  ASSUME NEW ord, NEW new, NEW S, IsFiniteSet(S), \A o \in S : new[o].grant = ord[o].grant
  PROVE  GrantSum(new, S) = GrantSum(ord, S)
<1>1. PICK f : f = [o \in S |-> ord[o].grant]
  OBVIOUS
<1>2. PICK h : h = [o \in S |-> new[o].grant]
  OBVIOUS
<1>3. \A o \in S : h[o] = f[o]
  BY <1>1, <1>2
<1> QED BY <1>1, <1>2, <1>3, GrantSumIs, TotalOfSame

LEMMA GrantSumType ==
  ASSUME NEW ord, NEW S, IsFiniteSet(S), \A o \in S : ord[o].grant \in Int
  PROVE  GrantSum(ord, S) \in Int
<1>1. PICK f : f = [o \in S |-> ord[o].grant]
  OBVIOUS
<1> QED BY <1>1, GrantSumIs, TotalType

LEMMA WalletSumMore ==
  ASSUME NEW S, IsFiniteSet(S), NEW x, x \notin S, \A y \in S \cup {x} : y.wallet \in Int
  PROVE  WalletSum(S \cup {x}) = WalletSum(S) + x.wallet /\ WalletSum(S) \in Int
<1>1. PICK f : f = [y \in S |-> y.wallet]
  OBVIOUS
<1>2. PICK h : h = [y \in S \cup {x} |-> y.wallet]
  OBVIOUS
<1>3. WalletSum(S) = Total(f, S)
  BY <1>1, WalletSumIs
<1>4. WalletSum(S \cup {x}) = Total(h, S \cup {x})
  BY <1>2, WalletSumIs, FS_AddElement
<1>5. (\A y \in S : f[y] \in Int /\ h[y] = f[y]) /\ h[x] = x.wallet
  BY <1>1, <1>2
<1>6. Total(h, S \cup {x}) = Total(f, S) + h[x] /\ Total(f, S) \in Int
  BY <1>5, TotalOfAdded
<1> QED BY <1>3, <1>4, <1>5, <1>6

LEMMA WalletSumType ==
  ASSUME NEW S, IsFiniteSet(S), \A y \in S : y.wallet \in Nat
  PROVE  WalletSum(S) \in Nat
<1>1. PICK f : f = [y \in S |-> y.wallet]
  OBVIOUS
<1> QED BY <1>1, WalletSumIs, TotalNatural

LEMMA ExternalSumMore ==
  ASSUME NEW S, IsFiniteSet(S), NEW x, x \notin S, \A y \in S \cup {x} : y.external \in Int
  PROVE  ExternalSum(S \cup {x}) = ExternalSum(S) + x.external /\ ExternalSum(S) \in Int
<1>1. PICK f : f = [y \in S |-> y.external]
  OBVIOUS
<1>2. PICK h : h = [y \in S \cup {x} |-> y.external]
  OBVIOUS
<1>3. ExternalSum(S) = Total(f, S)
  BY <1>1, ExternalSumIs
<1>4. ExternalSum(S \cup {x}) = Total(h, S \cup {x})
  BY <1>2, ExternalSumIs, FS_AddElement
<1>5. (\A y \in S : f[y] \in Int /\ h[y] = f[y]) /\ h[x] = x.external
  BY <1>1, <1>2
<1>6. Total(h, S \cup {x}) = Total(f, S) + h[x] /\ Total(f, S) \in Int
  BY <1>5, TotalOfAdded
<1> QED BY <1>3, <1>4, <1>5, <1>6

LEMMA ExternalSumType ==
  ASSUME NEW S, IsFiniteSet(S), \A y \in S : y.external \in Nat
  PROVE  ExternalSum(S) \in Nat
<1>1. PICK f : f = [y \in S |-> y.external]
  OBVIOUS
<1> QED BY <1>1, ExternalSumIs, TotalNatural

LEMMA AmountSumMore ==
  ASSUME NEW S, IsFiniteSet(S), NEW x, x \notin S, \A y \in S \cup {x} : y.amount \in Int
  PROVE  AmountSum(S \cup {x}) = AmountSum(S) + x.amount /\ AmountSum(S) \in Int
<1>1. PICK f : f = [y \in S |-> y.amount]
  OBVIOUS
<1>2. PICK h : h = [y \in S \cup {x} |-> y.amount]
  OBVIOUS
<1>3. AmountSum(S) = Total(f, S)
  BY <1>1, AmountSumIs
<1>4. AmountSum(S \cup {x}) = Total(h, S \cup {x})
  BY <1>2, AmountSumIs, FS_AddElement
<1>5. (\A y \in S : f[y] \in Int /\ h[y] = f[y]) /\ h[x] = x.amount
  BY <1>1, <1>2
<1>6. Total(h, S \cup {x}) = Total(f, S) + h[x] /\ Total(f, S) \in Int
  BY <1>5, TotalOfAdded
<1> QED BY <1>3, <1>4, <1>5, <1>6

LEMMA AmountSumType ==
  ASSUME NEW S, IsFiniteSet(S), \A y \in S : y.amount \in Int
  PROVE  AmountSum(S) \in Int
<1>1. PICK f : f = [y \in S |-> y.amount]
  OBVIOUS
<1> QED BY <1>1, AmountSumIs, TotalType

\* Nothing adds up to nothing.
LEMMA NoSum ==
  /\ \A ord : GrantSum(ord, {}) = 0
  /\ WalletSum({}) = 0 /\ ExternalSum({}) = 0 /\ AmountSum({}) = 0
<1> SUFFICES ASSUME NEW ord
             PROVE  GrantSum(ord, {}) = 0 /\ WalletSum({}) = 0 /\ ExternalSum({}) = 0 /\ AmountSum({}) = 0
  OBVIOUS
<1>1. PICK f1 : f1 = [o \in {} |-> ord[o].grant]
  OBVIOUS
<1>2. PICK f2 : f2 = [o \in {} |-> o.wallet]
  OBVIOUS
<1>3. PICK f3 : f3 = [o \in {} |-> o.external]
  OBVIOUS
<1>4. PICK f4 : f4 = [o \in {} |-> o.amount]
  OBVIOUS
<1>5. GrantSum(ord, {}) = Total(f1, {})
  BY <1>1, FS_EmptySet, GrantSumIs
<1>6. WalletSum({}) = Total(f2, {})
  BY <1>2, FS_EmptySet, WalletSumIs
<1>7. ExternalSum({}) = Total(f3, {})
  BY <1>3, FS_EmptySet, ExternalSumIs
<1>8. AmountSum({}) = Total(f4, {})
  BY <1>4, FS_EmptySet, AmountSumIs
<1> QED BY <1>5, <1>6, <1>7, <1>8, TotalOfEmpty

\* The properties of the books, in these sums.
SettledOf(ord, a) == {o \in Order : OwnerOf[o] = a /\ ord[o].status \in Settled}
ReturnedOf(fs, a) == {f \in fs : OwnerOf[f.order] = a}
BoughtOf(ps, a) == {p \in ps : p.account = a}
AdjustedOf(ts, a) == {t \in ts : t.account = a /\ t.key[1] = "adjust"}
RefundsOf(fs, o) == {f \in fs : f.order = o}

Explains(a, sum, ord, fs, ps, ts) ==
    sum = GrantSum(ord, SettledOf(ord, a)) - WalletSum(ReturnedOf(fs, a))
            - Price * Cardinality(BoughtOf(ps, a)) + AmountSum(AdjustedOf(ts, a))

LEMMA ExplainedIs ==
  WalletExplained <=> \A a \in Account : Explains(a, balance[a], order, refunds, purchases, ledger)
BY DEF WalletExplained, Explains, GrantSum, WalletSum, AmountSum, SettledOf, ReturnedOf, BoughtOf, AdjustedOf

LEMMA ExplainedNextIs ==
  WalletExplained' <=> \A a \in Account : Explains(a, balance'[a], order', refunds', purchases', ledger')
<1>1. WalletExplained' <=> (\A a \in Account : Explains(a, balance[a], order, refunds, purchases, ledger))'
  BY ExplainedIs, PTL
<1> QED BY <1>1

LEMMA UsedIs ==
  \A o : UsedWallet(o) = WalletSum(RefundsOf(refunds, o)) /\ UsedExternal(o) = ExternalSum(RefundsOf(refunds, o))
BY DEF UsedWallet, UsedExternal, WalletSum, ExternalSum, RefundsOf

-----------------------------------------------------------------------------
(* The balance and the tables. *)

\* The tables are finite, as finitely many transactions have written them.
Finite ==
    /\ IsFiniteSet({o \in Order : order[o].status \in Settled})
    /\ IsFiniteSet(refunds) /\ IsFiniteSet(purchases) /\ IsFiniteSet(ledger)

\* What the sums add up are numbers.
LEMMA TermsTyped ==
  ASSUME TypeOK
  PROVE  /\ \A o \in Order : order[o].grant \in Nat /\ order[o].price \in Nat
         /\ \A f \in refunds : f.wallet \in Nat /\ f.external \in Nat
         /\ \A t \in ledger : t.amount \in Int
<1>1. \A o \in Order : order[o].grant \in Nat /\ order[o].price \in Nat
  BY DEF TypeOK
<1>2. \A f \in refunds : f.wallet \in Nat /\ f.external \in Nat
  BY CommerceAssumption DEF TypeOK, Refund
<1> QED BY <1>1, <1>2 DEF TypeOK

\* What they range over is finite.
LEMMA RangesFinite ==
  ASSUME Finite
  PROVE  /\ \A a : /\ IsFiniteSet(SettledOf(order, a)) /\ IsFiniteSet(ReturnedOf(refunds, a))
                   /\ IsFiniteSet(BoughtOf(purchases, a)) /\ IsFiniteSet(AdjustedOf(ledger, a))
         /\ \A o : IsFiniteSet(RefundsOf(refunds, o))
<1>1. ASSUME NEW a PROVE IsFiniteSet(SettledOf(order, a))
  <2>1. SettledOf(order, a) \subseteq {o \in Order : order[o].status \in Settled}
    BY DEF SettledOf
  <2> QED BY <2>1, FS_Subset DEF Finite
<1>2. ASSUME NEW a
      PROVE  /\ IsFiniteSet(ReturnedOf(refunds, a)) /\ IsFiniteSet(BoughtOf(purchases, a))
             /\ IsFiniteSet(AdjustedOf(ledger, a)) /\ IsFiniteSet(RefundsOf(refunds, a))
  <2>1. ReturnedOf(refunds, a) \subseteq refunds /\ BoughtOf(purchases, a) \subseteq purchases
        /\ AdjustedOf(ledger, a) \subseteq ledger /\ RefundsOf(refunds, a) \subseteq refunds
    BY DEF ReturnedOf, BoughtOf, AdjustedOf, RefundsOf
  <2> QED BY <2>1, FS_Subset DEF Finite
<1> QED BY <1>1, <1>2

\* A posting under a key the ledger does not have moves one balance by its amount.
LEMMA PostMoves ==
  ASSUME TypeOK, NEW r \in Request, NEW amount \in Int, Post(r, amount),
         \A t \in ledger : t.key # LedgerKey(r), NEW a \in Account
  PROVE  balance'[a] = IF a = WalletOf(r) THEN balance[a] + amount ELSE balance[a]
<1>1. balance' = [balance EXCEPT ![WalletOf(r)] = balance[WalletOf(r)] + amount]
  BY DEF Post
<1> QED BY <1>1, WalletOfAccount DEF TypeOK

\* A step that settles no order, gives nothing back, sells nothing and posts nothing.
LEMMA QuietExplained ==
  ASSUME TypeOK, Finite, WalletExplained, UNCHANGED <<refunds, purchases, ledger, balance>>,
         \A o \in Order : /\ order[o].status \in Settled <=> order'[o].status \in Settled
                          /\ order[o].status \in Settled => order'[o].grant = order[o].grant
  PROVE  WalletExplained' /\ Finite'
<1>1. {o \in Order : order'[o].status \in Settled} = {o \in Order : order[o].status \in Settled}
  OBVIOUS
<1>2. Finite'
  BY <1>1 DEF Finite
<1> SUFFICES ASSUME NEW a \in Account
             PROVE  Explains(a, balance'[a], order', refunds', purchases', ledger')
  BY <1>2, ExplainedNextIs
<1>3. SettledOf(order', a) = SettledOf(order, a) /\ \A o \in SettledOf(order, a) : order'[o].grant = order[o].grant
  BY DEF SettledOf
<1>4. GrantSum(order', SettledOf(order', a)) = GrantSum(order, SettledOf(order, a))
  BY <1>3, RangesFinite, GrantSumSame
<1>5. Explains(a, balance[a], order, refunds, purchases, ledger)
  BY ExplainedIs
<1> QED BY <1>4, <1>5 DEF Explains

\* A row of another source is no adjustment.
LEMMA NoAdjustment ==
  ASSUME NEW ts, NEW t, t.key[1] # "adjust", NEW a
  PROVE  AdjustedOf(ts \cup {t}, a) = AdjustedOf(ts, a)
BY DEF AdjustedOf

\* The four sums of an account are numbers.
LEMMA SumsTyped ==
  ASSUME TypeOK, Finite, NEW a
  PROVE  /\ GrantSum(order, SettledOf(order, a)) \in Int /\ WalletSum(ReturnedOf(refunds, a)) \in Int
         /\ Price * Cardinality(BoughtOf(purchases, a)) \in Int /\ AmountSum(AdjustedOf(ledger, a)) \in Int
         /\ Cardinality(BoughtOf(purchases, a)) \in Nat
<1>1. GrantSum(order, SettledOf(order, a)) \in Int
  <2>1. \A o \in SettledOf(order, a) : order[o].grant \in Int
    BY TermsTyped DEF SettledOf
  <2> QED BY <2>1, RangesFinite, GrantSumType
<1>2. WalletSum(ReturnedOf(refunds, a)) \in Nat
  <2>1. \A f \in ReturnedOf(refunds, a) : f.wallet \in Nat
    BY TermsTyped DEF ReturnedOf
  <2> QED BY <2>1, RangesFinite, WalletSumType
<1>3. AmountSum(AdjustedOf(ledger, a)) \in Int
  <2>1. \A f \in AdjustedOf(ledger, a) : f.amount \in Int
    BY TermsTyped DEF AdjustedOf
  <2> QED BY <2>1, RangesFinite, AmountSumType
<1>4. Cardinality(BoughtOf(purchases, a)) \in Nat
  BY RangesFinite, FS_CardinalityType
<1>5. Price * Cardinality(BoughtOf(purchases, a)) \in Int
  BY <1>4, CommerceAssumption
<1> QED BY <1>1, <1>2, <1>3, <1>4, <1>5

\* ConfirmRecharge: the order joins those of its owner, with its grant.
LEMMA PayExplained ==
  ASSUME TypeOK, Finite, WalletExplained, NEW r \in Request, r.kind = "confirm", Pay(r),
         \A t \in ledger : t.key # LedgerKey(r), order[r.order].status \notin Settled,
         order'[r.order].status = "paid", order'[r.order].grant = order[r.order].grant,
         \A o \in Order \ {r.order} : order'[o] = order[o]
  PROVE  WalletExplained' /\ Finite'
<1>1. r.order \in Order /\ WalletOf(r) = OwnerOf[r.order]
  BY RequestKinds DEF WalletOf
<1>2. PICK posting : posting = [key |-> LedgerKey(r), account |-> WalletOf(r), amount |-> order[r.order].grant]
  OBVIOUS
<1>3. ledger' = ledger \cup {posting} /\ posting.key[1] = "payment"
  <2>1. ledger' = ledger \cup {posting} /\ posting.key = LedgerKey(r)
    BY <1>2, PostAdds DEF Pay
  <2>2. LedgerKey(r) = <<"payment", r.external>>
    BY DEF LedgerKey
  <2> QED BY <2>1, <2>2, KeysApart
<1>4. UNCHANGED <<refunds, purchases>> /\ order[r.order].grant \in Nat /\ Post(r, order[r.order].grant)
  BY <1>1 DEF Pay, TypeOK
<1>5. Finite'
  <2>1. {o \in Order : order'[o].status \in Settled} = {o \in Order : order[o].status \in Settled} \cup {r.order}
    BY <1>1 DEF Settled
  <2>2. IsFiniteSet({o \in Order : order'[o].status \in Settled})
    BY <2>1, FS_AddElement DEF Finite
  <2>3. IsFiniteSet(ledger')
    BY <1>3, FS_AddElement DEF Finite
  <2> QED BY <1>4, <2>2, <2>3 DEF Finite
<1> SUFFICES ASSUME NEW a \in Account
             PROVE  Explains(a, balance'[a], order', refunds', purchases', ledger')
  BY <1>5, ExplainedNextIs
<1>6. Explains(a, balance[a], order, refunds, purchases, ledger) /\ balance[a] \in Int
  BY ExplainedIs DEF TypeOK
<1>7. balance'[a] = IF a = WalletOf(r) THEN balance[a] + order[r.order].grant ELSE balance[a]
  BY <1>4, PostMoves
<1>8. AdjustedOf(ledger', a) = AdjustedOf(ledger, a)
  <2>1. posting.key[1] # "adjust"
    BY <1>3
  <2>2. AdjustedOf(ledger \cup {posting}, a) = AdjustedOf(ledger, a)
    BY <2>1, NoAdjustment, SMTT(30)
  <2> QED
    BY <1>3, <2>2, Zenon
<1>9. /\ \A o \in SettledOf(order, a) : order[o].grant \in Int /\ order'[o].grant = order[o].grant
      /\ r.order \notin SettledOf(order, a)
  BY <1>1, TermsTyped DEF SettledOf
<1>10. CASE a = WalletOf(r)
  <2>1. SettledOf(order', a) = SettledOf(order, a) \cup {r.order}
    BY <1>1, <1>10 DEF SettledOf, Settled
  <2>2. /\ GrantSum(order', SettledOf(order, a) \cup {r.order})
             = GrantSum(order, SettledOf(order, a)) + order'[r.order].grant
    BY <1>4, <1>9, RangesFinite, GrantSumMore
  <2>3. balance'[a] = balance[a] + order[r.order].grant
    BY <1>7, <1>10
  <2> QED BY <1>4, <1>6, <1>8, <2>1, <2>2, <2>3, SumsTyped DEF Explains
<1>11. CASE a # WalletOf(r)
  <2>1. SettledOf(order', a) = SettledOf(order, a)
    BY <1>1, <1>11 DEF SettledOf, Settled
  <2>2. GrantSum(order', SettledOf(order, a)) = GrantSum(order, SettledOf(order, a))
    BY <1>9, RangesFinite, GrantSumSame
  <2> QED BY <1>4, <1>6, <1>7, <1>8, <1>11, <2>1, <2>2 DEF Explains
<1> QED BY <1>10, <1>11

\* RefundRecharge: the refund joins those of the account, with its points.
LEMMA RefundExplained ==
  ASSUME TypeOK, Finite, WalletExplained, NEW r \in Request, r.kind = "refund", GiveBack(r),
         \A t \in ledger : t.key # LedgerKey(r),
         \A o \in Order : /\ order[o].status \in Settled <=> order'[o].status \in Settled
                          /\ order'[o].grant = order[o].grant
  PROVE  WalletExplained' /\ Finite'
<1>1. r.order \in Order /\ WalletOf(r) = OwnerOf[r.order] /\ r.wallet \in Nat
  BY RequestKinds, CommerceAssumption DEF WalletOf
<1>2. PICK posting : posting = [key |-> LedgerKey(r), account |-> WalletOf(r), amount |-> -r.wallet]
  OBVIOUS
<1>3. ledger' = ledger \cup {posting} /\ posting.key[1] = "refund"
  <2>1. ledger' = ledger \cup {posting} /\ posting.key = LedgerKey(r)
    BY <1>2, PostAdds DEF GiveBack
  <2>2. LedgerKey(r) = <<"refund", r.order, r.key>>
    BY DEF LedgerKey
  <2> QED BY <2>1, <2>2, KeysApart
<1>4. PICK new : new = [order |-> r.order, key |-> r.key, wallet |-> r.wallet, external |-> r.external]
  OBVIOUS
<1>5. /\ UNCHANGED purchases /\ refunds' = refunds \cup {new} /\ new \notin refunds
      /\ new.order = r.order /\ new.wallet = r.wallet /\ Post(r, -r.wallet)
  BY <1>4 DEF GiveBack
<1>6. Finite'
  <2>1. {o \in Order : order'[o].status \in Settled} = {o \in Order : order[o].status \in Settled}
    OBVIOUS
  <2> QED BY <1>3, <1>5, <2>1, FS_AddElement DEF Finite
<1> SUFFICES ASSUME NEW a \in Account
             PROVE  Explains(a, balance'[a], order', refunds', purchases', ledger')
  BY <1>6, ExplainedNextIs
<1>7. Explains(a, balance[a], order, refunds, purchases, ledger) /\ balance[a] \in Int
  BY ExplainedIs DEF TypeOK
<1>8. balance'[a] = IF a = WalletOf(r) THEN balance[a] + (-r.wallet) ELSE balance[a]
  <2>1. PICK n \in Int : n = -r.wallet
    BY <1>1
  <2> QED BY <1>5, <2>1, PostMoves
<1>9. AdjustedOf(ledger', a) = AdjustedOf(ledger, a)
  <2>1. posting.key[1] # "adjust"
    BY <1>3
  <2>2. AdjustedOf(ledger \cup {posting}, a) = AdjustedOf(ledger, a)
    BY <2>1, NoAdjustment, Zenon
  <2> QED
    BY <1>3, <2>2, Zenon
<1>10. /\ SettledOf(order', a) = SettledOf(order, a)
       /\ \A o \in SettledOf(order, a) : order'[o].grant = order[o].grant
  BY DEF SettledOf
<1>11. GrantSum(order', SettledOf(order', a)) = GrantSum(order, SettledOf(order, a))
  BY <1>10, RangesFinite, GrantSumSame
<1>12. CASE a = WalletOf(r)
  <2>1. ReturnedOf(refunds', a) = ReturnedOf(refunds, a) \cup {new}
    BY <1>1, <1>5, <1>12 DEF ReturnedOf
  <2>2. /\ new \notin ReturnedOf(refunds, a)
        /\ \A f \in ReturnedOf(refunds, a) \cup {new} : f.wallet \in Int
    BY <1>1, <1>5, TermsTyped DEF ReturnedOf
  <2>3. WalletSum(ReturnedOf(refunds, a) \cup {new}) = WalletSum(ReturnedOf(refunds, a)) + new.wallet
    BY <2>2, RangesFinite, WalletSumMore
  <2>4. PICK w \in Nat : w = r.wallet
    BY <1>1
  <2>5. balance'[a] = balance[a] - w
    BY <1>7, <1>8, <1>12, <2>4
  <2>6. WalletSum(ReturnedOf(refunds', a)) = WalletSum(ReturnedOf(refunds, a)) + w
    BY <1>5, <2>1, <2>3, <2>4
  <2> QED BY <1>5, <1>7, <1>9, <1>11, <2>5, <2>6, SumsTyped DEF Explains
<1>13. CASE a # WalletOf(r)
  <2>1. ReturnedOf(refunds', a) = ReturnedOf(refunds, a)
    BY <1>1, <1>5, <1>13 DEF ReturnedOf
  <2> QED BY <1>5, <1>7, <1>8, <1>9, <1>11, <1>13, <2>1 DEF Explains
<1> QED BY <1>12, <1>13

\* PurchaseMembership: one purchase more of the account.
LEMMA BuyExplained ==
  ASSUME TypeOK, Finite, WalletExplained, NEW r \in Request, r.kind = "purchase", Buy(r),
         \A t \in ledger : t.key # LedgerKey(r)
  PROVE  WalletExplained' /\ Finite'
<1>1. r.account \in Account /\ WalletOf(r) = r.account
  BY RequestKinds DEF WalletOf
<1>2. PICK posting : posting = [key |-> LedgerKey(r), account |-> WalletOf(r), amount |-> -Price]
  OBVIOUS
<1>3. ledger' = ledger \cup {posting} /\ posting.key[1] = "purchase"
  <2>1. ledger' = ledger \cup {posting} /\ posting.key = LedgerKey(r)
    BY <1>2, PostAdds DEF Buy
  <2>2. LedgerKey(r) = <<"purchase", r.account, r.key>>
    BY DEF LedgerKey
  <2> QED BY <2>1, <2>2, KeysApart
<1>4. PICK new : new = [account |-> r.account, key |-> r.key]
  OBVIOUS
<1>5. /\ UNCHANGED <<order, refunds>> /\ purchases' = purchases \cup {new} /\ new \notin purchases
      /\ new.account = r.account /\ Post(r, -Price)
  BY <1>4 DEF Buy
<1>6. Finite'
  BY <1>3, <1>5, FS_AddElement DEF Finite
<1> SUFFICES ASSUME NEW a \in Account
             PROVE  Explains(a, balance'[a], order', refunds', purchases', ledger')
  BY <1>6, ExplainedNextIs
<1>7. Explains(a, balance[a], order, refunds, purchases, ledger) /\ balance[a] \in Int /\ Price \in Nat
  BY ExplainedIs, CommerceAssumption DEF TypeOK
<1>8. balance'[a] = IF a = WalletOf(r) THEN balance[a] + (-Price) ELSE balance[a]
  <2>1. PICK n \in Int : n = -Price
    BY <1>7
  <2> QED BY <1>5, <2>1, PostMoves
<1>9. AdjustedOf(ledger', a) = AdjustedOf(ledger, a)
  <2>1. posting.key[1] # "adjust"
    BY <1>3
  <2>2. AdjustedOf(ledger \cup {posting}, a) = AdjustedOf(ledger, a)
    BY <2>1, NoAdjustment, Zenon
  <2> QED
    BY <1>3, <2>2, Zenon
<1>10. CASE a = WalletOf(r)
  <2>1. BoughtOf(purchases', a) = BoughtOf(purchases, a) \cup {new} /\ new \notin BoughtOf(purchases, a)
    BY <1>1, <1>5, <1>10 DEF BoughtOf
  <2>2. PICK n \in Nat : n = Cardinality(BoughtOf(purchases, a))
    BY SumsTyped
  <2>3. Cardinality(BoughtOf(purchases', a)) = n + 1
    BY <2>1, <2>2, RangesFinite, FS_AddElement
  <2>4. Price * (n + 1) = Price * n + Price /\ Price * n \in Int
    BY <1>7
  <2> QED BY <1>5, <1>7, <1>8, <1>9, <1>10, <2>2, <2>3, <2>4, SumsTyped DEF Explains
<1>11. CASE a # WalletOf(r)
  <2>1. BoughtOf(purchases', a) = BoughtOf(purchases, a)
    BY <1>1, <1>5, <1>11 DEF BoughtOf
  <2> QED BY <1>5, <1>7, <1>8, <1>9, <1>11, <2>1 DEF Explains
<1> QED BY <1>10, <1>11

\* AdjustWallet: one adjustment more of the account.
LEMMA AdjustExplained ==
  ASSUME TypeOK, Finite, WalletExplained, NEW r \in Request, r.kind = "adjust", Adjust(r)
  PROVE  WalletExplained' /\ Finite'
<1>1. r.account \in Account /\ WalletOf(r) = r.account /\ r.amount \in Int
  BY RequestKinds, CommerceAssumption DEF WalletOf
<1>2. UNCHANGED <<order, refunds, purchases>> /\ Post(r, r.amount)
  BY DEF Adjust
<1>3. CASE UNCHANGED <<ledger, balance>>
  BY <1>2, <1>3, QuietExplained
<1>4. CASE \A t \in ledger : t.key # LedgerKey(r)
  <2>1. PICK posting : posting = [key |-> LedgerKey(r), account |-> WalletOf(r), amount |-> r.amount]
    OBVIOUS
  <2>2. ledger' = ledger \cup {posting} /\ posting.key = LedgerKey(r)
    BY <1>2, <1>4, <2>1, PostAdds
  <2>3. posting.key[1] = "adjust" /\ posting.account = r.account /\ posting.amount = r.amount /\ posting \notin ledger
    <3>1. LedgerKey(r) = <<"adjust", r.account, r.key>>
      BY DEF LedgerKey
    <3>2. LedgerKey(r)[1] = "adjust"
      BY <3>1, KeysApart
    <3> QED BY <1>1, <1>4, <2>1, <2>2, <3>2
  <2>4. Finite'
    BY <1>2, <2>2, FS_AddElement DEF Finite
  <2> SUFFICES ASSUME NEW a \in Account
               PROVE  Explains(a, balance'[a], order', refunds', purchases', ledger')
    BY <2>4, ExplainedNextIs
  <2>5. Explains(a, balance[a], order, refunds, purchases, ledger) /\ balance[a] \in Int
    BY ExplainedIs DEF TypeOK
  <2>6. balance'[a] = IF a = WalletOf(r) THEN balance[a] + r.amount ELSE balance[a]
    BY <1>1, <1>2, <1>4, PostMoves
  <2>7. CASE a = WalletOf(r)
    <3>1. AdjustedOf(ledger', a) = AdjustedOf(ledger, a) \cup {posting} /\ posting \notin AdjustedOf(ledger, a)
      BY <1>1, <2>2, <2>3, <2>7 DEF AdjustedOf
    <3>2. \A t \in AdjustedOf(ledger, a) \cup {posting} : t.amount \in Int
      BY <1>1, <2>3, TermsTyped DEF AdjustedOf
    <3>3. AmountSum(AdjustedOf(ledger, a) \cup {posting}) = AmountSum(AdjustedOf(ledger, a)) + posting.amount
      BY <3>1, <3>2, RangesFinite, AmountSumMore
    <3> QED BY <1>1, <1>2, <2>3, <2>5, <2>6, <2>7, <3>1, <3>3, SumsTyped DEF Explains
  <2>8. CASE a # WalletOf(r)
    <3>1. AdjustedOf(ledger', a) = AdjustedOf(ledger, a)
      BY <1>1, <2>2, <2>3, <2>8 DEF AdjustedOf
    <3> QED BY <1>2, <2>5, <2>6, <2>8, <3>1 DEF Explains
  <2> QED BY <2>7, <2>8
<1> QED BY <1>2, <1>3, <1>4 DEF Post

\* Whatever a transaction does, the balances stay explained.
LEMMA ExplainedStep ==
  ASSUME TypeOK, Requested, OrderChecked, PostingsMatch, Finite, WalletExplained, [Next]_vars
  PROVE  WalletExplained' /\ Finite'
<1>1. ASSUME NEW o \in Order, CreateRechargeOrder(o) \/ OrderExpires(o) PROVE WalletExplained' /\ Finite'
  <2>1. UNCHANGED <<refunds, purchases, ledger, balance>>
    BY <1>1 DEF CreateRechargeOrder, OrderExpires
  <2>2. \A p \in Order : /\ order[p].status \in Settled <=> order'[p].status \in Settled
                         /\ order[p].status \in Settled => order'[p].grant = order[p].grant
    BY <1>1, OrderBegins DEF Settled
  <2> QED BY <2>1, <2>2, QuietExplained
<1>2. ASSUME NEW s \in Session, NEW r \in Request, Begin(s, r) PROVE WalletExplained' /\ Finite'
  BY <1>2, QuietExplained DEF Begin
<1>3. ASSUME NEW s \in Session, LockOrder(s) \/ LockWallet(s) \/ RollBack(s)
      PROVE  WalletExplained' /\ Finite'
  BY <1>3, SessionMoves, QuietExplained
<1>4. ASSUME NEW s \in Session, Commit(s) PROVE WalletExplained' /\ Finite'
  <2>1. PICK r \in Request : r = session[s].request
    BY <1>4, OrderWrites
  <2>2. CASE /\ r.kind = "confirm" /\ Pay(r)
             /\ order'[r.order].status = "paid" /\ order'[r.order].grant = order[r.order].grant
             /\ \A o \in Order \ {r.order} : order'[o] = order[o]
    <3>1. order[r.order].status \notin Settled
      BY <1>4, <2>1, <2>2, OrderWrites DEF OrderChecked, Settled
    <3> QED BY <2>2, <3>1, FreshKey, PayExplained
  <2>3. CASE /\ r.kind = "refund" /\ GiveBack(r)
             /\ order'[r.order].status \in {"partially_refunded", "refunded"}
             /\ order'[r.order].grant = order[r.order].grant
             /\ \A o \in Order \ {r.order} : order'[o] = order[o]
    <3>1. order[r.order].status \in Settled
      BY <1>4, <2>1, <2>3, OrderWrites DEF OrderChecked, Settled
    <3>2. \A o \in Order : /\ order[o].status \in Settled <=> order'[o].status \in Settled
                           /\ order'[o].grant = order[o].grant
      BY <2>3, <3>1 DEF Settled
    <3> QED BY <2>3, <3>2, FreshKey, RefundExplained
  <2>4. CASE r.kind = "purchase" /\ Buy(r)
    BY <2>4, FreshKey, BuyExplained
  <2>5. CASE r.kind = "adjust" /\ Adjust(r)
    BY <2>5, AdjustExplained
  <2> QED BY <1>4, <2>1, <2>2, <2>3, <2>4, <2>5, OrderWrites
<1>5. CASE UNCHANGED vars
  BY <1>5, QuietExplained DEF vars
<1> QED BY <1>1, <1>2, <1>3, <1>4, <1>5 DEF Next

-----------------------------------------------------------------------------
(* Refunds. *)

\* What an order is refunded, in points and in money.
Points(fs, o) == WalletSum(RefundsOf(fs, o))
Money(fs, o) == ExternalSum(RefundsOf(fs, o))

\* Nothing is given back of an order that is not paid, and orders have a price.
RefundsOfPaid ==
    /\ \A f \in refunds : order[f.order].status \in {"partially_refunded", "refunded"}
    /\ \A o \in Order : order[o].status # "absent" => order[o].price > 0

\* What a refund found to be left of the order it has locked is still left.
RefundChecked ==
    \A s \in Session :
        session[s].phase \in {"wallet", "commit"} /\ session[s].request.kind = "refund" =>
            LET r == session[s].request
            IN  /\ Points(refunds, r.order) + r.wallet <= order[r.order].grant
                /\ Money(refunds, r.order) + r.external <= order[r.order].price

\* RefundsWithinOrder, in values.
Within(bill, points, money) ==
    /\ points <= bill.grant /\ money <= bill.price
    /\ bill.status = "refunded" <=> bill.status # "absent" /\ points = bill.grant /\ money = bill.price
    /\ bill.status = "partially_refunded" <=> points > 0 /\ bill.status # "refunded"

LEMMA WithinIs == RefundsWithinOrder <=> \A o \in Order : Within(order[o], Points(refunds, o), Money(refunds, o))
BY UsedIs DEF RefundsWithinOrder, Within, Points, Money

LEMMA WithinNextIs ==
  RefundsWithinOrder' <=> \A o \in Order : Within(order'[o], Points(refunds', o), Money(refunds', o))
<1>1. RefundsWithinOrder' <=> (\A o \in Order : Within(order[o], Points(refunds, o), Money(refunds, o)))'
  BY WithinIs, PTL
<1> QED BY <1>1

RefundsRight == RefundsWithinOrder /\ RefundsOfPaid /\ RefundChecked

\* What is given back are numbers, and none before the first refund.
LEMMA GivenTyped ==
  ASSUME TypeOK, Finite, NEW o
  PROVE  /\ Points(refunds, o) \in Nat /\ Money(refunds, o) \in Nat
         /\ (\A f \in refunds : f.order # o) => Points(refunds, o) = 0 /\ Money(refunds, o) = 0
<1>1. \A f \in RefundsOf(refunds, o) : f.wallet \in Nat /\ f.external \in Nat
  BY TermsTyped DEF RefundsOf
<1>2. Points(refunds, o) \in Nat /\ Money(refunds, o) \in Nat
  BY <1>1, RangesFinite, WalletSumType, ExternalSumType DEF Points, Money
<1>3. ASSUME \A f \in refunds : f.order # o PROVE Points(refunds, o) = 0 /\ Money(refunds, o) = 0
  <2>1. RefundsOf(refunds, o) = {}
    BY <1>3 DEF RefundsOf
  <2> QED BY <2>1, NoSum DEF Points, Money
<1> QED BY <1>2, <1>3

\* How the steps move orders and refunds.
LEMMA RowMoves ==
  ASSUME TypeOK, Requested, OrderChecked, [Next]_vars
  PROVE  \/ /\ UNCHANGED refunds
            /\ \A o \in Order :
                 \/ /\ order'[o].status = order[o].status
                    /\ order'[o].price = order[o].price /\ order'[o].grant = order[o].grant
                 \/ /\ order[o].status = "absent" /\ order'[o].status = "pending"
                    /\ order'[o].price \in Nat \ {0} /\ order'[o].grant \in Nat
                 \/ /\ order[o].status = "pending" /\ order'[o].status = "paid"
                    /\ order'[o].price = order[o].price /\ order'[o].grant = order[o].grant
         \/ \E s \in Session : Commit(s) /\ session[s].request.kind = "refund" /\ GiveBack(session[s].request)
<1>1. ASSUME NEW o \in Order, CreateRechargeOrder(o) PROVE
        /\ UNCHANGED refunds /\ (\A p \in Order \ {o} : order'[p] = order[p])
        /\ order[o].status = "absent" /\ order'[o].status = "pending"
        /\ order'[o].price \in Nat \ {0} /\ order'[o].grant \in Nat
  BY <1>1, CommerceAssumption DEF CreateRechargeOrder, TypeOK
<1>2. ASSUME NEW o \in Order, OrderExpires(o) PROVE
        /\ UNCHANGED refunds
        /\ \A p \in Order : /\ order'[p].status = order[p].status
                            /\ order'[p].price = order[p].price /\ order'[p].grant = order[p].grant
  BY <1>2, OrderBegins DEF OrderExpires, TypeOK
<1>3. ASSUME NEW s \in Session, NEW r \in Request, Begin(s, r) PROVE UNCHANGED <<order, refunds>>
  BY <1>3 DEF Begin
<1>4. ASSUME NEW s \in Session, LockOrder(s) \/ LockWallet(s) \/ RollBack(s) PROVE UNCHANGED <<order, refunds>>
  BY <1>4, SessionMoves
<1>5. ASSUME NEW s \in Session, Commit(s), session[s].request.kind = "confirm", Pay(session[s].request) PROVE
        /\ UNCHANGED refunds
        /\ \A o \in Order :
             \/ order'[o] = order[o]
             \/ /\ order[o].status = "pending" /\ order'[o].status = "paid"
                /\ order'[o].price = order[o].price /\ order'[o].grant = order[o].grant
  <2>1. PICK r : r = session[s].request
    OBVIOUS
  <2>2. order[r.order].status = "pending" /\ session[s].phase = "commit"
    BY <1>5, <2>1, OrderWrites DEF OrderChecked
  <2>3. UNCHANGED refunds
    BY <1>5 DEF Pay
  <2>4. /\ order'[r.order].status = "paid" /\ order'[r.order].price = order[r.order].price
        /\ order'[r.order].grant = order[r.order].grant
        /\ \A o \in Order \ {r.order} : order'[o] = order[o]
    BY <1>5, <2>1, OrderWrites
  <2> QED BY <2>2, <2>3, <2>4
<1>6. ASSUME NEW s \in Session, Commit(s), Buy(session[s].request) \/ Adjust(session[s].request)
      PROVE  UNCHANGED <<order, refunds>>
  BY <1>6 DEF Buy, Adjust
<1>7. CASE UNCHANGED vars
  BY <1>7 DEF vars
<1>8. ASSUME NEW s \in Session, Commit(s) PROVE
        \/ session[s].request.kind = "confirm" /\ Pay(session[s].request)
        \/ session[s].request.kind = "refund" /\ GiveBack(session[s].request)
        \/ Buy(session[s].request) \/ Adjust(session[s].request)
  BY <1>8 DEF Commit
<1> QED BY <1>1, <1>2, <1>3, <1>4, <1>5, <1>6, <1>7, <1>8 DEF Next

\* A refund that waits or commits has its order locked, and the row stays as it was.
LEMMA LockedStays ==
  ASSUME TypeOK, Requested, OrderChecked, OrdersApart, [Next]_vars, RefundChecked,
         NEW s \in Session, session'[s].phase \in {"wallet", "commit"}, session'[s].request.kind = "refund",
         UNCHANGED refunds,
         \A o \in Order : order[o].status \in {"paid", "partially_refunded"} =>
             order'[o].price = order[o].price /\ order'[o].grant = order[o].grant
  PROVE  LET r == session'[s].request
         IN  /\ Points(refunds', r.order) + r.wallet <= order'[r.order].grant
             /\ Money(refunds', r.order) + r.external <= order'[r.order].price
<1>1. PICK r : r = session'[s].request
  OBVIOUS
<1>2. CASE session'[s] = session[s]
  <2>1. r.order \in Order /\ order[r.order].status \in {"paid", "partially_refunded"}
    BY <1>1, <1>2, RequestKinds DEF Requested, OrderChecked
  <2> QED BY <1>1, <1>2, <2>1 DEF RefundChecked
<1>3. CASE session'[s] # session[s]
  <2>1. LockOrder(s) \/ LockWallet(s)
    <3>1. ASSUME NEW t \in Session, Commit(t) \/ RollBack(t) PROVE FALSE
      <4>1. session'[t].phase = "idle" /\ \A u \in Session \ {t} : session'[u] = session[u]
        BY <3>1 DEF Commit, RollBack, Ends, Idle, TypeOK
      <4> QED BY <1>3, <4>1
    <3>2. ASSUME NEW t \in Session, NEW q \in Request, Begin(t, q) PROVE FALSE
      BY <1>3, <3>2, BeginMoves
    <3>3. ASSUME NEW t \in Session, LockOrder(t) \/ LockWallet(t) PROVE t = s
      BY <1>3, <3>3, SessionMoves
    <3>4. ASSUME NEW o \in Order, CreateRechargeOrder(o) \/ OrderExpires(o) PROVE FALSE
      BY <1>3, <3>4, OrderBegins
    <3>5. CASE UNCHANGED vars
      BY <1>3, <3>5 DEF vars
    <3> QED BY <3>1, <3>2, <3>3, <3>4, <3>5 DEF Next
  <2>2. UNCHANGED order /\ r \in Request /\ r = session[s].request
        /\ (Acceptable(r) \/ session[s].phase = "wallet")
    BY <1>1, <2>1, SessionMoves
  <2>3. CASE Acceptable(r)
    BY <1>1, <2>2, <2>3, UsedIs DEF Acceptable, Refundable, Points, Money
  <2>4. CASE session[s].phase = "wallet"
    BY <1>1, <2>2, <2>4 DEF RefundChecked
  <2> QED BY <2>2, <2>3, <2>4
<1> QED BY <1>2, <1>3

\* Steps that give nothing back.
LEMMA QuietRefunds ==
  ASSUME TypeOK, Requested, OrderChecked, OrdersApart, Finite, RefundsRight, [Next]_vars,
         UNCHANGED refunds,
         \A o \in Order :
             \/ /\ order'[o].status = order[o].status
                /\ order'[o].price = order[o].price /\ order'[o].grant = order[o].grant
             \/ /\ order[o].status = "absent" /\ order'[o].status = "pending"
                /\ order'[o].price \in Nat \ {0} /\ order'[o].grant \in Nat
             \/ /\ order[o].status = "pending" /\ order'[o].status = "paid"
                /\ order'[o].price = order[o].price /\ order'[o].grant = order[o].grant
  PROVE  RefundsRight'
<1>1. \A f \in refunds : f.order \in Order
  BY DEF TypeOK, Refund
<1>2. RefundsOfPaid'
  BY <1>1, TermsTyped DEF RefundsRight, RefundsOfPaid
<1>3. RefundsWithinOrder'
  <2> SUFFICES ASSUME NEW o \in Order PROVE Within(order'[o], Points(refunds, o), Money(refunds, o))
    BY WithinNextIs
  <2>1. Within(order[o], Points(refunds, o), Money(refunds, o))
    BY WithinIs DEF RefundsRight
  <2>2. CASE /\ order'[o].status = order[o].status
             /\ order'[o].price = order[o].price /\ order'[o].grant = order[o].grant
    BY <2>1, <2>2 DEF Within
  <2>3. CASE order[o].status \in {"absent", "pending"} /\ order'[o].status \in {"pending", "paid"}
               /\ order'[o].price \in Nat \ {0} /\ order'[o].grant \in Nat
    <3>1. \A f \in refunds : f.order # o
      BY <2>3 DEF RefundsRight, RefundsOfPaid
    <3>2. Points(refunds, o) = 0 /\ Money(refunds, o) = 0
      BY <3>1, GivenTyped
    <3> QED BY <2>3, <3>2 DEF Within
  <2>4. order[o].status = "pending" => order[o].price \in Nat \ {0} /\ order[o].grant \in Nat
    BY TermsTyped DEF RefundsRight, RefundsOfPaid
  <2> QED BY <2>2, <2>3, <2>4
<1>4. \A o \in Order : order[o].status \in {"paid", "partially_refunded"} =>
             order'[o].price = order[o].price /\ order'[o].grant = order[o].grant
  OBVIOUS
<1>5. RefundChecked'
  BY <1>4, LockedStays DEF RefundsRight, RefundChecked
<1> QED BY <1>2, <1>3, <1>5 DEF RefundsRight

\* RefundRecharge commits.
LEMMA GivesBack ==
  ASSUME TypeOK, Requested, OrderChecked, OrdersApart, Finite, RefundsRight,
         NEW s \in Session, Commit(s), session[s].request.kind = "refund", GiveBack(session[s].request)
  PROVE  RefundsRight'
<1>1. PICK r \in Request : r = session[s].request
  BY OrderWrites
<1>2. /\ r.order \in Order /\ r.wallet \in Nat \ {0} /\ r.external \in Nat \ {0} /\ r.kind = "refund"
      /\ session[s].phase = "commit" /\ session'[s].phase = "idle"
      /\ \A t \in Session \ {s} : session'[t] = session[t]
  BY <1>1, RequestKinds, CommerceAssumption, OrderWrites
<1>3. PICK new : new = [order |-> r.order, key |-> r.key, wallet |-> r.wallet, external |-> r.external]
  OBVIOUS
<1>4. /\ refunds' = refunds \cup {new} /\ new \notin refunds
      /\ new.order = r.order /\ new.wallet = r.wallet /\ new.external = r.external
  BY <1>1, <1>3 DEF GiveBack
<1>5. PICK p \in Nat : p = Points(refunds, r.order)
  BY GivenTyped
<1>6. PICK m \in Nat : m = Money(refunds, r.order)
  BY GivenTyped
<1>7. PICK bill : bill = order[r.order]
  OBVIOUS
<1>8. /\ bill.grant \in Nat /\ bill.price \in Nat /\ bill.status \in {"paid", "partially_refunded"}
      /\ p + r.wallet <= bill.grant /\ m + r.external <= bill.price
  BY <1>1, <1>2, <1>5, <1>6, <1>7, TermsTyped DEF OrderChecked, RefundsRight, RefundChecked
<1>9. /\ \A o \in Order \ {r.order} : order'[o] = order[o]
      /\ order'[r.order].price = bill.price /\ order'[r.order].grant = bill.grant
      /\ order'[r.order].status = IF p + r.wallet = bill.grant /\ m + r.external = bill.price
                                  THEN "refunded" ELSE "partially_refunded"
  <2>1. UsedWallet(r.order) = p /\ UsedExternal(r.order) = m
    BY <1>5, <1>6, UsedIs DEF Points, Money
  <2>2. PICK status : status = IF p + r.wallet = bill.grant /\ m + r.external = bill.price
                               THEN "refunded" ELSE "partially_refunded"
    OBVIOUS
  <2>3. order' = [order EXCEPT ![r.order].status = status]
    BY <1>1, <1>7, <2>1, <2>2 DEF GiveBack
  <2> QED BY <1>2, <1>7, <2>2, <2>3 DEF TypeOK
<1>10. \A o \in Order \ {r.order} : Points(refunds', o) = Points(refunds, o) /\ Money(refunds', o) = Money(refunds, o)
  <2>1. \A o \in Order \ {r.order} : RefundsOf(refunds', o) = RefundsOf(refunds, o)
    BY <1>4 DEF RefundsOf
  <2> QED BY <2>1 DEF Points, Money
<1>11. Points(refunds', r.order) = p + r.wallet /\ Money(refunds', r.order) = m + r.external
  <2>1. RefundsOf(refunds', r.order) = RefundsOf(refunds, r.order) \cup {new} /\ new \notin RefundsOf(refunds, r.order)
    BY <1>4 DEF RefundsOf
  <2>2. \A f \in RefundsOf(refunds, r.order) \cup {new} : f.wallet \in Int /\ f.external \in Int
    BY <1>2, <1>4, TermsTyped DEF RefundsOf
  <2>3. WalletSum(RefundsOf(refunds, r.order) \cup {new}) = WalletSum(RefundsOf(refunds, r.order)) + new.wallet
    BY <2>1, <2>2, RangesFinite, WalletSumMore
  <2>4. ExternalSum(RefundsOf(refunds, r.order) \cup {new}) = ExternalSum(RefundsOf(refunds, r.order)) + new.external
    BY <2>1, <2>2, RangesFinite, ExternalSumMore
  <2> QED BY <1>4, <1>5, <1>6, <2>1, <2>3, <2>4 DEF Points, Money
<1>12. RefundsWithinOrder'
  <2> SUFFICES ASSUME NEW o \in Order PROVE Within(order'[o], Points(refunds', o), Money(refunds', o))
    BY WithinNextIs
  <2>1. CASE o # r.order
    BY <1>9, <1>10, <2>1, WithinIs DEF RefundsRight
  <2>2. CASE o = r.order
    BY <1>2, <1>8, <1>9, <1>11, <2>2 DEF Within
  <2> QED BY <2>1, <2>2
<1>13. RefundsOfPaid'
  <2>1. \A f \in refunds : f.order \in Order
    BY DEF TypeOK, Refund
  <2>2. \A o \in Order : order'[o].status # "absent" => order'[o].price > 0
    BY <1>7, <1>8, <1>9 DEF RefundsRight, RefundsOfPaid
  <2>3. \A f \in refunds' : order'[f.order].status \in {"partially_refunded", "refunded"}
    BY <1>4, <1>9, <2>1 DEF RefundsRight, RefundsOfPaid
  <2> QED BY <2>2, <2>3 DEF RefundsOfPaid
<1>14. RefundChecked'
  <2> SUFFICES ASSUME NEW t \in Session, session'[t].phase \in {"wallet", "commit"}, session'[t].request.kind = "refund",
                      NEW q, q = session'[t].request
               PROVE  /\ Points(refunds', q.order) + q.wallet <= order'[q.order].grant
                      /\ Money(refunds', q.order) + q.external <= order'[q.order].price
    BY DEF RefundChecked
  <2>1. t # s /\ q = session[t].request /\ session'[t] = session[t] /\ q.order \in Order
    BY <1>2, RequestKinds DEF Requested
  <2>2. q.order # r.order
    BY <1>1, <1>2, <2>1 DEF OrdersApart, LocksOrder
  <2> QED BY <1>9, <1>10, <2>1, <2>2 DEF RefundsRight, RefundChecked
<1> QED BY <1>12, <1>13, <1>14 DEF RefundsRight

LEMMA RefundsStep ==
  ASSUME TypeOK, Requested, OrderChecked, OrdersApart, Finite, RefundsRight, [Next]_vars
  PROVE  RefundsRight'
<1>1. ASSUME NEW s \in Session, Commit(s), session[s].request.kind = "refund", GiveBack(session[s].request)
      PROVE  RefundsRight'
  BY <1>1, GivesBack
<1> QED BY <1>1, RowMoves, QuietRefunds

-----------------------------------------------------------------------------
(* All books together. *)

\* Nothing is booked at the start.
LEMMA BooksBegin == Init => Finite /\ WalletExplained /\ RefundsRight
<1> SUFFICES ASSUME Init PROVE Finite /\ WalletExplained /\ RefundsRight
  OBVIOUS
<1>1. /\ refunds = {} /\ purchases = {} /\ ledger = {} /\ balance = [a \in Account |-> 0]
      /\ \A o \in Order : order[o].status = "absent" /\ order[o].price = 0 /\ order[o].grant = 0
      /\ \A s \in Session : session[s].phase = "idle"
  BY DEF Init, Idle
<1>2. Finite
  <2>1. {o \in Order : order[o].status \in Settled} = {}
    BY <1>1 DEF Settled
  <2> QED BY <1>1, <2>1, FS_EmptySet DEF Finite
<1>3. WalletExplained
  <2> SUFFICES ASSUME NEW a \in Account PROVE Explains(a, balance[a], order, refunds, purchases, ledger)
    BY ExplainedIs
  <2>1. SettledOf(order, a) = {} /\ ReturnedOf(refunds, a) = {} /\ BoughtOf(purchases, a) = {}
        /\ AdjustedOf(ledger, a) = {}
    BY <1>1 DEF SettledOf, ReturnedOf, BoughtOf, AdjustedOf, Settled
  <2>2. Cardinality(BoughtOf(purchases, a)) = 0 /\ Price * 0 = 0
    BY <2>1, FS_EmptySet, CommerceAssumption
  <2> QED BY <1>1, <2>1, <2>2, NoSum DEF Explains
<1>4. RefundsWithinOrder
  <2> SUFFICES ASSUME NEW o \in Order PROVE Within(order[o], Points(refunds, o), Money(refunds, o))
    BY WithinIs
  <2>1. Points(refunds, o) = 0 /\ Money(refunds, o) = 0
    <3>1. RefundsOf(refunds, o) = {}
      BY <1>1 DEF RefundsOf
    <3> QED BY <3>1, NoSum DEF Points, Money
  <2> QED BY <1>1, <2>1 DEF Within
<1>5. RefundsOfPaid /\ RefundChecked
  BY <1>1 DEF RefundsOfPaid, RefundChecked
<1> QED BY <1>2, <1>3, <1>4, <1>5 DEF RefundsRight

\* ConfirmRecharge, RefundRecharge, PurchaseMembership and AdjustWallet: every balance is
\* the sum of what its orders granted and its adjustments, less refunds and purchases; no
\* order is refunded beyond its points or its price, and its status tells how far it is;
\* callbacks agree with their orders, and each purchase extends once.
THEOREM BooksBalanceHolds == Spec => []BooksBalance
<1>1. Init => Finite /\ WalletExplained /\ RefundsRight
  BY BooksBegin
<1>2. IInv /\ Books /\ Finite /\ WalletExplained /\ RefundsRight /\ [Next]_vars
        => (Finite /\ WalletExplained /\ RefundsRight)'
  <2> SUFFICES ASSUME IInv, Books, Finite, WalletExplained, RefundsRight, [Next]_vars
               PROVE  Finite' /\ WalletExplained' /\ RefundsRight'
    OBVIOUS
  <2>1. TypeOK /\ Requested /\ OrderChecked /\ OrdersApart /\ PostingsMatch
    BY DEF Books
  <2> QED BY <2>1, ExplainedStep, RefundsStep
<1>3. Books /\ WalletExplained /\ RefundsRight => BooksBalance
  BY DEF Books, RefundsRight, PurchasesCounted, BooksBalance
<1> QED
  BY <1>1, <1>2, <1>3, Inductive, BooksHold, PTL DEF Spec

(* Registration in the archived v2. *)

TaskStatus == {"pending", "running", "succeeded", "failed", "canceled"}
SomeTask == [st: TaskStatus, user: User, by: Worker \union {None}, cancel: BOOLEAN,
             lapsed: BOOLEAN, consume: BOOLEAN, over: BOOLEAN]
SomeSub == [user: User, key: TaskKey, code: Code \union {None}, needsCode: BOOLEAN,
            taken: Nat, waiting: Nat, dup: BOOLEAN]
WithAccount == {"setup", "complete", "rollback"}
HandlerPhase == {"check", "create", "report"} \union WithAccount
PickedOne == [phase: {"picked"}, task: TaskKey]
RunningOne == [phase: HandlerPhase, task: TaskKey, id: Id \union {None}]

\* The tables, the submissions and the workers keep to their types.
RegistrationTyped ==
    /\ user \in [User -> [id: Id \union {None}, us: Nat]]
    /\ code \in [Code -> User \union {None}]
    /\ task \in [TaskKey -> {NoTask} \union SomeTask]
    /\ remote \in [Id -> {"unborn", "live", "gone"}]
    /\ worker \in [Worker -> {Resting} \union PickedOne \union RunningOne]
    /\ sub \in [Slot -> {NoSub} \union SomeSub]
    /\ spent \in [User -> Nat] /\ lost \subseteq Id /\ excess \in Nat

\* The task of a worker was not cleaned away, and whoever is past the creation of
\* an account has one.
WorkersPlaced ==
    \A w \in Worker :
        /\ ~Rests(w) => Status(worker[w].task) # "none"
        /\ worker[w].phase \in WithAccount => worker[w].id \in Id

RegistrationSound == RegistrationTyped /\ WorkersPlaced

LEMMA TaskKnown ==
  ASSUME RegistrationTyped, NEW k \in TaskKey
  PROVE  /\ task[k] = NoTask \/ task[k] \in SomeTask
         /\ Status(k) # "none" => task[k] \in SomeTask
         /\ Status(k) \in TaskStatus \union {"none"}
         /\ Status(k) \in TaskStatus <=> task[k] \in SomeTask
         /\ Status(k) = "none" <=> task[k] = NoTask
BY DEF RegistrationTyped, Status, NoTask, SomeTask, TaskStatus

LEMMA WorkerKnown ==
  ASSUME RegistrationSound, NEW w \in Worker
  PROVE  /\ ~Rests(w) => worker[w].task \in TaskKey /\ task[worker[w].task] \in SomeTask
         /\ Rests(w) => worker[w] = Resting
         /\ Running(w) => worker[w] \in RunningOne /\ worker[w].phase \in HandlerPhase
         /\ worker[w].phase = "picked" => worker[w] \in PickedOne
         /\ Running(w) <=> worker[w].phase \in HandlerPhase
         /\ Running(w) => ~Rests(w)
<1>1. worker[w] = Resting \/ worker[w] \in PickedOne \/ worker[w] \in RunningOne
  BY DEF RegistrationSound, RegistrationTyped
<1>2. Resting.phase = "idle"
  BY DEF Resting
<1>3. worker[w] \in PickedOne => worker[w].phase = "picked" /\ worker[w].task \in TaskKey
  BY DEF PickedOne
<1>4. worker[w] \in RunningOne => worker[w].phase \in HandlerPhase /\ worker[w].task \in TaskKey
  BY DEF RunningOne
<1>5. "idle" \notin HandlerPhase /\ "picked" \notin HandlerPhase
  BY DEF HandlerPhase, WithAccount
<1>6. ~Rests(w) => worker[w].task \in TaskKey
  BY <1>1, <1>2, <1>3, <1>4 DEF Rests
<1>7. ~Rests(w) => task[worker[w].task] \in SomeTask
  BY <1>6, TaskKnown DEF RegistrationSound, WorkersPlaced
<1> QED
  BY <1>1, <1>2, <1>3, <1>4, <1>5, <1>6, <1>7 DEF Rests, Running

LEMMA CountsNat ==
  ASSUME RegistrationTyped
  PROVE  /\ IsFiniteSet(Registered) /\ IsFiniteSet(ActiveTasks) /\ IsFiniteSet(Waiting)
         /\ Taken \in Nat /\ Cardinality(Waiting) \in Nat
<1>1. Registered \subseteq User /\ ActiveTasks \subseteq TaskKey /\ Waiting \subseteq TaskKey
  BY DEF Registered, ActiveTasks, Waiting
<1>2. IsFiniteSet(Registered) /\ IsFiniteSet(ActiveTasks) /\ IsFiniteSet(Waiting)
  BY <1>1, FS_Subset, RegistrationAssumption
<1> QED
  BY <1>2, FS_CardinalityType DEF Taken

LEMMA RegistrationInitSound == RegistrationInit => RegistrationSound
<1> SUFFICES ASSUME RegistrationInit PROVE RegistrationSound
  OBVIOUS
<1>1. \A w \in Worker : worker[w] = Resting
  BY DEF RegistrationInit
<1>2. WorkersPlaced
  BY <1>1 DEF WorkersPlaced, Rests, Resting, WithAccount
<1> QED
  BY <1>2 DEF RegistrationSound, RegistrationInit, RegistrationTyped

-----------------------------------------------------------------------------
\* What the steps make of a task.
LEMMA TaskColumns ==
  ASSUME NEW t \in SomeTask
  PROVE  /\ \A st \in TaskStatus : \A c \in BOOLEAN : [t EXCEPT !.st = st, !.cancel = c] \in SomeTask
         /\ \A st \in TaskStatus : \A b \in Worker \union {None} : \A l \in BOOLEAN :
              [t EXCEPT !.st = st, !.by = b, !.lapsed = l] \in SomeTask
         /\ \A l \in BOOLEAN : [t EXCEPT !.lapsed = l] \in SomeTask
         /\ \A b \in Worker \union {None} : [t EXCEPT !.by = b] \in SomeTask
BY DEF SomeTask

\* Giving a task up leaves what it is for; it ends, and is marked as such.
LEMMA RecoveredRight ==
  ASSUME RegistrationTyped, NEW k \in TaskKey
  PROVE  /\ Recovered(k) \in {NoTask} \union SomeTask
         /\ Recovered(k) # task[k] =>
              /\ Status(k) = "running" /\ Recovered(k).st \in {"failed", "canceled"}
              /\ task[k] \in SomeTask /\ Recovered(k) \in SomeTask
              /\ Recovered(k).over /\ Recovered(k).user = task[k].user
<1> USE TaskKnown
<1>1. CASE task[k].st = "running" /\ task[k].lapsed
  <2>1. task[k] \in SomeTask
    BY <1>1 DEF Status
  <2>2. PICK st \in {"failed", "canceled"} :
          Recovered(k) = [task[k] EXCEPT !.by = None, !.lapsed = FALSE, !.over = TRUE, !.st = st]
    BY <1>1 DEF Recovered
  <2>3. Recovered(k) \in SomeTask /\ Recovered(k).st = st /\ Recovered(k).over
        /\ Recovered(k).user = task[k].user
    BY <2>1, <2>2 DEF SomeTask, TaskStatus
  <2> QED
    BY <1>1, <2>1, <2>3 DEF Status
<1>2. CASE ~(task[k].st = "running" /\ task[k].lapsed)
  BY <1>2 DEF Recovered, RegistrationTyped
<1> QED
  BY <1>1, <1>2

-----------------------------------------------------------------------------
\* Submissions and administrators.
LEMMA SubmissionsSound ==
  ASSUME RegistrationSound,
         \/ \E u \in User, k \in TaskKey : CreateUser(u, k) \/ SubmitRegistration(u, k)
         \/ \E s \in Slot : SubmitReturns(s)
         \/ \E u \in User, c \in Code : RedeemBefore(u, c)
  PROVE  RegistrationSound'
<1>1. ASSUME NEW u \in User, NEW k \in TaskKey, SubmitBegins(u, k) PROVE RegistrationSound'
  <2>1. UNCHANGED <<user, code, task, remote, worker, spent, lost, excess>>
    BY <1>1 DEF SubmitBegins
  <2>2. PICK s \in Slot, c \in Code \union {None}, needsCode \in BOOLEAN :
          sub' = [sub EXCEPT ![s] = [user |-> u, key |-> k, code |-> c, needsCode |-> needsCode,
                                     taken |-> Taken, waiting |-> Cardinality(Waiting),
                                     dup |-> ActiveOf(u) # {}]]
    BY <1>1 DEF SubmitBegins
  <2>3. [user |-> u, key |-> k, code |-> c, needsCode |-> needsCode, taken |-> Taken,
         waiting |-> Cardinality(Waiting), dup |-> ActiveOf(u) # {}] \in SomeSub
    BY <2>2, CountsNat DEF RegistrationSound, SomeSub
  <2>4. sub' \in [Slot -> {NoSub} \union SomeSub]
    BY <2>2, <2>3 DEF RegistrationSound, RegistrationTyped
  <2> QED
    BY <2>1, <2>4 DEF RegistrationSound, RegistrationTyped, WorkersPlaced, Rests, Status
<1>2. ASSUME NEW s \in Slot, SubmitReturns(s) PROVE RegistrationSound'
  BY <1>2 DEF SubmitReturns, RegistrationSound, RegistrationTyped, WorkersPlaced, Rests, Status
<1>3. ASSUME NEW u \in User, NEW c \in Code, RedeemBefore(u, c) PROVE RegistrationSound'
  BY <1>3 DEF RedeemBefore, Redeem, RegistrationSound, RegistrationTyped, WorkersPlaced, Rests, Status
<1> QED
  BY <1>1, <1>2, <1>3 DEF CreateUser, SubmitRegistration

\* A submission turns its key into a task, the days of a code into the user's.
LEMMA CommitColumns ==
  ASSUME RegistrationSound, NEW s \in Slot, SubmitCommits(s)
  PROVE  /\ sub[s] \in SomeSub /\ Status(sub[s].key) = "none"
         /\ sub[s].taken < UserLimit /\ user[sub[s].user].id = None
         /\ task' = [task EXCEPT ![sub[s].key] =
                       [st |-> "pending", user |-> sub[s].user, by |-> None, cancel |-> FALSE,
                        lapsed |-> FALSE, consume |-> sub[s].needsCode, over |-> FALSE]]
         /\ \/ UNCHANGED <<user, code>>
            \/ \E c \in Code : Redeem(sub[s].user, c)
         /\ sub' = [sub EXCEPT ![s] = NoSub]
         /\ UNCHANGED <<remote, worker, spent, lost, excess>>
<1>1. sub[s] # NoSub
  BY DEF SubmitCommits
<1>2. sub[s] \in SomeSub
  BY <1>1 DEF RegistrationSound, RegistrationTyped
<1>3. sub[s].code # None => sub[s].code \in Code
  BY <1>2 DEF SomeSub
<1> QED
  BY <1>2, <1>3 DEF SubmitCommits

LEMMA CommitSound ==
  ASSUME RegistrationSound, NEW s \in Slot, SubmitCommits(s)
  PROVE  RegistrationSound'
<1> USE CommitColumns
<1> DEFINE t == [st |-> "pending", user |-> sub[s].user, by |-> None, cancel |-> FALSE,
                 lapsed |-> FALSE, consume |-> sub[s].needsCode, over |-> FALSE]
<1>1. t \in SomeTask /\ sub[s].key \in TaskKey /\ sub[s].user \in User
  BY DEF SomeTask, SomeSub, TaskStatus
<1>2. task' \in [TaskKey -> {NoTask} \union SomeTask]
  BY <1>1 DEF RegistrationSound, RegistrationTyped
<1>3. user' \in [User -> [id: Id \union {None}, us: Nat]] /\ code' \in [Code -> User \union {None}]
  <2>1. CASE UNCHANGED <<user, code>>
    BY <2>1 DEF RegistrationSound, RegistrationTyped
  <2>2. ASSUME NEW c \in Code, Redeem(sub[s].user, c)
        PROVE  user' \in [User -> [id: Id \union {None}, us: Nat]] /\ code' \in [Code -> User \union {None}]
    BY <1>1, <2>2 DEF RegistrationSound, RegistrationTyped, Redeem
  <2> QED
    BY <2>1, <2>2
<1>4. \A k \in TaskKey : task[k].st # "none" => task'[k].st # "none"
  BY <1>1 DEF RegistrationSound, RegistrationTyped
<1>5. WorkersPlaced'
  BY <1>4, WorkerKnown DEF RegistrationSound, WorkersPlaced, Rests, Status
<1>6. excess' \in Nat /\ sub' \in [Slot -> {NoSub} \union SomeSub]
  <2>1. excess \in Nat /\ sub \in [Slot -> {NoSub} \union SomeSub]
    BY DEF RegistrationSound, RegistrationTyped
  <2>2. excess' = excess
    OBVIOUS
  <2>3. sub' = [sub EXCEPT ![s] = NoSub]
    OBVIOUS
  <2> HIDE CommitColumns
  <2> QED
    BY <2>1, <2>2, <2>3
<1> QED
  BY <1>2, <1>3, <1>5, <1>6 DEF RegistrationSound, RegistrationTyped

\* The steps at one task that leave everything else alone.
AtTask(k) == OwnerCancels(k) \/ AdminCancels(k) \/ AdminRetries(k) \/ Cleanup(k) \/ Lapses(k)

\* One task moves on, keeping its user and the mark of a lapsed lease: canceled while
\* it waits, marked while it runs, or waiting again after its end.
TaskMoves(k) ==
    /\ task[k] \in SomeTask /\ task'[k] \in SomeTask
    /\ task'[k].user = task[k].user /\ task'[k].over = task[k].over
    /\ \/ task[k].st = "pending" /\ task'[k].st = "canceled" /\ excess' = excess
       \/ task'[k].st = task[k].st /\ task'[k].by = task[k].by /\ excess' = excess
       \/ task[k].st \in {"failed", "canceled"} /\ task'[k].st = "pending" /\ excess' = excess + 1

LEMMA AtTaskColumns ==
  ASSUME RegistrationSound, NEW k \in TaskKey, AtTask(k)
  PROVE  /\ task' \in [TaskKey -> {NoTask} \union SomeTask]
         /\ \A j \in TaskKey : j # k => task'[j] = task[j]
         /\ UNCHANGED <<user, code, remote, worker, sub, spent, lost>>
         /\ \/ TaskMoves(k)
            \/ /\ task'[k] = NoTask /\ Status(k) \in {"succeeded", "canceled"} /\ excess' = excess
               /\ \A w \in Worker : ~Rests(w) => worker[w].task # k
<1> USE DEF RegistrationSound
<1>0. task \in [TaskKey -> {NoTask} \union SomeTask]
  BY DEF RegistrationTyped
<1>1. CASE OwnerCancels(k)
  <2>1. task[k] \in SomeTask /\ task[k].st = "pending"
    BY <1>1, TaskKnown DEF OwnerCancels, Status
  <2>2. task' = [task EXCEPT ![k] = [task[k] EXCEPT !.st = "canceled", !.cancel = TRUE]]
    BY <1>1 DEF OwnerCancels
  <2>3. TaskMoves(k)
    BY <1>0, <1>1, <2>1, <2>2 DEF OwnerCancels, TaskMoves, SomeTask, TaskStatus
  <2> QED
    BY <1>0, <1>1, <2>2, <2>3 DEF OwnerCancels, TaskMoves
<1>2. CASE AdminCancels(k)
  <2>1. task[k] \in SomeTask /\ task[k].st \in {"pending", "running"}
    BY <1>2, TaskKnown DEF AdminCancels, Active, Status
  <2>2. PICK st \in {"running", "canceled"} :
          /\ task' = [task EXCEPT ![k] = [task[k] EXCEPT !.cancel = TRUE, !.st = st]]
          /\ st = IF task[k].st = "running" THEN "running" ELSE "canceled"
    BY <1>2 DEF AdminCancels
  <2>3. TaskMoves(k)
    <3>1. task'[k] = [task[k] EXCEPT !.cancel = TRUE, !.st = st] /\ excess' = excess
      BY <1>0, <1>2, <2>2 DEF AdminCancels
    <3>2. /\ task'[k] \in SomeTask /\ task'[k].st = st /\ task'[k].by = task[k].by
          /\ task'[k].user = task[k].user /\ task'[k].over = task[k].over
      BY <2>1, <3>1 DEF SomeTask, TaskStatus
    <3> QED
      BY <2>1, <2>2, <3>1, <3>2 DEF TaskMoves
  <2> QED
    BY <1>0, <1>2, <2>2, <2>3 DEF AdminCancels, TaskMoves
<1>3. CASE AdminRetries(k)
  <2>1. task[k] \in SomeTask /\ task[k].st \in {"failed", "canceled"}
    BY <1>3, TaskKnown DEF AdminRetries, Status
  <2>2. task' = [task EXCEPT ![k] = [task[k] EXCEPT !.st = "pending", !.by = None, !.cancel = FALSE, !.lapsed = FALSE]]
    BY <1>3 DEF AdminRetries
  <2>3. TaskMoves(k)
    BY <1>0, <1>3, <2>1, <2>2 DEF AdminRetries, TaskMoves, SomeTask, TaskStatus
  <2> QED
    BY <1>0, <1>3, <2>2, <2>3 DEF AdminRetries, TaskMoves
<1>4. CASE Cleanup(k)
  BY <1>0, <1>4 DEF Cleanup, Status
<1>5. CASE Lapses(k)
  <2>1. task[k] \in SomeTask /\ task[k].st = "running"
    BY <1>5, TaskKnown DEF Lapses, Status
  <2>2. task' = [task EXCEPT ![k] = [task[k] EXCEPT !.lapsed = TRUE]]
    BY <1>5 DEF Lapses
  <2>3. TaskMoves(k)
    <3>1. task'[k] = [task[k] EXCEPT !.lapsed = TRUE] /\ excess' = excess
      BY <1>0, <1>5, <2>2 DEF Lapses
    <3>2. /\ task'[k] \in SomeTask /\ task'[k].st = task[k].st /\ task'[k].by = task[k].by
          /\ task'[k].user = task[k].user /\ task'[k].over = task[k].over
      BY <2>1, <3>1 DEF SomeTask
    <3> QED
      BY <2>1, <3>1, <3>2 DEF TaskMoves
  <2> QED
    BY <1>0, <1>5, <2>2, <2>3 DEF Lapses, TaskMoves
<1> QED
  BY <1>1, <1>2, <1>3, <1>4, <1>5 DEF AtTask

LEMMA AtTaskSound ==
  ASSUME RegistrationSound, NEW k \in TaskKey, AtTask(k)
  PROVE  RegistrationSound'
<1> USE AtTaskColumns
<1>1. excess' \in Nat
  BY DEF RegistrationSound, RegistrationTyped, TaskMoves
<1>2. \A w \in Worker : ~Rests(w) => task'[worker[w].task].st # "none"
  BY WorkerKnown DEF RegistrationSound, WorkersPlaced, Status, TaskMoves, SomeTask, TaskStatus
<1>3. WorkersPlaced'
  BY <1>2 DEF RegistrationSound, WorkersPlaced, Rests, Status
<1> QED
  BY <1>1, <1>3 DEF RegistrationSound, RegistrationTyped

-----------------------------------------------------------------------------
(* The worker. *)

\* A worker gives up every task whose lease has run out, and may then hold its own.
LEMMA ClaimsColumns ==
  ASSUME RegistrationSound, NEW w \in Worker, Claims(w)
  PROVE  /\ task' \in [TaskKey -> {NoTask} \union SomeTask]
         /\ worker[w].phase = "picked" /\ worker[w].task \in TaskKey
         /\ UNCHANGED <<user, code, remote, sub, spent, lost, excess>>
         /\ \A v \in Worker : v # w => worker'[v] = worker[v]
         /\ \A k \in TaskKey : k # worker[w].task => task'[k] = Recovered(k)
         /\ \/ /\ worker'[w] = Resting /\ task'[worker[w].task] = Recovered(worker[w].task)
            \/ /\ worker'[w] = [phase |-> "check", task |-> worker[w].task, id |-> None]
               /\ Status(worker[w].task) = "pending"
               /\ task'[worker[w].task] = [task[worker[w].task] EXCEPT !.st = "running", !.by = w, !.lapsed = FALSE]
               /\ task'[worker[w].task] \in SomeTask
         /\ worker' \in [Worker -> {Resting} \union PickedOne \union RunningOne]
<1> DEFINE k == worker[w].task
<1>1. worker[w].phase = "picked" /\ k \in TaskKey
  BY WorkerKnown DEF Claims, Rests
<1>2. UNCHANGED <<user, code, remote, sub, spent, lost, excess>>
  BY DEF Claims
<1>3. worker \in [Worker -> {Resting} \union PickedOne \union RunningOne]
  BY DEF RegistrationSound, RegistrationTyped
<1>4. [phase |-> "check", task |-> k, id |-> None] \in RunningOne
  BY <1>1 DEF RunningOne, HandlerPhase
<1>5. \A j \in TaskKey : Recovered(j) \in {NoTask} \union SomeTask
  BY RecoveredRight DEF RegistrationSound
<1>6. CASE Claimable(k)
  <2>1. task[k] \in SomeTask /\ Status(k) = "pending"
    BY <1>1, <1>6, TaskKnown DEF Claimable, RegistrationSound, Status
  <2>2. [task[k] EXCEPT !.st = "running", !.by = w, !.lapsed = FALSE] \in SomeTask
    BY <2>1 DEF SomeTask, TaskStatus
  <2>3. worker' = [worker EXCEPT ![w] = [phase |-> "check", task |-> k, id |-> None]]
    BY <1>6 DEF Claims
  <2>4. task' = [j \in TaskKey |-> IF j = k THEN [task[k] EXCEPT !.st = "running", !.by = w, !.lapsed = FALSE]
                                   ELSE Recovered(j)]
    BY <1>6 DEF Claims
  <2> QED
    BY <1>1, <1>2, <1>3, <1>4, <1>5, <2>1, <2>2, <2>3, <2>4
<1>7. CASE ~Claimable(k)
  <2>1. worker' = [worker EXCEPT ![w] = Resting]
    BY <1>7 DEF Claims
  <2>2. task' = [j \in TaskKey |-> Recovered(j)]
    BY <1>7 DEF Claims
  <2> QED
    BY <1>1, <1>2, <1>3, <1>5, <2>1, <2>2
<1> QED
  BY <1>6, <1>7

LEMMA ClaimsSound ==
  ASSUME RegistrationSound, NEW w \in Worker, Claims(w)
  PROVE  RegistrationSound'
<1>a. /\ \A v \in Worker : v # w => worker'[v] = worker[v]
      /\ \/ worker'[w] = Resting
         \/ /\ worker'[w] = [phase |-> "check", task |-> worker[w].task, id |-> None]
            /\ task'[worker[w].task] \in SomeTask
  BY ClaimsColumns
<1>1. \A k \in TaskKey : task[k].st # "none" => task'[k].st # "none"
  <2> SUFFICES ASSUME NEW k \in TaskKey, task[k].st # "none" PROVE task'[k].st # "none"
    OBVIOUS
  <2>1. Recovered(k).st # "none"
    BY RecoveredRight DEF RegistrationSound
  <2>2. task'[k] = Recovered(k) \/ task'[k] \in SomeTask
    BY ClaimsColumns
  <2> QED
    BY <2>1, <2>2 DEF SomeTask, TaskStatus
<1>2. WorkersPlaced'
  <2> SUFFICES ASSUME NEW v \in Worker
               PROVE  /\ ~Rests(v)' => Status(worker[v].task)' # "none"
                      /\ worker'[v].phase \in WithAccount => worker'[v].id \in Id
    BY DEF WorkersPlaced
  <2>1. CASE v # w
    <3>1. worker'[v] = worker[v]
      BY <1>a, <2>1
    <3>2. ~Rests(v) => worker[v].task \in TaskKey /\ task[worker[v].task].st # "none"
      BY WorkerKnown DEF RegistrationSound, WorkersPlaced, Status
    <3>3. worker[v].phase \in WithAccount => worker[v].id \in Id
      BY DEF RegistrationSound, WorkersPlaced
    <3> QED
      BY <1>1, <3>1, <3>2, <3>3 DEF Rests, Status
  <2>2. CASE v = w
    <3>1. CASE worker'[w] = Resting
      BY <2>2, <3>1 DEF Rests, Resting, WithAccount
    <3>2. CASE /\ worker'[w] = [phase |-> "check", task |-> worker[w].task, id |-> None]
               /\ task'[worker[w].task] \in SomeTask
      BY <2>2, <3>2 DEF Rests, Status, WithAccount, SomeTask, TaskStatus
    <3> QED
      BY <1>a, <3>1, <3>2
  <2> QED
    BY <2>1, <2>2
<1> QED
  BY <1>2, ClaimsColumns DEF RegistrationSound, RegistrationTyped

LEMMA RecoversSound ==
  ASSUME RegistrationSound, NEW w \in Worker, Recovers(w)
  PROVE  /\ RegistrationSound'
         /\ \A k \in TaskKey : task'[k] = Recovered(k)
         /\ UNCHANGED <<user, code, remote, worker, sub, spent, lost, excess>>
<1>1. task' = [k \in TaskKey |-> Recovered(k)] /\ UNCHANGED <<user, code, remote, worker, sub, spent, lost, excess>>
  BY DEF Recovers
<1>2. \A k \in TaskKey : Recovered(k) \in {NoTask} \union SomeTask
  BY RecoveredRight DEF RegistrationSound
<1>3. \A k \in TaskKey : task[k].st # "none" => task'[k].st # "none"
  BY <1>1, RecoveredRight DEF RegistrationSound, SomeTask, TaskStatus
<1>4. WorkersPlaced'
  BY <1>1, <1>3, WorkerKnown DEF RegistrationSound, WorkersPlaced, Rests, Status
<1> QED
  BY <1>1, <1>2, <1>4 DEF RegistrationSound, RegistrationTyped

LEMMA PicksSound ==
  ASSUME RegistrationSound, NEW w \in Worker, NEW k \in TaskKey, Picks(w, k)
  PROVE  /\ RegistrationSound'
         /\ worker[w] = Resting /\ worker'[w].phase = "picked"
         /\ \A v \in Worker : v # w => worker'[v] = worker[v]
         /\ UNCHANGED <<user, code, task, remote, sub, spent, lost, excess>>
<1>1. worker' = [worker EXCEPT ![w] = [phase |-> "picked", task |-> k]]
      /\ UNCHANGED <<user, code, task, remote, sub, spent, lost, excess>>
  BY DEF Picks
<1>2. [phase |-> "picked", task |-> k] \in PickedOne
  BY DEF PickedOne
<1>3. worker' \in [Worker -> {Resting} \union PickedOne \union RunningOne]
  BY <1>1, <1>2 DEF RegistrationSound, RegistrationTyped
<1>4. worker'[w] = [phase |-> "picked", task |-> k] /\ \A v \in Worker : v # w => worker'[v] = worker[v]
  BY <1>1 DEF RegistrationSound, RegistrationTyped
<1>5. WorkersPlaced'
  BY <1>1, <1>4 DEF RegistrationSound, WorkersPlaced, Rests, Status, Picks, WithAccount
<1>6. worker[w] = Resting
  BY WorkerKnown DEF Picks
<1> QED
  BY <1>1, <1>3, <1>4, <1>5, <1>6 DEF RegistrationSound, RegistrationTyped

LEMMA HeartbeatSound ==
  ASSUME RegistrationSound, NEW w \in Worker, Heartbeat(w)
  PROVE  /\ RegistrationSound'
         /\ TaskMoves(worker[w].task) /\ worker[w].task \in TaskKey /\ excess' = excess
         /\ \A j \in TaskKey : j # worker[w].task => task'[j] = task[j]
         /\ UNCHANGED <<user, code, remote, worker, sub, spent, lost, excess>>
<1> DEFINE k == worker[w].task
<1>1. k \in TaskKey /\ task[k] \in SomeTask
  BY WorkerKnown DEF Heartbeat
<1>2. task' = [task EXCEPT ![k] = [task[k] EXCEPT !.lapsed = FALSE]]
      /\ UNCHANGED <<user, code, remote, worker, sub, spent, lost, excess>>
  BY DEF Heartbeat
<1>3. task \in [TaskKey -> {NoTask} \union SomeTask]
  BY DEF RegistrationSound, RegistrationTyped
<1>4. task'[k] = [task[k] EXCEPT !.lapsed = FALSE] /\ \A j \in TaskKey : j # k => task'[j] = task[j]
  BY <1>1, <1>2, <1>3
<1>5. /\ task'[k] \in SomeTask /\ task'[k].st = task[k].st /\ task'[k].by = task[k].by
      /\ task'[k].user = task[k].user /\ task'[k].over = task[k].over
  BY <1>1, <1>4 DEF SomeTask
<1>6. task' \in [TaskKey -> {NoTask} \union SomeTask]
  BY <1>1, <1>2, <1>3, <1>4, <1>5
<1>7. WorkersPlaced'
  BY <1>2, <1>4, <1>5, WorkerKnown DEF RegistrationSound, WorkersPlaced, Rests, Status
<1> QED
  BY <1>1, <1>2, <1>4, <1>5, <1>6, <1>7 DEF RegistrationSound, RegistrationTyped, TaskMoves

\* The handler of a worker is where it was with the account it had.
HandlerStays(w) ==
    /\ UNCHANGED <<user, remote, spent, lost, excess>>
    /\ worker'[w].phase \in WithAccount <=> worker[w].phase \in WithAccount
    /\ worker'[w].phase \in WithAccount => worker'[w].id = worker[w].id

\* It makes an account, which it holds or which is lost.
HandlerMakes(w, i) ==
    /\ worker[w].phase \notin WithAccount /\ remote[i] = "unborn"
    /\ remote' = [remote EXCEPT ![i] = "live"]
    /\ \/ worker'[w].phase = "setup" /\ worker'[w].id = i /\ lost' = lost
       \/ worker'[w].phase = "report" /\ lost' = lost \union {i}
    /\ UNCHANGED <<user, spent, excess>>

\* It leaves its account, or takes it back.
HandlerLeaves(w) ==
    /\ worker[w].phase \in WithAccount /\ worker'[w].phase = "report"
    /\ \/ remote' = [remote EXCEPT ![worker[w].id] = "gone"] /\ lost' = lost
       \/ lost' = lost \union {worker[w].id} /\ UNCHANGED remote
    /\ UNCHANGED <<user, spent, excess>>

\* It completes the registration: the user has the account, and has spent his days.
HandlerCompletes(w) ==
    LET u == task[worker[w].task].user IN
    /\ worker[w].phase = "complete" /\ worker'[w].phase = "report"
    /\ user[u].id = None
    /\ \E r \in [id: Id \union {None}, us: Nat] :
         /\ r.id = worker[w].id /\ user' = [user EXCEPT ![u] = r]
         /\ \/ r.us = 0 /\ spent' = [spent EXCEPT ![u] = spent[u] + user[u].us]
            \/ r.us = user[u].us /\ spent' = spent
    /\ excess' = IF Mine(w) THEN excess ELSE excess + 1
    /\ UNCHANGED <<remote, lost>>

HandlerMoves(w) ==
    /\ Running(w) /\ worker'[w] \in RunningOne /\ worker'[w].task = worker[w].task
    /\ \A v \in Worker : v # w => worker'[v] = worker[v]
    /\ worker' \in [Worker -> {Resting} \union PickedOne \union RunningOne]
    /\ UNCHANGED <<code, task, sub>>
    /\ HandlerStays(w) \/ (\E i \in Id : HandlerMakes(w, i)) \/ HandlerLeaves(w) \/ HandlerCompletes(w)

\* A phase, or a phase and an account, is all a handler changes of its worker.
LEMMA GoesColumns ==
  ASSUME RegistrationSound, NEW w \in Worker, Running(w), NEW p \in HandlerPhase
  PROVE  /\ Goes(w, p) =>
              /\ worker'[w] \in RunningOne /\ worker'[w].phase = p
              /\ worker'[w].task = worker[w].task /\ worker'[w].id = worker[w].id
              /\ \A v \in Worker : v # w => worker'[v] = worker[v]
              /\ worker' \in [Worker -> {Resting} \union PickedOne \union RunningOne]
         /\ \A i \in Id : worker' = [worker EXCEPT ![w].phase = p, ![w].id = i] =>
              /\ worker'[w] \in RunningOne /\ worker'[w].phase = p
              /\ worker'[w].task = worker[w].task /\ worker'[w].id = i
              /\ \A v \in Worker : v # w => worker'[v] = worker[v]
              /\ worker' \in [Worker -> {Resting} \union PickedOne \union RunningOne]
<1>1. worker \in [Worker -> {Resting} \union PickedOne \union RunningOne]
  BY DEF RegistrationSound, RegistrationTyped
<1>2. worker[w] \in RunningOne
  BY WorkerKnown
<1>3. /\ [worker[w] EXCEPT !.phase = p] \in RunningOne
      /\ [worker[w] EXCEPT !.phase = p].phase = p
      /\ [worker[w] EXCEPT !.phase = p].task = worker[w].task
      /\ [worker[w] EXCEPT !.phase = p].id = worker[w].id
  BY <1>2 DEF RunningOne
<1>4. ASSUME Goes(w, p)
      PROVE  /\ worker'[w] \in RunningOne /\ worker'[w].phase = p
             /\ worker'[w].task = worker[w].task /\ worker'[w].id = worker[w].id
             /\ \A v \in Worker : v # w => worker'[v] = worker[v]
             /\ worker' \in [Worker -> {Resting} \union PickedOne \union RunningOne]
  <2>1. worker' = [worker EXCEPT ![w] = [worker[w] EXCEPT !.phase = p]]
    BY <1>4 DEF Goes
  <2> QED
    BY <1>1, <1>3, <2>1
<1>5. ASSUME NEW i \in Id, worker' = [worker EXCEPT ![w].phase = p, ![w].id = i]
      PROVE  /\ worker'[w] \in RunningOne /\ worker'[w].phase = p
             /\ worker'[w].task = worker[w].task /\ worker'[w].id = i
             /\ \A v \in Worker : v # w => worker'[v] = worker[v]
             /\ worker' \in [Worker -> {Resting} \union PickedOne \union RunningOne]
  <2>1. worker' = [worker EXCEPT ![w] = [worker[w] EXCEPT !.phase = p, !.id = i]]
    BY <1>5
  <2>2. /\ [worker[w] EXCEPT !.phase = p, !.id = i] \in RunningOne
        /\ [worker[w] EXCEPT !.phase = p, !.id = i].phase = p
        /\ [worker[w] EXCEPT !.phase = p, !.id = i].task = worker[w].task
        /\ [worker[w] EXCEPT !.phase = p, !.id = i].id = i
    BY <1>2 DEF RunningOne
  <2> QED
    BY <1>1, <2>1, <2>2
<1> QED
  BY <1>4, <1>5

HandlerStep(w) ==
    \/ Check(w) \/ Create(w) \/ CreateRefused(w) \/ Setup(w) \/ Complete(w) \/ CompleteRaises(w)
    \/ Rollback(w) \/ StopsOnHeartbeat(w) \/ TimesOut(w)

LEMMA HandlerPhases ==
  /\ {"check", "create", "setup", "complete", "rollback", "report"} = HandlerPhase
  /\ WithAccount = {"setup", "complete", "rollback"}
  /\ \A w \in Worker : RegistrationSound /\ worker[w].phase \in HandlerPhase => Running(w)
BY DEF HandlerPhase, WithAccount, Running

LEMMA HandlerColumns ==
  ASSUME RegistrationSound, NEW w \in Worker, HandlerStep(w)
  PROVE  HandlerMoves(w)
<1> USE HandlerPhases
<1>1. CASE Check(w)
  <2>1. Running(w)
    BY <1>1 DEF Check
  <2>2. PICK p \in {"report", "create"} : Goes(w, p)
    BY <1>1 DEF Check
  <2> QED
    BY <1>1, <2>1, <2>2, GoesColumns DEF Check, HandlerMoves, HandlerStays
<1>2. CASE Create(w)
  <2>1. Running(w) /\ worker[w].phase = "create"
    BY <1>2 DEF Create
  <2>2. PICK i \in Id :
          /\ remote[i] = "unborn"
          /\ remote' = [remote EXCEPT ![i] = "live"]
          /\ \/ worker' = [worker EXCEPT ![w].phase = "setup", ![w].id = i] /\ lost' = lost
             \/ Goes(w, "report") /\ lost' = lost \union {i}
    BY <1>2 DEF Create
  <2>3. UNCHANGED <<user, code, task, sub, spent, excess>>
    BY <1>2 DEF Create
  <2>4. "setup" \in HandlerPhase /\ "report" \in HandlerPhase
    BY DEF HandlerPhase
  <2>5. /\ \/ worker'[w].phase = "setup" /\ worker'[w].id = i /\ lost' = lost
           \/ worker'[w].phase = "report" /\ lost' = lost \union {i}
        /\ worker'[w] \in RunningOne /\ worker'[w].task = worker[w].task
        /\ \A v \in Worker : v # w => worker'[v] = worker[v]
        /\ worker' \in [Worker -> {Resting} \union PickedOne \union RunningOne]
    <3>1. CASE worker' = [worker EXCEPT ![w].phase = "setup", ![w].id = i] /\ lost' = lost
      BY <2>1, <2>4, <3>1, GoesColumns
    <3>2. CASE Goes(w, "report") /\ lost' = lost \union {i}
      BY <2>1, <2>4, <3>2, GoesColumns
    <3> QED
      BY <2>2, <3>1, <3>2
  <2>6. worker[w].phase \notin WithAccount
    BY <2>1 DEF WithAccount
  <2>7. HandlerMakes(w, i)
    BY <2>2, <2>3, <2>5, <2>6 DEF HandlerMakes
  <2> QED
    BY <2>1, <2>3, <2>5, <2>7 DEF HandlerMoves
<1>3. CASE CreateRefused(w) \/ CompleteRaises(w)
  <2>1. Running(w)
    BY <1>3 DEF CreateRefused, CompleteRaises
  <2>2. PICK p \in {"report", "rollback"} : Goes(w, p) /\ (p \in WithAccount <=> worker[w].phase \in WithAccount)
    BY <1>3 DEF CreateRefused, CompleteRaises
  <2>3. UNCHANGED <<user, code, task, remote, sub, spent, lost, excess>>
    BY <1>3 DEF CreateRefused, CompleteRaises
  <2> QED
    BY <2>1, <2>2, <2>3, GoesColumns DEF HandlerMoves, HandlerStays
<1>4. CASE Setup(w)
  <2>1. Running(w) /\ worker[w].phase = "setup"
    BY <1>4 DEF Setup
  <2>2. UNCHANGED <<user, code, task, remote, sub, spent, excess>>
    BY <1>4 DEF Setup
  <2>3. CASE Goes(w, "complete") /\ UNCHANGED lost
    BY <2>1, <2>2, <2>3, GoesColumns DEF HandlerMoves, HandlerStays
  <2>4. CASE Goes(w, "report") /\ lost' = lost \union {worker[w].id}
    BY <2>1, <2>2, <2>4, GoesColumns DEF HandlerMoves, HandlerLeaves
  <2> QED
    BY <1>4, <2>3, <2>4 DEF Setup
<1>5. CASE Complete(w)
  <2> DEFINE k == worker[w].task
             u == task[k].user
             consume == task[k].consume
  <2>1. Running(w) /\ worker[w].phase = "complete"
    BY <1>5 DEF Complete
  <2>2. UNCHANGED <<code, task, remote, sub, lost>>
    BY <1>5 DEF Complete
  <2>3. CASE MayComplete(u, consume)
    <3>1. u \in User /\ user[u] \in [id: Id \union {None}, us: Nat]
      BY <2>1, WorkerKnown DEF SomeTask, RegistrationSound, RegistrationTyped
    <3>2. /\ user' = [user EXCEPT ![u].id = worker[w].id, ![u].us = IF consume THEN 0 ELSE @]
          /\ spent' = [spent EXCEPT ![u] = IF consume THEN @ + user[u].us ELSE @]
          /\ excess' = IF Mine(w) THEN excess ELSE excess + 1
          /\ Goes(w, "report")
      BY <1>5, <2>3 DEF Complete
    <3>3. user' = [user EXCEPT ![u] = [user[u] EXCEPT !.id = worker[w].id, !.us = IF consume THEN 0 ELSE user[u].us]]
      BY <3>1, <3>2
    <3>4. PICK r : r = [user[u] EXCEPT !.id = worker[w].id, !.us = IF consume THEN 0 ELSE user[u].us]
      OBVIOUS
    <3>5. worker[w].id \in Id
      BY <2>1 DEF RegistrationSound, WorkersPlaced, WithAccount
    <3>6. /\ r \in [id: Id \union {None}, us: Nat] /\ r.id = worker[w].id
          /\ r.us = IF consume THEN 0 ELSE user[u].us
      BY <3>1, <3>4, <3>5
    <3>8. spent' = IF consume THEN [spent EXCEPT ![u] = spent[u] + user[u].us] ELSE spent
      BY <3>1, <3>2 DEF RegistrationSound, RegistrationTyped
    <3>7. HandlerCompletes(w)
      BY <2>1, <2>2, <2>3, <3>2, <3>3, <3>4, <3>6, <3>8, GoesColumns DEF HandlerCompletes, MayComplete
    <3> QED
      BY <2>1, <2>2, <3>2, <3>7, GoesColumns DEF HandlerMoves
  <2>4. CASE ~MayComplete(u, consume)
    <3>1. Goes(w, "rollback") /\ UNCHANGED <<user, spent, excess>>
      BY <1>5, <2>4 DEF Complete
    <3> QED
      BY <2>1, <2>2, <3>1, GoesColumns DEF HandlerMoves, HandlerStays
  <2> QED
    BY <2>3, <2>4
<1>6. CASE Rollback(w)
  <2>1. Running(w) /\ worker[w].phase = "rollback" /\ Goes(w, "report")
        /\ UNCHANGED <<user, code, task, sub, spent, excess>>
    BY <1>6 DEF Rollback
  <2>2. \/ remote' = [remote EXCEPT ![worker[w].id] = "gone"] /\ lost' = lost
        \/ lost' = lost \union {worker[w].id} /\ UNCHANGED remote
    BY <1>6 DEF Rollback
  <2>3. HandlerLeaves(w)
    BY <2>1, <2>2, GoesColumns DEF HandlerLeaves
  <2> QED
    BY <2>1, <2>3, GoesColumns DEF HandlerMoves
<1>7. CASE StopsOnHeartbeat(w) \/ TimesOut(w)
  <2>1. Interrupted(w) /\ Goes(w, "report")
    BY <1>7 DEF StopsOnHeartbeat, TimesOut
  <2>2. Running(w) /\ worker[w].phase \in {"create", "setup", "rollback"}
        /\ UNCHANGED <<user, code, task, sub, spent, excess>>
    BY <2>1 DEF Interrupted
  <2>3. CASE worker[w].phase = "create"
    <3>1. CASE UNCHANGED <<remote, lost>>
      BY <2>1, <2>2, <2>3, <3>1, GoesColumns DEF HandlerMoves, HandlerStays
    <3>2. ASSUME NEW i \in Id, remote[i] = "unborn", remote' = [remote EXCEPT ![i] = "live"],
                 lost' = lost \union {i}
          PROVE  HandlerMoves(w)
      <4>1. HandlerMakes(w, i)
        BY <2>1, <2>2, <2>3, <3>2, GoesColumns DEF HandlerMakes
      <4> QED
        BY <2>1, <2>2, <4>1, GoesColumns DEF HandlerMoves
    <3> QED
      BY <2>1, <2>3, <3>1, <3>2 DEF Interrupted
  <2>4. CASE worker[w].phase # "create"
    <3>1. lost' = lost \union {worker[w].id} /\ UNCHANGED remote
      BY <2>1, <2>4 DEF Interrupted
    <3>2. HandlerLeaves(w)
      BY <2>1, <2>2, <2>4, <3>1, GoesColumns DEF HandlerLeaves
    <3> QED
      BY <2>1, <2>2, <3>2, GoesColumns DEF HandlerMoves
  <2> QED
    BY <2>3, <2>4
<1> QED
  BY <1>1, <1>2, <1>3, <1>4, <1>5, <1>6, <1>7 DEF HandlerStep

LEMMA HandlerSound ==
  ASSUME RegistrationSound, NEW w \in Worker, HandlerMoves(w)
  PROVE  RegistrationSound'
<1>1. /\ user \in [User -> [id: Id \union {None}, us: Nat]] /\ spent \in [User -> Nat]
      /\ remote \in [Id -> {"unborn", "live", "gone"}] /\ lost \subseteq Id /\ excess \in Nat
  BY DEF RegistrationSound, RegistrationTyped
<1>2. worker[w].phase \in WithAccount => worker[w].id \in Id
  BY DEF RegistrationSound, WorkersPlaced
<1>3. task[worker[w].task].user \in User
  BY WorkerKnown DEF HandlerMoves, SomeTask
<1>4. /\ user' \in [User -> [id: Id \union {None}, us: Nat]] /\ spent' \in [User -> Nat]
      /\ remote' \in [Id -> {"unborn", "live", "gone"}] /\ lost' \subseteq Id /\ excess' \in Nat
      /\ worker'[w].phase \in WithAccount => worker'[w].id \in Id
  <2>1. CASE HandlerStays(w)
    BY <1>1, <1>2, <2>1 DEF HandlerStays
  <2>2. ASSUME NEW i \in Id, HandlerMakes(w, i)
        PROVE  /\ UNCHANGED <<user, spent, excess>>
               /\ remote' \in [Id -> {"unborn", "live", "gone"}] /\ lost' \subseteq Id
               /\ worker'[w].phase \in WithAccount => worker'[w].id \in Id
    BY <1>1, <2>2 DEF HandlerMakes, WithAccount
  <2>3. CASE HandlerLeaves(w)
    BY <1>1, <1>2, <2>3 DEF HandlerLeaves, WithAccount
  <2>4. CASE HandlerCompletes(w)
    <3>1. worker[w].id \in Id /\ excess' \in Nat /\ worker'[w].phase \notin WithAccount
      BY <1>1, <1>2, <2>4 DEF HandlerCompletes, WithAccount
    <3>2. user[task[worker[w].task].user].us \in Nat /\ spent[task[worker[w].task].user] \in Nat
      BY <1>1, <1>3
    <3>3. UNCHANGED <<remote, lost>>
      BY <2>4 DEF HandlerCompletes
    <3>4. user' \in [User -> [id: Id \union {None}, us: Nat]] /\ spent' \in [User -> Nat]
      BY <1>1, <1>3, <2>4, <3>1, <3>2 DEF HandlerCompletes
    <3> QED
      BY <1>1, <3>1, <3>3, <3>4
  <2> QED
    BY <1>1, <2>1, <2>2, <2>3, <2>4 DEF HandlerMoves
<1>5. ASSUME NEW v \in Worker
      PROVE  /\ ~Rests(v)' => Status(worker[v].task)' # "none"
             /\ worker'[v].phase \in WithAccount => worker'[v].id \in Id
  <2>1. CASE v = w
    <3>1. worker'[v].task = worker[v].task /\ task' = task
      BY <2>1 DEF HandlerMoves
    <3>2. task[worker[v].task].st # "none"
      BY <2>1, WorkerKnown DEF HandlerMoves, SomeTask, TaskStatus
    <3> QED
      BY <1>4, <2>1, <3>1, <3>2 DEF Status
  <2>2. CASE v # w
    <3>1. worker'[v] = worker[v] /\ task' = task
      BY <2>2 DEF HandlerMoves
    <3> QED
      BY <3>1 DEF RegistrationSound, WorkersPlaced, Status, Rests
  <2> QED
    BY <2>1, <2>2
<1> QED
  BY <1>4, <1>5 DEF RegistrationSound, RegistrationTyped, WorkersPlaced, HandlerMoves

\* A worker rests again: what it held is done, given back or lost, and its task ended
\* or is nobody's.
WorkerEnds(w) ==
    /\ ~Rests(w) /\ worker' = [worker EXCEPT ![w] = Resting]
    /\ UNCHANGED <<user, code, remote, sub, spent, excess>>
    /\ lost \subseteq lost' /\ lost' \subseteq Id
    /\ worker[w].phase \in WithAccount => worker[w].id \in lost'
    /\ task' \in [TaskKey -> {NoTask} \union SomeTask]
    /\ \A k \in TaskKey :
         \/ task'[k] = task[k]
         \/ /\ task[k] \in SomeTask /\ task'[k] \in SomeTask
            /\ task[k].st = "running" /\ task[k].by = w
            /\ task'[k].user = task[k].user /\ task'[k].over = task[k].over
            /\ task'[k].by = None

LEMMA EndsColumns ==
  ASSUME RegistrationSound, NEW w \in Worker, Reports(w) \/ Fails(w) \/ Crash(w)
  PROVE  WorkerEnds(w)
<1>1. task \in [TaskKey -> {NoTask} \union SomeTask] /\ lost \subseteq Id
  BY DEF RegistrationSound, RegistrationTyped
<1>2. CASE Reports(w) \/ Fails(w)
  <2> DEFINE k == worker[w].task
  <2>1. worker[w].phase = "report" /\ ~Rests(w) /\ k \in TaskKey /\ task[k] \in SomeTask
    BY <1>2, WorkerKnown DEF Reports, Fails, Rests
  <2>2. /\ UNCHANGED <<user, code, remote, sub, spent, lost, excess>>
        /\ worker' = [worker EXCEPT ![w] = Resting]
    BY <1>2 DEF Reports, Fails
  <2>3. PICK st \in TaskStatus :
          task' = IF ~Mine(w) THEN task
                  ELSE [task EXCEPT ![k].by = None, ![k].lapsed = FALSE, ![k].st = st]
    BY <1>2 DEF Reports, Fails, TaskStatus
  <2>4. CASE ~Mine(w)
    BY <1>1, <2>1, <2>2, <2>3, <2>4 DEF WorkerEnds, WithAccount
  <2>5. CASE Mine(w)
    <3>1. task' = [task EXCEPT ![k] = [task[k] EXCEPT !.by = None, !.lapsed = FALSE, !.st = st]]
      BY <2>3, <2>5
    <3>2. PICK t : t = [task[k] EXCEPT !.by = None, !.lapsed = FALSE, !.st = st]
      OBVIOUS
    <3>3. t \in SomeTask /\ t.user = task[k].user /\ t.over = task[k].over /\ t.by = None
      BY <2>1, <2>3, <3>2 DEF SomeTask
    <3>4. task[k].st = "running" /\ task[k].by = w
      BY <2>5 DEF Mine
    <3>5. task'[k] = t /\ \A j \in TaskKey : j # k => task'[j] = task[j]
      BY <1>1, <2>1, <3>1, <3>2
    <3>6. task' \in [TaskKey -> {NoTask} \union SomeTask]
      BY <1>1, <2>1, <3>1, <3>2, <3>3
    <3> QED
      BY <1>1, <2>1, <2>2, <3>3, <3>4, <3>5, <3>6 DEF WorkerEnds, WithAccount
  <2> QED
    BY <2>4, <2>5
<1>3. CASE Crash(w)
  <2>1. /\ ~Rests(w) /\ worker' = [worker EXCEPT ![w] = Resting]
        /\ UNCHANGED <<user, code, remote, sub, spent, excess>>
        /\ lost' = IF worker[w].phase \in WithAccount THEN lost \union {worker[w].id} ELSE lost
    BY <1>3 DEF Crash, WithAccount
  <2>2. task' = [k \in TaskKey |-> IF task[k].st = "running" /\ task[k].by = w
                                   THEN [task[k] EXCEPT !.by = None] ELSE task[k]]
    BY <1>3 DEF Crash
  <2>3. ASSUME NEW k \in TaskKey
        PROVE  /\ task'[k] \in {NoTask} \union SomeTask
               /\ \/ task'[k] = task[k]
                  \/ /\ task[k] \in SomeTask /\ task'[k] \in SomeTask
                     /\ task[k].st = "running" /\ task[k].by = w
                     /\ task'[k].user = task[k].user /\ task'[k].over = task[k].over
                     /\ task'[k].by = None
    <3>1. CASE task[k].st = "running" /\ task[k].by = w
      <4>1. task[k] \in SomeTask
        BY <3>1, TaskKnown DEF RegistrationSound, Status
      <4>2. PICK t : t = [task[k] EXCEPT !.by = None]
        OBVIOUS
      <4>3. t \in SomeTask /\ t.user = task[k].user /\ t.over = task[k].over /\ t.by = None
        BY <4>1, <4>2 DEF SomeTask
      <4> QED
        BY <2>2, <3>1, <4>1, <4>2, <4>3
    <3>2. CASE ~(task[k].st = "running" /\ task[k].by = w)
      BY <1>1, <2>2, <3>2
    <3> QED
      BY <3>1, <3>2
  <2>4. task' \in [TaskKey -> {NoTask} \union SomeTask]
    BY <2>2, <2>3
  <2>5. worker[w].phase \in WithAccount => worker[w].id \in Id
    BY DEF RegistrationSound, WorkersPlaced
  <2> QED
    BY <1>1, <2>1, <2>3, <2>4, <2>5 DEF WorkerEnds
<1> QED
  BY <1>2, <1>3

LEMMA EndsSound ==
  ASSUME RegistrationSound, NEW w \in Worker, WorkerEnds(w)
  PROVE  RegistrationSound'
<1>1. worker \in [Worker -> {Resting} \union PickedOne \union RunningOne]
  BY DEF RegistrationSound, RegistrationTyped
<1>2. worker' = [worker EXCEPT ![w] = Resting] /\ worker' \in [Worker -> {Resting} \union PickedOne \union RunningOne]
  BY <1>1 DEF WorkerEnds
<1>3. ASSUME NEW v \in Worker
      PROVE  /\ ~Rests(v)' => Status(worker[v].task)' # "none"
             /\ worker'[v].phase \in WithAccount => worker'[v].id \in Id
  <2>1. CASE v = w
    BY <1>1, <1>2, <2>1 DEF Rests, Resting, WithAccount
  <2>2. CASE v # w
    <3>1. worker'[v] = worker[v]
      BY <1>1, <1>2, <2>2
    <3>2. ~Rests(v) => worker[v].task \in TaskKey /\ task[worker[v].task] \in SomeTask
      BY WorkerKnown
    <3>3. ~Rests(v) => task'[worker[v].task].st # "none"
      BY <3>2 DEF WorkerEnds, SomeTask, TaskStatus
    <3>4. worker[v].phase \in WithAccount => worker[v].id \in Id
      BY DEF RegistrationSound, WorkersPlaced
    <3> QED
      BY <3>1, <3>3, <3>4 DEF Status, Rests
  <2> QED
    BY <2>1, <2>2
<1> QED
  BY <1>2, <1>3 DEF RegistrationSound, RegistrationTyped, WorkersPlaced, WorkerEnds

-----------------------------------------------------------------------------
\* The steps of registration, by what they change.
LEMMA RegistrationSteps ==
  ASSUME RegistrationSound, RegistrationNext
  PROVE  \/ UNCHANGED <<user, code, task, remote, worker, spent, lost, excess>>
         \/ \E s \in Slot : SubmitCommits(s)
         \/ \E u \in User, c \in Code : RedeemBefore(u, c)
         \/ \E k \in TaskKey : AtTask(k)
         \/ \E w \in Worker, k \in TaskKey : Picks(w, k)
         \/ \E w \in Worker : \/ Claims(w) \/ Recovers(w) \/ Heartbeat(w)
                              \/ HandlerMoves(w) \/ WorkerEnds(w)
<1>1. ASSUME NEW u \in User, NEW k \in TaskKey, CreateUser(u, k) \/ SubmitRegistration(u, k)
      PROVE  UNCHANGED <<user, code, task, remote, worker, spent, lost, excess>>
  BY <1>1 DEF CreateUser, SubmitRegistration, SubmitBegins
<1>2. ASSUME NEW s \in Slot, SubmitReturns(s)
      PROVE  UNCHANGED <<user, code, task, remote, worker, spent, lost, excess>>
  BY <1>2 DEF SubmitReturns
<1>3. ASSUME NEW w \in Worker, Execute(w) \/ StopsOnHeartbeat(w) \/ TimesOut(w) \/ Crash(w)
      PROVE  HandlerMoves(w) \/ WorkerEnds(w)
  BY <1>3, HandlerColumns, EndsColumns DEF Execute, HandlerStep
<1> QED
  BY <1>1, <1>2, <1>3 DEF RegistrationNext, AtTask

LEMMA RegistrationStepSound == RegistrationSound /\ [RegistrationNext]_registrationVars => RegistrationSound'
<1> SUFFICES ASSUME RegistrationSound, [RegistrationNext]_registrationVars PROVE RegistrationSound'
  OBVIOUS
<1>1. CASE UNCHANGED registrationVars
  BY <1>1 DEF registrationVars, RegistrationSound, RegistrationTyped, WorkersPlaced, Rests, Status
<1>2. CASE RegistrationNext
  <2>1. ASSUME NEW w \in Worker, Execute(w) \/ StopsOnHeartbeat(w) \/ TimesOut(w) \/ Crash(w)
        PROVE  RegistrationSound'
    BY <2>1, HandlerColumns, EndsColumns, HandlerSound, EndsSound DEF Execute, HandlerStep
  <2> QED
    BY <1>2, <2>1, SubmissionsSound, CommitSound, AtTaskSound, PicksSound, ClaimsSound, RecoversSound, HeartbeatSound
    DEF RegistrationNext, AtTask
<1> QED
  BY <1>1, <1>2

\* As long as its lease never lapsed, a task belongs to the worker that handles it.
Owners ==
    \A w \in Worker : Running(w) /\ ~task[worker[w].task].over =>
        Status(worker[w].task) = "running" /\ task[worker[w].task].by = w

LEMMA OwnersOneHandler == RegistrationSound /\ Owners => OneHandler
<1> SUFFICES ASSUME RegistrationSound, Owners, NEW v \in Worker, NEW w \in Worker, v # w,
                    Running(v), Running(w), worker[v].task = worker[w].task
             PROVE  task[worker[w].task].over
  BY DEF OneHandler
<1> QED
  BY DEF Owners

LEMMA OwnersStep == RegistrationSound /\ Owners /\ [RegistrationNext]_registrationVars => Owners'
<1> SUFFICES ASSUME RegistrationSound, Owners, [RegistrationNext]_registrationVars,
                    NEW v \in Worker, Running(v)', ~(task'[worker'[v].task].over)
             PROVE  task'[worker'[v].task].st = "running" /\ task'[worker'[v].task].by = v
  BY DEF Owners, Status
<1> DEFINE k == worker[v].task
<1>1. ASSUME worker'[v] = worker[v], task'[k].over = task[k].over,
             \/ task'[k].st = task[k].st /\ task'[k].by = task[k].by
             \/ task[k].st # "running"
             \/ task[k].by # v
      PROVE  task'[worker'[v].task].st = "running" /\ task'[worker'[v].task].by = v
  <2>1. Running(v) /\ ~task[k].over
    BY <1>1 DEF Running
  <2> QED
    BY <1>1, <2>1 DEF Owners, Status
<1>2. CASE UNCHANGED <<task, worker>>
  BY <1>1, <1>2
<1>3. ASSUME worker'[v] = worker[v]
      PROVE  k \in TaskKey /\ task[k] \in SomeTask
  BY <1>3, WorkerKnown DEF Running
<1>4. ASSUME NEW s \in Slot, SubmitCommits(s) PROVE task'[worker'[v].task].st = "running" /\ task'[worker'[v].task].by = v
  <2>1. worker'[v] = worker[v] /\ sub[s].key \in TaskKey
    BY <1>4, CommitColumns DEF SomeSub
  <2>2. k # sub[s].key
    BY <1>3, <1>4, <2>1, CommitColumns, TaskKnown DEF RegistrationSound, SomeTask, TaskStatus, Status
  <2>3. task'[k] = task[k]
    BY <1>3, <1>4, <2>1, <2>2, CommitColumns DEF RegistrationSound, RegistrationTyped
  <2> QED
    BY <1>1, <2>1, <2>3
<1>5. ASSUME NEW j \in TaskKey, AtTask(j) PROVE task'[worker'[v].task].st = "running" /\ task'[worker'[v].task].by = v
  <2>1. worker'[v] = worker[v]
    BY <1>5, AtTaskColumns
  <2>2. CASE j # k
    BY <1>1, <1>3, <1>5, <2>1, <2>2, AtTaskColumns
  <2>3. CASE j = k /\ TaskMoves(k)
    BY <1>1, <2>1, <2>3 DEF TaskMoves
  <2>4. Running(v) => ~Rests(v)
    BY WorkerKnown
  <2> QED
    BY <1>5, <2>1, <2>2, <2>3, <2>4, AtTaskColumns DEF Running
<1>6. ASSUME NEW w \in Worker, NEW j \in TaskKey, Picks(w, j)
      PROVE  task'[worker'[v].task].st = "running" /\ task'[worker'[v].task].by = v
  BY <1>1, <1>6, PicksSound DEF Running
<1>7. ASSUME worker'[v] = worker[v], task'[k] = Recovered(k)
      PROVE  task'[worker'[v].task].st = "running" /\ task'[worker'[v].task].by = v
  BY <1>1, <1>3, <1>7, RecoveredRight DEF RegistrationSound
<1>8. ASSUME NEW w \in Worker, Claims(w)
      PROVE  task'[worker'[v].task].st = "running" /\ task'[worker'[v].task].by = v
  <2>1. CASE v = w
    <3>1. worker'[v] # Resting
      BY DEF Running, Resting
    <3>2. /\ worker'[v] = [phase |-> "check", task |-> k, id |-> None]
          /\ task'[k] = [task[k] EXCEPT !.st = "running", !.by = v, !.lapsed = FALSE]
          /\ Status(k) = "pending" /\ k \in TaskKey
      BY <1>8, <2>1, <3>1, ClaimsColumns
    <3>3. task[k] \in SomeTask
      BY <3>2, TaskKnown DEF RegistrationSound
    <3>4. task'[k].st = "running" /\ task'[k].by = v
      BY <3>2, <3>3 DEF SomeTask
    <3>5. worker'[v].task = k
      BY <3>2
    <3> QED
      BY <3>4, <3>5
  <2>2. CASE v # w
    <3>1. worker'[v] = worker[v]
      BY <1>8, <2>2, ClaimsColumns
    <3>2. CASE task'[k] = Recovered(k)
      BY <1>7, <3>1, <3>2
    <3>3. CASE task'[k] # Recovered(k)
      <4>1. /\ k = worker[w].task /\ Status(k) = "pending"
            /\ task'[k] = [task[k] EXCEPT !.st = "running", !.by = w, !.lapsed = FALSE]
        BY <1>3, <1>8, <3>1, <3>3, ClaimsColumns
      <4>2. task'[k].over = task[k].over
        BY <1>3, <3>1, <4>1 DEF SomeTask
      <4> QED
        BY <1>1, <3>1, <4>1, <4>2 DEF Status
    <3> QED
      BY <3>2, <3>3
  <2> QED
    BY <2>1, <2>2
<1>9. ASSUME NEW w \in Worker, Recovers(w)
      PROVE  task'[worker'[v].task].st = "running" /\ task'[worker'[v].task].by = v
  <2>1. worker'[v] = worker[v]
    BY <1>9, RecoversSound
  <2> QED
    BY <1>3, <1>7, <1>9, <2>1, RecoversSound
<1>10. ASSUME NEW w \in Worker, Heartbeat(w)
       PROVE  task'[worker'[v].task].st = "running" /\ task'[worker'[v].task].by = v
  <2>1. worker'[v] = worker[v]
    BY <1>10, HeartbeatSound
  <2>2. CASE worker[w].task # k
    BY <1>1, <1>3, <1>10, <2>1, <2>2, HeartbeatSound
  <2>3. CASE worker[w].task = k
    BY <1>1, <1>10, <2>1, <2>3, HeartbeatSound DEF TaskMoves
  <2> QED
    BY <2>2, <2>3
<1>11. ASSUME NEW w \in Worker, HandlerMoves(w)
       PROVE  task'[worker'[v].task].st = "running" /\ task'[worker'[v].task].by = v
  <2>1. CASE v # w
    BY <1>1, <1>11, <2>1 DEF HandlerMoves
  <2>2. CASE v = w
    BY <1>11, <2>2 DEF HandlerMoves, Owners, Status
  <2> QED
    BY <2>1, <2>2
<1>12. ASSUME NEW w \in Worker, WorkerEnds(w)
       PROVE  task'[worker'[v].task].st = "running" /\ task'[worker'[v].task].by = v
  <2>1. worker \in [Worker -> {Resting} \union PickedOne \union RunningOne]
    BY DEF RegistrationSound, RegistrationTyped
  <2>2. v # w
    BY <1>12, <2>1 DEF WorkerEnds, Running, Resting
  <2>3. worker'[v] = worker[v]
    BY <1>12, <2>1, <2>2 DEF WorkerEnds
  <2>4. \/ task'[k] = task[k]
        \/ task'[k].over = task[k].over /\ task[k].by = w
    BY <1>3, <1>12, <2>3 DEF WorkerEnds
  <2> QED
    BY <1>1, <2>2, <2>3, <2>4
<1>13. CASE UNCHANGED registrationVars
  BY <1>2, <1>13 DEF registrationVars
<1>14. ASSUME NEW u \in User, NEW c \in Code, RedeemBefore(u, c) PROVE UNCHANGED <<task, worker>>
  BY <1>14 DEF RedeemBefore
<1>15. CASE RegistrationNext
  BY <1>2, <1>4, <1>5, <1>6, <1>8, <1>9, <1>10, <1>11, <1>12, <1>14, <1>15, RegistrationSteps
<1> QED
  BY <1>13, <1>15

-----------------------------------------------------------------------------
\* What becomes of an account: only its handler forgets it, and then it is lost.
LEMMA AccountsStep ==
  RegistrationSound /\ AccountsAccountedFor /\ [RegistrationNext]_registrationVars => AccountsAccountedFor'
<1> SUFFICES ASSUME RegistrationSound, AccountsAccountedFor, [RegistrationNext]_registrationVars,
                    NEW i \in Id, remote'[i] = "live"
             PROVE  \/ \E u \in User : user'[u].id = i
                    \/ \E w \in Worker : worker'[w].phase \in WithAccount /\ worker'[w].id = i
                    \/ i \in lost'
  BY DEF AccountsAccountedFor, WithAccount
<1> DEFINE Told == \/ \E u \in User : user'[u].id = i
                   \/ \E w \in Worker : worker'[w].phase \in WithAccount /\ worker'[w].id = i
                   \/ i \in lost'
<1>1. ASSUME remote[i] = "live"
      PROVE  \/ \E u \in User : user[u].id = i
             \/ \E w \in Worker : worker[w].phase \in WithAccount /\ worker[w].id = i
             \/ i \in lost
  BY <1>1 DEF AccountsAccountedFor, WithAccount
<1>2. ASSUME remote' = remote, lost \subseteq lost',
             \A u \in User : user[u].id # None => user'[u].id = user[u].id,
             \A w \in Worker : worker[w].phase \in WithAccount =>
                (worker'[w].phase \in WithAccount /\ worker'[w].id = worker[w].id) \/ worker[w].id \in lost'
      PROVE  Told
  BY <1>1, <1>2, RegistrationAssumption
<1>3. ASSUME worker' = worker, remote' = remote, lost' = lost,
             \A u \in User : user[u].id # None => user'[u].id = user[u].id
      PROVE  Told
  BY <1>2, <1>3
<1>4. user \in [User -> [id: Id \union {None}, us: Nat]]
      /\ worker \in [Worker -> {Resting} \union PickedOne \union RunningOne]
      /\ remote \in [Id -> {"unborn", "live", "gone"}]
  BY DEF RegistrationSound, RegistrationTyped
<1>5. ASSUME NEW u \in User, NEW c \in Code, Redeem(u, c)
      PROVE  \A v \in User : user'[v].id = user[v].id
  BY <1>4, <1>5 DEF Redeem
<1>6. ASSUME NEW s \in Slot, SubmitCommits(s) PROVE Told
  <2>1. worker' = worker /\ remote' = remote /\ lost' = lost /\ sub[s].user \in User
    BY <1>6, CommitColumns DEF SomeSub
  <2>2. \A u \in User : user'[u].id = user[u].id
    BY <1>5, <1>6, <2>1, CommitColumns
  <2> QED
    BY <1>3, <2>1, <2>2
<1>7. ASSUME NEW u \in User, NEW c \in Code, RedeemBefore(u, c) PROVE Told
  <2>1. worker' = worker /\ remote' = remote /\ lost' = lost
    BY <1>7 DEF RedeemBefore
  <2>2. \A v \in User : user'[v].id = user[v].id
    BY <1>5, <1>7 DEF RedeemBefore
  <2> QED
    BY <1>3, <2>1, <2>2
<1>8. ASSUME NEW k \in TaskKey, AtTask(k) PROVE Told
  BY <1>3, <1>8, AtTaskColumns
<1>9. ASSUME NEW w \in Worker, NEW k \in TaskKey, Picks(w, k) PROVE Told
  <2>1. worker[w].phase \notin WithAccount
    BY <1>9, PicksSound DEF Resting, WithAccount
  <2> QED
    BY <1>2, <1>9, <2>1, PicksSound
<1>10. ASSUME NEW w \in Worker, Claims(w) PROVE Told
  <2>1. worker[w].phase \notin WithAccount
    BY <1>10, ClaimsColumns DEF WithAccount
  <2>2. /\ \A v \in Worker : v # w => worker'[v] = worker[v]
        /\ remote' = remote /\ lost' = lost /\ user' = user
    BY <1>10, ClaimsColumns
  <2> QED
    BY <1>2, <2>1, <2>2
<1>11. ASSUME NEW w \in Worker, Recovers(w) \/ Heartbeat(w) PROVE Told
  <2>1. worker' = worker /\ remote' = remote /\ lost' = lost /\ user' = user
    BY <1>11, RecoversSound, HeartbeatSound
  <2> QED
    BY <1>3, <2>1
<1>12. ASSUME NEW w \in Worker, HandlerMoves(w) PROVE Told
  <2>1. \A v \in Worker : v # w => worker'[v] = worker[v]
    BY <1>12 DEF HandlerMoves
  <2>2. CASE HandlerStays(w)
    BY <1>2, <2>1, <2>2 DEF HandlerStays
  <2>3. ASSUME NEW j \in Id, HandlerMakes(w, j) PROVE Told
    <3>1. CASE i = j
      BY <2>3, <3>1 DEF HandlerMakes, WithAccount
    <3>2. CASE i # j
      <4>1. remote[i] = "live" /\ lost \subseteq lost' /\ user' = user /\ worker[w].phase \notin WithAccount
        BY <1>4, <2>3, <3>2 DEF HandlerMakes
      <4> QED
        BY <1>1, <2>1, <4>1
    <3> QED
      BY <3>1, <3>2
  <2>4. CASE HandlerLeaves(w)
    <3>1. worker[w].id \in Id
      BY <2>4 DEF HandlerLeaves, RegistrationSound, WorkersPlaced
    <3>2. CASE i = worker[w].id
      BY <1>4, <2>4, <3>1, <3>2 DEF HandlerLeaves
    <3>3. CASE i # worker[w].id
      <4>1. remote[i] = "live" /\ lost \subseteq lost' /\ user' = user
        BY <1>4, <2>4, <3>1, <3>3 DEF HandlerLeaves
      <4> QED
        BY <1>1, <2>1, <3>3, <4>1
    <3> QED
      BY <3>2, <3>3
  <2>5. CASE HandlerCompletes(w)
    <3> DEFINE u == task[worker[w].task].user
    <3>1. u \in User
      BY <1>12, WorkerKnown DEF HandlerMoves, SomeTask
    <3>2. /\ user'[u].id = worker[w].id /\ user[u].id = None
          /\ \A v \in User : v # u => user'[v] = user[v]
          /\ remote' = remote /\ lost' = lost
      BY <1>4, <2>5, <3>1 DEF HandlerCompletes
    <3> QED
      BY <1>1, <2>1, <3>1, <3>2, RegistrationAssumption
  <2> QED
    BY <1>12, <2>2, <2>3, <2>4, <2>5 DEF HandlerMoves
<1>13. ASSUME NEW w \in Worker, WorkerEnds(w) PROVE Told
  <2>1. /\ remote' = remote /\ lost \subseteq lost' /\ user' = user
        /\ worker[w].phase \in WithAccount => worker[w].id \in lost'
        /\ \A v \in Worker : v # w => worker'[v] = worker[v]
    BY <1>4, <1>13 DEF WorkerEnds
  <2> QED
    BY <1>2, <2>1
<1>14. CASE UNCHANGED <<user, remote, worker, lost>>
  BY <1>3, <1>14
<1>15. CASE RegistrationNext
  BY <1>6, <1>7, <1>8, <1>9, <1>10, <1>11, <1>12, <1>13, <1>14, <1>15, RegistrationSteps
<1> QED
  BY <1>14, <1>15 DEF registrationVars

-----------------------------------------------------------------------------
(* Places and days. *)

LEMMA PlacedFinite ==
  ASSUME RegistrationSound
  PROVE  /\ IsFiniteSet(Placed) /\ Cardinality(Placed) \in Nat
         /\ Cardinality(Placed) <= Taken
<1>1. IsFiniteSet(Registered) /\ IsFiniteSet(ActiveTasks)
  BY CountsNat DEF RegistrationSound
<1>2. /\ IsFiniteSet({task[k].user : k \in ActiveTasks})
      /\ Cardinality({task[k].user : k \in ActiveTasks}) <= Cardinality(ActiveTasks)
  <2> DEFINE f == [k \in ActiveTasks |-> task[k].user]
  <2>1. f \in Surjection(ActiveTasks, {task[k].user : k \in ActiveTasks})
    BY DEF Surjection
  <2> QED
    BY <1>1, <2>1, FS_Surjection
<1>3. /\ IsFiniteSet(Placed)
      /\ Cardinality(Placed) = Cardinality(Registered) + Cardinality({task[k].user : k \in ActiveTasks})
                                 - Cardinality(Registered \intersect {task[k].user : k \in ActiveTasks})
  BY <1>1, <1>2, FS_Union DEF Placed
<1>4. IsFiniteSet(Registered \intersect {task[k].user : k \in ActiveTasks})
  BY <1>1, FS_Intersection, <1>2
<1>5. /\ Cardinality(Registered \intersect {task[k].user : k \in ActiveTasks}) \in Nat
      /\ Cardinality(Registered) \in Nat /\ Cardinality(ActiveTasks) \in Nat /\ Cardinality(Placed) \in Nat
      /\ Cardinality({task[k].user : k \in ActiveTasks}) \in Nat
  BY <1>1, <1>2, <1>3, <1>4, FS_CardinalityType
<1> QED
  BY <1>2, <1>3, <1>5 DEF Taken

\* A place more, or none.
LEMMA PlacesGrow ==
  ASSUME NEW S, NEW T, IsFiniteSet(S)
  PROVE  /\ T \subseteq S => IsFiniteSet(T) /\ Cardinality(T) <= Cardinality(S)
         /\ \A u : T \subseteq S \union {u} => Cardinality(T) <= Cardinality(S) + 1
<1>1. T \subseteq S => IsFiniteSet(T) /\ Cardinality(T) <= Cardinality(S)
  BY FS_Subset
<1>2. ASSUME NEW u, T \subseteq S \union {u} PROVE Cardinality(T) <= Cardinality(S) + 1
  <2>1. /\ IsFiniteSet(S \union {u})
        /\ Cardinality(S \union {u}) = IF u \in S THEN Cardinality(S) ELSE Cardinality(S) + 1
    BY FS_AddElement
  <2>2. Cardinality(T) <= Cardinality(S \union {u})
    BY <1>2, <2>1, FS_Subset
  <2>3. IsFiniteSet(T)
    BY <1>2, <2>1, FS_Subset
  <2>4. Cardinality(S) \in Nat /\ Cardinality(T) \in Nat
    BY <2>3, FS_CardinalityType
  <2> QED
    BY <2>1, <2>2, <2>4
<1> QED
  BY <1>1, <1>2

\* What keeps a user's place: his account, or an active task of his.
LEMMA PlacedBy ==
  /\ \A u : u \in Placed <=> (u \in User /\ user[u].id # None)
                             \/ \E k \in TaskKey : task[k].st \in {"pending", "running"} /\ task[k].user = u
  /\ \A u : u \in Placed' <=> (u \in User /\ user'[u].id # None)
                              \/ \E k \in TaskKey : task'[k].st \in {"pending", "running"} /\ task'[k].user = u
BY DEF Placed, Registered, ActiveTasks, Active, Status

\* The submissions under way that counted a free place.
Hopeful == {s \in Slot : sub[s] # NoSub /\ sub[s].taken < UserLimit}

\* A step adds at most one place, and says so unless a submission counted it.
PlacesMove ==
    \/ Placed' \subseteq Placed /\ excess' >= excess
    \/ \E u : Placed' \subseteq Placed \union {u} /\ excess' = excess + 1
    \/ \E u : Placed' \subseteq Placed \union {u} /\ excess' = excess
              /\ \E s \in Hopeful : sub' = [sub EXCEPT ![s] = NoSub]

LEMMA PlacesStep ==
  ASSUME RegistrationSound, [RegistrationNext]_registrationVars
  PROVE  PlacesMove
<1>0. excess \in Nat /\ user \in [User -> [id: Id \union {None}, us: Nat]]
      /\ task \in [TaskKey -> {NoTask} \union SomeTask]
  BY DEF RegistrationSound, RegistrationTyped
<1>a. Placed' \subseteq Placed /\ excess' = excess => PlacesMove
  BY <1>0 DEF PlacesMove
<1>b. \A u : Placed' \subseteq Placed \union {u} /\ excess' = excess + 1 => PlacesMove
  BY DEF PlacesMove
<1>c. \A u : \A s \in Hopeful :
        Placed' \subseteq Placed \union {u} /\ excess' = excess /\ sub' = [sub EXCEPT ![s] = NoSub] => PlacesMove
  BY DEF PlacesMove
<1>1. ASSUME \A u \in User : user'[u].id # None => user[u].id # None,
             \A k \in TaskKey : task'[k].st \in {"pending", "running"} =>
                task[k].st \in {"pending", "running"} /\ task'[k].user = task[k].user,
             excess' = excess
      PROVE  PlacesMove
  <2>1. Placed' \subseteq Placed
    BY <1>1, PlacedBy
  <2> QED
    BY <1>1, <2>1, <1>a
<1>2. CASE UNCHANGED <<user, task, excess>>
  BY <1>1, <1>2
<1>3. ASSUME NEW u \in User, NEW c \in Code, Redeem(u, c)
      PROVE  \A v \in User : user'[v].id = user[v].id
  BY <1>0, <1>3 DEF Redeem
<1>4. ASSUME NEW s \in Slot, SubmitCommits(s) PROVE PlacesMove
  <2>1. sub[s] \in SomeSub /\ sub[s].key \in TaskKey /\ sub[s].user \in User
    BY <1>4, CommitColumns DEF SomeSub
  <2>2. \A v \in User : user'[v].id = user[v].id
    BY <1>3, <1>4, <2>1, CommitColumns
  <2>3. \A k \in TaskKey : k # sub[s].key => task'[k] = task[k]
    <3>1. PICK t : task' = [task EXCEPT ![sub[s].key] = t]
      BY <1>4, CommitColumns
    <3> QED
      BY <1>0, <2>1, <3>1
  <2>4. task'[sub[s].key].user = sub[s].user
    <3> DEFINE n == [st |-> "pending", user |-> sub[s].user, by |-> None, cancel |-> FALSE,
                     lapsed |-> FALSE, consume |-> sub[s].needsCode, over |-> FALSE]
    <3>1. task' = [task EXCEPT ![sub[s].key] = n]
      BY <1>4, CommitColumns
    <3>2. n.user = sub[s].user
      OBVIOUS
    <3> HIDE DEF n
    <3>3. task'[sub[s].key] = n
      BY <1>0, <2>1, <3>1
    <3> QED
      BY <3>2, <3>3
  <2>5. Placed' \subseteq Placed \union {sub[s].user}
    BY <2>2, <2>3, <2>4, PlacedBy
  <2>6. excess' = excess /\ sub' = [sub EXCEPT ![s] = NoSub]
    BY <1>4, CommitColumns
  <2>7. s \in Hopeful
    BY <1>4, <2>1, CommitColumns DEF Hopeful, SubmitCommits
  <2> QED
    BY <2>5, <2>6, <2>7, <1>c
<1>5. ASSUME NEW u \in User, NEW c \in Code, RedeemBefore(u, c) PROVE PlacesMove
  <2>1. task' = task /\ excess' = excess
    BY <1>5 DEF RedeemBefore
  <2>2. \A v \in User : user'[v].id = user[v].id
    BY <1>3, <1>5 DEF RedeemBefore
  <2> QED
    BY <1>1, <2>1, <2>2
<1>6. ASSUME NEW k \in TaskKey, AtTask(k) PROVE PlacesMove
  <2>1. user' = user /\ \A j \in TaskKey : j # k => task'[j] = task[j]
    BY <1>6, AtTaskColumns
  <2>2. CASE task'[k] = NoTask /\ excess' = excess
    BY <1>1, <2>1, <2>2 DEF NoTask
  <2>3. CASE TaskMoves(k)
    <3>1. CASE excess' = excess /\ (task'[k].st = "canceled" \/ task'[k].st = task[k].st)
      BY <1>1, <2>1, <2>3, <3>1 DEF TaskMoves
    <3>2. CASE excess' = excess + 1
      <4>1. Placed' \subseteq Placed \union {task'[k].user}
        BY <2>1, PlacedBy
      <4> QED
        BY <3>2, <4>1, <1>b
    <3> QED
      BY <2>3, <3>1, <3>2 DEF TaskMoves
  <2> QED
    BY <1>6, <2>2, <2>3, AtTaskColumns
<1>7. ASSUME NEW k \in TaskKey, task'[k] = Recovered(k), task'[k].st \in {"pending", "running"}
      PROVE  task[k].st \in {"pending", "running"} /\ task'[k].user = task[k].user
  BY <1>7, RecoveredRight DEF RegistrationSound
<1>8. ASSUME NEW w \in Worker, Claims(w) PROVE PlacesMove
  <2>1. user' = user /\ excess' = excess
    BY <1>8, ClaimsColumns
  <2>2. ASSUME NEW k \in TaskKey, task'[k].st \in {"pending", "running"}
        PROVE  task[k].st \in {"pending", "running"} /\ task'[k].user = task[k].user
    <3>1. CASE task'[k] = Recovered(k)
      BY <1>7, <2>2, <3>1
    <3>2. CASE task'[k] # Recovered(k)
      <4>1. /\ task[k].st = "pending"
            /\ task'[k] = [task[k] EXCEPT !.st = "running", !.by = w, !.lapsed = FALSE]
        BY <1>8, <2>2, <3>2, ClaimsColumns DEF Status
      <4>2. task[k] \in SomeTask
        BY <4>1, TaskKnown DEF RegistrationSound, Status
      <4> QED
        BY <4>1, <4>2 DEF SomeTask
    <3> QED
      BY <3>1, <3>2
  <2> QED
    BY <1>1, <2>1, <2>2
<1>9. ASSUME NEW w \in Worker, Recovers(w) PROVE PlacesMove
  BY <1>1, <1>7, <1>9, RecoversSound
<1>10. ASSUME NEW w \in Worker, Heartbeat(w) PROVE PlacesMove
  <2>1. user' = user /\ excess' = excess
    BY <1>10, HeartbeatSound
  <2>2. ASSUME NEW k \in TaskKey, task'[k].st \in {"pending", "running"}
        PROVE  task[k].st \in {"pending", "running"} /\ task'[k].user = task[k].user
    BY <1>0, <1>10, <2>2, HeartbeatSound DEF TaskMoves
  <2> QED
    BY <1>1, <2>1, <2>2
<1>11. ASSUME NEW w \in Worker, HandlerMoves(w) PROVE PlacesMove
  <2>1. task' = task
    BY <1>11 DEF HandlerMoves
  <2>2. CASE ~HandlerCompletes(w)
    <3>1. user' = user /\ excess' = excess
      BY <1>11, <2>2 DEF HandlerMoves, HandlerStays, HandlerMakes, HandlerLeaves
    <3> QED
      BY <1>2, <2>1, <3>1
  <2>3. CASE HandlerCompletes(w)
    <3> DEFINE u == task[worker[w].task].user
    <3>1. u \in User /\ worker[w].task \in TaskKey
      BY <1>11, WorkerKnown DEF HandlerMoves, SomeTask
    <3>2. \A v \in User : v # u => user'[v] = user[v]
      BY <1>0, <2>3, <3>1 DEF HandlerCompletes
    <3>3. Placed' \subseteq Placed \union {u}
      BY <2>1, <3>1, <3>2, PlacedBy
    <3>4. CASE Mine(w)
      <4>1. u \in Placed
        BY <3>1, <3>4, PlacedBy DEF Mine
      <4>2. excess' = excess
        BY <2>3, <3>4 DEF HandlerCompletes
      <4> QED
        BY <3>3, <4>1, <4>2, <1>a
    <3>5. CASE ~Mine(w)
      BY <2>3, <3>3, <3>5, <1>b DEF HandlerCompletes
    <3> QED
      BY <3>4, <3>5
  <2> QED
    BY <2>2, <2>3
<1>12. ASSUME NEW w \in Worker, WorkerEnds(w) PROVE PlacesMove
  <2>1. user' = user /\ excess' = excess
    BY <1>12 DEF WorkerEnds
  <2>2. ASSUME NEW k \in TaskKey, task'[k].st \in {"pending", "running"}
        PROVE  task[k].st \in {"pending", "running"} /\ task'[k].user = task[k].user
    BY <1>12, <2>2 DEF WorkerEnds
  <2> QED
    BY <1>1, <2>1, <2>2
<1>13. ASSUME NEW w \in Worker, NEW k \in TaskKey, Picks(w, k) PROVE PlacesMove
  BY <1>2, <1>13 DEF Picks
<1>14. CASE RegistrationNext
  BY <1>2, <1>4, <1>5, <1>6, <1>8, <1>9, <1>10, <1>11, <1>12, <1>13, <1>14, RegistrationSteps
<1> QED
  BY <1>2, <1>14 DEF registrationVars

LEMMA PlacedKept == RegistrationSound' => (IsFiniteSet(Placed) /\ Cardinality(Placed) \in Nat)'
<1>1. RegistrationSound => IsFiniteSet(Placed) /\ Cardinality(Placed) \in Nat
  BY PlacedFinite
<1> QED
  BY <1>1, PTL

\* Whoever has counted a free place may still take it.
PlacesBounded ==
    Cardinality(Placed) + Cardinality(Hopeful) <= UserLimit + crowd - 1 + excess

\* As many submissions as are open have been open at once.
CrowdCounts == crowd \in Nat /\ crowd >= 1 /\ Cardinality(OpenSubs) <= crowd

LEMMA SlotSets ==
  ASSUME NEW S \in SUBSET Slot
  PROVE  IsFiniteSet(S) /\ Cardinality(S) \in Nat
<1>1. IsFiniteSet(S)
  BY RegistrationAssumption, FS_Subset
<1> QED
  BY <1>1, FS_CardinalityType

LEMMA HopefulFinite ==
  /\ IsFiniteSet(Hopeful) /\ Cardinality(Hopeful) \in Nat
  /\ Cardinality(Hopeful) <= Cardinality(OpenSubs) /\ Cardinality(OpenSubs) \in Nat
<1>1. Hopeful \subseteq OpenSubs /\ OpenSubs \subseteq Slot
  BY DEF Hopeful, OpenSubs
<1>2. IsFiniteSet(OpenSubs) /\ Cardinality(OpenSubs) \in Nat
  BY <1>1, SlotSets
<1>3. IsFiniteSet(Hopeful) /\ Cardinality(Hopeful) <= Cardinality(OpenSubs)
  BY <1>1, <1>2, FS_Subset
<1> QED
  BY <1>2, <1>3, FS_CardinalityType

LEMMA HopefulFiniteNext ==
  (/\ IsFiniteSet(Hopeful) /\ Cardinality(Hopeful) \in Nat
   /\ Cardinality(Hopeful) <= Cardinality(OpenSubs) /\ Cardinality(OpenSubs) \in Nat)'
BY HopefulFinite, PTL

\* One who had counted a free place is done with, or nobody has come to count one.
HopefulShrink(s) == s \in Hopeful /\ sub' = [sub EXCEPT ![s] = NoSub]

LEMMA HopefulDone ==
  ASSUME RegistrationSound, NEW s \in Slot, HopefulShrink(s)
  PROVE  \E T : T = Hopeful' /\ Cardinality(T) = Cardinality(Hopeful) - 1
<1>1. sub \in [Slot -> {NoSub} \union SomeSub]
  BY DEF RegistrationSound, RegistrationTyped
<1>2. PICK T : T = Hopeful'
  OBVIOUS
<1>3. T = {z \in Slot : sub'[z] # NoSub /\ sub'[z].taken < UserLimit}
  BY <1>2 DEF Hopeful
<1>4. T = Hopeful \ {s}
  BY <1>1, <1>3 DEF Hopeful, HopefulShrink
<1>5. s \in Hopeful /\ IsFiniteSet(Hopeful)
  BY HopefulFinite DEF HopefulShrink
<1>6. Cardinality(Hopeful \ {s}) = Cardinality(Hopeful) - 1
  BY <1>5, FS_RemoveElement
<1> QED
  BY <1>2, <1>4, <1>6

\* Only a submission that begins while there is a free place hopes for one.
LEMMA HopefulStep ==
  ASSUME RegistrationSound, [RegistrationNext]_registrationVars
  PROVE  \/ Hopeful' \subseteq Hopeful
         \/ Taken < UserLimit /\ UNCHANGED <<user, task, excess>>
<1>0. sub \in [Slot -> {NoSub} \union SomeSub]
  BY DEF RegistrationSound, RegistrationTyped
<1>1. ASSUME NEW s \in Slot, sub' = [sub EXCEPT ![s] = NoSub] PROVE Hopeful' \subseteq Hopeful
  BY <1>0, <1>1 DEF Hopeful
<1>2. CASE sub' = sub
  BY <1>2 DEF Hopeful
<1>3. ASSUME NEW u \in User, NEW k \in TaskKey, SubmitBegins(u, k)
      PROVE  \/ Hopeful' \subseteq Hopeful
             \/ Taken < UserLimit /\ UNCHANGED <<user, task, excess>>
  <2>1. UNCHANGED <<user, task, excess>>
    BY <1>3 DEF SubmitBegins
  <2>2. PICK s \in Slot : \E b : sub' = [sub EXCEPT ![s] = b] /\ b.taken = Taken
    <3>1. PICK s \in Slot, c \in Code \union {None}, needsCode \in BOOLEAN :
            sub' = [sub EXCEPT ![s] = [user |-> u, key |-> k, code |-> c, needsCode |-> needsCode,
                                       taken |-> Taken, waiting |-> Cardinality(Waiting),
                                       dup |-> ActiveOf(u) # {}]]
      BY <1>3 DEF SubmitBegins
    <3>2. [user |-> u, key |-> k, code |-> c, needsCode |-> needsCode, taken |-> Taken,
           waiting |-> Cardinality(Waiting), dup |-> ActiveOf(u) # {}].taken = Taken
      OBVIOUS
    <3> QED
      BY <3>1, <3>2
  <2>3. CASE ~(Taken < UserLimit)
    BY <1>0, <2>2, <2>3 DEF Hopeful
  <2> QED
    BY <2>1, <2>3
<1>4. ASSUME NEW s \in Slot, SubmitReturns(s) \/ SubmitCommits(s) PROVE Hopeful' \subseteq Hopeful
  BY <1>1, <1>4, CommitColumns DEF SubmitReturns
<1>5. ASSUME NEW k \in TaskKey, AtTask(k) PROVE sub' = sub
  BY <1>5, AtTaskColumns
<1>6. ASSUME NEW u \in User, NEW c \in Code, RedeemBefore(u, c) PROVE sub' = sub
  BY <1>6 DEF RedeemBefore
<1>7. ASSUME NEW w \in Worker, NEW k \in TaskKey, Picks(w, k) PROVE sub' = sub
  BY <1>7 DEF Picks
<1>8. ASSUME NEW w \in Worker, Claims(w) \/ Recovers(w) \/ Heartbeat(w) \/ HandlerMoves(w) \/ WorkerEnds(w)
      PROVE  sub' = sub
  BY <1>8 DEF Claims, Recovers, Heartbeat, HandlerMoves, WorkerEnds
<1>9. CASE RegistrationNext
  <2>1. CASE \E u \in User, k \in TaskKey : CreateUser(u, k) \/ SubmitRegistration(u, k)
    BY <1>3, <2>1 DEF CreateUser, SubmitRegistration
  <2>2. CASE \E s \in Slot : SubmitReturns(s) \/ SubmitCommits(s)
    BY <1>4, <2>2
  <2>3. CASE \/ \E k \in TaskKey : AtTask(k)
             \/ \E u \in User, c \in Code : RedeemBefore(u, c)
             \/ \E w \in Worker, k \in TaskKey : Picks(w, k)
             \/ \E w \in Worker : Claims(w) \/ Recovers(w) \/ Heartbeat(w) \/ HandlerMoves(w) \/ WorkerEnds(w)
    BY <1>2, <1>5, <1>6, <1>7, <1>8, <2>3
  <2>4. ASSUME NEW w \in Worker, Execute(w) \/ StopsOnHeartbeat(w) \/ TimesOut(w) \/ Crash(w)
        PROVE  HandlerMoves(w) \/ WorkerEnds(w)
    BY <2>4, HandlerColumns, EndsColumns DEF Execute, HandlerStep
  <2> QED
    BY <1>9, <2>1, <2>2, <2>3, <2>4 DEF RegistrationNext, AtTask
<1> QED
  BY <1>2, <1>9 DEF registrationVars

\* The crowd is counted where a submission begins, and never forgotten.
CrowdMoves ==
    \/ OpenSubs' \subseteq OpenSubs /\ crowd' = crowd
    \/ \E s \in Slot : /\ OpenSubs' \subseteq OpenSubs \union {s}
                       /\ crowd' = IF Cardinality(OpenSubs) = crowd THEN crowd + 1 ELSE crowd

LEMMA CrowdChanges ==
  ASSUME RegistrationSound, [RegistrationNext]_registrationVars
  PROVE  CrowdMoves
<1>0. sub \in [Slot -> {NoSub} \union SomeSub]
  BY DEF RegistrationSound, RegistrationTyped
<1>1. ASSUME NEW s \in Slot, SubmitReturns(s) \/ SubmitCommits(s) PROVE CrowdMoves
  <2>1. crowd' = crowd /\ sub' = [sub EXCEPT ![s] = NoSub]
    BY <1>1 DEF SubmitReturns, SubmitCommits
  <2> QED
    BY <1>0, <2>1 DEF CrowdMoves, OpenSubs
<1>2. CASE sub' = sub /\ crowd' = crowd
  BY <1>2 DEF CrowdMoves, OpenSubs
<1>3. ASSUME NEW u \in User, NEW k \in TaskKey, SubmitBegins(u, k) PROVE CrowdMoves
  <2>1. PICK s \in Slot : \E b : sub' = [sub EXCEPT ![s] = b]
    BY <1>3 DEF SubmitBegins
  <2>2. OpenSubs' \subseteq OpenSubs \union {s}
    BY <1>0, <2>1 DEF OpenSubs
  <2>3. crowd' = IF Cardinality(OpenSubs) = crowd THEN crowd + 1 ELSE crowd
    BY <1>3 DEF SubmitBegins
  <2> QED
    BY <2>2, <2>3 DEF CrowdMoves
<1>4. ASSUME NEW k \in TaskKey, OwnerCancels(k) \/ AdminCancels(k) \/ AdminRetries(k) \/ Cleanup(k) \/ Lapses(k)
      PROVE  sub' = sub /\ crowd' = crowd
  BY <1>4 DEF OwnerCancels, AdminCancels, AdminRetries, Cleanup, Lapses
<1>5. ASSUME NEW u \in User, NEW c \in Code, RedeemBefore(u, c) PROVE sub' = sub /\ crowd' = crowd
  BY <1>5 DEF RedeemBefore
<1>6. ASSUME NEW w \in Worker, NEW k \in TaskKey, Picks(w, k) PROVE sub' = sub /\ crowd' = crowd
  BY <1>6 DEF Picks
<1>7. ASSUME NEW w \in Worker, Claims(w) \/ Recovers(w) \/ Heartbeat(w) PROVE sub' = sub /\ crowd' = crowd
  BY <1>7 DEF Claims, Recovers, Heartbeat
<1>8. ASSUME NEW w \in Worker, Execute(w) PROVE sub' = sub /\ crowd' = crowd
  <2>1. Check(w) \/ Create(w) \/ CreateRefused(w) \/ Setup(w) => sub' = sub /\ crowd' = crowd
    BY DEF Check, Create, CreateRefused, Setup
  <2>2. Complete(w) \/ CompleteRaises(w) \/ Rollback(w) => sub' = sub /\ crowd' = crowd
    BY DEF Complete, CompleteRaises, Rollback
  <2>3. Reports(w) \/ Fails(w) => sub' = sub /\ crowd' = crowd
    BY DEF Reports, Fails
  <2> QED
    BY <1>8, <2>1, <2>2, <2>3 DEF Execute
<1>9. ASSUME NEW w \in Worker, StopsOnHeartbeat(w) \/ TimesOut(w) \/ Crash(w) PROVE sub' = sub /\ crowd' = crowd
  BY <1>9 DEF StopsOnHeartbeat, TimesOut, Crash, Interrupted
<1>10. CASE RegistrationNext
  <2>1. CASE \E u \in User, k \in TaskKey : CreateUser(u, k) \/ SubmitRegistration(u, k)
    BY <1>3, <2>1 DEF CreateUser, SubmitRegistration
  <2>2. CASE \E s \in Slot : SubmitReturns(s) \/ SubmitCommits(s)
    BY <1>1, <2>2
  <2>3. CASE \E u \in User, c \in Code : RedeemBefore(u, c)
    BY <1>2, <1>5, <2>3
  <2>4. CASE \E k \in TaskKey : OwnerCancels(k) \/ AdminCancels(k) \/ AdminRetries(k) \/ Cleanup(k) \/ Lapses(k)
    BY <1>2, <1>4, <2>4
  <2>5. CASE \E w \in Worker, k \in TaskKey : Picks(w, k)
    BY <1>2, <1>6, <2>5
  <2>6. CASE \E w \in Worker : \/ Claims(w) \/ Recovers(w) \/ Execute(w) \/ Heartbeat(w)
                               \/ StopsOnHeartbeat(w) \/ TimesOut(w) \/ Crash(w)
    BY <1>2, <1>7, <1>8, <1>9, <2>6
  <2> QED
    BY <1>10, <2>1, <2>2, <2>3, <2>4, <2>5, <2>6 DEF RegistrationNext
<1> QED
  BY <1>2, <1>10 DEF registrationVars

LEMMA CrowdStep ==
  ASSUME RegistrationSound, CrowdCounts, [RegistrationNext]_registrationVars
  PROVE  CrowdCounts' /\ crowd' \in Nat /\ crowd' >= crowd
<1>1. PICK T : T = OpenSubs'
  OBVIOUS
<1>2. PICK n \in Nat, m \in Nat : n = Cardinality(OpenSubs) /\ m = crowd
  BY HopefulFinite DEF CrowdCounts
<1>3. T \subseteq Slot /\ OpenSubs \subseteq Slot /\ m >= 1 /\ n <= m
  BY <1>1, <1>2 DEF OpenSubs, CrowdCounts
<1>4. IsFiniteSet(OpenSubs) /\ Cardinality(T) \in Nat
  BY <1>3, SlotSets
<1>5. crowd' \in Nat /\ crowd' >= m /\ Cardinality(T) <= crowd'
  <2>1. CASE T \subseteq OpenSubs /\ crowd' = crowd
    BY <1>2, <1>3, <1>4, <2>1, FS_Subset
  <2>2. CASE \E s \in Slot : T \subseteq OpenSubs \union {s} /\ crowd' = IF n = m THEN m + 1 ELSE m
    <3>1. Cardinality(T) <= n + 1
      BY <1>2, <1>4, <2>2, PlacesGrow
    <3> QED
      BY <1>2, <1>3, <1>4, <2>2, <3>1
  <2> QED
    BY <1>1, <1>2, <2>1, <2>2, CrowdChanges DEF CrowdMoves
<1>6. CrowdCounts' <=> crowd' \in Nat /\ crowd' >= 1 /\ Cardinality(T) <= crowd'
  BY <1>1 DEF CrowdCounts
<1> QED
  BY <1>2, <1>3, <1>5, <1>6

LEMMA LimitStep ==
  RegistrationSound /\ RegistrationSound' /\ CrowdCounts /\ PlacesBounded /\ [RegistrationNext]_registrationVars
    => PlacesBounded'
<1> SUFFICES ASSUME RegistrationSound, RegistrationSound', CrowdCounts, PlacesBounded,
                    [RegistrationNext]_registrationVars
             PROVE  PlacesBounded'
  OBVIOUS
<1>1. PICK P, H : P = Placed' /\ H = Hopeful'
  OBVIOUS
<1>2. PICK p \in Nat, h \in Nat, n \in Nat, m \in Nat :
        p = Cardinality(Placed) /\ h = Cardinality(Hopeful) /\ n = crowd /\ m = crowd'
  BY PlacedFinite, HopefulFinite, CrowdStep DEF CrowdCounts
<1>3. IsFiniteSet(Placed) /\ IsFiniteSet(Hopeful) /\ p <= Taken /\ n >= 1 /\ m >= n
  BY <1>2, PlacedFinite, HopefulFinite, CrowdStep DEF CrowdCounts
<1>4. UserLimit \in Nat /\ excess \in Nat /\ excess' \in Nat /\ Taken \in Nat
  BY RegistrationAssumption, CountsNat DEF RegistrationSound, RegistrationTyped
<1>5. Cardinality(P) \in Nat /\ Cardinality(H) \in Nat /\ Cardinality(H) <= m
  <2>1. CrowdCounts'
    BY CrowdStep
  <2>2. PICK o \in Nat : o = Cardinality(OpenSubs)'
    BY HopefulFiniteNext
  <2>3. Cardinality(H) \in Nat /\ Cardinality(H) <= o
    BY <1>1, <2>2, HopefulFiniteNext
  <2>4. o <= m
    BY <1>2, <2>1, <2>2 DEF CrowdCounts
  <2> QED
    BY <1>1, <1>2, <2>3, <2>4, PlacedKept
<1>6. p + h <= UserLimit + n - 1 + excess
  BY <1>2 DEF PlacesBounded
<1>7. P \subseteq Placed => Cardinality(P) <= p
  BY <1>2, <1>3, PlacesGrow
<1>8. \A u : P \subseteq Placed \union {u} => Cardinality(P) <= p + 1
  BY <1>2, <1>3, PlacesGrow
<1>9. H \subseteq Hopeful => Cardinality(H) <= h
  BY <1>2, <1>3, PlacesGrow
<1>10. Cardinality(P) + Cardinality(H) <= UserLimit + m - 1 + excess'
  <2>1. CASE Taken < UserLimit /\ UNCHANGED <<user, task, excess>>
    <3>1. P = Placed
      BY <1>1, <2>1 DEF Placed, Registered, ActiveTasks, Active, Status
    <3>2. Cardinality(P) <= UserLimit - 1
      BY <1>2, <1>3, <1>4, <2>1, <3>1
    <3> QED
      BY <1>2, <1>3, <1>4, <1>5, <2>1, <3>2
  <2>2. CASE H \subseteq Hopeful
    <3>1. CASE P \subseteq Placed /\ excess' >= excess
      BY <1>2, <1>3, <1>4, <1>5, <1>6, <1>7, <1>9, <2>2, <3>1
    <3>2. CASE \E u : P \subseteq Placed \union {u} /\ excess' = excess + 1
      <4>1. Cardinality(P) <= p + 1 /\ excess' = excess + 1
        BY <1>8, <3>2
      <4> QED
        BY <1>2, <1>3, <1>4, <1>5, <1>6, <1>9, <2>2, <4>1
    <3>3. CASE \E u : P \subseteq Placed \union {u} /\ excess' = excess
                     /\ \E s \in Hopeful : sub' = [sub EXCEPT ![s] = NoSub]
      <4>1. Cardinality(P) <= p + 1 /\ excess' = excess
        BY <1>8, <3>3
      <4>2. PICK s \in Slot : HopefulShrink(s)
        BY <3>3 DEF HopefulShrink, Hopeful
      <4>3. Cardinality(H) = h - 1
        BY <1>1, <1>2, <4>2, HopefulDone
      <4> QED
        BY <1>2, <1>3, <1>4, <1>5, <1>6, <4>1, <4>3
    <3> QED
      BY <1>1, <3>1, <3>2, <3>3, PlacesStep DEF PlacesMove
  <2> QED
    BY <1>1, <2>1, <2>2, HopefulStep
<1>11. PlacesBounded' <=> Cardinality(P) + Cardinality(H) <= UserLimit + m - 1 + excess'
  BY <1>1, <1>2 DEF PlacesBounded
<1> QED
  BY <1>10, <1>11

\* The codes that a user has redeemed.
RedeemedBy(u) == {c \in Code : code[c] = u}

CodesFinite == \A u \in User : IsFiniteSet(RedeemedBy(u))

\* A code counts for the one who redeems it, and for nobody before.
LEMMA RedeemStep ==
  ASSUME RegistrationTyped, CodesFinite, DaysAddUp, NEW u \in User, NEW c \in Code, Redeem(u, c), spent' = spent
  PROVE  CodesFinite' /\ DaysAddUp'
<1>1. /\ user \in [User -> [id: Id \union {None}, us: Nat]] /\ code \in [Code -> User \union {None}]
      /\ spent \in [User -> Nat]
  BY DEF RegistrationTyped
<1>2. code[c] = None /\ code' = [code EXCEPT ![c] = u] /\ user' = [user EXCEPT ![u].us = @ + 1]
  BY DEF Redeem
<1>3. /\ {d \in Code : code'[d] = u} = RedeemedBy(u) \union {c} /\ c \notin RedeemedBy(u)
      /\ \A v \in User : v # u => {d \in Code : code'[d] = v} = RedeemedBy(v)
  BY <1>1, <1>2, RegistrationAssumption DEF RedeemedBy
<1>4. /\ IsFiniteSet(RedeemedBy(u) \union {c})
      /\ Cardinality(RedeemedBy(u) \union {c}) = Cardinality(RedeemedBy(u)) + 1
  BY <1>3, FS_AddElement DEF CodesFinite
<1>5. user'[u].us = user[u].us + 1 /\ \A v \in User : v # u => user'[v].us = user[v].us
  BY <1>1, <1>2
<1>6. \A v \in User : user[v].us + spent[v] = Cardinality(RedeemedBy(v))
  BY DEF DaysAddUp, RedeemedBy
<1>7. CodesFinite'
  BY <1>3, <1>4 DEF CodesFinite, RedeemedBy
<1>8. ASSUME NEW v \in User PROVE user'[v].us + spent[v] = Cardinality({d \in Code : code'[d] = v})
  <2>1. user[v].us \in Nat /\ spent[v] \in Nat
    BY <1>1
  <2>2. CASE v = u
    <3>1. Cardinality({d \in Code : code'[d] = v}) = Cardinality(RedeemedBy(v)) + 1
      BY <1>3, <1>4, <2>2
    <3> QED
      BY <1>5, <1>6, <2>1, <2>2, <3>1
  <2>3. CASE v # u
    <3>1. Cardinality({d \in Code : code'[d] = v}) = Cardinality(RedeemedBy(v))
      BY <1>3, <2>3
    <3> QED
      BY <1>5, <1>6, <2>1, <2>3, <3>1
  <2> QED
    BY <2>2, <2>3
<1> QED
  BY <1>7, <1>8 DEF DaysAddUp

LEMMA DaysStep ==
  RegistrationSound /\ CodesFinite /\ DaysAddUp /\ [RegistrationNext]_registrationVars => CodesFinite' /\ DaysAddUp'
<1> SUFFICES ASSUME RegistrationSound, CodesFinite, DaysAddUp, [RegistrationNext]_registrationVars
             PROVE  CodesFinite' /\ DaysAddUp'
  OBVIOUS
<1>1. CASE UNCHANGED <<user, code, spent>>
  BY <1>1 DEF CodesFinite, RedeemedBy, DaysAddUp
<1>2. ASSUME NEW s \in Slot, SubmitCommits(s) PROVE CodesFinite' /\ DaysAddUp'
  <2>1. sub[s].user \in User /\ spent' = spent
    BY <1>2, CommitColumns DEF SomeSub
  <2>2. UNCHANGED <<user, code>> \/ \E c \in Code : Redeem(sub[s].user, c)
    BY <1>2, CommitColumns
  <2> QED
    BY <1>1, <2>1, <2>2, RedeemStep DEF RegistrationSound
<1>3. ASSUME NEW u \in User, NEW c \in Code, RedeemBefore(u, c) PROVE CodesFinite' /\ DaysAddUp'
  BY <1>3, RedeemStep DEF RedeemBefore, RegistrationSound
<1>4. ASSUME NEW k \in TaskKey, AtTask(k) PROVE UNCHANGED <<user, code, spent>>
  BY <1>4, AtTaskColumns
<1>5. ASSUME NEW w \in Worker, HandlerMoves(w) PROVE CodesFinite' /\ DaysAddUp'
  <2>1. code' = code
    BY <1>5 DEF HandlerMoves
  <2>2. CASE ~HandlerCompletes(w)
    <3>1. user' = user /\ spent' = spent
      BY <1>5, <2>2 DEF HandlerMoves, HandlerStays, HandlerMakes, HandlerLeaves
    <3> QED
      BY <1>1, <2>1, <3>1
  <2>3. CASE HandlerCompletes(w)
    <3> DEFINE u == task[worker[w].task].user
    <3>1. u \in User
      BY <1>5, WorkerKnown DEF HandlerMoves, SomeTask
    <3>2. user \in [User -> [id: Id \union {None}, us: Nat]] /\ spent \in [User -> Nat]
      BY DEF RegistrationSound, RegistrationTyped
    <3>3. PICK r \in [id: Id \union {None}, us: Nat] :
            /\ user' = [user EXCEPT ![u] = r]
            /\ \/ r.us = 0 /\ spent' = [spent EXCEPT ![u] = spent[u] + user[u].us]
               \/ r.us = user[u].us /\ spent' = spent
      BY <2>3 DEF HandlerCompletes
    <3>4. \A v \in User : user'[v].us + spent'[v] = user[v].us + spent[v]
      <4> TAKE v \in User
      <4>1. user[v].us \in Nat /\ spent[v] \in Nat
        BY <3>2
      <4>2. CASE v = u
        BY <3>1, <3>2, <3>3, <4>1, <4>2
      <4>3. CASE v # u
        BY <3>1, <3>2, <3>3, <4>3
      <4> QED
        BY <4>2, <4>3
    <3> QED
      BY <2>1, <3>4 DEF CodesFinite, RedeemedBy, DaysAddUp
  <2> QED
    BY <2>2, <2>3
<1>6. ASSUME NEW w \in Worker, Claims(w) \/ Recovers(w) \/ Heartbeat(w) \/ WorkerEnds(w)
      PROVE  UNCHANGED <<user, code, spent>>
  BY <1>6 DEF Claims, Recovers, Heartbeat, WorkerEnds
<1>7. ASSUME NEW w \in Worker, NEW k \in TaskKey, Picks(w, k) PROVE UNCHANGED <<user, code, spent>>
  BY <1>7 DEF Picks
<1>8. CASE RegistrationNext
  BY <1>1, <1>2, <1>3, <1>4, <1>5, <1>6, <1>7, <1>8, RegistrationSteps
<1> QED
  BY <1>1, <1>8 DEF registrationVars

-----------------------------------------------------------------------------
\* What registration keeps, under whatever interleaving.
RegistrationRight ==
    RegistrationSound /\ Owners /\ AccountsAccountedFor /\ CrowdCounts /\ PlacesBounded /\ CodesFinite /\ DaysAddUp

LEMMA RegistrationStarts == RegistrationInit => RegistrationRight
<1> SUFFICES ASSUME RegistrationInit PROVE RegistrationRight
  OBVIOUS
<1>1. RegistrationSound
  BY RegistrationInitSound
<1>2. Owners
  BY DEF RegistrationInit, Owners, Running, Resting
<1>3. AccountsAccountedFor
  BY DEF RegistrationInit, AccountsAccountedFor
<1>4. Placed = {}
  BY PlacedBy DEF RegistrationInit, NoTask
<1>5. PlacesBounded
  <2>1. Hopeful = {}
    BY DEF RegistrationInit, Hopeful
  <2>2. Cardinality(Placed) = 0 /\ Cardinality(Hopeful) = 0
    BY <1>4, <2>1, FS_EmptySet
  <2>3. UserLimit \in Nat /\ excess = 0 /\ crowd = 1
    BY RegistrationAssumption DEF RegistrationInit
  <2> QED
    BY <2>2, <2>3 DEF PlacesBounded
<1>6. \A u \in User : RedeemedBy(u) = {}
  BY RegistrationAssumption DEF RegistrationInit, RedeemedBy
<1>7. CodesFinite
  BY <1>6, FS_EmptySet DEF CodesFinite
<1>8. DaysAddUp
  <2> SUFFICES ASSUME NEW u \in User PROVE user[u].us + spent[u] = Cardinality(RedeemedBy(u))
    BY DEF DaysAddUp, RedeemedBy
  <2>1. user[u].us = 0 /\ spent[u] = 0
    BY DEF RegistrationInit
  <2>2. Cardinality(RedeemedBy(u)) = 0
    BY <1>6, FS_EmptySet
  <2> QED
    BY <2>1, <2>2
<1>9. CrowdCounts
  <2>1. OpenSubs = {} /\ crowd = 1
    BY DEF RegistrationInit, OpenSubs
  <2> QED
    BY <2>1, FS_EmptySet DEF CrowdCounts
<1> QED
  BY <1>1, <1>2, <1>3, <1>5, <1>7, <1>8, <1>9 DEF RegistrationRight

LEMMA RegistrationKept == RegistrationRight /\ [RegistrationNext]_registrationVars => RegistrationRight'
BY RegistrationStepSound, OwnersStep, AccountsStep, CrowdStep, LimitStep, DaysStep DEF RegistrationRight

LEMMA RegistrationAlways == AccountsSpec => []RegistrationRight
<1>1. AccountsInit => RegistrationRight
  BY RegistrationStarts DEF AccountsInit
<1>2. RegistrationRight /\ [AccountsNext]_accountsVars => RegistrationRight'
  <2>1. [AccountsNext]_accountsVars => [RegistrationNext]_registrationVars
    BY DEF AccountsNext, accountsVars
  <2> QED
    BY <2>1, RegistrationKept
<1> QED
  BY <1>1, <1>2, PTL DEF AccountsSpec

\* Two handlers work on one task only after a lease lapsed, and every account made on
\* Emby is bound, in the hands of its handler, taken back or lost with an interruption
\* (RegistrationService.execute and its rollback, TaskService.claim).
THEOREM TasksAccountedForAlways == AccountsSpec => []TasksAccountedFor
<1>1. RegistrationRight => TasksAccountedFor
  BY OwnersOneHandler DEF RegistrationRight, TasksAccountedFor
<1> QED
  BY <1>1, RegistrationAlways, PTL

\* Submissions exceed the limit by no more than those ever open at once less one, however
\* old their counts are; only a retry, or a handler whose task was given up before, takes
\* a place beyond that (RegistrationService.submit, TaskService.retry).
THEOREM WithinLimitAlways == AccountsSpec => []WithinLimit
<1>1. RegistrationRight => WithinLimit
  <2> SUFFICES ASSUME RegistrationRight PROVE WithinLimit
    OBVIOUS
  <2>1. RegistrationSound /\ PlacesBounded /\ crowd \in Nat
    BY DEF RegistrationRight, CrowdCounts
  <2>2. Cardinality(Placed) \in Nat /\ Cardinality(Hopeful) \in Nat
    BY <2>1, PlacedFinite, HopefulFinite
  <2>3. UserLimit \in Nat /\ excess \in Nat
    BY <2>1, RegistrationAssumption DEF RegistrationSound, RegistrationTyped
  <2> QED
    BY <2>1, <2>2, <2>3 DEF PlacesBounded, WithinLimit
<1> QED
  BY <1>1, RegistrationAlways, PTL

-----------------------------------------------------------------------------

(* Existing accounts of v2: what rows and handlers say whoever overlaps. *)

Columns == {"id", "lv", "ex", "us", "iv"}

\* What a handler may write: some columns, each with a value it can have.
Settable(f) ==
    /\ DOMAIN f \subseteq Columns
    /\ "id" \in DOMAIN f => f.id \in EmbyId \union {NoId}
    /\ "lv" \in DOMAIN f => f.lv \in Level
    /\ "ex" \in DOMAIN f => f.ex \in Expiry
    /\ "us" \in DOMAIN f => f.us \in 0..MaxCredit
    /\ "iv" \in DOMAIN f => f.iv \in 0..MaxCredit

\* The three forms of a handler: it asks and writes, it moves a row, it registers.
IsPlan(j) ==
    /\ DOMAIN j = {"user", "id", "todo", "op", "by", "set", "checked", "buys"}
    /\ j.user \in Member /\ j.id \in EmbyId \union {NoId} /\ Settable(j.set)
    /\ j.checked \in BOOLEAN /\ j.buys \in BOOLEAN

Switching(j) ==
    /\ j.op \in {"on", "off"} /\ "id" \notin DOMAIN j.set
    /\ j.todo \in {<<"ask", "write">>, <<"write">>, <<"ask">>, <<"write", "ask">>}
    /\ j.by = "tg" \/ (j.by = "embyid" /\ j.id # NoId)
    /\ j.todo = <<"write", "ask">> => ~j.checked
Deleting(j) ==
    /\ j.op = "delete" /\ j.checked /\ ~j.buys
    /\ \/ j.todo \in {<<"ask", "write">>, <<"write">>} /\ j.by \in {"tg", "embyid"} /\ j.set = Cleared
       \/ j.todo \in {<<"ask", "write", "remove">>, <<"write", "remove">>} /\ j.by = "embyid" /\ j.set = Cleared
       \/ j.todo = <<"remove">> /\ j.by = "embyid" /\ j.set = Cleared
       \/ j.todo \in {<<"ask", "remove">>, <<"remove">>} /\ j.by = "either" /\ j.set = Nothing
Writing(j) ==
    /\ j.op = "none" /\ j.by = "tg"
    /\ \/ j.todo = <<"write">> /\ ("id" \in DOMAIN j.set => j.set = Cleared)
       \/ j.todo = <<"remove">>
Restoring(j) ==
    /\ j.op = "create" /\ j.todo = <<"write">> /\ j.by = "tg" /\ ~j.buys
    /\ DOMAIN j.set = {"id"} /\ j.set.id \in EmbyId
Binding(j) ==
    /\ j.op = "check" /\ j.by = "tg" /\ j.checked /\ ~j.buys /\ j.id \in EmbyId
    /\ j.todo \in {<<"ask", "write">>, <<"write">>}
    /\ j.set = [id |-> j.id, lv |-> "b", ex |-> "live"]
Moving(j) ==
    /\ DOMAIN j = {"user", "to", "id", "op", "by", "todo", "set"}
    /\ j.user \in Member /\ j.to \in Member /\ j.user # j.to /\ j.id \in EmbyId
    /\ j.op = "move" /\ j.by = "tg" /\ j.todo \in {<<"clear", "rebind">>, <<"rebind">>}
    /\ Settable(j.set) /\ DOMAIN j.set = {"id", "lv", "ex", "iv"} /\ j.set.id = j.id
Making(j) ==
    /\ DOMAIN j = {"user", "id", "op", "todo"}
    /\ j.user \in Member /\ j.id \in EmbyId /\ j.op = "create" /\ j.todo = <<"complete">>

Planned(j) == IsPlan(j) /\ (Switching(j) \/ Deleting(j) \/ Writing(j) \/ Restoring(j) \/ Binding(j))
Shaped(j) == j = NoJob \/ Planned(j) \/ Moving(j) \/ Making(j)

AccountTyped ==
    /\ row \in [Member -> Row]
    /\ server \in [EmbyId -> {"unborn", "on", "off", "gone"}]
    /\ job = [s \in Handler |-> job[s]] /\ \A s \in Handler : Shaped(job[s])
    /\ owed \in [Member -> Int]
    /\ loose \subseteq Member /\ stray \subseteq EmbyId

\* What is still to be done.
Pending(j, step) == \E k \in DOMAIN j.todo : j.todo[k] = step

\* Rows and handlers speak of accounts that were made.
Born ==
    /\ \A u \in Member : Bound(u) => server[row[u].id] # "unborn"
    /\ \A s \in Handler : AtWork(s) =>
         /\ job[s].id # NoId => server[job[s].id] # "unborn"
         /\ Restoring(job[s]) => server[job[s].set.id] # "unborn"

\* The account of a registration that is not completed is known to nobody else.
MakingFresh ==
    \A s \in Handler : At(s, "complete") =>
        /\ \A u \in Member : row[u].id # job[s].id
        /\ \A t \in Handler \ {s} : AtWork(t) =>
             job[t].id # job[s].id /\ (Restoring(job[t]) => job[t].set.id # job[s].id)

\* Two rows of one account were noticed.
Shared ==
    \A u, v \in Member : u # v /\ Bound(u) /\ row[u].id = row[v].id =>
        u \in loose /\ v \in loose /\ row[u].id \in stray

\* Whoever deletes has deleted once Emby has answered.
Deleted ==
    \A s \in Handler : AtWork(s) /\ job[s].op = "delete" /\ ~At(s, "ask") =>
        job[s].id # NoId /\ server[job[s].id] = "gone"

\* And is then still to clear the row, or the account is astray.
Dangling ==
    \A u \in Member : Bound(u) /\ server[row[u].id] = "gone" =>
        \/ row[u].id \in stray
        \/ \E s \in Handler : AtWork(s) /\ job[s].op = "delete" /\ ~At(s, "ask") /\ job[s].id = row[u].id

AccountSound == AccountTyped /\ Born /\ MakingFresh /\ Shared /\ Deleted /\ Dangling

\* The level says what the account is; "d" is the level of a user without one.
Fits(level, status) ==
    level # "d" /\ (level = "c" => status # "on") /\ (level \in {"a", "b"} => status = "on")

\* Level, account and credits agree, as they do when no handler is at work on the user.
InStep(u) ==
    /\ row[u].us + row[u].iv = owed[u]
    /\ Bound(u) /\ row[u].id \notin stray => Fits(row[u].lv, server[row[u].id])

\* No other handler is at work on the user or on his account.
Alone(u) ==
    \A t \in Handler : AtWork(t) =>
        /\ job[t].user = u => \A s \in Handler : AtWork(s) /\ job[s].user = u => s = t
        /\ Bound(u) /\ job[t].id = row[u].id => job[t].user = u

\* What is left to do will leave them in agreement.
Final(j) == IF Pending(j, "write") THEN Over(j.set, row[j.user]) ELSE row[j.user]
Paid(j) == IF Pending(j, "write") /\ j.buys THEN 1 ELSE 0
Coming(j, i) == IF Pending(j, "ask") THEN Outcome(j.op) ELSE server[i]

PlanOnTrack(j) ==
    /\ IF j.op = "delete" /\ j.by = "embyid" /\ j.todo = <<"remove">>
       THEN row[j.user].id = NoId ELSE row[j.user].id = j.id
    /\ Final(j).us + Final(j).iv = owed[j.user] - Paid(j)
    /\ ~Pending(j, "remove") /\ Final(j).id # NoId /\ Final(j).id \notin stray =>
         Fits(Final(j).lv, Coming(j, Final(j).id))
    /\ Pending(j, "ask") /\ j.checked => InStep(j.user)

BindOnTrack(j) == row[j.user].id = NoId /\ row[j.user].us + row[j.user].iv = owed[j.user]

MoveOnTrack(s, j) ==
    /\ j.id \in stray \/ Fits(j.set.lv, server[j.id])
    /\ Pending(j, "clear") => row[j.user].id = j.id
    /\ ~Pending(j, "clear") =>
         /\ BindOnTrack(j) /\ Holders(j.id) = {}
         /\ \A t \in Handler \ {s} : AtWork(t) /\ job[t].id = j.id => job[t].op = "check"

JobOnTrack(s, j) ==
    /\ ~Restoring(j)
    /\ j.op \in {"on", "off", "none", "delete"} => PlanOnTrack(j)
    /\ j.op \in {"check", "create"} => BindOnTrack(j)
    /\ j.op = "move" => MoveOnTrack(s, j)

OnTrack(s) == \A j \in {job[s]} : JobOnTrack(s, j)

CalmUser(u) ==
    /\ Alone(u)
    /\ \A s \in Handler : AtWork(s) /\ job[s].user = u => OnTrack(s)
    /\ ~Busy(u) => InStep(u)

Calm == \A u \in Member \ loose : CalmUser(u)

-----------------------------------------------------------------------------

LEMMA RowColumns ==
  ASSUME NEW r \in Row
  PROVE  /\ DOMAIN r = Columns /\ r.id \in EmbyId \union {NoId} /\ r.lv \in Level /\ r.ex \in Expiry
         /\ r.us \in 0..MaxCredit /\ r.iv \in 0..MaxCredit
  BY DEF Row, Columns

\* Writing some columns leaves the others.
LEMMA OverColumns ==
  ASSUME NEW f, Settable(f), NEW r \in Row
  PROVE  /\ Over(f, r) \in Row
         /\ Over(f, r).id = IF "id" \in DOMAIN f THEN f.id ELSE r.id
         /\ Over(f, r).lv = IF "lv" \in DOMAIN f THEN f.lv ELSE r.lv
         /\ Over(f, r).ex = IF "ex" \in DOMAIN f THEN f.ex ELSE r.ex
         /\ Over(f, r).us = IF "us" \in DOMAIN f THEN f.us ELSE r.us
         /\ Over(f, r).iv = IF "iv" \in DOMAIN f THEN f.iv ELSE r.iv
<1>1. DOMAIN r = Columns /\ DOMAIN f \subseteq Columns
  BY RowColumns DEF Settable
<1>2. Over(f, r) = [c \in Columns |-> IF c \in DOMAIN f THEN f[c] ELSE r[c]]
  BY <1>1 DEF Over
<1>3. /\ Over(f, r).id = IF "id" \in DOMAIN f THEN f.id ELSE r.id
      /\ Over(f, r).lv = IF "lv" \in DOMAIN f THEN f.lv ELSE r.lv
      /\ Over(f, r).ex = IF "ex" \in DOMAIN f THEN f.ex ELSE r.ex
      /\ Over(f, r).us = IF "us" \in DOMAIN f THEN f.us ELSE r.us
      /\ Over(f, r).iv = IF "iv" \in DOMAIN f THEN f.iv ELSE r.iv
  BY <1>2 DEF Columns
<1>4. Over(f, r) = [id |-> Over(f, r).id, lv |-> Over(f, r).lv, ex |-> Over(f, r).ex,
                    us |-> Over(f, r).us, iv |-> Over(f, r).iv]
  BY <1>2 DEF Columns
<1>5. /\ Over(f, r).id \in EmbyId \union {NoId} /\ Over(f, r).lv \in Level /\ Over(f, r).ex \in Expiry
      /\ Over(f, r).us \in 0..MaxCredit /\ Over(f, r).iv \in 0..MaxCredit
  BY <1>3, RowColumns DEF Settable
<1> QED
  BY <1>3, <1>4, <1>5 DEF Row

\* The lists of steps, and what they begin with and leave.
PlanTodo == {<<"ask", "write">>, <<"write">>, <<"ask">>, <<"write", "ask">>, <<"ask", "write", "remove">>,
             <<"write", "remove">>, <<"remove">>, <<"ask", "remove">>}

DeletionTodo == {<<"ask", "write">>, <<"write">>, <<"ask", "write", "remove">>, <<"write", "remove">>, <<"remove">>,
                 <<"ask", "remove">>}

LEMMA TodoHeads ==
  ASSUME NEW t \in PlanTodo
  PROVE  /\ t # <<>> /\ Head(t) \in {"ask", "write", "remove"}
         /\ Head(t) = "ask" => t \in {<<"ask", "write">>, <<"ask">>, <<"ask", "write", "remove">>, <<"ask", "remove">>}
         /\ Head(t) = "write" => t \in {<<"write">>, <<"write", "ask">>, <<"write", "remove">>}
         /\ Head(t) = "remove" => t = <<"remove">>
  BY DEF PlanTodo

LEMMA TodoTails ==
  ASSUME NEW t \in PlanTodo
  PROVE  /\ t = <<"ask", "write">> => Tail(t) = <<"write">>
         /\ t = <<"write">> => Tail(t) = <<>>
         /\ t = <<"ask">> => Tail(t) = <<>>
         /\ t = <<"write", "ask">> => Tail(t) = <<"ask">>
         /\ t = <<"ask", "write", "remove">> => Tail(t) = <<"write", "remove">>
         /\ t = <<"write", "remove">> => Tail(t) = <<"remove">>
         /\ t = <<"remove">> => Tail(t) = <<>>
         /\ t = <<"ask", "remove">> => Tail(t) = <<"remove">>
         /\ Tail(t) = <<>> <=> Head(t) = "remove" \/ t \in {<<"ask">>, <<"write">>}
         /\ Head(Tail(t)) = "ask" /\ Tail(t) # <<>> => t = <<"write", "ask">>
         /\ t \in DeletionTodo => (Tail(t) = <<>> \/ Head(Tail(t)) # "ask") /\ (Head(t) = "ask" => Tail(t) # <<>>)
<1>1. Tail(<<"ask", "write">>) = <<"write">> /\ Tail(<<"write", "ask">>) = <<"ask">>
  OBVIOUS
<1>2. Tail(<<"ask">>) = <<>> /\ Tail(<<"write">>) = <<>> /\ Tail(<<"remove">>) = <<>>
  OBVIOUS
<1>3. Tail(<<"ask", "write", "remove">>) = <<"write", "remove">>
  OBVIOUS
<1>4. Tail(<<"write", "remove">>) = <<"remove">> /\ Tail(<<"ask", "remove">>) = <<"remove">>
  OBVIOUS
<1>5. {<<"write">>, <<"remove">>, <<"ask">>, <<"write", "remove">>} \subseteq PlanTodo
  BY DEF PlanTodo
<1>6. /\ Head(<<"write">>) = "write" /\ Head(<<"remove">>) = "remove" /\ Head(<<"write", "remove">>) = "write"
      /\ Head(<<"ask", "write">>) = "ask" /\ Head(<<"write", "ask">>) = "write" /\ Head(<<"ask", "remove">>) = "ask"
      /\ Head(<<"ask", "write", "remove">>) = "ask" /\ Head(<<"ask">>) = "ask"
  OBVIOUS
<1>7. <<"write">> # <<>> /\ <<"remove">> # <<>> /\ <<"write", "remove">> # <<>> /\ <<"ask">> # <<>>
  BY <1>5, TodoHeads
<1>8. /\ t = <<"ask", "write">> => Tail(t) = <<"write">>
      /\ t = <<"write">> => Tail(t) = <<>>
      /\ t = <<"ask">> => Tail(t) = <<>>
      /\ t = <<"write", "ask">> => Tail(t) = <<"ask">>
      /\ t = <<"ask", "write", "remove">> => Tail(t) = <<"write", "remove">>
      /\ t = <<"write", "remove">> => Tail(t) = <<"remove">>
      /\ t = <<"remove">> => Tail(t) = <<>>
      /\ t = <<"ask", "remove">> => Tail(t) = <<"remove">>
  BY <1>1, <1>2, <1>3, <1>4, Zenon
<1>9. \/ t = <<"ask", "write">> \/ t = <<"write">> \/ t = <<"ask">> \/ t = <<"write", "ask">> \/ t = <<"remove">>
      \/ t = <<"ask", "write", "remove">> \/ t = <<"write", "remove">> \/ t = <<"ask", "remove">>
  BY DEF PlanTodo
<1>10. "ask" # "write" /\ "ask" # "remove" /\ "write" # "remove"
  OBVIOUS
<1>11. Head(Tail(t)) = "ask" /\ Tail(t) # <<>> => t = <<"write", "ask">>
  BY <1>6, <1>8, <1>9, <1>10, Zenon
<1>12. Head(t) = "remove" \/ t \in {<<"ask">>, <<"write">>} => Tail(t) = <<>>
  <2>1. Head(t) = "remove" => t = <<"remove">>
    BY TodoHeads
  <2> QED
    BY <1>8, <2>1
<1>13. Tail(t) = <<>> => Head(t) = "remove" \/ t \in {<<"ask">>, <<"write">>}
  BY <1>6, <1>7, <1>8, <1>9, Zenon
<1>14. ASSUME t \in DeletionTodo
       PROVE  (Tail(t) = <<>> \/ Head(Tail(t)) # "ask") /\ (Head(t) = "ask" => Tail(t) # <<>>)
  <2>1. \/ t = <<"ask", "write">> \/ t = <<"write">> \/ t = <<"remove">>
        \/ t = <<"ask", "write", "remove">> \/ t = <<"write", "remove">> \/ t = <<"ask", "remove">>
    BY <1>14 DEF DeletionTodo
  <2> QED
    BY <1>6, <1>7, <1>8, <1>10, <2>1, Zenon
<1> QED
  BY <1>8, <1>11, <1>12, <1>13, <1>14, Zenon

LEMMA TodoSteps ==
  ASSUME NEW t \in PlanTodo
  PROVE  \A k \in DOMAIN t : t[k] \in Step
  BY DEF PlanTodo, Step

LEMMA PlanSteps ==
  ASSUME NEW j, Planned(j)
  PROVE  j.todo \in PlanTodo
  BY DEF Planned, Switching, Deleting, Writing, Restoring, Binding, PlanTodo

LEMMA DeletionSteps ==
  ASSUME NEW j, Deleting(j)
  PROVE  j.todo \in DeletionTodo
  BY DEF Deleting, DeletionTodo

LEMMA OtherSteps ==
  ASSUME NEW j, Moving(j) \/ Making(j)
  PROVE  /\ Head(j.todo) \in {"clear", "rebind", "complete"}
         /\ Head(j.todo) = "clear" => Moving(j) /\ j.todo = <<"clear", "rebind">> /\ Tail(j.todo) = <<"rebind">>
         /\ Head(j.todo) = "rebind" => Moving(j) /\ j.todo = <<"rebind">> /\ Tail(j.todo) = <<>>
         /\ Head(j.todo) = "complete" => Making(j) /\ Tail(j.todo) = <<>>
<1>1. Tail(<<"clear", "rebind">>) = <<"rebind">> /\ Tail(<<"rebind">>) = <<>> /\ Tail(<<"complete">>) = <<>>
  OBVIOUS
<1>2. Head(<<"clear", "rebind">>) = "clear" /\ Head(<<"rebind">>) = "rebind" /\ Head(<<"complete">>) = "complete"
  OBVIOUS
<1>3. j.todo \in {<<"clear", "rebind">>, <<"rebind">>} \/ (Making(j) /\ j.todo = <<"complete">>)
  BY DEF Moving, Making
<1>4. Head(j.todo) # "complete" => Moving(j)
  BY <1>2 DEF Making
<1> QED
  BY <1>1, <1>2, <1>3, <1>4, Zenon

LEMMA AskOf ==
  ASSUME NEW j, Shaped(j), j.todo # <<>>, Head(j.todo) = "ask"
  PROVE  /\ Planned(j) /\ (Switching(j) \/ Deleting(j) \/ Binding(j))
         /\ j.todo \in {<<"ask", "write">>, <<"ask">>, <<"ask", "write", "remove">>, <<"ask", "remove">>}
<1>1. Planned(j) /\ j.todo \in PlanTodo
  BY OtherSteps, PlanSteps DEF Shaped, NoJob
<1>2. j.todo \in {<<"ask", "write">>, <<"ask">>, <<"ask", "write", "remove">>, <<"ask", "remove">>}
  BY <1>1, TodoHeads
<1> QED
  BY <1>1, <1>2 DEF Planned, Writing, Restoring

LEMMA WriteOf ==
  ASSUME NEW j, Shaped(j), j.todo # <<>>, Head(j.todo) = "write"
  PROVE  Planned(j) /\ j.todo \in {<<"write">>, <<"write", "ask">>, <<"write", "remove">>}
<1>1. Planned(j) /\ j.todo \in PlanTodo
  BY OtherSteps, PlanSteps DEF Shaped, NoJob
<1> QED
  BY <1>1, TodoHeads

LEMMA RemoveOf ==
  ASSUME NEW j, Shaped(j), j.todo # <<>>, Head(j.todo) = "remove"
  PROVE  Planned(j) /\ (Deleting(j) \/ Writing(j)) /\ j.todo = <<"remove">>
<1>1. Planned(j) /\ j.todo \in PlanTodo
  BY OtherSteps, PlanSteps DEF Shaped, NoJob
<1>2. j.todo = <<"remove">>
  BY <1>1, TodoHeads
<1> QED
  BY <1>1, <1>2 DEF Planned, Switching, Restoring, Binding

LEMMA MoreOf ==
  ASSUME NEW j, Shaped(j), j.todo # <<>>
  PROVE  /\ Head(j.todo) = "clear" => Moving(j) /\ j.todo = <<"clear", "rebind">> /\ Tail(j.todo) = <<"rebind">>
         /\ Head(j.todo) = "rebind" => Moving(j) /\ j.todo = <<"rebind">> /\ Tail(j.todo) = <<>>
         /\ Head(j.todo) = "complete" => Making(j) /\ Tail(j.todo) = <<>>
  BY OtherSteps, PlanSteps, TodoHeads DEF Shaped, NoJob

LEMMA StepOf ==
  ASSUME NEW j, Shaped(j), j.todo # <<>>
  PROVE  /\ j.user \in Member /\ j.id \in EmbyId \union {NoId}
         /\ \A k \in DOMAIN j.todo : j.todo[k] \in Step
         /\ Head(j.todo) \in Step
<1>1. CASE Planned(j)
  BY <1>1, PlanSteps, TodoSteps, TodoHeads DEF Planned, IsPlan, Step
<1>2. CASE Moving(j) \/ Making(j)
  BY <1>2 DEF Moving, Making, Step
<1> QED
  BY <1>1, <1>2 DEF Shaped, NoJob

\* What is left of a plan has its shape.
LEMMA RestOfPlan ==
  ASSUME NEW j, Planned(j), Tail(j.todo) # <<>>
  PROVE  \E k : /\ Rest(j) = k /\ Planned(k)
                /\ k.user = j.user /\ k.id = j.id /\ k.todo = Tail(j.todo) /\ k.op = j.op /\ k.by = j.by
                /\ k.set = j.set /\ k.checked = j.checked /\ k.buys = j.buys
                /\ Tail(j.todo) \in {<<"write">>, <<"ask">>, <<"remove">>, <<"write", "remove">>}
<1>1. PICK k : k = [j EXCEPT !.todo = Tail(@)]
  OBVIOUS
<1>2. Tail(j.todo) \in {<<"write">>, <<"ask">>, <<"remove">>, <<"write", "remove">>}
  BY PlanSteps, TodoTails DEF PlanTodo
<1>3. Rest(j) = k
  BY <1>1 DEF Rest
<1>4. /\ k.user = j.user /\ k.id = j.id /\ k.todo = Tail(j.todo) /\ k.op = j.op /\ k.by = j.by
      /\ k.set = j.set /\ k.checked = j.checked /\ k.buys = j.buys /\ DOMAIN k = DOMAIN j
  BY <1>1 DEF Planned, IsPlan
<1>5. IsPlan(k)
  BY <1>4 DEF Planned, IsPlan
<1>6. CASE Switching(j)
  <2>1. k.todo \in {<<"write">>, <<"ask">>}
    BY PlanSteps, TodoTails, <1>2, <1>4, <1>6 DEF Switching
  <2>2. k.todo # <<"write", "ask">>
    BY <2>1, TodoTails DEF PlanTodo
  <2>3. Switching(k)
    BY <1>4, <1>6, <2>1, <2>2 DEF Switching
  <2> QED
    BY <1>2, <1>3, <1>4, <1>5, <2>3 DEF Planned
<1>7. CASE Deleting(j)
  <2>1. Deleting(k)
    BY PlanSteps, TodoTails, <1>4, <1>7 DEF Deleting
  <2> QED
    BY <1>2, <1>3, <1>4, <1>5, <2>1 DEF Planned
<1>8. CASE Binding(j)
  <2>1. Binding(k)
    BY PlanSteps, TodoTails, <1>4, <1>8 DEF Binding
  <2> QED
    BY <1>2, <1>3, <1>4, <1>5, <2>1 DEF Planned
<1>9. CASE Writing(j) \/ Restoring(j)
  BY <1>9, PlanSteps, TodoTails DEF Writing, Restoring
<1> QED
  BY <1>6, <1>7, <1>8, <1>9 DEF Planned

-----------------------------------------------------------------------------

\* Slots at work and slots at rest.
LEMMA SlotShape ==
  ASSUME AccountTyped, NEW s \in Handler
  PROVE  /\ Shaped(job[s])
         /\ AtWork(s) => job[s].user \in Member /\ job[s].id \in EmbyId \union {NoId}
  BY StepOf DEF AccountTyped, AtWork

\* A handler enters: rows keep their accounts, at most one account is made.
Enters(s, j) ==
    /\ Shaped(j) /\ j.todo # <<>> /\ ~AtWork(s) /\ job' = [job EXCEPT ![s] = j]
    /\ row' \in [Member -> Row] /\ \A u \in Member : row'[u].id = row[u].id
    /\ server' \in [EmbyId -> {"unborn", "on", "off", "gone"}]
    /\ \A i \in EmbyId : server'[i] = server[i] \/ (server[i] = "unborn" /\ server'[i] = "on")
    /\ j.id # NoId => server'[j.id] # "unborn"
    /\ Restoring(j) => server[j.set.id] = "unborn" /\ server'[j.set.id] # "unborn"
    /\ IF Making(j) THEN server[j.id] = "unborn"
       ELSE \A t \in Handler : At(t, "complete") => j.id # job[t].id
    /\ j.op = "delete" => Head(j.todo) = "ask"
    /\ owed' \in [Member -> Int] /\ loose \subseteq loose' /\ loose' \subseteq Member
    /\ UNCHANGED stray

LEMMA EnterSound ==
  ASSUME AccountSound, NEW s \in Handler, NEW j, Enters(s, j)
  PROVE  AccountSound'
<1>1. \A t \in Handler : job'[t] = IF t = s THEN j ELSE job[t]
  BY DEF AccountSound, AccountTyped, Enters
<1>2. AccountTyped'
  BY <1>1 DEF AccountSound, AccountTyped, Enters
<1>3. Born'
  <2>1. \A u \in Member : Bound(u)' => server'[row'[u].id] # "unborn"
    BY DEF AccountSound, AccountTyped, Row, Born, Bound, Enters
  <2>2. ASSUME NEW t \in Handler, AtWork(t)'
        PROVE  /\ job'[t].id # NoId => server'[job'[t].id] # "unborn"
               /\ Restoring(job'[t]) => server'[job'[t].set.id] # "unborn"
    <3>1. CASE t = s
      BY <1>1, <3>1 DEF Enters
    <3>2. CASE t # s
      <4>1. job'[t] = job[t] /\ AtWork(t)
        BY <1>1, <2>2, <3>2 DEF AtWork
      <4>2. job[t].id \in EmbyId \union {NoId} /\ (Restoring(job[t]) => job[t].set.id \in EmbyId)
        BY <4>1, SlotShape DEF AccountSound, Restoring
      <4> QED
        BY <4>1, <4>2 DEF AccountSound, Born, Enters
    <3> QED
      BY <3>1, <3>2
  <2> QED
    BY <2>1, <2>2 DEF Born
<1>4. MakingFresh'
  <2> SUFFICES ASSUME NEW t \in Handler, At(t, "complete")'
               PROVE  /\ \A u \in Member : row'[u].id # job'[t].id
                      /\ \A x \in Handler \ {t} : AtWork(x)' =>
                           job'[x].id # job'[t].id /\ (Restoring(job'[x]) => job'[x].set.id # job'[t].id)
    BY DEF MakingFresh
  <2>1. CASE t = s
    <3>1. Making(j) /\ server[j.id] = "unborn" /\ j.id # NoId
      BY <1>1, <2>1, MoreOf, AccountAssumption DEF Enters, At, AtWork, Making
    <3>2. \A u \in Member : row'[u].id # j.id
      BY <3>1 DEF AccountSound, AccountTyped, Row, Born, Bound, Enters
    <3>3. ASSUME NEW x \in Handler \ {t}, AtWork(x)'
          PROVE  job'[x].id # j.id /\ (Restoring(job'[x]) => job'[x].set.id # j.id)
      <4>1. job'[x] = job[x] /\ AtWork(x)
        BY <1>1, <2>1, <3>3 DEF AtWork
      <4> QED
        BY <3>1, <4>1 DEF AccountSound, Born
    <3> QED
      BY <1>1, <2>1, <3>2, <3>3
  <2>2. CASE t # s
    <3>1. job'[t] = job[t] /\ At(t, "complete")
      BY <1>1, <2>2 DEF At, AtWork
    <3>2. Making(job[t]) /\ server[job[t].id] # "unborn" /\ job[t].id # NoId
      BY <3>1, MoreOf, SlotShape, AccountAssumption DEF AccountSound, Born, At, AtWork, Making
    <3>3. ASSUME NEW x \in Handler \ {t}, AtWork(x)'
          PROVE  job'[x].id # job[t].id /\ (Restoring(job'[x]) => job'[x].set.id # job[t].id)
      <4>1. CASE x = s
        BY <1>1, <3>1, <3>2, <4>1 DEF Enters
      <4>2. CASE x # s
        <5>1. job'[x] = job[x] /\ AtWork(x)
          BY <1>1, <3>3, <4>2 DEF AtWork
        <5> QED
          BY <3>1, <5>1 DEF AccountSound, MakingFresh
      <4> QED
        BY <4>1, <4>2
    <3> QED
      BY <3>1, <3>3 DEF AccountSound, MakingFresh, Enters
  <2> QED
    BY <2>1, <2>2
<1>5. Shared'
  <2> SUFFICES ASSUME NEW u \in Member, NEW v \in Member, u # v, Bound(u)', row'[u].id = row'[v].id
               PROVE  u \in loose' /\ v \in loose' /\ row'[u].id \in stray'
    BY DEF Shared
  <2>1. row'[u].id = row[u].id /\ row'[v].id = row[v].id /\ Bound(u)
    BY DEF Enters, Bound
  <2>2. u \in loose /\ v \in loose /\ row[u].id \in stray
    BY <2>1 DEF AccountSound, Shared
  <2> QED
    BY <2>1, <2>2 DEF Enters
<1>6. Deleted'
  <2> SUFFICES ASSUME NEW t \in Handler, AtWork(t)', job'[t].op = "delete", ~At(t, "ask")'
               PROVE  job'[t].id # NoId /\ server'[job'[t].id] = "gone"
    BY DEF Deleted
  <2>1. t # s
    BY <1>1 DEF Enters, At
  <2>2. job'[t] = job[t] /\ AtWork(t) /\ ~At(t, "ask")
    BY <1>1, <2>1 DEF AtWork, At
  <2>3. job[t].id \in EmbyId \union {NoId} /\ job[t].id # NoId /\ server[job[t].id] = "gone"
    BY <2>2, SlotShape DEF AccountSound, Deleted
  <2> QED
    BY <2>2, <2>3 DEF Enters
<1>7. Dangling'
  <2> SUFFICES ASSUME NEW u \in Member, Bound(u)', server'[row'[u].id] = "gone", row'[u].id \notin stray'
               PROVE  \E t \in Handler : AtWork(t)' /\ job'[t].op = "delete" /\ ~At(t, "ask")' /\ job'[t].id = row'[u].id
    BY DEF Dangling
  <2>1. row'[u].id = row[u].id /\ Bound(u) /\ row[u].id \notin stray
    BY DEF Enters, Bound
  <2>2. server[row[u].id] = "gone"
    BY <2>1 DEF AccountSound, AccountTyped, Row, Bound, Enters
  <2>3. PICK t \in Handler : AtWork(t) /\ job[t].op = "delete" /\ ~At(t, "ask") /\ job[t].id = row[u].id
    BY <2>1, <2>2 DEF AccountSound, Dangling
  <2>4. t # s
    BY <2>3 DEF Enters
  <2>5. job'[t] = job[t]
    BY <1>1, <2>4
  <2> QED
    BY <2>1, <2>3, <2>5 DEF AtWork, At
<1> QED
  BY <1>2, <1>3, <1>4, <1>5, <1>6, <1>7 DEF AccountSound

\* Columns other than the account change.
Touches ==
    /\ row' \in [Member -> Row] /\ \A u \in Member : row'[u].id = row[u].id
    /\ owed' \in [Member -> Int] /\ loose \subseteq loose' /\ loose' \subseteq Member
    /\ UNCHANGED <<job, server, stray>>

LEMMA TouchSound == AccountSound /\ Touches => AccountSound'
<1> SUFFICES ASSUME AccountSound, Touches PROVE AccountSound'
  OBVIOUS
<1>1. \A s \in Handler : \A step \in {"ask", "complete"} : (AtWork(s)' <=> AtWork(s)) /\ (At(s, step)' <=> At(s, step))
  BY DEF Touches, AtWork, At
<1>2. \A u \in Member : row'[u].id = row[u].id /\ (Bound(u)' <=> Bound(u))
  BY DEF Touches, Bound
<1>3. AccountTyped'
  BY DEF AccountSound, AccountTyped, Touches
<1>4. Born'
  BY <1>1, <1>2 DEF AccountSound, Touches, Born
<1>5. MakingFresh'
  BY <1>1, <1>2 DEF AccountSound, Touches, MakingFresh
<1>6. Deleted'
  BY <1>1 DEF AccountSound, Touches, Deleted
<1>7. Shared'
  BY <1>2 DEF AccountSound, Touches, Shared
<1>8. Dangling'
  BY <1>1, <1>2 DEF AccountSound, Touches, Dangling
<1> QED
  BY <1>3, <1>4, <1>5, <1>6, <1>7, <1>8 DEF AccountSound

-----------------------------------------------------------------------------

\* A handler takes a step and k is what is left of it. Rows keep their account or lose
\* it, but that of w may be bound to i; accounts change, but none is made.
Advances(s, k, w, i) ==
    /\ AtWork(s) /\ job' = [job EXCEPT ![s] = k]
    /\ \/ k = NoJob
       \/ /\ Shaped(k) /\ k.todo # <<>> /\ k.id = job[s].id /\ k.op = job[s].op /\ ~Making(k) /\ ~Restoring(k)
          /\ k.op = "delete" => Head(k.todo) # "ask" /\ k.id # NoId /\ server'[k.id] = "gone"
    /\ row' \in [Member -> Row] /\ owed' \in [Member -> Int]
    /\ server' \in [EmbyId -> {"unborn", "on", "off", "gone"}]
    /\ stray \subseteq stray' /\ stray' \subseteq EmbyId /\ loose' \subseteq Member
    /\ \A u \in Member : row'[u].id \in {row[u].id, NoId} \/ (u = w /\ i # NoId /\ row'[u].id = i)
    /\ \A u \in loose : u \in loose' \/ (u = w /\ row'[u].id = i /\ i # NoId /\ Holders(i) = {})
    /\ i # NoId => /\ i \in EmbyId /\ server[i] # "unborn" /\ UNCHANGED server
                   /\ server[i] = "gone" => i \in stray'
                   /\ Holders(i) # {} => i \in stray' /\ w \in loose' /\ Holders(i) \subseteq loose'
                   /\ \A t \in Handler \ {s} : At(t, "complete") => job[t].id # i
    /\ \A e \in EmbyId : /\ server[e] = "unborn" <=> server'[e] = "unborn"
                         /\ server[e] = "gone" => server'[e] = "gone"
                         /\ server'[e] = "gone" /\ server[e] # "gone" =>
                              \/ e \in stray' \/ \A u \in Member : row'[u].id # e
                              \/ k.todo # <<>> /\ k.op = "delete" /\ k.id = e
    /\ job[s].op = "delete" /\ ~At(s, "ask") =>
         \/ job[s].id \in stray' \/ \A u \in Member : row'[u].id # job[s].id
         \/ k.todo # <<>>

LEMMA AdvanceSound ==
  ASSUME AccountSound, NEW s \in Handler, NEW k, NEW w \in Member, NEW i, Advances(s, k, w, i)
  PROVE  AccountSound'
<1>1. \A t \in Handler : job'[t] = IF t = s THEN k ELSE job[t]
  BY DEF AccountSound, AccountTyped, Advances
<1>2. AccountTyped'
  BY <1>1 DEF AccountSound, AccountTyped, Advances, Shaped
<1>3. k.todo = <<>> \/ (Shaped(k) /\ k.todo # <<>> /\ k.id = job[s].id /\ k.op = job[s].op)
  BY DEF Advances, NoJob
<1>4. /\ job[s].id \in EmbyId \union {NoId} /\ (job[s].id # NoId => server[job[s].id] # "unborn")
  BY SlotShape DEF AccountSound, Born, Advances
<1>5. Born'
  <2>1. \A u \in Member : Bound(u)' => server'[row'[u].id] # "unborn"
    BY DEF AccountSound, AccountTyped, Row, Born, Bound, Advances
  <2>2. ASSUME NEW t \in Handler, AtWork(t)'
        PROVE  /\ job'[t].id # NoId => server'[job'[t].id] # "unborn"
               /\ Restoring(job'[t]) => server'[job'[t].set.id] # "unborn"
    <3>1. CASE t = s
      <4>1. k.todo # <<>> /\ job'[t] = k
        BY <1>1, <2>2, <3>1 DEF AtWork
      <4>2. k.id = job[s].id /\ ~Restoring(k)
        BY <4>1 DEF Advances, NoJob
      <4> QED
        BY <1>4, <4>1, <4>2 DEF Advances
    <3>2. CASE t # s
      <4>1. job'[t] = job[t] /\ AtWork(t)
        BY <1>1, <2>2, <3>2 DEF AtWork
      <4>2. job[t].id \in EmbyId \union {NoId} /\ (Restoring(job[t]) => job[t].set.id \in EmbyId)
        BY <4>1, SlotShape DEF AccountSound, Restoring
      <4> QED
        BY <4>1, <4>2 DEF AccountSound, Born, Advances
    <3> QED
      BY <3>1, <3>2
  <2> QED
    BY <2>1, <2>2 DEF Born
<1>6. MakingFresh'
  <2> SUFFICES ASSUME NEW t \in Handler, At(t, "complete")'
               PROVE  /\ \A u \in Member : row'[u].id # job'[t].id
                      /\ \A x \in Handler \ {t} : AtWork(x)' =>
                           job'[x].id # job'[t].id /\ (Restoring(job'[x]) => job'[x].set.id # job'[t].id)
    BY DEF MakingFresh
  <2>1. t # s
    BY <1>1, MoreOf DEF Advances, At, AtWork, NoJob
  <2>2. job'[t] = job[t] /\ At(t, "complete")
    BY <1>1, <2>1 DEF At, AtWork
  <2>3. job[t].id # NoId
    BY <2>2, MoreOf, SlotShape, AccountAssumption DEF AccountSound, At, AtWork, Making
  <2>4. \A u \in Member : row'[u].id # job[t].id
    BY <2>1, <2>2, <2>3 DEF AccountSound, MakingFresh, Advances
  <2>5. ASSUME NEW x \in Handler \ {t}, AtWork(x)'
        PROVE  job'[x].id # job[t].id /\ (Restoring(job'[x]) => job'[x].set.id # job[t].id)
    <3>1. CASE x = s
      <4>1. k.todo # <<>> /\ job'[x] = k
        BY <1>1, <2>5, <3>1 DEF AtWork
      <4>2. k.id = job[s].id /\ ~Restoring(k) /\ AtWork(s)
        BY <4>1 DEF Advances, NoJob
      <4> QED
        BY <2>1, <2>2, <4>1, <4>2 DEF AccountSound, MakingFresh
    <3>2. CASE x # s
      <4>1. job'[x] = job[x] /\ AtWork(x)
        BY <1>1, <2>5, <3>2 DEF AtWork
      <4> QED
        BY <2>2, <4>1 DEF AccountSound, MakingFresh
    <3> QED
      BY <3>1, <3>2
  <2> QED
    BY <2>2, <2>4, <2>5
<1>7. Shared'
  <2> SUFFICES ASSUME NEW u \in Member, NEW v \in Member, u # v, Bound(u)', row'[u].id = row'[v].id
               PROVE  u \in loose' /\ v \in loose' /\ row'[u].id \in stray'
    BY DEF Shared
  <2>0. row'[u].id # NoId
    BY DEF Bound
  <2>1. CASE row'[u].id = row[u].id /\ row'[v].id = row[v].id
    <3>1. u \in loose /\ v \in loose /\ row[u].id \in stray
      BY <2>0, <2>1 DEF AccountSound, Shared, Bound
    <3>2. u \in Holders(row[u].id) /\ v \in Holders(row[u].id)
      BY <2>1 DEF Holders
    <3> QED
      BY <2>1, <3>1, <3>2 DEF Advances
  <2>2. CASE row'[u].id # row[u].id
    <3>1. u = w /\ row'[u].id = i /\ i # NoId
      BY <2>0, <2>2 DEF Advances
    <3>2. v \in Holders(i)
      BY <2>0, <3>1 DEF Holders, Advances
    <3> QED
      BY <3>1, <3>2 DEF Advances
  <2>3. CASE row'[v].id # row[v].id
    <3>1. v = w /\ row'[v].id = i /\ i # NoId
      BY <2>0, <2>3 DEF Advances
    <3>2. u \in Holders(i)
      BY <2>0, <3>1 DEF Holders, Advances
    <3> QED
      BY <3>1, <3>2 DEF Advances
  <2> QED
    BY <2>1, <2>2, <2>3
<1>8. Deleted'
  <2> SUFFICES ASSUME NEW t \in Handler, AtWork(t)', job'[t].op = "delete", ~At(t, "ask")'
               PROVE  job'[t].id # NoId /\ server'[job'[t].id] = "gone"
    BY DEF Deleted
  <2>1. CASE t = s
    BY <1>1, <2>1 DEF Advances, AtWork, NoJob
  <2>2. CASE t # s
    <3>1. job'[t] = job[t] /\ AtWork(t) /\ ~At(t, "ask")
      BY <1>1, <2>2 DEF AtWork, At
    <3>2. job[t].id \in EmbyId \union {NoId} /\ job[t].id # NoId /\ server[job[t].id] = "gone"
      BY <3>1, SlotShape DEF AccountSound, Deleted
    <3> QED
      BY <3>1, <3>2 DEF Advances
  <2> QED
    BY <2>1, <2>2
<1>9. Dangling'
  <2> SUFFICES ASSUME NEW u \in Member, Bound(u)', server'[row'[u].id] = "gone", row'[u].id \notin stray'
               PROVE  \E t \in Handler : AtWork(t)' /\ job'[t].op = "delete" /\ ~At(t, "ask")' /\ job'[t].id = row'[u].id
    BY DEF Dangling
  <2>0. row'[u].id \in EmbyId
    BY DEF Bound, Row, Advances
  <2>1. row'[u].id = row[u].id
    <3>1. ASSUME row'[u].id # row[u].id PROVE FALSE
      BY <2>0, <3>1 DEF Bound, Advances
    <3> QED
      BY <3>1
  <2>2. CASE server[row[u].id] = "gone"
    <3>1. PICK t \in Handler : AtWork(t) /\ job[t].op = "delete" /\ ~At(t, "ask") /\ job[t].id = row[u].id
      BY <2>1, <2>2 DEF AccountSound, Dangling, Bound, Advances
    <3>2. CASE t = s
      <4>1. k.todo # <<>>
        BY <2>1, <3>1, <3>2 DEF Advances
      <4> QED
        BY <1>1, <2>1, <3>1, <3>2, <4>1 DEF Advances, NoJob, AtWork, At
    <3>3. CASE t # s
      BY <1>1, <2>1, <3>1, <3>3 DEF AtWork, At
    <3> QED
      BY <3>2, <3>3
  <2>3. CASE server[row[u].id] # "gone"
    <3>1. k.todo # <<>> /\ k.op = "delete" /\ k.id = row[u].id
      BY <2>0, <2>1, <2>3 DEF Advances
    <3> QED
      BY <1>1, <2>1, <3>1 DEF Advances, NoJob, AtWork, At
  <2> QED
    BY <2>2, <2>3
<1> QED
  BY <1>2, <1>5, <1>6, <1>7, <1>8, <1>9 DEF AccountSound

-----------------------------------------------------------------------------

\* k is what a step leaves of j.
Left(j, k) ==
    /\ Shaped(k) /\ k.todo # <<>> /\ k.todo = Tail(j.todo) /\ ~Making(k) /\ ~Restoring(k)
    /\ k.user = j.user /\ k.id = j.id /\ k.op = j.op /\ k.by = j.by /\ k.set = j.set
    /\ IF Planned(j) THEN Planned(k) /\ k.checked = j.checked /\ k.buys = j.buys
       ELSE Moving(j) /\ Moving(k) /\ k.to = j.to

LEMMA RestIs ==
  ASSUME NEW j, Shaped(j), j.todo # <<>>
  PROVE  (Rest(j) = NoJob /\ Tail(j.todo) = <<>>) \/ \E k : Rest(j) = k /\ Left(j, k)
<1>1. CASE Tail(j.todo) = <<>>
  BY <1>1 DEF Rest
<1>2. CASE Tail(j.todo) # <<>> /\ Planned(j)
  <2>1. PICK k : /\ Rest(j) = k /\ Planned(k)
                 /\ k.user = j.user /\ k.id = j.id /\ k.todo = Tail(j.todo) /\ k.op = j.op /\ k.by = j.by
                 /\ k.set = j.set /\ k.checked = j.checked /\ k.buys = j.buys
                 /\ Tail(j.todo) \in {<<"write">>, <<"ask">>, <<"remove">>, <<"write", "remove">>}
    BY <1>2, RestOfPlan
  <2>2. ~Restoring(j)
    BY <1>2, PlanSteps, TodoTails DEF Restoring
  <2>3. j.op # "create"
    BY <1>2, <2>2 DEF Planned, Switching, Deleting, Writing, Binding
  <2>4. ~Making(k) /\ ~Restoring(k)
    BY <2>1, <2>3 DEF Making, Restoring
  <2> QED
    BY <1>2, <2>1, <2>4 DEF Left, Shaped
<1>3. CASE Tail(j.todo) # <<>> /\ ~Planned(j)
  <2>1. Moving(j) /\ j.todo = <<"clear", "rebind">> /\ Tail(j.todo) = <<"rebind">>
    BY <1>3, OtherSteps DEF Shaped, NoJob
  <2>2. PICK k : k = [j EXCEPT !.todo = <<"rebind">>]
    OBVIOUS
  <2>3. Rest(j) = k
    BY <1>3, <2>1, <2>2 DEF Rest
  <2>4. /\ k.user = j.user /\ k.id = j.id /\ k.todo = <<"rebind">> /\ k.op = j.op /\ k.by = j.by
        /\ k.set = j.set /\ k.to = j.to /\ DOMAIN k = DOMAIN j
    BY <2>1, <2>2 DEF Moving
  <2>5. Moving(k) /\ ~Making(k) /\ ~Restoring(k)
    BY <2>1, <2>4 DEF Moving, Making, Restoring
  <2> QED
    BY <1>3, <2>1, <2>3, <2>4, <2>5 DEF Left, Shaped
<1> QED
  BY <1>1, <1>2, <1>3

\* What a handler goes on with after Emby has answered.
LEMMA GoesOnIs ==
  ASSUME NEW j, Shaped(j), j.todo # <<>>, NEW ok
  PROVE  \/ GoesOn(j, ok) = NoJob /\ (Tail(j.todo) = <<>> \/ (~ok /\ j.checked))
         \/ \E k : GoesOn(j, ok) = k /\ Left(j, k) /\ (ok \/ ~j.checked)
  BY RestIs DEF GoesOn

LEMMA LeftAdvances ==
  ASSUME NEW j, NEW k, Left(j, k), Planned(j), j.todo \in PlanTodo
  PROVE  j.op = "delete" => Head(k.todo) # "ask"
<1>1. k.todo = Tail(j.todo) /\ k.todo # <<>>
  BY DEF Left
<1>2. j.op = "delete" => Deleting(j)
  BY DEF Planned, Switching, Writing, Restoring, Binding
<1> QED
  BY <1>1, <1>2, DeletionSteps, TodoTails

\* Emby answers, or fails to.
LEMMA AskAdvances ==
  ASSUME AccountSound, NEW s \in Handler, EmbyAnswers(s) \/ EmbyFails(s), NEW w \in Member
  PROVE  \E k : Advances(s, k, w, NoId)
<1> DEFINE j == job[s]
<1>1. /\ AtWork(s) /\ At(s, "ask") /\ Shaped(j) /\ j.todo # <<>> /\ Head(j.todo) = "ask"
      /\ j.user \in Member /\ j.id \in EmbyId \union {NoId}
  BY SlotShape DEF EmbyAnswers, EmbyFails, At, AtWork, AccountSound
<1>2. Planned(j) /\ j.todo \in PlanTodo /\ (Switching(j) \/ Deleting(j) \/ Binding(j)) /\ j.checked \in BOOLEAN
  BY <1>1, AskOf, PlanSteps DEF Planned, IsPlan
<1>3. PICK ok : /\ ok \in BOOLEAN /\ job' = [job EXCEPT ![s] = GoesOn(j, ok)]
                /\ ok => Takes(j) /\ server' = Applied(j)
                /\ \/ server' = server
                   \/ Takes(j) /\ server' = Applied(j) /\ (j.op = "delete" => ok \/ j.id \in stray')
  BY <1>1 DEF EmbyAnswers, EmbyFails, Takes, Exists
<1>4. PICK k : k = GoesOn(j, ok)
  OBVIOUS
<1>5. \/ k = NoJob /\ (Tail(j.todo) = <<>> \/ (~ok /\ j.checked))
      \/ Left(j, k) /\ (ok \/ ~j.checked)
  BY <1>1, <1>4, GoesOnIs
<1>6. Takes(j) => j.id \in EmbyId /\ server[j.id] # "unborn" /\ server[j.id] # "gone"
  BY <1>1, <1>2, AccountAssumption DEF Takes, Exists, Switching, Deleting, Binding
<1>7. \/ server' = server
      \/ /\ Takes(j) /\ server' = Applied(j)
         /\ j.op = "delete" => ok \/ j.id \in stray'
  BY <1>3
<1>8. Applied(j) = IF j.op = "check" THEN server ELSE [server EXCEPT ![j.id] = Outcome(j.op)]
  BY DEF Applied
<1>9. j.op \in {"on", "off", "delete", "check"}
  BY <1>2 DEF Switching, Deleting, Binding
<1>10. /\ server' \in [EmbyId -> {"unborn", "on", "off", "gone"}]
       /\ \A e \in EmbyId : /\ server[e] = "unborn" <=> server'[e] = "unborn"
                            /\ server[e] = "gone" => server'[e] = "gone"
                            /\ server'[e] = "gone" /\ server[e] # "gone" => j.op = "delete" /\ e = j.id /\ (ok \/ e \in stray')
  BY <1>6, <1>7, <1>8, <1>9 DEF AccountSound, AccountTyped, Outcome
<1>11. /\ UNCHANGED <<row, owed>> /\ stray \subseteq stray' /\ stray' \subseteq EmbyId
       /\ loose \subseteq loose' /\ loose' \subseteq Member
  BY <1>1, <1>6 DEF EmbyAnswers, EmbyFails, AccountSound, AccountTyped
<1>12. j.op = "delete" => j.checked
  BY <1>2 DEF Switching, Deleting, Binding
<1>13. ok /\ j.op = "delete" => server'[j.id] = "gone" /\ j.id # NoId
  BY <1>3, <1>6, <1>8, AccountAssumption DEF AccountSound, AccountTyped, Outcome
<1>14. j.op = "delete" /\ ok => k.todo # <<>> /\ k.op = "delete" /\ k.id = j.id
  <2>1. ASSUME j.op = "delete" PROVE Tail(j.todo) # <<>>
    <3>1. Deleting(j)
      BY <1>2, <2>1 DEF Switching, Binding
    <3> QED
      BY <1>1, <1>2, <3>1, DeletionSteps, TodoTails
  <2>2. ASSUME j.op = "delete", ok PROVE Left(j, k)
    BY <1>5, <2>1, <2>2
  <2> QED
    BY <2>2 DEF Left
<1>15. k = NoJob \/ (/\ Shaped(k) /\ k.todo # <<>> /\ k.id = j.id /\ k.op = j.op /\ ~Making(k) /\ ~Restoring(k)
                     /\ k.op = "delete" => Head(k.todo) # "ask" /\ k.id # NoId /\ server'[k.id] = "gone")
  BY <1>2, <1>5, <1>12, <1>13, LeftAdvances DEF Left
<1>16. Advances(s, k, w, NoId)
  <2>1. \A e \in EmbyId : /\ server[e] = "unborn" <=> server'[e] = "unborn"
                          /\ server[e] = "gone" => server'[e] = "gone"
                          /\ server'[e] = "gone" /\ server[e] # "gone" =>
                               \/ e \in stray' \/ \A u \in Member : row'[u].id # e
                               \/ k.todo # <<>> /\ k.op = "delete" /\ k.id = e
    BY <1>10, <1>14
  <2>2. row' \in [Member -> Row] /\ owed' \in [Member -> Int]
    BY <1>11 DEF AccountSound, AccountTyped
  <2> QED
    BY <1>1, <1>3, <1>4, <1>10, <1>11, <1>15, <2>1, <2>2 DEF Advances
<1> QED
  BY <1>16

-----------------------------------------------------------------------------

LEMMA FreshColumns ==
  /\ Fresh \in Row /\ Fresh.id = NoId /\ Fresh.lv = "d" /\ Fresh.us = 0 /\ Fresh.iv = 0
  /\ Settable(Cleared) /\ DOMAIN Cleared = {"id", "lv", "ex"} /\ Cleared.id = NoId /\ Cleared.lv = "d"
  BY AccountAssumption DEF Fresh, Cleared, Row, Settable, Columns, Level, Expiry

\* What a step other than a question leaves of a handler.
LEMMA StepLeaves ==
  ASSUME AccountSound, NEW s \in Handler, AtWork(s), Head(job[s].todo) # "ask",
         NEW k, k = NoJob \/ Left(job[s], k)
  PROVE  \/ k = NoJob
         \/ /\ Shaped(k) /\ k.todo # <<>> /\ k.id = job[s].id /\ k.op = job[s].op /\ ~Making(k) /\ ~Restoring(k)
            /\ k.op = "delete" => Head(k.todo) # "ask" /\ k.id # NoId /\ server[k.id] = "gone"
<1> SUFFICES ASSUME Left(job[s], k), k.op = "delete"
             PROVE  Head(k.todo) # "ask" /\ k.id # NoId /\ server[k.id] = "gone"
  BY DEF Left
<1>1. job[s].op = "delete" /\ k.id = job[s].id /\ Shaped(job[s])
  BY SlotShape DEF Left, AccountSound
<1>2. Planned(job[s]) /\ job[s].todo \in PlanTodo
  BY <1>1, PlanSteps DEF Shaped, NoJob, AtWork, Making, Moving
<1> QED
  BY <1>1, <1>2, LeftAdvances DEF AccountSound, Deleted, At

\* After the row of a deleted account was looked for, no row has the account, or it is astray.
LEMMA ClearedAfterwards ==
  ASSUME AccountSound, NEW s \in Handler, AtWork(s), ~At(s, "ask"), job[s].op = "delete",
         \/ UNCHANGED row /\ Matches(job[s]) = {}
         \/ \E u \in Matches(job[s]) : \E r \in Row : r.id = NoId /\ row' = [row EXCEPT ![u] = r],
         stray \subseteq stray', Astray(job[s], row') \subseteq stray'
  PROVE  job[s].id \in stray' \/ \A u \in Member : row'[u].id # job[s].id
<1> DEFINE i == job[s].id
<1>1. i # NoId
  BY DEF AccountSound, Deleted
<1>2. CASE job[s].by = "embyid"
  <2>1. Matches(job[s]) = Holders(i)
    BY <1>2 DEF Matches
  <2>2. CASE UNCHANGED row /\ Holders(i) = {}
    BY <2>2 DEF Holders
  <2>3. ASSUME NEW u \in Holders(i), NEW r \in Row, r.id = NoId, row' = [row EXCEPT ![u] = r], i \notin stray'
        PROVE  \A v \in Member : row'[v].id # i
    <3>1. u \in Member /\ row[u].id = i /\ Bound(u) /\ i \notin stray
      BY <1>1, <2>3 DEF Holders, Bound
    <3>2. \A v \in Member \ {u} : row[v].id # i
      BY <3>1 DEF AccountSound, Shared
    <3> QED
      BY <1>1, <2>3, <3>1, <3>2 DEF AccountSound, AccountTyped
  <2> QED
    BY <2>1, <2>2, <2>3
<1>3. CASE job[s].by # "embyid"
  BY <1>3 DEF Astray
<1> QED
  BY <1>2, <1>3

\* The account a handler is about to bind was made and is not being registered.
LEMMA ToBind ==
  ASSUME AccountSound, NEW s \in Handler, At(s, "write"), "id" \in DOMAIN job[s].set, job[s].set.id # NoId
  PROVE  /\ Binding(job[s]) \/ Restoring(job[s])
         /\ job[s].by = "tg" /\ job[s].set.id \in EmbyId /\ server[job[s].set.id] # "unborn"
         /\ \A t \in Handler \ {s} : At(t, "complete") => job[t].id # job[s].set.id
<1>1. AtWork(s) /\ Planned(job[s])
  BY SlotShape, WriteOf DEF At, AtWork, AccountSound
<1>2. Binding(job[s]) \/ Restoring(job[s])
  <2>1. ~Switching(job[s])
    BY DEF Switching
  <2>2. ~Deleting(job[s]) /\ ~Writing(job[s])
    <3>1. job[s].set # Cleared /\ job[s].set # Nothing
      BY FreshColumns DEF Nothing
    <3>2. ~Writing(job[s])
      <4>1. Head(<<"remove">>) = "remove"
        OBVIOUS
      <4> QED
        BY <3>1, <4>1 DEF Writing, At
    <3> QED
      BY <3>1, <3>2 DEF Deleting
  <2> QED
    BY <1>1, <2>1, <2>2 DEF Planned
<1>3. CASE Binding(job[s])
  <2>1. job[s].set.id = job[s].id /\ job[s].id \in EmbyId /\ job[s].by = "tg"
    BY <1>3 DEF Binding
  <2> QED
    BY <1>1, <1>3, <2>1, AccountAssumption DEF AccountSound, Born, MakingFresh
<1>4. CASE Restoring(job[s])
  <2>1. job[s].set.id \in EmbyId /\ job[s].by = "tg"
    BY <1>4 DEF Restoring
  <2> QED
    BY <1>1, <1>4, <2>1 DEF AccountSound, Born, MakingFresh
<1> QED
  BY <1>2, <1>3, <1>4

LEMMA PlanFinds ==
  ASSUME NEW j, Planned(j)
  PROVE  j.by \in {"tg", "embyid", "either"}
  BY DEF Planned, Switching, Deleting, Writing, Restoring, Binding

LEMMA LostWorks ==
  ASSUME NEW i \in EmbyId, server[i] # "unborn", server \in [EmbyId -> {"unborn", "on", "off", "gone"}],
         Lost(i) \subseteq stray'
  PROVE  /\ server[i] = "gone" => i \in stray'
         /\ Holders(i) # {} => i \in stray'
  BY DEF Lost, Exists

LEMMA ConcernedMembers ==
  ASSUME AccountSound, NEW s \in Handler, NEW u \in Member, NEW i
  PROVE  /\ Concerned(s, u, i) \subseteq Member /\ u \in Concerned(s, u, i) /\ Holders(i) \subseteq Concerned(s, u, i)
         /\ \A t \in Handler \ {s} : Meets(t, u, i) => job[t].user \in Concerned(s, u, i)
<1>1. \A t \in Handler : Meets(t, u, i) => job[t].user \in Member
  BY SlotShape DEF Meets, AccountSound
<1> QED
  BY <1>1 DEF Concerned, Holders

LEMMA WriteAdvances ==
  ASSUME AccountSound, NEW s \in Handler, Write(s)
  PROVE  \E k, w, i : w \in Member /\ Advances(s, k, w, i)
<1> DEFINE j == job[s]
           binds == "id" \in DOMAIN j.set /\ j.set.id # NoId
           i == IF binds THEN j.set.id ELSE NoId
<1>1. /\ At(s, "write") /\ AtWork(s) /\ Shaped(j) /\ j.user \in Member
  BY SlotShape DEF Write, At, AtWork, AccountSound
<1>2. Planned(j) /\ Settable(j.set)
  BY <1>1, WriteOf DEF At, AtWork, Planned, IsPlan
<1>3. PICK k : k = Rest(j)
  OBVIOUS
<1>4. k = NoJob \/ Left(j, k)
  BY <1>1, <1>3, RestIs DEF AtWork
<1>5. /\ job' = [job EXCEPT ![s] = k] /\ UNCHANGED server
      /\ stray' = stray \union Astray(j, row') \union IF binds THEN Lost(j.set.id) ELSE {}
      /\ loose' = IF binds /\ (BoundAmiss(s, j.user, j.set.id) \/ server[j.set.id] # "on")
                  THEN loose \union Concerned(s, j.user, j.set.id) ELSE loose
      /\ owed' = [owed EXCEPT ![j.user] = IF j.buys THEN @ - 1 ELSE @]
      /\ \/ UNCHANGED row /\ Matches(j) = {}
         \/ \E u \in Matches(j) : row' = [row EXCEPT ![u] = Over(j.set, row[u])]
  BY <1>3 DEF Write
<1>6. Matches(j) \subseteq Member
  BY <1>1, <1>2, PlanFinds DEF Matches, Holders
<1>7. \A u \in Member : /\ Over(j.set, row[u]) \in Row
                        /\ Over(j.set, row[u]).id = IF "id" \in DOMAIN j.set THEN j.set.id ELSE row[u].id
  BY <1>2, OverColumns DEF AccountSound, AccountTyped
<1>8. row' \in [Member -> Row]
  BY <1>5, <1>6, <1>7 DEF AccountSound, AccountTyped
<1>9. owed' \in [Member -> Int]
  BY <1>1, <1>5 DEF AccountSound, AccountTyped
<1>10. binds => /\ i \in EmbyId /\ server[i] # "unborn" /\ Matches(j) = {j.user}
                /\ \A t \in Handler \ {s} : At(t, "complete") => job[t].id # i
  BY <1>1, ToBind DEF Matches
<1>11. \A u \in Member : row'[u].id \in {row[u].id, NoId} \/ (u = j.user /\ i # NoId /\ row'[u].id = i)
  BY <1>5, <1>6, <1>7, <1>10 DEF AccountSound, AccountTyped
<1>12. stray \subseteq stray' /\ stray' \subseteq EmbyId
  <2>1. Astray(j, row') \subseteq EmbyId
    <3>1. \A u \in Member : row'[u].id = j.id /\ j.op = "delete" => j.id \in EmbyId
      BY <1>1, SlotShape DEF AccountSound, Deleted, At, AtWork
    <3> QED
      BY <3>1 DEF Astray
  <2> QED
    BY <1>5, <1>10, <2>1 DEF AccountSound, AccountTyped, Lost
<1>13. loose \subseteq loose' /\ loose' \subseteq Member
  BY <1>1, <1>5, ConcernedMembers DEF AccountSound, AccountTyped
<1>14. i # NoId => /\ server[i] = "gone" => i \in stray'
                   /\ Holders(i) # {} => i \in stray' /\ j.user \in loose' /\ Holders(i) \subseteq loose'
  <2> SUFFICES ASSUME binds
               PROVE  /\ server[i] = "gone" => i \in stray'
                      /\ Holders(i) # {} => i \in stray' /\ j.user \in loose' /\ Holders(i) \subseteq loose'
    OBVIOUS
  <2>1. Lost(i) \subseteq stray' /\ i \in EmbyId /\ server[i] # "unborn"
    BY <1>5, <1>10
  <2>2. Holders(i) # {} => BoundAmiss(s, j.user, i)
    BY DEF BoundAmiss
  <2> QED
    BY <1>1, <1>5, <2>1, <2>2, LostWorks, ConcernedMembers DEF AccountSound, AccountTyped
<1>15. j.op = "delete" => \/ j.id \in stray' \/ \A u \in Member : row'[u].id # j.id
                          \/ k.todo # <<>>
  <2> SUFFICES ASSUME j.op = "delete" PROVE j.id \in stray' \/ \A u \in Member : row'[u].id # j.id
    OBVIOUS
  <2>1. j.set = Cleared
    <3>1. Deleting(j)
      BY <1>2 DEF Planned, Switching, Writing, Restoring, Binding
    <3>2. j.todo \notin {<<"ask", "remove">>, <<"remove">>}
      BY <1>1 DEF At
    <3> QED
      BY <3>1, <3>2 DEF Deleting
  <2>2. \A u \in Matches(j) : Over(j.set, row[u]) \in Row /\ Over(j.set, row[u]).id = NoId
    BY <1>6, <1>7, <2>1, FreshColumns
  <2>3. ~At(s, "ask")
    BY <1>1 DEF At
  <2> QED
    BY <1>1, <1>5, <2>2, <2>3, ClearedAfterwards
<1>16. \A e \in EmbyId : /\ server[e] = "unborn" <=> server'[e] = "unborn"
                         /\ server[e] = "gone" => server'[e] = "gone"
                         /\ ~(server'[e] = "gone" /\ server[e] # "gone")
  BY <1>5
<1>17. \/ k = NoJob
       \/ /\ Shaped(k) /\ k.todo # <<>> /\ k.id = j.id /\ k.op = j.op /\ ~Making(k) /\ ~Restoring(k)
          /\ k.op = "delete" => Head(k.todo) # "ask" /\ k.id # NoId /\ server'[k.id] = "gone"
  BY <1>1, <1>4, <1>5, StepLeaves DEF At
<1>18. server' \in [EmbyId -> {"unborn", "on", "off", "gone"}]
  BY <1>5 DEF AccountSound, AccountTyped
<1>19. i # NoId => binds
  OBVIOUS
<1>20. Advances(s, k, j.user, i)
  <2> HIDE DEF i, j
  <2>1. \A u \in loose : u \in loose'
    BY <1>13
  <2> QED
    BY <1>1, <1>5, <1>8, <1>9, <1>10, <1>11, <1>12, <1>13, <1>14, <1>15, <1>16, <1>17, <1>18, <1>19, <2>1 DEF Advances, j
<1> QED
  BY <1>1, <1>20

LEMMA RemoveAdvances ==
  ASSUME AccountSound, NEW s \in Handler, Remove(s)
  PROVE  \E k, w, i : w \in Member /\ Advances(s, k, w, i)
<1> DEFINE j == job[s]
<1>1. /\ At(s, "remove") /\ AtWork(s) /\ Shaped(j) /\ j.user \in Member
  BY SlotShape DEF Remove, At, AtWork, AccountSound
<1>2. Planned(j) /\ j.todo = <<"remove">>
  BY <1>1, RemoveOf DEF At, AtWork
<1>3. job' = [job EXCEPT ![s] = NoJob]
  <2>1. Tail(j.todo) = <<>>
    BY <1>2, TodoTails, PlanSteps
  <2> QED
    BY <2>1 DEF Remove, Rest
<1>4. /\ UNCHANGED <<server, loose>> /\ stray' = stray \union Astray(j, row')
      /\ \/ UNCHANGED <<row, owed>> /\ Matches(j) = {}
         \/ \E u \in Matches(j) : row' = [row EXCEPT ![u] = Fresh] /\ owed' = [owed EXCEPT ![u] = 0]
  BY DEF Remove
<1>5. Matches(j) \subseteq Member
  BY <1>1, <1>2, PlanFinds DEF Matches, Holders
<1>6. row' \in [Member -> Row] /\ owed' \in [Member -> Int]
  BY <1>4, <1>5, FreshColumns DEF AccountSound, AccountTyped
<1>7. \A u \in Member : row'[u].id \in {row[u].id, NoId}
  BY <1>4, <1>5, FreshColumns DEF AccountSound, AccountTyped
<1>8. stray \subseteq stray' /\ stray' \subseteq EmbyId
  <2>1. \A u \in Member : row'[u].id = j.id /\ j.op = "delete" => j.id \in EmbyId
    BY <1>1, SlotShape DEF AccountSound, Deleted, At, AtWork
  <2> QED
    BY <1>4, <2>1 DEF Astray, AccountSound, AccountTyped
<1>9. j.op = "delete" => j.id \in stray' \/ \A u \in Member : row'[u].id # j.id
  <2>1. ~At(s, "ask")
    BY <1>1 DEF At
  <2>2. \/ UNCHANGED row /\ Matches(j) = {}
        \/ \E u \in Matches(j) : \E r \in Row : r.id = NoId /\ row' = [row EXCEPT ![u] = r]
    BY <1>4, FreshColumns
  <2> QED
    BY <1>1, <1>4, <1>8, <2>1, <2>2, ClearedAfterwards
<1>10. Advances(s, NoJob, j.user, NoId)
  BY <1>1, <1>3, <1>4, <1>6, <1>7, <1>8, <1>9 DEF Advances, AccountSound, AccountTyped
<1> QED
  BY <1>1, <1>10

LEMMA CompleteAdvances ==
  ASSUME AccountSound, NEW s \in Handler, Completes(s)
  PROVE  \E k, w, i : w \in Member /\ Advances(s, k, w, i)
<1> DEFINE j == job[s]
<1>1. /\ At(s, "complete") /\ AtWork(s) /\ Making(j) /\ j.user \in Member /\ j.id \in EmbyId /\ j.op = "create"
      /\ job' = [job EXCEPT ![s] = NoJob]
  BY SlotShape, MoreOf DEF Completes, At, AtWork, AccountSound, Making
<1>2. /\ server[j.id] # "unborn" /\ \A u \in Member : row[u].id # j.id
      /\ \A t \in Handler \ {s} : At(t, "complete") => job[t].id # j.id
  BY <1>1, AccountAssumption DEF AccountSound, Born, MakingFresh, At
<1>3. Holders(j.id) = {} /\ j.id # NoId
  BY <1>1, <1>2, AccountAssumption DEF Holders
<1>4. CASE server' = [server EXCEPT ![j.id] = "gone"] /\ UNCHANGED <<row, owed, loose, stray>>
  <2>1. Advances(s, NoJob, j.user, NoId)
    BY <1>1, <1>2, <1>4 DEF Advances, AccountSound, AccountTyped
  <2> QED
    BY <1>1, <2>1
<1>5. CASE /\ \E us \in {row[j.user].us, 0} :
               row' = [row EXCEPT ![j.user] = Over([id |-> j.id, lv |-> "b", ex |-> "live", us |-> us], @)]
           /\ IF server[j.id] = "on" /\ ~BoundAmiss(s, j.user, j.id)
              THEN /\ loose' = loose \ {j.user}
                   /\ owed' = [owed EXCEPT ![j.user] = row'[j.user].us + row[j.user].iv]
              ELSE loose' = loose \union Concerned(s, j.user, j.id) /\ UNCHANGED owed
           /\ stray' = stray \union Lost(j.id)
           /\ UNCHANGED server
  <2>1. PICK us \in {row[j.user].us, 0} :
               row' = [row EXCEPT ![j.user] = Over([id |-> j.id, lv |-> "b", ex |-> "live", us |-> us], row[j.user])]
    BY <1>5
  <2>2. us \in 0..MaxCredit /\ row[j.user] \in Row
    BY <1>1, <2>1, RowColumns, AccountAssumption DEF AccountSound, AccountTyped
  <2>3. PICK f : f = [id |-> j.id, lv |-> "b", ex |-> "live", us |-> us]
    OBVIOUS
  <2>4. Settable(f) /\ DOMAIN f = {"id", "lv", "ex", "us"} /\ f.id = j.id
    BY <1>1, <2>2, <2>3 DEF Settable, Columns, Level, Expiry
  <2>5. Over(f, row[j.user]) \in Row /\ Over(f, row[j.user]).id = j.id
    BY <2>2, <2>4, OverColumns
  <2>6. /\ row' = [row EXCEPT ![j.user] = Over(f, row[j.user])] /\ row' \in [Member -> Row]
        /\ \A u \in Member : row'[u].id = IF u = j.user THEN j.id ELSE row[u].id
    BY <1>1, <2>1, <2>3, <2>5 DEF AccountSound, AccountTyped
  <2>7. owed' \in [Member -> Int]
    <3>1. row'[j.user].us + row[j.user].iv \in Int
      BY <1>1, <2>2, <2>6, RowColumns, AccountAssumption
    <3> QED
      BY <1>1, <1>5, <3>1 DEF AccountSound, AccountTyped
  <2>8. stray \subseteq stray' /\ stray' \subseteq EmbyId /\ (server[j.id] = "gone" => j.id \in stray')
    BY <1>1, <1>2, <1>5, LostWorks DEF AccountSound, AccountTyped, Lost
  <2>9. loose' \subseteq Member /\ \A u \in loose : u \in loose' \/ u = j.user
    BY <1>1, <1>5, ConcernedMembers DEF AccountSound, AccountTyped
  <2>10. Advances(s, NoJob, j.user, j.id)
    BY <1>1, <1>2, <1>3, <1>5, <2>6, <2>7, <2>8, <2>9 DEF Advances, AccountSound, AccountTyped
  <2> QED
    BY <1>1, <2>10
<1> QED
  BY <1>4, <1>5 DEF Completes

LEMMA MoveAdvances ==
  ASSUME AccountSound, NEW s \in Handler, ClearOld(s) \/ Rebind(s)
  PROVE  \E k, w, i : w \in Member /\ Advances(s, k, w, i)
<1> DEFINE j == job[s]
<1>2. PICK k : k = Rest(j)
  OBVIOUS
<1>3. /\ AtWork(s) /\ Shaped(j) /\ Moving(j) /\ ~At(s, "ask") /\ (k = NoJob \/ Left(j, k))
  BY <1>2, SlotShape, MoreOf, RestIs DEF ClearOld, Rebind, At, AtWork, AccountSound
<1>4. \/ k = NoJob
      \/ /\ Shaped(k) /\ k.todo # <<>> /\ k.id = j.id /\ k.op = j.op /\ ~Making(k) /\ ~Restoring(k)
         /\ k.op = "delete" => Head(k.todo) # "ask" /\ k.id # NoId /\ server[k.id] = "gone"
  BY <1>3, StepLeaves DEF At
<1>5. /\ j.user \in Member /\ j.to \in Member /\ j.id \in EmbyId /\ j.op = "move" /\ Settable(j.set)
      /\ DOMAIN j.set = {"id", "lv", "ex", "iv"} /\ j.set.id = j.id /\ j.id # NoId
  BY <1>3, AccountAssumption DEF Moving
<1>6. CASE ClearOld(s)
  <2>1. /\ row' = [row EXCEPT ![j.user] = Fresh] /\ owed' = [owed EXCEPT ![j.user] = 0]
        /\ job' = [job EXCEPT ![s] = k] /\ UNCHANGED <<server, loose, stray>>
    BY <1>2, <1>6 DEF ClearOld
  <2>2. row' \in [Member -> Row] /\ \A u \in Member : row'[u].id \in {row[u].id, NoId}
    BY <1>5, <2>1, FreshColumns DEF AccountSound, AccountTyped
  <2>3. Advances(s, k, j.user, NoId)
    BY <1>3, <1>4, <1>5, <2>1, <2>2 DEF Advances, AccountSound, AccountTyped
  <2> QED
    BY <1>5, <2>3
<1>7. CASE Rebind(s)
  <2>1. /\ row' = [row EXCEPT ![j.to] = Over(j.set, row[j.to])] /\ owed' = [owed EXCEPT ![j.to] = row[j.to].us + j.set.iv]
        /\ job' = [job EXCEPT ![s] = k] /\ UNCHANGED server /\ stray' = stray \union Lost(j.id)
        /\ loose \subseteq loose' /\ loose' \subseteq loose \union Concerned(s, j.to, j.id)
        /\ BoundAmiss(s, j.to, j.id) => loose' = loose \union Concerned(s, j.to, j.id)
    BY <1>2, <1>7 DEF Rebind
  <2>2. Over(j.set, row[j.to]) \in Row /\ Over(j.set, row[j.to]).id = j.id
    BY <1>5, OverColumns DEF AccountSound, AccountTyped
  <2>3. row' \in [Member -> Row] /\ \A u \in Member : row'[u].id = IF u = j.to THEN j.id ELSE row[u].id
    BY <1>5, <2>1, <2>2 DEF AccountSound, AccountTyped
  <2>4. owed' \in [Member -> Int]
    <3>1. row[j.to].us + j.set.iv \in Int
      BY <1>5, RowColumns, AccountAssumption DEF Settable, AccountSound, AccountTyped
    <3> QED
      BY <1>5, <2>1, <3>1 DEF AccountSound, AccountTyped
  <2>5. server[j.id] # "unborn" /\ \A t \in Handler \ {s} : At(t, "complete") => job[t].id # j.id
    BY <1>3, <1>5 DEF AccountSound, Born, MakingFresh
  <2>6. /\ stray \subseteq stray' /\ stray' \subseteq EmbyId /\ (server[j.id] = "gone" => j.id \in stray')
        /\ Holders(j.id) # {} => j.id \in stray'
    <3>1. Lost(j.id) \subseteq stray'
      BY <2>1
    <3> QED
      BY <1>5, <2>1, <2>5, <3>1, LostWorks DEF AccountSound, AccountTyped, Lost
  <2>7. /\ loose' \subseteq Member
        /\ Holders(j.id) # {} => j.to \in loose' /\ Holders(j.id) \subseteq loose'
    BY <1>5, <2>1, ConcernedMembers DEF AccountSound, AccountTyped, BoundAmiss
  <2>8. Advances(s, k, j.to, j.id)
    BY <1>3, <1>4, <1>5, <2>1, <2>3, <2>4, <2>5, <2>6, <2>7 DEF Advances, AccountSound, AccountTyped
  <2> QED
    BY <1>5, <2>8
<1> QED
  BY <1>6, <1>7

LEMMA FailAdvances ==
  ASSUME AccountSound, NEW s \in Handler, StepFails(s)
  PROVE  \E k, w, i : w \in Member /\ Advances(s, k, w, i)
<1> DEFINE j == job[s]
<1>1. /\ AtWork(s) /\ j.user \in Member /\ ~At(s, "ask") /\ job' = [job EXCEPT ![s] = NoJob]
      /\ loose' = loose \union {j.user} /\ UNCHANGED <<row, server, owed>>
      /\ stray' = IF j.op = "delete" THEN stray \union {j.id} ELSE stray
  BY SlotShape DEF StepFails, At, AccountSound
<1>2. j.op = "delete" => j.id \in EmbyId
  BY <1>1, SlotShape DEF AccountSound, Deleted
<1>3. Advances(s, NoJob, j.user, NoId)
  BY <1>1, <1>2 DEF Advances, AccountSound, AccountTyped
<1> QED
  BY <1>1, <1>3

LEMMA JobAdvances ==
  ASSUME AccountSound, NEW s \in Handler, JobStep(s)
  PROVE  \E k, w, i : w \in Member /\ Advances(s, k, w, i)
<1>1. CASE EmbyAnswers(s) \/ EmbyFails(s)
  <2>1. job[s].user \in Member
    BY <1>1, SlotShape DEF EmbyAnswers, EmbyFails, At, AccountSound
  <2> QED
    BY <1>1, <2>1, AskAdvances
<1> QED
  BY <1>1, WriteAdvances, RemoveAdvances, CompleteAdvances, MoveAdvances, FailAdvances DEF JobStep

\* Somebody deletes an account: whoever has it is told.
Erases(i) ==
    /\ i \in EmbyId /\ server' = [server EXCEPT ![i] = "gone"] /\ server[i] # "unborn"
    /\ stray' = stray \union {i} /\ loose \subseteq loose' /\ loose' \subseteq Member /\ Holders(i) \subseteq loose'
    /\ UNCHANGED <<row, job, owed>>

LEMMA EraseSound ==
  ASSUME AccountSound, NEW i, Erases(i)
  PROVE  AccountSound'
<1>1. AccountTyped'
  BY DEF AccountSound, AccountTyped, Erases
<1>2. Born' /\ MakingFresh'
  <2>1. \A e \in EmbyId : server'[e] = "unborn" <=> server[e] = "unborn"
    BY DEF AccountSound, AccountTyped, Erases
  <2>2. \A t \in Handler : /\ AtWork(t) => job[t].id \in EmbyId \union {NoId}
                           /\ Restoring(job[t]) => job[t].set.id \in EmbyId
    BY SlotShape DEF AccountSound, Restoring
  <2>3. \A u \in Member : row[u].id \in EmbyId \union {NoId}
    BY RowColumns DEF AccountSound, AccountTyped
  <2>4. Born'
    BY <2>1, <2>2, <2>3 DEF AccountSound, Born, Bound, AtWork, Erases
  <2>5. MakingFresh'
    BY DEF AccountSound, MakingFresh, At, AtWork, Erases
  <2> QED
    BY <2>4, <2>5
<1>3. Shared'
  BY DEF AccountSound, AccountTyped, Shared, Bound, Erases
<1>4. Deleted' /\ Dangling'
  <2>1. \A e \in EmbyId : /\ server[e] = "gone" => server'[e] = "gone"
                          /\ server'[e] = "gone" => server[e] = "gone" \/ e \in stray'
    BY DEF AccountSound, AccountTyped, Erases
  <2>2. \A t \in Handler : AtWork(t) => job[t].id \in EmbyId \union {NoId}
    BY SlotShape DEF AccountSound
  <2>3. \A u \in Member : row[u].id \in EmbyId \union {NoId}
    BY RowColumns DEF AccountSound, AccountTyped
  <2>4. Deleted'
    BY <2>1, <2>2 DEF AccountSound, Deleted, At, AtWork, Erases
  <2>5. Dangling'
    BY <2>1, <2>3 DEF AccountSound, Dangling, Bound, At, AtWork, Erases
  <2> QED
    BY <2>4, <2>5
<1> QED
  BY <1>1, <1>2, <1>3, <1>4 DEF AccountSound

-----------------------------------------------------------------------------

\* A handler for u begins: it has read his row, and unless it meets another one or leaves
\* level and account apart whatever happens, what it plans agrees.
Begins(u, j) ==
    /\ Planned(j) /\ ~Restoring(j) /\ ~Binding(j) /\ j.user = u /\ j.id = row[u].id
    /\ j.op = "delete" => Head(j.todo) = "ask"
    /\ \E s \in Handler : ~AtWork(s) /\ job' = [job EXCEPT ![s] = j]
    /\ row' \in [Member -> Row] /\ \A v \in Member : row'[v].id = row[v].id /\ (v # u => row'[v] = row[v])
    /\ owed' \in [Member -> Int] /\ \A v \in Member \ {u} : owed'[v] = owed[v]
    /\ UNCHANGED <<server, stray>>
    /\ loose \subseteq loose' /\ loose' \subseteq loose \union {u}
    /\ (\E t \in Handler : Meets(t, u, row[u].id)) => u \in loose'
    /\ InStep(u) => u \in loose' \/ PlanOnTrack(j)'

\* A plan by its fields.
PlanOf(j, u, todo, op, by, f, checked, buys) ==
    /\ IsPlan(j) /\ j.user = u /\ j.id = row[u].id /\ j.todo = todo /\ j.op = op /\ j.by = by
    /\ j.set = f /\ j.checked = checked /\ j.buys = buys

LEMMA PlanForms ==
  ASSUME AccountSound, NEW u \in Member, NEW todo, NEW op, NEW by, NEW f, Settable(f)
  PROVE  /\ PlanOf(Plan(u, todo, op, by, f), u, todo, op, by, f, TRUE, FALSE)
         /\ PlanOf(Unchecked(Plan(u, todo, op, by, f)), u, todo, op, by, f, FALSE, FALSE)
         /\ PlanOf(Buying(Plan(u, todo, op, by, f)), u, todo, op, by, f, TRUE, TRUE)
         /\ PlanOf(Buying(Unchecked(Plan(u, todo, op, by, f))), u, todo, op, by, f, FALSE, TRUE)
<1>1. row[u].id \in EmbyId \union {NoId}
  BY RowColumns DEF AccountSound, AccountTyped
<1>2. PlanOf(Plan(u, todo, op, by, f), u, todo, op, by, f, TRUE, FALSE)
  BY <1>1 DEF Plan, PlanOf, IsPlan
<1>3. ASSUME NEW j, NEW c, NEW b, PlanOf(j, u, todo, op, by, f, c, b)
      PROVE  PlanOf(Unchecked(j), u, todo, op, by, f, FALSE, b) /\ PlanOf(Buying(j), u, todo, op, by, f, c, TRUE)
  BY <1>3 DEF PlanOf, IsPlan, Unchecked, Buying
<1> QED
  BY <1>2, <1>3

\* What a handler enables or disables an account for.
Switches(f, op) ==
    /\ Settable(f) /\ "lv" \in DOMAIN f /\ "id" \notin DOMAIN f /\ Fits(f.lv, Outcome(op)) /\ op \in {"on", "off"}

\* Nothing is paid; or one credit.
Free(f) == "us" \notin DOMAIN f /\ "iv" \notin DOMAIN f
Costs(u, f, n) == Over(f, row[u]).us + Over(f, row[u]).iv = row[u].us + row[u].iv - n

LEMMA FreeCosts ==
  ASSUME AccountSound, NEW u \in Member, NEW f, Settable(f), Free(f)
  PROVE  Costs(u, f, 0)
<1>1. row[u] \in Row /\ row[u].us \in Int /\ row[u].iv \in Int
  BY RowColumns, AccountAssumption DEF AccountSound, AccountTyped
<1>2. Over(f, row[u]).us = row[u].us /\ Over(f, row[u]).iv = row[u].iv
  BY <1>1, OverColumns DEF Free
<1> QED
  BY <1>1, <1>2 DEF Costs

LEMMA PendingIs ==
  ASSUME NEW j
  PROVE  /\ j.todo = <<"ask", "write">> => Pending(j, "ask") /\ Pending(j, "write") /\ ~Pending(j, "remove")
         /\ j.todo = <<"write">> => ~Pending(j, "ask") /\ Pending(j, "write") /\ ~Pending(j, "remove")
         /\ j.todo = <<"ask">> => Pending(j, "ask") /\ ~Pending(j, "write") /\ ~Pending(j, "remove")
         /\ j.todo = <<"write", "ask">> => Pending(j, "ask") /\ Pending(j, "write") /\ ~Pending(j, "remove")
         /\ j.todo = <<"ask", "write", "remove">> => Pending(j, "ask") /\ Pending(j, "write") /\ Pending(j, "remove")
         /\ j.todo = <<"write", "remove">> => ~Pending(j, "ask") /\ Pending(j, "write") /\ Pending(j, "remove")
         /\ j.todo = <<"remove">> => ~Pending(j, "ask") /\ ~Pending(j, "write") /\ Pending(j, "remove")
         /\ j.todo = <<"ask", "remove">> => Pending(j, "ask") /\ ~Pending(j, "write") /\ Pending(j, "remove")
         /\ j.todo = <<"clear", "rebind">> => Pending(j, "clear")
         /\ j.todo = <<"rebind">> => ~Pending(j, "clear")
<1>1. ASSUME j.todo = <<"ask", "write">> PROVE Pending(j, "ask") /\ Pending(j, "write") /\ ~Pending(j, "remove")
  BY <1>1 DEF Pending
<1>2. ASSUME j.todo = <<"write">> PROVE ~Pending(j, "ask") /\ Pending(j, "write") /\ ~Pending(j, "remove")
  BY <1>2 DEF Pending
<1>3. ASSUME j.todo = <<"ask">> PROVE Pending(j, "ask") /\ ~Pending(j, "write") /\ ~Pending(j, "remove")
  BY <1>3 DEF Pending
<1>4. ASSUME j.todo = <<"write", "ask">> PROVE Pending(j, "ask") /\ Pending(j, "write") /\ ~Pending(j, "remove")
  BY <1>4 DEF Pending
<1>5. ASSUME j.todo = <<"ask", "write", "remove">> PROVE Pending(j, "ask") /\ Pending(j, "write") /\ Pending(j, "remove")
  BY <1>5 DEF Pending
<1>6. ASSUME j.todo = <<"write", "remove">> PROVE ~Pending(j, "ask") /\ Pending(j, "write") /\ Pending(j, "remove")
  BY <1>6 DEF Pending
<1>7. ASSUME j.todo = <<"remove">> PROVE ~Pending(j, "ask") /\ ~Pending(j, "write") /\ Pending(j, "remove")
  BY <1>7 DEF Pending
<1>8. ASSUME j.todo = <<"ask", "remove">> PROVE Pending(j, "ask") /\ ~Pending(j, "write") /\ Pending(j, "remove")
  BY <1>8 DEF Pending
<1>9. ASSUME j.todo = <<"clear", "rebind">> PROVE Pending(j, "clear")
  BY <1>9 DEF Pending
<1>10. ASSUME j.todo = <<"rebind">> PROVE ~Pending(j, "clear")
  BY <1>10 DEF Pending
<1> QED
  BY <1>1, <1>2, <1>3, <1>4, <1>5, <1>6, <1>7, <1>8, <1>9, <1>10

\* A handler of one of these forms begins.
Opens(u, j) ==
    /\ Launch(j) /\ (loose' = Loosened(u) \/ loose' = loose \union {u})

LEMMA OpenBegins ==
  ASSUME AccountSound, NEW u \in Member, NEW j, Opens(u, j), Planned(j), ~Restoring(j), ~Binding(j), j.user = u, j.id = row[u].id,
         j.op = "delete" => Head(j.todo) = "ask",
         owed' \in [Member -> Int], \A v \in Member \ {u} : owed'[v] = owed[v],
         InStep(u) => u \in loose' \/ PlanOnTrack(j)'
  PROVE  Begins(u, j)
  BY DEF Opens, Launch, Enter, Loosened, Begins, AccountSound, AccountTyped

\* Enabling, disabling, with or without a write.
LEMMA SwitchBegins ==
  ASSUME AccountSound, NEW u \in Member, NEW j, NEW op, NEW by \in {"tg", "embyid"}, NEW f, NEW checked, NEW buys,
         NEW todo, todo = <<"ask", "write">> \/ (todo = <<"write", "ask">> /\ ~checked),
         PlanOf(j, u, todo, op, by, f, checked, buys), Switches(f, op), Bound(u) \/ by = "tg",
         Costs(u, f, IF buys THEN 1 ELSE 0), Opens(u, j), UNCHANGED owed
  PROVE  Begins(u, j)
<1>1. Planned(j) /\ j.op \in {"on", "off"} /\ Switching(j)
  BY DEF PlanOf, Planned, Switching, Switches, Bound
<1>2. ~Restoring(j) /\ ~Binding(j) /\ j.op # "delete"
  BY <1>1 DEF Restoring, Binding
<1>3. ASSUME InStep(u) PROVE PlanOnTrack(j)'
  <2>1. UNCHANGED <<row, server, stray, owed>>
    BY DEF Opens, Launch
  <2>2. /\ j.user = u /\ j.id = row[u].id /\ j.set = f /\ j.buys = buys /\ j.op = op
        /\ Pending(j, "ask") /\ Pending(j, "write") /\ ~Pending(j, "remove")
    BY PendingIs DEF PlanOf
  <2>3. Final(j) = Over(f, row[u]) /\ Final(j)' = Over(f, row[u])
    BY <2>1, <2>2 DEF Final
  <2>4. row[u] \in Row /\ Settable(f)
    BY DEF AccountSound, AccountTyped, Switches
  <2>5. Over(f, row[u]).lv = f.lv /\ Over(f, row[u]).id = row[u].id
    BY <2>4, OverColumns DEF Switches
  <2>6. Over(f, row[u]).us + Over(f, row[u]).iv = owed[u] - (IF buys THEN 1 ELSE 0)
    <3>1. PICK n : n = IF buys THEN 1 ELSE 0
      OBVIOUS
    <3>2. row[u].us + row[u].iv = owed[u]
      BY <1>3 DEF InStep
    <3>3. Costs(u, f, n)
      BY <3>1, Zenon
    <3>4. Over(f, row[u]).us + Over(f, row[u]).iv = owed[u] - n
      <4>1. row[u].us \in Int /\ row[u].iv \in Int /\ owed[u] \in Int
        BY RowColumns, AccountAssumption DEF AccountSound, AccountTyped
      <4>2. n \in Int
        BY <3>1
      <4> QED
        BY <3>2, <3>3, <4>1, <4>2 DEF Costs
    <3> QED
      BY <3>1, <3>4, Zenon
  <2>7. InStep(u)'
    BY <1>3, <2>1 DEF InStep, Bound
  <2> QED
    BY <1>1, <2>1, <2>2, <2>3, <2>5, <2>6, <2>7 DEF PlanOnTrack, Paid, Coming, Switches
<1> QED
  BY <1>1, <1>2, <1>3, OpenBegins DEF PlanOf, AccountSound, AccountTyped

LEMMA AskOnlyBegins ==
  ASSUME AccountSound, NEW u \in Member, NEW j, NEW op \in {"on", "off"}, NEW f, NEW checked, NEW buys,
         PlanOf(j, u, <<"ask">>, op, "tg", f, checked, buys), "id" \notin DOMAIN f,
         Launch(j), loose' = loose \union {u}, UNCHANGED owed
  PROVE  Begins(u, j)
<1>1. Planned(j) /\ j.op \in {"on", "off"} /\ Switching(j)
  BY DEF PlanOf, Planned, Switching
<1>2. ~Restoring(j) /\ ~Binding(j) /\ j.op # "delete"
  BY <1>1 DEF Restoring, Binding
<1> QED
  BY <1>1, <1>2, OpenBegins DEF PlanOf, Opens, AccountSound, AccountTyped

\* Deletions.
LEMMA DeleteBegins ==
  ASSUME AccountSound, NEW u \in Member, NEW j, NEW todo, NEW by, NEW f,
         PlanOf(j, u, todo, "delete", by, f, TRUE, FALSE), Opens(u, j), UNCHANGED owed,
         \/ todo = <<"ask", "write">> /\ by \in {"tg", "embyid"} /\ f = Cleared
         \/ todo = <<"ask", "write", "remove">> /\ by = "embyid" /\ f = Cleared
         \/ todo = <<"ask", "remove">> /\ by = "either" /\ f = Nothing
  PROVE  Begins(u, j)
<1>1. Planned(j) /\ j.op = "delete" /\ Deleting(j)
  BY DEF PlanOf, Planned, Deleting
<1>2. ~Restoring(j) /\ ~Binding(j) /\ Head(j.todo) = "ask"
  <2>1. Head(<<"ask", "write">>) = "ask" /\ Head(<<"ask", "write", "remove">>) = "ask" /\ Head(<<"ask", "remove">>) = "ask"
    OBVIOUS
  <2> QED
    BY <1>1, <2>1 DEF Restoring, Binding, PlanOf
<1>3. ASSUME InStep(u) PROVE PlanOnTrack(j)'
  <2>1. UNCHANGED <<row, server, stray, owed>>
    BY DEF Opens, Launch
  <2>2. /\ j.user = u /\ j.id = row[u].id /\ j.set = f /\ j.buys = FALSE
        /\ Pending(j, "ask") /\ ((Pending(j, "write") /\ f = Cleared) \/ (~Pending(j, "write") /\ Pending(j, "remove")))
    BY PendingIs DEF PlanOf
  <2>3. row[u] \in Row
    BY DEF AccountSound, AccountTyped
  <2>4. /\ Over(Cleared, row[u]).id = NoId
        /\ Over(Cleared, row[u]).us = row[u].us /\ Over(Cleared, row[u]).iv = row[u].iv
    BY <2>3, FreshColumns, OverColumns
  <2>5. row[u].us + row[u].iv = owed[u] /\ owed[u] - 0 = owed[u]
    BY <1>3 DEF InStep, AccountSound, AccountTyped
  <2>6. InStep(u)'
    BY <1>3, <2>1 DEF InStep, Bound
  <2>7. /\ Final(j)' = IF Pending(j, "write") THEN Over(f, row[u]) ELSE row[u]
        /\ Paid(j)' = 0
    BY <2>1, <2>2 DEF Final, Paid
  <2>8. j.todo # <<"remove">>
    BY <1>2, TodoHeads DEF PlanTodo
  <2> QED
    BY <2>1, <2>2, <2>4, <2>5, <2>6, <2>7, <2>8 DEF PlanOnTrack
<1> QED
  BY <1>1, <1>2, <1>3, OpenBegins DEF PlanOf, AccountSound, AccountTyped

\* Writing only, at some time after the row was read.
LEMMA NoneBegins ==
  ASSUME AccountSound, NEW u \in Member, NEW j, NEW todo, NEW f, NEW buys \in BOOLEAN, NEW given \in {0, 1},
         PlanOf(j, u, todo, "none", "tg", f, TRUE, buys), Opens(u, j), owed' = [owed EXCEPT ![u] = @ + given],
         \/ todo = <<"remove">> /\ f = Nothing /\ ~buys /\ given = 0
         \/ todo = <<"write">> /\ f = Cleared /\ ~buys /\ given = 0
         \/ todo = <<"write">> /\ "id" \notin DOMAIN f /\ "lv" \notin DOMAIN f /\ Costs(u, f, (IF buys THEN 1 ELSE 0) - given)
  PROVE  Begins(u, j)
<1>1. Planned(j) /\ j.op = "none" /\ Writing(j) /\ Settable(f)
  BY DEF PlanOf, Planned, Writing, IsPlan
<1>2. ~Restoring(j) /\ ~Binding(j) /\ j.op # "delete"
  BY <1>1 DEF Restoring, Binding
<1>3. /\ row[u] \in Row /\ row[u].us \in Int /\ row[u].iv \in Int /\ owed[u] \in Int
  BY RowColumns, AccountAssumption DEF AccountSound, AccountTyped
<1>4. owed' \in [Member -> Int] /\ (\A v \in Member \ {u} : owed'[v] = owed[v]) /\ owed'[u] = owed[u] + given
  BY <1>3 DEF AccountSound, AccountTyped
<1>5. ASSUME InStep(u) PROVE PlanOnTrack(j)'
  <2>1. UNCHANGED <<row, server, stray>>
    BY DEF Opens, Launch
  <2>2. j.user = u /\ j.id = row[u].id /\ j.set = f /\ j.buys = buys /\ j.todo = todo /\ ~Pending(j, "ask")
    BY PendingIs DEF PlanOf
  <2>3. row[u].us + row[u].iv = owed[u]
    BY <1>5 DEF InStep
  <2>4. /\ Over(f, row[u]).us = IF "us" \in DOMAIN f THEN f.us ELSE row[u].us
        /\ Over(f, row[u]).iv = IF "iv" \in DOMAIN f THEN f.iv ELSE row[u].iv
        /\ Over(f, row[u]).id = IF "id" \in DOMAIN f THEN f.id ELSE row[u].id
        /\ Over(f, row[u]).lv = IF "lv" \in DOMAIN f THEN f.lv ELSE row[u].lv
        /\ Over(f, row[u]) \in Row
    BY <1>1, <1>3, OverColumns
  <2>5. CASE todo = <<"remove">> /\ ~buys /\ given = 0
    <3>1. Pending(j, "remove") /\ ~Pending(j, "write")
      BY <2>2, <2>5, PendingIs
    <3>2. Final(j)' = row[u] /\ Paid(j)' = 0
      BY <2>1, <2>2, <3>1 DEF Final, Paid
    <3> QED
      BY <1>1, <1>3, <1>4, <2>1, <2>2, <2>3, <2>5, <3>1, <3>2 DEF PlanOnTrack
  <2>6. CASE todo = <<"write">> /\ f = Cleared /\ ~buys /\ given = 0
    <3>1. ~Pending(j, "remove") /\ Pending(j, "write")
      BY <2>2, <2>6, PendingIs
    <3>2. Final(j)' = Over(f, row[u]) /\ Paid(j)' = 0
      BY <2>1, <2>2, <2>6, <3>1 DEF Final, Paid
    <3>3. Over(f, row[u]).us = row[u].us /\ Over(f, row[u]).iv = row[u].iv /\ Over(f, row[u]).id = NoId
      BY <2>4, <2>6, FreshColumns
    <3> QED
      BY <1>1, <1>3, <1>4, <2>1, <2>2, <2>3, <2>6, <3>1, <3>2, <3>3 DEF PlanOnTrack
  <2>7. CASE todo = <<"write">> /\ "id" \notin DOMAIN f /\ "lv" \notin DOMAIN f /\ Costs(u, f, (IF buys THEN 1 ELSE 0) - given)
    <3>1. ~Pending(j, "remove") /\ Pending(j, "write")
      BY <2>2, <2>7, PendingIs
    <3>2. PICK n : n = IF buys THEN 1 ELSE 0
      OBVIOUS
    <3>3. n \in Int /\ Costs(u, f, n - given)
      BY <2>7, <3>2
    <3>4. Final(j)' = Over(f, row[u]) /\ Paid(j)' = n
      BY <2>1, <2>2, <3>1, <3>2 DEF Final, Paid
    <3>5. Over(f, row[u]).lv = row[u].lv /\ Over(f, row[u]).id = row[u].id
      BY <2>4, <2>7
    <3>6. Over(f, row[u]).us + Over(f, row[u]).iv = row[u].us + row[u].iv - (n - given)
      BY <3>3 DEF Costs
    <3>7. Over(f, row[u]).us + Over(f, row[u]).iv = owed'[u] - n
      BY <1>3, <1>4, <2>3, <3>3, <3>6
    <3>8. row[u].id # NoId /\ row[u].id \notin stray => Fits(row[u].lv, server[row[u].id])
      BY <1>5 DEF InStep, Bound
    <3> QED
      BY <1>1, <2>1, <2>2, <3>1, <3>4, <3>5, <3>7, <3>8 DEF PlanOnTrack, Coming
  <2> QED
    BY <2>5, <2>6, <2>7
<1> QED
  BY <1>1, <1>2, <1>4, <1>5, OpenBegins DEF PlanOf

-----------------------------------------------------------------------------

\* The columns that handlers write.
LEMMA LevelSets ==
  /\ Switches([lv |-> "c"], "off") /\ Free([lv |-> "c"])
  /\ Switches([lv |-> "b"], "on") /\ Free([lv |-> "b"])
  /\ \A level \in {"a", "b"} : Switches([ex |-> "live", lv |-> level], "on") /\ Free([ex |-> "live", lv |-> level])
  /\ Switches([ex |-> "due", lv |-> "c"], "off") /\ Free([ex |-> "due", lv |-> "c"])
  BY DEF Switches, Free, Settable, Columns, Level, Expiry, Fits, Outcome

LEMMA OtherSets ==
  /\ Settable(Nothing) /\ DOMAIN Nothing = {} /\ Settable(Cleared)
  /\ Settable([ex |-> "live"]) /\ Free([ex |-> "live"]) /\ DOMAIN [ex |-> "live"] = {"ex"}
  /\ \A n \in 0..MaxCredit : /\ Settable([iv |-> n]) /\ DOMAIN [iv |-> n] = {"iv"} /\ [iv |-> n].iv = n
                             /\ Settable([us |-> n]) /\ DOMAIN [us |-> n] = {"us"} /\ [us |-> n].us = n
  BY FreshColumns DEF Free, Settable, Columns, Level, Expiry, Nothing

LEMMA StartOpens ==
  ASSUME NEW u, NEW j, j.user = u, Start(j) \/ StartLoose(j)
  PROVE  Opens(u, j) /\ UNCHANGED owed
  BY DEF Start, StartLoose, Opens

\* Handlers that enable or disable.
LEMMA SwitchStarts ==
  ASSUME AccountSound, NEW u \in Member, NEW op, NEW by \in {"tg", "embyid"}, NEW f, Switches(f, op), Free(f), Bound(u) \/ by = "tg",
         Start(AskThenWrite(u, op, by, f)) \/ Start(Unchecked(AskThenWrite(u, op, by, f)))
  PROVE  \E j : Begins(u, j)
<1>1. PICK j : /\ j = AskThenWrite(u, op, by, f) \/ j = Unchecked(AskThenWrite(u, op, by, f))
               /\ Start(j)
  OBVIOUS
<1>2. Settable(f)
  BY DEF Switches
<1>3. PICK checked \in BOOLEAN : PlanOf(j, u, <<"ask", "write">>, op, by, f, checked, FALSE)
  BY <1>1, <1>2, PlanForms DEF AskThenWrite
<1>4. Opens(u, j) /\ UNCHANGED owed
  BY <1>1, <1>3, StartOpens DEF PlanOf
<1>5. Costs(u, f, IF FALSE THEN 1 ELSE 0)
  BY <1>2, FreeCosts
<1>6. Begins(u, j)
  BY <1>3, <1>4, <1>5, SwitchBegins
<1> QED
  BY <1>6

LEMMA AskOnlyStarts ==
  ASSUME AccountSound, NEW u \in Member, NEW op \in {"on", "off"}, StartLoose(Plan(u, <<"ask">>, op, "tg", Nothing))
  PROVE  \E j : Begins(u, j)
<1>1. PICK j : j = Plan(u, <<"ask">>, op, "tg", Nothing)
  OBVIOUS
<1>2. PlanOf(j, u, <<"ask">>, op, "tg", Nothing, TRUE, FALSE)
  BY <1>1, OtherSets, PlanForms
<1>3. Launch(j) /\ loose' = loose \union {u} /\ UNCHANGED owed
  BY <1>1, <1>2 DEF StartLoose, PlanOf
<1>4. Begins(u, j)
  BY <1>2, <1>3, OtherSets, AskOnlyBegins
<1> QED
  BY <1>4

LEMMA DeletionStarts ==
  ASSUME AccountSound, NEW u \in Member, NEW by \in {"tg", "embyid"}, Start(AskThenWrite(u, "delete", by, Cleared))
  PROVE  \E j : Begins(u, j)
<1>1. PICK j : j = AskThenWrite(u, "delete", by, Cleared)
  OBVIOUS
<1>2. PlanOf(j, u, <<"ask", "write">>, "delete", by, Cleared, TRUE, FALSE)
  BY <1>1, OtherSets, PlanForms DEF AskThenWrite
<1>3. Opens(u, j) /\ UNCHANGED owed
  BY <1>1, <1>2, StartOpens DEF PlanOf
<1>4. Begins(u, j)
  BY <1>2, <1>3, DeleteBegins
<1> QED
  BY <1>4

-----------------------------------------------------------------------------

\* What a renewal writes besides the level: the credit it takes.
LEMMA OverSets ==
  ASSUME NEW f, Settable(f), NEW g, Settable(g), DOMAIN f \intersect DOMAIN g = {}
  PROVE  /\ Settable(Over(f, g)) /\ DOMAIN Over(f, g) = DOMAIN f \union DOMAIN g
         /\ \A c \in DOMAIN f : Over(f, g)[c] = f[c]
         /\ \A c \in DOMAIN g : Over(f, g)[c] = g[c]
<1>1. Over(f, g) = [c \in DOMAIN f \union DOMAIN g |-> IF c \in DOMAIN f THEN f[c] ELSE g[c]]
  BY DEF Over
<1>2. /\ DOMAIN Over(f, g) = DOMAIN f \union DOMAIN g
      /\ \A c \in DOMAIN f : Over(f, g)[c] = f[c]
      /\ \A c \in DOMAIN g : Over(f, g)[c] = g[c]
  BY <1>1
<1> QED
  BY <1>2 DEF Settable

LEMMA PaysCosts ==
  ASSUME AccountSound, NEW u \in Member, CanPay(u), NEW f, Settable(f), Free(f)
  PROVE  /\ Settable(Over(f, Pays(u))) /\ Costs(u, Over(f, Pays(u)), 1)
         /\ "lv" \in DOMAIN f => "lv" \in DOMAIN Over(f, Pays(u)) /\ Over(f, Pays(u)).lv = f.lv
         /\ "lv" \notin DOMAIN f => "lv" \notin DOMAIN Over(f, Pays(u))
         /\ "id" \notin DOMAIN f => "id" \notin DOMAIN Over(f, Pays(u))
<1>1. row[u] \in Row /\ row[u].us \in 0..MaxCredit /\ row[u].iv \in 0..MaxCredit /\ MaxCredit \in Nat
  BY RowColumns, AccountAssumption DEF AccountSound, AccountTyped
<1>2. CASE row[u].us > 0
  <2>1. row[u].us - 1 \in 0..MaxCredit
    BY <1>1, <1>2
  <2>2. PICK g : g = [us |-> row[u].us - 1]
    OBVIOUS
  <2>3. Pays(u) = g /\ Settable(g) /\ DOMAIN g = {"us"} /\ g.us = row[u].us - 1
    BY <1>2, <2>1, <2>2, OtherSets DEF Pays
  <2>4. PICK h : h = Over(f, g)
    OBVIOUS
  <2>5. /\ Settable(h) /\ DOMAIN h = DOMAIN f \union {"us"} /\ (\A c \in DOMAIN f : h[c] = f[c]) /\ h["us"] = g["us"]
    <3>1. DOMAIN f \intersect DOMAIN g = {} /\ "us" \in DOMAIN g
      BY <2>3 DEF Free
    <3>2. Settable(f) /\ Settable(g)
      BY <2>3
    <3>3. /\ Settable(Over(f, g)) /\ DOMAIN Over(f, g) = DOMAIN f \union DOMAIN g
          /\ (\A c \in DOMAIN f : Over(f, g)[c] = f[c]) /\ \A c \in DOMAIN g : Over(f, g)[c] = g[c]
      BY <3>1, <3>2, OverSets
    <3> QED
      BY <2>3, <2>4, <3>1, <3>3
  <2>6. Over(h, row[u]).us = row[u].us - 1 /\ Over(h, row[u]).iv = row[u].iv
    BY <1>1, <2>3, <2>5, OverColumns DEF Free
  <2>7. Costs(u, h, 1)
    BY <1>1, <2>6 DEF Costs
  <2> QED
    BY <2>3, <2>4, <2>5, <2>7
<1>3. CASE ~(row[u].us > 0)
  <2>1. row[u].iv - 1 \in 0..MaxCredit
    BY <1>1, <1>3 DEF CanPay
  <2>2. PICK g : g = [iv |-> row[u].iv - 1]
    OBVIOUS
  <2>3. Pays(u) = g /\ Settable(g) /\ DOMAIN g = {"iv"} /\ g.iv = row[u].iv - 1
    BY <1>3, <2>1, <2>2, OtherSets DEF Pays
  <2>4. PICK h : h = Over(f, g)
    OBVIOUS
  <2>5. /\ Settable(h) /\ DOMAIN h = DOMAIN f \union {"iv"} /\ (\A c \in DOMAIN f : h[c] = f[c]) /\ h["iv"] = g["iv"]
    <3>1. DOMAIN f \intersect DOMAIN g = {} /\ "iv" \in DOMAIN g
      BY <2>3 DEF Free
    <3>2. Settable(f) /\ Settable(g)
      BY <2>3
    <3>3. /\ Settable(Over(f, g)) /\ DOMAIN Over(f, g) = DOMAIN f \union DOMAIN g
          /\ (\A c \in DOMAIN f : Over(f, g)[c] = f[c]) /\ \A c \in DOMAIN g : Over(f, g)[c] = g[c]
      BY <3>1, <3>2, OverSets
    <3> QED
      BY <2>3, <2>4, <3>1, <3>3
  <2>6. Over(h, row[u]).us = row[u].us /\ Over(h, row[u]).iv = row[u].iv - 1
    BY <1>1, <2>3, <2>5, OverColumns DEF Free
  <2>7. Costs(u, h, 1)
    BY <1>1, <2>6 DEF Costs
  <2> QED
    BY <2>3, <2>4, <2>5, <2>7
<1> QED
  BY <1>2, <1>3

\* The sweeps.
LEMMA RenewalStarts ==
  ASSUME AccountSound, NEW u \in Member, SweepRenews(u)
  PROVE  \E j : Begins(u, j)
<1> DEFINE f == Over([ex |-> "live"], Pays(u))
<1>1. PICK j : j = Buying(Plan(u, <<"write">>, "none", "tg", f))
  OBVIOUS
<1>2. Settable(f) /\ Costs(u, f, 1) /\ "id" \notin DOMAIN f /\ "lv" \notin DOMAIN f
  BY PaysCosts, OtherSets DEF SweepRenews
<1>3. PlanOf(j, u, <<"write">>, "none", "tg", f, TRUE, TRUE)
  BY <1>1, <1>2, PlanForms
<1>4. Opens(u, j) /\ UNCHANGED owed
  BY <1>1, <1>3, StartOpens DEF PlanOf, SweepRenews
<1>5. owed' = [owed EXCEPT ![u] = @ + 0] /\ Costs(u, f, (IF TRUE THEN 1 ELSE 0) - 0)
  BY <1>2, <1>4 DEF AccountSound, AccountTyped
<1>6. Begins(u, j)
  BY <1>2, <1>3, <1>4, <1>5, NoneBegins
<1> QED
  BY <1>6

LEMMA RestoreStarts ==
  ASSUME AccountSound, NEW u \in Member, SweepRestores(u)
  PROVE  \E j : Begins(u, j)
<1> DEFINE f == Over([lv |-> "b", ex |-> "live"], Pays(u))
<1>1. PICK j : j = Buying(AskThenWrite(u, "on", "tg", f))
  OBVIOUS
<1>2. /\ Settable([lv |-> "b", ex |-> "live"]) /\ Free([lv |-> "b", ex |-> "live"])
      /\ DOMAIN [lv |-> "b", ex |-> "live"] = {"lv", "ex"} /\ [lv |-> "b", ex |-> "live"].lv = "b"
  BY DEF Settable, Free, Columns, Level, Expiry
<1>3. Settable(f) /\ Costs(u, f, 1) /\ "id" \notin DOMAIN f /\ "lv" \in DOMAIN f /\ f.lv = "b"
  BY <1>2, PaysCosts DEF SweepRestores
<1>4. Switches(f, "on")
  BY <1>3 DEF Switches, Fits, Outcome
<1>5. PlanOf(j, u, <<"ask", "write">>, "on", "tg", f, TRUE, TRUE)
  BY <1>1, <1>3, PlanForms DEF AskThenWrite
<1>6. Opens(u, j) /\ UNCHANGED owed
  BY <1>1, <1>5, StartOpens DEF PlanOf, SweepRestores
<1>7. Costs(u, f, IF TRUE THEN 1 ELSE 0)
  BY <1>3
<1>8. Begins(u, j)
  BY <1>4, <1>5, <1>6, <1>7, SwitchBegins
<1> QED
  BY <1>8

LEMMA RewardStarts ==
  ASSUME AccountSound, NEW u \in Member, RankReward(u)
  PROVE  \E j : Begins(u, j)
<1>1. PICK f : f = [iv |-> row[u].iv + 1]
  OBVIOUS
<1>2. PICK j : j = Plan(u, <<"write">>, "none", "tg", f)
  OBVIOUS
<1>3. /\ row[u] \in Row /\ row[u].us \in 0..MaxCredit /\ row[u].iv \in 0..MaxCredit /\ MaxCredit \in Nat
  BY RowColumns, AccountAssumption DEF AccountSound, AccountTyped
<1>4. row[u].iv + 1 \in 0..MaxCredit
  BY <1>3 DEF RankReward
<1>5. Settable(f) /\ DOMAIN f = {"iv"} /\ f.iv = row[u].iv + 1
  BY <1>1, <1>4, OtherSets
<1>6. Over(f, row[u]).us = row[u].us /\ Over(f, row[u]).iv = row[u].iv + 1
  BY <1>3, <1>5, OverColumns
<1>7. Costs(u, f, (IF FALSE THEN 1 ELSE 0) - 1)
  BY <1>3, <1>6 DEF Costs
<1>8. PlanOf(j, u, <<"write">>, "none", "tg", f, TRUE, FALSE)
  BY <1>2, <1>5, PlanForms
<1>9. Opens(u, j) /\ owed' = [owed EXCEPT ![u] = @ + 1]
  BY <1>1, <1>2 DEF RankReward, Opens
<1>10. Begins(u, j)
  BY <1>5, <1>7, <1>8, <1>9, NoneBegins
<1> QED
  BY <1>10

LEMMA RebornStarts ==
  ASSUME AccountSound, NEW u \in Member, Reborn(u)
  PROVE  \E j : Begins(u, j)
<1>1. PICK f : f = [iv |-> row[u].iv - 1, lv |-> "b"]
  OBVIOUS
<1>2. PICK j : j = Buying(Unchecked(Plan(u, <<"write", "ask">>, "on", "tg", f)))
  OBVIOUS
<1>3. /\ row[u] \in Row /\ row[u].us \in 0..MaxCredit /\ row[u].iv \in 0..MaxCredit /\ MaxCredit \in Nat
  BY RowColumns, AccountAssumption DEF AccountSound, AccountTyped
<1>4. row[u].iv - 1 \in 0..MaxCredit
  BY <1>3 DEF Reborn
<1>5. Switches(f, "on") /\ DOMAIN f = {"iv", "lv"} /\ f.iv = row[u].iv - 1
  BY <1>1, <1>4 DEF Switches, Settable, Columns, Level, Fits, Outcome
<1>6. Settable(f)
  BY <1>5 DEF Switches
<1>7. Over(f, row[u]).us = row[u].us /\ Over(f, row[u]).iv = row[u].iv - 1
  BY <1>3, <1>5, <1>6, OverColumns
<1>8. Costs(u, f, IF TRUE THEN 1 ELSE 0)
  BY <1>3, <1>7 DEF Costs
<1>9. PlanOf(j, u, <<"write", "ask">>, "on", "tg", f, FALSE, TRUE)
  BY <1>2, <1>6, PlanForms
<1>10. Opens(u, j) /\ UNCHANGED owed
  BY <1>1, <1>2, <1>9, StartOpens DEF PlanOf, Reborn
<1>11. Begins(u, j)
  BY <1>5, <1>8, <1>9, <1>10, SwitchBegins
<1> QED
  BY <1>11

\* The other deletions, and what is written without an account.
LEMMA RemovalStarts ==
  ASSUME AccountSound, NEW u \in Member, SyncGroupm(u) \/ Paolu(u) \/ OnlyRmRecord(u)
  PROVE  \E j : Begins(u, j)
<1>1. CASE SyncGroupm(u)
  <2>1. PICK j : j = [Deletion(u) EXCEPT !.todo = <<"ask", "write", "remove">>, !.by = "embyid"]
    OBVIOUS
  <2>2. PICK d : d = Deletion(u)
    OBVIOUS
  <2>3. PlanOf(d, u, <<"ask", "write">>, "delete", "embyid", Cleared, TRUE, FALSE)
    BY <2>2, OtherSets, PlanForms DEF Deletion, AskThenWrite
  <2>4. j = [d EXCEPT !.todo = <<"ask", "write", "remove">>, !.by = "embyid"]
    BY <2>1, <2>2
  <2>5. PlanOf(j, u, <<"ask", "write", "remove">>, "delete", "embyid", Cleared, TRUE, FALSE)
    BY <2>3, <2>4 DEF PlanOf, IsPlan
  <2>6. Opens(u, j) /\ UNCHANGED owed
    BY <1>1, <2>1, <2>5, StartOpens DEF PlanOf, SyncGroupm
  <2>7. Begins(u, j)
    BY <2>5, <2>6, DeleteBegins
  <2> QED
    BY <2>7
<1>2. CASE Paolu(u)
  <2>1. PICK j : j = Plan(u, <<"ask", "remove">>, "delete", "either", Nothing)
    OBVIOUS
  <2>2. PlanOf(j, u, <<"ask", "remove">>, "delete", "either", Nothing, TRUE, FALSE)
    BY <2>1, OtherSets, PlanForms
  <2>3. Opens(u, j) /\ UNCHANGED owed
    BY <1>2, <2>1, <2>2, StartOpens DEF PlanOf, Paolu
  <2>4. Begins(u, j)
    BY <2>2, <2>3, DeleteBegins
  <2> QED
    BY <2>4
<1>3. CASE OnlyRmRecord(u)
  <2>1. PICK j : j = Plan(u, <<"remove">>, "none", "tg", Nothing)
    OBVIOUS
  <2>2. PlanOf(j, u, <<"remove">>, "none", "tg", Nothing, TRUE, FALSE)
    BY <2>1, OtherSets, PlanForms
  <2>3. Opens(u, j) /\ UNCHANGED owed
    BY <1>3, <2>1, <2>2, StartOpens DEF PlanOf, OnlyRmRecord
  <2>4. owed' = [owed EXCEPT ![u] = @ + 0]
    BY <2>3 DEF AccountSound, AccountTyped
  <2>5. Begins(u, j)
    BY <2>2, <2>3, <2>4, NoneBegins
  <2> QED
    BY <2>5
<1> QED
  BY <1>1, <1>2, <1>3

LEMMA BatchStarts ==
  ASSUME AccountSound, NEW u \in Member, Batch(u)
  PROVE  \E j : Begins(u, j)
<1>1. CASE BatchPolicy(u)
  BY <1>1, AskOnlyStarts DEF BatchPolicy
<1>2. CASE BatchClear(u) /\ Bound(u)
  BY <1>2, DeletionStarts DEF BatchClear, DeletionByUser
<1>3. CASE BatchClear(u) /\ ~Bound(u)
  <2>1. PICK j : j = Plan(u, <<"write">>, "none", "tg", Cleared)
    OBVIOUS
  <2>2. PlanOf(j, u, <<"write">>, "none", "tg", Cleared, TRUE, FALSE)
    BY <2>1, OtherSets, PlanForms
  <2>3. Start(j)
    BY <1>3, <2>1 DEF BatchClear
  <2>4. Opens(u, j) /\ UNCHANGED owed
    BY <2>2, <2>3, StartOpens DEF PlanOf
  <2>5. owed' = [owed EXCEPT ![u] = @ + 0]
    BY <2>4 DEF AccountSound, AccountTyped
  <2>6. Begins(u, j)
    BY <2>2, <2>4, <2>5, NoneBegins
  <2> QED
    BY <2>6
<1>4. CASE BatchExtend(u)
  <2>1. PICK f : f = [ex |-> "live"]
    OBVIOUS
  <2>2. Settable(f) /\ Free(f) /\ DOMAIN f = {"ex"}
    BY <2>1, OtherSets
  <2>3. PICK j : j = Plan(u, <<"write">>, "none", "tg", f)
    OBVIOUS
  <2>4. PlanOf(j, u, <<"write">>, "none", "tg", f, TRUE, FALSE)
    BY <2>2, <2>3, PlanForms
  <2>5. Opens(u, j) /\ UNCHANGED owed
    BY <1>4, <2>1, <2>3, <2>4, StartOpens DEF PlanOf, BatchExtend
  <2>6. owed' = [owed EXCEPT ![u] = @ + 0] /\ Costs(u, f, (IF FALSE THEN 1 ELSE 0) - 0)
    BY <2>2, <2>5, FreeCosts DEF AccountSound, AccountTyped
  <2>7. Begins(u, j)
    BY <2>2, <2>4, <2>5, <2>6, NoneBegins
  <2> QED
    BY <2>7
<1> QED
  BY <1>1, <1>2, <1>3, <1>4 DEF Batch

LEMMA SweepStarts ==
  ASSUME AccountSound, NEW u \in Member, Sweep(u)
  PROVE  \E j : Begins(u, j)
<1>1. CASE SweepDisables(u)
  BY <1>1, LevelSets, SwitchStarts DEF SweepDisables
<1>2. CASE SweepDeletes(u)
  BY <1>2, DeletionStarts DEF SweepDeletes, Deletion
<1>3. CASE LowActivity(u)
  <2>1. Bound(u)
    BY <1>3 DEF LowActivity, Exists, Bound
  <2>2. CASE Start(AskThenWrite(u, "off", "embyid", [lv |-> "c"]))
    BY <2>1, <2>2, LevelSets, SwitchStarts
  <2>3. CASE Start(Deletion(u))
    BY <2>3, DeletionStarts DEF Deletion
  <2> QED
    BY <1>3, <2>2, <2>3 DEF LowActivity
<1> QED
  BY <1>1, <1>2, <1>3, RenewalStarts, RestoreStarts, RewardStarts DEF Sweep

LEMMA EraseStarts ==
  ASSUME AccountSound, NEW u \in Member, Erase(u)
  PROVE  \E j : Begins(u, j)
<1>1. CASE Start(Deletion(u)) \/ Start(DeletionByUser(u))
  BY <1>1, DeletionStarts DEF Deletion, DeletionByUser
<1> QED
  BY <1>1, RemovalStarts DEF Erase, CloseEmby, RmEmby, UinfoDelete, LeaveDelEmby, DelEmby, Urm

\* A change at once is gentle: of a user at work it changes neither level nor balances.
Gentle ==
    \A v \in Member \ loose' :
        \/ /\ row'[v].lv = row[v].lv /\ row'[v].us = row[v].us /\ row'[v].iv = row[v].iv /\ owed'[v] = owed[v]
        \/ ~Busy(v) /\ (InStep(v) => InStep(v)')

Changes == Touches /\ Gentle

\* One row.
LEMMA RowChanges ==
  ASSUME AccountSound, NEW u \in Member, NEW r \in Row, r.id = row[u].id, row' = [row EXCEPT ![u] = r],
         NEW given \in Int, owed' = [owed EXCEPT ![u] = @ + given], UNCHANGED <<server, job, stray>>,
         loose \subseteq loose', loose' \subseteq Member,
         \/ r.lv = row[u].lv /\ r.us = row[u].us /\ r.iv = row[u].iv /\ given = 0
         \/ u \in loose'
         \/ /\ ~Busy(u) /\ r.us + r.iv = row[u].us + row[u].iv + given
            /\ r.lv = row[u].lv \/ (row[u].lv # "c" /\ r.lv \in {"a", "b"})
  PROVE  Changes
<1>1. /\ row' \in [Member -> Row] /\ row'[u] = r /\ \A v \in Member \ {u} : row'[v] = row[v]
  BY DEF AccountSound, AccountTyped
<1>2. /\ owed' \in [Member -> Int] /\ owed'[u] = owed[u] + given /\ \A v \in Member \ {u} : owed'[v] = owed[v]
  BY DEF AccountSound, AccountTyped
<1>3. Touches
  BY <1>1, <1>2 DEF Touches
<1>4. /\ row[u].us \in Int /\ row[u].iv \in Int /\ owed[u] \in Int /\ row[u].lv \in Level
  BY RowColumns, AccountAssumption DEF AccountSound, AccountTyped
<1>5. ASSUME r.us + r.iv = row[u].us + row[u].iv + given,
             r.lv = row[u].lv \/ (row[u].lv # "c" /\ r.lv \in {"a", "b"}), InStep(u)
      PROVE  InStep(u)'
  <2>1. row'[u].us + row'[u].iv = owed'[u]
    BY <1>1, <1>2, <1>4, <1>5 DEF InStep
  <2>2. Bound(u)' /\ row'[u].id \notin stray' => Fits(row[u].lv, server[row[u].id])
    BY <1>1, <1>5 DEF InStep, Bound
  <2>3. Bound(u)' /\ row'[u].id \notin stray' => Fits(row'[u].lv, server'[row'[u].id])
    BY <1>1, <1>4, <1>5, <2>2 DEF Fits, Level
  <2> QED
    BY <2>1, <2>3 DEF InStep
<1>6. Gentle
  <2> SUFFICES ASSUME NEW v \in Member \ loose'
               PROVE  \/ /\ row'[v].lv = row[v].lv /\ row'[v].us = row[v].us /\ row'[v].iv = row[v].iv /\ owed'[v] = owed[v]
                      \/ ~Busy(v) /\ (InStep(v) => InStep(v)')
    BY DEF Gentle
  <2>1. CASE v # u
    BY <1>1, <1>2, <2>1
  <2>2. CASE v = u
    BY <1>1, <1>2, <1>4, <1>5, <2>2
  <2> QED
    BY <2>1, <2>2
<1> QED
  BY <1>3, <1>6 DEF Changes

\* A user that is busy meets a handler.
LEMMA BusyMeets ==
  ASSUME NEW u, loose' = Loosened(u)
  PROVE  ~Busy(u) \/ u \in loose'
  BY DEF Busy, Loosened, Meets

LEMMA AtOnceChanges ==
  ASSUME AccountSound, NEW u \in Member, NEW f, Settable(f), NEW given \in Int, AtOnce(u, f),
         owed' = [owed EXCEPT ![u] = @ + given], "id" \notin DOMAIN f, "lv" \notin DOMAIN f, Costs(u, f, 0 - given)
  PROVE  Changes
<1>1. PICK r : r = Over(f, row[u])
  OBVIOUS
<1>2. row[u] \in Row /\ row[u].us \in Int /\ row[u].iv \in Int
  BY RowColumns, AccountAssumption DEF AccountSound, AccountTyped
<1>3. r \in Row /\ r.id = row[u].id /\ r.lv = row[u].lv
  BY <1>1, <1>2, OverColumns
<1>4. r.us \in Int /\ r.iv \in Int
  BY <1>3, RowColumns, AccountAssumption
<1>5. r.us + r.iv = row[u].us + row[u].iv + given
  BY <1>1, <1>2, <1>4 DEF Costs
<1>6. row' = [row EXCEPT ![u] = r] /\ UNCHANGED <<server, job, stray>> /\ loose' = Loosened(u)
  BY <1>1 DEF AtOnce
<1>7. loose \subseteq loose' /\ loose' \subseteq Member
  BY <1>6 DEF Loosened, AccountSound, AccountTyped
<1>8. ~Busy(u) \/ u \in loose'
  BY <1>6, BusyMeets
<1> QED
  BY <1>3, <1>5, <1>6, <1>7, <1>8, RowChanges

\* Levels given by hand, credits given and renewals.
LEMMA LevelChanges ==
  ASSUME AccountSound, NEW u \in Member, ProUser(u) \/ RevUser(u)
  PROVE  Changes
<1>1. PICK level \in {"a", "b"} : row' = [row EXCEPT ![u].lv = level]
  BY DEF ProUser, RevUser
<1>2. PICK r : r = [row[u] EXCEPT !.lv = level]
  OBVIOUS
<1>3. row[u] \in Row
  BY DEF AccountSound, AccountTyped
<1>4. r \in Row /\ r.id = row[u].id /\ r.lv = level /\ r.us = row[u].us /\ r.iv = row[u].iv
  BY <1>2, <1>3 DEF Row, Level
<1>5. row[u].us \in Int /\ row[u].iv \in Int
  BY <1>3, RowColumns, AccountAssumption
<1>6. /\ row' = [row EXCEPT ![u] = r] /\ UNCHANGED <<server, job, stray, owed>>
      /\ loose \subseteq loose' /\ loose' \subseteq Member
      /\ u \in loose' \/ (row[u].lv # "c" /\ ~Busy(u))
  <2>1. row[u].lv # "c" => loose' = Loosened(u)
    BY DEF ProUser, RevUser
  <2>2. row[u].lv = "c" => loose' = loose \union {u}
    BY DEF ProUser, RevUser
  <2>3. loose \subseteq loose' /\ loose' \subseteq Member
    BY <2>1, <2>2 DEF Loosened, AccountSound, AccountTyped
  <2> QED
    BY <1>1, <1>2, <2>1, <2>2, <2>3, BusyMeets DEF ProUser, RevUser
<1>7. PICK n \in Int : n = 0
  OBVIOUS
<1>8. owed' = [owed EXCEPT ![u] = @ + n]
  BY <1>6, <1>7 DEF AccountSound, AccountTyped
<1>9. r.us + r.iv = row[u].us + row[u].iv + n
  BY <1>4, <1>5, <1>7
<1> QED
  BY <1>4, <1>6, <1>8, <1>9, RowChanges

LEMMA CreditChanges ==
  ASSUME AccountSound, NEW u \in Member, ScoreUser(u) \/ CoinsUser(u)
  PROVE  Changes
<1>1. /\ row[u] \in Row /\ row[u].us \in 0..MaxCredit /\ row[u].iv \in 0..MaxCredit /\ MaxCredit \in Nat
  BY RowColumns, AccountAssumption DEF AccountSound, AccountTyped
<1>2. CASE ScoreUser(u)
  <2>1. PICK f : f = [us |-> row[u].us + 1]
    OBVIOUS
  <2>2. row[u].us + 1 \in 0..MaxCredit
    BY <1>1, <1>2 DEF ScoreUser
  <2>3. Settable(f) /\ DOMAIN f = {"us"} /\ f.us = row[u].us + 1
    BY <2>1, <2>2, OtherSets
  <2>4. Over(f, row[u]).us = row[u].us + 1 /\ Over(f, row[u]).iv = row[u].iv
    BY <1>1, <2>3, OverColumns
  <2>5. PICK n \in Int : n = 1
    OBVIOUS
  <2>6. Costs(u, f, 0 - n)
    BY <1>1, <2>4, <2>5 DEF Costs
  <2>7. AtOnce(u, f) /\ owed' = [owed EXCEPT ![u] = @ + n]
    BY <1>2, <2>1, <2>5 DEF ScoreUser, Earns
  <2> QED
    BY <2>3, <2>5, <2>6, <2>7, AtOnceChanges
<1>3. CASE CoinsUser(u)
  <2>1. PICK f : f = [iv |-> row[u].iv + 1]
    OBVIOUS
  <2>2. row[u].iv + 1 \in 0..MaxCredit
    BY <1>1, <1>3 DEF CoinsUser
  <2>3. Settable(f) /\ DOMAIN f = {"iv"} /\ f.iv = row[u].iv + 1
    BY <2>1, <2>2, OtherSets
  <2>4. Over(f, row[u]).us = row[u].us /\ Over(f, row[u]).iv = row[u].iv + 1
    BY <1>1, <2>3, OverColumns
  <2>5. PICK n \in Int : n = 1
    OBVIOUS
  <2>6. Costs(u, f, 0 - n)
    BY <1>1, <2>4, <2>5 DEF Costs
  <2>7. AtOnce(u, f) /\ owed' = [owed EXCEPT ![u] = @ + n]
    BY <1>3, <2>1, <2>5 DEF CoinsUser, Earns
  <2> QED
    BY <2>3, <2>5, <2>6, <2>7, AtOnceChanges
<1> QED
  BY <1>2, <1>3

\* The expiry moved at once.
LEMMA ExpiryChanges ==
  ASSUME AccountSound, NEW u \in Member, NEW f, f \in {[ex |-> "live"], [ex |-> "due"]}, AtOnce(u, f), UNCHANGED owed
  PROVE  Changes
<1>1. Settable(f) /\ Free(f) /\ DOMAIN f = {"ex"}
  BY DEF Settable, Free, Columns, Expiry
<1>2. PICK n \in Int : n = 0
  OBVIOUS
<1>3. owed' = [owed EXCEPT ![u] = @ + n]
  BY <1>2 DEF AccountSound, AccountTyped
<1>4. Costs(u, f, 0 - n)
  BY <1>1, <1>2, FreeCosts
<1> QED
  BY <1>1, <1>2, <1>3, <1>4, AtOnceChanges

LEMMA TickChanges ==
  ASSUME AccountSound, NEW u \in Member, Tick(u)
  PROVE  Changes
<1>1. PICK e : e = IF row[u].ex = "live" THEN "due" ELSE "frozen"
  OBVIOUS
<1>2. PICK r : r = [row[u] EXCEPT !.ex = e]
  OBVIOUS
<1>3. row[u] \in Row
  BY DEF AccountSound, AccountTyped
<1>4. r \in Row /\ r.id = row[u].id /\ r.lv = row[u].lv /\ r.us = row[u].us /\ r.iv = row[u].iv
  BY <1>1, <1>2, <1>3 DEF Row, Expiry
<1>5. row' = [row EXCEPT ![u] = r] /\ UNCHANGED <<server, job, owed, loose, stray>>
  BY <1>1, <1>2 DEF Tick
<1>6. PICK n \in Int : n = 0
  OBVIOUS
<1>7. owed' = [owed EXCEPT ![u] = @ + n] /\ loose \subseteq loose' /\ loose' \subseteq Member
  BY <1>5, <1>6 DEF AccountSound, AccountTyped
<1> QED
  BY <1>4, <1>5, <1>6, <1>7, RowChanges

\* All rows at once.
LEMMA RenewAllChanges == AccountSound /\ RenewAll => Changes
<1> SUFFICES ASSUME AccountSound, RenewAll PROVE Changes
  OBVIOUS
<1>1. \A v \in Member : /\ row[v] \in Row /\ [row[v] EXCEPT !.ex = "live"] \in Row
                        /\ [row[v] EXCEPT !.ex = "live"].id = row[v].id /\ [row[v] EXCEPT !.ex = "live"].lv = row[v].lv
                        /\ [row[v] EXCEPT !.ex = "live"].us = row[v].us /\ [row[v] EXCEPT !.ex = "live"].iv = row[v].iv
  BY DEF AccountSound, AccountTyped, Row, Expiry
<1>2. /\ row' \in [Member -> Row]
      /\ \A v \in Member : /\ row'[v].id = row[v].id /\ row'[v].lv = row[v].lv
                           /\ row'[v].us = row[v].us /\ row'[v].iv = row[v].iv
  BY <1>1 DEF RenewAll
<1>3. loose \subseteq loose' /\ loose' \subseteq Member
  BY DEF RenewAll, AccountSound, AccountTyped
<1> QED
  BY <1>2, <1>3 DEF RenewAll, Changes, Touches, Gentle, AccountSound, AccountTyped

\* A change of the coins of everybody: those at work on somebody are told.
LEMMA CoinsChange ==
  ASSUME AccountSound, UNCHANGED <<server, job, stray>>, row' \in [Member -> Row], owed' \in [Member -> Int],
         loose' = loose \union {u \in Member : Busy(u)},
         \A v \in Member : /\ row'[v].id = row[v].id /\ row'[v].lv = row[v].lv
                           /\ row[v].us + row[v].iv = owed[v] => row'[v].us + row'[v].iv = owed'[v]
  PROVE  Changes
<1>1. Touches
  BY DEF Touches, AccountSound, AccountTyped
<1>2. ASSUME NEW v \in Member \ loose'
      PROVE  ~Busy(v) /\ (InStep(v) => InStep(v)')
  BY <1>2 DEF InStep, Bound
<1> QED
  BY <1>1, <1>2 DEF Changes, Gentle

LEMMA CoinsAllChanges == AccountSound /\ CoinsAll => Changes
<1> SUFFICES ASSUME AccountSound, CoinsAll PROVE Changes
  OBVIOUS
<1> DEFINE given == {u \in Member : row[u].lv = "b"}
<1>1. \A v \in Member : /\ row[v] \in Row /\ row[v].us \in Int /\ row[v].iv \in 0..MaxCredit /\ owed[v] \in Int
  BY RowColumns, AccountAssumption DEF AccountSound, AccountTyped
<1>2. /\ row' = [u \in Member |-> IF u \in given THEN [row[u] EXCEPT !.iv = @ + 1] ELSE row[u]]
      /\ owed' = [u \in Member |-> IF u \in given THEN owed[u] + 1 ELSE owed[u]]
      /\ \A u \in given : row[u].iv < MaxCredit
  BY DEF CoinsAll
<1>3. ASSUME NEW v \in Member
      PROVE  /\ row'[v] \in Row /\ owed'[v] \in Int /\ row'[v].id = row[v].id /\ row'[v].lv = row[v].lv
             /\ row[v].us + row[v].iv = owed[v] => row'[v].us + row'[v].iv = owed'[v]
  <2>1. CASE v \in given
    <3>1. row'[v] = [row[v] EXCEPT !.iv = @ + 1] /\ owed'[v] = owed[v] + 1
      BY <1>2, <2>1
    <3>2. row[v].iv + 1 \in 0..MaxCredit
      BY <1>1, <1>2, <2>1, AccountAssumption
    <3>3. row'[v] \in Row /\ row'[v].id = row[v].id /\ row'[v].lv = row[v].lv /\ row'[v].us = row[v].us /\ row'[v].iv = row[v].iv + 1
      BY <1>1, <3>1, <3>2 DEF Row
    <3> QED
      BY <1>1, <3>1, <3>3
  <2>2. CASE v \notin given
    BY <1>1, <1>2, <2>2
  <2> QED
    BY <2>1, <2>2
<1>4. row' \in [Member -> Row] /\ owed' \in [Member -> Int]
  BY <1>2, <1>3
<1> QED
  BY <1>3, <1>4, CoinsChange DEF CoinsAll

LEMMA CoinsClearChanges == AccountSound /\ CoinsClear => Changes
<1> SUFFICES ASSUME AccountSound, CoinsClear PROVE Changes
  OBVIOUS
<1>1. \A v \in Member : /\ row[v] \in Row /\ row[v].us \in Int /\ row[v].iv \in Int /\ owed[v] \in Int
  BY RowColumns, AccountAssumption DEF AccountSound, AccountTyped
<1>2. /\ row' = [u \in Member |-> [row[u] EXCEPT !.iv = 0]] /\ owed' = [u \in Member |-> owed[u] - row[u].iv]
  BY DEF CoinsClear
<1>3. ASSUME NEW v \in Member
      PROVE  /\ row'[v] \in Row /\ owed'[v] \in Int /\ row'[v].id = row[v].id /\ row'[v].lv = row[v].lv
             /\ row[v].us + row[v].iv = owed[v] => row'[v].us + row'[v].iv = owed'[v]
  <2>1. row'[v] = [row[v] EXCEPT !.iv = 0] /\ owed'[v] = owed[v] - row[v].iv
    BY <1>2
  <2>2. row'[v] \in Row /\ row'[v].id = row[v].id /\ row'[v].lv = row[v].lv /\ row'[v].us = row[v].us /\ row'[v].iv = 0
    BY <1>1, <2>1, AccountAssumption DEF Row
  <2> QED
    BY <1>1, <2>1, <2>2
<1>4. row' \in [Member -> Row] /\ owed' \in [Member -> Int]
  BY <1>2, <1>3
<1> QED
  BY <1>3, <1>4, CoinsChange DEF CoinsClear

\* A code renews under the row's lock; Emby is asked afterwards.
LEMMA RedemptionStarts ==
  ASSUME AccountSound, NEW u \in Member, Bound(u),
         row' = [row EXCEPT ![u].ex = "live", ![u].lv = IF @ = "c" THEN "b" ELSE @],
         Enter(Unchecked(Plan(u, <<"ask">>, "on", "tg", Nothing))), loose' = Loosened(u), UNCHANGED <<server, owed, stray>>
  PROVE  \E j : Begins(u, j)
<1>1. PICK j : j = Unchecked(Plan(u, <<"ask">>, "on", "tg", Nothing))
  OBVIOUS
<1>2. PlanOf(j, u, <<"ask">>, "on", "tg", Nothing, FALSE, FALSE)
  BY <1>1, OtherSets, PlanForms
<1>3. Planned(j) /\ j.op = "on" /\ ~Restoring(j) /\ ~Binding(j)
  BY <1>2, OtherSets, TodoTails DEF PlanOf, Planned, Switching, Restoring, Binding, PlanTodo
<1>4. row[u] \in Row
  BY DEF AccountSound, AccountTyped
<1>5. PICK level : level = IF row[u].lv = "c" THEN "b" ELSE row[u].lv
  OBVIOUS
<1>6. row' = [row EXCEPT ![u] = [row[u] EXCEPT !.ex = "live", !.lv = level]]
  BY <1>5
<1>7. PICK r : r = [row[u] EXCEPT !.ex = "live", !.lv = level]
  OBVIOUS
<1>8. /\ r \in Row /\ r.id = row[u].id /\ r.lv = level /\ r.us = row[u].us /\ r.iv = row[u].iv
  BY <1>4, <1>5, <1>7 DEF Row, Level, Expiry
<1>9. /\ row' \in [Member -> Row] /\ row'[u] = r /\ \A v \in Member \ {u} : row'[v] = row[v]
  BY <1>6, <1>7, <1>8 DEF AccountSound, AccountTyped
<1>10. ASSUME InStep(u) PROVE PlanOnTrack(j)'
  <2>1. j.user = u /\ j.id = row[u].id /\ j.buys = FALSE /\ j.checked = FALSE /\ Pending(j, "ask") /\ ~Pending(j, "write") /\ ~Pending(j, "remove")
    BY <1>2, PendingIs DEF PlanOf
  <2>2. Final(j)' = r /\ Paid(j)' = 0
    BY <1>9, <2>1 DEF Final, Paid
  <2>3. r.us + r.iv = owed[u] /\ owed[u] - 0 = owed[u]
    BY <1>8, <1>10 DEF InStep, AccountSound, AccountTyped
  <2>4. r.id \notin stray => Fits(r.lv, "on")
    BY <1>4, <1>5, <1>8, <1>10, RowColumns DEF InStep, Fits, Level
  <2>5. Coming(j, r.id)' = "on"
    BY <1>3, <2>1 DEF Coming, Outcome
  <2> QED
    BY <1>3, <1>8, <1>9, <2>1, <2>2, <2>3, <2>4, <2>5 DEF PlanOnTrack
<1>11. \E s \in Handler : ~AtWork(s) /\ job' = [job EXCEPT ![s] = j]
  BY <1>1 DEF Enter
<1>12. loose \subseteq loose' /\ loose' \subseteq loose \union {u} /\ ((\E t \in Handler : Meets(t, u, row[u].id)) => u \in loose')
  BY DEF Loosened
<1>13. \A v \in Member : row'[v].id = row[v].id
  BY <1>8, <1>9
<1>14. j.user = u /\ j.id = row[u].id
  BY <1>2 DEF PlanOf
<1>15. Begins(u, j)
  BY <1>3, <1>9, <1>10, <1>11, <1>12, <1>13, <1>14 DEF Begins, AccountSound, AccountTyped
<1> QED
  BY <1>15

\* What the handlers of a user do first, each in one of two ways.
LEMMA JudgeSteps ==
  ASSUME AccountSound, NEW u \in Member, Judge(u)
  PROVE  (\E j : Begins(u, j)) \/ Changes
<1>1. CASE ProUser(u) \/ RevUser(u)
  BY <1>1, LevelChanges
<1>2. CASE Start(AskThenWrite(u, "off", "tg", [lv |-> "c"])) \/ Start(AskThenWrite(u, "on", "tg", [lv |-> "b"]))
  BY <1>2, LevelSets, SwitchStarts
<1>3. CASE Bound(u) /\ (\/ Start(AskThenWrite(u, "off", "embyid", [lv |-> "c"]))
                         \/ Start(AskThenWrite(u, "on", "embyid", [lv |-> "b"])))
  BY <1>3, LevelSets, SwitchStarts
<1>4. CASE \E op \in {"on", "off"} : StartLoose(Plan(u, <<"ask">>, op, "tg", Nothing))
  BY <1>4, AskOnlyStarts
<1> QED
  BY <1>1, <1>2, <1>3, <1>4 DEF Judge, KkUserBan, UinfoDisable, UinfoEnable, BanUser, HandleClientFilter,
     LineReport, HandleLineViolation, BanPlaylist, BanAll, UnbanAll

LEMMA CreditSteps ==
  ASSUME AccountSound, NEW u \in Member, Credit(u)
  PROVE  (\E j : Begins(u, j)) \/ Changes
<1>1. CASE Renew(u)
  <2>1. PICK level : level \in {"a", "b"} /\ level = IF row[u].lv = "a" THEN "a" ELSE "b"
    OBVIOUS
  <2>2. CASE Start(Unchecked(AskThenWrite(u, "on", "tg", [ex |-> "live", lv |-> level])))
    <3>1. PICK f : f = [ex |-> "live", lv |-> level]
      OBVIOUS
    <3>2. Switches(f, "on") /\ Free(f)
      BY <2>1, <3>1, LevelSets
    <3> QED
      BY <2>2, <3>1, <3>2, SwitchStarts
  <2>3. CASE AtOnce(u, [ex |-> "due"]) /\ UNCHANGED owed
    BY <2>3, ExpiryChanges
  <2>4. CASE Start(Unchecked(AskThenWrite(u, "off", "tg", [ex |-> "due", lv |-> "c"])))
    <3>1. PICK f : f = [ex |-> "due", lv |-> "c"]
      OBVIOUS
    <3>2. Switches(f, "off") /\ Free(f)
      BY <3>1, LevelSets
    <3> QED
      BY <2>4, <3>1, <3>2, SwitchStarts
  <2> QED
    BY <1>1, <2>1, <2>2, <2>3, <2>4 DEF Renew
<1>2. CASE RedeemRenewal(u)
  <2>1. CASE AtOnce(u, [ex |-> "live"]) /\ UNCHANGED owed
    BY <2>1, ExpiryChanges
  <2> QED
    BY <1>2, <2>1, RedemptionStarts DEF RedeemRenewal
<1> QED
  BY <1>1, <1>2, RebornStarts, CreditChanges DEF Credit, UpdateCredit

LEMMA UserSteps ==
  ASSUME AccountSound, NEW u \in Member, Tick(u) \/ Sweep(u) \/ Judge(u) \/ Credit(u) \/ Erase(u) \/ Batch(u)
  PROVE  (\E j : Begins(u, j)) \/ Changes
  BY TickChanges, SweepStarts, JudgeSteps, CreditSteps, EraseStarts, BatchStarts

LEMMA AllChange ==
  ASSUME AccountSound, RenewAll \/ CoinsAll \/ CoinsClear
  PROVE  Changes
  BY RenewAllChanges, CoinsAllChanges, CoinsClearChanges

LEMMA ErasesIs ==
  ASSUME AccountSound, NEW i \in EmbyId, OnlyRmEmby(i) \/ SyncUnbound(i)
  PROVE  Erases(i)
  BY DEF OnlyRmEmby, SyncUnbound, Exists, Erases, AccountSound, AccountTyped, Holders

-----------------------------------------------------------------------------

\* Every handler that begins enters.
LEMMA BeginEnters ==
  ASSUME AccountSound, NEW u \in Member, NEW j, Begins(u, j)
  PROVE  \E s \in Handler : Enters(s, j)
<1>1. PICK s \in Handler : ~AtWork(s) /\ job' = [job EXCEPT ![s] = j]
  BY DEF Begins
<1>2. Planned(j) /\ j.todo \in PlanTodo /\ j.todo # <<>> /\ Shaped(j)
  BY PlanSteps, TodoHeads DEF Begins, Shaped
<1>3. ~Making(j)
  BY <1>2, OtherSteps, TodoHeads
<1>4. j.id = row[u].id /\ (j.id # NoId => server[j.id] # "unborn")
  BY DEF Begins, AccountSound, Born, Bound
<1>5. \A t \in Handler : At(t, "complete") => j.id # job[t].id
  BY <1>4 DEF AccountSound, MakingFresh
<1>6. loose \subseteq loose' /\ loose' \subseteq Member
  BY DEF Begins, AccountSound, AccountTyped
<1>7. Enters(s, j)
  BY <1>1, <1>2, <1>3, <1>4, <1>5, <1>6 DEF Begins, Enters, AccountSound, AccountTyped
<1> QED
  BY <1>7

\* The other beginnings: a registration, a new account for a row, a binding, a move.
RegisterOf(u, i) == [user |-> u, id |-> i, op |-> "create", todo |-> <<"complete">>]
MoveOf(u, w) ==
    [user |-> u, to |-> w, id |-> row[u].id, op |-> "move", by |-> "tg", todo |-> <<"clear", "rebind">>,
     set |-> [id |-> row[u].id, lv |-> row[u].lv, ex |-> row[u].ex, iv |-> row[u].iv]]
BindOf(u, i) ==
    [Plan(u, <<"ask", "write">>, "check", "tg", [id |-> i, lv |-> "b", ex |-> "live"]) EXCEPT !.id = i]
RestoreOf(u, i) == Plan(u, <<"write">>, "create", "tg", [id |-> i])

LEMMA RegisterEnters ==
  ASSUME AccountSound, NEW u \in Member, Register(u)
  PROVE  \E s \in Handler, i \in EmbyId : \E j :
           /\ Enters(s, j) /\ Making(j) /\ j.user = u /\ j.id = i /\ server[i] = "unborn" /\ ~Bound(u)
           /\ server' = [server EXCEPT ![i] = "on"]
           /\ loose' = Loosened(u) /\ UNCHANGED <<row, owed, stray>>
<1>1. PICK i \in EmbyId : /\ server[i] = "unborn" /\ server' = [server EXCEPT ![i] = "on"] /\ Enter(RegisterOf(u, i))
                          /\ loose' = Loosened(u) /\ UNCHANGED <<row, owed, stray>> /\ ~Bound(u)
  BY DEF Register, RegisterOf
<1>2. PICK j : j = RegisterOf(u, i)
  OBVIOUS
<1>3. Making(j) /\ j.user = u /\ j.id = i /\ j.op = "create" /\ j.todo = <<"complete">>
  BY <1>2 DEF Making, RegisterOf
<1>4. j.todo # <<>> /\ ~Restoring(j)
  BY <1>3 DEF Restoring
<1>5. PICK s \in Handler : ~AtWork(s) /\ job' = [job EXCEPT ![s] = j]
  BY <1>1, <1>2 DEF Enter
<1>6. loose \subseteq loose' /\ loose' \subseteq Member
  BY <1>1 DEF Loosened, AccountSound, AccountTyped
<1>7. Enters(s, j)
  BY <1>1, <1>3, <1>4, <1>5, <1>6 DEF Enters, Shaped, AccountSound, AccountTyped
<1> QED
  BY <1>1, <1>3, <1>7

LEMMA RestoreEnters ==
  ASSUME AccountSound, NEW u \in Member, RestoreFromDb(u)
  PROVE  \E s \in Handler, i \in EmbyId : \E j :
           /\ Enters(s, j) /\ Restoring(j) /\ j.user = u /\ j.id = row[u].id /\ server[i] = "unborn" /\ Bound(u)
           /\ server' = [server EXCEPT ![i] = "on"]
           /\ loose' = loose \union {u} /\ UNCHANGED <<row, owed, stray>>
<1>1. PICK i \in EmbyId : /\ server[i] = "unborn" /\ server' = [server EXCEPT ![i] = "on"] /\ Enter(RestoreOf(u, i))
                          /\ loose' = loose \union {u} /\ UNCHANGED <<row, owed, stray>> /\ Bound(u)
  BY DEF RestoreFromDb, RestoreOf
<1>2. PICK f : f = [id |-> i]
  OBVIOUS
<1>3. Settable(f) /\ DOMAIN f = {"id"} /\ f.id = i
  BY <1>2 DEF Settable, Columns
<1>4. PICK j : j = RestoreOf(u, i)
  OBVIOUS
<1>5. PlanOf(j, u, <<"write">>, "create", "tg", f, TRUE, FALSE)
  BY <1>2, <1>3, <1>4, PlanForms DEF RestoreOf
<1>6. /\ Restoring(j) /\ IsPlan(j) /\ j.user = u /\ j.id = row[u].id /\ j.set.id = i /\ j.op = "create" /\ j.todo = <<"write">>
  BY <1>3, <1>5 DEF PlanOf, Restoring
<1>7. Planned(j) /\ j.todo \in PlanTodo /\ j.todo # <<>> /\ ~Making(j)
  BY <1>6, OtherSteps, TodoHeads, PlanSteps DEF Planned
<1>8. PICK s \in Handler : ~AtWork(s) /\ job' = [job EXCEPT ![s] = j]
  BY <1>1, <1>4 DEF Enter
<1>9. row[u].id # NoId /\ row[u].id \in EmbyId /\ server[row[u].id] # "unborn"
  BY <1>1, RowColumns DEF AccountSound, AccountTyped, Born, Bound
<1>10. \A t \in Handler : At(t, "complete") => j.id # job[t].id
  BY <1>6 DEF AccountSound, MakingFresh
<1>11. loose \subseteq loose' /\ loose' \subseteq Member
  BY <1>1 DEF AccountSound, AccountTyped
<1>12. Enters(s, j)
  BY <1>1, <1>6, <1>7, <1>8, <1>9, <1>10, <1>11 DEF Enters, Shaped, AccountSound, AccountTyped
<1> QED
  BY <1>1, <1>6, <1>12

LEMMA BindEnters ==
  ASSUME AccountSound, NEW u \in Member, NEW i \in EmbyId, BindTg(u, i)
  PROVE  \E s \in Handler : \E j :
           /\ Enters(s, j) /\ Binding(j) /\ j.user = u /\ j.id = i /\ ~Bound(u) /\ Holders(i) = {}
           /\ loose' = Loosened(u) /\ UNCHANGED <<row, server, owed, stray>>
<1>1. PICK f : f = [id |-> i, lv |-> "b", ex |-> "live"]
  OBVIOUS
<1>2. Settable(f)
  BY <1>1 DEF Settable, Columns, Level, Expiry
<1>3. PICK d : d = Plan(u, <<"ask", "write">>, "check", "tg", f)
  OBVIOUS
<1>4. PlanOf(d, u, <<"ask", "write">>, "check", "tg", f, TRUE, FALSE)
  BY <1>2, <1>3, PlanForms
<1>5. PICK j : j = BindOf(u, i)
  OBVIOUS
<1>6. j = [d EXCEPT !.id = i]
  BY <1>1, <1>3, <1>5 DEF BindOf
<1>7. IsPlan(j) /\ j.user = u /\ j.id = i /\ j.todo = <<"ask", "write">> /\ j.op = "check" /\ j.by = "tg" /\ j.set = f /\ j.checked /\ ~j.buys
  BY <1>4, <1>6 DEF PlanOf, IsPlan
<1>8. Binding(j) /\ Planned(j) /\ j.todo \in PlanTodo /\ j.todo # <<>>
  BY <1>1, <1>7, PlanSteps, TodoHeads DEF Binding, Planned
<1>9. ~Making(j) /\ ~Restoring(j)
  BY <1>7, <1>8 DEF Making, Restoring
<1>10. Start(j) /\ ~Bound(u) /\ Exists(i) /\ Holders(i) = {} /\ \A t \in Handler : At(t, "complete") => job[t].id # i
  BY <1>5 DEF BindTg, BindOf
<1>11. PICK s \in Handler : ~AtWork(s) /\ job' = [job EXCEPT ![s] = j]
  BY <1>10 DEF Start, Launch, Enter
<1>12. UNCHANGED <<row, server, owed, stray>> /\ loose' = Loosened(u)
  BY <1>7, <1>10 DEF Start, Launch
<1>13. loose \subseteq loose' /\ loose' \subseteq Member
  BY <1>12 DEF Loosened, AccountSound, AccountTyped
<1>14. server[i] # "unborn"
  BY <1>10 DEF Exists
<1>15. Enters(s, j)
  BY <1>7, <1>8, <1>9, <1>10, <1>11, <1>12, <1>13, <1>14 DEF Enters, Shaped, AccountSound, AccountTyped
<1> QED
  BY <1>7, <1>8, <1>10, <1>12, <1>15

LEMMA MoveEnters ==
  ASSUME AccountSound, NEW u \in Member, NEW w \in Member, ChangeTg(u, w)
  PROVE  \E s \in Handler : \E j :
           /\ Enters(s, j) /\ Moving(j) /\ j.user = u /\ j.id = row[u].id /\ j.set.lv = row[u].lv /\ Pending(j, "clear") /\ Bound(u)
           /\ loose' = Loosened(u) /\ UNCHANGED <<row, server, owed, stray>>
<1>1. Bound(u) /\ u # w /\ Enter(MoveOf(u, w)) /\ loose' = Loosened(u) /\ UNCHANGED <<row, server, owed, stray>>
  BY DEF ChangeTg, MoveOf
<1>2. PICK j : j = MoveOf(u, w)
  OBVIOUS
<1>3. /\ DOMAIN j = {"user", "to", "id", "op", "by", "todo", "set"} /\ j.user = u /\ j.to = w /\ j.id = row[u].id
      /\ j.op = "move" /\ j.by = "tg" /\ j.todo = <<"clear", "rebind">>
      /\ j.set = [id |-> row[u].id, lv |-> row[u].lv, ex |-> row[u].ex, iv |-> row[u].iv]
  BY <1>2 DEF MoveOf
<1>4. row[u].id \in EmbyId /\ row[u].id # NoId /\ server[row[u].id] # "unborn"
  BY <1>1, RowColumns DEF AccountSound, AccountTyped, Born, Bound
<1>5. DOMAIN j.set = {"id", "lv", "ex", "iv"} /\ j.set.id = row[u].id /\ j.set.lv = row[u].lv /\ Settable(j.set)
  BY <1>3, RowColumns DEF AccountSound, AccountTyped, Settable, Columns
<1>6. Moving(j)
  BY <1>1, <1>3, <1>4, <1>5 DEF Moving
<1>7. Pending(j, "clear")
  BY <1>3, PendingIs
<1>8. j.todo # <<>> /\ ~Making(j) /\ ~Restoring(j)
  BY <1>3, <1>7 DEF Making, Restoring, Pending
<1>9. PICK s \in Handler : ~AtWork(s) /\ job' = [job EXCEPT ![s] = j]
  BY <1>1, <1>2 DEF Enter
<1>10. \A t \in Handler : At(t, "complete") => j.id # job[t].id
  BY <1>3 DEF AccountSound, MakingFresh
<1>11. loose \subseteq loose' /\ loose' \subseteq Member
  BY <1>1 DEF Loosened, AccountSound, AccountTyped
<1>12. Enters(s, j)
  BY <1>1, <1>3, <1>4, <1>6, <1>8, <1>9, <1>10, <1>11 DEF Enters, Shaped, AccountSound, AccountTyped
<1> QED
  BY <1>1, <1>3, <1>5, <1>6, <1>7, <1>12

\* However handlers interleave.
LEMMA AccountStep == AccountSound /\ [AccountNext]_accountVars => AccountSound'
<1> SUFFICES ASSUME AccountSound, [AccountNext]_accountVars PROVE AccountSound'
  OBVIOUS
<1>1. ASSUME NEW u \in Member, NEW j, Begins(u, j) PROVE AccountSound'
  BY <1>1, BeginEnters, EnterSound
<1>2. CASE Changes
  BY <1>2, TouchSound DEF Changes
<1>3. CASE \E s \in Handler : JobStep(s)
  BY <1>3, JobAdvances, AdvanceSound
<1>4. ASSUME NEW u \in Member, Register(u) \/ RestoreFromDb(u) PROVE AccountSound'
  BY <1>4, RegisterEnters, RestoreEnters, EnterSound
<1>5. ASSUME NEW u \in Member, Tick(u) \/ Sweep(u) \/ Judge(u) \/ Credit(u) \/ Erase(u) \/ Batch(u) PROVE AccountSound'
  BY <1>1, <1>2, <1>5, UserSteps
<1>6. ASSUME NEW u \in Member, NEW w \in Member, ChangeTg(u, w) PROVE AccountSound'
  BY <1>6, MoveEnters, EnterSound
<1>7. ASSUME NEW u \in Member, NEW i \in EmbyId, BindTg(u, i) PROVE AccountSound'
  BY <1>7, BindEnters, EnterSound
<1>8. ASSUME NEW i \in EmbyId, OnlyRmEmby(i) \/ SyncUnbound(i) PROVE AccountSound'
  BY <1>8, ErasesIs, EraseSound
<1>9. CASE RenewAll \/ CoinsAll \/ CoinsClear
  BY <1>2, <1>9, AllChange
<1>10. CASE UNCHANGED accountVars
  BY <1>10 DEF accountVars, AccountSound, AccountTyped, Born, MakingFresh, Shared, Deleted, Dangling, Bound, AtWork, At
<1> QED
  BY <1>3, <1>4, <1>5, <1>6, <1>7, <1>8, <1>9, <1>10 DEF AccountNext

LEMMA AccountStart == AccountInit => AccountSound
<1> SUFFICES ASSUME AccountInit PROVE AccountSound
  OBVIOUS
<1>1. \A s \in Handler : job[s] = NoJob /\ ~AtWork(s)
  BY DEF AccountInit, AtWork, NoJob
<1>2. Fresh \in Row /\ Fresh.id = NoId
  BY FreshColumns
<1>3. AccountTyped
  BY <1>1, <1>2 DEF AccountInit, AccountTyped, Shaped
<1>4. \A u \in Member : ~Bound(u)
  BY <1>2 DEF AccountInit, Bound
<1> QED
  BY <1>1, <1>3, <1>4 DEF AccountSound, Born, MakingFresh, Shared, Deleted, Dangling, At

LEMMA AccountAlways == AccountsSpec => []AccountSound
<1>1. AccountsInit => AccountSound
  BY AccountStart DEF AccountsInit
<1>2. AccountSound /\ [AccountsNext]_accountsVars => AccountSound'
  <2>1. [AccountsNext]_accountsVars => [AccountNext]_accountVars
    BY DEF AccountsNext, accountsVars
  <2> QED
    BY <2>1, AccountStep
<1> QED
  BY <1>1, <1>2, PTL DEF AccountsSpec

\* A handler that looks for the account asks for its deletion, and Emby has answered.
LEMMA FoundByAccount ==
  ASSUME AccountSound, NEW s \in Handler, At(s, "write") \/ At(s, "remove"), NEW u \in Matches(job[s]),
         job[s].by \notin {"tg", "either"}, At(s, "write") => "id" \in DOMAIN job[s].set
  PROVE  server[row[u].id] = "gone"
<1>1. AtWork(s) /\ Shaped(job[s]) /\ ~At(s, "ask")
  BY SlotShape DEF At, AccountSound
<1>2. Planned(job[s])
  BY <1>1, WriteOf, RemoveOf DEF At, AtWork
<1>3. job[s].by = "embyid" /\ row[u].id = job[s].id
  BY <1>2, PlanFinds DEF Matches, Holders
<1>4. Deleting(job[s])
  <2>1. ~Restoring(job[s]) /\ ~Binding(job[s]) /\ ~Writing(job[s])
    BY <1>3 DEF Restoring, Binding, Writing
  <2>2. At(s, "remove") => ~Switching(job[s])
    BY <1>1, RemoveOf DEF At, AtWork, Switching, Deleting, Writing
  <2>3. At(s, "write") => ~Switching(job[s])
    BY DEF Switching
  <2> QED
    BY <1>2, <2>1, <2>2, <2>3 DEF Planned
<1> QED
  BY <1>1, <1>3, <1>4 DEF AccountSound, Deleted, Deleting

LEMMA ClearedStep ==
  ASSUME AccountSound, [AccountNext]_accountVars, NEW u \in Member, Bound(u), row'[u].id # row[u].id, ~ByUser(u),
         ~\E s \in Handler : At(s, "rebind")
  PROVE  server[row[u].id] = "gone"
<1>1. ASSUME \A v \in Member : row'[v].id = row[v].id PROVE FALSE
  BY <1>1
<1>2. ASSUME NEW v \in Member, NEW j, Begins(v, j) PROVE FALSE
  BY <1>1, <1>2 DEF Begins
<1>3. ~Changes
  BY <1>1 DEF Changes, Touches
<1>4. ASSUME NEW s \in Handler, NEW j, Enters(s, j) PROVE FALSE
  BY <1>1, <1>4 DEF Enters
<1>5. row' # row
  BY <1>1
<1>6. PICK s \in Handler : JobStep(s)
  <2>1. ASSUME NEW v \in Member, Tick(v) \/ Sweep(v) \/ Judge(v) \/ Credit(v) \/ Erase(v) \/ Batch(v) PROVE FALSE
    BY <1>2, <1>3, <2>1, UserSteps
  <2>2. ASSUME NEW v \in Member, Register(v) \/ RestoreFromDb(v) PROVE FALSE
    BY <1>4, <2>2, RegisterEnters, RestoreEnters
  <2>3. ASSUME NEW v \in Member, NEW w \in Member, ChangeTg(v, w) PROVE FALSE
    BY <1>4, <2>3, MoveEnters
  <2>4. ASSUME NEW v \in Member, NEW i \in EmbyId, BindTg(v, i) PROVE FALSE
    BY <1>4, <2>4, BindEnters
  <2>5. ASSUME NEW i \in EmbyId, OnlyRmEmby(i) \/ SyncUnbound(i) PROVE FALSE
    BY <1>5, <2>5 DEF OnlyRmEmby, SyncUnbound
  <2>6. ~(RenewAll \/ CoinsAll \/ CoinsClear)
    BY <1>3, AllChange
  <2> QED
    BY <1>5, <2>1, <2>2, <2>3, <2>4, <2>5, <2>6 DEF AccountNext, accountVars
<1>7. CASE EmbyAnswers(s) \/ EmbyFails(s) \/ StepFails(s)
  BY <1>5, <1>7 DEF EmbyAnswers, EmbyFails, StepFails
<1>8. CASE Write(s)
  <2>1. At(s, "write") /\ \E v \in Matches(job[s]) : row' = [row EXCEPT ![v] = Over(job[s].set, row[v])]
    BY <1>5, <1>8 DEF Write
  <2>2. PICK v \in Matches(job[s]) : row' = [row EXCEPT ![v] = Over(job[s].set, row[v])]
    BY <2>1
  <2>3. u = v /\ row'[u] = Over(job[s].set, row[u])
    BY <2>2 DEF AccountSound, AccountTyped
  <2>4. job[s].by \notin {"tg", "either"}
    BY <2>1, <2>2, <2>3 DEF ByUser
  <2>5. Settable(job[s].set) /\ row[u] \in Row
    BY <2>1, SlotShape, WriteOf DEF At, AtWork, Planned, IsPlan, AccountSound, AccountTyped
  <2>6. "id" \in DOMAIN job[s].set
    BY <2>3, <2>5, OverColumns
  <2> QED
    BY <2>1, <2>2, <2>3, <2>4, <2>6, FoundByAccount
<1>9. CASE Remove(s)
  <2>1. At(s, "remove") /\ \E v \in Matches(job[s]) : row' = [row EXCEPT ![v] = Fresh]
    BY <1>5, <1>9 DEF Remove
  <2>2. PICK v \in Matches(job[s]) : row' = [row EXCEPT ![v] = Fresh]
    BY <2>1
  <2>3. u = v
    BY <2>2 DEF AccountSound, AccountTyped
  <2>4. job[s].by \notin {"tg", "either"}
    BY <2>1, <2>2, <2>3 DEF ByUser
  <2>5. ~At(s, "write")
    BY <2>1 DEF At
  <2> QED
    BY <2>1, <2>2, <2>3, <2>4, <2>5, FoundByAccount
<1>10. CASE Completes(s)
  BY <1>5, <1>10 DEF Completes, AccountSound, AccountTyped, Bound
<1>11. CASE ClearOld(s)
  <2>1. At(s, "clear") /\ job[s].by = "tg" /\ u = job[s].user
    BY <1>11, SlotShape, MoreOf DEF ClearOld, At, AtWork, Moving, AccountSound, AccountTyped
  <2> QED
    BY <2>1 DEF ByUser, Matches
<1>12. CASE Rebind(s)
  BY <1>12 DEF Rebind
<1> QED
  BY <1>6, <1>7, <1>8, <1>9, <1>10, <1>11, <1>12 DEF JobStep

\* A handler that finds the row by its account clears it only after Emby has deleted
\* that account (sql_update_emby and sql_delete_emby in the handlers that delete).
THEOREM ClearedOnlyDeletedAlways == AccountsSpec => ClearedOnlyDeleted
<1>1. AccountSound /\ [AccountsNext]_accountsVars =>
        [\A u \in Member : (Bound(u) /\ row'[u].id # row[u].id /\ ~ByUser(u) /\ ~\E s \in Handler : At(s, "rebind"))
                            => server[row[u].id] = "gone"]_accountVars
  <2>1. [AccountsNext]_accountsVars => [AccountNext]_accountVars
    BY DEF AccountsNext, accountsVars
  <2> QED
    BY <2>1, ClearedStep
<1> QED
  BY <1>1, AccountAlways, PTL DEF AccountsSpec, ClearedOnlyDeleted

-----------------------------------------------------------------------------

\* A plan's outcome depends on level, account and balances only.
Outlook(j, r) == IF Pending(j, "write") THEN Over(j.set, r) ELSE r

LEMMA OutlookOf ==
  ASSUME NEW j, Planned(j), ~Restoring(j), ~Binding(j), NEW r \in Row
  PROVE  /\ Outlook(j, r) \in Row /\ Outlook(j, r).id \in {r.id, NoId}
         /\ \A q \in Row : q.id = r.id /\ q.lv = r.lv /\ q.us = r.us /\ q.iv = r.iv =>
              /\ Outlook(j, q).id = Outlook(j, r).id /\ Outlook(j, q).lv = Outlook(j, r).lv
              /\ Outlook(j, q).us = Outlook(j, r).us /\ Outlook(j, q).iv = Outlook(j, r).iv
<1>1. CASE ~Pending(j, "write")
  BY <1>1 DEF Outlook
<1>2. CASE Pending(j, "write")
  <2>1. Settable(j.set)
    BY DEF Planned, IsPlan
  <2>2. \A q \in Row : /\ Outlook(j, q) = Over(j.set, q) /\ Over(j.set, q) \in Row
                       /\ Over(j.set, q).id = IF "id" \in DOMAIN j.set THEN j.set.id ELSE q.id
                       /\ Over(j.set, q).lv = IF "lv" \in DOMAIN j.set THEN j.set.lv ELSE q.lv
                       /\ Over(j.set, q).us = IF "us" \in DOMAIN j.set THEN j.set.us ELSE q.us
                       /\ Over(j.set, q).iv = IF "iv" \in DOMAIN j.set THEN j.set.iv ELSE q.iv
    BY <1>2, <2>1, OverColumns DEF Outlook
  <2>3. "id" \in DOMAIN j.set => j.set.id = NoId
    <3>1. CASE Switching(j)
      BY <3>1 DEF Switching
    <3>2. CASE j.set = Cleared
      BY <3>2, FreshColumns
    <3>3. CASE j.set = Nothing
      BY <3>3, OtherSets
    <3>4. CASE j.todo = <<"remove">>
      BY <1>2, <3>4, PendingIs
    <3> QED
      BY <3>1, <3>2, <3>3, <3>4 DEF Planned, Deleting, Writing
  <2> QED
    BY <2>2, <2>3
<1> QED
  BY <1>1, <1>2

\* Nothing that happens concerns v.
Spared(v) ==
    /\ row' \in [Member -> Row] /\ row'[v].id = row[v].id /\ row'[v].lv = row[v].lv
    /\ row'[v].us = row[v].us /\ row'[v].iv = row[v].iv /\ owed'[v] = owed[v]
    /\ stray \subseteq stray'
    /\ Bound(v) => row[v].id \in stray' \/ server'[row[v].id] = server[row[v].id]
    /\ \A t \in Handler : (AtWork(t) /\ job[t].user = v) \/ (AtWork(t)' /\ job'[t].user = v) => job'[t] = job[t]
    /\ \A t \in Handler : AtWork(t)' /\ Bound(v) /\ job'[t].id = row[v].id =>
         job'[t].user = v \/ (AtWork(t) /\ job[t].id = job'[t].id /\ job[t].user = job'[t].user)
    /\ \A s \in Handler : AtWork(s) /\ job[s].user = v /\ job[s].op = "move" /\ ~Pending(job[s], "clear") =>
         /\ job[s].id \in stray' \/ server'[job[s].id] = server[job[s].id]
         /\ \A u \in Member : row'[u].id # job[s].id
         /\ \A t \in Handler \ {s} : AtWork(t)' /\ job'[t].id = job[s].id => job'[t].op = "check"

LEMMA MovingOf ==
  ASSUME NEW j, Shaped(j), j.todo # <<>>, j.op = "move"
  PROVE  Moving(j)
  BY DEF Shaped, NoJob, Planned, Switching, Deleting, Writing, Restoring, Binding, Making

LEMMA SparedInStep ==
  ASSUME NEW v, Spared(v), InStep(v)
  PROVE  InStep(v)'
  BY DEF Spared, InStep, Bound

LEMMA SparedPlan ==
  ASSUME AccountSound, NEW j, Planned(j), ~Restoring(j), ~Binding(j), Spared(j.user), PlanOnTrack(j)
  PROVE  PlanOnTrack(j)'
<1> DEFINE v == j.user
<1>1. v \in Member /\ row[v] \in Row /\ row'[v] \in Row
  BY DEF AccountSound, AccountTyped, Planned, IsPlan, Spared
<1>2. Final(j) = Outlook(j, row[v]) /\ Final(j)' = Outlook(j, row'[v]) /\ Paid(j)' = Paid(j)
  BY DEF Final, Outlook, Paid
<1>3. /\ Final(j)'.id = Final(j).id /\ Final(j)'.lv = Final(j).lv
      /\ Final(j)'.us = Final(j).us /\ Final(j)'.iv = Final(j).iv
      /\ Final(j).id \in {row[v].id, NoId}
  BY <1>1, <1>2, OutlookOf DEF Spared
<1>4. row'[v].id = row[v].id /\ owed'[v] = owed[v]
  BY DEF Spared
<1>5. Final(j)'.id # NoId /\ Final(j)'.id \notin stray' =>
        Final(j).id # NoId /\ Final(j).id \notin stray /\ Coming(j, Final(j).id)' = Coming(j, Final(j).id)
  BY <1>3 DEF Spared, Coming, Bound
<1>6. InStep(v) => InStep(v)'
  BY SparedInStep
<1> QED
  BY <1>2, <1>3, <1>4, <1>5, <1>6 DEF PlanOnTrack

LEMMA SparedCalm ==
  ASSUME AccountSound, NEW v \in Member, CalmUser(v), Spared(v)
  PROVE  CalmUser(v)'
<1>1. \A t \in Handler : AtWork(t)' /\ job'[t].user = v => AtWork(t) /\ job[t].user = v /\ job'[t] = job[t]
  BY DEF Spared, AtWork
<1>2. Alone(v)'
  <2> SUFFICES ASSUME NEW t \in Handler, AtWork(t)'
               PROVE  /\ job'[t].user = v => \A s \in Handler : AtWork(s)' /\ job'[s].user = v => s = t
                      /\ Bound(v)' /\ job'[t].id = row'[v].id => job'[t].user = v
    BY DEF Alone
  <2>1. ASSUME job'[t].user = v, NEW s \in Handler, AtWork(s)', job'[s].user = v PROVE s = t
    BY <1>1, <2>1 DEF CalmUser, Alone
  <2>2. ASSUME Bound(v)', job'[t].id = row'[v].id PROVE job'[t].user = v
    BY <2>2 DEF CalmUser, Alone, Spared, Bound
  <2> QED
    BY <2>1, <2>2
<1>3. ASSUME NEW s \in Handler, AtWork(s)', job'[s].user = v
      PROVE  OnTrack(s)'
  <2>1. PICK j : j = job[s]
    OBVIOUS
  <2>2. AtWork(s) /\ j.user = v /\ job'[s] = j /\ Shaped(j) /\ j # NoJob
    BY <1>1, <1>3, <2>1, SlotShape DEF AccountSound, AtWork, NoJob
  <2>3. JobOnTrack(s, j)
    BY <2>1, <2>2 DEF CalmUser, OnTrack
  <2>4. j.op \in {"on", "off", "none", "delete"} => PlanOnTrack(j)'
    <3>1. ASSUME j.op \in {"on", "off", "none", "delete"}
          PROVE  Planned(j) /\ ~Restoring(j) /\ ~Binding(j) /\ PlanOnTrack(j)
      BY <2>2, <2>3, <3>1 DEF JobOnTrack, Shaped, Moving, Making, Restoring, Binding
    <3> QED
      BY <2>2, <3>1, SparedPlan
  <2>5. BindOnTrack(j) => BindOnTrack(j)'
    BY <2>2 DEF BindOnTrack, Spared
  <2>6. j.op = "move" => MoveOnTrack(s, j)'
    <3> SUFFICES ASSUME j.op = "move" PROVE MoveOnTrack(s, j)'
      OBVIOUS
    <3>1. MoveOnTrack(s, j) /\ Moving(j)
      BY <1>3, <2>2, <2>3, MovingOf DEF JobOnTrack, AtWork
    <3>2. j.id # NoId
      BY <3>1, AccountAssumption DEF Moving
    <3>3. CASE Pending(j, "clear")
      BY <2>2, <3>1, <3>2, <3>3 DEF MoveOnTrack, Spared, Bound
    <3>4. CASE ~Pending(j, "clear")
      <4>1. Holders(j.id)' = {}
        BY <2>1, <2>2, <3>4 DEF Spared, Holders
      <4> QED
        BY <2>1, <2>2, <2>5, <3>1, <3>4, <4>1 DEF MoveOnTrack, Spared
    <3> QED
      BY <3>3, <3>4
  <2>7. JobOnTrack(s, j)'
    BY <2>3, <2>4, <2>5, <2>6 DEF JobOnTrack
  <2> QED
    BY <2>2, <2>7 DEF OnTrack
<1>4. ~Busy(v)' => InStep(v)'
  <2>1. Busy(v) => Busy(v)'
    <3> SUFFICES ASSUME NEW t \in Handler, AtWork(t), job[t].user = v PROVE Busy(v)'
      BY DEF Busy
    <3>1. job'[t] = job[t]
      BY DEF Spared
    <3> QED
      BY <3>1 DEF Busy, AtWork
  <2> QED
    BY <2>1, SparedInStep DEF CalmUser
<1> QED
  BY <1>2, <1>3, <1>4 DEF CalmUser

\* A handler enters that another user does not share.
LEMMA EnterSpares ==
  ASSUME AccountSound, NEW s \in Handler, NEW j, Enters(s, j), NEW v \in Member \ loose, CalmUser(v), j.user \in Member \ {v},
         row'[v] = row[v], owed'[v] = owed[v],
         j.id = row[j.user].id \/ Making(j) \/ (Holders(j.id) = {} /\ j.op = "check")
  PROVE  Spared(v)
<1>1. \A t \in Handler : job'[t] = IF t = s THEN j ELSE job[t]
  BY DEF AccountSound, AccountTyped, Enters
<1>2. \A i \in EmbyId : server[i] # "unborn" => server'[i] = server[i]
  BY DEF Enters
<1>3. Bound(v) => server'[row[v].id] = server[row[v].id]
  BY <1>2, RowColumns DEF AccountSound, AccountTyped, Born, Bound
<1>4. j.id # NoId => (\E u \in Member \ {v} : row[u].id = j.id) \/ server[j.id] = "unborn" \/ (Holders(j.id) = {} /\ j.op = "check")
  BY DEF Enters
<1>5. Bound(v) => row[v].id # j.id
  <2> SUFFICES ASSUME Bound(v), row[v].id = j.id PROVE FALSE
    OBVIOUS
  <2>1. CASE \E u \in Member \ {v} : row[u].id = j.id
    BY <2>1 DEF AccountSound, Shared
  <2>2. CASE server[j.id] = "unborn"
    BY <2>2 DEF AccountSound, Born
  <2>3. CASE Holders(j.id) = {}
    BY <2>3 DEF Holders
  <2> QED
    BY <1>4, <2>1, <2>2, <2>3 DEF Bound
<1>6. ASSUME NEW t \in Handler, AtWork(t), job[t].user = v, job[t].op = "move", ~Pending(job[t], "clear")
      PROVE  /\ server'[job[t].id] = server[job[t].id]
             /\ \A u \in Member : row'[u].id # job[t].id
             /\ \A x \in Handler \ {t} : AtWork(x)' /\ job'[x].id = job[t].id => job'[x].op = "check"
  <2>1. Moving(job[t])
    BY <1>6, SlotShape, MovingOf DEF AccountSound, AtWork
  <2>2. job[t].id \in EmbyId /\ job[t].id # NoId /\ server[job[t].id] # "unborn"
    BY <1>6, <2>1, AccountAssumption DEF Moving, AccountSound, Born
  <2>3. MoveOnTrack(t, job[t])
    BY <1>6 DEF CalmUser, OnTrack, JobOnTrack
  <2>4. /\ Holders(job[t].id) = {}
        /\ \A x \in Handler \ {t} : AtWork(x) /\ job[x].id = job[t].id => job[x].op = "check"
    BY <1>6, <2>3 DEF MoveOnTrack
  <2>5. \A u \in Member : row[u].id # job[t].id
    BY <2>4 DEF Holders
  <2>6. \A u \in Member : row'[u].id # job[t].id
    BY <2>5 DEF Enters
  <2>7. ASSUME NEW x \in Handler \ {t}, AtWork(x)', job'[x].id = job[t].id PROVE job'[x].op = "check"
    <3>1. CASE x = s
      BY <1>1, <1>4, <2>2, <2>5, <2>7, <3>1
    <3>2. CASE x # s
      BY <1>1, <2>4, <2>7, <3>2 DEF AtWork
    <3> QED
      BY <3>1, <3>2
  <2> QED
    BY <1>2, <2>2, <2>6, <2>7
<1>7. \A t \in Handler : (AtWork(t) /\ job[t].user = v) \/ (AtWork(t)' /\ job'[t].user = v) => job'[t] = job[t]
  BY <1>1 DEF Enters
<1>8. \A t \in Handler : AtWork(t)' /\ Bound(v) /\ job'[t].id = row[v].id =>
         job'[t].user = v \/ (AtWork(t) /\ job[t].id = job'[t].id /\ job[t].user = job'[t].user)
  BY <1>1, <1>5 DEF AtWork
<1> QED
  BY <1>3, <1>6, <1>7, <1>8 DEF Spared, Enters

LEMMA EnterCalm ==
  ASSUME AccountSound, Calm, NEW s \in Handler, NEW j, Enters(s, j), NEW u \in Member, j.user = u,
         \A v \in Member \ {u} : row'[v] = row[v] /\ owed'[v] = owed[v],
         j.id = row[u].id \/ Making(j) \/ (Holders(j.id) = {} /\ j.op = "check"),
         (\E t \in Handler : Meets(t, u, row[u].id)) => u \in loose',
         u \notin loose' /\ InStep(u) => JobOnTrack(s, j)'
  PROVE  Calm'
<1>1. \A t \in Handler : job'[t] = IF t = s THEN j ELSE job[t]
  BY DEF AccountSound, AccountTyped, Enters
<1>2. loose \subseteq loose'
  BY DEF Enters
<1>3. ASSUME NEW v \in Member \ loose', v # u PROVE CalmUser(v)'
  <2>1. v \in Member \ loose /\ CalmUser(v) /\ j.user \in Member \ {v}
    BY <1>2, <1>3 DEF Calm
  <2>2. Spared(v)
    BY <1>3, <2>1, EnterSpares
  <2> QED
    BY <2>1, <2>2, SparedCalm
<1>4. ASSUME u \notin loose' PROVE CalmUser(u)'
  <2>1. \A t \in Handler : ~Meets(t, u, row[u].id)
    BY <1>4
  <2>2. InStep(u)
    BY <1>2, <1>4, <2>1 DEF Calm, CalmUser, Busy, Meets
  <2>3. JobOnTrack(s, j)'
    BY <1>4, <2>2
  <2>4. AtWork(s)' /\ job'[s].user = u
    BY <1>1 DEF AtWork, Enters
  <2>5. \A t \in Handler : AtWork(t)' /\ job'[t].user = u => t = s
    BY <1>1, <2>1 DEF Meets, AtWork
  <2>6. \A t \in Handler : AtWork(t)' /\ Bound(u)' /\ job'[t].id = row'[u].id => job'[t].user = u
    <3> SUFFICES ASSUME NEW t \in Handler, AtWork(t)', Bound(u)', job'[t].id = row'[u].id, t # s PROVE FALSE
      BY <2>4
    <3>1. AtWork(t) /\ job[t].id = row[u].id /\ row[u].id # NoId
      BY <1>1 DEF AtWork, Bound, Enters
    <3> QED
      BY <2>1, <3>1 DEF Meets
  <2>7. OnTrack(s)'
    BY <1>1, <2>3 DEF OnTrack
  <2> QED
    BY <2>4, <2>5, <2>6, <2>7 DEF CalmUser, Alone, Busy
<1> QED
  BY <1>3, <1>4 DEF Calm

LEMMA BeginCalm ==
  ASSUME AccountSound, Calm, NEW u \in Member, NEW j, Begins(u, j)
  PROVE  Calm'
<1>1. PICK s \in Handler : Enters(s, j)
  BY BeginEnters
<1>2. u \notin loose' /\ InStep(u) => JobOnTrack(s, j)'
  BY DEF Begins, JobOnTrack, Planned, Switching, Deleting, Writing
<1> QED
  BY <1>1, <1>2, EnterCalm DEF Begins

LEMMA RegisterCalm ==
  ASSUME AccountSound, Calm, NEW u \in Member, Register(u)
  PROVE  Calm'
<1>1. PICK s \in Handler, i \in EmbyId : \E j :
           /\ Enters(s, j) /\ Making(j) /\ j.user = u /\ j.id = i /\ server[i] = "unborn" /\ ~Bound(u)
           /\ server' = [server EXCEPT ![i] = "on"]
           /\ loose' = Loosened(u) /\ UNCHANGED <<row, owed, stray>>
  BY RegisterEnters
<1>2. PICK j :
           /\ Enters(s, j) /\ Making(j) /\ j.user = u /\ ~Bound(u)
           /\ loose' = Loosened(u) /\ UNCHANGED <<row, owed, stray>>
  BY <1>1
<1>3. ~Restoring(j) /\ j.op = "create"
  BY <1>2 DEF Making, Restoring
<1>4. InStep(u) => JobOnTrack(s, j)'
  BY <1>2, <1>3 DEF JobOnTrack, BindOnTrack, InStep, Bound
<1>5. (\E t \in Handler : Meets(t, u, row[u].id)) => u \in loose'
  BY <1>2 DEF Loosened
<1> QED
  BY <1>2, <1>4, <1>5, EnterCalm

LEMMA RestoreCalm ==
  ASSUME AccountSound, Calm, NEW u \in Member, RestoreFromDb(u)
  PROVE  Calm'
<1>1. PICK s \in Handler, i \in EmbyId : \E j :
           /\ Enters(s, j) /\ Restoring(j) /\ j.user = u /\ j.id = row[u].id /\ server[i] = "unborn" /\ Bound(u)
           /\ server' = [server EXCEPT ![i] = "on"]
           /\ loose' = loose \union {u} /\ UNCHANGED <<row, owed, stray>>
  BY RestoreEnters
<1>2. PICK j : /\ Enters(s, j) /\ j.user = u /\ j.id = row[u].id
               /\ loose' = loose \union {u} /\ UNCHANGED <<row, owed, stray>>
  BY <1>1
<1> QED
  BY <1>2, EnterCalm

LEMMA BindCalm ==
  ASSUME AccountSound, Calm, NEW u \in Member, NEW i \in EmbyId, BindTg(u, i)
  PROVE  Calm'
<1>1. PICK s \in Handler : \E j :
           /\ Enters(s, j) /\ Binding(j) /\ j.user = u /\ j.id = i /\ ~Bound(u) /\ Holders(i) = {}
           /\ loose' = Loosened(u) /\ UNCHANGED <<row, server, owed, stray>>
  BY BindEnters
<1>2. PICK j : /\ Enters(s, j) /\ Binding(j) /\ j.user = u /\ j.id = i /\ ~Bound(u) /\ Holders(i) = {}
               /\ loose' = Loosened(u) /\ UNCHANGED <<row, server, owed, stray>>
  BY <1>1
<1>3. ~Restoring(j) /\ j.op = "check"
  BY <1>2 DEF Binding, Restoring
<1>4. InStep(u) => JobOnTrack(s, j)'
  BY <1>2, <1>3 DEF JobOnTrack, BindOnTrack, InStep, Bound
<1>5. (\E t \in Handler : Meets(t, u, row[u].id)) => u \in loose'
  BY <1>2 DEF Loosened
<1> QED
  BY <1>2, <1>3, <1>4, <1>5, EnterCalm

LEMMA MoveCalm ==
  ASSUME AccountSound, Calm, NEW u \in Member, NEW w \in Member, ChangeTg(u, w)
  PROVE  Calm'
<1>1. PICK s \in Handler : \E j :
           /\ Enters(s, j) /\ Moving(j) /\ j.user = u /\ j.id = row[u].id /\ j.set.lv = row[u].lv /\ Pending(j, "clear") /\ Bound(u)
           /\ loose' = Loosened(u) /\ UNCHANGED <<row, server, owed, stray>>
  BY MoveEnters
<1>2. PICK j : /\ Enters(s, j) /\ Moving(j) /\ j.user = u /\ j.id = row[u].id /\ j.set.lv = row[u].lv /\ Pending(j, "clear") /\ Bound(u)
               /\ loose' = Loosened(u) /\ UNCHANGED <<row, server, owed, stray>>
  BY <1>1
<1>3. ~Restoring(j) /\ j.op = "move"
  BY <1>2 DEF Moving, Restoring
<1>4. InStep(u) => JobOnTrack(s, j)'
  BY <1>2, <1>3 DEF JobOnTrack, MoveOnTrack, InStep, Bound, Pending
<1>5. (\E t \in Handler : Meets(t, u, row[u].id)) => u \in loose'
  BY <1>2 DEF Loosened
<1> QED
  BY <1>2, <1>4, <1>5, EnterCalm

\* Changes at once.
LEMMA StillCalm ==
  ASSUME AccountSound, NEW v \in Member, CalmUser(v), row' \in [Member -> Row], \A u \in Member : row'[u].id = row[u].id,
         UNCHANGED job, stray \subseteq stray',
         Bound(v) => row[v].id \in stray' \/ server'[row[v].id] = server[row[v].id],
         \A t \in Handler : AtWork(t) /\ job[t].op = "move" => job[t].id \in stray' \/ server'[job[t].id] = server[job[t].id],
         row'[v].lv = row[v].lv, row'[v].us = row[v].us, row'[v].iv = row[v].iv, owed'[v] = owed[v]
  PROVE  CalmUser(v)'
<1>1. \A t \in Handler : AtWork(t)' <=> AtWork(t)
  BY DEF AtWork
<1>2. ASSUME NEW t \in Handler, AtWork(t), job[t].user = v, job[t].op = "move", ~Pending(job[t], "clear")
      PROVE  /\ \A u \in Member : row'[u].id # job[t].id
             /\ \A x \in Handler \ {t} : AtWork(x) /\ job[x].id = job[t].id => job[x].op = "check"
  <2>1. MoveOnTrack(t, job[t])
    BY <1>2 DEF CalmUser, OnTrack, JobOnTrack
  <2> QED
    BY <1>2, <2>1 DEF MoveOnTrack, Holders
<1>3. Spared(v)
  BY <1>1, <1>2 DEF Spared
<1> QED
  BY <1>3, SparedCalm

LEMMA ChangeCalm ==
  ASSUME AccountSound, Calm, Changes
  PROVE  Calm'
<1> SUFFICES ASSUME NEW v \in Member \ loose' PROVE CalmUser(v)'
  BY DEF Calm
<1>1. CalmUser(v)
  BY DEF Calm, Changes, Touches
<1>2. CASE row'[v].lv = row[v].lv /\ row'[v].us = row[v].us /\ row'[v].iv = row[v].iv /\ owed'[v] = owed[v]
  BY <1>1, <1>2, StillCalm DEF Changes, Touches
<1>3. CASE ~Busy(v) /\ (InStep(v) => InStep(v)')
  <2>1. \A t \in Handler : ~(AtWork(t)' /\ job'[t].user = v)
    BY <1>3 DEF Busy, AtWork, Changes, Touches
  <2>2. Alone(v)'
    BY <1>1, <2>1 DEF CalmUser, Alone, AtWork, Bound, Changes, Touches
  <2> QED
    BY <1>1, <1>3, <2>1, <2>2 DEF CalmUser
<1> QED
  BY <1>2, <1>3 DEF Changes, Gentle

LEMMA EraseCalm ==
  ASSUME AccountSound, Calm, NEW i, Erases(i)
  PROVE  Calm'
<1> SUFFICES ASSUME NEW v \in Member \ loose' PROVE CalmUser(v)'
  BY DEF Calm
<1>1. CalmUser(v)
  BY DEF Calm, Erases
<1>2. \A e \in EmbyId : e \in stray' \/ server'[e] = server[e]
  BY DEF Erases, AccountSound, AccountTyped
<1>3. Bound(v) => row[v].id \in EmbyId
  BY RowColumns DEF Bound, AccountSound, AccountTyped
<1>4. \A t \in Handler : AtWork(t) /\ job[t].op = "move" => job[t].id \in EmbyId
  BY SlotShape, MovingOf DEF Moving, AtWork, AccountSound
<1> QED
  BY <1>1, <1>2, <1>3, <1>4, StillCalm DEF Erases, AccountSound, AccountTyped

-----------------------------------------------------------------------------

\* A handler's step leaves other users alone.
LEMMA AdvanceSpares ==
  ASSUME AccountSound, NEW s \in Handler, AtWork(s), NEW k, job' = [job EXCEPT ![s] = k],
         k = NoJob \/ (k.user = job[s].user /\ k.id = job[s].id /\ k.op = job[s].op),
         NEW v \in Member, CalmUser(v), job[s].user # v, row' \in [Member -> Row], row'[v] = row[v], owed'[v] = owed[v],
         stray \subseteq stray', \A e \in EmbyId : e = job[s].id \/ server'[e] = server[e], UNCHANGED server \/ job[s].op # "check",
         \A x \in Member, t \in Handler : AtWork(t) /\ job[t].user = v /\ job[t].id # NoId /\ row'[x].id = job[t].id =>
           row[x].id = job[t].id
  PROVE  Spared(v)
<1>1. \A t \in Handler : job'[t] = IF t = s THEN k ELSE job[t]
  BY DEF AccountSound, AccountTyped
<1>2. AtWork(s)' => k.user = job[s].user /\ k.id = job[s].id /\ k.op = job[s].op
  BY <1>1 DEF AtWork, NoJob
<1>3. Bound(v) => server'[row[v].id] = server[row[v].id]
  <2>1. Bound(v) => row[v].id # job[s].id /\ row[v].id \in EmbyId
    BY RowColumns DEF CalmUser, Alone, Bound, AccountSound, AccountTyped
  <2> QED
    BY <2>1
<1>4. \A t \in Handler : (AtWork(t) /\ job[t].user = v) \/ (AtWork(t)' /\ job'[t].user = v) => job'[t] = job[t]
  BY <1>1, <1>2
<1>5. \A t \in Handler : AtWork(t)' => AtWork(t) /\ job'[t].id = job[t].id /\ job'[t].user = job[t].user /\ job'[t].op = job[t].op
  BY <1>1, <1>2 DEF AtWork
<1>6. ASSUME NEW t \in Handler, AtWork(t), job[t].user = v, job[t].op = "move", ~Pending(job[t], "clear")
      PROVE  /\ server'[job[t].id] = server[job[t].id]
             /\ \A u \in Member : row'[u].id # job[t].id
             /\ \A x \in Handler \ {t} : AtWork(x)' /\ job'[x].id = job[t].id => job'[x].op = "check"
  <2>1. Moving(job[t])
    BY <1>6, SlotShape, MovingOf DEF AccountSound, AtWork
  <2>2. job[t].id # NoId /\ job[t].id \in EmbyId
    BY <2>1, AccountAssumption DEF Moving
  <2>3. MoveOnTrack(t, job[t])
    BY <1>6 DEF CalmUser, OnTrack, JobOnTrack
  <2>4. /\ \A u \in Member : row[u].id # job[t].id
        /\ \A x \in Handler \ {t} : AtWork(x) /\ job[x].id = job[t].id => job[x].op = "check"
    BY <1>6, <2>3 DEF MoveOnTrack, Holders
  <2>5. server'[job[t].id] = server[job[t].id]
    <3>1. job[t].id = job[s].id => job[s].op = "check"
      BY <1>6, <2>4
    <3> QED
      BY <2>2, <3>1
  <2> QED
    BY <1>5, <1>6, <2>2, <2>4, <2>5
<1> QED
  BY <1>3, <1>4, <1>5, <1>6 DEF Spared

\* And of its own user it leaves a job on track, or none and everything in step.
LEMMA OwnCalm ==
  ASSUME AccountSound, NEW s \in Handler, AtWork(s), NEW k, job' = [job EXCEPT ![s] = k], NEW p \in Member,
         \A t \in Handler \ {s} : AtWork(t) => job[t].user # p /\ (Bound(p)' => job[t].id # row'[p].id),
         \/ k = NoJob /\ InStep(p)'
         \/ k.todo # <<>> /\ k.user = p /\ JobOnTrack(s, k)'
  PROVE  CalmUser(p)'
<1>1. \A t \in Handler : job'[t] = IF t = s THEN k ELSE job[t]
  BY DEF AccountSound, AccountTyped
<1>2. \A t \in Handler \ {s} : AtWork(t)' => job'[t].user # p /\ (Bound(p)' => job'[t].id # row'[p].id)
  BY <1>1 DEF AtWork
<1>3. CASE k = NoJob /\ InStep(p)'
  <2>1. ~AtWork(s)'
    BY <1>1, <1>3 DEF AtWork, NoJob
  <2> QED
    BY <1>2, <1>3, <2>1 DEF CalmUser, Alone, Busy
<1>4. CASE k.todo # <<>> /\ k.user = p /\ JobOnTrack(s, k)'
  <2>1. AtWork(s)' /\ job'[s] = k
    BY <1>1, <1>4 DEF AtWork
  <2>2. OnTrack(s)'
    BY <1>4, <2>1 DEF OnTrack
  <2> QED
    BY <1>2, <1>4, <2>1, <2>2 DEF CalmUser, Alone, Busy
<1> QED
  BY <1>3, <1>4

LEMMA AloneOn ==
  ASSUME NEW s \in Handler, AtWork(s), CalmUser(job[s].user)
  PROVE  /\ \A t \in Handler \ {s} : AtWork(t) => job[t].user # job[s].user /\ (Bound(job[s].user) => job[t].id # row[job[s].user].id)
         /\ JobOnTrack(s, job[s])
<1> DEFINE p == job[s].user
<1>1. ASSUME NEW t \in Handler \ {s}, AtWork(t) PROVE job[t].user # p
  BY <1>1 DEF CalmUser, Alone
<1> QED
  BY <1>1 DEF CalmUser, Alone, OnTrack

\* Of the users of whom nothing went wrong, a handler finds its own.
LEMMA MatchesOwn ==
  ASSUME AccountSound, NEW s \in Handler, AtWork(s), ~At(s, "ask"), Planned(job[s]), NEW v \in Member \ loose, CalmUser(v),
         v \in Matches(job[s])
  PROVE  v = job[s].user
<1>1. CASE job[s].by \in {"tg", "either"} /\ v = job[s].user
  BY <1>1
<1>2. CASE job[s].by \in {"embyid", "either"} /\ row[v].id = job[s].id
  <2>1. job[s].id # NoId
    BY <1>2 DEF AccountSound, Deleted, Planned, Switching, Deleting, Writing, Restoring, Binding
  <2> QED
    BY <1>2, <2>1 DEF CalmUser, Alone, Bound
<1> QED
  BY <1>1, <1>2, PlanFinds DEF Matches, Holders

LEMMA PlanAsked ==
  ASSUME AccountSound, NEW s \in Handler, NEW j, j = job[s], EmbyAnswers(s), j.user \notin loose', ~Binding(j), PlanOnTrack(j), NEW k,
         k = GoesOn(j, Takes(j))
  PROVE  (k = NoJob /\ InStep(j.user)') \/ (k.todo # <<>> /\ k.user = j.user /\ JobOnTrack(s, k)')
<1> DEFINE p == j.user
<1>1. /\ AtWork(s) /\ Shaped(j) /\ j.todo # <<>> /\ Head(j.todo) = "ask" /\ p \in Member
  BY SlotShape DEF EmbyAnswers, At, AtWork, AccountSound
<1>2. /\ Planned(j) /\ (Switching(j) \/ Deleting(j)) /\ j.op \in {"on", "off", "delete"} /\ j.checked \in BOOLEAN /\ j.todo \in PlanTodo
      /\ j.todo \in {<<"ask", "write">>, <<"ask">>, <<"ask", "write", "remove">>, <<"ask", "remove">>}
  BY <1>1, AskOf, PlanSteps DEF Switching, Deleting, Planned, IsPlan
<1>3. /\ UNCHANGED <<row, owed, stray>> /\ (Takes(j) => server' = [server EXCEPT ![j.id] = Outcome(j.op)])
      /\ (~Takes(j) => UNCHANGED server /\ j.checked)
  BY <1>2 DEF EmbyAnswers, Applied
<1>4. ~Restoring(j) /\ row[p] \in Row /\ owed[p] \in Int
  BY <1>1, <1>2 DEF Restoring, AccountSound, AccountTyped
<1>5. j.todo # <<"remove">> /\ Pending(j, "ask")
  BY <1>1, <1>2, PendingIs, TodoHeads
<1>6. row[p].id = j.id
  BY <1>5 DEF PlanOnTrack
<1>7. Takes(j) /\ j.id # NoId => server'[j.id] = Outcome(j.op)
  <2>1. j.id \in EmbyId \union {NoId}
    BY <1>2 DEF Planned, IsPlan
  <2> QED
    BY <1>3, <2>1 DEF AccountSound, AccountTyped
<1>8. CASE ~Takes(j)
  <2>1. k = NoJob
    BY <1>3, <1>8 DEF GoesOn
  <2>2. InStep(p)
    BY <1>3, <1>5, <1>8 DEF PlanOnTrack
  <2> QED
    BY <1>3, <1>8, <2>1, <2>2 DEF InStep, Bound
<1>9. CASE Takes(j) /\ Tail(j.todo) = <<>>
  <2>1. k = NoJob
    BY <1>9 DEF GoesOn, Rest
  <2>2. j.todo = <<"ask">> /\ Switching(j)
    BY <1>1, <1>2, <1>9, TodoTails, TodoHeads, DeletionSteps
  <2>3. ~Pending(j, "write") /\ ~Pending(j, "remove")
    BY <2>2, PendingIs
  <2>4. Final(j) = row[p] /\ Paid(j) = 0 /\ Coming(j, row[p].id) = Outcome(j.op)
    BY <1>5, <2>3 DEF Final, Paid, Coming
  <2>5. row[p].us + row[p].iv = owed[p] /\ (row[p].id # NoId /\ row[p].id \notin stray => Fits(row[p].lv, Outcome(j.op)))
    BY <1>4, <2>3, <2>4 DEF PlanOnTrack
  <2>6. InStep(p)'
    BY <1>3, <1>6, <1>7, <1>9, <2>5 DEF InStep, Bound
  <2> QED
    BY <2>1, <2>6
<1>10. CASE Takes(j) /\ Tail(j.todo) # <<>>
  <2>1. k = Rest(j)
    BY <1>10 DEF GoesOn
  <2>2. Left(j, k) /\ Planned(k) /\ k.buys = j.buys
    <3>1. Left(j, k)
      BY <1>1, <1>10, <2>1, RestIs
    <3> QED
      BY <1>2, <3>1 DEF Left
  <2>3. /\ Pending(k, "write") <=> Pending(j, "write")
        /\ Pending(k, "remove") <=> Pending(j, "remove")
        /\ ~Pending(k, "ask")
    <3>1. CASE j.todo = <<"ask", "write">>
      <4>1. k.todo = <<"write">>
        BY <1>2, <2>2, <3>1, TodoTails DEF Left
      <4> QED
        BY <3>1, <4>1, PendingIs
    <3>2. CASE j.todo = <<"ask", "write", "remove">>
      <4>1. k.todo = <<"write", "remove">>
        BY <1>2, <2>2, <3>2, TodoTails DEF Left
      <4> QED
        BY <3>2, <4>1, PendingIs
    <3>3. CASE j.todo = <<"ask", "remove">>
      <4>1. k.todo = <<"remove">>
        BY <1>2, <2>2, <3>3, TodoTails DEF Left
      <4> QED
        BY <3>3, <4>1, PendingIs
    <3>4. j.todo # <<"ask">>
      BY <1>2, <1>10, TodoTails
    <3> QED
      BY <1>2, <3>1, <3>2, <3>3, <3>4
  <2>4. ~(k.op = "delete" /\ k.by = "embyid" /\ k.todo = <<"remove">>)
    <3> SUFFICES ASSUME k.op = "delete", k.by = "embyid", k.todo = <<"remove">> PROVE FALSE
      OBVIOUS
    <3>1. Deleting(j) /\ j.by = "embyid"
      BY <1>2, <2>2 DEF Left, Switching
    <3>2. Pending(j, "write")
      <4>1. j.todo \in {<<"ask", "write">>, <<"ask", "write", "remove">>} \/ Head(j.todo) # "ask"
        BY <3>1, TodoHeads DEF Deleting, PlanTodo
      <4> QED
        BY <1>1, <4>1, PendingIs
    <3> QED
      BY <2>3, <3>2, PendingIs
  <2>5. k.user = p /\ k.id = j.id /\ k.op = j.op /\ k.set = j.set /\ k.todo # <<>> /\ ~Restoring(k)
    BY <2>2 DEF Left
  <2>6. Final(k)' = Final(j) /\ Paid(k)' = Paid(j)
    BY <1>3, <2>2, <2>3, <2>5 DEF Final, Paid
  <2>7. Final(j).id \in {row[p].id, NoId}
    <3>1. Final(j) = Outlook(j, row[p])
      BY DEF Final, Outlook
    <3> QED
      BY <1>2, <1>4, <3>1, OutlookOf
  <2>8. PICK i : i = Final(j).id
    OBVIOUS
  <2>9. i # NoId => Coming(k, i)' = Outcome(j.op) /\ Coming(j, i) = Outcome(j.op)
    BY <1>5, <1>6, <1>7, <1>10, <2>3, <2>7, <2>8 DEF Coming
  <2>10. Final(k)'.id = i /\ row'[p].id = k.id
    BY <1>3, <1>6, <2>5, <2>6, <2>8
  <2>11. Final(k)'.us + Final(k)'.iv = owed'[p] - Paid(k)'
    BY <1>3, <2>6 DEF PlanOnTrack
  <2>12. ~Pending(k, "remove") /\ i # NoId /\ i \notin stray => Fits(Final(k)'.lv, Coming(k, i)')
    BY <2>3, <2>6, <2>8, <2>9 DEF PlanOnTrack
  <2>13. PlanOnTrack(k)'
    BY <1>3, <2>3, <2>4, <2>5, <2>10, <2>11, <2>12 DEF PlanOnTrack
  <2>14. JobOnTrack(s, k)'
    BY <1>2, <2>5, <2>13 DEF JobOnTrack
  <2> QED
    BY <2>5, <2>14
<1> QED
  BY <1>8, <1>9, <1>10

LEMMA BindAsked ==
  ASSUME AccountSound, NEW s \in Handler, NEW j, j = job[s], EmbyAnswers(s), Binding(j), BindOnTrack(j), NEW k,
         k = GoesOn(j, Takes(j))
  PROVE  (k = NoJob /\ InStep(j.user)') \/ (k.todo # <<>> /\ k.user = j.user /\ JobOnTrack(s, k)')
<1>1. /\ AtWork(s) /\ Shaped(j) /\ j.todo # <<>> /\ j.op = "check"
  BY SlotShape DEF EmbyAnswers, At, AtWork, AccountSound, Binding
<1>2. UNCHANGED <<row, owed>>
  BY DEF EmbyAnswers
<1>3. CASE k = NoJob
  <2>1. row'[j.user].id = NoId /\ row'[j.user].us + row'[j.user].iv = owed'[j.user]
    BY <1>2 DEF BindOnTrack
  <2> QED
    BY <1>3, <2>1 DEF InStep, Bound
<1>4. CASE Left(j, k)
  <2>1. k.todo # <<>> /\ k.user = j.user /\ k.op = "check" /\ ~Restoring(k)
    BY <1>1, <1>4 DEF Left
  <2>2. BindOnTrack(k)'
    BY <1>2, <2>1 DEF BindOnTrack
  <2> QED
    BY <2>1, <2>2 DEF JobOnTrack
<1> QED
  BY <1>1, <1>3, <1>4, GoesOnIs

LEMMA AskCalm ==
  ASSUME AccountSound, Calm, NEW s \in Handler, EmbyAnswers(s) \/ EmbyFails(s)
  PROVE  Calm'
<1>1. PICK j : j = job[s]
  OBVIOUS
<1>2. PICK ok : /\ ok \in BOOLEAN /\ job' = [job EXCEPT ![s] = GoesOn(j, ok)]
                /\ EmbyAnswers(s) => ok = Takes(j)
  BY <1>1 DEF EmbyAnswers, EmbyFails, Takes, Exists
<1>3. PICK k : k = GoesOn(j, ok)
  OBVIOUS
<1>4. /\ AtWork(s) /\ Shaped(j) /\ j.todo # <<>> /\ Head(j.todo) = "ask" /\ j.user \in Member
      /\ Planned(j) /\ (Switching(j) \/ Deleting(j) \/ Binding(j))
  BY <1>1, SlotShape, AskOf DEF EmbyAnswers, EmbyFails, At, AtWork, AccountSound
<1>5. k = NoJob \/ Left(j, k)
  BY <1>3, <1>4, GoesOnIs
<1>6. /\ UNCHANGED <<row, owed>> /\ stray \subseteq stray' /\ loose \subseteq loose'
      /\ (\A e \in EmbyId : e = j.id \/ server'[e] = server[e]) /\ (UNCHANGED server \/ j.op # "check")
      /\ EmbyFails(s) /\ ~EmbyAnswers(s) => j.user \in loose'
  <2>1. server' = server \/ server' = Applied(j)
    BY <1>1 DEF EmbyAnswers, EmbyFails
  <2>2. (\A e \in EmbyId : e = j.id \/ server'[e] = server[e]) /\ (UNCHANGED server \/ j.op # "check")
    BY <2>1 DEF Applied, AccountSound, AccountTyped
  <2>3. UNCHANGED <<row, owed>> /\ stray \subseteq stray' /\ loose \subseteq loose'
    BY DEF EmbyAnswers, EmbyFails
  <2> QED
    BY <1>1, <2>2, <2>3 DEF EmbyFails
<1>7. ASSUME NEW v \in Member \ loose', v # j.user PROVE CalmUser(v)'
  <2>1. CalmUser(v) /\ row' \in [Member -> Row]
    BY <1>6, <1>7 DEF Calm, AccountSound, AccountTyped
  <2>2. k = NoJob \/ (k.user = j.user /\ k.id = j.id /\ k.op = j.op)
    BY <1>5 DEF Left
  <2>3. Spared(v)
    BY <1>1, <1>2, <1>3, <1>4, <1>6, <1>7, <2>1, <2>2, AdvanceSpares
  <2> QED
    BY <2>1, <2>3, SparedCalm
<1>8. ASSUME j.user \notin loose' PROVE CalmUser(j.user)'
  <2>1. EmbyAnswers(s) /\ CalmUser(j.user) /\ k = GoesOn(j, Takes(j))
    BY <1>2, <1>3, <1>4, <1>6, <1>8 DEF Calm
  <2>2. JobOnTrack(s, j) /\ \A t \in Handler \ {s} : AtWork(t) => job[t].user # j.user /\ (Bound(j.user) => job[t].id # row[j.user].id)
    BY <1>1, <1>4, <2>1, AloneOn
  <2>3. (k = NoJob /\ InStep(j.user)') \/ (k.todo # <<>> /\ k.user = j.user /\ JobOnTrack(s, k)')
    <3>1. CASE Binding(j)
      BY <1>1, <2>1, <2>2, <3>1, BindAsked DEF JobOnTrack, Binding
    <3>2. CASE ~Binding(j)
      BY <1>1, <1>4, <1>8, <2>1, <2>2, <3>2, PlanAsked DEF JobOnTrack, Switching, Deleting
    <3> QED
      BY <3>1, <3>2
  <2>4. \A t \in Handler \ {s} : AtWork(t) => job[t].user # j.user /\ (Bound(j.user)' => job[t].id # row'[j.user].id)
    BY <1>6, <2>2 DEF Bound
  <2> QED
    BY <1>2, <1>3, <1>4, <2>3, <2>4, OwnCalm
<1> QED
  BY <1>7, <1>8 DEF Calm

\* What a handler writes to its own user's row.
LEMMA OneHolder ==
  ASSUME AccountSound, NEW p \in Member \ loose, NEW i, i # NoId, row[p].id = i
  PROVE  Holders(i) = {p}
<1>1. \A v \in Member \ {p} : row[v].id # i
  BY DEF AccountSound, Shared, Bound
<1> QED
  BY <1>1 DEF Holders

LEMMA PlanWritten ==
  ASSUME AccountSound, NEW s \in Handler, NEW j, j = job[s], Write(s), j.user \notin loose, ~Binding(j), ~Restoring(j), PlanOnTrack(j), NEW k,
         k = Rest(j)
  PROVE  /\ (k = NoJob /\ InStep(j.user)') \/ (k.todo # <<>> /\ k.user = j.user /\ JobOnTrack(s, k)')
         /\ row'[j.user].id \in {row[j.user].id, NoId}
<1> DEFINE p == j.user
<1>1. /\ AtWork(s) /\ Shaped(j) /\ j.todo # <<>> /\ Head(j.todo) = "write" /\ p \in Member /\ ~At(s, "ask")
  BY SlotShape DEF Write, At, AtWork, AccountSound
<1>2. /\ Planned(j) /\ j.todo \in PlanTodo /\ j.todo \in {<<"write">>, <<"write", "ask">>, <<"write", "remove">>}
      /\ Settable(j.set) /\ j.buys \in BOOLEAN /\ (Switching(j) \/ Deleting(j) \/ Writing(j))
  BY <1>1, WriteOf, PlanSteps DEF Planned, IsPlan
<1>3. UNCHANGED server /\ stray \subseteq stray' /\ owed' = [owed EXCEPT ![p] = IF j.buys THEN @ - 1 ELSE @]
  BY DEF Write
<1>4. row[p] \in Row /\ owed[p] \in Int
  BY <1>1 DEF AccountSound, AccountTyped
<1>5. Pending(j, "write") /\ j.todo # <<"remove">>
  BY <1>1, <1>2, PendingIs, TodoHeads
<1>6. row[p].id = j.id
  BY <1>5 DEF PlanOnTrack
<1>7. Matches(j) = {p}
  <2>1. CASE j.by = "tg"
    BY <2>1 DEF Matches
  <2>2. CASE j.by = "embyid"
    <3>1. j.id # NoId
      BY <1>1, <1>2, <2>2 DEF AccountSound, Deleted, Switching, Deleting, Writing
    <3>2. Holders(j.id) = {p}
      BY <1>1, <1>6, <3>1, OneHolder
    <3> QED
      BY <2>2, <3>2 DEF Matches
  <2>3. j.by \in {"tg", "embyid"}
    <3>1. Head(<<"remove">>) = "remove" /\ Head(<<"ask", "remove">>) = "ask"
      OBVIOUS
    <3> QED
      BY <1>1, <1>2, <3>1 DEF Switching, Deleting, Writing
  <2> QED
    BY <2>1, <2>2, <2>3
<1>8. PICK r : r = Over(j.set, row[p])
  OBVIOUS
<1>9. r \in Row /\ r = Outlook(j, row[p]) /\ r.id \in {row[p].id, NoId} /\ Final(j) = r
  BY <1>2, <1>4, <1>5, <1>8, OverColumns, OutlookOf DEF Outlook, Final
<1>10. row' = [row EXCEPT ![p] = r] /\ row'[p] = r
  <2>1. \E u \in Matches(j) : row' = [row EXCEPT ![u] = Over(j.set, row[u])]
    BY <1>7 DEF Write
  <2>2. row' = [row EXCEPT ![p] = r]
    BY <1>7, <1>8, <2>1
  <2> QED
    BY <1>1, <2>2 DEF AccountSound, AccountTyped
<1>11. PICK n : n = Paid(j)
  OBVIOUS
<1>12. n \in Int /\ owed'[p] = owed[p] - n /\ (~j.buys => n = 0)
  BY <1>1, <1>2, <1>3, <1>4, <1>5, <1>11 DEF Paid, AccountSound, AccountTyped
<1>13. r.us + r.iv = owed'[p]
  BY <1>9, <1>11, <1>12 DEF PlanOnTrack
<1>14. CASE j.todo = <<"write">>
  <2>1. k = NoJob
    BY <1>2, <1>14, TodoTails DEF Rest
  <2>2. ~Pending(j, "remove") /\ ~Pending(j, "ask")
    BY <1>14, PendingIs
  <2>3. r.id # NoId /\ r.id \notin stray => Fits(r.lv, server[r.id])
    BY <1>9, <2>2 DEF PlanOnTrack, Coming
  <2>4. InStep(p)'
    BY <1>3, <1>10, <1>13, <2>3 DEF InStep, Bound
  <2> QED
    BY <1>9, <1>10, <2>1, <2>4
<1>15. CASE j.todo = <<"write", "ask">>
  <2>1. Tail(j.todo) = <<"ask">> /\ Tail(j.todo) # <<>>
    BY <1>2, <1>15, TodoTails, TodoHeads DEF PlanTodo
  <2>2. Left(j, k)
    BY <1>1, <2>1, RestIs
  <2>3. k.todo = <<"ask">> /\ k.todo # <<>> /\ k.user = p /\ k.id = j.id /\ k.op = j.op /\ k.checked = j.checked /\ ~Restoring(k)
    BY <1>2, <2>1, <2>2 DEF Left
  <2>4. Pending(k, "ask") /\ ~Pending(k, "write") /\ ~Pending(k, "remove") /\ Pending(j, "ask") /\ ~Pending(j, "remove")
    BY <1>15, <2>3, PendingIs
  <2>5. Switching(j)
    BY <1>2, <1>15, TodoTails, DeletionSteps DEF Deleting, Writing, PlanTodo, DeletionTodo
  <2>6. "id" \notin DOMAIN j.set /\ ~k.checked /\ k.op \in {"on", "off"}
    BY <1>15, <2>3, <2>5 DEF Switching
  <2>7. r.id = row[p].id
    BY <1>2, <1>4, <1>8, <2>6, OverColumns
  <2>8. Final(k)' = r /\ Paid(k)' = 0
    BY <1>10, <2>3, <2>4 DEF Final, Paid
  <2>9. r.us + r.iv = owed'[p] - 0
    BY <1>4, <1>12, <1>13
  <2>10. r.id # NoId /\ r.id \notin stray => Fits(r.lv, Outcome(k.op))
    BY <1>9, <2>3, <2>4 DEF PlanOnTrack, Coming
  <2>11. Coming(k, r.id)' = Outcome(k.op)
    BY <2>4 DEF Coming
  <2>12. PlanOnTrack(k)'
    BY <1>3, <1>6, <1>10, <2>3, <2>4, <2>6, <2>7, <2>8, <2>9, <2>10, <2>11 DEF PlanOnTrack
  <2>13. JobOnTrack(s, k)'
    BY <2>3, <2>6, <2>12 DEF JobOnTrack
  <2> QED
    BY <1>9, <1>10, <2>3, <2>13
<1>16. CASE j.todo = <<"write", "remove">>
  <2>1. Tail(j.todo) = <<"remove">> /\ Tail(j.todo) # <<>>
    BY <1>2, <1>16, TodoTails, TodoHeads DEF PlanTodo
  <2>2. Left(j, k)
    BY <1>1, <2>1, RestIs
  <2>3. k.todo = <<"remove">> /\ k.todo # <<>> /\ k.user = p /\ k.id = j.id /\ k.op = j.op /\ k.by = j.by /\ k.buys = j.buys /\ ~Restoring(k)
    BY <1>2, <2>1, <2>2 DEF Left
  <2>4. ~Pending(k, "ask") /\ ~Pending(k, "write") /\ Pending(k, "remove")
    BY <2>3, PendingIs
  <2>5. Deleting(j) /\ j.by = "embyid" /\ j.set = Cleared
    <3>1. j.todo # <<"write">> /\ j.todo # <<"remove">> /\ j.todo # <<"ask">> /\ j.todo # <<"write", "ask">> /\ j.todo # <<"ask", "write">>
          /\ j.todo # <<"ask", "remove">>
      BY <1>16, PendingIs, TodoTails, TodoHeads DEF PlanTodo
    <3> QED
      BY <1>2, <1>16, <3>1 DEF Deleting, Switching, Writing
  <2>6. r.id = NoId /\ ~j.buys
    BY <1>2, <1>4, <1>8, <2>5, OverColumns, FreshColumns DEF Deleting
  <2>7. Final(k)' = r /\ Paid(k)' = 0
    BY <1>10, <2>3, <2>4 DEF Final, Paid
  <2>8. r.us + r.iv = owed'[p] - 0
    BY <1>4, <1>12, <1>13
  <2>9. PlanOnTrack(k)'
    BY <1>10, <2>3, <2>4, <2>5, <2>6, <2>7, <2>8 DEF PlanOnTrack, Deleting
  <2>10. JobOnTrack(s, k)'
    BY <2>3, <2>5, <2>9 DEF JobOnTrack, Deleting
  <2> QED
    BY <1>9, <1>10, <2>3, <2>10
<1> QED
  BY <1>2, <1>14, <1>15, <1>16

LEMMA BindWritten ==
  ASSUME AccountSound, NEW s \in Handler, NEW j, j = job[s], Write(s), Binding(j), BindOnTrack(j),
         ~BoundAmiss(s, j.user, j.id), server[j.id] = "on"
  PROVE  Rest(j) = NoJob /\ InStep(j.user)' /\ row'[j.user].id = j.id
<1> DEFINE p == j.user
<1>1. /\ AtWork(s) /\ Shaped(j) /\ j.todo # <<>> /\ Head(j.todo) = "write" /\ p \in Member
  BY SlotShape DEF Write, At, AtWork, AccountSound
<1>2. Planned(j) /\ j.todo \in PlanTodo /\ Settable(j.set) /\ j.by = "tg" /\ ~j.buys
  BY <1>1, WriteOf, PlanSteps DEF Binding, Planned, IsPlan
<1>3. j.todo = <<"write">>
  <2>1. Head(<<"ask", "write">>) = "ask"
    OBVIOUS
  <2> QED
    BY <1>1, <2>1 DEF Binding
<1>4. Rest(j) = NoJob
  BY <1>2, <1>3, TodoTails DEF Rest
<1>5. DOMAIN j.set = {"id", "lv", "ex"} /\ j.set.id = j.id /\ j.set.lv = "b"
  BY DEF Binding
<1>6. row[p] \in Row
  BY <1>1 DEF AccountSound, AccountTyped
<1>7. PICK r : r = Over(j.set, row[p])
  OBVIOUS
<1>8. r \in Row /\ r.id = j.id /\ r.lv = "b" /\ r.us = row[p].us /\ r.iv = row[p].iv
  BY <1>2, <1>5, <1>6, <1>7, OverColumns
<1>9. Matches(j) = {p}
  BY <1>2 DEF Matches
<1>10. row' = [row EXCEPT ![p] = r] /\ row'[p] = r
  BY <1>1, <1>7, <1>9 DEF Write, AccountSound, AccountTyped
<1>11. owed'[p] = owed[p] /\ UNCHANGED server
  BY <1>1, <1>2 DEF Write, AccountSound, AccountTyped
<1>12. InStep(p)'
  BY <1>8, <1>10, <1>11 DEF InStep, Bound, BindOnTrack, Fits
<1> QED
  BY <1>4, <1>8, <1>10, <1>12

LEMMA WriteCalm ==
  ASSUME AccountSound, Calm, NEW s \in Handler, Write(s)
  PROVE  Calm'
<1>1. PICK j : j = job[s]
  OBVIOUS
<1>2. PICK k : k = Rest(j)
  OBVIOUS
<1> DEFINE p == j.user
           binds == "id" \in DOMAIN j.set /\ j.set.id # NoId
<1>3. /\ AtWork(s) /\ At(s, "write") /\ ~At(s, "ask") /\ Shaped(j) /\ j.todo # <<>> /\ Head(j.todo) = "write" /\ p \in Member
  BY <1>1, SlotShape DEF Write, At, AtWork, AccountSound
<1>4. Planned(j) /\ Settable(j.set)
  BY <1>3, WriteOf DEF Planned, IsPlan
<1>5. /\ job' = [job EXCEPT ![s] = k] /\ UNCHANGED server /\ stray \subseteq stray' /\ loose \subseteq loose'
      /\ owed' = [owed EXCEPT ![p] = IF j.buys THEN @ - 1 ELSE @]
      /\ binds /\ (BoundAmiss(s, p, j.set.id) \/ server[j.set.id] # "on") => loose' = loose \union Concerned(s, p, j.set.id)
      /\ \/ UNCHANGED row
         \/ \E u \in Matches(j) : row' = [row EXCEPT ![u] = Over(j.set, row[u])]
  BY <1>1, <1>2 DEF Write
<1>6. Matches(j) \subseteq Member
  BY <1>3, <1>4, PlanFinds DEF Matches, Holders
<1>7. \A u \in Member : /\ Over(j.set, row[u]) \in Row
                        /\ Over(j.set, row[u]).id = IF "id" \in DOMAIN j.set THEN j.set.id ELSE row[u].id
  BY <1>4, OverColumns DEF AccountSound, AccountTyped
<1>8. row' \in [Member -> Row]
  BY <1>5, <1>6, <1>7 DEF AccountSound, AccountTyped
<1>9. \A u \in Member : row'[u].id \in {row[u].id, NoId} \/ (binds /\ row'[u].id = j.set.id)
  BY <1>5, <1>6, <1>7 DEF AccountSound, AccountTyped
<1>10. k = NoJob \/ Left(j, k)
  BY <1>2, <1>3, RestIs
<1>11. ASSUME NEW v \in Member \ loose', v # p PROVE CalmUser(v)'
  <2>1. v \in Member \ loose /\ CalmUser(v)
    BY <1>5, <1>11 DEF Calm
  <2>2. v \notin Matches(j)
    BY <1>1, <1>3, <1>4, <1>11, <2>1, MatchesOwn
  <2>3. row'[v] = row[v] /\ owed'[v] = owed[v]
    BY <1>3, <1>5, <1>6, <1>11, <2>2 DEF AccountSound, AccountTyped
  <2>4. k = NoJob \/ (k.user = p /\ k.id = j.id /\ k.op = j.op)
    BY <1>10 DEF Left
  <2>5. ASSUME NEW x \in Member, NEW t \in Handler, AtWork(t), job[t].user = v, job[t].id # NoId, row'[x].id = job[t].id
        PROVE  row[x].id = job[t].id
    <3> SUFFICES ASSUME binds, j.set.id = job[t].id PROVE FALSE
      BY <1>9, <2>5
    <3>1. t # s /\ Meets(t, p, j.set.id)
      BY <1>1, <1>11, <2>5 DEF Meets
    <3>2. BoundAmiss(s, p, j.set.id)
      BY <3>1 DEF BoundAmiss
    <3>3. v \in Concerned(s, p, j.set.id)
      BY <1>3, <2>5, <3>1, ConcernedMembers
    <3> QED
      BY <1>5, <1>11, <3>2, <3>3
  <2>6. /\ AtWork(s) /\ job' = [job EXCEPT ![s] = k] /\ job[s].user # v /\ row' \in [Member -> Row] /\ stray \subseteq stray'
        /\ k = NoJob \/ (k.user = job[s].user /\ k.id = job[s].id /\ k.op = job[s].op)
        /\ \A e \in EmbyId : e = job[s].id \/ server'[e] = server[e]
        /\ UNCHANGED server
    BY <1>1, <1>3, <1>5, <1>8, <1>11, <2>4
  <2>7. Spared(v)
    BY <2>1, <2>3, <2>5, <2>6, AdvanceSpares
  <2> QED
    BY <2>1, <2>7, SparedCalm
<1>12. ASSUME p \notin loose' PROVE CalmUser(p)'
  <2>1. p \notin loose /\ CalmUser(p)
    BY <1>3, <1>5, <1>12 DEF Calm
  <2>2. JobOnTrack(s, j) /\ \A t \in Handler \ {s} : AtWork(t) => job[t].user # p /\ (Bound(p) => job[t].id # row[p].id)
    BY <1>1, <1>3, <2>1, AloneOn
  <2>3. CASE Binding(j)
    <3>1. binds /\ j.set.id = j.id
      BY <2>3, AccountAssumption DEF Binding
    <3>2. p \in Concerned(s, p, j.id)
      BY <1>3, ConcernedMembers
    <3>3. ~BoundAmiss(s, p, j.id) /\ server[j.id] = "on"
      BY <1>5, <1>12, <3>1, <3>2
    <3>4. BindOnTrack(j)
      BY <2>2, <2>3 DEF JobOnTrack, Binding
    <3>5. k = NoJob /\ InStep(p)' /\ row'[p].id = j.id
      BY <1>1, <1>2, <2>3, <3>3, <3>4, BindWritten
    <3>6. \A t \in Handler \ {s} : AtWork(t) => job[t].user # p /\ (Bound(p)' => job[t].id # row'[p].id)
      BY <2>2, <3>3, <3>5 DEF BoundAmiss, Meets, Bound
    <3> QED
      BY <1>3, <1>5, <3>5, <3>6, OwnCalm
  <2>4. CASE ~Binding(j)
    <3>1. ~Restoring(j) /\ PlanOnTrack(j)
      BY <1>4, <2>2, <2>4 DEF JobOnTrack, Planned, Switching, Deleting, Writing
    <3>2. /\ (k = NoJob /\ InStep(p)') \/ (k.todo # <<>> /\ k.user = p /\ JobOnTrack(s, k)')
          /\ row'[p].id \in {row[p].id, NoId}
      BY <1>1, <1>2, <2>1, <2>4, <3>1, PlanWritten
    <3>3. \A t \in Handler \ {s} : AtWork(t) => job[t].user # p /\ (Bound(p)' => job[t].id # row'[p].id)
      BY <2>2, <3>2 DEF Bound
    <3> QED
      BY <1>3, <1>5, <3>2, <3>3, OwnCalm
  <2> QED
    BY <2>3, <2>4
<1> QED
  BY <1>11, <1>12 DEF Calm

LEMMA RemoveCalm ==
  ASSUME AccountSound, Calm, NEW s \in Handler, Remove(s)
  PROVE  Calm'
<1>1. PICK j : j = job[s]
  OBVIOUS
<1> DEFINE p == j.user
<1>2. /\ AtWork(s) /\ At(s, "remove") /\ ~At(s, "ask") /\ Shaped(j) /\ j.todo # <<>> /\ Head(j.todo) = "remove" /\ p \in Member
  BY <1>1, SlotShape DEF Remove, At, AtWork, AccountSound
<1>3. Planned(j) /\ (Deleting(j) \/ Writing(j)) /\ j.todo = <<"remove">> /\ Rest(j) = NoJob
  BY <1>2, RemoveOf, PlanSteps, TodoTails DEF Rest
<1>4. /\ job' = [job EXCEPT ![s] = NoJob] /\ UNCHANGED <<server, loose>> /\ stray \subseteq stray'
      /\ \/ UNCHANGED <<row, owed>> /\ Matches(j) = {}
         \/ \E u \in Matches(j) : row' = [row EXCEPT ![u] = Fresh] /\ owed' = [owed EXCEPT ![u] = 0]
  BY <1>1, <1>3 DEF Remove
<1>5. Matches(j) \subseteq Member
  BY <1>2, <1>3, PlanFinds DEF Matches, Holders
<1>6. row' \in [Member -> Row] /\ \A u \in Member : row'[u].id \in {row[u].id, NoId}
  BY <1>4, <1>5, FreshColumns DEF AccountSound, AccountTyped
<1>7. ASSUME NEW v \in Member, v \notin Matches(j) PROVE row'[v] = row[v] /\ owed'[v] = owed[v]
  BY <1>4, <1>5, <1>7 DEF AccountSound, AccountTyped
<1>8. ASSUME NEW v \in Member \ loose', v # p PROVE CalmUser(v)'
  <2>1. v \in Member \ loose /\ CalmUser(v)
    BY <1>4, <1>8 DEF Calm
  <2>2. v \notin Matches(j)
    BY <1>1, <1>2, <1>3, <1>8, <2>1, MatchesOwn
  <2>3. row'[v] = row[v] /\ owed'[v] = owed[v]
    BY <1>7, <2>2
  <2>4. \A x \in Member, t \in Handler : AtWork(t) /\ job[t].user = v /\ job[t].id # NoId /\ row'[x].id = job[t].id =>
           row[x].id = job[t].id
    BY <1>6
  <2>5. job[s].user # v /\ \A e \in EmbyId : e = job[s].id \/ server'[e] = server[e]
    BY <1>1, <1>4, <1>8
  <2>6. Spared(v)
    BY <1>2, <1>4, <1>6, <2>1, <2>3, <2>4, <2>5, AdvanceSpares
  <2> QED
    BY <2>1, <2>6, SparedCalm
<1>9. ASSUME p \notin loose' PROVE CalmUser(p)'
  <2>1. p \notin loose /\ CalmUser(p)
    BY <1>2, <1>4, <1>9 DEF Calm
  <2>2. JobOnTrack(s, j) /\ \A t \in Handler \ {s} : AtWork(t) => job[t].user # p /\ (Bound(p) => job[t].id # row[p].id)
    BY <1>1, <1>2, <2>1, AloneOn
  <2>3. PlanOnTrack(j)
    BY <1>3, <2>2 DEF JobOnTrack, Deleting, Writing
  <2>4. j.op = "delete" => j.id # NoId
    BY <1>1, <1>2 DEF AccountSound, Deleted
  <2>5. InStep(p)'
    <3>1. CASE Matches(j) = {p}
      <4>1. row'[p] = Fresh /\ owed'[p] = 0
        BY <1>2, <1>4, <3>1 DEF AccountSound, AccountTyped
      <4> QED
        BY <4>1, FreshColumns DEF InStep, Bound
    <3>2. CASE j.by # "embyid"
      <4>1. CASE j.by = "tg"
        BY <3>1, <4>1 DEF Matches
      <4>2. CASE j.by = "either"
        <5>1. Deleting(j) /\ j.id # NoId
          BY <1>3, <2>4, <4>2 DEF Deleting, Writing
        <5>2. row[p].id = j.id
          BY <2>3, <4>2 DEF PlanOnTrack
        <5>3. Holders(j.id) = {p}
          BY <1>2, <2>1, <5>1, <5>2, OneHolder
        <5>4. Matches(j) = {p}
          BY <4>2, <5>3 DEF Matches
        <5> QED
          BY <3>1, <5>4
      <4> QED
        BY <1>3, <3>2, <4>1, <4>2, PlanFinds
    <3>3. CASE j.by = "embyid"
      <4>1. Deleting(j) /\ j.op = "delete"
        BY <1>3, <3>3 DEF Writing, Deleting
      <4>2. row[p].id = NoId
        BY <1>3, <2>3, <3>3, <4>1 DEF PlanOnTrack
      <4>3. p \notin Matches(j)
        BY <2>4, <3>3, <4>1, <4>2 DEF Matches, Holders
      <4>4. row'[p] = row[p] /\ owed'[p] = owed[p]
        BY <1>2, <1>7, <4>3
      <4>5. ~Pending(j, "write") /\ owed[p] \in Int
        BY <1>2, <1>3, PendingIs DEF AccountSound, AccountTyped
      <4>6. row[p].us + row[p].iv = owed[p]
        BY <2>3, <4>5 DEF PlanOnTrack, Final, Paid
      <4> QED
        BY <4>2, <4>4, <4>6 DEF InStep, Bound
    <3> QED
      BY <3>2, <3>3
  <2>6. \A t \in Handler \ {s} : AtWork(t) => job[t].user # p /\ (Bound(p)' => job[t].id # row'[p].id)
    BY <1>2, <1>6, <2>2 DEF Bound
  <2> QED
    BY <1>2, <1>4, <2>5, <2>6, OwnCalm
<1> QED
  BY <1>8, <1>9 DEF Calm

LEMMA FailCalm ==
  ASSUME AccountSound, Calm, NEW s \in Handler, StepFails(s)
  PROVE  Calm'
<1>1. /\ AtWork(s) /\ job' = [job EXCEPT ![s] = NoJob] /\ loose' = loose \union {job[s].user} /\ stray \subseteq stray'
      /\ UNCHANGED <<row, server, owed>>
  BY DEF StepFails
<1> SUFFICES ASSUME NEW v \in Member \ loose' PROVE CalmUser(v)'
  BY DEF Calm
<1>2. CalmUser(v) /\ job[s].user # v /\ row' \in [Member -> Row]
  BY <1>1 DEF Calm, AccountSound, AccountTyped
<1>3. Spared(v)
  BY <1>1, <1>2, AdvanceSpares
<1> QED
  BY <1>2, <1>3, SparedCalm

LEMMA CompleteCalm ==
  ASSUME AccountSound, Calm, NEW s \in Handler, Completes(s)
  PROVE  Calm'
<1>1. PICK j : j = job[s]
  OBVIOUS
<1> DEFINE p == j.user
<1>2. /\ AtWork(s) /\ Making(j) /\ p \in Member /\ j.id \in EmbyId /\ j.op = "create"
      /\ job' = [job EXCEPT ![s] = NoJob]
  BY <1>1, SlotShape, MoreOf DEF Completes, At, AtWork, AccountSound, Making
<1>3. j.id # NoId /\ \A t \in Handler \ {s} : AtWork(t) => job[t].id # j.id
  BY <1>1, <1>2, AccountAssumption DEF AccountSound, MakingFresh, Completes
<1>4. ASSUME NEW v \in Member \ loose, v # p, row' \in [Member -> Row], row'[v] = row[v], owed'[v] = owed[v],
             \A x \in Member : row'[x].id \in {row[x].id, j.id},
             \A e \in EmbyId : e = j.id \/ server'[e] = server[e], stray \subseteq stray'
      PROVE  CalmUser(v)'
  <2>1. CalmUser(v)
    BY <1>4 DEF Calm
  <2>2. \A x \in Member, t \in Handler : AtWork(t) /\ job[t].user = v /\ job[t].id # NoId /\ row'[x].id = job[t].id =>
           row[x].id = job[t].id
    BY <1>1, <1>3, <1>4
  <2>3. /\ job[s].user # v /\ (\A e \in EmbyId : e = job[s].id \/ server'[e] = server[e]) /\ job[s].op # "check"
    BY <1>1, <1>2, <1>4
  <2>4. Spared(v)
    BY <1>2, <1>4, <2>1, <2>2, <2>3, AdvanceSpares
  <2> QED
    BY <2>1, <2>4, SparedCalm
<1>5. CASE Bound(p) /\ server' = [server EXCEPT ![j.id] = "gone"] /\ UNCHANGED <<row, owed, loose, stray>>
  <2>1. p \in loose
    <3> SUFFICES ASSUME p \notin loose PROVE FALSE
      OBVIOUS
    <3>1. JobOnTrack(s, j)
      BY <1>1, <1>2, AloneOn DEF Calm
    <3> QED
      BY <1>2, <1>5, <3>1 DEF JobOnTrack, BindOnTrack, Bound
  <2>2. \A e \in EmbyId : e = j.id \/ server'[e] = server[e]
    BY <1>5 DEF AccountSound, AccountTyped
  <2>3. row' \in [Member -> Row]
    BY <1>5 DEF AccountSound, AccountTyped
  <2> SUFFICES ASSUME NEW v \in Member \ loose' PROVE CalmUser(v)'
    BY DEF Calm
  <2> QED
    BY <1>4, <1>5, <2>1, <2>2, <2>3
<1>6. CASE /\ \E us \in {row[p].us, 0} :
               row' = [row EXCEPT ![p] = Over([id |-> j.id, lv |-> "b", ex |-> "live", us |-> us], @)]
           /\ IF server[j.id] = "on" /\ ~BoundAmiss(s, p, j.id)
              THEN /\ loose' = loose \ {p}
                   /\ owed' = [owed EXCEPT ![p] = row'[p].us + row[p].iv]
              ELSE loose' = loose \union Concerned(s, p, j.id) /\ UNCHANGED owed
           /\ stray' = stray \union Lost(j.id)
           /\ UNCHANGED server
  <2>1. PICK us \in {row[p].us, 0} :
               row' = [row EXCEPT ![p] = Over([id |-> j.id, lv |-> "b", ex |-> "live", us |-> us], row[p])]
    BY <1>6
  <2>2. us \in 0..MaxCredit /\ row[p] \in Row
    BY <1>2, <2>1, RowColumns, AccountAssumption DEF AccountSound, AccountTyped
  <2>3. PICK f : f = [id |-> j.id, lv |-> "b", ex |-> "live", us |-> us]
    OBVIOUS
  <2>4. Settable(f) /\ DOMAIN f = {"id", "lv", "ex", "us"} /\ f.id = j.id /\ f.lv = "b"
    BY <1>2, <2>2, <2>3 DEF Settable, Columns, Level, Expiry
  <2>5. PICK r : r = Over(f, row[p])
    OBVIOUS
  <2>6. r \in Row /\ r.id = j.id /\ r.lv = "b" /\ r.iv = row[p].iv
    BY <2>2, <2>4, <2>5, OverColumns
  <2>7. /\ row' = [row EXCEPT ![p] = r] /\ row' \in [Member -> Row] /\ row'[p] = r
        /\ \A u \in Member \ {p} : row'[u] = row[u]
    BY <1>2, <2>1, <2>3, <2>5, <2>6 DEF AccountSound, AccountTyped
  <2>8. \A u \in Member \ {p} : owed'[u] = owed[u]
    BY <1>6 DEF AccountSound, AccountTyped
  <2>9. ASSUME NEW v \in Member \ loose', v # p PROVE CalmUser(v)'
    <3>1. v \in Member \ loose
      BY <1>6, <2>9
    <3>2. \A x \in Member : row'[x].id \in {row[x].id, j.id}
      BY <2>6, <2>7
    <3> QED
      BY <1>4, <1>6, <2>7, <2>8, <2>9, <3>1, <3>2
  <2>10. ASSUME p \notin loose' PROVE CalmUser(p)'
    <3>1. p \in Concerned(s, p, j.id)
      BY <1>2, ConcernedMembers
    <3>2. server[j.id] = "on" /\ ~BoundAmiss(s, p, j.id) /\ owed' = [owed EXCEPT ![p] = row'[p].us + row[p].iv]
      BY <1>6, <2>10, <3>1
    <3>3. owed'[p] = r.us + r.iv /\ UNCHANGED server
      BY <1>2, <1>6, <2>6, <2>7, <3>2 DEF AccountSound, AccountTyped
    <3>4. InStep(p)'
      BY <2>6, <2>7, <3>2, <3>3 DEF InStep, Fits
    <3>5. \A t \in Handler \ {s} : AtWork(t) => job[t].user # p /\ (Bound(p)' => job[t].id # row'[p].id)
      BY <1>3, <2>6, <2>7, <3>2 DEF BoundAmiss, Meets
    <3> QED
      BY <1>2, <3>4, <3>5, OwnCalm
  <2> QED
    BY <2>9, <2>10 DEF Calm
<1> QED
  BY <1>1, <1>5, <1>6 DEF Completes

LEMMA ClearCalm ==
  ASSUME AccountSound, Calm, NEW s \in Handler, ClearOld(s)
  PROVE  Calm'
<1>1. PICK j : j = job[s]
  OBVIOUS
<1> DEFINE p == j.user
<1>2. /\ AtWork(s) /\ Shaped(j) /\ j.todo # <<>> /\ Moving(j) /\ j.todo = <<"clear", "rebind">> /\ Tail(j.todo) = <<"rebind">>
      /\ p \in Member /\ j.id \in EmbyId /\ j.id # NoId /\ j.op = "move"
  BY <1>1, SlotShape, MoreOf, AccountAssumption DEF ClearOld, At, AtWork, AccountSound, Moving
<1>3. PICK k : k = Rest(j)
  OBVIOUS
<1>4. Left(j, k)
  <2>1. <<"rebind">> # <<>>
    OBVIOUS
  <2> QED
    BY <1>2, <1>3, <2>1, RestIs
<1>5. /\ k.todo = <<"rebind">> /\ k.todo # <<>> /\ k.user = p /\ k.id = j.id /\ k.op = "move" /\ k.set = j.set /\ ~Restoring(k)
  BY <1>2, <1>4 DEF Left
<1>6. /\ job' = [job EXCEPT ![s] = k] /\ UNCHANGED <<server, loose, stray>>
      /\ row' = [row EXCEPT ![p] = Fresh] /\ owed' = [owed EXCEPT ![p] = 0]
  BY <1>1, <1>3 DEF ClearOld
<1>7. /\ row' \in [Member -> Row] /\ row'[p] = Fresh /\ owed'[p] = 0
      /\ \A u \in Member \ {p} : row'[u] = row[u] /\ owed'[u] = owed[u]
  BY <1>2, <1>6, FreshColumns DEF AccountSound, AccountTyped
<1>8. \A u \in Member : row'[u].id \in {row[u].id, NoId}
  BY <1>7, FreshColumns
<1>9. ASSUME NEW v \in Member \ loose', v # p PROVE CalmUser(v)'
  <2>1. v \in Member \ loose /\ CalmUser(v)
    BY <1>6, <1>9 DEF Calm
  <2>2. \A x \in Member, t \in Handler : AtWork(t) /\ job[t].user = v /\ job[t].id # NoId /\ row'[x].id = job[t].id =>
           row[x].id = job[t].id
    BY <1>8
  <2>3. /\ job[s].user # v /\ (k.user = job[s].user /\ k.id = job[s].id /\ k.op = job[s].op)
        /\ \A e \in EmbyId : e = job[s].id \/ server'[e] = server[e]
    BY <1>1, <1>2, <1>5, <1>6, <1>9
  <2>4. Spared(v)
    BY <1>2, <1>6, <1>7, <1>9, <2>1, <2>2, <2>3, AdvanceSpares
  <2> QED
    BY <2>1, <2>4, SparedCalm
<1>10. ASSUME p \notin loose' PROVE CalmUser(p)'
  <2>1. p \notin loose /\ CalmUser(p)
    BY <1>2, <1>6, <1>10 DEF Calm
  <2>2. JobOnTrack(s, j) /\ \A t \in Handler \ {s} : AtWork(t) => job[t].user # p /\ (Bound(p) => job[t].id # row[p].id)
    BY <1>1, <1>2, <2>1, AloneOn
  <2>3. MoveOnTrack(s, j) /\ row[p].id = j.id
    BY <1>2, <2>2, PendingIs DEF JobOnTrack, MoveOnTrack
  <2>4. Holders(j.id) = {p}
    BY <1>2, <2>1, <2>3, OneHolder
  <2>5. Holders(j.id)' = {}
    BY <1>2, <1>7, <2>4, FreshColumns DEF Holders
  <2>6. \A t \in Handler \ {s} : AtWork(t)' => AtWork(t) /\ job'[t] = job[t] /\ job[t].id # j.id
    BY <1>2, <1>6, <2>2, <2>3 DEF AtWork, Bound, AccountSound, AccountTyped
  <2>7. ~Pending(k, "clear")
    BY <1>5, PendingIs
  <2>8. BindOnTrack(k)'
    BY <1>5, <1>7, FreshColumns DEF BindOnTrack
  <2>9. MoveOnTrack(s, k)'
    BY <1>5, <1>6, <2>3, <2>5, <2>6, <2>7, <2>8 DEF MoveOnTrack
  <2>10. JobOnTrack(s, k)'
    BY <1>5, <2>9 DEF JobOnTrack
  <2>11. \A t \in Handler \ {s} : AtWork(t) => job[t].user # p /\ (Bound(p)' => job[t].id # row'[p].id)
    BY <1>7, <2>2, FreshColumns DEF Bound
  <2> QED
    BY <1>2, <1>5, <1>6, <2>10, <2>11, OwnCalm
<1> QED
  BY <1>9, <1>10 DEF Calm

LEMMA RebindCalm ==
  ASSUME AccountSound, Calm, NEW s \in Handler, Rebind(s)
  PROVE  Calm'
<1>1. PICK j : j = job[s]
  OBVIOUS
<1> DEFINE p == j.user
           w == j.to
<1>2. /\ AtWork(s) /\ Shaped(j) /\ j.todo # <<>> /\ Moving(j) /\ j.todo = <<"rebind">> /\ Tail(j.todo) = <<>>
      /\ p \in Member /\ w \in Member /\ p # w /\ j.id \in EmbyId /\ j.id # NoId /\ j.op = "move"
      /\ Settable(j.set) /\ DOMAIN j.set = {"id", "lv", "ex", "iv"} /\ j.set.id = j.id
  BY <1>1, SlotShape, MoreOf, AccountAssumption DEF Rebind, At, AtWork, AccountSound, Moving
<1>3. Rest(j) = NoJob
  BY <1>2 DEF Rest
<1>4. PICK r : r = Over(j.set, row[w])
  OBVIOUS
<1>5. /\ r \in Row /\ r.id = j.id /\ r.lv = j.set.lv /\ r.us = row[w].us /\ r.iv = j.set.iv
  BY <1>2, <1>4, OverColumns DEF AccountSound, AccountTyped
<1>6. /\ job' = [job EXCEPT ![s] = NoJob] /\ UNCHANGED server /\ row' = [row EXCEPT ![w] = r]
      /\ owed' = [owed EXCEPT ![w] = row[w].us + j.set.iv] /\ stray \subseteq stray' /\ loose \subseteq loose'
      /\ BoundAmiss(s, w, j.id) \/ Meets(s, w, NoId) \/ p \in loose => loose' = loose \union Concerned(s, w, j.id)
  BY <1>1, <1>3, <1>4 DEF Rebind
<1>7. /\ row' \in [Member -> Row] /\ row'[w] = r /\ owed'[w] = row[w].us + j.set.iv
      /\ \A u \in Member \ {w} : row'[u] = row[u] /\ owed'[u] = owed[u]
  BY <1>2, <1>5, <1>6 DEF AccountSound, AccountTyped
<1>8. \A t \in Handler \ {s} : Meets(t, w, j.id) => job[t].user \in loose'
  BY <1>2, <1>6, ConcernedMembers DEF BoundAmiss
<1>9. ASSUME NEW v \in Member \ loose', v # p, v # w PROVE CalmUser(v)'
  <2>1. v \in Member \ loose /\ CalmUser(v)
    BY <1>6, <1>9 DEF Calm
  <2>2. ASSUME NEW x \in Member, NEW t \in Handler, AtWork(t), job[t].user = v, job[t].id # NoId, row'[x].id = job[t].id
        PROVE  row[x].id = job[t].id
    <3> SUFFICES ASSUME x = w, job[t].id = j.id PROVE FALSE
      BY <1>5, <1>7, <2>2
    <3>1. t # s /\ Meets(t, w, j.id)
      BY <1>1, <1>9, <2>2 DEF Meets
    <3> QED
      BY <1>8, <1>9, <2>2, <3>1
  <2>3. job[s].user # v /\ \A e \in EmbyId : e = job[s].id \/ server'[e] = server[e]
    BY <1>1, <1>6, <1>9
  <2>4. PICK k : k = NoJob
    OBVIOUS
  <2>5. /\ AtWork(s) /\ job' = [job EXCEPT ![s] = k] /\ row' \in [Member -> Row] /\ stray \subseteq stray'
        /\ row'[v] = row[v] /\ owed'[v] = owed[v] /\ UNCHANGED server
        /\ \A x \in Member, t \in Handler : AtWork(t) /\ job[t].user = v /\ job[t].id # NoId /\ row'[x].id = job[t].id =>
             row[x].id = job[t].id
    BY <1>2, <1>3, <1>6, <1>7, <1>9, <2>2, <2>4
  <2>6. Spared(v)
    BY <2>1, <2>3, <2>4, <2>5, AdvanceSpares
  <2> QED
    BY <2>1, <2>6, SparedCalm
<1>10. ASSUME p \notin loose' PROVE CalmUser(p)'
  <2>1. p \notin loose /\ CalmUser(p)
    BY <1>2, <1>6, <1>10 DEF Calm
  <2>2. JobOnTrack(s, j) /\ \A t \in Handler \ {s} : AtWork(t) => job[t].user # p /\ (Bound(p) => job[t].id # row[p].id)
    BY <1>1, <1>2, <2>1, AloneOn
  <2>3. BindOnTrack(j)
    BY <1>2, <2>2, PendingIs DEF JobOnTrack, MoveOnTrack
  <2>4. InStep(p)'
    BY <1>2, <1>7, <2>3 DEF BindOnTrack, InStep, Bound
  <2>5. \A t \in Handler \ {s} : AtWork(t) => job[t].user # p /\ (Bound(p)' => job[t].id # row'[p].id)
    BY <1>2, <1>7, <2>2, <2>3 DEF BindOnTrack, Bound
  <2> QED
    BY <1>2, <1>6, <2>4, <2>5, OwnCalm
<1>11. ASSUME w \notin loose' PROVE CalmUser(w)'
  <2>1. w \in Concerned(s, w, j.id)
    BY <1>2, ConcernedMembers
  <2>2. ~BoundAmiss(s, w, j.id) /\ p \notin loose
    BY <1>6, <1>11, <2>1
  <2>3. JobOnTrack(s, j)
    BY <1>1, <1>2, <2>2, AloneOn DEF Calm
  <2>4. j.id \in stray \/ Fits(j.set.lv, server[j.id])
    BY <1>2, <2>3 DEF JobOnTrack, MoveOnTrack
  <2>5. InStep(w)'
    BY <1>5, <1>6, <1>7, <2>4 DEF InStep
  <2>6. \A t \in Handler \ {s} : AtWork(t) => job[t].user # w /\ (Bound(w)' => job[t].id # row'[w].id)
    BY <1>2, <1>5, <1>7, <2>2 DEF BoundAmiss, Meets
  <2> QED
    BY <1>2, <1>6, <2>5, <2>6, OwnCalm
<1> QED
  BY <1>9, <1>10, <1>11 DEF Calm

\* Whatever happens, undisturbed users stay undisturbed until they are noted in loose.
LEMMA CalmStep == AccountSound /\ Calm /\ [AccountNext]_accountVars => Calm'
<1> SUFFICES ASSUME AccountSound, Calm, [AccountNext]_accountVars PROVE Calm'
  OBVIOUS
<1>1. ASSUME NEW u \in Member, Tick(u) \/ Sweep(u) \/ Judge(u) \/ Credit(u) \/ Erase(u) \/ Batch(u) PROVE Calm'
  BY <1>1, UserSteps, BeginCalm, ChangeCalm
<1>2. ASSUME NEW u \in Member, Register(u) \/ RestoreFromDb(u) PROVE Calm'
  BY <1>2, RegisterCalm, RestoreCalm
<1>3. ASSUME NEW u \in Member, NEW w \in Member, ChangeTg(u, w) PROVE Calm'
  BY <1>3, MoveCalm
<1>4. ASSUME NEW u \in Member, NEW i \in EmbyId, BindTg(u, i) PROVE Calm'
  BY <1>4, BindCalm
<1>5. ASSUME NEW i \in EmbyId, OnlyRmEmby(i) \/ SyncUnbound(i) PROVE Calm'
  BY <1>5, ErasesIs, EraseCalm
<1>6. CASE RenewAll \/ CoinsAll \/ CoinsClear
  BY <1>6, AllChange, ChangeCalm
<1>7. ASSUME NEW s \in Handler, JobStep(s) PROVE Calm'
  BY <1>7, AskCalm, WriteCalm, RemoveCalm, CompleteCalm, ClearCalm, RebindCalm, FailCalm DEF JobStep
<1>8. CASE UNCHANGED accountVars
  <2> SUFFICES ASSUME NEW v \in Member \ loose' PROVE CalmUser(v)'
    BY DEF Calm
  <2>1. CalmUser(v)
    BY <1>8 DEF Calm, accountVars
  <2> QED
    BY <1>8, <2>1, StillCalm DEF accountVars, AccountSound, AccountTyped
<1> QED
  BY <1>1, <1>2, <1>3, <1>4, <1>5, <1>6, <1>7, <1>8 DEF AccountNext

LEMMA CalmStart == AccountInit => Calm
<1> SUFFICES ASSUME AccountInit PROVE Calm
  OBVIOUS
<1>1. \A s \in Handler : ~AtWork(s)
  BY DEF AccountInit, AtWork, NoJob
<1>2. \A u \in Member : row[u] = Fresh /\ owed[u] = 0
  BY DEF AccountInit
<1> QED
  BY <1>1, <1>2, FreshColumns DEF Calm, CalmUser, Alone, InStep, Bound

LEMMA CalmAlways == AccountsSpec => [](AccountSound /\ Calm)
<1>1. AccountsInit => AccountSound /\ Calm
  BY AccountStart, CalmStart DEF AccountsInit
<1>2. (AccountSound /\ Calm) /\ [AccountsNext]_accountsVars => (AccountSound /\ Calm)'
  <2>1. [AccountsNext]_accountsVars => [AccountNext]_accountVars
    BY DEF AccountsNext, accountsVars
  <2> QED
    BY <2>1, AccountStep, CalmStep
<1> QED
  BY <1>1, <1>2, PTL DEF AccountsSpec

LEMMA RowsMatch == AccountSound /\ Calm => RowsMatchServer
<1> SUFFICES ASSUME AccountSound, Calm PROVE RowsMatchServer
  OBVIOUS
<1>1. AccountTypeOK
  <2>1. \A s \in Handler : \A n \in DOMAIN job[s].todo : job[s].todo[n] \in Step
    <3> SUFFICES ASSUME NEW s \in Handler PROVE \A n \in DOMAIN job[s].todo : job[s].todo[n] \in Step
      OBVIOUS
    <3>1. Shaped(job[s])
      BY DEF AccountSound, AccountTyped
    <3>2. CASE job[s].todo = <<>>
      BY <3>2
    <3> QED
      BY <3>1, <3>2, StepOf
  <2> QED
    BY <2>1 DEF AccountSound, AccountTyped, AccountTypeOK
<1>2. DanglingOnlyInFlight
  BY DEF AccountSound, Dangling, DanglingOnlyInFlight
<1>3. LevelMatchesServer
  BY DEF Calm, CalmUser, InStep, Fits, LevelMatchesServer
<1> QED
  BY <1>1, <1>2, <1>3 DEF RowsMatchServer

\* However the handlers of the bot, the web process and the worker interleave, a row is
\* bound to a deleted account only while the handler that deleted it is still to clear it,
\* and of a user whose handlers did not overlap and were all answered the level says what
\* the account is (the sweeps, commands, webhooks and batch handlers that ask Emby and
\* write with sql_update_emby).
THEOREM RowsMatchServerAlways == AccountsSpec => []RowsMatchServer
BY CalmAlways, RowsMatch, PTL

\* Registration days and coins: what codes gave and what the sweep took for renewals is
\* what users have and have spent (RegistrationService.complete, check_expired and the
\* handlers that give, take and move credits).
THEOREM BalancesAddUpAlways == AccountsSpec => []BalancesAddUp
<1>1. AccountSound /\ Calm => CreditsAddUp
  BY DEF Calm, CalmUser, InStep, CreditsAddUp
<1>2. RegistrationRight => DaysAddUp
  BY DEF RegistrationRight
<1>3. (AccountSound /\ Calm) /\ RegistrationRight => BalancesAddUp
  BY <1>1, <1>2 DEF BalancesAddUp
<1> QED
  BY <1>3, CalmAlways, RegistrationAlways, PTL

=============================================================================
