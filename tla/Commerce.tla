------------------------------ MODULE Commerce ------------------------------
(***************************************************************************)
(* Recharge orders, payment callbacks, refunds, membership purchases and   *)
(* administrators' adjustments over the double-entry wallet ledger:        *)
(* internal/platform/commerce.go and wallet.go.                            *)
(*                                                                         *)
(* Every request runs in one READ COMMITTED transaction.  What another     *)
(* transaction may change between its statements is a step of its own: the *)
(* idempotency lookup takes no lock, then the order row and the wallet row *)
(* are locked FOR UPDATE, and the inserts at the end are only protected by *)
(* unique keys.  The transaction commits or leaves nothing.                *)
(*                                                                         *)
(* Abstractions: one provider and one currency; a ledger transaction is    *)
(* its key and its signed amount on the wallet, the balancing entry on the *)
(* system account is left out; refusals that depend on the account's or    *)
(* the product's state are among the rollbacks that may always happen.     *)
(***************************************************************************)
EXTENDS Integers, FiniteSets, FiniteSetsExt

CONSTANTS
    Account, Order,
    OwnerOf,        \* the account of each order
    Offer,          \* price_minor and grant_amount of the recharge products
    Price,          \* price_amount of the membership product
    Change,         \* signed amounts of adjustments
    Amount,         \* amounts that callbacks and refunds may name
    PaymentNo,      \* external order numbers of the payment provider
    EventId,        \* event ids of its callbacks
    Key,            \* idempotency keys of clients
    Session,        \* concurrent database transactions
    Nobody,         \* no request, no payment number
    MaxRequests     \* bound: requests that are begun

ASSUME CommerceAssumption ==
    /\ OwnerOf \in [Order -> Account]
    /\ Offer \subseteq [price: Nat \ {0}, grant: Nat \ {0}]
    /\ Price \in Nat \ {0} /\ Change \subseteq Int \ {0} /\ Amount \subseteq Nat \ {0}
    /\ Nobody \notin PaymentNo
    /\ MaxRequests \in Nat

VARIABLES
    order,      \* recharge_orders: status, price, grant, external number, not expired
    callbacks,  \* payment_callback_events
    refunds,    \* recharge_refunds
    purchases,  \* membership_purchases
    extended,   \* how often the account's membership has been extended
    ledger,     \* posted ledger_transactions: key, account, signed amount
    balance,    \* the sum of the account's wallet entries
    session,    \* per transaction: its request and the next statement
    begun       \* requests so far

vars == <<order, callbacks, refunds, purchases, extended, ledger, balance, session, begun>>

OrderStatus == {"absent", "pending", "paid", "partially_refunded", "refunded"}
Settled == {"paid", "partially_refunded", "refunded"}
Phase == {"idle", "order", "wallet", "commit"}

Callback == [event: EventId, order: Order, external: PaymentNo, amount: Amount]
Refund == [order: Order, key: Key, wallet: Amount, external: Amount]
Purchase == [account: Account, key: Key]

Request ==
    [kind: {"confirm"}, order: Order, event: EventId, external: PaymentNo, amount: Amount]
    \cup [kind: {"refund"}, order: Order, key: Key, wallet: Amount, external: Amount]
    \cup [kind: {"purchase"}, account: Account, key: Key]
    \cup [kind: {"adjust"}, account: Account, key: Key, amount: Change]

Idle == [phase |-> "idle", request |-> Nobody]

\* The wallet that a request posts to, and the idempotency key it posts under.
WalletOf(r) == IF r.kind \in {"confirm", "refund"} THEN OwnerOf[r.order] ELSE r.account
LedgerKey(r) ==
    CASE r.kind = "confirm" -> <<"payment", r.external>>
      [] r.kind = "refund" -> <<"refund", r.order, r.key>>
      [] OTHER -> <<r.kind, r.account, r.key>>

UsedWallet(o) == MapThenSumSet(LAMBDA f : f.wallet, {f \in refunds : f.order = o})
UsedExternal(o) == MapThenSumSet(LAMBDA f : f.external, {f \in refunds : f.order = o})

\* Row locks, held from FOR UPDATE to the end of the transaction.
LocksOrder(s, o) ==
    /\ session[s].phase \in {"wallet", "commit"}
    /\ session[s].request.kind \in {"confirm", "refund"}
    /\ session[s].request.order = o
LocksWallet(s, a) == session[s].phase = "commit" /\ WalletOf(session[s].request) = a

Ends(s) == session' = [session EXCEPT ![s] = Idle]
Go(s, phase) == session' = [session EXCEPT ![s].phase = phase]

Init ==
    /\ order = [o \in Order |-> [status |-> "absent", price |-> 0, grant |-> 0,
                                 external |-> Nobody, open |-> FALSE]]
    /\ callbacks = {} /\ refunds = {} /\ purchases = {} /\ ledger = {}
    /\ extended = [a \in Account |-> 0]
    /\ balance = [a \in Account |-> 0]
    /\ session = [s \in Session |-> Idle]
    /\ begun = 0

-----------------------------------------------------------------------------

\* A repetition with the same idempotency key only reads the order.
CreateRechargeOrder(o) ==
    /\ order[o].status = "absent"
    /\ \E offer \in Offer :
         order' = [order EXCEPT ![o] = [status |-> "pending", price |-> offer.price,
                                        grant |-> offer.grant, external |-> Nobody, open |-> TRUE]]
    /\ UNCHANGED <<callbacks, refunds, purchases, extended, ledger, balance, session, begun>>

\* expires_at passes; the status stays 'pending'.
OrderExpires(o) ==
    /\ order[o].status = "pending" /\ order[o].open
    /\ order' = [order EXCEPT ![o].open = FALSE]
    /\ UNCHANGED <<callbacks, refunds, purchases, extended, ledger, balance, session, begun>>

-----------------------------------------------------------------------------
(* A request, statement by statement. *)

\* The request has been answered before: the stored answer is returned, or a
\* conflict when the callback's other fields differ.
Replayed(r) ==
    CASE r.kind = "confirm" -> \E c \in callbacks : c.event = r.event
      [] r.kind = "refund" -> \E f \in refunds : f.order = r.order /\ f.key = r.key
      [] r.kind = "purchase" -> [account |-> r.account, key |-> r.key] \in purchases
      [] r.kind = "adjust" -> \E t \in ledger : t.key = LedgerKey(r)

\* The lookup, without any lock.
Begin(s, r) ==
    /\ session[s].phase = "idle"
    /\ begun < MaxRequests
    /\ begun' = begun + 1
    /\ session' = IF Replayed(r) THEN session
                  ELSE [session EXCEPT ![s] =
                          [phase |-> IF r.kind \in {"confirm", "refund"} THEN "order" ELSE "wallet",
                           request |-> r]]
    /\ UNCHANGED <<order, callbacks, refunds, purchases, extended, ledger, balance>>

\* ConfirmRecharge, order pending: not expired and the full price.
Payable(r) ==
    /\ order[r.order].status = "pending"
    /\ order[r.order].open
    /\ r.amount = order[r.order].price

\* ConfirmRecharge, order paid: a further event of the same payment.
PaidBySame(r) ==
    /\ order[r.order].status \in Settled
    /\ order[r.order].external = r.external
    /\ r.amount = order[r.order].price

\* RefundRecharge: within what is left, and in the proportion of the product.
Refundable(r) ==
    /\ order[r.order].status \in {"paid", "partially_refunded"}
    /\ UsedWallet(r.order) + r.wallet <= order[r.order].grant
    /\ UsedExternal(r.order) + r.external <= order[r.order].price
    /\ r.wallet * order[r.order].price = r.external * order[r.order].grant

Acceptable(r) == IF r.kind = "confirm" THEN Payable(r) ELSE Refundable(r)

\* UNIQUE(provider,event_id)
NewEvent(r) == \A c \in callbacks : c.event # r.event
RecordEvent(r) ==
    callbacks' = callbacks \cup {[event |-> r.event, order |-> r.order,
                                  external |-> r.external, amount |-> r.amount]}

\* SELECT ... FROM recharge_orders ... FOR UPDATE, and the checks on the order:
\* the request goes on, is only recorded, or is refused.
LockOrder(s) ==
    LET r == session[s].request
    IN  /\ session[s].phase = "order"
        /\ \A other \in Session : ~LocksOrder(other, r.order)
        /\ \/ /\ Acceptable(r)
              /\ Go(s, "wallet")
              /\ UNCHANGED callbacks
           \/ /\ r.kind = "confirm" /\ PaidBySame(r) /\ NewEvent(r)
              /\ Ends(s)
              /\ RecordEvent(r)
           \/ /\ ~Acceptable(r)
              /\ r.kind = "confirm" => ~PaidBySame(r) \/ ~NewEvent(r)
              /\ Ends(s)
              /\ UNCHANGED callbacks
        /\ UNCHANGED <<order, refunds, purchases, extended, ledger, balance, begun>>

\* What the request takes out of the wallet.
Cost(r) ==
    CASE r.kind = "confirm" -> 0
      [] r.kind = "refund" -> r.wallet
      [] r.kind = "purchase" -> Price
      [] r.kind = "adjust" -> IF r.amount < 0 THEN -r.amount ELSE 0

\* Slip: the balance is read without locking the wallet.
ReadWallet(s) ==
    LET r == session[s].request
    IN  /\ session[s].phase = "wallet"
        /\ IF balance[WalletOf(r)] < Cost(r) THEN Ends(s) ELSE Go(s, "commit")
        /\ UNCHANGED <<order, callbacks, refunds, purchases, extended, ledger, balance, begun>>

\* ensureWalletTx locks the wallet row; then the balance is read and compared.
LockWallet(s) ==
    LET r == session[s].request
    IN  /\ session[s].phase = "wallet"
        /\ \A other \in Session : ~LocksWallet(other, WalletOf(r))
        /\ IF balance[WalletOf(r)] < Cost(r) THEN Ends(s) ELSE Go(s, "commit")
        /\ UNCHANGED <<order, callbacks, refunds, purchases, extended, ledger, balance, begun>>

\* postLedgerTx: a transaction that exists under the key is returned as it is.
Post(r, amount) ==
    IF \E t \in ledger : t.key = LedgerKey(r)
    THEN UNCHANGED <<ledger, balance>>
    ELSE /\ ledger' = ledger \cup {[key |-> LedgerKey(r), account |-> WalletOf(r), amount |-> amount]}
         /\ balance' = [balance EXCEPT ![WalletOf(r)] = @ + amount]

\* Slip: the external number is unique neither among orders nor in the code.
PayAgain(r) ==
    /\ NewEvent(r)
    /\ Post(r, order[r.order].grant)
    /\ RecordEvent(r)
    /\ order' = [order EXCEPT ![r.order] = [@ EXCEPT !.status = "paid", !.external = r.external]]
    /\ UNCHANGED <<refunds, purchases, extended>>

\* ConfirmRecharge: UNIQUE(provider,event_id) and UNIQUE(provider,external_order_id).
Pay(r) ==
    /\ NewEvent(r)
    /\ ~\E o \in Order : order[o].external = r.external
    /\ Post(r, order[r.order].grant)
    /\ RecordEvent(r)
    /\ order' = [order EXCEPT ![r.order] = [@ EXCEPT !.status = "paid", !.external = r.external]]
    /\ UNCHANGED <<refunds, purchases, extended>>

\* RefundRecharge: UNIQUE(idempotency_key).
GiveBack(r) ==
    /\ ~\E f \in refunds : f.order = r.order /\ f.key = r.key
    /\ Post(r, -r.wallet)
    /\ refunds' = refunds \cup {[order |-> r.order, key |-> r.key,
                                 wallet |-> r.wallet, external |-> r.external]}
    /\ order' = [order EXCEPT ![r.order].status =
                   IF /\ UsedWallet(r.order) + r.wallet = order[r.order].grant
                      /\ UsedExternal(r.order) + r.external = order[r.order].price
                   THEN "refunded" ELSE "partially_refunded"]
    /\ UNCHANGED <<callbacks, purchases, extended>>

\* PurchaseMembership: UNIQUE(idempotency_key); assignMembershipTx has extended
\* the membership in the same transaction.
Buy(r) ==
    /\ [account |-> r.account, key |-> r.key] \notin purchases
    /\ Post(r, -Price)
    /\ extended' = [extended EXCEPT ![r.account] = @ + 1]
    /\ purchases' = purchases \cup {[account |-> r.account, key |-> r.key]}
    /\ UNCHANGED <<order, callbacks, refunds>>

\* AdjustWallet has no table of its own.
Adjust(r) ==
    /\ Post(r, r.amount)
    /\ UNCHANGED <<order, callbacks, refunds, purchases, extended>>

Commit(s) ==
    LET r == session[s].request
    IN  /\ session[s].phase = "commit"
        /\ \/ r.kind = "confirm" /\ Pay(r)
           \/ r.kind = "refund" /\ GiveBack(r)
           \/ r.kind = "purchase" /\ Buy(r)
           \/ r.kind = "adjust" /\ Adjust(r)
        /\ Ends(s)
        /\ UNCHANGED begun

\* An error, a violated unique key, a refusal or a crash: nothing is left.
RollBack(s) ==
    /\ session[s].phase # "idle"
    /\ Ends(s)
    /\ UNCHANGED <<order, callbacks, refunds, purchases, extended, ledger, balance, begun>>

Next ==
    \/ \E o \in Order : CreateRechargeOrder(o) \/ OrderExpires(o)
    \/ \E s \in Session :
         \/ \E r \in Request : Begin(s, r)
         \/ LockOrder(s) \/ LockWallet(s) \/ Commit(s) \/ RollBack(s)

Spec == Init /\ [][Next]_vars

-----------------------------------------------------------------------------
(* Properties. *)

\* Types of the tables, the wallets and the transactions.
TypeOK ==
    /\ order \in [Order -> [status: OrderStatus, price: Nat, grant: Nat,
                            external: PaymentNo \cup {Nobody}, open: BOOLEAN]]
    /\ callbacks \subseteq Callback
    /\ refunds \subseteq Refund
    /\ purchases \subseteq Purchase
    /\ extended \in [Account -> Nat]
    /\ \A t \in ledger : t.account \in Account /\ t.amount \in Int
    /\ balance \in [Account -> Int]
    /\ session \in [Session -> [phase: Phase, request: Request \cup {Nobody}]]
    /\ begun \in 0..MaxRequests

\* Whatever refunds, purchases and adjustments run at once, none of them
\* spends what another has already spent.
NoOverdraft == \A a \in Account : balance[a] >= 0

\* The balance is explained by the business tables: what orders have granted,
\* less refunds and purchases, and the adjustments.  No repeated callback,
\* shared payment number or concurrent duplicate credits or debits it twice,
\* or records an order or purchase without its money.
WalletExplained ==
    \A a \in Account :
        balance[a] =
            MapThenSumSet(LAMBDA o : order[o].grant,
                          {o \in Order : OwnerOf[o] = a /\ order[o].status \in Settled})
            - MapThenSumSet(LAMBDA f : f.wallet, {f \in refunds : OwnerOf[f.order] = a})
            - Price * Cardinality({p \in purchases : p.account = a})
            + MapThenSumSet(LAMBDA t : t.amount,
                            {t \in ledger : t.account = a /\ t.key[1] = "adjust"})

\* Refunds never exceed the order in points or in money, and the order's
\* status says exactly whether all, some or none of it was given back.
RefundsWithinOrder ==
    \A o \in Order :
        LET points == UsedWallet(o)
            money == UsedExternal(o)
        IN  /\ points <= order[o].grant /\ money <= order[o].price
            /\ order[o].status = "refunded" <=>
                 order[o].status # "absent" /\ points = order[o].grant /\ money = order[o].price
            /\ order[o].status = "partially_refunded" <=>
                 points > 0 /\ order[o].status # "refunded"

\* A recorded callback speaks of the payment that paid its order, and one
\* payment pays one order.
CallbacksAgree ==
    /\ \A c \in callbacks :
          /\ order[c.order].status \in Settled
          /\ order[c.order].external = c.external
          /\ order[c.order].price = c.amount
    /\ \A o, p \in Order :
          order[o].external = order[p].external /\ order[o].external # Nobody => o = p

\* A purchase extends the membership once, however often and however
\* concurrently it is requested, and no extension is free.
ExtendedOncePerPurchase ==
    \A a \in Account : extended[a] = Cardinality({p \in purchases : p.account = a})

\* The tables of the shop, the ledger and the memberships tell one story,
\* whatever is repeated, rolled back or runs at the same time.
BooksBalance ==
    TypeOK /\ WalletExplained /\ RefundsWithinOrder /\ CallbacksAgree /\ ExtendedOncePerPurchase

=============================================================================
