SPECIFICATION Spec
CONSTANTS
    a1 = a1
    o1 = o1
    o2 = o2
    Account = {a1}
    Order = {o1, o2}
    OwnerOf <- SameOwner
    Offer <- Offers
    Price = 2
    Change <- Changes
    Amount = {1, 2}
    PaymentNo = {x1, x2}
    EventId = {e1, e2}
    Key = {k1, k2}
    Session = {s1, s2}
    Nobody = Nobody
    MaxRequests = 5
SYMMETRY Symmetry
INVARIANTS
    NoOverdraft
    BooksBalance
CHECK_DEADLOCK FALSE
