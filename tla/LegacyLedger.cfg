SPECIFICATION LedgerSpec
CONSTANTS
    u1 = u1
    u2 = u2
    s1 = s1
    s2 = s2
    c1 = c1
    o1 = o1
    o2 = o2
    k1 = k1
    q1 = q1
    q2 = q2
    d1 = d1
    y1 = y1
    None = None
    User = {u1, u2}
    Slot = {s1, s2}
    Code = {c1}
    Order = {o1, o2}
    Key = {k1}
    Request = {q1, q2}
    Download = {d1}
    Sync = {y1}
    Start = 3
    WhitelistCost = 2
    ExchangeCost = 1
    InviteCost = 1
    RankFee = 1
    Coins = {2}
    Reward = 1
    Money = {3}
    FirstLevels <- MCLevels
    RedMinimum = 2
    MaxOps = 3
SYMMETRY Symmetric
INVARIANTS CoinsAddUp EnvelopeCovers WhitelistKept BooksAgree CompletedIsFull
PROPERTY RecordedMeansCharged
CHECK_DEADLOCK FALSE
