CONSTANTS
    p1 = p1
    p2 = p2
    n1 = n1
    n2 = n2
    k1 = k1
    c1 = c1
    c2 = c2
    q1 = q1
    q2 = q2
    q3 = q3
    q4 = q4
    None = None
    Peers = {p1, p2}
    Tokens = {k1, k2}
    MaxAge = 2
    MaxTime = 4
    Unset = Unset
    HelloPeers = {p1, p2}
    Hellos <- ThreeHellos
    VerifyKeys = {k1}
    MaxSkew = 1
    ReplayWindow = 2
    MaxReplays = 1
    KeyTtl = 2
    MaxKeys = 1
    ClientSkews = {0, 1}
    HelloMaxTime = 2
    NoFrame = NoFrame
    Conns = {c1, c2}
    PeerOf <- Owner
    Targets = {t1, t2}
    RateCap = 1
    RateWindow = 1
    MaxEntries = 1
    MaxToIds = 1
    Slack = 1
    SeedMaxTime = 3
    NoHour = NoHour
    Handlers = {x1, x2}
    Recipients = {t1}
    Cap = 2
    CounterMax = 3
    Retention = 1
    LastHour = 2
    MaxLosses = 1
SPECIFICATION TablesSpec
INVARIANTS KeyKept   BudgetPerLoss LastWishHolds SeedReserve
PROPERTIES  BundleImplementsDeferred
