SPECIFICATION RSpec
CONSTANTS
    a = a
    b = b
    c = c
    n1 = n1
    n2 = n2
    NoGroup = NoGroup
    Devices = {a, b, c}
    Creator = a
    Invitees <- Alone
    Reach <- StarReach
    Names = {n2}
    FirstName = n1
    maxMembers = 3
    pendingOpsCap = 3
    pendingOpsPerOperatorCap = 2
    recentOpDigestsWindow = 2
    MaxActs = 2
    f1 = f1
    f2 = f2
    None = None
    Aids = {f1, f2}
    PeerOf <- SenderOf
    Chunks <- CountOf
    Size <- BytesOf
    Claims <- SizesOf
    Copies <- TimesOf
    PartialTtl = 1
    Retention = 2
    PerPeerCap = 1
    Budget = 3
    MaxKills = 1
INVARIANTS SameLogSameGroup NothingAppliableWaits RemovedHoldsNoKey  StagedIsThere 
PROPERTIES LogOnlyGrows LeftoversGo
CHECK_DEADLOCK FALSE
