SPECIFICATION Spec
CONSTANTS
    a = a
    b = b
    c = c
    n1 = n1
    n2 = n2
    NoGroup = NoGroup
    Devices = {a, b, c}
    Creator = a
    Invitees <- Alone
    Reach <- FullReach
    Names = {n2}
    FirstName = n1
    maxMembers = 3
    pendingOpsCap = 3
    pendingOpsPerOperatorCap = 2
    recentOpDigestsWindow = 2
    MaxActs = 0
CHECK_DEADLOCK FALSE
INVARIANT KeysAreReciprocal
