CONSTANTS
    p1 = p1
    p2 = p2
    c1 = c1
    c2 = c2
    r1 = r1
    Peers = {p1}
    ChainIds = {c1}
    Roots = {r1}
    Lengths = {0, 1, 2, 3}
    MaxChainLength = 2
    MaxValidateSteps = 1
    MaxChainsPerPeer = 1
    MaxTotalChains = 1
    CompactThreshold = 3
    MaxAge = 2
    IoErrors = FALSE
    Tears = {"crash"}
    MaxTime = 4
    MaxJournal = 3
    None = None
SPECIFICATION Spec
PROPERTIES NoReplay
