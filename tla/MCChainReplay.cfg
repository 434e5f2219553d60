CONSTANTS
    p1 = p1
    p2 = p2
    c1 = c1
    c2 = c2
    r1 = r1
    Peers = {p1, p2}
    ChainIds = {c1, c2}
    Roots = {r1}
    Lengths = {0, 1, 2}
    MaxChainLength = 1
    MaxValidateSteps = 1
    MaxChainsPerPeer = 1
    MaxTotalChains = 2
    CompactThreshold = 2
    MaxAge = 2
    IoErrors = TRUE
    Tears = {}
    MaxTime = 3
    MaxJournal = 2
    None = None
SYMMETRY Symmetry
SPECIFICATION Spec
INVARIANTS ReplayInv CursorOnChain
PROPERTIES NoReplay
