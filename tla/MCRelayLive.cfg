CONSTANTS
    a = a
    b = b
    a1 = a1
    a2 = a2
    b1 = b1
    b2 = b2
    Peers = {a, b}
    Bodies <- AllKinds
    Size <- UnitSize
    Classes = {"Authorized", "Seed"}
    KeySize = 1
    Ttls = {1}
    MinTtl = 1
    MaxPendingTtl = 1
    MaxPerPeer = 2
    MaxDistinctPeers = 2
    MaxTotalFrames = 4
    MaxTotalBytes = 9
    MaxTime = 0
    Conns = {a1, b1, b2}
    PeerOf <- Owner
    Window = 1
    MaxDedupe = 2
    MaxSends = 1
    MaxRestarts = 0
    NoConn = NoConn
    Handlers = {h1, h2}
    Recipients = {r1, r2}
    MaxInflight = 2
    MaxQueued = 2
    Nobody = Nobody
SPECIFICATION LFairSpec
INVARIANTS NoOrphanMark 
PROPERTIES OnlineDrains GateGivesBack
