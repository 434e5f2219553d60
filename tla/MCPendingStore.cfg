CONSTANTS
    p1 = p1
    p2 = p2
    p3 = p3
    Peers = {p1, p2, p3}
    Bodies = {1, 3}
    Size <- BodySize
    Classes = {"Authorized"}
    KeySize = 1
    Ttls = {0, 3}
    MinTtl = 1
    MaxPendingTtl = 2
    MaxPerPeer = 2
    MaxDistinctPeers = 2
    MaxTotalFrames = 3
    MaxTotalBytes = 6
    MaxTime = 2
SYMMETRY Symmetry3
SPECIFICATION Spec
INVARIANTS WithinCeilings
PROPERTIES OnlyOldestGivesWay ImplementsDeferred
