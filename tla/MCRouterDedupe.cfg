CONSTANTS
    a = a
    b = b
    a1 = a1
    a2 = a2
    b1 = b1
    b2 = b2
    Peers = {a, b}
    Bodies <- TwoSends
    Size <- UnitSize
    Classes = {"Authorized", "Seed"}
    KeySize = 1
    Ttls = {1}
    MinTtl = 1
    MaxPendingTtl = 1
    MaxPerPeer = 2
    MaxDistinctPeers = 2
    MaxTotalFrames = 1
    MaxTotalBytes = 9
    MaxTime = 0
    Conns = {a1}
    PeerOf <- Owner
    Window = 1
    MaxDedupe = 2
    MaxSends = 2
    MaxRestarts = 0
    NoConn = NoConn
SPECIFICATION RSpec
PROPERTIES DedupeDropsOnlyKept
