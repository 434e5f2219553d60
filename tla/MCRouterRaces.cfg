CONSTANTS
    a = a
    b = b
    a1 = a1
    a2 = a2
    b1 = b1
    b2 = b2
    Peers = {a, b}
    Bodies <- OneSend
    Size <- UnitSize
    Classes = {"Authorized", "Seed"}
    KeySize = 1
    Ttls = {1}
    MinTtl = 1
    MaxPendingTtl = 1
    MaxPerPeer = 1
    MaxDistinctPeers = 2
    MaxTotalFrames = 4
    MaxTotalBytes = 9
    MaxTime = 1
    Conns = {a1, a2, b1, b2}
    PeerOf <- Owner
    Window = 1
    MaxDedupe = 1
    MaxSends = 2
    MaxRestarts = 1
    NoConn = NoConn
SYMMETRY Symmetry
SPECIFICATION RSpec
INVARIANTS NoStranding SingleCopy
