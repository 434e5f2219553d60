CONSTANTS
    Conns = {w, r}
    Writers = {w}
    Pages = {p1, p2}
    NReader = 2
    MaxFrames = 2
    MaxWrites = 3
    MaxCrashes = 1
    None = None
    Ids <- Draws
    Absent = Absent
    WipeRetries = 2
    LateRetries = 4
    MaxFaults = 5
SPECIFICATION DSpec
INVARIANTS ReadsSnapshot    ConfirmedErase
PROPERTIES ImplementsStore 
SYMMETRY PageSymmetry
