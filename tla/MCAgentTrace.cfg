SPECIFICATION FairSpec
CONSTANTS
    Processes = {p1}
    Calls = {a1, a2}
    Closers = {k1, k2}
    Free = Free
    MaxCrashes = 1
    MaxFaults = 1
INVARIANTS TypeOK TruthfulEvents PairedWrites NoSilentLoss ClosedByOther
PROPERTIES CallsReturn
CHECK_DEADLOCK FALSE
