SPECIFICATION Spec
CONSTANTS
    Processes = {p1, p2}
    Calls = {a1, a2}
    Closers = {k1}
    Free = Free
    MaxCrashes = 0
    MaxFaults = 0
INVARIANTS OneEventPerLine
CHECK_DEADLOCK FALSE
