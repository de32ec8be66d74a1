SPECIFICATION ThreadsSpec
CONSTANTS
    Calls = {c1, c2}
    Threads = {t1, t2}
    Messages = {m1}
    HistoryLimit = 1
    PollSlack = 1
    MaxTurns = 1
    MaxFaults = 1
    Updates <- ResponseUpdates
    NoThread = NoThread
    Other = Other
INVARIANTS TypeOK ThreadCreation
PROPERTIES EveryCallReturns
CHECK_DEADLOCK FALSE
