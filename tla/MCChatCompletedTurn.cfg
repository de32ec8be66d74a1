SPECIFICATION SessionSpec
CONSTANTS
    Calls = {c1}
    Threads = {t1}
    Messages = {m1}
    HistoryLimit = 2
    PollSlack = 2
    MaxTurns = 1
    MaxFaults = 0
    Updates <- AllUpdates
    NoThread = NoThread
    Other = Other
PROPERTIES CompletedTurn
CHECK_DEADLOCK FALSE
