SPECIFICATION SessionSpec
CONSTANTS
    Calls = {c1}
    Threads = {t1}
    Messages = {m1, m2}
    HistoryLimit = 1
    PollSlack = 1
    MaxTurns = 3
    MaxFaults = 0
    Updates <- PlainUpdates
    NoThread = NoThread
    Other = Other
INVARIANTS AnswerIsNew
CHECK_DEADLOCK FALSE
