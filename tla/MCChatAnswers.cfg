SPECIFICATION SessionSpec
CONSTANTS
    Calls = {c1, c2}
    Threads = {t1}
    Messages = {m1, m2}
    HistoryLimit = 1
    PollSlack = 2
    MaxTurns = 3
    MaxFaults = 1
    Updates <- PlainUpdates
    NoThread = NoThread
    Other = Other
SYMMETRY Symmetry
INVARIANTS PostedOnce FreshMatch OwnAnswer
PROPERTIES NoMissedAnswer NewestAnswer ImplementsConversation
CHECK_DEADLOCK FALSE
