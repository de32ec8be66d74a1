SPECIFICATION FairSpec
CONSTANTS
    Calls = {c1, c2}
    Tools <- KindsOfTool
    Texts <- SomeTexts
    PositiveTexts <- SomePositiveTexts
INVARIANTS TypeOK RealTimeOrder
PROPERTIES KeepsPromise CallsReturn
CHECK_DEADLOCK FALSE
