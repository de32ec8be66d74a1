SPECIFICATION FairSpec
CONSTANTS
    Calls = {c1, c2}
    Kinds <- AllKinds
    Metrics = {q1, q2}
    CustomQuery = CustomQuery
    Jobs = {j1}
    MaxChanges = 1
INVARIANTS TypeOK FreshParts StatusIsKnown EveryMetric
PROPERTIES ToolsReturn
CHECK_DEADLOCK FALSE
