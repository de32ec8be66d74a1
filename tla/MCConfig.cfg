SPECIFICATION Spec
CONSTANTS
    Second = 10
    Word = 4096
    MinTimeoutSec = 1
    MaxTimeoutSec = 120
    Seconds <- SomeSeconds
    NotANumber = NotANumber
INVARIANTS AcceptsDocumented
CHECK_DEADLOCK FALSE
