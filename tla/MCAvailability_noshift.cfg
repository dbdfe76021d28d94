SPECIFICATION Spec
CONSTANTS
    SecondLen = 1
    DayLen = 4
    WeekLen = 2
    Offsets <- UTCOnly
    States = {"running", "stopped", "setup"}
    ShiftTables <- Unconfigured
    MaxTime = 10
    MaxIntervals = 3
CHECK_DEADLOCK FALSE
INVARIANTS LiveAgreesWithQuery
