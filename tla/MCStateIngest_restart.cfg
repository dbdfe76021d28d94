SPECIFICATION Spec
CONSTANTS
    Machines = {m1}
    States = {running, stopped}
    Times <- MCTimes
    RehydrateIDs = {}
    MaxFailures = 0
    MaxCrashes = 1
    MaxRows = 3
    None = None
CHECK_DEADLOCK FALSE
INVARIANTS EngineKnowsOpenInterval
