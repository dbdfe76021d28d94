SPECIFICATION Spec
CONSTANTS
    Machines = {m1, m2}
    States = {running, stopped}
    Times <- MCTimes
    RehydrateIDs = {m1}
    MaxFailures = 2
    MaxCrashes = 1
    MaxRows = 3
    None = None
SYMMETRY Symmetry
CHECK_DEADLOCK FALSE
INVARIANTS TypeOK OneOpenInterval PositiveDurations IntervalsContiguous EngineMatchesStore EngineTracksOpenRow
