SPECIFICATION FairSpec
CONSTANTS
    Machines = {m1}
    Conns = {c1, c2}
    MaxTicks = 3
    None = None
CHECK_DEADLOCK FALSE
INVARIANTS HubHoldsLiveConns
PROPERTIES SnapshotsAdvance TickCompletes BrokenConnLeavesHub
