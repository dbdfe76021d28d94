SPECIFICATION BrokerSpec
CONSTANTS
    Handlers = {h1, h2}
    ClientIDs = {c1, c2}
    TopicNames = {t1}
    Topics = {t1}
    MaxClients = 2
    MsgChanCap = 1
    AllowTakeover = FALSE
    None = None
    Workers = {w1}
    MaxMsgs = 2
    MaxCrashes = 1
    StoreMayFail = TRUE
SYMMETRY Symmetry
CHECK_DEADLOCK FALSE
INVARIANTS AcceptedAccountedFor RowsFollowOwnership
