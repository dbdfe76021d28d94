SPECIFICATION FairSpec
CONSTANTS
    TopicNames = {t1, t2}
    Topics = {t1, t2}
    Workers = {w1, w2}
    BufSize = 1
    MaxMsgs = 2
    MaxCrashes = 1
    StoreMayFail = TRUE
    MayCancel = TRUE
    None = None
CHECK_DEADLOCK FALSE
INVARIANTS WorkersInStep
PROPERTIES ImplementsTopicLog EveryMessageProcessed GoroutinesStop
