SPECIFICATION FairSpec
CONSTANTS
    Handlers = {h1, h2}
    ClientIDs = {c1, c2}
    TopicNames = {t1, t2}
    Topics = {t1}
    MaxClients = 1
    MsgChanCap = 1
    AllowTakeover = TRUE
    None = None
INVARIANTS RegistryBound RegisteredIsServing NoOrphanOwner
PROPERTIES PublishCompletes ClosedConnEnds
