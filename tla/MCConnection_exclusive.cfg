SPECIFICATION Spec
CONSTANTS
    Handlers = {h1, h2, h3}
    ClientIDs = {c1, c2, c3}
    TopicNames = {t1, t2}
    Topics = {t1}
    MaxClients = 2
    MsgChanCap = 1
    AllowTakeover = FALSE
    None = None
SYMMETRY Symmetry
INVARIANTS TypeOK ConnectionLimit SenderOwnsTopic
PROPERTIES CloseAllReachesAll
