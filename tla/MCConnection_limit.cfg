SPECIFICATION Spec
CONSTANTS
    Handlers = {h1, h2, h3}
    ClientIDs = {c1, c2}
    TopicNames = {t1}
    Topics = {t1}
    MaxClients = 1
    MsgChanCap = 1
    AllowTakeover = TRUE
    None = None
INVARIANTS ConnectionLimit
