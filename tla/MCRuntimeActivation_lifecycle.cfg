CONSTANTS
    c1 = c1
    c2 = c2
    p1 = p1
    p2 = p2
    None = None
    Client = {c1}
    Prewarm = {}
    Port = {p1}
    HostPort = p1
    InitDep = "running"
    Ops = {"archive", "sweep", "drain", "promote", "orphan", "trigger", "restart", "crash", "fault"}
    MaxOps = 2
    MaxGen = 2
SPECIFICATION Spec
INVARIANT SingleStarter
INVARIANT StartNotArchived
INVARIANT ArchivingHasOwner
PROPERTY DecisionsRetained
CHECK_DEADLOCK FALSE
