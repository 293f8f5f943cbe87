CONSTANTS
    c1 = c1
    c2 = c2
    p1 = p1
    p2 = p2
    None = None
    Client = {c1}
    Prewarm = {c1}
    Port = {p1}
    HostPort = p1
    InitDep = "stopped"
    Ops = {"trigger", "restart", "crash", "fault"}
    MaxOps = 2
    MaxGen = 1
SPECIFICATION FairSpec
PROPERTY InstancesSettle
CHECK_DEADLOCK FALSE
