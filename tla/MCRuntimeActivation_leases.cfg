CONSTANTS
    c1 = c1
    c2 = c2
    p1 = p1
    p2 = p2
    None = None
    Client = {c1, c2}
    Prewarm = {}
    Port = {p1, p2}
    HostPort = p1
    InitDep = "running"
    Ops = {"trigger", "drain", "promote"}
    MaxOps = 2
    MaxGen = 2
SYMMETRY Symmetry
SPECIFICATION Spec
INVARIANT LeaseProtects
CHECK_DEADLOCK FALSE
