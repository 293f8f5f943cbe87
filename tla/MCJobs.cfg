CONSTANTS
    p1 = p1
    p2 = p2
    d1 = d1
    d2 = d2
    i1 = i1
    None = None
    Project = {p1, p2}
    Deployment = {d1, d2}
    Instance = {i1}
    JobSpecs <- QueueSpecs
    Loop = {l1, l2, l3}
    HeavyCap = 1
    MaxJobs = 3
    MaxAttempts = 2
    MaxCrashes = 1
    MaxRows = 3
    MaxTries = 3
    Ports = {1, 2}
    HasSchedules = TRUE
    Requests = {"upload", "sync", "deploy", "promote"}
    MaxMishaps = 2
SPECIFICATION MCSpec
SYMMETRY LoopSymmetry
INVARIANT Admission
INVARIANT ConflictingExecutionsAreFenced
INVARIANT DeletionJobUnique
INVARIANT NoForeignTraffic
INVARIANT JobDelivers
INVARIANT PointersAgree
PROPERTY LocksSpec
\* A finite queue drains.
CHECK_DEADLOCK FALSE
