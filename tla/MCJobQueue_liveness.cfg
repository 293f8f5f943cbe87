CONSTANTS
    p1 = p1
    p2 = p2
    d1 = d1
    d2 = d2
    i1 = i1
    None = None
    Project = {p1}
    Deployment = {d1, d2}
    Instance = {i1}
    JobSpecs <- LivenessSpecs
    Loop = {l1, l2}
    HeavyCap = 1
    MaxJobs = 2
    MaxAttempts = 2
    MaxCrashes = 1
SPECIFICATION FairSpec
PROPERTY DeletionTerminates
PROPERTY AttemptsEnd
\* A finite queue drains.
CHECK_DEADLOCK FALSE
