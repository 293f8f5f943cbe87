CONSTANTS
    k1 = k1
    k2 = k2
    d1 = d1
    d2 = d2
    r1 = r1
    r2 = r2
    h1 = h1
    i1 = i1
    i2 = i2
    Schedule = {k1, k2}
    TargetDeployment = {d1, d2}
    RevisionOf <- MCRevisionOf
    Cron <- MCCron
    NoTime = NoTime
    NoTarget = NoTarget
    BatchLimit = 1
    Prewarm = 0
    MaxTime = 3
    MaxManual = 0
    MaxRetargets = 2
    LateRetarget = TRUE
    Session = {s1}
    Delivery = {w1, w2}
    Consumer = {c1}
    NoSession = NoSession
    Outcome = {"succeeded"}
    MaxFaults = 1
    Deployment = {d1, d2}
    Request = {q1}
    Kinds = {"keyed", "unkeyed", "follow"}
    SessionId = {s1}
    NoDeployment = NoDeployment
    NoRoute = NoRoute
    NoBinding = NoBinding
    NoSessionId = NoSessionId
    MaxEvents = 1
    Host = {h1}
    Run = {x1}
    RunOn <- MCRunOn
    Authored = {}
    Instance = {i1, i2}
    NoInstance = NoInstance
    NoHost = NoHost
    MaxTurns = 3
SPECIFICATION MCSpec
PROPERTY DueIsServed
PROPERTY RunningSettles
PROPERTY LeasesReleased
PROPERTY CacheCatchesUp
PROPERTY OwnerRegisters
PROPERTY OrphansSettle
\* A run is settled once, and the clock is bounded.
CHECK_DEADLOCK FALSE
