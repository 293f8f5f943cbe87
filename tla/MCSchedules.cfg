CONSTANTS
    k1 = k1
    k2 = k2
    d1 = d1
    d2 = d2
    r1 = r1
    r2 = r2
    Schedule = {k1, k2}
    TargetDeployment = {d1, d2}
    RevisionOf <- MCRevisionOf
    Cron <- MCCron
    NoTime = NoTime
    NoTarget = NoTarget
    BatchLimit = 1
    Prewarm = 1
    MaxTime = 4
    MaxManual = 1
    MaxRetargets = 2
    LateRetarget = FALSE
    Session = {s1, s2}
    Delivery = {w1, w2}
    Consumer = {c1, c2}
    NoSession = NoSession
    Outcome = {"succeeded", "failed"}
    MaxFaults = 1
SPECIFICATION MCSpec
INVARIANT NoTickTwice
INVARIANT TicksAccounted
INVARIANT HandlerRunsOnce
INVARIANT VerdictAgrees
SYMMETRY MCSymmetry
\* A run is settled once, and the clock is bounded.
CHECK_DEADLOCK FALSE
