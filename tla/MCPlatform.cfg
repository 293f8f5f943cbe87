CONSTANTS
    h1 = h1
    p1 = p1
    p2 = p2
    a1 = a1
    a2 = a2
    Host = {h1}
    Run = {x1, x2}
    RunOn <- MCRunOn
    Authored = {x2}
    Instance = {i1, i2}
    NoInstance = NoInstance
    NoHost = NoHost
    MaxTurns = 2
    Api = {p1, p2}
    Call = {a1, a2}
    Token = {t1, t2, t3, t4, t5, t6, t7, t8, t9}
    NoToken = NoToken
    MaxRevision = 2
    MaxSeq = 2
    MaxLogins = 2
    MaxMishaps = 1
SPECIFICATION MCSpec
SYMMETRY MCSymmetry
INVARIANT NoRunStranded
INVARIANT FailedRunsWereDoomed
INVARIANT RefreshExclusive
INVARIANT StoredTokenHonoured
INVARIANT LatestLoginKept
PROPERTY CancelSpares
\* A dispatcher process starts once, and logins are bounded.
CHECK_DEADLOCK FALSE
