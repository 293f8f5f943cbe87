CONSTANTS
    i1 = i1
    i2 = i2
    p1 = p1
    p2 = p2
    a1 = a1
    a2 = a2
    None = None
    Loop = {l1, l2}
    Item = {i1, i2}
    Conflict <- MCConflict
    MaxSpurious = 1
    MaxErrors = 1
    Api = {p1, p2}
    Call = {a1, a2}
    Token = {t1, t2, t3, t4, t5, t6, t7, t8, t9}
    NoToken = NoToken
    MaxRevision = 1
    MaxSeq = 3
    MaxLogins = 1
    MaxMishaps = 1
SPECIFICATION MCSpec
INVARIANT NoSignalledWorkSlept
PROPERTIES EveryItemClaimed StopResolves CallsAnswered
\* A stopped pump and an idle credential are at rest.
CHECK_DEADLOCK FALSE
