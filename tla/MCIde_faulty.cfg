SPECIFICATION FairSpec
CONSTANTS
    t1 = t1
    t2 = t2
    v1 = v1
    v2 = v2
    s1 = s1
    s2 = s2
    junk = junk
    Thread = {t1, t2}
    Sector = {s1, s2}
    Value = {v1, v2}
    Junk = junk
    Faults = {"late", "error"}
    MaxCompletion = 2
INVARIANT Quiet
PROPERTY Exact
PROPERTY LockReleased
