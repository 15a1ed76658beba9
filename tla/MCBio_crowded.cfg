SPECIFICATION Spec
CONSTANTS
    t1 = t1
    t2 = t2
    t3 = t3
    p1 = p1
    Thread = {t1, t2, t3}
    Sector = {0, 1, 2}
    Part = {p1}
    Value = {0, 1}
    NBUF = 2
CHECK_DEADLOCK FALSE
INVARIANT OneBufferPerSector
INVARIANT RefcntExact
INVARIANT WriteThrough
PROPERTY ImplementsStore
