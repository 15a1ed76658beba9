SPECIFICATION FairSpec
CONSTANTS
    t1 = t1
    t2 = t2
    t3 = t3
    Thread = {t1, t2, t3}
    Idle = idle
    Lock = {la}
    Event = {ev}
    Null = Null
    InitPri <- UniformPri
    NewPri = {}
    MaxValue = 1
INVARIANT NoLostWakeup
PROPERTY FreeLockIsTaken
PROPERTY ReadyRuns
