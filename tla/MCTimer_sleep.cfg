SPECIFICATION FairSpec
CONSTANTS
    t1 = t1
    t2 = t2
    t3 = t3
    idle = idle
    Thread = {t1, t2, t3}
    Idle = idle
    TIME_SLICE = 2
    MaxSleep = 2
    MaxWait = 1
    Windows = {"push"}
    MaxList = 3
INVARIANT NoThreadLost
INVARIANT AllListExact
PROPERTY WokenWhenDue
PROPERTY EveryoneRuns
