SPECIFICATION Spec
CONSTANTS
    t1 = t1
    t2 = t2
    t3 = t3
    Thread = {t1, t2, t3}
    Idle = idle
    Lock = {la, lb}
    Event = {}
    Null = Null
    InitPri <- LadderPri
    NewPri = {32}
    MaxValue = 1
INVARIANT LockToken
INVARIANT WaitQueuesExact
INVARIANT BaseIsFloor
PROPERTY ImplementsMutex
