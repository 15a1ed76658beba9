SPECIFICATION FairSpec
CONSTANTS
    Proc = {p1, p2}
    Byte = {0, 1}
    PIPE_SIZE = 2
    Word = 4
    MaxLen = 2
    MaxFd = 2
    Creator = p1
CHECK_DEADLOCK FALSE
INVARIANT ReferencesExact
INVARIANT EofIsFinal
PROPERTY ImplementsChannel
PROPERTY SleepersGoOn
