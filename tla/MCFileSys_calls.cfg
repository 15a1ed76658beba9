SPECIFICATION Spec
CONSTANTS
    t1 = t1
    t2 = t2
    n1 = n1
    n2 = n2
    Thread = {t1, t2}
    Name = {n1, n2}
    NBlock = 3
    MaxBlk = 1
    NSlot = 2
    MaxCnt = 1
    Op = {"open", "mkdir", "unlink", "write", "link"}
    Flags <- MCFlags
    Windows = {"add"}
    MaxStop = 1
    Stop = {"shutdown", "crash"}
CHECK_DEADLOCK FALSE
SYMMETRY MCSymmetry
INVARIANT HandlesCounted
 
INVARIANT NoSharedSector
INVARIANT LengthsAgree
INVARIANT UniqueNames
