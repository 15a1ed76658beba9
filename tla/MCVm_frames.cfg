SPECIFICATION Spec
SYMMETRY MCSymmetry
CHECK_DEADLOCK FALSE
CONSTANTS
    p1 = p1
    p2 = p2
    Initial = {p1, p2}
    Thread = {p1, p2}
    ReadOnly = {}
    BssPage = {}
    StackPage = 9
    GrowPage = {}
    HeapPage = {}
    NFrame = 2
    NSlot = 2
    HandMod = 2
    Windows = {}
    Page = {9}
    FilePage = {}
    Written = {9}
    Watched = {}
    Ops = {"exit", "exec", "fork", "badfile", "nopt"}
INVARIANT FramesAccounted
 
INVARIANT OwnerRight
INVARIANT SlotsPrivate
