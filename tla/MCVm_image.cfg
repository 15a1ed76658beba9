SPECIFICATION Spec
SYMMETRY MCSymmetry
CHECK_DEADLOCK FALSE
CONSTANTS
    p1 = p1
    p2 = p2
    Initial = {p1, p2}
    Thread = {p1, p2}
    ReadOnly = {2}
    BssPage = {}
    StackPage = 9
    GrowPage = {8}
    HeapPage = {5}
    NFrame = 2
    NSlot = 0
    HandMod = 2
    Windows = {"io"}
    Page = {2,5,8,9}
    FilePage = {2}
    Written = {8}
    Watched = {2,8}
    Ops = {"grow", "exit", "io", "sbrk"}
 
INVARIANT InMemoryIsMapped
PROPERTY PinnedStays
