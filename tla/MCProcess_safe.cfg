CONSTANTS
    main = main
    th1 = th1
    th2 = th2
    th3 = th3
    Thread <- FourThreads
    Main = main
    MaxTid = 6
    Forking = {4, 5}
    Status <- OwnStatus
    Windows = {"fork"}
SYMMETRY FourSymmetry
SPECIFICATION Spec
CHECK_DEADLOCK FALSE
INVARIANT WaitTellsStatus
INVARIANT ParentsLive
 
