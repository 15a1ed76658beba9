CONSTANTS
    main = main
    th1 = th1
    th2 = th2
    th3 = th3
    Thread <- FourThreads
    Main = main
    MaxTid = 5
    Forking = {4}
    Status <- OwnStatus
    Windows = {"fork"}
SPECIFICATION FairSpec
PROPERTY WaitReturns
CHECK_DEADLOCK FALSE
