\* One loop, one goroutine of the API, main, and a restart command beside the
\* daemon; one crash or failed write.
CONSTANTS
    loop = loop
    api = api
    main = main
    k1 = k1
    k2 = k2
    i1 = i1
    v1 = v1
    run = run
    restart = restart
    NoInode = NoInode
    NoCaller = NoCaller
    NoSlot = NoSlot
    Empty = Empty
    Garbled = Garbled
    Caller = {loop, api, main}
    Main = {main}
    Loop = {loop}
    Slot = {k1, k2}
    Inode = {i1}
    Value = {v1}
    Op = {"restart"}
    StartMayFail = FALSE
    DiskMayFail = FALSE
    Process = {run, restart}
    Daemon = run
    MaxFaults = 1
SPECIFICATION FairLifeSpec
CHECK_DEADLOCK FALSE
INVARIANTS
    LifeOK
    LeftBehind
    LocksInOrder
PROPERTIES
    StopReturns
    ComesUp
    ZeroOnlyTorn
