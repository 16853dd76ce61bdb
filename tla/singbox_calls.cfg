\* Two callers that apply and restart; writing and starting succeed.
CONSTANTS
    p1 = p1
    p2 = p2
    main = main
    k1 = k1
    k2 = k2
    i1 = i1
    i2 = i2
    v1 = v1
    v2 = v2
    NoInode = NoInode
    NoCaller = NoCaller
    NoSlot = NoSlot
    Empty = Empty
    Garbled = Garbled
    Caller = {p1, p2, main}
    Main = {main}
    Slot = {k1, k2}
    Inode = {i1, i2}
    Value = {v1, v2}
    Op = {"apply", "restart"}
    StartMayFail = FALSE
    DiskMayFail = FALSE
SPECIFICATION ReadSpec
SYMMETRY Symmetry
INVARIANTS
    TypeOK
    RunningIsWatched
    KillHasChild
    ConfigNotBlank
    RunsCurrent
