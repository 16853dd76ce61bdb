\* A caller and main; writing, starting and rolling back may fail.  A handshake whose
\* write has failed goes on as a "restart" does, which is not repeated.
CONSTANTS
    p1 = p1
    main = main
    k1 = k1
    k2 = k2
    i1 = i1
    i2 = i2
    v1 = v1
    NoInode = NoInode
    NoCaller = NoCaller
    NoSlot = NoSlot
    Empty = Empty
    Garbled = Garbled
    Caller = {p1, main}
    Main = {main}
    Slot = {k1, k2}
    Inode = {i1, i2}
    Value = {v1}
    Op = {"apply", "write", "handshake"}
    StartMayFail = TRUE
    DiskMayFail = TRUE
SPECIFICATION FairSpec
INVARIANTS
    HolderGoesOn
    NoneLeftAlone
PROPERTIES
    ConfigWhole
    CallsReturn
    ExitNoticed
    LostChildDies
