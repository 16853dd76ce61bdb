\* One caller that restarts.
CONSTANTS
    p1 = p1
    k1 = k1
    k2 = k2
    i1 = i1
    v1 = v1
    NoInode = NoInode
    NoCaller = NoCaller
    NoSlot = NoSlot
    Empty = Empty
    Garbled = Garbled
    Caller = {p1}
    Main = {}
    Slot = {k1, k2}
    Inode = {i1}
    Value = {v1}
    Op = {"restart"}
    StartMayFail = FALSE
    DiskMayFail = FALSE
SPECIFICATION Spec
INVARIANTS
    AtMostOneChild
