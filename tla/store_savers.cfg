\* Three goroutines saving the same store; writes may fail, the process may crash.
CONSTANTS
    p1 = p1
    p2 = p2
    p3 = p3
    i1 = i1
    i2 = i2
    i3 = i3
    i4 = i4
    Zero = Zero
    a = a
    b = b
    NoInode = NoInode
    NoProc = NoProc
    Empty = Empty
    Garbled = Garbled
    Proc = {p1, p2, p3}
    Inode = {i1, i2, i3, i4}
    Value = {Zero, a, b}
    DiskMayFail = TRUE
SPECIFICATION Spec
SYMMETRY Symmetry
INVARIANTS
    TypeOK
    DurableWhenIdle
    NeverGarbled
PROPERTIES
    TornByOverlap
    ImplementsRegister
