\* syncLoop alone; every request, every body and every write may fail, pupmsub may die,
\* and a handshake is answered with any part of the documents.
CONSTANTS
    loop = loop
    t = t
    Syncer = {loop}
    Handler = {}
    Local = {t}
    MaxConfig = 3
    MaxUsers = 3
    Renaming = {2}
    EmptyList = {2}
    HandshakeSends = {{}, {"config"}, {"users"}, {"config", "users"}}
    ETagOn = {"config", "users"}
    MayFail = {"handshake", "config", "users", "body", "write", "crash"}
    MaxAttempts = 3
    MaxFaults = 4
SPECIFICATION Spec
INVARIANTS
    TypeOK
    FileIsCurrent
PROPERTIES
    InboundKept
    ImplementsFollower
