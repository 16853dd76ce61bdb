\* syncLoop and a ForceSync, and nothing fails.
CONSTANTS
    loop = loop
    force = force
    t = t
    Syncer = {loop, force}
    Handler = {}
    Local = {t}
    MaxConfig = 1
    MaxUsers = 1
    Renaming = {}
    EmptyList = {}
    HandshakeSends = {{"config", "users"}}
    ETagOn = {"config", "users"}
    MayFail = {}
    MaxAttempts = 1
    MaxFaults = 0
SPECIFICATION FairSpec
PROPERTIES
    InboundConverges
