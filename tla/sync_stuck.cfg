\* syncLoop alone; one request for the users fails.
CONSTANTS
    loop = loop
    t = t
    Syncer = {loop}
    Handler = {}
    Local = {t}
    MaxConfig = 1
    MaxUsers = 2
    Renaming = {}
    EmptyList = {}
    HandshakeSends = {{"config", "users"}}
    ETagOn = {"config", "users"}
    MayFail = {"users"}
    MaxAttempts = 1
    MaxFaults = 1
SPECIFICATION FairSpec
PROPERTIES
    UsersConverge
