\* syncLoop and a goroutine of the API that forces syncs and edits the inbounds; once,
\* a request for the users, a body or a write fails, or pupmsub dies.
CONSTANTS
    loop = loop
    api = api
    t = t
    Syncer = {loop, api}
    Handler = {api}
    Local = {t}
    MaxConfig = 1
    MaxUsers = 2
    Renaming = {}
    EmptyList = {}
    HandshakeSends = {{"config"}}
    ETagOn = {"config", "users"}
    MayFail = {"users", "body", "write", "crash"}
    MaxAttempts = 1
    MaxFaults = 1
SPECIFICATION FairSpec
PROPERTIES
    UsersArrive
    EditsReachSingbox
