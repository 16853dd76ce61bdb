\* syncLoop, reportLoop and one caller that changes a quota; pupmsub may die.
CONSTANTS
    loop = loop
    report = report
    api = api
    NoProc = NoProc
    Syncer = {loop}
    Reporter = {report}
    Quota = {api}
    Limit = {0, 2, 4}
    Start = 1
    MaxTotal = 4
    MaxCrashes = 2
SPECIFICATION FairSpec
INVARIANTS
    TypeOK
    NoDoubleReport
    ReportsNotNegative
    HolderGoesOn
PROPERTIES
    ListTakenOver
    LockReleased
    ImplementsLedger
\* Nobody gets snapMu again after a quota change: the whole daemon may come to rest.
CHECK_DEADLOCK FALSE
