CONSTANTS
    Device = {d1, d2}
    d1 = d1
    d2 = d2
    p1 = p1
    p2 = p2
    x = x
    y = y
    Path = {p1}
    Content = {x, y}
    NoEntry = NoEntry
    Absent = Absent
    U64Max = 3
    DeviceHash <- HashEqual
    MassModulus = 1000
    Policy <- LatestAndPrompt
    Answers <- NoResolver
    InitManaged <- AllManage
    Times = {1}
    MaxCasRetries = 3
    RemoveMayFail = TRUE
    Budget <- Edits2Syncs4Fail1
SPECIFICATION Spec
INVARIANTS
    TypeOK
    VersionsInStep
    NoSpuriousRollback
    PublishedBlobsOpen
PROPERTIES
    VersionAdvances
    FirstPushCovers
    NeverPublishesOlder
    ImplementsVault
