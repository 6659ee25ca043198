CONSTANTS
    Device = {d1, d2}
    d1 = d1
    d2 = d2
    p1 = p1
    p2 = p2
    x = x
    y = y
    Path = {p1, p2}
    Content = {x, y}
    NoEntry = NoEntry
    Absent = Absent
    U64Max = 100
    DeviceHash <- HashByDevice
    MassModulus = 1000
    Policy <- PromptAndManual
    Answers <- AnyAnswer
    InitManaged <- SubsetManages
    Times = {1}
    MaxCasRetries = 2
    RemoveMayFail = FALSE
    Budget <- Edits2Syncs3Config1
SPECIFICATION FairSpec
INVARIANTS
    PublishedBlobsOpen
    CacheAgreesWithDisk
PROPERTIES
    UnmanagedPassedOn
    NeverPublishesOlder
    ManualKeepsRemote
    SyncTerminates
