CONSTANTS
    Device = {d1, d2, d3}
    Path = {p1}
    Content = {x, y}
    NoEntry = NoEntry
    Absent = Absent
    U64Max = 100
    DeviceHash <- HashEqual
    MassModulus = 1000
    Policy <- LatestWins
    Answers <- NoResolver
    InitManaged <- AllManage
    Times = {1}
    MaxCasRetries = 3
    RemoveMayFail = FALSE
    Budget <- Edits3Syncs4Fail1
SYMMETRY Alike
CONSTRAINT TwoAtATime
SPECIFICATION OrderlySpec
CHECK_DEADLOCK FALSE
INVARIANTS
    ClocksTellHistory
    PullsOnlyNewer
    PublishedAgreesWithDisk
