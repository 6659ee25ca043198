CONSTANTS
    Device = {d1, d2}
    d1 = d1
    d2 = d2
    p1 = p1
    p2 = p2
    x = x
    y = y
    Path = {p1}
    Content = {x, y}
    NoEntry = NoEntry
    Absent = Absent
    U64Max = 100
    DeviceHash <- HashByDevice
    MassModulus = 1000
    Policy <- LatestWins
    Answers <- NoResolver
    InitManaged <- AllManage
    Times = {1}
    MaxCasRetries = 3
    RemoveMayFail = FALSE
    Budget <- Edits3Syncs4
SPECIFICATION Spec
PROPERTIES
    RetryIsAheadOrInSync
