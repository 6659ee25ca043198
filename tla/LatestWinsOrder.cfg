CONSTANTS
    Device = {d1, d2}
    d1 = d1
    d2 = d2
    Path = {p1}
    Content = {x}
    NoEntry = NoEntry
    U64Max = 100
    DeviceHash <- TightHashes
    MassModulus = 88
    MaxCount = 2
    Times = {1, 2}
SPECIFICATION OrderSpec
INVARIANTS
    OrderDoesNotMatter
    WinnerIsNewerOfTwo
