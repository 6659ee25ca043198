CONSTANTS
    Client = {d1, d2}
    d1 = d1
    d2 = d2
    Name = {manifest}
    manifest = manifest
    Backend = {"webdav", "onedrive", "proton", "s3"}
    MaxPuts = 3
    MaxDeletes = 1
    MaxLists = 1
    MaxLosses = 1
    MaxTries = 2
    MaxListPages = 2
SYMMETRY Devices
SPECIFICATION Spec
INVARIANTS
    TypeOK
    ConditionalPutsOnce
PROPERTIES
    ReplacesWhatItSaw
    RefusedMeansUntouched
    ImplementsContract
CHECK_DEADLOCK FALSE
