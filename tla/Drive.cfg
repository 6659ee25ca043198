CONSTANTS
    Client = {c1, c2}
    c1 = c1
    c2 = c2
    Name = {manifest, blob}
    manifest = manifest
    blob = blob
    MaxPuts = 3
    MaxDeletes = 1
    MaxLists = 1
    MaxBreaks = 1
SYMMETRY Devices
SPECIFICATION Spec
INVARIANTS
    TypeOK
    KeepsIfApart
PROPERTIES
    ReplacesWhatItSaw
CHECK_DEADLOCK FALSE
