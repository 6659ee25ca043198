CONSTANTS
    Client = {t1, t2}
    t1 = t1
    t2 = t2
    Process = {here, there}
    here = here
    there = there
    Name = {manifest}
    manifest = manifest
    Free = Free
    RemoveMayFail = TRUE
    MaxPuts = 3
    MaxDeletes = 1
    MaxLists = 1
    MaxBreaks = 1
SPECIFICATION FairSpec
INVARIANTS
    TypeOK
    TagNamesOnePut
    UntaggedOnlyIfTorn
PROPERTIES
    ReplacesWhatItSaw
    ImplementsContract
    EveryCallReturns
CHECK_DEADLOCK FALSE
