CONSTANTS
    Device = {d1, d2}
    d1 = d1
    d2 = d2
    Prime = 5
    Keystore <- MacAndFile
    Skew <- FirstAhead
    MaxAge = 2
    MaxFuture = 1
    Slopes <- Pairs
    ShareCount = 3
    MaxEntered = 3
    Budget <- LifeBudget
SPECIFICATION Spec
INVARIANTS
    TypeOK
    ReplacedIsKept
    RecoversTheVaultKey
    VaultIsReadable
    OpensOnlyAsSealed
PROPERTIES
    StoreKeepsItsVault
    PushIsFreshForAll
CHECK_DEADLOCK FALSE
