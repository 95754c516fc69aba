CONSTANTS
    b1 = b1
    b2 = b2
    b3 = b3
    ci = ci
    Boots = {b1, b2, b3}
    Checks = {ci}
    MaxCrashes = 2
    UrlsTried <- MCUrls
SPECIFICATION FairSpec
INVARIANTS
    TypeOK
    SchemaIsItsVersion
    ServesOnlyMigrated
    FailuresAreRaces
    RoundTrips
    BootIInv
PROPERTIES
    BootsServe
CHECK_DEADLOCK FALSE
