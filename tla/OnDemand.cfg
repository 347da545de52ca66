CONSTANTS
    Photo = {1, 2, 3}
    Shared = {1, 2, 3}
    Seed <- OneSeed
    NoSeed = NoSeed
    NoPhoto = NoPhoto
    MissMax = 1
    StandinScan = 2
    Holds = {TRUE}
    Room = {TRUE}
    Modes <- SomeModes
    Interventions = 1
    FilesPerWindow = 1
    CacheFiles = 2
    CacheMin = 1
    EvictPerWindow = 1
SPECIFICATION FairSpec
INVARIANTS OneRecordEach ListIsTrue
PROPERTIES CursorHoldsAndGoesOn BlankEnds
