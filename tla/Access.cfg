SPECIFICATION AccessSpec
CONSTANTS
    Threshold = 2
    WindowSize = 2
    MinSamples = 2
    RatioPercent = 60
    BaseCooldown = 1
    MaxCooldown = 2
    Lease = 1
    StaleAfter = 1
    UdpFailures = 1
    UdpTtl = 1
    Networks = {"n1", "n2", "n3"}
    ScanOrder <- Order
    MaxNetworks = 2
    FlushInterval = 1
    MaxChanges = 3
    Docs = {"access"}
    MaxSerial = 2
    Seed = 1
    Newest = 2
    NoticeRetries = 1
    SourceCount = 2
    MaxWaiters = 1
    Builds = {1, 2}
    MaxChecks = 2
    DownloadTasks = {"d1"}
INVARIANTS
    CleanIsOnDisk
    MemoryIsNotBehind
    NotModifiedMissesNothing
    ReadyIsOffered
    CheckingHasRound
PROPERTIES
    StoredNeverGoesBack
    AlwaysOfferedAgain
    ManualAnswered
    NoticeEnds
CHECK_DEADLOCK FALSE
