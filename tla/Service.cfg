CONSTANTS
    Service = {"s1", "s2", "s3"}
    Caller = {"agent", "user"}
    Watchdog = {"agent"}
    Command <- AnyCommand
    CallerVersion <- NewerUser
    MaxVersion = 2
    Broken = {}
    MaxReplaced = 1
    MaxCrashes = 0
    MaxKills = 0
    MaxStalls = 0
    MaxSlow = 0
    SessionIds <- TwoBrowsers
    Repository = {"r"}
    MaxSessions = 1
    MaxHeld = 1
    MaxBuffered = 2
    MaxShells = 2
    MaxSequence = 2
    MaxPrinted = 2
    Page = {"b", "c"}
    Tick = {1, 2}
    PAIRING_MAX_FAILURES = 2
    MaxAttempts = 1
    MaxSecrets = 2
    MaxWindows = 2
    MaxRecords = 2
    MaxLinks = 2
    MaxStops = 1
    Device = {"d"}
    MaxAsking = 2
    LastBucket = 8
    PruneAge = 4
    MaxLosses = 1
SPECIFICATION MCSpec
CONSTRAINT Bounded
INVARIANTS TypesOK OneServes EveryShellHasItsSession ReadsWhole PairedMeansStored RecordsAreFew
PROPERTIES StopReachesItsService TypedInOrder
CHECK_DEADLOCK FALSE
