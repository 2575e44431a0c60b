CONSTANTS
    Device = {1, 2}
    MaxTexts = 2
    MaxUndos = 0
    MaxCommits = 1
    MaxCrashes = 1
    Watcher = {1, 2, 3}
    Sharer = {1, 2, 3}
    MaxMinted = 2
    MaxToggles = 3
    MaxEnds = 1
    MaxReclones = 1
    MaxKills = 1
SPECIFICATION MCSpec
INVARIANTS TypesOK
PROPERTIES FilesAgree LocksReach
CHECK_DEADLOCK FALSE
