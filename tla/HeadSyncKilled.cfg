CONSTANTS
    Device = {1, 2}
    Owner = 1
    Snapshot = {1, 2}
    Crashable = {1, 2}
    MaxInbox = 1
    MaxEdits = 1
    MaxCrashes = 1
    MaxFailures = 1
SPECIFICATION MCSpec
INVARIANTS TypeOK HeadFollowsReplica
PROPERTIES DeliversSnapshots
CHECK_DEADLOCK FALSE
