CONSTANTS
    Content = {"first", "second"}
    MaxEdits = 3
    MaxCloses = 1
    MaxChanges = 4
    MaxWaiting = 2
    MaxFailures = 1
    MaxKills = 1
    Machine = {1, 2}
    Path = {"a"}
    Target = "a"
    MaxDeeds = 3
    Host = {1, 2}
    Command = {"x", "y"}
    HistoryLimit = 2
    MaxCommands = 3
    MaxRestarts = 1
SPECIFICATION MCSpec
INVARIANTS TypesOK WatchesOrPolls MissedOnlyThus ChangesArePending RemovedOrListed
PROPERTIES PublishedUnlessMissed StoresDurably DiskCatchesUp DirectorySettles RecordIsRecalled
CHECK_DEADLOCK FALSE
