CONSTANTS
    Own = {1, 2}
    Foreign = {1, 3}
    Chunk = {"bundle", "other bundle", "file", "edited file", "deleted file"}
    BundleOf <- SomeBundles
    FilesOf <- SomeFiles
    TrashOf <- NoTrash
    Role = {"standard", "transient", "archive"}
    Retained <- StandardTwo
    Window = 1
    MaxTime = 2
    MaxCrashes = 1
    Watcher = {1, 2}
    Browser = {3}
    MaxPieces = 2
    MaxInFlight = 2
    MaxStirs = 1
    MaxItems = 2
SPECIFICATION MCSpec
INVARIANTS TypesOK OwnHeadIsWhole 
PROPERTIES SeedsStayApart
CHECK_DEADLOCK FALSE
