CONSTANTS
    Service = {"s1", "s2", "s3"}
    Caller = {"agent"}
    Watchdog = {"agent"}
    Command <- AnyCommand
    CallerVersion <- NewerUser
    MaxVersion = 2
    Broken = {2}
    MaxReplaced = 1
    MaxCrashes = 1
    MaxKills = 1
    MaxStalls = 0
    MaxSlow = 0
SPECIFICATION LiveSpec
PROPERTIES ReplacedAfterUpdate SupervisedComesBack
CHECK_DEADLOCK FALSE
