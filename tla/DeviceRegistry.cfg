CONSTANTS
    Device = {1, 2}
    Killable = {2}
    MaxInbox = 1
    MaxCrashes = 1
SPECIFICATION ReconnectSpec
INVARIANTS TypeOK 
PROPERTIES RegistryConverges
CHECK_DEADLOCK FALSE
