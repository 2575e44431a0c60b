CONSTANTS
    Watcher = {1, 2, 3}
    Sharer = {2, 3}
    MaxMinted = 2
    MaxToggles = 2
    MaxEnds = 0
    MaxReclones = 0
    MaxKills = 0
SPECIFICATION ShareSpec
PROPERTIES OneLink
CHECK_DEADLOCK FALSE
