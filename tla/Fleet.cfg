CONSTANTS
    Peer = {"p", "q"}
    MaxVersion = 2
    Chunks = 2
    MaxMishaps = 1
    Machine = {"m1", "m2"}
    MaxSecrets = 2
    MaxStamp = 1
    MaxActs = 3
    Fingerprint <- MCFingerprint
SPECIFICATION MCSpec
INVARIANTS TypesOK AssemblesWhole ExactlyOneMoves
PROPERTIES NewerIsInstalled 
CHECK_DEADLOCK FALSE
