CONSTANTS
    Device = {d1, d2}
    d1 = d1
    d2 = d2
    MaxTexts = 2
    MaxUndos = 1
    MaxCommits = 1
    MaxCrashes = 1
SPECIFICATION MCSpec
SYMMETRY Alike
INVARIANTS NothingIsLost
CHECK_DEADLOCK FALSE
