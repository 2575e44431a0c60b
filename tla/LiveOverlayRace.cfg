CONSTANTS
    Device = {d1, d2}
    d1 = d1
    d2 = d2
    MaxTexts = 2
    MaxUndos = 0
    MaxCommits = 0
    MaxCrashes = 0
SPECIFICATION Spec
PROPERTIES EditsAreKept
CHECK_DEADLOCK FALSE
