\* Two calls, each in one of two seconds, two errors or kills, one edit; one backup is kept.
CONSTANTS
    star = star
    bracket = bracket
    x = x
    y = y
    Torn = Torn
    Absent = Absent
    Paths = {star, bracket}
    Globs <- MCGlobs
    Blocks = {x, y}
    MaxBlocks = 2
    MaxBackups = 1
    MaxCalls = 2
    MaxSeconds = 1
    MaxFaults = 2
    MaxEdits = 1
SPECIFICATION Spec
INVARIANTS
    TypeOK
    PreviousHeld
    CopiedIsChecked
    RestoresPrevious
CHECK_DEADLOCK FALSE
