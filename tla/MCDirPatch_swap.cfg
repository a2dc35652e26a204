\* Paths that change from file to directory.
CONSTANTS
    f = f
    ftmp = ftmp
    d = d
    g = g
    x = x
    y = y
    z = z
    Torn = Torn
    Dir = Dir
    Absent = Absent
    NoPath = NoPath
    Paths = {f, ftmp, d, g}
    Above <- MCAbove
    Temp <- MCTemp
    Ignored = {}
    Data = {x, y, z}
    SizeOf <- MCSizeOf
    Stamped = TRUE
    Swaps = TRUE
    TempNames = FALSE
    Edited = FALSE
    MaxRuns = 1
    MaxFaults = 0
SPECIFICATION Spec
INVARIANTS
    CleanApplySucceeds
CHECK_DEADLOCK FALSE
