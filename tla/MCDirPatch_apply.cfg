\* Any target tree, an interruption and a second call.
CONSTANTS
    f = f
    ftmp = ftmp
    d = d
    g = g
    x = x
    y = y
    z = z
    Torn = Torn
    Dir = Dir
    Absent = Absent
    NoPath = NoPath
    Paths = {f, ftmp, d, g}
    Above <- MCAbove
    Temp <- MCTemp
    Ignored = {}
    Data = {x, y, z}
    SizeOf <- MCSizeOf
    Stamped = TRUE
    Swaps = FALSE
    TempNames = FALSE
    Edited = TRUE
    MaxRuns = 2
    MaxFaults = 1
SPECIFICATION Spec
INVARIANTS
    PatchedIsNew
    RoundTrip
    BystandersKept
    ModifiedWhole
    CleanApplySucceeds
CHECK_DEADLOCK FALSE
