\* Two calls at once on a separate source and target, users editing both.
CONSTANTS
    a1 = a1
    a2 = a2
    old = old
    other = other
    new1 = new1
    new2 = new2
    bad = bad
    Torn = Torn
    Absent = Absent
    Appliers = {a1, a2}
    Contents = {old, other, new1, new2, bad}
    UserContents = {old, other}
    PatchSrc <- MCPatchSrc
    PatchDst <- MCPatchDst
    InPlace = FALSE
    VerifyEnabled = TRUE
    BackupEnabled = TRUE
    Operations = 2
    MaxRuns = 1
    MaxEdits = 2
SPECIFICATION Spec
INVARIANTS
    TypeOK
    TargetIntegrity
PROPERTY
    ImplementsAtomicUpdate
CHECK_DEADLOCK FALSE
