\* One file patched in place again and again, with errors, crashes and edits.
CONSTANTS
    a1 = a1
    a2 = a2
    old = old
    other = other
    new1 = new1
    new2 = new2
    bad = bad
    Torn = Torn
    Absent = Absent
    Appliers = {a1}
    Contents = {old, other, new1, new2, bad}
    UserContents = {old, other}
    PatchSrc <- MCPatchSrc
    PatchDst <- MCPatchDst
    InPlace = TRUE
    VerifyEnabled = TRUE
    BackupEnabled = TRUE
    Operations = 2
    MaxRuns = 3
    MaxEdits = 3
SPECIFICATION Spec
INVARIANTS
    OriginalKept
    NoStrayTemp
CHECK_DEADLOCK FALSE
