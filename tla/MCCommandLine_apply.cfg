\* diff, then apply.
CONSTANTS
    Names = {"old", "new", "tree", "patch"}
    Disks <- MCDisks
    Home = "patch"
    MaxCommands = 2
    MaxCommandFaults = 0
SPECIFICATION CommandSpec
INVARIANT
    ApplyAcceptsDiffs
CHECK_DEADLOCK FALSE
