\* A tree of seven bytes in three files.
CONSTANTS
    FileCount = 3
    WorkerCount = 1
    Size <- MCSize
    MaxFailures = 0
SPECIFICATION DisplaySpec
INVARIANT
    BarFits
CHECK_DEADLOCK FALSE
