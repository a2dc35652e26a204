\* Two files fail.
CONSTANTS
    FileCount = 3
    WorkerCount = 1
    Size <- MCSize
    MaxFailures = 2
SPECIFICATION DisplaySpec
PROPERTY
    Returns
CHECK_DEADLOCK FALSE
