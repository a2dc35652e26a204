\* A read or seek between the two looks of a prefetch at the position.
CONSTANTS
    Readers = {1}
    ReadFiles = {1, 2}
    FileOf <- MCFileOf
    FileSize <- MCFileSize
    ReadAheadSize = 2
    MaxReads = 3
SPECIFICATION ReadSpec
INVARIANT
    ReadsFile
CHECK_DEADLOCK FALSE
