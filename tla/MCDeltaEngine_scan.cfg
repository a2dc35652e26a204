\* Blocks of three bytes, so that the ring buffer wraps; a rolling hash with five
\* values, so that most hash matches are no block matches.
CONSTANTS
    Bytes = {0, 1}
    MaxOld = 6
    MaxNew = 7
    BlockSize = 3
    EnableCRC32 = TRUE
    Base = 3
    Mod = 5
    Crc <- MCCrc
SPECIFICATION FairSpec
INVARIANTS
    ScanInv
    DeltaRebuildsNew
    BlocksReused
PROPERTY
    Terminates
CHECK_DEADLOCK FALSE
