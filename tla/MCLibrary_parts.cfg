\* Every part on its own, small but with more work than its queues and buffers hold.
CONSTANTS
    FileCount = 5
    WorkerCount = 1
    Size <- MCLargeSize
    MaxFailures = 1
    Inputs = {1, 2}
    Chunks <- MCChunks
    ChunkSize = 2
    StreamWorkers = {1}
    CacheSize = 2
    MaxConcurrency = 2
    MaxReadFaults = 1
    PoolJobs = {1, 2, 3, 4}
    PoolWorkers = {1}
    BatchJobs = {1, 2, 3, 4, 5}
    BatchSize = 2
    BatchQueue = 1
    MaxBlocks = 5
    BadBlocks = {2, 5}
    VerifyWorkers = {1, 2}
    WriteFiles = {1, 2}
    BufferMax = 2
    MaxWritten = 2
    MaxFlushFaults = 1
    Readers = {1, 2, 3}
    ReadFiles = {1, 2}
    FileOf <- MCFileOf
    FileSize <- MCFileSize
    ReadAheadSize = 2
    MaxReads = 3
    Sources <- MCSources
    Lists <- MCLists
    FieldValues = 4
    MaxGenerations = 2
    MaxPatchFaults = 1
    Entries <- MCEntries
    MaxEntries = 2
    LengthValues = 4
    Updates = {1, 2, 3, 4}
    PatchOf <- MCPatchOf
    BaseName <- MCBaseName
    MaxMetadataFaults = 1
    Names = {"old", "new", "tree", "patch"}
    Disks <- MCDisks
    Home = "patch"
    MaxCommands = 2
    MaxCommandFaults = 1
SPECIFICATION LibrarySpec
INVARIANTS
    LibraryTypeOK
    NoSendOnClosed
    ErrorsReported
    BarFitsLargeTree
    NilMeansProcessed
    BatchKept
    WrittenWhole
    ReadsFileUnlessOvertaken
    PatchApplies
    DirPatchReadsBack
    UpdatesKept
PROPERTIES
    Returns
    StreamEnds
    PoolServes
    VerifierEnds
    
CHECK_DEADLOCK FALSE
