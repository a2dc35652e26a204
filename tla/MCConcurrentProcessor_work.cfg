\* Two workers, three clients with one job each, queues of one place, one pause,
\* and Stop at any moment.
CONSTANTS
    w1 = w1
    w2 = w2
    c1 = c1
    c2 = c2
    c3 = c3
    None = None
    Workers = {w1, w2}
    Clients = {c1, c2, c3}
    QueueSize = 1
    MaxJobs = 1
    MaxPauses = 1
SPECIFICATION FairSpec
INVARIANTS
    NothingLost
    OnePlace
    CountersAgree
PROPERTIES
    ImplementsJobService
    StopReturns
    AcceptedRun
CHECK_DEADLOCK FALSE
