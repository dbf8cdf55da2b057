\* A job, its resubmission under one key and a job of another tenant, of which two meet at a
\* time; one slot, and a queue of one.
SPECIFICATION TwoAtATime
CONSTANTS
    pa = pa pb = pb j1 = j1 j2 = j2 j3 = j3 k1 = k1
    Jobs = {j1, j2, j3}
    Principals = {pa, pb}
    Workers = {w1, w2}
    NoWorker = NoWorker
    NoJob = NoJob
    NoKey = NoKey
    Owner <- TwoTenants
    Key <- SharedByTwo
    QueueLimit = 1
    MaxQueuedPerPrincipal = 1
    MaxRunning = 1
    MaxRunningPerPrincipal = 1
    MaxAttempts = 2
    MaxFaults = 2
SYMMETRY WorkerSymmetry
INVARIANTS CapacityHolds ExclusiveExecution QueueBounded NoOrphanedSlot TypeOK KeyedWorkRunsOnce ArtifactMatchesRow CancelledNeverPublished
PROPERTIES ImplementsContract OutcomesAreFinal
CHECK_DEADLOCK FALSE
