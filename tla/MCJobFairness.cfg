\* Three jobs of two tenants, each with a retry.
SPECIFICATION FSpec
CONSTANTS
    pa = pa pb = pb a1 = a1 a2 = a2 a3 = a3 b1 = b1 b2 = b2
    Jobs = {a1, a2, b1}
    Principals = {pa, pb}
    Workers = {w1, w2}
    NoWorker = NoWorker
    NoJob = NoJob
    NoKey = NoKey
    Owner <- Tenants
    Key <- NoKeys
    QueueLimit = 3
    MaxQueuedPerPrincipal = 2
    MaxRunning = 2
    MaxRunningPerPrincipal = 2
    MaxAttempts = 2
    MaxFaults = 0
SYMMETRY WorkerSymmetry
INVARIANT BoundedBypass
CHECK_DEADLOCK FALSE
