\* A store operation fails in an attempt that left work running.
SPECIFICATION Spec
CONSTANTS
    pa = pa pb = pb j1 = j1 j2 = j2 j3 = j3 k1 = k1
    Jobs = {j1}
    Principals = {pa}
    Workers = {w1, w2}
    NoWorker = NoWorker
    NoJob = NoJob
    NoKey = NoKey
    Owner <- OneTenant
    Key <- NoKeys
    QueueLimit = 1
    MaxQueuedPerPrincipal = 1
    MaxRunning = 1
    MaxRunningPerPrincipal = 1
    MaxAttempts = 2
    MaxFaults = 1
INVARIANT RetriesOnlyQuiescentAttempts
CHECK_DEADLOCK FALSE
