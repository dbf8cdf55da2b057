\* Progress with two jobs of one tenant and two workers, both of which may die.
SPECIFICATION WithinRetention
CONSTANTS
    pa = pa pb = pb j1 = j1 j2 = j2 j3 = j3 k1 = k1
    Jobs = {j1, j2}
    Principals = {pa}
    Workers = {w1, w2}
    NoWorker = NoWorker
    NoJob = NoJob
    NoKey = NoKey
    Owner <- OneTenant
    Key <- NoKeys
    QueueLimit = 2
    MaxQueuedPerPrincipal = 2
    MaxRunning = 1
    MaxRunningPerPrincipal = 1
    MaxAttempts = 1
    MaxFaults = 0
PROPERTIES QueueDrains LeasesAreSettled QuarantineLifts
CHECK_DEADLOCK FALSE
