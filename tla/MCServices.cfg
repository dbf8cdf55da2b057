\* Four requests of two callers for two slots; two threads at two scales; a load test of
\* three phases with three streams on two threads.
SPECIFICATION Spec
CONSTANTS
    a1 = a1 a2 = a2 b1 = b1 b2 = b2 pa = pa pb = pb
    Requests = {a1, a2, b1, b2}
    Callers = {pa, pb}
    CallerOf <- OfCaller
    Patient = {a1}
    GlobalConcurrency = 2
    PrincipalConcurrency = 1
    WaitingLimit = 1
    RequestsPerWindow = 1
    LeaseTicks = 2
    HeartbeatTicks = 1
    MaxFaults = 1
    Threads = {th1, th2}
    Scales = {sf1, sf10}
    UnitScale = sf1
    MaxVersion = 2
    writer = writer reader = reader NoRole = NoRole
    Phases <- ThePhases
    MaxConcurrency = 2
    QueriesPerStream = 2
    MaxStreams = 3
INVARIANTS AdmissionTypeOK AdmissionLimits LeasedWhileExecuting
    SingleFlight FreshAfterClear RolesOnTarget AllAccountedFor StopsBetweenQueries
PROPERTIES WaitersAreAdmitted LookupsEnd LoadTestEnds
CHECK_DEADLOCK FALSE
