\* A submission whose thread does not start while another thread takes its item.
SPECIFICATION CSpec
CONSTANTS
    NumStreams = 2
    Workers = {w1, w2}
    HasDeadline = TRUE
    MaxRaises = 1
INVARIANT MaintenanceRunsAlone
CHECK_DEADLOCK FALSE
