\* One stream that outlives the deadline and ends while two threads ask for it.
SPECIFICATION FairCSpec
CONSTANTS
    NumStreams = 1
    Workers = {w1}
    HasDeadline = TRUE
    MaxRaises = 0
PROPERTY ReleasedOnceQuiet
CHECK_DEADLOCK FALSE
