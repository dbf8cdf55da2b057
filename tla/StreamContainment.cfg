\* Two streams on one thread or two; up to two thread starts fail, streams die or interrupts
\* arrive.
SPECIFICATION FairCSpec
CONSTANTS
    NumStreams = 2
    Workers = {w1, w2}
    HasDeadline = TRUE
    MaxRaises = 2
INVARIANTS TypeOK QueuedStreamHasWorker Settlement ContainedUntilQuiet
PROPERTIES ImplementsPhase ThreadsAreLeft ReleasedUnlessTorn
CHECK_DEADLOCK FALSE
