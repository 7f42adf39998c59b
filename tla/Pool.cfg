SPECIFICATION FairSpec
CONSTANTS
    Conns = {c1, c2, c3}
    MaxJobs = 4
    MaxWorkers = 2
    Fork = "shown"
    Crashing = {"replay"}
INVARIANTS
    SlotsAccounted
PROPERTIES
    ImplementsSlotPool
    QueueIsServed
\* A server that was shut down stops.
CHECK_DEADLOCK FALSE
