SPECIFICATION Spec
CONSTANTS
    Mode = "solo"
    MaxDuels = 2
INVARIANTS
    LiveDuelHasWorker
\* A session that was released stops.
CHECK_DEADLOCK FALSE
