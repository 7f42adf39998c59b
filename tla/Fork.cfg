SPECIFICATION Spec
CONSTANTS
    Mode = "fork"
    MaxDuels = 1
INVARIANTS
    LiveDuelHasWorker
\* A session that was released stops.
CHECK_DEADLOCK FALSE
