CONSTANTS
    MaxSockets = 2
    MaxStarts = 2
    MaxFaults = 1
    MaxVisits = 2
    MaxCancels = 1
    Overlap = FALSE
SPECIFICATION SolverSpec
INVARIANTS
    SolverTypeOK
    OneSolveAtATime
    OpenIsRegistered
    CancelIsFinal
PROPERTIES
    SpinnerEnds
CHECK_DEADLOCK FALSE
