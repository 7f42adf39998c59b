SPECIFICATION Spec
CONSTANTS
    Mode = "pvp"
    MaxDuels = 2
INVARIANTS
    TypeOK
    GoneIsQuiet
    EndedSessionHasDeadline
    AbandonedSessionHasDeadline
    WorkerAccounting
    DicePhaseHasTimer
    GateNeverWedges
PROPERTIES
    ImplementsLifecycle
\* A session that was released stops.
CHECK_DEADLOCK FALSE
