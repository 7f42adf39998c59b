SPECIFICATION FairSpec
CONSTANTS
    MaxLinks = 2
    MaxChainings = 2
    MaxEvents = 2
    MaxSyncs = 1
    Draws = {2}
    Stragglers = FALSE
    RescueCeiling = 3
INVARIANTS
    OneLoop
    PlayedOnceInOrder
PROPERTIES
    QueueSettles
CHECK_DEADLOCK FALSE
