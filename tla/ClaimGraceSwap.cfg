SPECIFICATION Spec
CONSTANTS
    Mode = "pvp"
    MaxDuels = 1
INVARIANTS
    DisconnectedPlayerHasGrace
\* A session that was released stops.
CHECK_DEADLOCK FALSE
