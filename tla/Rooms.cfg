SPECIFICATION RoomFairSpec
CONSTANTS
    Creator = creator
    Joiners = {j1, j2}
    Nobody = nobody
    MaxStarts = 2
    MaxClosers = 1
    MaxOps = 3
INVARIANTS
    OneStartAtATime
    OneDuelPerRoom
    TokensGoToTheirPlayers
PROPERTIES
    StartedDuelIsReached
\* A room that was closed and left by everybody stops.
CHECK_DEADLOCK FALSE
