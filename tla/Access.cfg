SPECIFICATION AccessSpec
CONSTANTS
    Duels = {d1, d2}
    NoTarget = NoTarget
    MaxTokens = 6
    MaxSockets = 4
INVARIANTS
    AccessTypeOK
    TokensResolve
    LastTokenWorks
    TokensAreSpentOnce
    SeatFollowsSocket
\* No token is left.
CHECK_DEADLOCK FALSE
