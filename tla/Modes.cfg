SPECIFICATION FairSpec
PROPERTIES
    AbandonedIsReleased
    DiceWinnerStartsDuel
\* A session that was released stops.
CHECK_DEADLOCK FALSE
