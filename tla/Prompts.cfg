SPECIFICATION PromptSpec
CONSTANTS
    MaxPrompts = 4
    MaxTurn = 2
    MaxStrikes = 2
    MaxRefusals = 2
    LinkSize = 2
INVARIANTS
    PromptTypeOK
    PromptsAgree
    DuelHasDeadline
    CapturedIsPath
    AwaitedIsTimed
    RollbackTarget
\* A duel that was decided stops.
CHECK_DEADLOCK FALSE
