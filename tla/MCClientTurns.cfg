CONSTANTS
    MaxTurns = 3
    MaxPending = 2
    MaxBacklog = 1
    MaxHeld = 2
    Modes <- MCModes
SPECIFICATION Spec
INVARIANTS
    TypeOK
    EveryBlockIsAccounted
    SpeakingOrder
    OneTrueRow
    MutedForAReason
    ServerTurnsAreCounted
CHECK_DEADLOCK FALSE
