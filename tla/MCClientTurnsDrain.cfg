CONSTANTS
    MaxTurns = 3
    MaxPending = 2
    MaxBacklog = 1
    MaxHeld = 2
    Modes <- MCDrain
SPECIFICATION Spec
INVARIANT DrainWaitsForTheCaller
CHECK_DEADLOCK FALSE
