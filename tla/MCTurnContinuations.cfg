CONSTANTS
    LastTurn = 3
    MaxGuesses <- MCGuesses
    MaxPieces <- MCPieces
    Remembered = 2
    PerSocket = 3
    Shapes <- MCShapes
SPECIFICATION FairSpec
INVARIANTS
    NoWaitOnTheSettled
PROPERTIES
    ContinuesItsOwnCut
    EveryWaitEnds
CHECK_DEADLOCK FALSE
