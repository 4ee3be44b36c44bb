CONSTANTS
    s1 = s1
    s2 = s2
    alice = alice
    Sockets = {s1, s2}
    Turns = {t1, t2, t3}
    Users = {alice}
    UserOf <- OneAccount
    NoUser = NoUser
    NoOwner = NoOwner
    PerSocket = 2
    PerUser = 2
    Global = 3
    MeetingCap = 1
    LidPerUser = 1
    LidTotal = 2
    Options <- ReadSettings
    MaxBytes = 1
    MaxGuesses = 0
    Overlap = TRUE
    MaxClauses = 1
    MaxRefused = 0
SPECIFICATION Spec
SYMMETRY TurnSymmetry
INVARIANTS
    CeilingsHold
    GoneHoldsNothing
PROPERTIES
    NoTurnIsDroppedSilently
CHECK_DEADLOCK FALSE
