CONSTANTS
    Clients = {c1}
    Requests = {q1, q2}
    NoClient = NoClient
    Grace = 1
    Abort = 1
    FreshFor = 4
    FamilyLife = 11
    Bounds <- MCBounds
SPECIFICATION Spec
SYMMETRY RequestSymmetry
INVARIANTS
    NoFalseTheft
    RefusedOnlyAfterTwoLosses
    ChangeEndsEarlierSessions
    ChangerStaysSignedIn
CHECK_DEADLOCK FALSE
