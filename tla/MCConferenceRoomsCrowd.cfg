CONSTANTS
    a1 = a1
    a2 = a2
    b1 = b1
    alice = alice
    bob = bob
    Sockets = {a1, b1}
    Users = {alice, bob}
    UserOf <- MCUserOf
    Conferences = {r1, r2}
    NoConference = NoConference
    Objects = {k1, k2}
    NoObject = NoObject
    MaxJoins <- MCFirstMoves
SPECIFICATION Spec
SYMMETRY ObjectSymmetry
INVARIANTS
    NotOverWhileOccupied
    HeldRoomsStayOpen
CHECK_DEADLOCK FALSE
