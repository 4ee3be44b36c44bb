CONSTANTS
    a1 = a1
    a2 = a2
    b1 = b1
    alice = alice
    bob = bob
    Sockets = {a1, a2}
    Users = {alice}
    UserOf <- MCUserOf
    Conferences = {r1}
    NoConference = NoConference
    Objects = {k1, k2}
    NoObject = NoObject
    MaxJoins <- MCTwoJoins
SPECIFICATION FairSpec
INVARIANTS
    OneSeatPerUser
    NoGhostSeats
    EndedStaysEmpty
    SeatsAgree
    LeftByAllIsOver
PROPERTIES
    JoinsReturn
    KeepsMembership
CHECK_DEADLOCK FALSE
