SPECIFICATION FairSpec
CONSTANTS
    sa = sa
    sb = sb
    p1 = p1
    p2 = p2
    q = q
    NoPeer = NoPeer
    Nobody = Nobody
    Sockets = {sa, sb}
    Peers = {p1, p2, q}
    SocketOf <- MCSocketOf
    Talkers = {p1, p2}
    MaxPublishes = 1
    MaxRetries = 1
INVARIANTS
    NoPullOverAnOffer
    NoTrackIsMissed
    NothingLeftOnAir
    LeaversAreForgotten
PROPERTY
    QueuesDrain
CONSTRAINTS
    FirstThenSecond
    ReceiverStays
CHECK_DEADLOCK FALSE
