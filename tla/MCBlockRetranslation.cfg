CONSTANTS
    alice = alice
    Sockets = {sa}
    Users = {alice}
    UserOf <- MCUserOf
    MaxSegments = 4
    Remembered = 3
    PlanOf <- MCPlanOf
    NoPlan = NoPlan
    Audible = {1, 2, 3}
    LostAt <- AllCuts
    Shapes <- MCShapes
    MaxAsks <- AskedOnce
    PerUser = 2
    Global = 2
SPECIFICATION FairSpec
PROPERTIES
    EveryAskIsAnswered
    RepairsStay
    NothingForNobody
CHECK_DEADLOCK FALSE
