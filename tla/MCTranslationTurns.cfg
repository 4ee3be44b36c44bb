CONSTANTS
    s1 = s1
    s2 = s2
    alice = alice
    Sockets = {s1}
    Turns = {t1}
    Users = {alice}
    UserOf <- MCUserOf
    NoUser = NoUser
    NoOwner = NoOwner
    PerSocket = 2
    PerUser = 2
    Global = 2
    MeetingCap = 1
    LidPerUser = 1
    LidTotal = 1
    Options <- EverySetting
    MaxBytes = 2
    MaxGuesses = 2
    Overlap = TRUE
    MaxClauses = 2
    MaxRefused = 1
SPECIFICATION FairSpec
INVARIANTS
    AccountedOnce
    GuessCoversTurn
PROPERTIES
    TranslationIsNotCutOff
    NoSpeechForNobody
    KeepsContract
    EveryTurnEnds
    EveryEndReturns
CHECK_DEADLOCK FALSE
