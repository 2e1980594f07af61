CONSTANTS
    P1 <- B
    P2 <- B
    Games <- MCGames
    Specs <- MCSpecs
    Terminations = {"NORMAL"}
    WantStrategy = TRUE
    ConditionBound = 2
SPECIFICATION PlaysSpec
INVARIANTS
    YWithinZ
    WinnersStayInZ
    AnswerIsRight
    FollowerSafe
    BuchiYWithinZ
PROPERTIES
    XOnlyShrinks
    Terminates
    ServesGuarantees
    MeetsConditions
CHECK_DEADLOCK FALSE
