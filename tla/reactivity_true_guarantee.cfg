CONSTANTS
    P1 <- B
    P2 <- B
    Games <- MCGames
    Specs <- MCTrueSpecs
    Terminations = {"NORMAL"}
    WantStrategy = TRUE
    ConditionBound = 2
SPECIFICATION ComposedSpec
INVARIANTS
    FollowerNeverStuck
CHECK_DEADLOCK FALSE
