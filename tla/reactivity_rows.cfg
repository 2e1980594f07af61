CONSTANTS
    P1 <- B
    P2 <- B
    Games <- MCGames
    Specs <- MCSpecs
    Terminations = {"NORMAL"}
    WantStrategy = TRUE
    ConditionBound = 2
SPECIFICATION ComposedSpec
INVARIANTS
    StrategyHasRows
CHECK_DEADLOCK FALSE
