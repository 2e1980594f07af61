CONSTANTS
    P1 <- B
    P2 <- B
    Games <- MCGames
    Specs <- MCSpecs
    Terminations = {"NONE", "NORMAL"}
    WantStrategy = FALSE
    Problems <- MCProblems
SPECIFICATION CoreSpec
INVARIANTS
    CoreKeepsVerdict
    CoreIsMinimal
    ApproximationHolds
PROPERTIES
    CoreEnds
CHECK_DEADLOCK FALSE
