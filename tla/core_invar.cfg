CONSTANTS
    P1 <- B
    P2 <- B
    Games <- MCGames
    Specs <- MCSpecs
    Terminations = {"NONE", "NORMAL"}
    WantStrategy = FALSE
    Problems <- MCInvarProblems
SPECIFICATION CoreSpec
INVARIANTS
    SameVerdictAgain
CHECK_DEADLOCK FALSE
