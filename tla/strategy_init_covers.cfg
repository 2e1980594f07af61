CONSTANTS
    P1 <- B
    P2 <- B
    Games <- MCGames
    Props <- MCProps
    WantStrategy = TRUE
SPECIFICATION ComposedSpec
INVARIANTS
    InitSectionCoversInits
CHECK_DEADLOCK FALSE
