CONSTANTS
    P1 <- B
    P2 <- B
    Games <- MCAllGames
    Props <- MCProps
    WantStrategy = TRUE
SPECIFICATION ReachSpec
INVARIANTS
    LoopInvariant
    StrategyMovesWin
    OwnerNeverLoses
    PlayStaysReachable
PROPERTIES
    Implements
    ReachOwnerWins
CHECK_DEADLOCK FALSE
