SPECIFICATION Spec
CONSTANTS
    P1 <- B
    P2 <- B
    Games <- MCGames
    Letters = {TRUE, FALSE}
    Formulas <- MCFormulas
    Ltl2Gba <- AutomataOfWring
    Bounds <- MCBounds
    Enough = 3
    MaxChecks = 2
INVARIANTS
    VerdictIsRight
    CompleteForBoth
    BoundsOnlyHelp
    MonitorNeverBlocks
    AllReleased
PROPERTIES
    NamesAreFresh
    Terminates
CHECK_DEADLOCK FALSE
