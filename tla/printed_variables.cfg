SPECIFICATION Spec
CONSTANTS
    nPlayers = 2
    Declared = {TRUE, FALSE}
INVARIANT VarsAreThoseOfTheGame
CHECK_DEADLOCK FALSE
