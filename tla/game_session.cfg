SPECIFICATION ProgramSpec
CONSTANTS
    Generic <- MCGeneric
    RatCommands = {"read_rat_file"}
    Dependent <- MCDependent
    Specific = {"check_reach_target", "check_ltlgame_sf07"}
    OtherNames = {"bmc_setup", "check_ctlspec"}
    Models <- MCModels
    Methods = {"Monolithic", "Iwls95CP"}
    Lines <- MCLines
INVARIANTS
    TablesFollowMode
    AssertionsHold
    StagesAreReal
    StatusIsVerdict
    AskedAreDecided
    LineIsUnderstood
PROPERTIES
    VerdictKept
    ChecksEnd
CHECK_DEADLOCK FALSE
