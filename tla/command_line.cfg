SPECIFICATION Spec
CONSTANTS
    Commands = {"check_reach_target", "check_avoid_target", "check_ltlgame_sf07",
                "extract_unrealizable_core", "show_property", "check_property",
                "write_flat_model", "write_boolean_model"}
    Props <- MCProps
    Situations <- MCSituations
    MaxOptions = 4
INVARIANTS
    OutputRestored
    RefusedDoesNothing
    ArgumentsMeetAssertions
CHECK_DEADLOCK FALSE
