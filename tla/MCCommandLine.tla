--------------------------- MODULE MCCommandLine ---------------------------
(* An instance of CommandLine for TLC: a database with one property of     *)
(* each player and with one type twice, and models that have passed all    *)
(* stages, lack the last one, or have only been flattened.                 *)
EXTENDS CommandLine

MCProps ==
    <<[type |-> "reach_target",   player |-> 1], [type |-> "ltl", player |-> 2],
      [type |-> "gen_reactivity", player |-> 2], [type |-> "reach_target", player |-> 2]>>

MCSituations ==
    {{}, {"flatten"}, {"flatten", "encode", "build"}, {"flatten", "encode", "build", "bool"}}
=============================================================================
