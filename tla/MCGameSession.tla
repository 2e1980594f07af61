--------------------------- MODULE MCGameSession ---------------------------
(* An instance of Program for TLC.                                         *)
EXTENDS Program

MCDependent == {"flatten_hierarchy", "encode_variables", "build_flat_model", "build_model",
                "build_boolean_model", "check_property"}

MCGeneric == {"read_model", "read_rat_file", "reset", "quit"}

Truth(n, a, e) == [N |-> n, A |-> a, E |-> e]

Prop(type, player, truth) ==
    [type |-> type, player |-> player, illTyped |-> FALSE, truth |-> truth]

Game(name, specs) ==
    [name |-> name, game |-> TRUE, rat |-> FALSE, syntax |-> "ok", forbidden |-> "none",
     determ |-> FALSE, props |-> specs]

Reach == Prop("reach", 1, Truth(TRUE, FALSE, TRUE))

Ltl == Prop("ltl", 2, Truth(FALSE, FALSE, TRUE))

Gen == Prop("gen", 2, Truth(FALSE, TRUE, TRUE))

MCModels ==
    {Game("arbiter", <<Ltl, Reach>>),
     [Game("elevator", <<Gen>>) EXCEPT !.determ = TRUE],
     Game("illTyped", <<Reach, [Gen EXCEPT !.illTyped = TRUE]>>),
     [Game("processes", << >>) EXCEPT !.forbidden = "processes"],
     [Game("inputs", << >>) EXCEPT !.forbidden = "inputs"],
     [Game("twoGames", << >>) EXCEPT !.syntax = "after"],
     [Game("ratsy", <<Prop("gen", 2, Truth(TRUE, TRUE, TRUE))>>) EXCEPT !.rat = TRUE],
     [Game("counter", << >>) EXCEPT !.game = FALSE],
     [Game("typo", << >>) EXCEPT !.syntax = "before"]}

(* Options as they are typed, with right, wrong and option-like arguments. *)
Flags == {<<o>> : o \in {"-quiet", "-int", "-s", "-old", "-old_div_op", "-dcx", "-ctt", "-lp",
                         "-is", "-ic", "-ils", "-ips", "-ii", "-r", "-f", "-df", "-flt", "-AG",
                         "-reorder", "-dynamic", "-disable_bdd_cache", "-mono", "-coi",
                         "-noaffinity", "-iwls95preorder", "-dp", "-e"}}

Batch == {<<"-lp">>, <<"-e">>, <<"-coi">>, <<"-ctt">>, <<"-r">>, <<"-n", "1">>, <<"-n", "">>}

Arguments ==
    (({"-n", "-v", "-cp", "-thresh", "-iwls95"} \X {"", "1", "-3", "-r"})
    \cup ({"-sin", "-rin"} \X {"on", "off", "-n"})
    \cup {<<"-m", "sift">>, <<"-m", "1">>, <<"-bdd_soh", "basic">>, <<"-ojeba", "EL_bwd">>}
    \cup ({"-i", "-o", "-t", "-ofm", "-obm", "-source", "-load", "-pre"} \X {"x", "-s"}))

Missing == {<<o>> : o \in {"-i", "-obm", "-source", "-pre", "-n", "-m"}}

Ends == {<< >>} \cup {<<p>> : p \in Missing \cup {<<"arbiter">>, <<"-x">>, <<"-h">>}}

Mixed == {<<"-cpp">>, <<"-pre", "x">>, <<"-pre", "-cpp">>, <<"-f">>, <<"-df">>, <<"-mono">>,
          <<"-cp", "1">>, <<"-source", "-int">>, <<"arbiter">>}

MCLines ==
    {<<p>> \o e : p \in Flags \cup Arguments, e \in Ends}
    \cup {<<p, q>> \o e : p \in Flags \cup Arguments, q \in Mixed, e \in Ends}
    \cup {<<p, q, r>> : p \in Mixed, q \in Mixed, r \in Mixed}
    \cup {<<p, q, r>> : p \in Batch, q \in Batch, r \in Batch}
    \cup Ends
=============================================================================
