-------------------------- MODULE MCCoreMinimization --------------------------
(* Instances of CoreMinimization for TLC.                                    *)
EXTENDS CoreMinimization, GameFamilies

Trans1Swap == [s \in BB |-> {1 - s[1], s[2]}]

Trans1Follow == [s \in BB |-> IF s[1] = 1 THEN {s[2]} ELSE B]

Trans1Echo == [s \in BB |-> {s[2]}]

(* The first constraint on the moves follows from the second one.          *)
Hierarchy1s ==
    {[init |-> <<{0}>>, invar |-> << >>, trans |-> <<Trans1Follow, Trans1Echo>>],
     [init |-> << >>, invar |-> <<{1}, B>>, trans |-> <<Trans1Swap>>]}

Hierarchy2s ==
    {[init |-> <<BB \ {<<0, 1>>}, {<<0, 1>>, <<1, 1>>}>>, invar |-> << >>,
      trans |-> <<Trans2Avoid, Trans2Copy>>],
     [init |-> << >>, invar |-> <<BB \ {<<1, 0>>}>>, trans |-> <<Trans2Latch>>],
     [init |-> <<{<<1, 1>>}>>, invar |-> << >>, trans |-> << >>]}

MCProperties ==
    [player      : Players,
     assumptions : {<<BB>>, <<{<<0, 0>>, <<1, 0>>}, {<<0, 1>>}>>},
     guarantees  : {<<{<<1, 1>>}, {<<0, 0>>}>>, <<{<<0, 1>>, <<1, 1>>}>>}]

MCAllProblems ==
    [gh : Hierarchy1s \X Hierarchy2s, property : MCProperties,
     minimise : {Kinds, {"trans"}, {"prop"}}, w : {"LOSER", "BOTH"}]

OpponentInvar(p) == p.gh[Opponent(p.property.player)].invar

(* No state becomes legal that the opponent of the specification forbade.  *)
MCProblems ==
    {p \in MCAllProblems : OpponentInvar(p) = << >> \/ "invar" \notin p.minimise}

MCInvarProblems ==
    {p \in MCAllProblems : OpponentInvar(p) # << >> /\ "invar" \in p.minimise}

MCGames == {}

MCSpecs == {}
=============================================================================
