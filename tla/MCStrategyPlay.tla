--------------------------- MODULE MCStrategyPlay ---------------------------
(* Instances of StrategyPlay for TLC.                                      *)
EXTENDS StrategyPlay, GameFamilies

MCTransGames ==
    GamesOver({B}, {BB}, {B}, {BB}, Trans1ByOther,
              Trans2Narrow \cup {[m \in BB \X B |-> f[m[2]]] : f \in [B -> {{}, B}]})

MCInitGames ==
    GamesOver({{}, {0}, B}, {{}, {<<0, 0>>}, {<<0, 0>>, <<0, 1>>, <<1, 1>>}},
              {B}, {BB, BB \ {<<0, 1>>}},
              {[s \in BB |-> {s[2]}], [s \in BB |-> B]}, {Trans2Copy, Trans2Latch})

MCGames == MCTransGames \cup MCInitGames

MCProps ==
    [type : TargetTypes, player : Players, expr : {{<<1, 1>>}}]
        \cup [type : PropTypes \ TargetTypes, player : Players, expr : {{}}]
=============================================================================
