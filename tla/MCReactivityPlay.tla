--------------------------- MODULE MCReactivityPlay ---------------------------
(* Instances of ReactivityPlay for TLC.                                    *)
EXTENDS ReactivityPlay, GameFamilies

MCOpenGames ==
    GamesOver({B}, {BB}, {B}, {BB},
              {[s \in BB |-> B], [s \in BB |-> {s[2]}],
               [s \in BB |-> IF s = <<1, 0>> THEN {} ELSE {1 - s[1]}]},
              Trans2Narrow \cup {[m \in BB \X B |-> IF m[1][2] = m[2] THEN {m[2]} ELSE B]})

MCNarrowGames ==
    GamesOver({{}, {0}}, {{<<0, 0>>}, {<<1, 1>>}}, {B}, {BB \ {<<1, 0>>}},
              {[s \in BB |-> B]}, {Trans2Toggle})

MCGames == MCOpenGames \cup MCNarrowGames

MCSpecs ==
    [player      : Players,
     assumptions : {<<BB>>, <<{<<1, 1>>}>>, <<{<<0, 0>>, <<1, 0>>}, {<<0, 1>>}>>},
     guarantees  : {<<{<<1, 1>>}, {<<0, 0>>}>>, <<{<<0, 1>>, <<1, 1>>}, {<<1, 0>>}>>}]

(* The second guarantee is true in every state.                            *)
MCTrueSpecs ==
    [player      : Players,
     assumptions : {<<BB>>},
     guarantees  : {<<{<<0, 1>>, <<1, 1>>}, BB>>}]
=============================================================================
