------------------------- MODULE MCBoundedSynthesis -------------------------
(* An instance of BoundedSynthesis for TLC.                                *)
EXTENDS BoundedSynthesis, GameFamilies, WringAutomata

MCGames ==
    GamesOver({B}, {BB}, {B}, {BB}, {[s \in BB |-> B], [s \in BB |-> {1 - s[1]}]},
              {Trans2Latch, Trans2Toggle})
    \cup GamesOver({{0}}, {{<<0, 0>>}}, {B}, {BB}, {[s \in BB |-> IF s[2] = 0 THEN B ELSE {}]},
                   {Trans2Copy, Trans2Avoid})

MCFormulas ==
    LET some == {[op |-> "F", p |-> {<<1, 1>>}], [op |-> "GF", p |-> {<<1, 1>>}]}
    IN  some \cup {Negation(f) : f \in some}

MCBounds == {<<0, 3>>, <<1, 1>>}
=============================================================================
