---------------------------- MODULE GameMeaning ----------------------------
(***************************************************************************)
(* What one round and the choice of the initial state mean for a player,   *)
(* as the documentation of the game states it, independently of the BDD    *)
(* formulas that compute it.  A specification is realizable when its       *)
(* player can get the game to start among the states it wins from.         *)
(***************************************************************************)
EXTENDS GameFsm

Verdicts == {"realizable", "unrealizable"}

(* States from which the player can make the next state be in S, or leave  *)
(* the opponent without a legal half-move.                                 *)
CanForce(g, S, player) ==
    IF player = 1
    THEN {s \in Invar(g) :
            \E q1 \in Moves1(g, s) : \A q2 \in Moves2(g, s, q1) : <<q1, q2>> \in S}
    ELSE {s \in Invar(g) :
            \A q1 \in Moves1(g, s) : \E q2 \in Moves2(g, s, q1) : <<q1, q2>> \in S}

(* The player gets the game to start in a state of W.                      *)
StartsIn(g, W, player, q) ==
    CASE q = "A" ->
            \A p1 \in Init1(g), p2 \in P2 : <<p1, p2>> \in Init2(g) => <<p1, p2>> \in W
      [] q = "E" ->
            \E p1 \in Init1(g), p2 \in P2 : <<p1, p2>> \in Init2(g) \cap W
      [] q = "N" /\ player = 1 ->
            \E p1 \in Init1(g) : \A p2 \in P2 :
                <<p1, p2>> \in Init2(g) => <<p1, p2>> \in W
      [] q = "N" /\ player # 1 ->
            \A p1 \in Init1(g) : \E p2 \in P2 : <<p1, p2>> \in Init2(g) \cap W
=============================================================================
