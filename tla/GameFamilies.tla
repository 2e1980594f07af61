---------------------------- MODULE GameFamilies ----------------------------
(***************************************************************************)
(* Families of small games for the model checker.  Each player has the     *)
(* values 0 and 1, so a game has four states.  A family fixes some parts   *)
(* of the game and lets the others range over everything.                  *)
(***************************************************************************)
EXTENDS Integers

B == {0, 1}

BB == B \X B

Choices == SUBSET B

(* Half-moves of player 1 that look at the value of player 2 only; the     *)
(* empty choice is a dead end.                                             *)
Trans1ByOther == {[s \in BB |-> f[s[2]]] : f \in [B -> Choices]}

(* One or two choices in every state.                                      *)
Trans1Narrow == [BB -> {{0}, {1}, B}]

(* Answers of player 2 that look at the choice of player 1 only.           *)
Trans2Tiny == {[m \in BB \X B |-> f[m[2]]] : f \in [B -> Choices]}

(* Copy player 1, or keep clear of the own old value when player 1 moves.  *)
Trans2Copy == [m \in BB \X B |-> {m[2]}]

Trans2Avoid == [m \in BB \X B |-> B \ {m[1][2]}]

(* Free only when player 1 leaves 0, stuck when it comes back from 1.      *)
Trans2Latch == [m \in BB \X B |->
                  IF m[1][1] = 0 THEN IF m[2] = 1 THEN B ELSE {1 - m[1][2]}
                  ELSE IF m[2] = 0 THEN {} ELSE {m[1][2]}]

(* Toggle when player 1 stays, keep when player 1 moves.                   *)
Trans2Toggle == [m \in BB \X B |->
                   IF m[2] = m[1][1] THEN {1 - m[1][2]} ELSE {m[1][2]}]

Trans2Narrow == {Trans2Copy, Trans2Avoid, Trans2Latch, Trans2Toggle}

GamesOver(init1s, init2s, inv1s, inv2s, trans1s, trans2s) ==
    [init1 : init1s, init2 : init2s, inv1 : inv1s, inv2 : inv2s,
     trans1 : trans1s, trans2 : trans2s]
=============================================================================
