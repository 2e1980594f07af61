------------------------------ MODULE LtlGames ------------------------------
(***************************************************************************)
(* What an LTL specification of a game means: its player has to play so    *)
(* that every infinite play satisfies the formula, and never to be the one *)
(* that is stuck.  The formulas are an operator applied to a set of        *)
(* states; the states won are the textbook fixed points, written without   *)
(* automata, counters or bounds.                                           *)
(***************************************************************************)
EXTENDS GameMeaning

Ops == {"X", "G", "F", "GF", "FG"}

LtlType == [op : Ops, p : SUBSET States]

DualOp == [X |-> "X", G |-> "F", F |-> "G", GF |-> "FG", FG |-> "GF"]

Negation(f) == [op |-> DualOp[f.op], p |-> States \ f.p]

(* The fixed point that a monotone function on sets reaches from S.        *)
FixedPoint(f, S) ==
    LET from[T \in DOMAIN f] == IF f[T] = T THEN T ELSE from[f[T]]
    IN  from[S]

Least(f) == FixedPoint(f, {})

Largest(g, f) == FixedPoint(f, Invar(g))

StateSets == SUBSET States

(* States from which the opponent can be made stuck, and those from which  *)
(* the player can keep from being stuck.                                   *)
StucksOther(g, player) == Least([Y \in StateSets |-> CanForce(g, Y, player)])

NeverStuck(g, player) == Largest(g, [Z \in StateSets |-> CanForce(g, Z, player)])

WinningStates(g, f, player) ==
    LET Next(S) == CanForce(g, S, player)
        stucks == StucksOther(g, player)
        safe == NeverStuck(g, player)
    IN  CASE f.op = "X"  -> Next((f.p \cap safe) \cup stucks)
          [] f.op = "G"  -> Largest(g, [Z \in StateSets |-> stucks \cup (f.p \cap Next(Z))])
          [] f.op = "F"  -> Least([Y \in StateSets |-> (f.p \cap safe) \cup Next(Y)])
          [] f.op = "GF" ->
                Largest(g, [Z \in StateSets |->
                    Least([Y \in StateSets |-> (f.p \cap Next(Z)) \cup Next(Y)])])
          [] f.op = "FG" ->
                Least([Y \in StateSets |->
                    Largest(g, [Z \in StateSets |-> Next(Y) \cup (f.p \cap Next(Z))])])

(* The player of the specification can have it.                            *)
HasStrategy(g, f, player) == StartsIn(g, WinningStates(g, f, player), player, "N")
=============================================================================
