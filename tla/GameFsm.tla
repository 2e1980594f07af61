------------------------------ MODULE GameFsm ------------------------------
(***************************************************************************)
(* The two-player game of NuGaT (fsm/GameBddFsm.c) and the operations on    *)
(* sets of states that every realizability algorithm is built from.        *)
(*                                                                         *)
(* A round has two half-moves.  In state <<p1, p2>> player 1 picks p1'     *)
(* knowing p1 and p2, then player 2 picks p2' knowing p1, p2 and p1'.      *)
(* A player with no legal half-move loses.  A BDD over the current         *)
(* variables is a set of states; a BDD over p1, p2 and next(p1) a set of   *)
(* pairs <<state, q1>>; a BDD over all variables a set of pairs of states. *)
(***************************************************************************)
EXTENDS Integers

CONSTANTS
    P1,     \* valuations of the variables of player 1
    P2,     \* valuations of the variables of player 2
    Games   \* the games considered

Players == {1, 2}

Opponent(player) == IF player = 1 THEN 2 ELSE 1

States == P1 \X P2

(* Player 1 may mention the current variables of player 2 in TRANS only,   *)
(* and never its next ones; player 2 may mention everything.               *)
GameType == [init1  : SUBSET P1,
             init2  : SUBSET States,
             inv1   : SUBSET P1,
             inv2   : SUBSET States,
             trans1 : [States -> SUBSET P1],
             trans2 : [States \X P1 -> SUBSET P2]]

ASSUME GamesAssumption == Games \subseteq GameType

(* A player has at least one valuation, the empty one if it has no         *)
(* variables.                                                              *)
ASSUME ValuationsAssumption == P1 # {} /\ P2 # {}

-----------------------------------------------------------------------------
(* Legal states and half-moves.                                            *)

Invar(g) == {s \in g.inv2 : s[1] \in g.inv1}

Moves1(g, s) == g.trans1[s] \cap g.inv1

Moves2(g, s, q1) == {q2 \in g.trans2[<<s, q1>>] : <<q1, q2>> \in g.inv2}

Init1(g) == g.init1 \cap g.inv1

Init2(g) == g.init2 \cap g.inv2

(* States in which player 1 has a legal half-move, and those in which it   *)
(* has none; half-rounds in which player 2 has one, and those it is stuck. *)
WithSuccessor1(g) == {s \in Invar(g) : Moves1(g, s) # {}}

WithoutSuccessor1(g) == Invar(g) \ WithSuccessor1(g)

HalfRounds(g) == {m \in Invar(g) \X P1 : m[2] \in Moves1(g, m[1])}

WithSuccessor2(g) == {m \in HalfRounds(g) : Moves2(g, m[1], m[2]) # {}}

WithoutSuccessor2(g) == HalfRounds(g) \ WithSuccessor2(g)

-----------------------------------------------------------------------------
(* The image operators.                                                    *)

(* Half-moves q1 of player 1 that player 2 can answer by a legal state     *)
(* inside (hit = TRUE) or outside (hit = FALSE) the goal.                  *)
Answerable(g, goal, s, q1, hit) ==
    \E q2 \in Moves2(g, s, q1) : (<<q1, q2>> \in goal) <=> hit

StrongBackwardImage(g, goal, player) ==
    {s \in Invar(g) :
        (\E q1 \in Moves1(g, s) : ~Answerable(g, goal, s, q1, player # 1))
            <=> (player # 2)}

WeakForwardImage(g, S) ==
    {t \in Invar(g) : \E s \in S \cap Invar(g) :
        t[1] \in g.trans1[s] /\ t[2] \in g.trans2[<<s, t[1]>>]}

Move1(g, to) ==
    {m \in WithSuccessor2(g) : ~Answerable(g, to, m[1], m[2], FALSE)}

Move2(g, to) ==
    {m \in Invar(g) \X (to \cap Invar(g)) :
        /\ m[2][1] \in g.trans1[m[1]]
        /\ m[2][2] \in g.trans2[<<m[1], m[2][1]>>]}

GetMove(g, to, player) == IF player = 1 THEN Move1(g, to) ELSE Move2(g, to)

-----------------------------------------------------------------------------
(* Who chooses the initial state: "N" player 1 then player 2, "A" the      *)
(* opponent chooses both parts, "E" the player chooses both parts.  The    *)
(* code evaluates one formula with a table of three negations.             *)

Quantifiers == {"N", "A", "E"}

GoalNegated(player, q) == q = "A" \/ (q = "N" /\ player = 1)

P2Negated(q) == q = "N"

P1Negated(player, q) == q = "A" \/ (q = "N" /\ player # 1)

CanPlayerSatisfy(i1, i2, goal, player, q) ==
    LET SomeP2(p1) == \E p2 \in P2 :
            /\ <<p1, p2>> \in i2
            /\ (<<p1, p2>> \in goal) <=> ~GoalNegated(player, q)
    IN  (\E p1 \in i1 : SomeP2(p1) <=> ~P2Negated(q)) <=> ~P1Negated(player, q)
=============================================================================
