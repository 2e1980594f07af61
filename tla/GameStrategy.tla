---------------------------- MODULE GameStrategy ----------------------------
(***************************************************************************)
(* GameStrategy_construct (GameStrategy.c): from the set of winning states *)
(* and the winning moves an algorithm hands over, the six BDDs that are    *)
(* printed as the INIT and TRANS sections of the strategy module.          *)
(*                                                                         *)
(* An INIT part is a set of states (player 1 alone is a cylinder over      *)
(* player 2); a TRANS part is a set of half-moves <<state, q1>> for a      *)
(* strategy of player 1 and a set of rounds <<state, state>> for player 2. *)
(***************************************************************************)
EXTENDS GameFsm

VARIABLES
    game, opt,   \* the game and the initial-condition option
    args,        \* arguments: player, reverse, goal, winningStates, trans;
                 \* the caller's to keep
    stage,       \* "idle", "grow" (computing reachable), "built"
    reachable,   \* states the strategy may meet
    built        \* the six parts of the strategy

NothingBuilt == [init_goal |-> {}, init_opponent_deadlock |-> {}, init_moves |-> {},
                 goal |-> {}, opponent_deadlock |-> {}, moves |-> {}]

(* Who chooses the initial state, seen from the owner of the strategy.     *)
Role ==
    CASE opt = "N" -> "N"
      [] opt = (IF args.reverse THEN "E" ELSE "A") -> "A"
      [] opt = (IF args.reverse THEN "A" ELSE "E") -> "E"

Inits == {s \in Init2(game) : s[1] \in Init1(game)}

(* bdd_get_one_sparse_sat keeps one satisfying cube of the set it is given.*)
OneCube(S) ==
    IF S = {} THEN {{}} ELSE {c \in SUBSET S : c # {} /\ \E A \in SUBSET P1,
                                                  C \in SUBSET P2 : c = A \X C}

(* Initial choices of player 1 that player 2 cannot complete, and those it *)
(* can complete with winning states only.                                  *)
Completions(p1) == {p2 \in P2 : <<p1, p2>> \in Init2(game)}

StuckInits1 == {p1 \in Init1(game) : Completions(p1) = {}}

WinningInits1 ==
    {p1 \in Init1(game) \ StuckInits1 :
        \A p2 \in Completions(p1) : <<p1, p2>> \in args.winningStates}

WinningInits == (Inits \cap args.winningStates) \ args.goal

(* Initial states that are already dead ends for the opponent player 1.    *)
DeadInits ==
    IF args.player = 1 THEN {}
    ELSE Inits \cap WithoutSuccessor1(game) \cap args.winningStates

InitParts(g, d, m) == [NothingBuilt EXCEPT !.init_goal = g,
                                           !.init_opponent_deadlock = d,
                                           !.init_moves = m]

-----------------------------------------------------------------------------
(* The three ways the INIT parts and the first reachable states are made.  *)

ConstructNormal1 ==
    /\ Role = "N" /\ args.player = 1
    /\ \E c \in (IF WinningInits1 = {} THEN {{}} ELSE (SUBSET WinningInits1) \ {{}}) :
           /\ built' = InitParts({}, StuckInits1 \X P2, c \X P2)
           /\ reachable' = Inits \cap (c \X P2)

ConstructNormal2 ==
    /\ Role = "N" /\ args.player = 2
    /\ LET moves == WinningInits \ WithoutSuccessor1(game)
       IN  /\ built' = InitParts(Inits \cap args.goal, DeadInits \ args.goal, moves)
           /\ reachable' = moves

ConstructUniversal ==
    /\ Role = "A"
    /\ built' = InitParts(Inits \cap args.goal, DeadInits, {})
    /\ reachable' = (Inits \ args.goal) \ DeadInits

ConstructExistential ==
    /\ Role = "E"
    /\ \E c \in OneCube(IF DeadInits # {} THEN {} ELSE WinningInits) :
           /\ built' = InitParts(Inits \cap args.goal, DeadInits, c)
           /\ reachable' = c

Construct ==
    /\ stage = "idle"
    /\ stage' = "grow"
    /\ \/ ConstructNormal1
       \/ ConstructNormal2
       \/ ConstructUniversal
       \/ ConstructExistential
    /\ UNCHANGED <<game, opt>>

-----------------------------------------------------------------------------
(* Faulty variant: the initial states are all there is.                    *)
NoSuccessors == {}

(* Add what a round can lead to, within the winning states.                *)

Successors == WeakForwardImage(game, reachable) \cap args.winningStates

Grow ==
    /\ stage = "grow"
    /\ ~(Successors \subseteq reachable)
    /\ reachable' = reachable \cup Successors
    /\ UNCHANGED <<game, opt, stage, built>>

(* Faulty variant: what leaves player 2 stuck is cut and not put back.     *)
StrandedParts1 ==
    LET open == {m \in States \X P1 : m[1] \in reachable \ args.goal}
    IN  [built EXCEPT !.goal = (args.goal \cap reachable) \X P1,
                      !.moves = (args.trans \ WithoutSuccessor2(game)) \cap open]

Parts1 ==
    LET open == {m \in States \X P1 : m[1] \in reachable \ args.goal}
        stuck == WithoutSuccessor2(game)
    IN  [built EXCEPT !.goal = (args.goal \cap reachable) \X P1,
                      !.opponent_deadlock = stuck \cap open,
                      !.moves = (args.trans \ stuck) \cap open]

Parts2 ==
    LET rounds == {m \in args.trans : m[1] \in reachable}
        toGoal == {m \in rounds : m[2] \in args.goal}
        toDead == {m \in rounds \ toGoal : m[2] \in WithoutSuccessor1(game)}
    IN  [built EXCEPT !.goal = toGoal,
                      !.opponent_deadlock = toDead,
                      !.moves = (rounds \ toGoal) \ toDead]

Finish ==
    /\ stage = "grow"
    /\ Successors \subseteq reachable
    /\ stage' = "built"
    /\ built' = IF args.player = 1 THEN Parts1 ELSE Parts2
    /\ UNCHANGED <<game, opt, reachable>>

(* The INIT and TRANS sections of the printed strategy module.             *)
InitSection ==
    built.init_goal \cup built.init_opponent_deadlock \cup built.init_moves

TransSection == built.goal \cup built.opponent_deadlock \cup built.moves
=============================================================================
