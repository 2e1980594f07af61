----------------------------- MODULE ReachAvoid -----------------------------
(***************************************************************************)
(* Game_UseStrongReachabilityAlgorithm (gameCheckReachAvoidSpec.c): the    *)
(* decision of reach-target, avoid-target, reach-deadlock and avoid-       *)
(* deadlock specifications.  One step is one pass of the main loop; the    *)
(* locals the function computes once and never changes are the operators   *)
(* player, quantifiers and originalTarget.                                 *)
(***************************************************************************)
EXTENDS GameSpecs, Sequences

CONSTANT WantStrategy   \* the caller passed a container for the strategy

VARIABLES
    game, prop, opt,     \* the inputs: the game, the specification, the option
    pc,                  \* where the function is
    allReachStates,      \* states known to reach the target
    reachStateList,      \* allReachStates after each pass, oldest first
    isTargetReached,     \* the initial states are won
    isFixedpointReached, \* the last pass added nothing, or was skipped
    strategy,            \* the arguments of GameStrategy_construct
    status               \* the value returned

input == <<game, prop, opt>>

vars == <<game, prop, opt, pc, allReachStates, reachStateList,
          isTargetReached, isFixedpointReached, strategy, status>>

ASSUME WantStrategyAssumption == WantStrategy \in BOOLEAN

-----------------------------------------------------------------------------
(* An avoidance game is played for the opponent, so the player and the     *)
(* choice of the initial state are both exchanged.                         *)

Dual(q) == CASE q = "N" -> "N" [] q = "E" -> "A" [] q = "A" -> "E"

player == IF prop.type \in AvoidTypes THEN Opponent(prop.player) ELSE prop.player

opponent == Opponent(player)

(* Faulty variant: the option is left as it is for the opponent.           *)
UndualQuantifiers == opt

quantifiers == IF prop.type \in AvoidTypes THEN Dual(opt) ELSE opt

originalTarget == Target(game, prop)

WinsAtInit(S) ==
    CanPlayerSatisfy(Init1(game), Init2(game), S, player, quantifiers)

(* An empty set of initial states stops the loop before its first pass.    *)
SomeInitEmpty == Init1(game) = {} \/ Init2(game) = {}

-----------------------------------------------------------------------------

(* The half-moves (or rounds) m of a move BDD that start in S.             *)
MovesFrom(moves, S) == {m \in moves : m[1] \in S}

(* Half-moves of player 1 that leave player 2 stuck: GetMove leaves them   *)
(* out, and they are added to what player 1 may do.                        *)
DeadlockMoves(plr) == IF plr = 1 THEN WithoutSuccessor2(game) ELSE {}

(* Faulty variant: go from each layer into itself.                         *)
SameLayerMoves ==
    UNION {MovesFrom(GetMove(game, reachStateList[k], player),
                     reachStateList[k] \ reachStateList[k - 1])
             : k \in 2 .. Len(reachStateList)}

(* Go from each layer of reachStateList into the one before it.            *)
LayerMoves ==
    UNION {MovesFrom(GetMove(game, reachStateList[k - 1], player),
                     reachStateList[k] \ reachStateList[k - 1])
             : k \in 2 .. Len(reachStateList)}

StrategyArgs ==
    IF isTargetReached
    THEN [player        |-> player,
          reverse       |-> quantifiers # opt,
          goal          |-> originalTarget,
          winningStates |-> allReachStates,
          trans         |-> LayerMoves \cup DeadlockMoves(player)]
    ELSE LET winStates == States \ allReachStates
         IN  [player        |-> opponent,
              reverse       |-> quantifiers = opt,
              goal          |-> {},
              winningStates |-> winStates,
              trans         |-> MovesFrom(GetMove(game, winStates, opponent), winStates)
                                    \cup DeadlockMoves(opponent)]

NoStrategy == [player |-> 0]

-----------------------------------------------------------------------------

Init == /\ game \in Games
        /\ prop \in Props
        /\ opt \in Quantifiers
        /\ pc = "begin"
        /\ allReachStates = {}
        /\ reachStateList = << >>
        /\ isTargetReached = FALSE
        /\ isFixedpointReached = FALSE
        /\ strategy = NoStrategy
        /\ status = "none"

Begin ==
    /\ pc = "begin"
    /\ pc' = "loop"
    /\ allReachStates' = originalTarget
    /\ reachStateList' = <<originalTarget>>
    /\ isTargetReached' = WinsAtInit(originalTarget)
    /\ isFixedpointReached' = SomeInitEmpty
    /\ UNCHANGED <<input, strategy, status>>

(* Faulty variant: the initial states are checked against the last layer.  *)
LateIterate ==
    /\ pc = "loop"
    /\ ~isFixedpointReached
    /\ ~isTargetReached
    /\ allReachStates' =
           allReachStates \cup StrongBackwardImage(game, allReachStates, player)
    /\ isFixedpointReached' = (allReachStates' = allReachStates)
    /\ isTargetReached' = (~isFixedpointReached' /\ WinsAtInit(allReachStates))
    /\ reachStateList' = Append(reachStateList, allReachStates')
    /\ UNCHANGED <<input, pc, strategy, status>>

Iterate ==
    /\ pc = "loop"
    /\ ~isFixedpointReached
    /\ ~isTargetReached
    /\ allReachStates' =
           allReachStates \cup StrongBackwardImage(game, allReachStates, player)
    /\ isFixedpointReached' = (allReachStates' = allReachStates)
    /\ isTargetReached' = (~isFixedpointReached' /\ WinsAtInit(allReachStates'))
    /\ reachStateList' = Append(reachStateList, allReachStates')
    /\ UNCHANGED <<input, pc, strategy, status>>

ComputeStrategy ==
    /\ pc = "loop"
    /\ isFixedpointReached \/ isTargetReached
    /\ pc' = "return"
    /\ strategy' = IF WantStrategy THEN StrategyArgs ELSE strategy
    /\ UNCHANGED <<input, allReachStates, reachStateList, isTargetReached,
                   isFixedpointReached, status>>

Return ==
    /\ pc = "return"
    /\ pc' = "done"
    /\ status' = IF isTargetReached <=> prop.type \notin AvoidTypes
                 THEN "realizable" ELSE "unrealizable"
    /\ UNCHANGED <<input, allReachStates, reachStateList, isTargetReached,
                   isFixedpointReached, strategy>>

Next == Begin \/ Iterate \/ ComputeStrategy \/ Return

Spec == Init /\ [][Next]_vars /\ WF_vars(Next)

-----------------------------------------------------------------------------
(* Properties.                                                             *)

Abs == INSTANCE Realizability WITH verdict <- status

(* A player's moves are half-moves for player 1 and rounds for player 2.   *)
MoveSpace(plr) == IF plr = 1 THEN States \X P1 ELSE States \X States

StrategyType(st) ==
    /\ st = [player        |-> st.player,
             reverse       |-> st.reverse,
             goal          |-> st.goal,
             winningStates |-> st.winningStates,
             trans         |-> st.trans]
    /\ st.player \in Players
    /\ st.reverse \in BOOLEAN
    /\ st.goal \in SUBSET States
    /\ st.winningStates \in SUBSET States
    /\ st.trans \in SUBSET MoveSpace(st.player)

TypeInvariant ==
    /\ game \in Games
    /\ prop \in Props
    /\ opt \in Quantifiers
    /\ pc \in {"begin", "loop", "return", "done"}
    /\ allReachStates \in SUBSET States
    /\ reachStateList \in Seq(SUBSET States)
    /\ isTargetReached \in BOOLEAN
    /\ isFixedpointReached \in BOOLEAN
    /\ strategy = NoStrategy \/ StrategyType(strategy)
    /\ status \in Verdicts \cup {"none"}

(* Whatever pass the loop is stopped at, every state it has collected is   *)
(* one from which the player does force the game into the target: stopping *)
(* early, at the pass where the initial states are won, is sound.          *)
ReachSound ==
    allReachStates \subseteq ReachRegion(game, originalTarget, player)

(* What the loop keeps true, and why leaving it decides the game: the      *)
(* states collected hold the target and are won, the flag is up to date    *)
(* with them, and a fixed point has nothing left to add, unless the loop   *)
(* was never entered because no initial state exists.                      *)
LoopInvariant ==
    /\ ReachSound
    /\ pc # "begin" =>
           /\ originalTarget \subseteq allReachStates
           /\ isTargetReached <=> WinsAtInit(allReachStates)
           /\ isFixedpointReached =>
                  \/ SomeInitEmpty
                  \/ CanForce(game, allReachStates, player) \subseteq allReachStates
    /\ pc \in {"begin", "loop", "return"} => status = "none"
    /\ pc \in {"return", "done"} => isTargetReached \/ isFixedpointReached
    /\ pc = "done" => status = IF isTargetReached <=> prop.type \notin AvoidTypes
                               THEN "realizable" ELSE "unrealizable"

(* The function answers once, and the answer is the one the game deserves  *)
(* for the player and the option the user named: playing an avoidance game *)
(* for the opponent with the exchanged option, leaving the loop early and  *)
(* skipping it for empty initial states never change the verdict.          *)
Implements == Abs!Spec

VerdictIsRight == status # "none" => status = RightVerdict(game, prop, opt)

(* The states of each layer and the moves handed to the strategy fit: the  *)
(* owner of the strategy has a move in every winning state it may meet and *)
(* every answer of the opponent stays in the winning states, at a strictly *)
(* smaller distance from the target when the target was reached.           *)
Distance(s) == CHOOSE k \in 1 .. Len(reachStateList) :
                  /\ s \in reachStateList[k]
                  /\ \A j \in 1 .. k - 1 : s \notin reachStateList[j]

GoodNext(s, t) ==
    /\ t \in strategy.winningStates
    /\ isTargetReached => Distance(t) < Distance(s)

StrategyMovesWin ==
    strategy # NoStrategy /\ ~SomeInitEmpty =>
        \A s \in (strategy.winningStates \cap Invar(game)) \ strategy.goal :
            IF strategy.player = 1
            THEN /\ \E q1 \in P1 : <<s, q1>> \in strategy.trans
                 /\ \A q1 \in P1 : <<s, q1>> \in strategy.trans =>
                        /\ q1 \in Moves1(game, s)
                        /\ \A q2 \in Moves2(game, s, q1) : GoodNext(s, <<q1, q2>>)
            ELSE \A q1 \in Moves1(game, s) :
                    \E q2 \in Moves2(game, s, q1) :
                        /\ <<s, <<q1, q2>>>> \in strategy.trans
                        /\ GoodNext(s, <<q1, q2>>)
=============================================================================
