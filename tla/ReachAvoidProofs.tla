-------------------------- MODULE ReachAvoidProofs --------------------------
(***************************************************************************)
(* Theorems about the reachability algorithm, the strategy it constructs   *)
(* and the plays in which it is followed, for every set of games, of       *)
(* specifications and every size of the players' domains.                  *)
(***************************************************************************)
EXTENDS StrategyPlay, GameMeaningProofs

-----------------------------------------------------------------------------
(* The regions of reaching and avoiding, and their duality.                *)

(* A specification has a kind, a player and a set of states.               *)
LEMMA PropParts ==
    ASSUME NEW p \in Props
    PROVE  /\ p.type \in PropTypes
           /\ p.player \in {1, 2}
           /\ p.expr \subseteq States
  BY PropsAssumption DEF PropType, Players

LEMMA RegionContainsTarget ==
    ASSUME NEW g, NEW T, T \subseteq States, NEW plr
    PROVE  T \subseteq ReachRegion(g, T, plr)
  BY DEF ReachRegion, Closed

LEMMA RegionIsLeast ==
    ASSUME NEW g, NEW T, NEW plr, NEW V \in SUBSET States, Closed(g, T, plr, V)
    PROVE  ReachRegion(g, T, plr) \subseteq V
  BY DEF ReachRegion

LEMMA RegionIsClosed ==
    ASSUME NEW g \in Games, NEW T, NEW plr
    PROVE  CanForce(g, ReachRegion(g, T, plr), plr) \subseteq ReachRegion(g, T, plr)
<1>. DEFINE R == ReachRegion(g, T, plr)
<1>1. CanForce(g, R, plr) \subseteq States
  BY ForceInvar, InvarStates
<1>2. ASSUME NEW V \in SUBSET States, Closed(g, T, plr, V)
      PROVE  CanForce(g, R, plr) \subseteq V
  <2>1. R \subseteq V
    BY <1>2, RegionIsLeast
  <2>2. CanForce(g, R, plr) \subseteq CanForce(g, V, plr)
    BY <2>1, ForceMonotone
  <2>. QED  BY <1>2, <2>2 DEF Closed
<1>. QED  BY <1>1, <1>2 DEF ReachRegion

(* A set that holds the target, lies in the region and has nothing left to *)
(* add is the region: this is what a fixed point of the loop gives.        *)
LEMMA FixedPointIsRegion ==
    ASSUME NEW g \in Games, NEW T, NEW plr, NEW V \in SUBSET States,
           T \subseteq V, V \subseteq ReachRegion(g, T, plr),
           CanForce(g, V, plr) \subseteq V
    PROVE  V = ReachRegion(g, T, plr)
  BY RegionIsLeast DEF Closed

LEMMA RegionInvar ==
    ASSUME NEW g \in Games, NEW T, T \subseteq Invar(g), NEW plr
    PROVE  ReachRegion(g, T, plr) \subseteq Invar(g)
  BY InvarStates, ForceInvar, RegionIsLeast DEF Closed

(* The games are determined: a player keeps the game out of the target for *)
(* ever from exactly those legal states from which the opponent cannot     *)
(* bring it there.  Solving an avoidance game for the opponent rests on it.*)
THEOREM Determinacy ==
    ASSUME NEW g \in Games, NEW T, T \subseteq Invar(g), NEW plr \in Players
    PROVE  AvoidRegion(g, T, plr)
               = Invar(g) \ ReachRegion(g, T, Opponent(plr))
<1>. DEFINE opp == Opponent(plr)
            R   == ReachRegion(g, T, opp)
<1>0. /\ opp \in Players
      /\ Opponent(opp) = plr
      /\ Invar(g) \subseteq States
  BY InvarStates DEF Players, Opponent
<1>1. ASSUME NEW s \in AvoidRegion(g, T, plr)
      PROVE  s \in Invar(g) \ R
  <2>1. PICK V \in SUBSET (Invar(g) \ T) : s \in V /\ V \subseteq CanForce(g, V, plr)
    BY <1>1 DEF AvoidRegion
  <2>. DEFINE C == Invar(g) \ V
  <2>2. Closed(g, T, opp, C)
    <3>1. T \subseteq C
      BY <2>1
    <3>2. CanForce(g, V, plr) = Invar(g) \ CanForce(g, C, opp)
      BY ForceDuality
    <3>3. CanForce(g, C, opp) \subseteq C
      BY <2>1, <3>2, ForceInvar
    <3>. QED  BY <3>1, <3>3 DEF Closed
  <2>3. R \subseteq C
    BY <1>0, <2>2, RegionIsLeast
  <2>. QED  BY <2>1, <2>3
<1>2. ASSUME NEW s \in Invar(g) \ R
      PROVE  s \in AvoidRegion(g, T, plr)
  <2>. DEFINE V == Invar(g) \ R
  <2>1. V \subseteq Invar(g) \ T
    BY <1>0, RegionContainsTarget
  <2>2. V \subseteq CanForce(g, V, plr)
    <3>1. CanForce(g, V, plr) = Invar(g) \ CanForce(g, Invar(g) \ V, opp)
      <4>. HIDE DEF V
      <4>. QED  BY ForceDuality
    <3>2. Invar(g) \ V \subseteq R
      OBVIOUS
    <3>3. CanForce(g, Invar(g) \ V, opp) \subseteq R
      <4>1. CanForce(g, Invar(g) \ V, opp) \subseteq CanForce(g, R, opp)
        BY <3>2, ForceMonotone
      <4>2. CanForce(g, R, opp) \subseteq R
        BY RegionIsClosed
      <4>. QED  BY <4>1, <4>2
    <3>. QED  BY <3>1, <3>3
  <2>. QED  BY <1>0, <1>2, <2>1, <2>2 DEF AvoidRegion
<1>. QED  BY <1>1, <1>2

-----------------------------------------------------------------------------
(* Types.                                                                  *)

(* The player the algorithm plays for and its opponent are the two players.*)
LEMMA PlayerType ==
    ASSUME prop \in Props
    PROVE  /\ player \in Players
           /\ opponent \in Players
  BY PropParts DEF player, opponent, Opponent, Players

LEMMA TargetType ==
    ASSUME game \in Games, prop \in Props
    PROVE  /\ originalTarget \subseteq States
           /\ originalTarget \subseteq Invar(game)
  BY PropParts, InvarStates DEF originalTarget, Target

(* The moves handed to a strategy are half-moves or rounds, by its owner.  *)
LEMMA Move1Type ==
    ASSUME NEW g \in Games, NEW to
    PROVE  Move1(g, to) \subseteq States \X P1
  BY InvarStates DEF Move1, WithSuccessor2, HalfRounds

LEMMA Move2Type ==
    ASSUME NEW g \in Games, NEW to
    PROVE  Move2(g, to) \subseteq States \X States
  BY InvarStates DEF Move2

LEMMA GetMoveType ==
    ASSUME NEW g \in Games, NEW to, NEW plr
    PROVE  GetMove(g, to, plr) \subseteq MoveSpace(plr)
  BY Move1Type, Move2Type DEF GetMove, MoveSpace

LEMMA DeadlockMovesType ==
    ASSUME game \in Games, NEW plr
    PROVE  DeadlockMoves(plr) \subseteq MoveSpace(plr)
  BY InvarStates DEF DeadlockMoves, MoveSpace, WithoutSuccessor2, HalfRounds

LEMMA LayerMovesType ==
    ASSUME game \in Games
    PROVE  LayerMoves \subseteq MoveSpace(player)
  BY GetMoveType DEF LayerMoves, MovesFrom

LEMMA StrategyArgsType ==
    ASSUME game \in Games, prop \in Props, allReachStates \subseteq States
    PROVE  StrategyType(StrategyArgs)
<1>1. CASE isTargetReached
  BY <1>1, PlayerType, TargetType, LayerMovesType, DeadlockMovesType
     DEF StrategyArgs, StrategyType
<1>2. CASE ~isTargetReached
  <2>1. MovesFrom(GetMove(game, States \ allReachStates, opponent), States \ allReachStates)
            \subseteq MoveSpace(opponent)
    BY GetMoveType DEF MovesFrom
  <2>. QED  BY <1>2, <2>1, PlayerType, DeadlockMovesType DEF StrategyArgs, StrategyType
<1>. QED  BY <1>1, <1>2

-----------------------------------------------------------------------------

LEMMA TypeInvariantInit == Init => TypeInvariant
<1>1. << >> \in Seq(SUBSET States)
  OBVIOUS
<1>. QED  BY <1>1 DEF Init, TypeInvariant, Verdicts

LEMMA TypeInvariantStep == TypeInvariant /\ [Next]_vars => TypeInvariant'
<1>. SUFFICES ASSUME TypeInvariant, [Next]_vars
              PROVE  TypeInvariant'
  OBVIOUS
<1>. USE DEF TypeInvariant, input
<1>1. CASE Begin
  <2>1. WinsAtInit(originalTarget) \in BOOLEAN /\ SomeInitEmpty \in BOOLEAN
    BY DEF WinsAtInit, CanPlayerSatisfy, SomeInitEmpty
  <2>. QED  BY <1>1, <2>1, TargetType DEF Begin
<1>2. CASE Iterate
  <2>1. allReachStates' \subseteq States
    BY <1>2, InvarStates DEF Iterate, StrongBackwardImage
  <2>. QED  BY <1>2, <2>1 DEF Iterate
<1>3. CASE ComputeStrategy
  BY <1>3, StrategyArgsType DEF ComputeStrategy
<1>4. CASE Return
  BY <1>4 DEF Return, Verdicts
<1>5. CASE UNCHANGED vars
  BY <1>5 DEF vars
<1>. QED  BY <1>1, <1>2, <1>3, <1>4, <1>5 DEF Next

(* The function keeps its types: in particular it returns one of the two   *)
(* verdicts and never the third, "unknown", that the caller has a case for.*)
THEOREM TypeCorrect == Spec => []TypeInvariant
  BY TypeInvariantInit, TypeInvariantStep, PTL DEF Spec

-----------------------------------------------------------------------------
(* The loop invariant.                                                     *)

LEMMA QuantifiersType ==
    ASSUME opt \in Quantifiers
    PROVE  quantifiers \in Quantifiers
  BY DEF quantifiers, Dual, Quantifiers

(* What is tested for the initial states is what the option means.         *)
LEMMA WinsAtInitMeaning ==
    ASSUME game \in Games, prop \in Props, opt \in Quantifiers, NEW V
    PROVE  WinsAtInit(V) <=> StartsIn(game, V, player, quantifiers)
  BY PlayerType, QuantifiersType, SatisfyIsStart DEF WinsAtInit

(* One more pass keeps every collected state in the region.                *)
LEMMA PassSound ==
    ASSUME game \in Games, prop \in Props, ReachSound
    PROVE  allReachStates \cup StrongBackwardImage(game, allReachStates, player)
               \subseteq ReachRegion(game, originalTarget, player)
<1>. DEFINE R == ReachRegion(game, originalTarget, player)
<1>1. StrongBackwardImage(game, allReachStates, player)
          = CanForce(game, allReachStates, player)
  BY PlayerType, ImageIsForce
<1>2. CanForce(game, allReachStates, player) \subseteq CanForce(game, R, player)
  BY ForceMonotone DEF ReachSound
<1>3. CanForce(game, R, player) \subseteq R
  BY RegionIsClosed
<1>. QED  BY <1>1, <1>2, <1>3 DEF ReachSound

LEMMA LoopInvariantInit == Init => LoopInvariant
  BY DEF Init, LoopInvariant, ReachSound

LEMMA LoopInvariantStep ==
    TypeInvariant /\ LoopInvariant /\ [Next]_vars => LoopInvariant'
<1>. SUFFICES ASSUME TypeInvariant, LoopInvariant, [Next]_vars
              PROVE  LoopInvariant'
  OBVIOUS
<1>0. game \in Games /\ prop \in Props /\ opt \in Quantifiers
  BY DEF TypeInvariant
<1>1. /\ UNCHANGED input
      /\ player' = player /\ quantifiers' = quantifiers
      /\ originalTarget' = originalTarget /\ SomeInitEmpty' = SomeInitEmpty
  BY DEF Next, Begin, Iterate, ComputeStrategy, Return, vars, input, player,
         quantifiers, originalTarget, SomeInitEmpty
<1>2. CASE Begin
  <2>1. ReachSound'
    BY <1>0, <1>1, <1>2, TargetType, RegionContainsTarget DEF Begin, ReachSound, input
  <2>2. isTargetReached' <=> WinsAtInit(allReachStates)'
    BY <1>1, <1>2 DEF Begin, WinsAtInit, input
  <2>. QED  BY <1>1, <1>2, <2>1, <2>2 DEF Begin, LoopInvariant
<1>3. CASE Iterate
  <2>1. ReachSound'
    BY <1>0, <1>1, <1>3, PassSound DEF Iterate, ReachSound, LoopInvariant, input
  <2>2. originalTarget' \subseteq allReachStates'
    BY <1>1, <1>3 DEF Iterate, LoopInvariant
  <2>3. isTargetReached' <=> WinsAtInit(allReachStates')
    BY <1>3 DEF Iterate, LoopInvariant
  <2>4. WinsAtInit(allReachStates)' <=> WinsAtInit(allReachStates')
    BY <1>1 DEF WinsAtInit, input
  <2>5. isFixedpointReached' =>
            CanForce(game, allReachStates', player) \subseteq allReachStates'
    BY <1>0, <1>3, PlayerType, ImageIsForce DEF Iterate
  <2>6. isFixedpointReached' =>
            CanForce(game, allReachStates, player)' \subseteq allReachStates'
    BY <1>1, <2>5 DEF input
  <2>. QED  BY <1>3, <2>1, <2>2, <2>3, <2>4, <2>6 DEF Iterate, LoopInvariant
<1>4. CASE ComputeStrategy
  <2>1. WinsAtInit(allReachStates)' <=> WinsAtInit(allReachStates)
    BY <1>1, <1>4 DEF ComputeStrategy, WinsAtInit, input
  <2>. QED  BY <1>1, <1>4, <2>1 DEF ComputeStrategy, LoopInvariant, ReachSound, input
<1>5. CASE Return
  <2>1. WinsAtInit(allReachStates)' <=> WinsAtInit(allReachStates)
    BY <1>1, <1>5 DEF Return, WinsAtInit, input
  <2>. QED  BY <1>1, <1>5, <2>1 DEF Return, LoopInvariant, ReachSound, input
<1>6. CASE UNCHANGED vars
  <2>1. WinsAtInit(allReachStates)' <=> WinsAtInit(allReachStates)
    BY <1>1, <1>6 DEF vars, WinsAtInit, input
  <2>. QED  BY <1>1, <1>6, <2>1 DEF vars, LoopInvariant, ReachSound, input
<1>. QED  BY <1>2, <1>3, <1>4, <1>5, <1>6 DEF Next

THEOREM LoopCorrect == Spec => []LoopInvariant
  BY LoopInvariantInit, LoopInvariantStep, TypeCorrect, PTL DEF Spec

(* At every pass the collected states are won, for games of every size.    *)
THEOREM ReachSoundness == Spec => []ReachSound
<1>1. LoopInvariant => ReachSound
  BY DEF LoopInvariant
<1>. QED  BY <1>1, LoopCorrect, PTL

-----------------------------------------------------------------------------
(* The verdict.                                                            *)

(* When the loop has been left, for whichever reason, the flag says who    *)
(* wins the reachability game that was played.                             *)
LEMMA LoopDecides ==
    ASSUME TypeInvariant, LoopInvariant, pc # "begin",
           isTargetReached \/ isFixedpointReached
    PROVE  isTargetReached <=>
               StartsIn(game, ReachRegion(game, originalTarget, player),
                        player, quantifiers)
<1>. DEFINE R == ReachRegion(game, originalTarget, player)
<1>0. /\ game \in Games /\ prop \in Props /\ opt \in Quantifiers
      /\ allReachStates \in SUBSET States
      /\ quantifiers \in Quantifiers
  BY QuantifiersType DEF TypeInvariant
<1>1. isTargetReached <=> StartsIn(game, allReachStates, player, quantifiers)
  BY <1>0, WinsAtInitMeaning DEF LoopInvariant
<1>2. allReachStates \subseteq R
  BY DEF LoopInvariant, ReachSound
<1>3. CASE isTargetReached
  BY <1>0, <1>1, <1>2, <1>3, StartMonotone
<1>4. CASE isFixedpointReached /\ SomeInitEmpty
  BY <1>0, <1>1, <1>4, StartEmpty DEF SomeInitEmpty
<1>5. CASE isFixedpointReached /\ ~SomeInitEmpty
  <2>1. allReachStates = R
    BY <1>0, <1>2, <1>5, FixedPointIsRegion DEF LoopInvariant
  <2>. QED  BY <1>1, <2>1
<1>. QED  BY <1>3, <1>4, <1>5

(* Inverting that answer for an avoidance game gives the verdict the game  *)
(* deserves for the player and the option the user named.                  *)
LEMMA VerdictFromFlag ==
    ASSUME game \in Games, prop \in Props, opt \in Quantifiers
    PROVE  StartsIn(game, Region(game, prop), prop.player, opt) <=>
               (StartsIn(game, ReachRegion(game, originalTarget, player),
                         player, quantifiers)
                    <=> prop.type \notin AvoidTypes)
<1>. DEFINE T == originalTarget
            R == ReachRegion(game, T, player)
<1>0. prop.player \in Players /\ T \subseteq Invar(game)
  BY PropParts, TargetType DEF Players
<1>1. CASE prop.type \notin AvoidTypes
  BY <1>1 DEF Region, player, quantifiers, originalTarget
<1>2. CASE prop.type \in AvoidTypes
  <2>1. /\ player = Opponent(prop.player)
        /\ quantifiers = Dual(opt)
        /\ Region(game, prop) = AvoidRegion(game, T, prop.player)
    BY <1>2 DEF player, quantifiers, Region, originalTarget
  <2>2. AvoidRegion(game, T, prop.player) = Invar(game) \ R
    BY <1>0, <2>1, Determinacy
  <2>3. Invar(game) \ (Invar(game) \ R) = R
    BY <1>0, RegionInvar
  <2>4. StartsIn(game, Invar(game) \ R, prop.player, opt)
            <=> ~StartsIn(game, R, player, quantifiers)
    <3>. HIDE DEF R
    <3>1. CASE opt = "N"
      <4>1. quantifiers = "N"
        BY <2>1, <3>1 DEF Dual
      <4>2. StartsIn(game, Invar(game) \ R, prop.player, "N")
                <=> ~StartsIn(game, R, Opponent(prop.player), "N")
        BY <1>0, <2>3, StartDuality
      <4>. QED  BY <2>1, <3>1, <4>1, <4>2
    <3>2. CASE opt = "A"
      <4>1. quantifiers = "E"
        BY <2>1, <3>2 DEF Dual
      <4>2. StartsIn(game, Invar(game) \ R, prop.player, "A")
                <=> ~StartsIn(game, R, Opponent(prop.player), "E")
        BY <1>0, <2>3, StartDuality
      <4>. QED  BY <2>1, <3>2, <4>1, <4>2
    <3>3. CASE opt = "E"
      <4>1. quantifiers = "A"
        BY <2>1, <3>3 DEF Dual
      <4>2. StartsIn(game, Invar(game) \ R, prop.player, "E")
                <=> ~StartsIn(game, R, Opponent(prop.player), "A")
        BY <1>0, <2>3, StartDuality
      <4>. QED  BY <2>1, <3>3, <4>1, <4>2
    <3>. QED  BY <3>1, <3>2, <3>3 DEF Quantifiers
  <2>. QED  BY <1>2, <2>1, <2>2, <2>4
<1>. QED  BY <1>1, <1>2

LEMMA VerdictFromInvariant ==
    TypeInvariant /\ LoopInvariant => VerdictIsRight
<1>. SUFFICES ASSUME TypeInvariant, LoopInvariant, status # "none"
              PROVE  status = RightVerdict(game, prop, opt)
  BY DEF VerdictIsRight
<1>1. pc = "done"
  BY DEF TypeInvariant, LoopInvariant
<1>2. status = IF isTargetReached <=> prop.type \notin AvoidTypes
               THEN "realizable" ELSE "unrealizable"
  BY <1>1 DEF LoopInvariant
<1>3. isTargetReached \/ isFixedpointReached
  BY <1>1 DEF LoopInvariant
<1>. QED  BY <1>1, <1>2, <1>3, LoopDecides, VerdictFromFlag
          DEF RightVerdict, TypeInvariant

(* The algorithm never gives a wrong answer: not for any game, player,     *)
(* kind of specification or initial-condition option.                      *)
THEOREM VerdictCorrect == Spec => []VerdictIsRight
  BY VerdictFromInvariant, TypeCorrect, LoopCorrect, PTL

(* The abstract machine reads the same definitions of the game.            *)
LEMMA SameMeaning ==
    /\ Abs!Quantifiers = Quantifiers
    /\ Abs!RightVerdict(game, prop, opt) = RightVerdict(game, prop, opt)
  BY DEF Quantifiers, RightVerdict, StartsIn, Region, Target, AvoidTypes, TargetTypes,
         AvoidRegion, ReachRegion, Closed, CanForce, Init1, Init2, Invar, Moves1,
         Moves2, States,
         Abs!Quantifiers, Abs!RightVerdict, Abs!StartsIn, Abs!Region, Abs!Target,
         Abs!AvoidTypes, Abs!TargetTypes, Abs!AvoidRegion, Abs!ReachRegion, Abs!Closed,
         Abs!CanForce, Abs!Init1, Abs!Init2, Abs!Invar, Abs!Moves1, Abs!Moves2,
         Abs!States

(* The safety part of the refinement that the model checker checks whole:  *)
(* the answer appears in one step, right, and everything else stutters.    *)
THEOREM Refines == Spec => Abs!Init /\ [][Abs!Decide]_(Abs!absVars)
<1>1. Init => Abs!Init
  BY SameMeaning DEF Init, Abs!Init
<1>2. TypeInvariant /\ LoopInvariant /\ VerdictIsRight' /\ [Next]_vars
          => [Abs!Decide]_(Abs!absVars)
  <2>. SUFFICES ASSUME TypeInvariant, LoopInvariant, VerdictIsRight', [Next]_vars
                PROVE  [Abs!Decide]_(Abs!absVars)
    OBVIOUS
  <2>1. CASE Return
    <3>1. status = "none" /\ status' # "none" /\ UNCHANGED input
      BY <2>1 DEF Return, LoopInvariant
    <3>2. status' = RightVerdict(game, prop, opt)
      BY <3>1 DEF VerdictIsRight, input
    <3>. QED  BY <3>1, <3>2, SameMeaning DEF Abs!Decide, input
  <2>2. CASE ~Return
    BY <2>2 DEF Next, Begin, Iterate, ComputeStrategy, vars, input, Abs!absVars
  <2>. QED  BY <2>1, <2>2
<1>. QED  BY <1>1, <1>2, TypeCorrect, LoopCorrect, VerdictCorrect, PTL DEF Spec

-----------------------------------------------------------------------------
(* The layers and the strategy.                                            *)

(* The list holds every state of allReachStates after each pass: it starts *)
(* with the target, ends with allReachStates, only grows, and what a pass  *)
(* adds can be forced into what was there before it.                       *)
LayersInvariant ==
    pc # "begin" =>
        /\ reachStateList \in Seq(SUBSET States)
        /\ Len(reachStateList) >= 1
        /\ reachStateList[1] = originalTarget
        /\ reachStateList[Len(reachStateList)] = allReachStates
        /\ \A i, j \in 1 .. Len(reachStateList) :
              i <= j => reachStateList[i] \subseteq reachStateList[j]
        /\ \A k \in 2 .. Len(reachStateList) :
              reachStateList[k] \ reachStateList[k - 1]
                  \subseteq CanForce(game, reachStateList[k - 1], player)
        /\ \A s \in allReachStates : \E k \in 1 .. Len(reachStateList) :
              /\ s \in reachStateList[k]
              /\ \A j \in 1 .. k - 1 : s \notin reachStateList[j]

(* The strategy is made of the sets the loop has been left with.           *)
StrategyInvariant ==
    strategy # NoStrategy =>
        pc \in {"return", "done"} /\ strategy = StrategyArgs

LEMMA LayersInvariantStep ==
    TypeInvariant /\ LayersInvariant /\ [Next]_vars => LayersInvariant'
<1>. SUFFICES ASSUME TypeInvariant, LayersInvariant, [Next]_vars
              PROVE  LayersInvariant'
  OBVIOUS
<1>0. game \in Games /\ prop \in Props /\ opt \in Quantifiers
  BY DEF TypeInvariant
<1>1. /\ UNCHANGED input
      /\ player' = player /\ originalTarget' = originalTarget
  BY DEF Next, Begin, Iterate, ComputeStrategy, Return, vars, input, player, originalTarget
<1>2. CASE Begin
  <2>1. reachStateList' = <<originalTarget>> /\ allReachStates' = originalTarget
    BY <1>2 DEF Begin
  <2>2. originalTarget \in SUBSET States
    BY <1>0, TargetType
  <2>3. /\ <<originalTarget>> \in Seq(SUBSET States)
        /\ Len(<<originalTarget>>) = 1
        /\ <<originalTarget>>[1] = originalTarget
    BY <2>2
  <2>. HIDE DEF originalTarget
  <2>. QED  BY <1>1, <2>1, <2>3 DEF LayersInvariant
<1>3. CASE Iterate
  <2>. DEFINE L == reachStateList
              n == Len(L)
              A == allReachStates
              B == allReachStates'
  <2>0. /\ L \in Seq(SUBSET States) /\ n \in Nat /\ n >= 1
        /\ L[1] = originalTarget /\ L[n] = A
        /\ \A i, j \in 1 .. n : i <= j => L[i] \subseteq L[j]
        /\ \A k \in 2 .. n : L[k] \ L[k - 1] \subseteq CanForce(game, L[k - 1], player)
        /\ \A s \in A : \E k \in 1 .. n :
              s \in L[k] /\ \A j \in 1 .. k - 1 : s \notin L[j]
    BY <1>3 DEF Iterate, LayersInvariant
  <2>1. B = A \cup CanForce(game, A, player)
    BY <1>0, <1>3, PlayerType, ImageIsForce DEF Iterate
  <2>2. B \in SUBSET States
    BY <1>0, <2>1, ForceInvar, InvarStates DEF TypeInvariant
  <2>3. reachStateList' = Append(L, B)
    BY <1>3 DEF Iterate
  <2>. DEFINE M == Append(L, B)
  <2>4. /\ M \in Seq(SUBSET States)
        /\ Len(M) = n + 1
        /\ M[n + 1] = B
        /\ \A k \in 1 .. n : M[k] = L[k]
    <3>. HIDE DEF B
    <3>. QED  BY <2>0, <2>2
  <2>. HIDE DEF L, A, B, M, n
  <2>5. \A i \in 1 .. n : L[i] \subseteq B
    BY <2>0, <2>1
  <2>6. \A i, j \in 1 .. n + 1 : i <= j => M[i] \subseteq M[j]
    <3>1. \A i, j \in 1 .. n + 1 : i <= j => j = n + 1 \/ (i \in 1 .. n /\ j \in 1 .. n)
      BY <2>0
    <3>2. \A i \in 1 .. n + 1 : i = n + 1 \/ i \in 1 .. n
      BY <2>0
    <3>. QED  BY <2>0, <2>4, <2>5, <3>1, <3>2
  <2>7. \A k \in 2 .. n + 1 : M[k] \ M[k - 1] \subseteq CanForce(game, M[k - 1], player)
    <3>. TAKE k \in 2 .. n + 1
    <3>1. CASE k = n + 1
      <4>1. M[k] = B /\ M[k - 1] = A
        BY <2>0, <2>4, <3>1
      <4>. QED  BY <2>1, <4>1
    <3>2. CASE k \in 2 .. n
      <4>1. k \in 1 .. n /\ k - 1 \in 1 .. n
        BY <2>0, <3>2
      <4>. QED  BY <2>0, <2>4, <3>2, <4>1
    <3>. QED  BY <2>0, <3>1, <3>2
  <2>8. \A s \in B : \E k \in 1 .. n + 1 : s \in M[k] /\ \A j \in 1 .. k - 1 : s \notin M[j]
    <3>. TAKE s \in B
    <3>1. CASE s \in A
      <4>1. PICK k \in 1 .. n : s \in L[k] /\ \A j \in 1 .. k - 1 : s \notin L[j]
        BY <2>0, <3>1
      <4>2. k \in 1 .. n + 1 /\ \A j \in 1 .. k - 1 : j \in 1 .. n
        BY <2>0
      <4>. QED  BY <2>4, <4>1, <4>2
    <3>2. CASE s \notin A
      <4>1. \A j \in 1 .. n : s \notin L[j]
        BY <2>0, <3>2
      <4>2. n + 1 \in 1 .. n + 1 /\ (n + 1) - 1 = n
        BY <2>0
      <4>. QED  BY <2>4, <4>1, <4>2
    <3>. QED  BY <3>1, <3>2
  <2>9. /\ reachStateList' = M /\ allReachStates' = B
        /\ game' = game
    BY <1>1, <2>3 DEF input, L, A, B, M
  <2>10. n + 1 >= 1 /\ M[1] = originalTarget
    BY <2>0, <2>4
  <2>. QED  BY <1>1, <2>4, <2>6, <2>7, <2>8, <2>9, <2>10 DEF LayersInvariant
<1>4. CASE ComputeStrategy \/ Return \/ UNCHANGED vars
  BY <1>1, <1>4 DEF ComputeStrategy, Return, vars, LayersInvariant, input
<1>. QED  BY <1>2, <1>3, <1>4 DEF Next

LEMMA StrategyInvariantStep ==
    TypeInvariant /\ StrategyInvariant /\ [Next]_vars => StrategyInvariant'
<1>. SUFFICES ASSUME TypeInvariant, StrategyInvariant, [Next]_vars, strategy' # NoStrategy
              PROVE  pc' \in {"return", "done"} /\ strategy' = StrategyArgs'
  BY DEF StrategyInvariant
<1>1. CASE Begin \/ Iterate
  BY <1>1 DEF Begin, Iterate, StrategyInvariant
<1>2. CASE ComputeStrategy \/ Return \/ UNCHANGED vars
  <2>0. UNCHANGED <<game, prop, opt, allReachStates, reachStateList, isTargetReached>>
    BY <1>2 DEF ComputeStrategy, Return, vars, input
  <2>1. StrategyArgs' = StrategyArgs
    <3>1. /\ player' = player /\ opponent' = opponent
          /\ quantifiers' = quantifiers /\ originalTarget' = originalTarget
      BY <2>0 DEF player, opponent, quantifiers, originalTarget
    <3>2. LayerMoves' = LayerMoves
      BY <2>0, <3>1 DEF LayerMoves
    <3>3. \A plr : DeadlockMoves(plr)' = DeadlockMoves(plr)
      BY <2>0 DEF DeadlockMoves
    <3>. QED  BY <2>0, <3>1, <3>2, <3>3 DEF StrategyArgs
  <2>2. strategy' = strategy \/ strategy' = StrategyArgs
    BY <1>2 DEF ComputeStrategy, Return, vars
  <2>3. strategy' = strategy => strategy = StrategyArgs /\ pc \in {"return", "done"}
    BY DEF StrategyInvariant
  <2>4. pc' \in {"return", "done"}
    BY <1>2, <2>3 DEF ComputeStrategy, Return, vars
  <2>. QED  BY <2>1, <2>2, <2>3, <2>4
<1>. QED  BY <1>1, <1>2 DEF Next

LEMMA StrategyInvariantsInit == Init => LayersInvariant /\ StrategyInvariant
  BY DEF Init, LayersInvariant, StrategyInvariant

(* The layer a state appears in first is its distance.                     *)
LEMMA DistanceIsFirst ==
    ASSUME NEW k \in 1 .. Len(reachStateList), Len(reachStateList) \in Nat, NEW s,
           s \in reachStateList[k],
           \A j \in 1 .. k - 1 : s \notin reachStateList[j]
    PROVE  Distance(s) = k
<1>. DEFINE n == Len(reachStateList)
            First(i) == /\ s \in reachStateList[i]
                        /\ \A j \in 1 .. i - 1 : s \notin reachStateList[j]
<1>1. Distance(s) = CHOOSE i \in 1 .. n : First(i)
  BY DEF Distance
<1>2. First(k)
  OBVIOUS
<1>3. ASSUME NEW i \in 1 .. n, First(i)
      PROVE  i = k
  <2>1. CASE i < k
    BY <1>3, <2>1, i \in 1 .. k - 1
  <2>2. CASE k < i
    BY <1>3, <2>2, k \in 1 .. i - 1
  <2>. QED  BY <2>1, <2>2
<1>. HIDE DEF First, n
<1>. QED  BY <1>1, <1>2, <1>3

(* A collected state outside the target was added by a pass k, from which  *)
(* the player forces the game into the states of an earlier pass.          *)
LEMMA LayerOf ==
    ASSUME TypeInvariant, LayersInvariant, pc # "begin",
           NEW s \in allReachStates, s \notin originalTarget
    PROVE  \E k \in 2 .. Len(reachStateList) :
              /\ s \in reachStateList[k] \ reachStateList[k - 1]
              /\ \A i \in 2 .. Len(reachStateList) :
                    s \in reachStateList[i] \ reachStateList[i - 1] => i = k
              /\ s \in CanForce(game, reachStateList[k - 1], player)
              /\ \A t \in reachStateList[k - 1] :
                    t \in allReachStates /\ Distance(t) < Distance(s)
<1>. DEFINE L == reachStateList
            n == Len(L)
<1>0. /\ L \in Seq(SUBSET States) /\ n \in Nat /\ n >= 1
      /\ L[1] = originalTarget /\ L[n] = allReachStates
      /\ \A i, j \in 1 .. n : i <= j => L[i] \subseteq L[j]
      /\ \A k \in 2 .. n : L[k] \ L[k - 1] \subseteq CanForce(game, L[k - 1], player)
      /\ \A t \in allReachStates : \E k \in 1 .. n :
            t \in L[k] /\ \A j \in 1 .. k - 1 : t \notin L[j]
  BY DEF LayersInvariant
<1>1. \A k \in 1 .. n : \A t :
          t \in L[k] /\ (\A j \in 1 .. k - 1 : t \notin L[j]) => Distance(t) = k
  BY <1>0, DistanceIsFirst
<1>. HIDE DEF L
<1>2. PICK k \in 1 .. n : s \in L[k] /\ \A j \in 1 .. k - 1 : s \notin L[j]
  BY <1>0
<1>3. k \in 2 .. n /\ k - 1 \in 1 .. n /\ k - 1 \in 1 .. k - 1
  BY <1>0, <1>2
<1>4. s \in L[k] \ L[k - 1]
  BY <1>2, <1>3
<1>5. ASSUME NEW i \in 2 .. n, s \in L[i] \ L[i - 1]
      PROVE  i = k
  <2>1. CASE i < k
    BY <1>2, <1>5, <2>1, i \in 1 .. k - 1
  <2>2. CASE k < i
    <3>1. k <= i - 1 /\ i - 1 \in 1 .. n
      BY <1>0, <2>2
    <3>. QED  BY <1>0, <1>2, <1>5, <3>1
  <2>. QED  BY <2>1, <2>2
<1>6. ASSUME NEW t \in L[k - 1]
      PROVE  t \in allReachStates /\ Distance(t) < Distance(s)
  <2>1. t \in allReachStates
    BY <1>0, <1>3, <1>6, n \in 1 .. n, k - 1 <= n
  <2>2. PICK j \in 1 .. n : t \in L[j] /\ \A i \in 1 .. j - 1 : t \notin L[i]
    BY <1>0, <2>1
  <2>3. j <= k - 1
    <3>1. CASE k - 1 < j
      BY <1>0, <1>3, <1>6, <2>2, <3>1, k - 1 \in 1 .. j - 1
    <3>. QED  BY <1>3, <3>1
  <2>4. Distance(t) = j /\ Distance(s) = k
    BY <1>1, <1>2, <2>2
  <2>. QED  BY <1>3, <2>1, <2>3, <2>4
<1>. QED  BY <1>0, <1>3, <1>4, <1>5, <1>6 DEF L

(* What the moves of a strategy are: legal ones, into a set the owner      *)
(* wanted to be in, or leaving player 2 stuck.                             *)
LEMMA Move1Means ==
    ASSUME game \in Games, NEW to, NEW s \in Invar(game), NEW q1
    PROVE  <<s, q1>> \in Move1(game, to) \cup DeadlockMoves(1) <=>
               /\ q1 \in Moves1(game, s)
               /\ \A q2 \in Moves2(game, s, q1) :
                     /\ <<q1, q2>> \in to
                     /\ <<s, q1>> \notin DeadlockMoves(1)
<1>1. <<s, q1>> \in HalfRounds(game) <=> q1 \in Moves1(game, s)
  BY GameParts DEF HalfRounds, Moves1
<1>2. <<s, q1>> \in DeadlockMoves(1) <=>
          q1 \in Moves1(game, s) /\ Moves2(game, s, q1) = {}
  BY <1>1 DEF DeadlockMoves, WithoutSuccessor2, WithSuccessor2
<1>3. <<s, q1>> \in Move1(game, to) <=>
          /\ q1 \in Moves1(game, s) /\ Moves2(game, s, q1) # {}
          /\ \A q2 \in Moves2(game, s, q1) : <<q1, q2>> \in to
  BY <1>1 DEF Move1, WithSuccessor2, Answerable
<1>. QED  BY <1>2, <1>3

LEMMA Move2Means ==
    ASSUME game \in Games, NEW to, NEW s \in Invar(game),
           NEW q1 \in Moves1(game, s), NEW q2 \in Moves2(game, s, q1), <<q1, q2>> \in to
    PROVE  <<s, <<q1, q2>>>> \in Move2(game, to)
  BY RoundInvar DEF Move2, Moves1, Moves2

(* The sets handed to the strategy of the player that reaches the target.  *)
LEMMA ReacherMovesWin ==
    ASSUME TypeInvariant, LayersInvariant, StrategyInvariant, strategy # NoStrategy,
           isTargetReached
    PROVE  StrategyMovesWin
<1>. DEFINE L == reachStateList
            A == allReachStates
<1>0. /\ game \in Games /\ prop \in Props /\ player \in {1, 2}
      /\ pc # "begin"
      /\ strategy.player = player /\ strategy.goal = originalTarget
      /\ strategy.winningStates = A
      /\ strategy.trans = LayerMoves \cup DeadlockMoves(player)
  BY PlayerType DEF TypeInvariant, StrategyInvariant, StrategyArgs, Players
<1>. SUFFICES ASSUME NEW s \in (A \cap Invar(game)) \ originalTarget
              PROVE  IF player = 1
                     THEN /\ \E q1 \in P1 : <<s, q1>> \in strategy.trans
                          /\ \A q1 \in P1 : <<s, q1>> \in strategy.trans =>
                                /\ q1 \in Moves1(game, s)
                                /\ \A q2 \in Moves2(game, s, q1) : GoodNext(s, <<q1, q2>>)
                     ELSE \A q1 \in Moves1(game, s) :
                            \E q2 \in Moves2(game, s, q1) :
                                /\ <<s, <<q1, q2>>>> \in strategy.trans
                                /\ GoodNext(s, <<q1, q2>>)
  BY <1>0 DEF StrategyMovesWin
<1>1. PICK k \in 2 .. Len(L) :
          /\ s \in L[k] \ L[k - 1]
          /\ \A i \in 2 .. Len(L) : s \in L[i] \ L[i - 1] => i = k
          /\ s \in CanForce(game, L[k - 1], player)
          /\ \A t \in L[k - 1] : t \in A /\ Distance(t) < Distance(s)
  BY <1>0, LayerOf
<1>. DEFINE to == L[k - 1]
<1>2. \A t \in to : GoodNext(s, t)
  BY <1>0, <1>1 DEF GoodNext
<1>3. \A m : m[1] = s => (m \in LayerMoves <=> m \in GetMove(game, to, player))
  BY <1>1 DEF LayerMoves, MovesFrom
<1>force. s \in CanForce(game, to, player)
  BY <1>1
<1>. HIDE DEF to, L
<1>4. CASE player = 1
  <2>1. \A q1 : <<s, q1>> \in strategy.trans <=>
                    <<s, q1>> \in Move1(game, to) \cup DeadlockMoves(1)
    BY <1>0, <1>3, <1>4 DEF GetMove
  <2>2. PICK q1 \in Moves1(game, s) : \A q2 \in Moves2(game, s, q1) : <<q1, q2>> \in to
    BY <1>force, <1>4 DEF CanForce
  <2>3. \A q2 \in Moves2(game, s, q1) : <<s, q1>> \notin DeadlockMoves(1)
    BY <1>0 DEF DeadlockMoves, WithoutSuccessor2, WithSuccessor2
  <2>4. <<s, q1>> \in strategy.trans /\ q1 \in P1
    BY <1>0, <2>1, <2>2, <2>3, Move1Means, GameParts DEF Moves1
  <2>5. \A p1 : <<s, p1>> \in strategy.trans =>
            /\ p1 \in Moves1(game, s)
            /\ \A q2 \in Moves2(game, s, p1) : <<p1, q2>> \in to
    BY <1>0, <2>1, Move1Means
  <2>. QED  BY <1>2, <1>4, <2>4, <2>5
<1>5. CASE player = 2
  <2>1. ASSUME NEW q1 \in Moves1(game, s)
        PROVE  \E q2 \in Moves2(game, s, q1) :
                  <<s, <<q1, q2>>>> \in strategy.trans /\ GoodNext(s, <<q1, q2>>)
    <3>1. PICK q2 \in Moves2(game, s, q1) : <<q1, q2>> \in to
      BY <1>force, <1>5 DEF CanForce
    <3>2. <<s, <<q1, q2>>>> \in GetMove(game, to, player)
      BY <1>0, <1>5, <3>1, Move2Means DEF GetMove
    <3>3. <<s, <<q1, q2>>>> \in LayerMoves
      BY <1>3, <3>2
    <3>. QED  BY <1>0, <1>2, <3>1, <3>3
  <2>. QED  BY <1>5, <2>1
<1>. QED  BY <1>0, <1>4, <1>5

(* The sets handed to the strategy of the player that avoids it.           *)
LEMMA AvoiderMovesWin ==
    ASSUME TypeInvariant, LoopInvariant, StrategyInvariant, strategy # NoStrategy,
           ~isTargetReached
    PROVE  StrategyMovesWin
<1>. DEFINE W == States \ allReachStates
<1>0. /\ game \in Games /\ prop \in Props /\ player \in Players /\ opponent \in {1, 2}
      /\ strategy.player = opponent /\ strategy.goal = {}
      /\ strategy.winningStates = W
      /\ strategy.trans = MovesFrom(GetMove(game, W, opponent), W) \cup DeadlockMoves(opponent)
      /\ opponent = Opponent(player)
  <2>1. game \in Games /\ prop \in Props /\ player \in Players /\ opponent \in {1, 2}
    BY PlayerType DEF TypeInvariant, Players
  <2>2. strategy = StrategyArgs
    BY DEF StrategyInvariant
  <2>. QED  BY <2>1, <2>2 DEF StrategyArgs, opponent
<1>. SUFFICES ASSUME ~SomeInitEmpty, NEW s \in W \cap Invar(game)
              PROVE  IF opponent = 1
                     THEN /\ \E q1 \in P1 : <<s, q1>> \in strategy.trans
                          /\ \A q1 \in P1 : <<s, q1>> \in strategy.trans =>
                                /\ q1 \in Moves1(game, s)
                                /\ \A q2 \in Moves2(game, s, q1) : GoodNext(s, <<q1, q2>>)
                     ELSE \A q1 \in Moves1(game, s) :
                            \E q2 \in Moves2(game, s, q1) :
                                /\ <<s, <<q1, q2>>>> \in strategy.trans
                                /\ GoodNext(s, <<q1, q2>>)
  BY <1>0 DEF StrategyMovesWin
<1>1. CanForce(game, allReachStates, player) \subseteq allReachStates
  BY DEF LoopInvariant, StrategyInvariant
<1>2. s \in CanForce(game, W, opponent)
  <2>1. CanForce(game, allReachStates, player)
            = Invar(game) \ CanForce(game, Invar(game) \ allReachStates, opponent)
    <3>1. game \in Games /\ player \in Players /\ opponent = Opponent(player)
      BY <1>0
    <3>2. \A plr \in Players : CanForce(game, allReachStates, plr)
              = Invar(game) \ CanForce(game, Invar(game) \ allReachStates, Opponent(plr))
      BY <3>1, ForceDuality
    <3>. QED  BY <3>1, <3>2
  <2>2. CanForce(game, Invar(game) \ allReachStates, opponent)
            \subseteq CanForce(game, W, opponent)
    BY <1>0, InvarStates, ForceMonotone
  <2>. QED  BY <1>1, <2>1, <2>2
<1>3. \A t \in W : GoodNext(s, t)
  BY <1>0 DEF GoodNext
<1>. HIDE DEF W
<1>4. \A m : m[1] = s =>
          (m \in strategy.trans <=> m \in GetMove(game, W, opponent) \cup DeadlockMoves(opponent))
  BY <1>0 DEF MovesFrom
<1>5. CASE opponent = 1
  <2>1. \A q1 : <<s, q1>> \in strategy.trans <=>
                    <<s, q1>> \in Move1(game, W) \cup DeadlockMoves(1)
    BY <1>4, <1>5 DEF GetMove
  <2>2. PICK q1 \in Moves1(game, s) : \A q2 \in Moves2(game, s, q1) : <<q1, q2>> \in W
    BY <1>2, <1>5 DEF CanForce
  <2>3. \A q2 \in Moves2(game, s, q1) : <<s, q1>> \notin DeadlockMoves(1)
    BY <1>0 DEF DeadlockMoves, WithoutSuccessor2, WithSuccessor2
  <2>4. <<s, q1>> \in strategy.trans /\ q1 \in P1
    BY <1>0, <2>1, <2>2, <2>3, Move1Means, GameParts DEF Moves1
  <2>5. \A p1 : <<s, p1>> \in strategy.trans =>
            /\ p1 \in Moves1(game, s)
            /\ \A q2 \in Moves2(game, s, p1) : <<p1, q2>> \in W
    BY <1>0, <2>1, Move1Means
  <2>. QED  BY <1>3, <1>5, <2>4, <2>5
<1>6. CASE opponent = 2
  <2>1. ASSUME NEW q1 \in Moves1(game, s)
        PROVE  \E q2 \in Moves2(game, s, q1) :
                  <<s, <<q1, q2>>>> \in strategy.trans /\ GoodNext(s, <<q1, q2>>)
    <3>1. PICK q2 \in Moves2(game, s, q1) : <<q1, q2>> \in W
      BY <1>2, <1>6 DEF CanForce
    <3>2. <<s, <<q1, q2>>>> \in GetMove(game, W, opponent)
      BY <1>0, <1>6, <3>1, Move2Means DEF GetMove
    <3>. QED  BY <1>3, <1>4, <3>1, <3>2
  <2>. QED  BY <1>6, <2>1
<1>. QED  BY <1>0, <1>5, <1>6

(* Everything above, whether or not the function is sure to go on.         *)
LEMMA AlgorithmInvariants ==
    Init /\ [][Next]_vars
        => [](/\ TypeInvariant /\ LoopInvariant /\ LayersInvariant /\ StrategyInvariant
              /\ StrategyMovesWin)
<1>1. TypeInvariant /\ LoopInvariant /\ LayersInvariant /\ StrategyInvariant
          => StrategyMovesWin
  <2>1. strategy = NoStrategy => StrategyMovesWin
    BY DEF StrategyMovesWin
  <2>. QED  BY <2>1, ReacherMovesWin, AvoiderMovesWin
<1>. QED  BY <1>1, TypeInvariantInit, TypeInvariantStep, LoopInvariantInit, LoopInvariantStep,
             StrategyInvariantsInit, LayersInvariantStep, StrategyInvariantStep, PTL

(* In every winning state it can be in, the owner of the strategy has a    *)
(* move, and whatever the opponent answers the game stays among the        *)
(* winning states, strictly closer to the target if the target is reached: *)
(* the layers and the moves that the function hands over fit together.     *)
THEOREM MovesWin == Spec => []StrategyMovesWin
  BY AlgorithmInvariants, PTL DEF Spec

-----------------------------------------------------------------------------
(* The play.                                                               *)

(* The theory of plays, for the strategy this algorithm hands over.        *)
PP == INSTANCE PlayProofs WITH
        args     <- strategy,
        target   <- originalTarget,
        finisher <- player,
        modes    <- {0},
        links    <- [kl \in {<<0, 0>>} |-> MoveSpace(strategy.player)]

LEMMA PlayAssumptions == PP!GamesAssumption /\ PP!ValuationsAssumption
  BY GamesAssumption, ValuationsAssumption
     DEF PP!GamesAssumption, PP!ValuationsAssumption, PP!GameType, GameType,
         PP!States, States

(* It reads the definitions of the game that the algorithm reads.          *)
LEMMA PlayDefinitions ==
    /\ PP!Quantifiers = Quantifiers /\ PP!Players = Players /\ PP!States = States
    /\ PP!Invar(game) = Invar(game)
    /\ PP!Init1(game) = Init1(game) /\ PP!Init2(game) = Init2(game)
    /\ \A s : PP!Moves1(game, s) = Moves1(game, s)
    /\ \A s, q1 : PP!Moves2(game, s, q1) = Moves2(game, s, q1)
    /\ PP!WithoutSuccessor2(game) = WithoutSuccessor2(game)
    /\ \A W, plr, q : PP!StartsIn(game, W, plr, q) = StartsIn(game, W, plr, q)
  BY DEF PP!Quantifiers, Quantifiers, PP!Players, Players, PP!States, States,
         PP!Invar, Invar, PP!Init1, Init1, PP!Init2, Init2, PP!Moves1, Moves1,
         PP!Moves2, Moves2, PP!WithoutSuccessor2, WithoutSuccessor2,
         PP!WithSuccessor2, WithSuccessor2, PP!HalfRounds, HalfRounds,
         PP!StartsIn, StartsIn

(* The steps of the composed specification are those of the theory.        *)
LEMMA SameGame ==
    /\ \A plr : S!Opponent(plr) = PP!Opponent(plr)
    /\ S!States = PP!States
    /\ S!Invar(game) = PP!Invar(game)
    /\ S!Init1(game) = PP!Init1(game) /\ S!Init2(game) = PP!Init2(game)
    /\ \A s : S!Moves1(game, s) = PP!Moves1(game, s)
    /\ \A s, q1 : S!Moves2(game, s, q1) = PP!Moves2(game, s, q1)
    /\ S!WithoutSuccessor1(game) = PP!WithoutSuccessor1(game)
    /\ S!WithoutSuccessor2(game) = PP!WithoutSuccessor2(game)
    /\ \A W : S!WeakForwardImage(game, W) = PP!WeakForwardImage(game, W)
  BY DEF S!Opponent, PP!Opponent, S!States, PP!States, S!Invar, PP!Invar, S!Init1,
    PP!Init1, S!Init2, PP!Init2, S!Moves1, PP!Moves1, S!Moves2, PP!Moves2,
    S!WithSuccessor1, PP!WithSuccessor1, S!WithoutSuccessor1, PP!WithoutSuccessor1,
    S!HalfRounds, PP!HalfRounds, S!WithSuccessor2, PP!WithSuccessor2,
    S!WithoutSuccessor2, PP!WithoutSuccessor2, S!WeakForwardImage,
    PP!WeakForwardImage

LEMMA SameConstruction ==
    /\ S!NothingBuilt = PP!NothingBuilt /\ S!Role = PP!Role /\ S!Inits = PP!Inits
    /\ \A W : S!OneCube(W) = PP!OneCube(W)
    /\ \A p1 : S!Completions(p1) = PP!Completions(p1)
    /\ S!StuckInits1 = PP!StuckInits1 /\ S!WinningInits1 = PP!WinningInits1
    /\ S!WinningInits = PP!WinningInits /\ S!DeadInits = PP!DeadInits
    /\ S!Successors = PP!Successors /\ S!Parts1 = PP!Parts1 /\ S!Parts2 = PP!Parts2
    /\ S!InitSection = PP!InitSection /\ S!TransSection = PP!TransSection
    /\ \A g, d, m : S!InitParts(g, d, m) = PP!InitParts(g, d, m)
  BY SameGame
     DEF S!NothingBuilt, PP!NothingBuilt, S!Role, PP!Role, S!Inits, PP!Inits,
         S!OneCube, PP!OneCube, S!Completions, PP!Completions, S!StuckInits1,
         PP!StuckInits1, S!WinningInits1, PP!WinningInits1, S!WinningInits,
         PP!WinningInits, S!DeadInits, PP!DeadInits, S!Successors, PP!Successors,
         S!Parts1, PP!Parts1, S!Parts2, PP!Parts2, S!InitSection, PP!InitSection,
         S!TransSection, PP!TransSection, S!InitParts, PP!InitParts

LEMMA PlaySteps ==
    /\ S!PlayInit <=> PP!PlayInit
    /\ S!PlayNext => PP!PlayNext
    /\ S!Construct \/ S!Grow \/ S!Finish => PP!Construct \/ PP!Grow \/ PP!Finish
<1>1. S!Construct => PP!Construct
  BY SameGame, SameConstruction
     DEF S!Construct, PP!Construct, S!ConstructNormal1, PP!ConstructNormal1,
         S!ConstructNormal2, PP!ConstructNormal2, S!ConstructUniversal,
         PP!ConstructUniversal, S!ConstructExistential, PP!ConstructExistential
<1>2. (S!Grow => PP!Grow) /\ (S!Finish => PP!Finish)
  BY SameConstruction DEF S!Grow, PP!Grow, S!Finish, PP!Finish
<1>3. /\ S!owner = PP!owner
      /\ \A p1 : S!MayStart1(p1) <=> PP!MayStart1(p1)
      /\ \A p1, p2 : S!MayStart2(p1, p2) <=> PP!MayStart2(p1, p2)
      /\ \A q1, k : S!MayMove1(q1, k) <=> PP!MayMove1(q1, k)
      /\ \A q2, k : S!MayMove2(q2, k) <=> PP!MayMove2(q2, k)
  BY SameConstruction
     DEF S!owner, PP!owner, S!MayStart1, PP!MayStart1, S!MayStart2, PP!MayStart2,
         S!MayMove1, PP!MayMove1, S!MayMove2, PP!MayMove2
<1>4. /\ \A s : S!Arrive(s) <=> PP!Arrive(s)
      /\ \A plr : S!Stuck(plr) <=> PP!Stuck(plr)
  BY SameGame DEF S!Arrive, PP!Arrive, S!Stuck, PP!Stuck, S!NoHalf, PP!NoHalf
<1>5. S!StartWhole => PP!StartWhole
  BY SameGame, SameConstruction, <1>3, <1>4 DEF S!StartWhole, PP!StartWhole
<1>6. S!Start1 => PP!Start1
  BY SameGame, SameConstruction, <1>3, <1>4 DEF S!Start1, PP!Start1
<1>7. S!Start2 => PP!Start2
  BY SameGame, SameConstruction, <1>3, <1>4 DEF S!Start2, PP!Start2
<1>8. S!Play1 => PP!Play1
  BY SameGame, SameConstruction, <1>3, <1>4 DEF S!Play1, PP!Play1
<1>9. S!Play2 => PP!Play2
  BY SameGame, SameConstruction, <1>3, <1>4 DEF S!Play2, PP!Play2
<1>10. S!PlayInit <=> PP!PlayInit
  BY DEF S!PlayInit, PP!PlayInit, S!NoState, PP!NoState, S!NoHalf, PP!NoHalf
<1>. QED  BY <1>1, <1>2, <1>5, <1>6, <1>7, <1>8, <1>9, <1>10 DEF S!PlayNext, PP!PlayNext

(* The option as the construction reads it, for either owner.              *)
LEMMA RoleMeaning ==
    ASSUME prop \in Props, opt \in Quantifiers, strategy = StrategyArgs
    PROVE  PP!Role = IF isTargetReached THEN quantifiers ELSE Dual(quantifiers)
<1>1. strategy.reverse = IF isTargetReached THEN quantifiers # opt ELSE quantifiers = opt
  BY DEF StrategyArgs
<1>2. quantifiers = opt \/ quantifiers = Dual(opt)
  BY DEF quantifiers
<1>3. opt \in {"N", "A", "E"}
  BY DEF Quantifiers
<1>. QED  BY <1>1, <1>2, <1>3 DEF PP!Role, Dual

(* Whoever wins has the game start among the winning states.               *)
LEMMA StrategyStarts ==
    ASSUME TypeInvariant, LoopInvariant, StrategyInvariant, strategy # NoStrategy
    PROVE  StartsIn(game, strategy.winningStates, strategy.player, PP!Role)
<1>1. /\ game \in Games /\ prop \in Props /\ opt \in Quantifiers
      /\ quantifiers \in Quantifiers /\ player \in Players
      /\ strategy = StrategyArgs /\ pc # "begin"
  BY PlayerType, QuantifiersType DEF TypeInvariant, StrategyInvariant
<1>2. isTargetReached <=> StartsIn(game, allReachStates, player, quantifiers)
  BY <1>1, WinsAtInitMeaning DEF LoopInvariant
<1>3. PP!Role = IF isTargetReached THEN quantifiers ELSE Dual(quantifiers)
  BY <1>1, RoleMeaning
<1>4. CASE isTargetReached
  <2>1. strategy.winningStates = allReachStates /\ strategy.player = player
    BY <1>1, <1>4 DEF StrategyArgs
  <2>. QED  BY <1>2, <1>3, <1>4, <2>1
<1>5. CASE ~isTargetReached
  <2>1. strategy.winningStates = States \ allReachStates /\ strategy.player = Opponent(player)
    BY <1>1, <1>5 DEF StrategyArgs, opponent
  <2>2. StartsIn(game, Invar(game) \ allReachStates, Opponent(player), Dual(quantifiers))
    <3>1. quantifiers \in {"N", "A", "E"}
      BY <1>1 DEF Quantifiers
    <3>2. \A plr \in Players :
            /\ StartsIn(game, allReachStates, plr, "N")
                   <=> ~StartsIn(game, Invar(game) \ allReachStates, Opponent(plr), "N")
            /\ StartsIn(game, allReachStates, plr, "A")
                   <=> ~StartsIn(game, Invar(game) \ allReachStates, Opponent(plr), "E")
            /\ StartsIn(game, allReachStates, plr, "E")
                   <=> ~StartsIn(game, Invar(game) \ allReachStates, Opponent(plr), "A")
      BY StartDuality
    <3>3. /\ quantifiers = "N" => Dual(quantifiers) = "N"
          /\ quantifiers = "A" => Dual(quantifiers) = "E"
          /\ quantifiers = "E" => Dual(quantifiers) = "A"
      BY DEF Dual
    <3>. QED  BY <1>1, <1>2, <1>5, <3>1, <3>2, <3>3
  <2>3. Invar(game) \ allReachStates \subseteq States \ allReachStates
    BY <1>1, InvarStates
  <2>4. Dual(quantifiers) \in Quantifiers
    BY <1>1 DEF Quantifiers, Dual
  <2>5. StartsIn(game, States \ allReachStates, Opponent(player), Dual(quantifiers))
    BY <2>2, <2>3, <2>4, StartMonotone
  <2>. QED  BY <1>3, <1>5, <2>1, <2>5
<1>. QED  BY <1>4, <1>5

LEMMA ArgsAreGood ==
    ASSUME TypeInvariant, LoopInvariant, StrategyInvariant, strategy # NoStrategy
    PROVE  PP!ArgsGood
<1>1. /\ game \in Games /\ prop \in Props /\ opt \in Quantifiers
      /\ strategy = StrategyArgs /\ StrategyType(strategy)
      /\ originalTarget \subseteq allReachStates
  BY DEF TypeInvariant, StrategyInvariant, LoopInvariant
<1>2. PP!owner = strategy.player /\ PP!winning = strategy.winningStates
  BY DEF PP!owner, PP!winning
<1>3. PP!StartsIn(game, PP!winning, PP!owner, PP!Role)
  BY <1>2, StrategyStarts, PlayDefinitions
<1>4. /\ strategy.goal \subseteq PP!winning \cap originalTarget
      /\ PP!winning \cap originalTarget \subseteq strategy.goal
      /\ PP!winning \cap originalTarget # {} => player = PP!owner
  <2>1. CASE isTargetReached
    BY <1>1, <1>2, <2>1 DEF StrategyArgs
  <2>2. CASE ~isTargetReached
    BY <1>1, <1>2, <2>2 DEF StrategyArgs
  <2>. QED  BY <2>1, <2>2
<1>5. strategy.player \in Players /\ strategy.reverse \in BOOLEAN
  BY <1>1 DEF StrategyType
<1>. QED  BY <1>1, <1>2, <1>3, <1>4, <1>5, PlayDefinitions DEF PP!ArgsGood

(* The rounds of player 2 lead into the states it wins from.               *)
LEMMA RoundsStay ==
    ASSUME TypeInvariant, LayersInvariant, StrategyInvariant, strategy # NoStrategy,
           strategy.player = 2, NEW m \in strategy.trans
    PROVE  m[2] \in strategy.winningStates
<1>1. strategy = StrategyArgs /\ pc # "begin"
  BY DEF StrategyInvariant
<1>2. \A to : \A r \in GetMove(game, to, 2) : r[2] \in to
  BY DEF GetMove, Move2
<1>3. DeadlockMoves(2) = {}
  BY DEF DeadlockMoves
<1>4. CASE isTargetReached
  <2>1. /\ strategy.winningStates = allReachStates
        /\ player = 2 /\ m \in LayerMoves
    BY <1>1, <1>3, <1>4 DEF StrategyArgs
  <2>2. PICK k \in 2 .. Len(reachStateList) : m \in GetMove(game, reachStateList[k - 1], 2)
    BY <2>1 DEF LayerMoves, MovesFrom
  <2>. DEFINE L == reachStateList
              n == Len(L)
  <2>3. /\ n \in Nat /\ n >= 1 /\ L[n] = allReachStates
        /\ \A i, j \in 1 .. n : i <= j => L[i] \subseteq L[j]
    BY <1>1 DEF LayersInvariant
  <2>4. k - 1 \in 1 .. n /\ n \in 1 .. n /\ k - 1 <= n
    BY <2>2, <2>3
  <2>5. L[k - 1] \subseteq allReachStates
    BY <2>3, <2>4
  <2>. QED  BY <1>2, <2>1, <2>2, <2>5
<1>5. CASE ~isTargetReached
  <2>1. /\ strategy.winningStates = States \ allReachStates /\ opponent = 2
        /\ strategy.trans = MovesFrom(GetMove(game, States \ allReachStates, opponent),
                                      States \ allReachStates) \cup DeadlockMoves(opponent)
    BY <1>1, <1>5 DEF StrategyArgs
  <2>. QED  BY <1>2, <1>3, <2>1 DEF MovesFrom
<1>. QED  BY <1>4, <1>5

LEMMA MovesAreGood ==
    ASSUME TypeInvariant, LoopInvariant, LayersInvariant, StrategyInvariant,
           StrategyMovesWin, strategy # NoStrategy
    PROVE  PP!MovesGood
<1>. SUFFICES ASSUME PP!Inits # {}
              PROVE  IF PP!owner = 1 THEN PP!MovesGood1 ELSE PP!MovesGood2
  BY DEF PP!MovesGood
<1>1. ~SomeInitEmpty
  BY PlayDefinitions DEF PP!Inits, SomeInitEmpty
<1>2. /\ PP!owner = strategy.player /\ PP!winning = strategy.winningStates
      /\ strategy.player \in {1, 2}
      /\ strategy.trans \subseteq MoveSpace(strategy.player)
      /\ strategy.goal \subseteq originalTarget
  BY ArgsAreGood DEF PP!owner, PP!winning, PP!ArgsGood, TypeInvariant, StrategyType, Players
<1>. DEFINE links == [kl \in {<<0, 0>>} |-> MoveSpace(strategy.player)]
<1>3. links[<<0, 0>>] = MoveSpace(strategy.player)
  OBVIOUS
<1>4. \A s \in (PP!winning \cap PP!Invar(game)) \ originalTarget :
          s \in (strategy.winningStates \cap Invar(game)) \ strategy.goal
  BY <1>2, PlayDefinitions
<1>. HIDE DEF links
<1>5. CASE strategy.player = 1
  <2>. SUFFICES ASSUME NEW s \in (PP!winning \cap PP!Invar(game)) \ originalTarget
                PROVE  /\ \E q1 \in Moves1(game, s) :
                             <<s, q1>> \in strategy.trans /\ <<s, q1>> \in links[<<0, 0>>]
                       /\ \A q1 \in Moves1(game, s) : <<s, q1>> \in strategy.trans =>
                             \A q2 \in Moves2(game, s, q1) :
                                 <<q1, q2>> \in strategy.winningStates
    BY <1>2, <1>5, PlayDefinitions DEF PP!MovesGood1, links
  <2>1. /\ \E q1 \in P1 : <<s, q1>> \in strategy.trans
        /\ \A q1 \in P1 : <<s, q1>> \in strategy.trans =>
              /\ q1 \in Moves1(game, s)
              /\ \A q2 \in Moves2(game, s, q1) : GoodNext(s, <<q1, q2>>)
    BY <1>1, <1>4, <1>5 DEF StrategyMovesWin
  <2>2. Moves1(game, s) \subseteq P1
    BY GameParts DEF TypeInvariant, Moves1
  <2>. QED  BY <1>2, <1>3, <2>1, <2>2 DEF GoodNext
<1>6. CASE strategy.player = 2
  <2>1. \A m \in strategy.trans : m[2] \in strategy.winningStates
    BY <1>6, RoundsStay
  <2>2. ASSUME NEW s \in (PP!winning \cap PP!Invar(game)) \ originalTarget,
               NEW q1 \in Moves1(game, s)
        PROVE  \E q2 \in Moves2(game, s, q1) :
                  <<s, <<q1, q2>>>> \in strategy.trans \cap links[<<0, 0>>]
    <3>1. \E q2 \in Moves2(game, s, q1) : <<s, <<q1, q2>>>> \in strategy.trans
      BY <1>1, <1>4, <1>6, <2>2 DEF StrategyMovesWin
    <3>. QED  BY <1>2, <1>3, <3>1
  <2>. QED  BY <1>2, <1>6, <2>1, <2>2, PlayDefinitions DEF PP!MovesGood2, links
<1>. QED  BY <1>2, <1>5, <1>6

(* What the algorithm, the construction and the play keep true together.   *)
AlgorithmInv ==
    /\ TypeInvariant /\ LoopInvariant /\ LayersInvariant /\ StrategyInvariant
    /\ StrategyMovesWin

PlaysInv ==
    /\ stage \in {"idle", "grow", "built"}
    /\ stage = "idle" => turn = "start1" /\ winner = 0
    /\ stage # "idle" =>
          /\ pc = "done" /\ strategy # NoStrategy
          /\ PP!StartInv /\ PP!BuiltInv /\ PP!PlayInv

LEMMA PlaysInvStep ==
    AlgorithmInv /\ PlaysInv /\ [ComposedNext]_allVars => PlaysInv'
<1>. SUFFICES ASSUME AlgorithmInv, PlaysInv, [ComposedNext]_allVars
              PROVE  PlaysInv'
  OBVIOUS
<1>1. strategy # NoStrategy => PP!ArgsGood /\ PP!MovesGood
  BY ArgsAreGood, MovesAreGood DEF AlgorithmInv
<1>2. CASE AlgorithmNext
  <2>1. pc # "done" /\ UNCHANGED <<stage, playVars>>
    BY <1>2 DEF AlgorithmNext, Next, Begin, Iterate, ComputeStrategy, Return
  <2>. QED  BY <2>1 DEF PlaysInv, playVars
<1>3. ASSUME UNCHANGED vars
      PROVE  UNCHANGED PP!callers /\ UNCHANGED <<pc, strategy>>
  BY <1>3 DEF PP!callers, vars, originalTarget, player
<1>4. CASE pc = "done" /\ ConstructNext
  <2>1. /\ strategy # NoStrategy
        /\ PP!Construct \/ PP!Grow \/ PP!Finish
        /\ UNCHANGED <<vars, playVars>>
    BY <1>4, PlaySteps DEF ConstructNext
  <2>2. UNCHANGED <<PP!callers, PP!playVars>> /\ UNCHANGED <<pc, strategy>>
    BY <1>3, <2>1 DEF PP!playVars, playVars
  <2>3. PP!StartInv /\ PP!PlayInv /\ stage' \in {"grow", "built"}
    <3>1. CASE stage = "idle"
      <4>1. PP!Construct
        BY <2>1, <3>1 DEF PP!Grow, PP!Finish
      <4>. QED  BY <3>1, <4>1 DEF PP!Construct, PP!StartInv, PP!PlayInv, PlaysInv
    <3>2. CASE stage # "idle"
      BY <2>1, <3>2 DEF PP!Construct, PP!Grow, PP!Finish, PlaysInv
    <3>. QED  BY <3>1, <3>2
  <2>4. PP!StartInv' /\ PP!BuiltInv' /\ PP!PlayInv'
    BY <1>1, <2>1, <2>2, <2>3, PP!ConstructSafe, PlayAssumptions
  <2>. QED  BY <1>4, <2>1, <2>2, <2>3, <2>4 DEF PlaysInv
<1>5. CASE stage = "built" /\ PlayNext
  <2>1. PP!PlayNext /\ UNCHANGED <<vars, stage, reachable, built>>
    BY <1>5, PlaySteps DEF PlayNext
  <2>2. UNCHANGED PP!given /\ UNCHANGED <<pc, strategy, stage>>
    BY <1>3, <2>1 DEF PP!given
  <2>3. PP!StartInv /\ PP!BuiltInv /\ PP!PlayInv /\ strategy # NoStrategy /\ pc = "done"
    BY <1>5 DEF PlaysInv
  <2>4. PP!PlayInv'
    BY <1>1, <1>5, <2>1, <2>2, <2>3, PP!PlaySafe, PlayAssumptions
  <2>5. PP!StartInv' /\ PP!BuiltInv'
    BY <2>2, <2>3, PP!GivenKeep, PlayAssumptions
  <2>. QED  BY <1>5, <2>2, <2>3, <2>4, <2>5 DEF PlaysInv
<1>6. CASE UNCHANGED allVars
  <2>1. UNCHANGED <<PP!given, PP!playVars>> /\ UNCHANGED <<pc, strategy, stage, turn, winner>>
    BY <1>3, <1>6 DEF allVars, PP!given, PP!playVars, playVars
  <2>2. CASE stage = "idle"
    BY <2>1, <2>2 DEF PlaysInv
  <2>3. CASE stage # "idle"
    <3>1. PP!StartInv /\ PP!BuiltInv /\ PP!PlayInv
      BY <2>3 DEF PlaysInv
    <3>2. PP!StartInv' /\ PP!BuiltInv' /\ PP!PlayInv'
      BY <2>1, <3>1, PP!StutterSafe, PlayAssumptions
    <3>. QED  BY <2>1, <2>3, <3>2 DEF PlaysInv
  <2>. QED  BY <2>2, <2>3
<1>. QED  BY <1>2, <1>4, <1>5, <1>6 DEF ComposedNext

LEMMA ComposedInvariants == ComposedSpec => [](AlgorithmInv /\ PlaysInv)
<1>1. ComposedInit => Init /\ PlaysInv
  BY DEF ComposedInit, PlaysInv, S!PlayInit
<1>2. [ComposedNext]_allVars => [Next]_vars
  BY DEF ComposedNext, AlgorithmNext, ConstructNext, PlayNext, allVars, vars
<1>3. ComposedSpec => []AlgorithmInv
  BY <1>1, <1>2, AlgorithmInvariants, PTL DEF ComposedSpec, AlgorithmInv
<1>. QED  BY <1>1, <1>3, PlaysInvStep, PTL DEF ComposedSpec

(* The promise of a printed strategy, for every game, specification and    *)
(* option: whoever it was constructed for loses no play in which it is     *)
(* followed.  It is never stuck and, if it avoids, meets no target state;  *)
(* cutting the moves down to the reachable states loses nothing.           *)
THEOREM FollowerWins == ComposedSpec => []OwnerNeverLoses
<1>1. PlaysInv => OwnerNeverLoses
  BY DEF PlaysInv, OwnerNeverLoses, PP!PlayInv, PP!owner, S!owner
<1>. QED  BY <1>1, ComposedInvariants, PTL

(* Whenever the owner of the strategy is to move, the play is in a state   *)
(* that the construction computed as reachable.                            *)
THEOREM FollowerStays == ComposedSpec => []PlayStaysReachable
<1>1. AlgorithmInv /\ PlaysInv => PlayStaysReachable
  <2>. SUFFICES ASSUME AlgorithmInv, PlaysInv,
                       turn = (IF S!owner = 1 THEN "one" ELSE "two")
                PROVE  pos \in reachable
    BY DEF PlayStaysReachable
  <2>1. PP!PlayInv /\ PP!ArgsGood
    BY ArgsAreGood DEF PlaysInv, AlgorithmInv
  <2>2. S!owner = PP!owner /\ PP!owner \in {1, 2}
    BY <2>1, PlayDefinitions DEF S!owner, PP!owner, PP!ArgsGood, Players
  <2>. QED  BY <2>1, <2>2 DEF PP!PlayInv, PP!Home
<1>. QED  BY <1>1, ComposedInvariants, PTL
=============================================================================
