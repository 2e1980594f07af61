--------------------------- MODULE BuchiGameProofs ---------------------------
(***************************************************************************)
(* The Buchi algorithm is right, for every set of games, of specifications *)
(* and every size of the players' domains: its answer, and the states it   *)
(* ends with, are those of the nested fixed point of ReactivitySpecs for   *)
(* the assumption TRUE, in which no set starts from another one's value    *)
(* and every condition sees the same Z.  And whoever follows the strategy  *)
(* constructed from it is never stuck and never leaves the winning states. *)
(***************************************************************************)
EXTENDS BuchiPlay, GameMeaningProofs, WellFoundedInduction

(* A Buchi game has no assumption but TRUE.                                *)
OnlyTrue(sp) == \A i \in DOMAIN sp.assumptions : sp.assumptions[i] = States

(* Y is kept by whoever goes for the goal, or meets a condition of G in    *)
(* one round and is then in V.                                             *)
ClosedFor(g, plr, V, G, T) == (CanForce(g, V, plr) \cap G) \cup CanForce(g, T, plr) \subseteq T

(* The states the player meets the condition from and is then in V.        *)
Attracted(g, plr, V, G) ==
    {s \in States : \A T \in SUBSET Invar(g) : ClosedFor(g, plr, V, G, T) => s \in T}

(* A set the player can stay in and meet every condition again.            *)
IsWinning(g, sp, W) ==
    /\ W \subseteq Invar(g)
    /\ \A k \in DOMAIN sp.guarantees : W \subseteq Attracted(g, sp.player, W, sp.guarantees[k])

-----------------------------------------------------------------------------
(* The theory of the double fixed point.                                   *)

LEMMA SpecParts ==
    ASSUME NEW sp \in Specs
    PROVE  /\ sp.player \in Players
           /\ sp.assumptions \in Seq(SUBSET States) /\ Len(sp.assumptions) \in Nat \ {0}
           /\ sp.guarantees \in Seq(SUBSET States) /\ Len(sp.guarantees) \in Nat \ {0}
<1>1. sp \in SpecType
  BY SpecsAssumption
<1>2. \A q \in Seq(SUBSET States) \ {<< >>} : Len(q) \in Nat \ {0}
  OBVIOUS
<1>. QED  BY <1>1, <1>2 DEF SpecType, NonEmptySeq

LEMMA ForceInStates ==
    ASSUME NEW g \in Games, NEW V, NEW plr
    PROVE  CanForce(g, V, plr) \in SUBSET Invar(g) /\ CanForce(g, V, plr) \subseteq States
  BY ForceInvar, InvarStates

(* With TRUE for its only assumption the player cannot stay anywhere.      *)
LEMMA StayIsBase ==
    ASSUME NEW g \in Games, NEW plr, NEW base \in SUBSET Invar(g)
    PROVE  Stay(Images(g, plr), base, States) = base
<1>1. ASSUME NEW T \in SUBSET Invar(g)
      PROVE  Images(g, plr)[T] \ States = {}
  BY ForceInStates DEF Images
<1>2. DOMAIN Images(g, plr) = SUBSET Invar(g)
  BY DEF Images
<1>. QED  BY <1>1, <1>2 DEF Stay

LEMMA ServeIsAttracted ==
    ASSUME NEW g \in Games, NEW sp \in Specs, OnlyTrue(sp), NEW k \in DOMAIN sp.guarantees,
           NEW V \in SUBSET Invar(g)
    PROVE  Serve(Images(g, sp.player), sp.assumptions, sp.guarantees[k], V)
               = Attracted(g, sp.player, V, sp.guarantees[k])
<1>. DEFINE plr == sp.player
            pre == Images(g, plr)
            G   == sp.guarantees[k]
            Extend(T) == UNION {Stay(pre, (pre[V] \cap G) \cup pre[T], sp.assumptions[i])
                                   : i \in DOMAIN sp.assumptions}
            base(T) == (CanForce(g, V, plr) \cap G) \cup CanForce(g, T, plr)
<1>1. /\ DOMAIN pre = SUBSET Invar(g)
      /\ \A T \in SUBSET Invar(g) : pre[T] = CanForce(g, T, plr)
  BY DEF Images
<1>2. 1 \in DOMAIN sp.assumptions /\ \A i \in DOMAIN sp.assumptions : sp.assumptions[i] = States
  BY SpecParts DEF OnlyTrue
<1>3. ASSUME NEW T \in SUBSET Invar(g)
      PROVE  Extend(T) = base(T)
  <2>1. base(T) \in SUBSET Invar(g)
    BY ForceInvar
  <2>2. Stay(pre, base(T), States) = base(T)
    <3>. HIDE DEF base, plr
    <3>. QED  BY <2>1, StayIsBase
  <2>3. (pre[V] \cap G) \cup pre[T] = base(T)
    BY <1>1
  <2>4. \A i \in DOMAIN sp.assumptions :
            Stay(pre, (pre[V] \cap G) \cup pre[T], sp.assumptions[i]) = base(T)
    <3>. HIDE DEF base, pre
    <3>. QED  BY <1>2, <2>2, <2>3
  <2>. QED
    <3>. HIDE DEF base, pre
    <3>. QED  BY <1>2, <2>4
<1>4. Serve(pre, sp.assumptions, G, V)
          = {s \in States : \A T \in {T \in DOMAIN pre : Extend(T) \subseteq T} : s \in T}
  BY DEF Serve
<1>. QED
  <2>. HIDE DEF Extend, pre
  <2>1. \A T \in SUBSET Invar(g) : Extend(T) \subseteq T <=> ClosedFor(g, plr, V, G, T)
    BY <1>3 DEF ClosedFor
  <2>2. Serve(pre, sp.assumptions, G, V) = Attracted(g, plr, V, G)
    BY <1>1, <1>4, <2>1 DEF Attracted
  <2>. QED  BY <2>2 DEF pre

(* A larger goal attracts more.                                            *)
LEMMA AttractedMonotone ==
    ASSUME NEW g, NEW plr, NEW G, NEW V, NEW T, V \subseteq T
    PROVE  Attracted(g, plr, V, G) \subseteq Attracted(g, plr, T, G)
<1>1. CanForce(g, V, plr) \subseteq CanForce(g, T, plr)
  BY ForceMonotone
<1>. QED  BY <1>1 DEF Attracted, ClosedFor

(* What is attracted in one more round is attracted.                       *)
LEMMA AttractedClosed ==
    ASSUME NEW g \in Games, NEW plr, NEW V, NEW G, NEW T, T \subseteq Attracted(g, plr, V, G)
    PROVE  (CanForce(g, V, plr) \cap G) \cup CanForce(g, T, plr) \subseteq Attracted(g, plr, V, G)
<1>1. ASSUME NEW U \in SUBSET Invar(g), ClosedFor(g, plr, V, G, U)
      PROVE  (CanForce(g, V, plr) \cap G) \cup CanForce(g, T, plr) \subseteq U
  <2>1. T \subseteq U
    BY <1>1 DEF Attracted
  <2>2. CanForce(g, T, plr) \subseteq CanForce(g, U, plr)
    BY <2>1, ForceMonotone
  <2>. QED  BY <1>1, <2>2 DEF ClosedFor
<1>2. (CanForce(g, V, plr) \cap G) \cup CanForce(g, T, plr) \subseteq States
  BY ForceInStates
<1>. QED  BY <1>1, <1>2 DEF Attracted

(* The states that are won are the greatest winning set: every winning set *)
(* is among them, and they are one themselves.                             *)
LEMMA WinningIsWon ==
    ASSUME NEW g \in Games, NEW sp \in Specs, OnlyTrue(sp), NEW W
    PROVE  /\ IsWinning(g, sp, W) => W \subseteq WinRegion(g, sp)
           /\ IsWinning(g, sp, WinRegion(g, sp))
<1>. DEFINE pre == Images(g, sp.player)
            All == {Z1 \in SUBSET Invar(g) : IsWinning(g, sp, Z1)}
<1>1. DOMAIN pre = SUBSET Invar(g)
  BY DEF Images
<1>2. \A Z1 \in SUBSET Invar(g) :
          (\A k \in DOMAIN sp.guarantees :
               Z1 \subseteq Serve(pre, sp.assumptions, sp.guarantees[k], Z1))
              <=> IsWinning(g, sp, Z1)
  BY ServeIsAttracted DEF IsWinning
<1>3. WinRegion(g, sp) = UNION All
  <2>1. WinRegion(g, sp) = UNION {Z1 \in DOMAIN pre : \A k \in DOMAIN sp.guarantees :
            Z1 \subseteq Serve(pre, sp.assumptions, sp.guarantees[k], Z1)}
    BY DEF WinRegion
  <2>2. {Z1 \in DOMAIN pre : \A k \in DOMAIN sp.guarantees :
            Z1 \subseteq Serve(pre, sp.assumptions, sp.guarantees[k], Z1)} = All
    <3>. HIDE DEF pre
    <3>. QED  BY <1>1, <1>2
  <2>. QED  BY <2>1, <2>2
<1>4. IsWinning(g, sp, W) => W \subseteq UNION All
  BY DEF IsWinning
<1>5. IsWinning(g, sp, UNION All)
  <2>1. ASSUME NEW Z1 \in All, NEW k \in DOMAIN sp.guarantees
        PROVE  Z1 \subseteq Attracted(g, sp.player, UNION All, sp.guarantees[k])
    <3>1. Z1 \subseteq UNION All
      OBVIOUS
    <3>2. Attracted(g, sp.player, Z1, sp.guarantees[k])
              \subseteq Attracted(g, sp.player, UNION All, sp.guarantees[k])
      BY <3>1, AttractedMonotone
    <3>. QED  BY <3>2 DEF IsWinning
  <2>. QED  BY <2>1 DEF IsWinning
<1>. QED  BY <1>3, <1>4, <1>5

-----------------------------------------------------------------------------
(* The inductive invariant.                                                *)

LEMMA PreIsForce ==
    ASSUME game \in Games, spec \in Specs, NEW V
    PROVE  Pre(V) = CanForce(game, V, player)
  BY SpecParts, ImageIsForce DEF Pre, player

InputsKept ==
    /\ game \in Games
    /\ spec \in Specs
    /\ opt \in Quantifiers

(* Without initial states the loops are not entered.                       *)
Skipped ==
    isSomeInitFalse =>
        /\ pc \in {"begin", "z", "done"}
        /\ pc = "z" => isZFixpointReached

(* Nothing can be forced into Z from outside, and no winning set is cut.   *)
ZHolds ==
    /\ Z \subseteq Invar(game)
    /\ CanForce(game, Z, player) \subseteq Z
    /\ \A W : IsWinning(game, spec, W) => W \subseteq Z

(* The conditions before j can be met from Z, with the Z the pass began    *)
(* with to be in afterwards.                                               *)
MetBefore(n) ==
    /\ Z \subseteq previousZ
    /\ \A k \in DOMAIN spec.guarantees :
           k < n => Z \subseteq Attracted(game, player, previousZ, spec.guarantees[k])

PassHolds ==
    /\ pc \in {"condition", "y"} => j \in DOMAIN spec.guarantees /\ MetBefore(j)
    /\ pc = "y" => Y \subseteq Z \cap Attracted(game, player, Z, spec.guarantees[j])
    /\ pc = "endZ" => MetBefore(Len(spec.guarantees) + 1)

(* What the flags say at the head of the loop on Z.                        *)
FlagsHold ==
    pc = "z" =>
        /\ isRealizable = WinsAtInit(Z)
        /\ isZFixpointReached /\ ~isSomeInitFalse => IsWinning(game, spec, Z)

IInv ==
    /\ InputsKept
    /\ Skipped
    /\ pc \notin {"begin", "done"} /\ ~isSomeInitFalse => ZHolds /\ PassHolds
    /\ FlagsHold
    /\ VerdictIsRight

LEMMA IInvInit == Init => IInv
  BY DEF Init, IInv, InputsKept, Skipped, FlagsHold, VerdictIsRight

(* Every set that can be won is legal, so that Z may start with all states *)
(* that are.                                                               *)
LEMMA StartHolds ==
    ASSUME NEW g \in Games, NEW sp \in Specs
    PROVE  /\ CanForce(g, Invar(g), sp.player) \subseteq Invar(g)
           /\ \A W : IsWinning(g, sp, W) => W \subseteq Invar(g)
  BY ForceInvar DEF IsWinning

(* A pass of the loop on Y stays in Z and adds what is attracted only.     *)
LEMMA PassStays ==
    ASSUME NEW g \in Games, NEW plr, NEW G, NEW V, NEW T,
           CanForce(g, V, plr) \subseteq V,
           T \subseteq V \cap Attracted(g, plr, V, G)
    PROVE  (CanForce(g, V, plr) \cap G) \cup CanForce(g, T, plr)
               \subseteq V \cap Attracted(g, plr, V, G)
<1>1. CanForce(g, T, plr) \subseteq CanForce(g, V, plr)
  BY ForceMonotone
<1>. QED  BY <1>1, AttractedClosed

(* A fixed point of the loop on Y cuts no winning set.                     *)
LEMMA FixedPointKeepsWinners ==
    ASSUME NEW g \in Games, NEW sp \in Specs, NEW k \in DOMAIN sp.guarantees,
           NEW V, NEW T \in SUBSET Invar(g), NEW W, IsWinning(g, sp, W), W \subseteq V,
           ClosedFor(g, sp.player, V, sp.guarantees[k], T)
    PROVE  W \subseteq T
<1>1. W \subseteq Attracted(g, sp.player, W, sp.guarantees[k])
  BY DEF IsWinning
<1>2. Attracted(g, sp.player, W, sp.guarantees[k])
          \subseteq Attracted(g, sp.player, V, sp.guarantees[k])
  BY AttractedMonotone
<1>. QED  BY <1>1, <1>2 DEF Attracted

LEMMA IInvStep ==
    ASSUME \A sp \in Specs : OnlyTrue(sp)
    PROVE  IInv /\ [Next]_vars => IInv'
<1>. SUFFICES ASSUME IInv, [Next]_vars PROVE IInv'
  OBVIOUS
<1>. DEFINE G == spec.guarantees
<1>0. /\ game \in Games /\ spec \in Specs /\ opt \in Quantifiers
      /\ game' = game /\ spec' = spec /\ opt' = opt /\ player' = player
  BY DEF IInv, InputsKept, Next, Begin, BeginZ, BeginCondition, IterateY, EndZ, Return,
         vars, input, player
<1>1. InputsKept' /\ OnlyTrue(spec) /\ isSomeInitFalse' = isSomeInitFalse
  BY <1>0 DEF InputsKept, isSomeInitFalse, Init1, Init2
<1>2. /\ Len(G) \in Nat \ {0} /\ DOMAIN G = 1 .. Len(G)
      /\ DOMAIN buchiConditions = DOMAIN G /\ Len(buchiConditions) = Len(G)
      /\ \A k \in DOMAIN G : buchiConditions[k] = G[k] \cap Invar(game)
      /\ player \in Players /\ player = spec.player
  <2>1. G \in Seq(SUBSET States) /\ Len(G) \in Nat \ {0}
    BY <1>0, SpecParts
  <2>2. DOMAIN G = 1 .. Len(G)
    BY <2>1
  <2>3. buchiConditions \in Seq(SUBSET Invar(game))
    BY <2>1, <2>2 DEF buchiConditions
  <2>4. DOMAIN buchiConditions = 1 .. Len(buchiConditions) /\ Len(buchiConditions) \in Nat
    BY <2>3
  <2>5. DOMAIN buchiConditions = DOMAIN G
    BY DEF buchiConditions
  <2>6. Len(buchiConditions) = Len(G)
    BY <2>1, <2>2, <2>4, <2>5
  <2>. QED  BY <1>0, <2>1, <2>2, <2>5, <2>6, SpecParts DEF buchiConditions, player
<1>3. \A k \in DOMAIN G : Pre(Z) \cap buchiConditions[k] = CanForce(game, Z, player) \cap G[k]
  BY <1>0, <1>2, PreIsForce, ForceInvar
<1>4. CASE Begin
  <2>1. /\ pc' = "z" /\ pc = "begin"
        /\ isZFixpointReached' = isSomeInitFalse
        /\ Z' = IF isSomeInitFalse THEN {} ELSE Invar(game)
        /\ isRealizable' = WinsAtInit(Z)'
    BY <1>0, <1>4 DEF Begin, WinsAtInit, player
  <2>2. ~isSomeInitFalse => ZHolds'
    BY <1>0, <1>2, <2>1, StartHolds DEF ZHolds
  <2>. QED  BY <1>1, <2>1, <2>2 DEF IInv, Skipped, PassHolds, FlagsHold, VerdictIsRight
<1>5. CASE BeginZ
  <2>1. /\ pc = "z" /\ ~isSomeInitFalse /\ pc' = "condition"
        /\ Z' = Z /\ previousZ' = Z /\ j' = 1
    BY <1>5 DEF BeginZ, IInv, Skipped
  <2>2. ZHolds'
    BY <1>0, <2>1 DEF IInv, ZHolds
  <2>3. PassHolds'
    BY <1>0, <1>2, <2>1 DEF PassHolds, MetBefore
  <2>. QED  BY <1>1, <2>1, <2>2, <2>3 DEF IInv, Skipped, FlagsHold, VerdictIsRight
<1>6. CASE BeginCondition
  <2>1. /\ pc = "condition" /\ ~isSomeInitFalse /\ pc' = "y"
        /\ Z' = Z /\ previousZ' = previousZ /\ j' = j
        /\ Y' = preImageZAndBuchi
    BY <1>6 DEF BeginCondition, IInv, Skipped, zVars
  <2>2. ZHolds /\ ZHolds' /\ j \in DOMAIN G /\ MetBefore(j) /\ MetBefore(j)'
    BY <1>0, <2>1 DEF IInv, ZHolds, PassHolds, MetBefore
  <2>3. Y' = CanForce(game, Z, player) \cap G[j]
    BY <1>3, <2>1, <2>2 DEF preImageZAndBuchi
  <2>4. CanForce(game, Z, player) \cap G[j]
            \subseteq Z \cap Attracted(game, player, Z, G[j])
    <3>1. CanForce(game, Z, player) \subseteq Z
      BY <2>2 DEF ZHolds
    <3>2. (CanForce(game, Z, player) \cap G[j]) \cup CanForce(game, {}, player)
              \subseteq Z \cap Attracted(game, player, Z, G[j])
      <4>1. {} \subseteq Z \cap Attracted(game, player, Z, G[j])
        OBVIOUS
      <4>. QED  BY <1>0, <3>1, <4>1, PassStays
    <3>. QED  BY <3>2
  <2>5. PassHolds'
    BY <1>0, <2>1, <2>2, <2>3, <2>4 DEF PassHolds
  <2>. QED  BY <1>1, <2>1, <2>2, <2>5 DEF IInv, Skipped, FlagsHold, VerdictIsRight
<1>7. CASE IterateY
  <2>. DEFINE next == (CanForce(game, Z, player) \cap G[j]) \cup CanForce(game, Y, player)
  <2>1. /\ pc = "y" /\ ~isSomeInitFalse /\ ZHolds /\ j \in DOMAIN G /\ MetBefore(j)
        /\ Y \subseteq Z \cap Attracted(game, player, Z, G[j])
    BY <1>7 DEF IterateY, IInv, Skipped, PassHolds
  <2>2. Pre(Y) \cup preImageZAndBuchi = next
    BY <1>0, <1>3, <2>1, PreIsForce DEF preImageZAndBuchi
  <2>3. /\ Y' = next /\ previousZ' = previousZ
        /\ next \in {Y, Z} =>
               /\ Z' = next
               /\ IF j < Len(G) THEN j' = j + 1 /\ pc' = "condition" ELSE pc' = "endZ"
        /\ next \notin {Y, Z} => pc' = pc /\ Z' = Z /\ j' = j
    <3>. HIDE DEF next
    <3>. QED  BY <1>2, <1>7, <2>2 DEF IterateY
  <2>4. next \subseteq Z \cap Attracted(game, player, Z, G[j])
    <3>1. CanForce(game, Z, player) \subseteq Z
      BY <2>1 DEF ZHolds
    <3>. QED  BY <1>0, <2>1, <3>1, PassStays
  <2>5. CASE next \notin {Y, Z}
    <3>1. ZHolds' /\ PassHolds'
      <4>. HIDE DEF next
      <4>. QED  BY <1>0, <2>1, <2>3, <2>4, <2>5 DEF ZHolds, PassHolds, MetBefore
    <3>. QED
      BY <1>1, <2>1, <2>3, <2>5, <3>1 DEF IInv, Skipped, FlagsHold, VerdictIsRight
  <2>6. CASE next \in {Y, Z}
    <3>1. /\ Z' = next /\ next \subseteq Invar(game)
          /\ IF j < Len(G) THEN j' = j + 1 /\ pc' = "condition" ELSE pc' = "endZ"
      <4>. HIDE DEF next
      <4>. QED  BY <2>1, <2>3, <2>4, <2>6 DEF ZHolds
    <3>2. CanForce(game, next, player) \subseteq next
      <4>1. CASE next = Z
        BY <2>1, <4>1 DEF ZHolds
      <4>2. CASE next = Y
        BY <4>2
      <4>. QED  BY <2>6, <4>1, <4>2
    <3>3. ASSUME NEW W, IsWinning(game, spec, W)
          PROVE  W \subseteq next
      <4>1. W \subseteq Z
        BY <2>1, <3>3 DEF ZHolds
      <4>2. CASE next = Y
        <5>1. ClosedFor(game, player, Z, G[j], next)
          BY <4>2 DEF ClosedFor
        <5>. QED
          <6>. HIDE DEF next
          <6>. QED
            BY <1>0, <1>2, <2>1, <3>1, <3>3, <4>1, <5>1, FixedPointKeepsWinners
      <4>. QED  BY <2>6, <4>1, <4>2
    <3>4. ZHolds'
      <4>. HIDE DEF next
      <4>. QED  BY <1>0, <3>1, <3>2, <3>3 DEF ZHolds
    <3>5. next \subseteq Z /\ Z \subseteq previousZ
      BY <2>1, <2>4 DEF MetBefore
    <3>6. ASSUME NEW k \in DOMAIN G, k < j + 1
          PROVE  next \subseteq Attracted(game, player, previousZ, G[k])
      <4>1. Attracted(game, player, Z, G[j]) \subseteq Attracted(game, player, previousZ, G[j])
        BY <3>5, AttractedMonotone
      <4>2. k < j \/ k = j
        BY <1>2, <2>1, <3>6
      <4>3. CASE k < j
        BY <2>1, <3>5, <4>3 DEF MetBefore
      <4>4. CASE k = j
        BY <2>4, <4>1, <4>4
      <4>. QED  BY <4>2, <4>3, <4>4
    <3>7. CASE j < Len(G)
      <4>1. j' = j + 1 /\ pc' = "condition" /\ j' \in DOMAIN G
        BY <1>2, <2>1, <3>1, <3>7
      <4>2. MetBefore(j)'
        <5>. HIDE DEF next
        <5>. QED  BY <1>0, <2>3, <3>1, <3>5, <3>6, <4>1 DEF MetBefore
      <4>. QED
        BY <1>0, <1>1, <2>1, <3>4, <4>1, <4>2
        DEF IInv, Skipped, FlagsHold, VerdictIsRight, PassHolds
    <3>8. CASE ~(j < Len(G))
      <4>1. pc' = "endZ" /\ Len(G) + 1 = j + 1
        BY <1>2, <2>1, <3>1, <3>8
      <4>2. MetBefore(Len(G) + 1)'
        <5>. HIDE DEF next
        <5>. QED  BY <1>0, <2>3, <3>1, <3>5, <3>6, <4>1 DEF MetBefore
      <4>. QED
        BY <1>0, <1>1, <2>1, <3>4, <4>1, <4>2
        DEF IInv, Skipped, FlagsHold, VerdictIsRight, PassHolds
    <3>. QED  BY <3>7, <3>8
  <2>. QED  BY <2>5, <2>6
<1>8. CASE EndZ
  <2>1. /\ pc = "endZ" /\ pc' = "z" /\ ~isSomeInitFalse /\ Z' = Z
        /\ isZFixpointReached' = (previousZ = Z)
        /\ isRealizable' = WinsAtInit(Z)'
        /\ ZHolds /\ MetBefore(Len(G) + 1)
    BY <1>0, <1>8 DEF EndZ, IInv, Skipped, PassHolds, WinsAtInit, player
  <2>2. ZHolds'
    BY <1>0, <2>1 DEF ZHolds
  <2>3. previousZ = Z => IsWinning(game, spec, Z)
    <3>1. \A k \in DOMAIN G : k < Len(G) + 1
      BY <1>2
    <3>. QED  BY <1>2, <2>1, <3>1 DEF MetBefore, ZHolds, IsWinning
  <2>. QED
    BY <1>0, <1>1, <2>1, <2>2, <2>3
    DEF IInv, Skipped, FlagsHold, VerdictIsRight, PassHolds
<1>9. CASE Return
  <2>. DEFINE R == WinRegion(game, spec)
  <2>1. /\ pc = "z" /\ pc' = "done" /\ Z' = Z /\ isRealizable' = isRealizable
        /\ isZFixpointReached \/ ~isRealizable
        /\ isRealizable = WinsAtInit(Z)
        /\ status' = IF isRealizable THEN "realizable" ELSE "unrealizable"
        /\ ~isSomeInitFalse => ZHolds
        /\ isZFixpointReached /\ ~isSomeInitFalse => IsWinning(game, spec, Z)
    BY <1>9 DEF Return, IInv, FlagsHold, zVars
  <2>2. WinsAtInit(Z) <=> StartsIn(game, Z, player, opt)
    BY <1>0, <1>2, SatisfyIsStart DEF WinsAtInit
  <2>3. ~isSomeInitFalse => R \subseteq Z
    BY <1>0, <1>1, <2>1, WinningIsWon DEF ZHolds
  <2>4. isZFixpointReached /\ ~isSomeInitFalse => Z = R
    BY <1>0, <1>1, <2>1, <2>3, WinningIsWon
  <2>5. isRealizable <=> StartsIn(game, R, player, opt)
    <3>1. CASE isSomeInitFalse
      BY <1>0, <2>1, <2>2, <3>1, StartEmpty DEF isSomeInitFalse
    <3>2. CASE ~isSomeInitFalse /\ isRealizable
      BY <2>1, <2>2, <2>4, <3>2
    <3>3. CASE ~isSomeInitFalse /\ ~isRealizable
      BY <1>0, <2>1, <2>2, <2>3, <3>3, StartMonotone
    <3>. QED  BY <3>1, <3>2, <3>3
  <2>6. VerdictIsRight'
    BY <1>0, <1>1, <1>2, <2>1, <2>4, <2>5 DEF VerdictIsRight, RightVerdict
  <2>. QED  BY <1>0, <1>1, <2>1, <2>6 DEF IInv, Skipped, FlagsHold
<1>10. CASE UNCHANGED vars
  BY <1>10 DEF vars, input, zVars, IInv, InputsKept, Skipped, ZHolds, PassHolds, MetBefore,
               FlagsHold, VerdictIsRight, player, isSomeInitFalse, WinsAtInit
<1>. QED  BY <1>4, <1>5, <1>6, <1>7, <1>8, <1>9, <1>10 DEF Next

(* Y cannot be > Z in a Buchi game: nothing can be forced into Z from      *)
(* outside and the values of Y stay in it (the comment on the early end of *)
(* the loop on Y, gameCheckGenReactivityBuchiSpec.c).                      *)
THEOREM BuchiYStays ==
    ASSUME \A sp \in Specs : OnlyTrue(sp)
    PROVE  Spec => []YWithinZ
<1>1. IInv => YWithinZ
  BY PreIsForce DEF IInv, InputsKept, ZHolds, PassHolds, YWithinZ
<1>. QED  BY <1>1, IInvInit, IInvStep, PTL DEF Spec

(* The answer is right in every game: an early "unrealizable" is taken     *)
(* from an over-approximation, and "realizable" only at a fixed point, at  *)
(* which every condition was met from the same Z.                          *)
THEOREM BuchiVerdictCorrect ==
    ASSUME \A sp \in Specs : OnlyTrue(sp)
    PROVE  Spec => []VerdictIsRight
<1>1. IInv => VerdictIsRight
  BY DEF IInv
<1>. QED  BY <1>1, IInvInit, IInvStep, PTL DEF Spec

-----------------------------------------------------------------------------
(* What the loops on Y went through.                                       *)

(* Values of Y for a condition: first the states that meet it and can then *)
(* be in W, from each later one the value before can be forced.            *)
IsLayers(k, ys, W) ==
    /\ ys \in Seq(SUBSET W) /\ ys # << >>
    /\ ys[1] \subseteq CanForce(game, W, player) \cap spec.guarantees[k]
    /\ \A r \in 2 .. Len(ys) : ys[r] \subseteq ys[1] \cup CanForce(game, ys[r - 1], player)

(* The conditions before n have such values in this pass, and what is left *)
(* of Z is within the last one.                                            *)
LayersBefore(n) ==
    \A k \in DOMAIN spec.guarantees :
        k < n => /\ IsLayers(k, yResults[k], previousZ)
                 /\ Z \subseteq yResults[k][Len(yResults[k])]

LayersInv ==
    /\ pc # "begin" => DOMAIN yResults = DOMAIN spec.guarantees
    /\ pc \in {"condition", "y"} => LayersBefore(j)
    /\ pc = "y" =>
          /\ IsLayers(j, yResults[j], previousZ)
          /\ yResults[j][1] = CanForce(game, Z, player) \cap spec.guarantees[j]
          /\ yResults[j][Len(yResults[j])] = Y
    /\ pc = "endZ" => LayersBefore(Len(spec.guarantees) + 1)
    /\ pc \in {"z", "done"} /\ isZFixpointReached /\ ~isSomeInitFalse =>
          previousZ = Z /\ LayersBefore(Len(spec.guarantees) + 1)

(* A strategy is handed over at a fixed point from which the game is won.  *)
StrategyInv ==
    strategy # NoStrategy =>
        /\ pc = "done" /\ strategy = StrategyArgs
        /\ WinsAtInit(Z)
        /\ isZFixpointReached /\ isRealizable
        /\ ~isSomeInitFalse => Z \subseteq Invar(game)

(* The value of Y in a pass goes on from the last one, or repeats it.      *)
LEMMA LayersGrow ==
    ASSUME NEW k, NEW ys, NEW W, NEW next, IsLayers(k, ys, W), next \subseteq W,
           next \subseteq ys[1] \cup CanForce(game, ys[Len(ys)], player)
    PROVE  /\ IsLayers(k, Append(ys, next), W)
           /\ Append(ys, next)[1] = ys[1]
           /\ Append(ys, next)[Len(Append(ys, next))] = next
<1>. DEFINE zs == Append(ys, next)
<1>1. /\ ys \in Seq(SUBSET W) /\ Len(ys) \in Nat \ {0}
      /\ zs \in Seq(SUBSET W) /\ Len(zs) = Len(ys) + 1
      /\ \A r \in 1 .. Len(ys) : zs[r] = ys[r]
      /\ zs[Len(ys) + 1] = next
  BY DEF IsLayers
<1>2. zs[1] = ys[1] /\ zs # << >>
  BY <1>1
<1>3. ASSUME NEW r \in 2 .. Len(zs)
      PROVE  zs[r] \subseteq zs[1] \cup CanForce(game, zs[r - 1], player)
  <2>1. CASE r = Len(ys) + 1
    <3>1. zs[r] = next /\ zs[r - 1] = ys[Len(ys)]
      BY <1>1, <2>1
    <3>. QED  BY <1>2, <3>1
  <2>2. CASE r # Len(ys) + 1
    <3>1. r \in 2 .. Len(ys) /\ r \in 1 .. Len(ys) /\ r - 1 \in 1 .. Len(ys)
      BY <1>1, <2>2
    <3>2. zs[r] = ys[r] /\ zs[r - 1] = ys[r - 1]
      BY <1>1, <3>1
    <3>. QED  BY <1>2, <3>1, <3>2 DEF IsLayers
  <2>. QED  BY <2>1, <2>2
<1>. QED
  <2>. HIDE DEF zs
  <2>1. IsLayers(k, zs, W)
    BY <1>1, <1>2, <1>3 DEF IsLayers
  <2>. QED  BY <1>1, <1>2, <2>1 DEF zs

LEMMA LayersInit == Init => LayersInv /\ StrategyInv
  BY DEF Init, LayersInv, StrategyInv

LEMMA LayersStep ==
    ASSUME IInv, IInv', LayersInv, StrategyInv, [Next]_vars
    PROVE  LayersInv' /\ StrategyInv'
<1>. DEFINE G == spec.guarantees
<1>0. /\ game \in Games /\ spec \in Specs /\ opt \in Quantifiers
      /\ game' = game /\ spec' = spec /\ opt' = opt /\ player' = player
      /\ isSomeInitFalse' = isSomeInitFalse
      /\ pc = "done" => UNCHANGED vars
  BY DEF IInv, InputsKept, Next, Begin, BeginZ, BeginCondition, IterateY, EndZ, Return,
         vars, input, player, isSomeInitFalse, Init1, Init2
<1>1. /\ Len(G) \in Nat \ {0} /\ DOMAIN G = 1 .. Len(G) /\ G \in Seq(SUBSET States)
      /\ DOMAIN buchiConditions = DOMAIN G
      /\ \A V : Pre(V) = CanForce(game, V, player)
  <2>1. G \in Seq(SUBSET States) /\ Len(G) \in Nat \ {0}
    BY <1>0, SpecParts
  <2>. QED  BY <1>0, <2>1, PreIsForce DEF buchiConditions
<1>2. \A k \in DOMAIN G : Pre(Z) \cap buchiConditions[k] = CanForce(game, Z, player) \cap G[k]
  BY <1>0, <1>1, ForceInvar DEF buchiConditions
<1>3. /\ \A k, ys, W : IsLayers(k, ys, W)' = IsLayers(k, ys, W)
  BY <1>0 DEF IsLayers
<1>4. CASE Begin
  <2>1. /\ pc' = "z" /\ DOMAIN yResults' = DOMAIN G
        /\ isZFixpointReached' = isSomeInitFalse
        /\ strategy' = strategy /\ pc = "begin"
    BY <1>1, <1>4 DEF Begin
  <2>. QED  BY <1>0, <2>1 DEF LayersInv, StrategyInv
<1>5. CASE BeginZ
  <2>1. /\ pc = "z" /\ pc' = "condition" /\ j' = 1
        /\ UNCHANGED <<yResults, strategy>>
    BY <1>5 DEF BeginZ
  <2>2. LayersBefore(j)'
    BY <1>0, <1>1, <2>1 DEF LayersBefore
  <2>. QED  BY <1>0, <2>1, <2>2 DEF LayersInv, StrategyInv
<1>6. CASE BeginCondition
  <2>. DEFINE first == CanForce(game, Z, player) \cap G[j]
  <2>1. /\ pc = "condition" /\ pc' = "y" /\ ~isSomeInitFalse
        /\ UNCHANGED <<j, zVars, strategy>>
        /\ Y' = preImageZAndBuchi
        /\ yResults' = [yResults EXCEPT ![j] = <<preImageZAndBuchi>>]
    BY <1>6 DEF BeginCondition, IInv, Skipped
  <2>2. j \in DOMAIN G /\ ZHolds /\ Z \subseteq previousZ
    BY <2>1 DEF IInv, PassHolds, MetBefore
  <2>3. preImageZAndBuchi = first
    BY <1>2, <2>2 DEF preImageZAndBuchi
  <2>4. /\ DOMAIN yResults' = DOMAIN G /\ yResults'[j] = <<first>>
        /\ \A k \in DOMAIN G : k # j => yResults'[k] = yResults[k]
    BY <2>1, <2>2, <2>3 DEF LayersInv
  <2>5. first \subseteq previousZ
    BY <2>2 DEF ZHolds
  <2>6. first \subseteq CanForce(game, previousZ, player) \cap G[j]
    BY <2>2, ForceMonotone
  <2>. HIDE DEF first
  <2>7. IsLayers(j, <<first>>, previousZ)
    <3>1. /\ <<first>> \in Seq(SUBSET previousZ) /\ <<first>> # << >>
          /\ <<first>>[1] = first /\ 2 .. Len(<<first>>) = {}
      BY <2>5
    <3>. QED  BY <2>6, <3>1 DEF IsLayers
  <2>8. LayersBefore(j)'
    <3>1. \A k \in DOMAIN G : k < j => yResults'[k] = yResults[k]
      BY <1>1, <2>2, <2>4
    <3>2. LayersBefore(j) /\ Z' = Z /\ previousZ' = previousZ /\ j' = j
      BY <2>1 DEF LayersInv, zVars
    <3>. QED  BY <1>0, <1>3, <3>1, <3>2 DEF LayersBefore
  <2>9. Z' = Z /\ previousZ' = previousZ /\ j' = j /\ Y' = first /\ yResults'[j] = <<first>>
    BY <2>1, <2>3, <2>4 DEF zVars
  <2>10. IsLayers(j, yResults[j], previousZ)'
    BY <1>3, <2>7, <2>9
  <2>11. (yResults[j][1] = CanForce(game, Z, player) \cap spec.guarantees[j])'
    <3>1. CanForce(game, Z, player)' = CanForce(game, Z, player)
      BY <1>0, <2>9 DEF CanForce
    <3>. QED  BY <1>0, <2>9, <3>1 DEF first
  <2>12. (yResults[j][Len(yResults[j])] = Y)'
    BY <2>9
  <2>13. strategy' = strategy /\ strategy = NoStrategy
    BY <2>1 DEF StrategyInv
  <2>. QED
    BY <1>0, <2>1, <2>4, <2>8, <2>10, <2>11, <2>12, <2>13 DEF LayersInv, StrategyInv
<1>7. CASE IterateY
  <2>. DEFINE next == (CanForce(game, Z, player) \cap G[j]) \cup CanForce(game, Y, player)
              ys   == yResults[j]
  <2>1. /\ pc = "y" /\ ~isSomeInitFalse /\ ZHolds /\ j \in DOMAIN G
        /\ Y \subseteq Z /\ Z \subseteq previousZ
        /\ LayersBefore(j) /\ IsLayers(j, ys, previousZ)
        /\ ys[1] = CanForce(game, Z, player) \cap G[j]
        /\ ys[Len(ys)] = Y
        /\ DOMAIN yResults = DOMAIN G
    BY <1>7 DEF IterateY, IInv, Skipped, PassHolds, MetBefore, LayersInv
  <2>2. Pre(Y) \cup preImageZAndBuchi = next
    BY <1>1, <1>2, <2>1 DEF preImageZAndBuchi
  <2>3. next \subseteq Z
    <3>1. CanForce(game, Y, player) \subseteq CanForce(game, Z, player)
      BY <2>1, ForceMonotone
    <3>. QED  BY <2>1, <3>1 DEF ZHolds
  <2>4. next \subseteq ys[1] \cup CanForce(game, ys[Len(ys)], player) /\ next \subseteq previousZ
    BY <2>1, <2>3
  <2>. HIDE DEF next
  <2>5. /\ Y' = next /\ UNCHANGED <<previousZ, strategy>>
        /\ yResults' = IF next = Y THEN yResults
                       ELSE [yResults EXCEPT ![j] = Append(@, next)]
        /\ IF next \in {Y, Z}
           THEN /\ Z' = next
                /\ IF j < Len(buchiConditions)
                   THEN j' = j + 1 /\ pc' = "condition"
                   ELSE pc' = "endZ" /\ UNCHANGED j
           ELSE UNCHANGED <<pc, Z, j>>
    BY <1>7, <2>2 DEF IterateY
  <2>6. /\ DOMAIN yResults' = DOMAIN G
        /\ \A k \in DOMAIN G : k # j => yResults'[k] = yResults[k]
    BY <2>1, <2>5
  <2>7. /\ IsLayers(j, yResults'[j], previousZ)
        /\ yResults'[j][1] = ys[1]
        /\ yResults'[j][Len(yResults'[j])] = next
    <3>1. CASE next = Y
      BY <2>1, <2>5, <3>1
    <3>2. CASE next # Y
      <4>1. yResults'[j] = Append(ys, next)
        BY <2>1, <2>5, <3>2
      <4>2. /\ IsLayers(j, Append(ys, next), previousZ)
            /\ Append(ys, next)[1] = ys[1]
            /\ Append(ys, next)[Len(Append(ys, next))] = next
        <5>. HIDE DEF ys
        <5>1. IsLayers(j, ys, previousZ) /\ ys \in Seq(SUBSET previousZ) /\ Len(ys) \in Nat \ {0}
          BY <2>1 DEF IsLayers
        <5>2. IsLayers(j, Append(ys, next), previousZ)
          BY <2>4, <5>1, LayersGrow
        <5>3. Append(ys, next)[1] = ys[1]
          BY <5>1
        <5>4. Append(ys, next)[Len(Append(ys, next))] = next
          BY <5>1
        <5>. QED  BY <5>2, <5>3, <5>4
      <4>. QED  BY <4>1, <4>2
    <3>. QED  BY <3>1, <3>2
  <2>8. strategy' = strategy /\ strategy = NoStrategy
    BY <2>1, <2>5 DEF StrategyInv
  <2>9. \A k \in DOMAIN G : k < j =>
            /\ IsLayers(k, yResults'[k], previousZ)
            /\ Z \subseteq yResults'[k][Len(yResults'[k])]
    <3>1. \A k \in DOMAIN G : k < j => yResults'[k] = yResults[k]
      BY <1>1, <2>1, <2>6
    <3>. QED  BY <2>1, <3>1 DEF LayersBefore
  <2>. HIDE DEF ys
  <2>10. CASE next \notin {Y, Z}
    <3>1. pc' = "y" /\ Z' = Z /\ previousZ' = previousZ /\ j' = j /\ Y' = next
      BY <2>1, <2>5, <2>10
    <3>2. LayersBefore(j)'
      BY <1>0, <1>3, <2>9, <3>1 DEF LayersBefore
    <3>3. IsLayers(j, yResults[j], previousZ)'
      BY <1>3, <2>7, <3>1
    <3>4. (yResults[j][1] = CanForce(game, Z, player) \cap spec.guarantees[j])'
      <4>1. CanForce(game, Z, player)' = CanForce(game, Z, player)
        BY <1>0, <3>1 DEF CanForce
      <4>. QED  BY <1>0, <2>1, <2>7, <3>1, <4>1
    <3>5. (yResults[j][Len(yResults[j])] = Y)'
      BY <2>7, <3>1
    <3>. QED  BY <1>0, <2>6, <2>8, <3>1, <3>2, <3>3, <3>4, <3>5 DEF LayersInv, StrategyInv
  <2>11. CASE next \in {Y, Z}
    <3>1. /\ Z' = next /\ previousZ' = previousZ /\ next \subseteq Z
          /\ IF j < Len(G) THEN j' = j + 1 /\ pc' = "condition" ELSE pc' = "endZ"
      <4>1. Len(buchiConditions) = Len(G)
        BY <1>1 DEF buchiConditions
      <4>. QED  BY <2>3, <2>5, <2>11, <4>1
    <3>2. ASSUME NEW k \in DOMAIN G, k < j + 1
          PROVE  /\ IsLayers(k, yResults'[k], previousZ)
                 /\ next \subseteq yResults'[k][Len(yResults'[k])]
      <4>1. k < j \/ k = j
        BY <1>1, <2>1, <3>2
      <4>. QED  BY <2>7, <2>9, <3>1, <4>1
    <3>3. CASE j < Len(G)
      <4>1. j' = j + 1 /\ pc' = "condition"
        BY <3>1, <3>3
      <4>2. LayersBefore(j)'
        BY <1>0, <1>3, <3>1, <3>2, <4>1 DEF LayersBefore
      <4>. QED  BY <1>0, <2>6, <2>8, <4>1, <4>2 DEF LayersInv, StrategyInv
    <3>4. CASE ~(j < Len(G))
      <4>1. pc' = "endZ" /\ Len(G) + 1 = j + 1
        BY <1>1, <2>1, <3>1, <3>4
      <4>2. LayersBefore(Len(spec.guarantees) + 1)'
        BY <1>0, <1>3, <3>1, <3>2, <4>1 DEF LayersBefore
      <4>. QED  BY <1>0, <2>6, <2>8, <4>1, <4>2 DEF LayersInv, StrategyInv
    <3>. QED  BY <3>3, <3>4
  <2>. QED  BY <2>10, <2>11
<1>8. CASE EndZ
  <2>1. /\ pc = "endZ" /\ pc' = "z"
        /\ isZFixpointReached' = (previousZ = Z)
        /\ UNCHANGED <<Z, previousZ, yResults, strategy>>
    BY <1>8 DEF EndZ
  <2>2. LayersBefore(Len(spec.guarantees) + 1)' = LayersBefore(Len(spec.guarantees) + 1)
    BY <1>0, <1>3, <2>1 DEF LayersBefore
  <2>. QED  BY <1>0, <2>1, <2>2 DEF LayersInv, StrategyInv
<1>9. CASE Return
  <2>1. /\ pc = "z" /\ pc' = "done"
        /\ isZFixpointReached \/ ~isRealizable
        /\ strategy' = IF WantStrategy /\ isRealizable THEN StrategyArgs ELSE NoStrategy
        /\ UNCHANGED <<zVars, yResults>>
    BY <1>9 DEF Return
  <2>2. /\ Z' = Z /\ previousZ' = previousZ /\ isZFixpointReached' = isZFixpointReached
        /\ isRealizable' = isRealizable /\ yResults' = yResults
    BY <2>1 DEF zVars
  <2>3. LayersBefore(Len(spec.guarantees) + 1)' = LayersBefore(Len(spec.guarantees) + 1)
    BY <1>0, <1>3, <2>2 DEF LayersBefore
  <2>4. LayersInv'
    BY <1>0, <2>1, <2>2, <2>3 DEF LayersInv
  <2>5. StrategyArgs' = StrategyArgs
    BY <1>0, <2>2 DEF StrategyArgs, Rho1, Rho2, buchiConditions
  <2>6. WinsAtInit(Z)' = WinsAtInit(Z)
    BY <1>0, <2>2 DEF WinsAtInit
  <2>7. isRealizable => WinsAtInit(Z) /\ isZFixpointReached
    BY <2>1 DEF IInv, FlagsHold
  <2>8. ~isSomeInitFalse => Z \subseteq Invar(game)
    BY <2>1 DEF IInv, ZHolds
  <2>9. strategy' # NoStrategy => isRealizable /\ strategy' = StrategyArgs
    BY <2>1
  <2>10. NoStrategy' = NoStrategy
    BY DEF NoStrategy
  <2>11. StrategyInv'
    BY <1>0, <2>1, <2>2, <2>5, <2>6, <2>7, <2>8, <2>9, <2>10 DEF StrategyInv
  <2>. QED  BY <2>4, <2>11
<1>10. CASE UNCHANGED vars
  <2>1. /\ UNCHANGED <<pc, Z, previousZ, isZFixpointReached, isRealizable>>
        /\ UNCHANGED <<j, Y, yResults, strategy>>
    BY <1>10 DEF vars, zVars
  <2>2. \A n : LayersBefore(n)' = LayersBefore(n)
    BY <1>0, <1>3, <2>1 DEF LayersBefore
  <2>3. StrategyArgs' = StrategyArgs /\ WinsAtInit(Z)' = WinsAtInit(Z)
    BY <1>0, <2>1 DEF StrategyArgs, Rho1, Rho2, buchiConditions, WinsAtInit
  <2>4. IsLayers(j, yResults[j], previousZ)' = IsLayers(j, yResults[j], previousZ)
    BY <1>3, <2>1
  <2>5. LayersInv'
    BY <1>0, <2>1, <2>2, <2>4 DEF LayersInv
  <2>6. StrategyInv'
    BY <1>0, <2>1, <2>3 DEF StrategyInv, NoStrategy
  <2>. QED  BY <2>5, <2>6
<1>. QED  BY <1>4, <1>5, <1>6, <1>7, <1>8, <1>9, <1>10 DEF Next

-----------------------------------------------------------------------------
(* The moves of the strategy.                                              *)

Low(k, r) == UNION {yResults[k][q] : q \in 1 .. r - 1}

LEMMA RowsOfRho2 ==
    /\ \A k \in DOMAIN buchiConditions : \A r \in 2 .. Len(yResults[k]) :
          \A m \in GetMove(game, Low(k, r), player) :
              m[1] \in yResults[k][r] \ Low(k, r) => <<k - 1, k - 1, m>> \in Rho2
    /\ \A row \in Rho2 : \E k \in DOMAIN buchiConditions : \E r \in 2 .. Len(yResults[k]) :
          row[3] \in GetMove(game, Low(k, r), player)
<1>. DEFINE Part(k, r) == Rows(k - 1, k - 1, GetMove(game, Low(k, r), player),
                               yResults[k][r] \ Low(k, r))
<1>1. Rho2 = UNION {UNION {Part(k, r) : r \in 2 .. Len(yResults[k])}
                       : k \in DOMAIN buchiConditions}
  BY DEF Rho2, Low
<1>2. \A k, r, row : row \in Part(k, r) <=>
          \E m \in GetMove(game, Low(k, r), player) :
              m[1] \in yResults[k][r] \ Low(k, r) /\ row = <<k - 1, k - 1, m>>
  BY DEF Rows
<1>3. \A k, r, m : m \in GetMove(game, Low(k, r), player)
                       /\ m[1] \in yResults[k][r] \ Low(k, r)
                       => <<k - 1, k - 1, m>> \in Part(k, r)
  BY <1>2
<1>4. \A k, r : \A row \in Part(k, r) : row[3] \in GetMove(game, Low(k, r), player)
  BY <1>2
<1>. HIDE DEF Part
<1>. QED  BY <1>1, <1>3, <1>4

LEMMA RowsOfRho1 ==
    /\ \A k \in DOMAIN buchiConditions : \A m \in GetMove(game, Z, player) :
          m[1] \in Z \cap buchiConditions[k]
              => <<k - 1, k % Len(buchiConditions), m>> \in Rho1
    /\ \A row \in Rho1 : row[3] \in GetMove(game, Z, player)
<1>. DEFINE Part(k) == Rows(k - 1, k % Len(buchiConditions), GetMove(game, Z, player),
                            Z \cap buchiConditions[k])
<1>1. Rho1 = UNION {Part(k) : k \in DOMAIN buchiConditions}
  BY DEF Rho1
<1>2. \A k, row : row \in Part(k) <=>
          \E m \in GetMove(game, Z, player) :
              m[1] \in Z \cap buchiConditions[k]
                  /\ row = <<k - 1, k % Len(buchiConditions), m>>
  BY DEF Rows
<1>3. \A k, m : m \in GetMove(game, Z, player) /\ m[1] \in Z \cap buchiConditions[k]
                    => <<k - 1, k % Len(buchiConditions), m>> \in Part(k)
  BY <1>2
<1>4. \A k : \A row \in Part(k) : row[3] \in GetMove(game, Z, player)
  BY <1>2
<1>. HIDE DEF Part
<1>. QED  BY <1>1, <1>3, <1>4

(* A state in the last value of Y is in the first one, or the owner can    *)
(* force the game into those before the one it first was in.               *)
LEMMA LayerBelow ==
    ASSUME NEW k, IsLayers(k, yResults[k], Z), NEW s \in yResults[k][Len(yResults[k])]
    PROVE  \/ s \in CanForce(game, Z, player) \cap spec.guarantees[k]
           \/ \E r \in 2 .. Len(yResults[k]) :
                  /\ s \in yResults[k][r] \ Low(k, r)
                  /\ s \in CanForce(game, Low(k, r), player)
<1>. DEFINE ys == yResults[k]
            T  == {q \in 1 .. Len(ys) : s \in ys[q]}
<1>1. Len(ys) \in Nat \ {0} /\ Len(ys) \in T
  BY DEF IsLayers
<1>2. PICK r \in T : \A q \in T : ~(<<q, r>> \in OpToRel(<, Nat))
  <2>1. T \subseteq Nat /\ T # {}
    BY <1>1
  <2>. HIDE DEF T
  <2>. QED  BY <2>1, NatLessThanWellFounded, WFMin
<1>3. \A q \in 1 .. r - 1 : s \notin ys[q]
  <2>1. ASSUME NEW q \in 1 .. r - 1, s \in ys[q] PROVE FALSE
    <3>1. q \in T /\ q < r /\ q \in Nat /\ r \in Nat
      BY <1>1, <2>1
    <3>. QED  BY <1>2, <3>1 DEF OpToRel
  <2>. QED  BY <2>1
<1>4. s \notin Low(k, r)
  BY <1>3 DEF Low
<1>5. CASE r = 1
  BY <1>5 DEF IsLayers
<1>6. CASE r # 1
  <2>1. r \in 2 .. Len(ys) /\ r - 1 \in 1 .. r - 1 /\ 1 \in 1 .. r - 1
    BY <1>1, <1>6
  <2>2. s \in CanForce(game, ys[r - 1], player)
    BY <1>3, <2>1 DEF IsLayers
  <2>3. ys[r - 1] \subseteq Low(k, r)
    BY <2>1 DEF Low
  <2>4. s \in CanForce(game, Low(k, r), player)
    BY <2>2, <2>3, ForceMonotone
  <2>. QED  BY <1>4, <2>1, <2>4
<1>. QED  BY <1>5, <1>6

(* Whatever the value of jx, some rows hold all moves into a set the owner *)
(* can force the game into; and no row leads out of Z.                     *)
LEMMA RowsForce ==
    ASSUME IInv, LayersInv, StrategyInv, strategy # NoStrategy, ~isSomeInitFalse
    PROVE  /\ \A s \in Z, k \in jxRange : \E l \in jxRange, V \in SUBSET Z :
                  /\ s \in CanForce(game, V, player)
                  /\ \A m \in GetMove(game, V, player) :
                        m[1] = s => <<k, l, m>> \in strategy.trans
           /\ \A row \in strategy.trans : \E V \in SUBSET Z : row[3] \in GetMove(game, V, player)
<1>. DEFINE n == Len(spec.guarantees)
<1>1. /\ n \in Nat \ {0} /\ DOMAIN spec.guarantees = 1 .. n
      /\ DOMAIN buchiConditions = 1 .. n /\ Len(buchiConditions) = n
      /\ Z \subseteq Invar(game)
      /\ \A k \in 1 .. n : Z \cap buchiConditions[k] = Z \cap spec.guarantees[k]
  <2>1. spec \in Specs /\ Z \subseteq Invar(game)
    BY DEF IInv, InputsKept, StrategyInv
  <2>2. spec.guarantees \in Seq(SUBSET States) /\ n \in Nat \ {0}
    BY <2>1, SpecParts
  <2>3. DOMAIN spec.guarantees = 1 .. n /\ DOMAIN buchiConditions = 1 .. n
    BY <2>2 DEF buchiConditions
  <2>4. Len(buchiConditions) = n
    BY <2>2 DEF buchiConditions
  <2>. QED  BY <2>1, <2>2, <2>3, <2>4 DEF buchiConditions
<1>2. \A k \in 1 .. n : IsLayers(k, yResults[k], Z) /\ Z \subseteq yResults[k][Len(yResults[k])]
  <2>1. previousZ = Z /\ LayersBefore(n + 1)
    BY DEF StrategyInv, LayersInv
  <2>. QED  BY <1>1, <2>1 DEF LayersBefore
<1>3. \A k \in 1 .. n, r \in Nat : r \in 2 .. Len(yResults[k]) => Low(k, r) \in SUBSET Z
  <2>1. ASSUME NEW k \in 1 .. n, NEW r \in 2 .. Len(yResults[k]), NEW q \in 1 .. r - 1
        PROVE  yResults[k][q] \subseteq Z
    <3>1. yResults[k] \in Seq(SUBSET Z)
      BY <1>2 DEF IsLayers
    <3>2. q \in 1 .. Len(yResults[k])
      BY <3>1
    <3>. QED  BY <3>1, <3>2
  <2>. QED  BY <2>1 DEF Low
<1>4. strategy.trans = IF Z = {} THEN {} ELSE Rho1 \cup Rho2
  BY DEF StrategyInv, StrategyArgs
<1>5. ASSUME NEW s \in Z, NEW k \in jxRange
      PROVE  \E l \in jxRange, V \in SUBSET Z :
                /\ s \in CanForce(game, V, player)
                /\ \A m \in GetMove(game, V, player) :
                      m[1] = s => <<k, l, m>> \in strategy.trans
  <2>1. k + 1 \in 1 .. n /\ (k + 1) - 1 = k /\ k \in jxRange
    BY <1>1 DEF jxRange
  <2>2. (k + 1) % n \in jxRange
    <3>1. \A a, b \in Nat : b > 0 => a % b \in 0 .. b - 1
      OBVIOUS
    <3>2. k + 1 \in Nat /\ n > 0
      BY <1>1, <2>1
    <3>. QED  BY <1>1, <3>1, <3>2 DEF jxRange
  <2>3. CASE s \in CanForce(game, Z, player) \cap spec.guarantees[k + 1]
    <3>1. s \in Z \cap buchiConditions[k + 1]
      BY <1>1, <2>1, <2>3
    <3>2. \A m \in GetMove(game, Z, player) :
              m[1] = s => <<k, (k + 1) % n, m>> \in strategy.trans
      BY <1>1, <1>4, <2>1, <3>1, RowsOfRho1
    <3>. QED  BY <2>2, <2>3, <3>2
  <2>4. CASE ~(s \in CanForce(game, Z, player) \cap spec.guarantees[k + 1])
    <3>1. PICK r \in 2 .. Len(yResults[k + 1]) :
              /\ s \in yResults[k + 1][r] \ Low(k + 1, r)
              /\ s \in CanForce(game, Low(k + 1, r), player)
      BY <1>2, <2>1, <2>4, LayerBelow
    <3>2. \A m \in GetMove(game, Low(k + 1, r), player) :
              m[1] = s => <<k, k, m>> \in strategy.trans
      BY <1>1, <1>4, <2>1, <3>1, RowsOfRho2
    <3>3. Low(k + 1, r) \in SUBSET Z
      BY <1>3, <2>1
    <3>. QED  BY <2>1, <3>1, <3>2, <3>3
  <2>. QED  BY <2>3, <2>4
<1>6. ASSUME NEW row \in strategy.trans
      PROVE  \E V \in SUBSET Z : row[3] \in GetMove(game, V, player)
  <2>1. CASE row \in Rho1
    BY <2>1, RowsOfRho1
  <2>2. CASE row \in Rho2
    <3>1. PICK k \in 1 .. n : \E r \in 2 .. Len(yResults[k]) :
              row[3] \in GetMove(game, Low(k, r), player)
      BY <1>1, <2>2, RowsOfRho2
    <3>2. PICK r \in 2 .. Len(yResults[k]) : row[3] \in GetMove(game, Low(k, r), player)
      BY <3>1
    <3>3. Low(k, r) \in SUBSET Z
      BY <1>3
    <3>. QED  BY <3>2, <3>3
  <2>. QED  BY <1>4, <2>1, <2>2
<1>. QED  BY <1>5, <1>6

-----------------------------------------------------------------------------
(* The play.                                                               *)

(* The theory of plays, for the strategy this algorithm hands over.        *)
PP == INSTANCE PlayProofs WITH
        args     <- [strategy EXCEPT !.trans = {row[3] : row \in @}],
        target   <- {},
        finisher <- 0,
        modes    <- jxRange,
        links    <- Links

LEMMA PlayAssumptions == PP!GamesAssumption /\ PP!ValuationsAssumption
  BY GamesAssumption, ValuationsAssumption
     DEF PP!GamesAssumption, PP!ValuationsAssumption, PP!GameType, GameType,
         PP!States, States

(* It reads the definitions of the game that the algorithm reads.          *)
LEMMA PlayDefinitions ==
    /\ PP!Quantifiers = Quantifiers /\ PP!Players = Players /\ PP!States = States
    /\ PP!Invar(game) = Invar(game)
    /\ PP!Init1(game) = Init1(game) /\ PP!Init2(game) = Init2(game)
    /\ \A s : PP!Moves1(game, s) = Moves1(game, s)
    /\ \A s, q1 : PP!Moves2(game, s, q1) = Moves2(game, s, q1)
    /\ PP!WithoutSuccessor2(game) = WithoutSuccessor2(game)
    /\ \A W, plr, q : PP!StartsIn(game, W, plr, q) = StartsIn(game, W, plr, q)
  BY DEF PP!Quantifiers, Quantifiers, PP!Players, Players, PP!States, States,
         PP!Invar, Invar, PP!Init1, Init1, PP!Init2, Init2, PP!Moves1, Moves1,
         PP!Moves2, Moves2, PP!WithoutSuccessor2, WithoutSuccessor2,
         PP!WithSuccessor2, WithSuccessor2, PP!HalfRounds, HalfRounds,
         PP!StartsIn, StartsIn

(* The steps of the composed specification are those of the theory.        *)
LEMMA SameGame ==
    /\ \A plr : S!Opponent(plr) = PP!Opponent(plr)
    /\ S!States = PP!States
    /\ S!Invar(game) = PP!Invar(game)
    /\ S!Init1(game) = PP!Init1(game) /\ S!Init2(game) = PP!Init2(game)
    /\ \A s : S!Moves1(game, s) = PP!Moves1(game, s)
    /\ \A s, q1 : S!Moves2(game, s, q1) = PP!Moves2(game, s, q1)
    /\ S!WithoutSuccessor1(game) = PP!WithoutSuccessor1(game)
    /\ S!WithoutSuccessor2(game) = PP!WithoutSuccessor2(game)
    /\ \A W : S!WeakForwardImage(game, W) = PP!WeakForwardImage(game, W)
  BY DEF S!Opponent, PP!Opponent, S!States, PP!States, S!Invar, PP!Invar, S!Init1,
    PP!Init1, S!Init2, PP!Init2, S!Moves1, PP!Moves1, S!Moves2, PP!Moves2,
    S!WithSuccessor1, PP!WithSuccessor1, S!WithoutSuccessor1, PP!WithoutSuccessor1,
    S!HalfRounds, PP!HalfRounds, S!WithSuccessor2, PP!WithSuccessor2,
    S!WithoutSuccessor2, PP!WithoutSuccessor2, S!WeakForwardImage,
    PP!WeakForwardImage

LEMMA SameConstruction ==
    /\ S!NothingBuilt = PP!NothingBuilt /\ S!Role = PP!Role /\ S!Inits = PP!Inits
    /\ \A W : S!OneCube(W) = PP!OneCube(W)
    /\ \A p1 : S!Completions(p1) = PP!Completions(p1)
    /\ S!StuckInits1 = PP!StuckInits1 /\ S!WinningInits1 = PP!WinningInits1
    /\ S!WinningInits = PP!WinningInits /\ S!DeadInits = PP!DeadInits
    /\ S!Successors = PP!Successors /\ S!Parts1 = PP!Parts1 /\ S!Parts2 = PP!Parts2
    /\ S!InitSection = PP!InitSection /\ S!TransSection = PP!TransSection
    /\ \A g, d, m : S!InitParts(g, d, m) = PP!InitParts(g, d, m)
  BY SameGame
     DEF S!NothingBuilt, PP!NothingBuilt, S!Role, PP!Role, S!Inits, PP!Inits,
         S!OneCube, PP!OneCube, S!Completions, PP!Completions, S!StuckInits1,
         PP!StuckInits1, S!WinningInits1, PP!WinningInits1, S!WinningInits,
         PP!WinningInits, S!DeadInits, PP!DeadInits, S!Successors, PP!Successors,
         S!Parts1, PP!Parts1, S!Parts2, PP!Parts2, S!InitSection, PP!InitSection,
         S!TransSection, PP!TransSection, S!InitParts, PP!InitParts

LEMMA PlaySteps ==
    /\ S!PlayInit <=> PP!PlayInit
    /\ S!PlayNext => PP!PlayNext
    /\ S!Construct \/ S!Grow \/ S!Finish => PP!Construct \/ PP!Grow \/ PP!Finish
<1>1. S!Construct => PP!Construct
  BY SameGame, SameConstruction
     DEF S!Construct, PP!Construct, S!ConstructNormal1, PP!ConstructNormal1,
         S!ConstructNormal2, PP!ConstructNormal2, S!ConstructUniversal,
         PP!ConstructUniversal, S!ConstructExistential, PP!ConstructExistential
<1>2. (S!Grow => PP!Grow) /\ (S!Finish => PP!Finish)
  BY SameConstruction DEF S!Grow, PP!Grow, S!Finish, PP!Finish
<1>3. /\ S!owner = PP!owner
      /\ \A p1 : S!MayStart1(p1) <=> PP!MayStart1(p1)
      /\ \A p1, p2 : S!MayStart2(p1, p2) <=> PP!MayStart2(p1, p2)
      /\ \A q1, k : S!MayMove1(q1, k) <=> PP!MayMove1(q1, k)
      /\ \A q2, k : S!MayMove2(q2, k) <=> PP!MayMove2(q2, k)
  BY SameConstruction
     DEF S!owner, PP!owner, S!MayStart1, PP!MayStart1, S!MayStart2, PP!MayStart2,
         S!MayMove1, PP!MayMove1, S!MayMove2, PP!MayMove2
<1>4. /\ \A s : S!Arrive(s) <=> PP!Arrive(s)
      /\ \A plr : S!Stuck(plr) <=> PP!Stuck(plr)
  BY SameGame DEF S!Arrive, PP!Arrive, S!Stuck, PP!Stuck, S!NoHalf, PP!NoHalf
<1>5. S!StartWhole => PP!StartWhole
  BY SameGame, SameConstruction, <1>3, <1>4 DEF S!StartWhole, PP!StartWhole
<1>6. S!Start1 => PP!Start1
  BY SameGame, SameConstruction, <1>3, <1>4 DEF S!Start1, PP!Start1
<1>7. S!Start2 => PP!Start2
  BY SameGame, SameConstruction, <1>3, <1>4 DEF S!Start2, PP!Start2
<1>8. S!Play1 => PP!Play1
  BY SameGame, SameConstruction, <1>3, <1>4 DEF S!Play1, PP!Play1
<1>9. S!Play2 => PP!Play2
  BY SameGame, SameConstruction, <1>3, <1>4 DEF S!Play2, PP!Play2
<1>10. S!PlayInit <=> PP!PlayInit
  BY DEF S!PlayInit, PP!PlayInit, S!NoState, PP!NoState, S!NoHalf, PP!NoHalf
<1>. QED  BY <1>1, <1>2, <1>5, <1>6, <1>7, <1>8, <1>9, <1>10 DEF S!PlayNext, PP!PlayNext

(* The parts handed over, as the construction sees them.                   *)
LEMMA HandedOver ==
    ASSUME StrategyInv, strategy # NoStrategy
    PROVE  LET args == [strategy EXCEPT !.trans = {row[3] : row \in @}]
           IN  /\ args.player = player /\ args.reverse = FALSE /\ args.goal = {}
               /\ args.winningStates = Z
               /\ args.trans = {row[3] : row \in strategy.trans}
  BY DEF StrategyInv, StrategyArgs

LEMMA ArgsAreGood ==
    ASSUME IInv, StrategyInv, strategy # NoStrategy
    PROVE  PP!ArgsGood /\ PP!owner = player /\ PP!winning = Z
<1>1. /\ game \in Games /\ spec \in Specs /\ opt \in Quantifiers /\ player \in Players
  BY SpecParts DEF IInv, InputsKept, player
<1>2. PP!owner = player /\ PP!winning = Z /\ PP!Role = opt
  <2>1. opt \in {"N", "A", "E"}
    BY <1>1 DEF Quantifiers
  <2>. QED  BY <2>1, HandedOver DEF PP!owner, PP!winning, PP!Role
<1>3. StartsIn(game, Z, player, opt)
  BY <1>1, SatisfyIsStart DEF StrategyInv, WinsAtInit
<1>4. PP!StartsIn(game, PP!winning, PP!owner, PP!Role)
  BY <1>2, <1>3, PlayDefinitions
<1>. QED  BY <1>1, <1>2, <1>4, HandedOver, PlayDefinitions DEF PP!ArgsGood

(* The rows fit together: whatever jx is, the owner has a move into a set  *)
(* it can force, and no move leads out of Z.                               *)
LEMMA MovesAreGood ==
    ASSUME IInv, LayersInv, StrategyInv, strategy # NoStrategy
    PROVE  PP!MovesGood
<1>1. CASE PP!Inits = {}
  BY <1>1 DEF PP!MovesGood
<1>2. CASE PP!Inits # {}
  <2>1. ~isSomeInitFalse
    BY <1>2, PlayDefinitions DEF PP!Inits, isSomeInitFalse
  <2>2. PP!ArgsGood /\ PP!owner = player /\ PP!winning = Z
    BY ArgsAreGood
  <2>3. /\ \A V, plr : PP!CanForce(game, V, plr) = CanForce(game, V, plr)
        /\ \A V, plr : PP!GetMove(game, V, plr) = GetMove(game, V, plr)
    BY DEF PP!CanForce, CanForce, PP!GetMove, GetMove, PP!Move1, Move1, PP!Move2, Move2,
           PP!WithSuccessor2, WithSuccessor2, PP!HalfRounds, HalfRounds, PP!Answerable,
           Answerable, PP!Invar, Invar, PP!Moves1, Moves1, PP!Moves2, Moves2
  <2>4. ASSUME NEW k \in jxRange, NEW l \in jxRange, NEW m, <<k, l, m>> \in strategy.trans
        PROVE  m \in {row[3] : row \in strategy.trans} \cap Links[<<k, l>>]
    <3>1. Links[<<k, l>>]
              = {row[3] : row \in {r \in strategy.trans : <<r[1], r[2]>> = <<k, l>>}}
      BY DEF Links
    <3>. QED  BY <2>4, <3>1
  <2>5. PP!MovesForced
    <3>. DEFINE moves == {row[3] : row \in strategy.trans}
    <3>1. ASSUME NEW s \in Z, NEW k \in jxRange
          PROVE  \E l \in jxRange, V \in SUBSET Z :
                     /\ s \in CanForce(game, V, player)
                     /\ \A m \in GetMove(game, V, player) : m[1] = s =>
                           m \in moves \cap Links[<<k, l>>]
      <4>1. PICK l \in jxRange, V \in SUBSET Z :
                /\ s \in CanForce(game, V, player)
                /\ \A m \in GetMove(game, V, player) :
                      m[1] = s => <<k, l, m>> \in strategy.trans
        BY <2>1, RowsForce
      <4>2. \A m \in GetMove(game, V, player) : m[1] = s =>
                m \in moves \cap Links[<<k, l>>]
        BY <2>4, <4>1
      <4>. QED  BY <4>1, <4>2
    <3>2. \A m \in moves :
              \E V \in SUBSET Z : m \in GetMove(game, V, player)
      BY <2>1, RowsForce
    <3>3. [strategy EXCEPT !.trans = {row[3] : row \in @}].trans = moves
      BY HandedOver
    <3>. HIDE DEF moves
    <3>. QED
      <4>1. ASSUME NEW s \in (PP!winning \cap PP!Invar(game)) \ {}, NEW k \in jxRange
            PROVE  \E l \in jxRange, V \in SUBSET PP!winning :
                       /\ s \in PP!CanForce(game, V, PP!owner)
                       /\ \A m \in PP!GetMove(game, V, PP!owner) :
                             m[1] = s => m \in moves \cap Links[<<k, l>>]
        <5>1. s \in Z
          BY <2>2, <4>1
        <5>2. PICK l \in jxRange, V \in SUBSET Z :
                  /\ s \in CanForce(game, V, player)
                  /\ \A m \in GetMove(game, V, player) :
                        m[1] = s => m \in moves \cap Links[<<k, l>>]
          BY <3>1, <5>1
        <5>3. /\ PP!CanForce(game, V, PP!owner) = CanForce(game, V, player)
              /\ PP!GetMove(game, V, PP!owner) = GetMove(game, V, player)
          BY <2>2, <2>3
        <5>. QED  BY <2>2, <5>2, <5>3
      <4>2. \A m \in moves : \E V \in SUBSET PP!winning : m \in PP!GetMove(game, V, PP!owner)
        BY <2>2, <2>3, <3>2
      <4>. QED  BY <3>3, <4>1, <4>2 DEF PP!MovesForced
  <2>. QED  BY <2>2, <2>5, PP!ForcedIsGood, PlayAssumptions DEF PP!ArgsGood
<1>. QED  BY <1>1, <1>2

(* What the algorithm, the construction and the play keep true together.   *)
AlgorithmInv == IInv /\ LayersInv /\ StrategyInv

PlaysInv ==
    /\ stage \in {"idle", "grow", "built"}
    /\ stage = "idle" => turn = "start1" /\ winner = 0
    /\ stage # "idle" =>
          /\ pc = "done" /\ strategy # NoStrategy
          /\ PP!StartInv /\ PP!BuiltInv /\ PP!PlayInv

LEMMA PlaysInvStep ==
    AlgorithmInv /\ PlaysInv /\ [ComposedNext]_allVars => PlaysInv'
<1>. SUFFICES ASSUME AlgorithmInv, PlaysInv, [ComposedNext]_allVars
              PROVE  PlaysInv'
  OBVIOUS
<1>1. strategy # NoStrategy => PP!ArgsGood /\ PP!MovesGood
  BY ArgsAreGood, MovesAreGood DEF AlgorithmInv
<1>2. CASE AlgorithmNext
  <2>1. pc # "done" /\ UNCHANGED <<stage, playVars>>
    BY <1>2 DEF AlgorithmNext, Next, Begin, BeginZ, BeginCondition, IterateY, EndZ, Return
  <2>. QED  BY <2>1 DEF PlaysInv, playVars
<1>3. ASSUME UNCHANGED vars
      PROVE  UNCHANGED PP!callers /\ UNCHANGED <<pc, strategy>>
  BY <1>3 DEF PP!callers, vars, input, jxRange, Links
<1>4. CASE pc = "done" /\ ConstructNext
  <2>1. /\ strategy # NoStrategy
        /\ PP!Construct \/ PP!Grow \/ PP!Finish
        /\ UNCHANGED <<vars, playVars>>
    BY <1>4, PlaySteps DEF ConstructNext
  <2>2. UNCHANGED <<PP!callers, PP!playVars>> /\ UNCHANGED <<pc, strategy>>
    BY <1>3, <2>1 DEF PP!playVars, playVars
  <2>3. PP!StartInv /\ PP!PlayInv /\ stage' \in {"grow", "built"}
    <3>1. CASE stage = "idle"
      <4>1. PP!Construct
        BY <2>1, <3>1 DEF PP!Grow, PP!Finish
      <4>. QED  BY <3>1, <4>1 DEF PP!Construct, PP!StartInv, PP!PlayInv, PlaysInv
    <3>2. CASE stage # "idle"
      BY <2>1, <3>2 DEF PP!Construct, PP!Grow, PP!Finish, PlaysInv
    <3>. QED  BY <3>1, <3>2
  <2>4. PP!StartInv' /\ PP!BuiltInv' /\ PP!PlayInv'
    BY <1>1, <2>1, <2>2, <2>3, PP!ConstructSafe, PlayAssumptions
  <2>. QED  BY <1>4, <2>1, <2>2, <2>3, <2>4 DEF PlaysInv
<1>5. CASE stage = "built" /\ PlayNext
  <2>1. PP!PlayNext /\ UNCHANGED <<vars, stage, reachable, built>>
    BY <1>5, PlaySteps DEF PlayNext
  <2>2. UNCHANGED PP!given /\ UNCHANGED <<pc, strategy, stage>>
    BY <1>3, <2>1 DEF PP!given
  <2>3. PP!StartInv /\ PP!BuiltInv /\ PP!PlayInv /\ strategy # NoStrategy /\ pc = "done"
    BY <1>5 DEF PlaysInv
  <2>4. PP!PlayInv'
    BY <1>1, <1>5, <2>1, <2>2, <2>3, PP!PlaySafe, PlayAssumptions
  <2>5. PP!StartInv' /\ PP!BuiltInv'
    BY <2>2, <2>3, PP!GivenKeep, PlayAssumptions
  <2>. QED  BY <1>5, <2>2, <2>3, <2>4, <2>5 DEF PlaysInv
<1>6. CASE UNCHANGED allVars
  <2>1. UNCHANGED <<PP!given, PP!playVars>> /\ UNCHANGED <<pc, strategy, stage, turn, winner>>
    BY <1>3, <1>6 DEF allVars, PP!given, PP!playVars, playVars
  <2>2. CASE stage = "idle"
    BY <2>1, <2>2 DEF PlaysInv
  <2>3. CASE stage # "idle"
    <3>1. PP!StartInv /\ PP!BuiltInv /\ PP!PlayInv
      BY <2>3 DEF PlaysInv
    <3>2. PP!StartInv' /\ PP!BuiltInv' /\ PP!PlayInv'
      BY <2>1, <3>1, PP!StutterSafe, PlayAssumptions
    <3>. QED  BY <2>1, <2>3, <3>2 DEF PlaysInv
  <2>. QED  BY <2>2, <2>3
<1>. QED  BY <1>2, <1>4, <1>5, <1>6 DEF ComposedNext

LEMMA ComposedInvariants ==
    ASSUME \A sp \in Specs : OnlyTrue(sp)
    PROVE  ComposedSpec => [](AlgorithmInv /\ PlaysInv)
<1>1. ComposedInit => Init /\ PlaysInv
  BY DEF ComposedInit, PlaysInv, S!PlayInit
<1>2. [ComposedNext]_allVars => [Next]_vars
  BY DEF ComposedNext, AlgorithmNext, ConstructNext, PlayNext, allVars
<1>3. Init => AlgorithmInv
  BY IInvInit, LayersInit DEF AlgorithmInv
<1>4. AlgorithmInv /\ [Next]_vars => AlgorithmInv'
  BY IInvStep, LayersStep DEF AlgorithmInv
<1>. QED  BY <1>1, <1>2, <1>3, <1>4, PlaysInvStep, PTL DEF ComposedSpec

(* The promise of a printed strategy of a Buchi game, for every game,      *)
(* conditions, player and option: with whatever value of jx it starts, the *)
(* follower always has a printed move, so that it cannot lose by being     *)
(* stuck; cutting the moves down to reachable states loses none it needs.  *)
THEOREM BuchiFollowerNeverStuck ==
    ASSUME \A sp \in Specs : OnlyTrue(sp)
    PROVE  ComposedSpec => []OwnerNeverStuck
<1>1. PlaysInv => OwnerNeverStuck
  BY DEF PlaysInv, OwnerNeverStuck, PP!PlayInv, PP!owner, S!owner
<1>. QED  BY <1>1, ComposedInvariants, PTL

(* Nor does the play ever leave the states that are won: from wherever it  *)
(* has got to, the conditions can still be met again and again.            *)
THEOREM BuchiFollowerStaysWinning ==
    ASSUME \A sp \in Specs : OnlyTrue(sp)
    PROVE  ComposedSpec => [](turn \in {"one", "two"} => pos \in WinRegion(game, spec))
<1>1. AlgorithmInv /\ PlaysInv => (turn \in {"one", "two"} => pos \in WinRegion(game, spec))
  <2>. SUFFICES ASSUME AlgorithmInv, PlaysInv, turn \in {"one", "two"}
                PROVE  pos \in WinRegion(game, spec)
    OBVIOUS
  <2>1. /\ strategy # NoStrategy /\ PP!PlayInv /\ pc = "done"
        /\ IInv /\ StrategyInv
    BY DEF PlaysInv, AlgorithmInv
  <2>2. PP!Inits # {} /\ pos \in PP!winning
    BY <2>1 DEF PP!PlayInv, PP!Home
  <2>3. ~isSomeInitFalse /\ PP!winning = Z
    BY <2>1, <2>2, ArgsAreGood, PlayDefinitions DEF PP!Inits, isSomeInitFalse
  <2>4. Z = WinRegion(game, spec)
    BY <2>1, <2>3 DEF IInv, VerdictIsRight, StrategyInv
  <2>. QED  BY <2>2, <2>3, <2>4
<1>. QED  BY <1>1, ComposedInvariants, PTL
=============================================================================
