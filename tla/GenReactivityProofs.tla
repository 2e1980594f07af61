------------------------ MODULE GenReactivityProofs ------------------------
(***************************************************************************)
(* Theorems about the generalized reactivity algorithm, its strategies and *)
(* the cores computed with it, for every set of games, of specifications   *)
(* and every size of the players' domains.  The algorithm first: its       *)
(* loops, and that its answer is right from whatever sound approximations  *)
(* it starts; then the lists the loops leave for the strategy, and the     *)
(* plays in which it is followed; then what the constraints that are       *)
(* dropped change in a game, and the minimisation, of which every check is *)
(* a run of the algorithm.                                                 *)
(***************************************************************************)
EXTENDS ReactivityPlay, CoreMinimization, GameMeaningProofs, WellFoundedInduction

-----------------------------------------------------------------------------
(* The sets of the triple fixed point, with CanForce for the image.        *)

(* States the player can keep out of "fair" from, until it is in "base";   *)
(* those it can do so from for one of the assumptions; what a pass on Y    *)
(* starts from; and the states a guarantee is served from.                 *)
StayIn(g, plr, base, fair) ==
    UNION {T \in SUBSET Invar(g) : T \subseteq base \cup (CanForce(g, T, plr) \ fair)}

Extended(g, plr, As, base) == UNION {StayIn(g, plr, base, As[k]) : k \in DOMAIN As}

Base(g, plr, S, G, T) == (CanForce(g, S, plr) \cap G) \cup CanForce(g, T, plr)

ServedFrom(g, plr, As, S, G) ==
    {s \in States : \A T \in SUBSET Invar(g) :
        Extended(g, plr, As, Base(g, plr, S, G, T)) \subseteq T => s \in T}

(* A set the player can serve every guarantee and come back to.            *)
IsWinning(g, plr, As, Gs, W) ==
    /\ W \subseteq Invar(g)
    /\ \A k \in DOMAIN Gs : W \subseteq ServedFrom(g, plr, As, W, Gs[k])

(* What a run may start from.  An over-approximation keeps all the states   *)
(* that are won and is closed: nothing can be forced into it, and the      *)
(* player cannot keep out of an assumption outside it until it gets there. *)
(* An under-approximation is a winning set in which the player can stay.   *)
SoundOver(g, sp, S) ==
    /\ S \subseteq Invar(g)
    /\ CanForce(g, S, sp.player) \subseteq S
    /\ \A k \in DOMAIN sp.assumptions : StayIn(g, sp.player, S, sp.assumptions[k]) \subseteq S
    /\ WinRegion(g, sp) \subseteq S

SoundUnder(g, sp, S) ==
    /\ IsWinning(g, sp.player, sp.assumptions, sp.guarantees, S)
    /\ S \subseteq CanForce(g, S, sp.player)

-----------------------------------------------------------------------------
(* Where the loops are.                                                    *)

LEMMA PlayerType ==
    ASSUME spec \in SpecType
    PROVE  player \in Players
  BY DEF player, SpecType

LEMMA PreInvar ==
    ASSUME game \in GameType, spec \in SpecType, NEW S
    PROVE  Pre(S) \subseteq Invar(game)
  BY PlayerType, ImageIsForce, ForceInvar DEF Pre

LEMMA PreMonotone ==
    ASSUME game \in GameType, spec \in SpecType, NEW S, NEW T, S \subseteq T
    PROVE  Pre(S) \subseteq Pre(T)
  BY PlayerType, ImageIsForce, ForceMonotone DEF Pre

LEMMA PreIsForce ==
    ASSUME game \in GameType, spec \in SpecType, NEW S
    PROVE  Pre(S) = CanForce(game, S, player)
  BY PlayerType, ImageIsForce DEF Pre

(* Without approximations a run starts from all legal states and from no   *)
(* state.                                                                  *)
LEMMA AllIsOver ==
    ASSUME NEW g, NEW sp
    PROVE  SoundOver(g, sp, Invar(g))
<1>1. WinRegion(g, sp) \subseteq Invar(g)
  BY DEF WinRegion, Images
<1>. QED  BY <1>1, ForceInvar DEF SoundOver, StayIn

LEMMA NoneIsUnder ==
    ASSUME NEW g, NEW sp
    PROVE  SoundUnder(g, sp, {})
  BY DEF SoundUnder, IsWinning

(* What the loops keep true in the modes that only shrink Z, whatever      *)
(* approximations a run starts from.  Nothing can be forced into Z from    *)
(* outside, and Z keeps the under-approximation; a pass on Y begins with   *)
(* all that can be forced into the value it started from, and a pass on X  *)
(* with a set that the pass does not leave.                                *)
InputsKept ==
    /\ game \in GameType
    /\ spec \in SpecType
    /\ earlierTermination \in TerminationModes
    /\ SoundOver(game, spec, overapproxWinStates)
    /\ SoundUnder(game, spec, underapproxWinStates)
    /\ underapproxWinStates \subseteq overapproxWinStates
    /\ i \in Nat

ZClosed ==
    /\ Z \subseteq Invar(game)
    /\ Pre(Z) \subseteq Z
    /\ underapproxWinStates \subseteq Z

YInside ==
    /\ pc \in {"y", "x", "endY"} => underapproxWinStates \subseteq Y /\ Y \subseteq Z
    /\ pc = "endY" => Pre(previousY) \subseteq Y

XInside ==
    pc = "x" =>
        /\ start \subseteq Z
        /\ X \subseteq Z
        /\ Pre(previousY) \subseteq start
        /\ (Pre(X) \ assumptions[i]) \cup start \subseteq X

IInv ==
    /\ InputsKept
    /\ earlierTermination # "CONJUNCT" =>
           /\ InLoops => ZClosed
           /\ YInside
           /\ XInside

LEMMA IInvInit == Init => IInv
<1>. SUFFICES ASSUME Init PROVE IInv
  OBVIOUS
<1>1. InputsKept
  BY TerminationsAssumption, GamesAssumption, SpecsAssumption, AllIsOver, NoneIsUnder
  DEF Init, InputsKept
<1>. QED
  BY <1>1 DEF Init, IInv, InLoops, YInside, XInside

LEMMA IInvStep == IInv /\ [Next]_vars => IInv'
<1>. SUFFICES ASSUME IInv, [Next]_vars PROVE IInv'
  OBVIOUS
<1>1. InputsKept'
  <2>1. UNCHANGED input
    BY DEF Next, Begin, BeginZ, BeginGuarantee, BeginY, IterateX, EndY, EndZ, Leave,
           AssertionFails, Return, vars
  <2>2. i \in Nat
    BY DEF IInv, InputsKept
  <2>3. i' \in Nat
    <3>1. CASE BeginY
      BY <3>1 DEF BeginY
    <3>2. CASE IterateX
      BY <2>2, <3>2 DEF IterateX
    <3>3. CASE ~BeginY /\ ~IterateX
      <4>1. i' = i
        BY <3>3 DEF Next, Begin, BeginZ, BeginGuarantee, EndY, EndZ, Leave,
                    AssertionFails, Return, vars, xVars
      <4>. QED  BY <2>2, <4>1
    <3>. QED  BY <3>1, <3>2, <3>3
  <2>. QED
    BY <2>1, <2>3 DEF IInv, InputsKept, input
<1>2. CASE earlierTermination' = "CONJUNCT"
  BY <1>1, <1>2 DEF IInv
<1>3. CASE earlierTermination' # "CONJUNCT"
  <2>0. /\ earlierTermination # "CONJUNCT"
        /\ InLoops => ZClosed
        /\ YInside
        /\ XInside
        /\ game \in GameType /\ spec \in SpecType
        /\ overapproxWinStates \subseteq Invar(game)
        /\ CanForce(game, overapproxWinStates, player) \subseteq overapproxWinStates
        /\ underapproxWinStates \subseteq overapproxWinStates
        /\ game' = game /\ spec' = spec
        /\ underapproxWinStates' = underapproxWinStates
    BY <1>3 DEF IInv, InputsKept, Next, Begin, BeginZ, BeginGuarantee, BeginY, IterateX, EndY,
                EndZ, Leave, AssertionFails, Return, vars, input, SoundOver, player
  <2>. SUFFICES (InLoops => ZClosed)' /\ YInside' /\ XInside'
    BY <1>1 DEF IInv
  <2>1. CASE Begin
    <3>1. Z' = overapproxWinStates
      BY <2>0, <2>1 DEF Begin, KeptBy
    <3>2. Pre(overapproxWinStates) \subseteq overapproxWinStates
      BY <2>0, PreIsForce
    <3>3. ZClosed'
      BY <2>0, <3>1, <3>2 DEF ZClosed, Pre, player
    <3>. QED  BY <2>1, <3>3 DEF Begin, YInside, XInside
  <2>2. CASE BeginZ
    <3>1. ZClosed'
      BY <2>0, <2>2 DEF BeginZ, InLoops, ZClosed, Pre, player
    <3>. QED  BY <2>2, <3>1 DEF BeginZ, YInside, XInside
  <2>3. CASE BeginGuarantee
    <3>1. ZClosed' /\ Y' = underapproxWinStates' /\ underapproxWinStates' \subseteq Z'
      BY <2>0, <2>3 DEF BeginGuarantee, InLoops, ZClosed, zVars, Pre, player
    <3>. QED  BY <2>3, <3>1 DEF BeginGuarantee, YInside, XInside
  <2>4. CASE BeginY
    <3>1. ZClosed /\ underapproxWinStates \subseteq Y /\ Y \subseteq Z
          /\ Z' = Z /\ Y' = Y /\ previousY' = Y /\ X' = Z
          /\ start' = preImageZAndGuarantee \cup Pre(Y) /\ pc' = "x"
      BY <2>0, <2>4 DEF BeginY, InLoops, YInside, zVars
    <3>2. Pre(Y) \subseteq Pre(Z) /\ preImageZAndGuarantee \subseteq Pre(Z)
      BY <2>0, <3>1, PreMonotone DEF preImageZAndGuarantee
    <3>3. start' \subseteq Z /\ Pre(previousY)' \subseteq start'
      BY <2>0, <3>1, <3>2 DEF ZClosed, Pre, player
    <3>4. ZClosed'
      BY <2>0, <3>1 DEF ZClosed, Pre, player
    <3>5. XInside'
      BY <3>1, <3>3, <3>4 DEF XInside, ZClosed
    <3>. QED  BY <2>0, <3>1, <3>4, <3>5 DEF YInside
  <2>5. CASE IterateX
    <3>. DEFINE tmp == (Pre(X) \ assumptions[i]) \cup start
    <3>1. /\ ZClosed /\ underapproxWinStates \subseteq Y /\ Y \subseteq Z
          /\ start \subseteq Z /\ X \subseteq Z
          /\ Pre(previousY) \subseteq start /\ tmp \subseteq X
          /\ Z' = Z /\ previousY' = previousY /\ assumptions' = assumptions
      BY <2>0, <2>5 DEF IterateX, InLoops, YInside, XInside, zVars
    <3>2. ZClosed' /\ Pre(previousY)' = Pre(previousY)
      BY <2>0, <3>1 DEF ZClosed, Pre, player
    <3>3. CASE X # tmp
      <4>1. X' = tmp /\ Y' = Y /\ start' = start /\ i' = i /\ pc' = "x"
        BY <2>5, <3>3 DEF IterateX
      <4>2. Pre(tmp) \subseteq Pre(X)
        BY <2>0, <3>1, PreMonotone
      <4>3. Pre(X)' = Pre(tmp)
        BY <2>0, <4>1 DEF Pre, player
      <4>4. XInside'
        BY <3>1, <3>2, <4>1, <4>2, <4>3 DEF XInside
      <4>. QED  BY <2>0, <3>1, <3>2, <4>1, <4>4 DEF YInside
    <3>4. CASE X = tmp
      <4>1. Y' = Y \cup X /\ start' = Y'
        BY <2>5, <3>4 DEF IterateX
      <4>2. /\ underapproxWinStates \subseteq Y' /\ Y' \subseteq Z
            /\ Pre(previousY) \subseteq Y'
        BY <3>1, <3>4, <4>1
      <4>3. CASE i < Len(assumptions)
        <5>1. X' = Z /\ pc' = "x"
          BY <2>5, <3>4, <4>3 DEF IterateX
        <5>2. XInside'
          BY <3>1, <3>2, <4>1, <4>2, <5>1 DEF XInside, ZClosed
        <5>. QED  BY <2>0, <3>1, <3>2, <4>2, <5>1, <5>2 DEF YInside
      <4>4. CASE ~(i < Len(assumptions))
        <5>1. pc' = "endY"
          BY <2>5, <3>4, <4>4 DEF IterateX
        <5>. QED  BY <2>0, <3>1, <3>2, <4>2, <5>1 DEF YInside, XInside
      <4>. QED  BY <4>3, <4>4
    <3>. QED  BY <3>3, <3>4
  <2>6. CASE EndY
    <3>1. ZClosed /\ underapproxWinStates \subseteq Y /\ Y \subseteq Z
          /\ Pre(previousY) \subseteq Y
      BY <2>0, <2>6 DEF EndY, InLoops, YInside
    <3>2. CASE previousY = Y \/ Y = Z
      <4>1. Z' = Y /\ pc' \in {"guarantee", "endZ"}
        BY <2>6, <3>2 DEF EndY
      <4>2. Pre(Y) \subseteq Y
        BY <3>1, <3>2 DEF ZClosed
      <4>3. ZClosed'
        BY <2>0, <3>1, <4>1, <4>2 DEF ZClosed, Pre, player
      <4>. QED  BY <4>1, <4>3 DEF YInside, XInside
    <3>3. CASE ~(previousY = Y \/ Y = Z)
      <4>1. Z' = Z /\ Y' = Y /\ pc' = "y"
        BY <2>6, <3>3 DEF EndY
      <4>2. ZClosed'
        BY <2>0, <3>1, <4>1 DEF ZClosed, Pre, player
      <4>. QED  BY <2>0, <3>1, <4>1, <4>2 DEF YInside, XInside
    <3>. QED  BY <3>2, <3>3
  <2>7. CASE EndZ
    <3>1. Z' = Z /\ pc' = "z"
      BY <2>0, <2>7 DEF EndZ, KeptBy
    <3>2. ZClosed'
      BY <2>0, <2>7, <3>1 DEF EndZ, InLoops, ZClosed, Pre, player
    <3>. QED  BY <3>1, <3>2 DEF YInside, XInside
  <2>8. CASE Leave
    <3>1. ZClosed'
      BY <2>0, <2>8 DEF Leave, InLoops, ZClosed, Pre, player
    <3>. QED  BY <2>8, <3>1 DEF Leave, YInside, XInside
  <2>9. CASE AssertionFails
    BY <2>9 DEF AssertionFails, InLoops, YInside, XInside
  <2>10. CASE Return
    <3>1. ZClosed'
      BY <2>0, <2>10 DEF Return, InLoops, ZClosed, zVars, Pre, player
    <3>. QED  BY <2>10, <3>1 DEF Return, YInside, XInside
  <2>11. CASE UNCHANGED vars
    BY <2>0, <2>11 DEF vars, input, zVars, yVars, xVars, InLoops, ZClosed, YInside,
                       XInside, Pre, player
  <2>. QED
    BY <2>1, <2>2, <2>3, <2>4, <2>5, <2>6, <2>7, <2>8, <2>9, <2>10, <2>11 DEF Next
<1>. QED  BY <1>2, <1>3

LEMMA IInvAlways == Spec => []IInv
  BY IInvInit, IInvStep, PTL DEF Spec

(* "Y cannot be > Z" (the comment on the early termination of the loop on  *)
(* Y) holds for every game and specification: Z stays closed, and the      *)
(* values of Y, X and start stay in it.                                    *)
THEOREM YNeverLeavesZ == Spec => []YWithinZ
<1>1. IInv => YWithinZ
  BY DEF IInv, YWithinZ, ZClosed, YInside, XInside
<1>. QED  BY <1>1, IInvAlways, PTL

(* A pass of the loop on X only takes states away, so that it is a         *)
(* greatest fixed point and ends.                                          *)
THEOREM XShrinks == Spec => XOnlyShrinks
<1>1. IInv /\ [Next]_vars =>
          [pc = "x" /\ pc' = "x" /\ i' = i /\ earlierTermination # "CONJUNCT"
               => X' \subseteq X]_vars
  <2>. SUFFICES ASSUME IInv, Next, pc = "x", pc' = "x", i' = i,
                       earlierTermination # "CONJUNCT"
                PROVE  X' \subseteq X
    OBVIOUS
  <2>1. IterateX
    BY DEF Next, Begin, BeginZ, BeginGuarantee, BeginY, EndY, EndZ, Leave,
           AssertionFails, Return
  <2>2. X' = (Pre(X) \ assumptions[i]) \cup start
    BY <2>1 DEF IterateX, IInv, InputsKept
  <2>. QED  BY <2>2 DEF IInv, XInside
<1>. QED  BY <1>1, IInvAlways, PTL DEF Spec, XOnlyShrinks

-----------------------------------------------------------------------------
(* What is left of the conditions when TRUE and FALSE are dropped.         *)

LEMMA CountingUp ==
    ASSUME NEW S, 0 \in S, \A n \in Nat : n \in S => n + 1 \in S
    PROVE  Nat \subseteq S
<1>. DEFINE T == Nat \ S
<1>1. CASE T # {}
  <2>1. T \subseteq Nat
    OBVIOUS
  <2>2. PICK x \in T : \A y \in T : ~(<<y, x>> \in OpToRel(<, Nat))
    <3>. HIDE DEF T
    <3>. QED  BY <1>1, <2>1, NatLessThanWellFounded, WFMin
  <2>3. \A y \in T : ~(y < x)
    <3>1. \A y \in T : y \in Nat /\ x \in Nat
      BY <2>1
    <3>. HIDE DEF T
    <3>. QED  BY <2>2, <3>1 DEF OpToRel
  <2>4. x # 0 /\ x - 1 \in Nat /\ x - 1 < x /\ x = (x - 1) + 1
    <3>1. x \in Nat /\ x # 0
      BY <2>1
    <3>. QED  BY <3>1
  <2>5. x - 1 \in S
    BY <2>3, <2>4
  <2>. QED  BY <2>2, <2>4, <2>5
<1>. QED  BY <1>1

(* The walk over the list, which a function on 0 .. n describes.           *)
LEMMA WalkExists ==
    ASSUME NEW legal, NEW n \in Nat
    PROVE  \E f : f = [k \in 0 .. n |-> IF k = 0 THEN << >>
                                        ELSE IF legal[k] = States THEN f[k - 1]
                                        ELSE Append(f[k - 1], legal[k])]
<1>. DEFINE E(m, f) == f = [k \in 0 .. m |-> IF k = 0 THEN << >>
                                             ELSE IF legal[k] = States THEN f[k - 1]
                                             ELSE Append(f[k - 1], legal[k])]
            S == {m \in Nat : \E f : E(m, f)}
<1>1. 0 \in S
  <2>1. E(0, [k \in 0 .. 0 |-> << >>])
    OBVIOUS
  <2>. QED  BY <2>1
<1>2. ASSUME NEW m \in Nat, m \in S
      PROVE  m + 1 \in S
  <2>1. PICK f : E(m, f)
    BY <1>2
  <2>. DEFINE g == [k \in 0 .. m + 1 |->
                      IF k # m + 1 THEN f[k]
                      ELSE IF legal[k] = States THEN f[m] ELSE Append(f[m], legal[k])]
  <2>2. ASSUME NEW k \in 0 .. m + 1
        PROVE  g[k] = IF k = 0 THEN << >>
                      ELSE IF legal[k] = States THEN g[k - 1]
                      ELSE Append(g[k - 1], legal[k])
    <3>1. CASE k = m + 1
      <4>1. k # 0 /\ k - 1 = m /\ m \in 0 .. m + 1 /\ m # m + 1
        BY <3>1
      <4>2. g[k - 1] = f[m]
        BY <4>1
      <4>. QED  BY <3>1, <4>1, <4>2
    <3>2. CASE k = 0
      BY <2>1, <3>2
    <3>3. CASE k # m + 1 /\ k # 0
      <4>1. k \in 0 .. m /\ k - 1 \in 0 .. m + 1 /\ k - 1 # m + 1
        BY <3>3
      <4>2. g[k] = f[k] /\ g[k - 1] = f[k - 1]
        BY <3>3, <4>1
      <4>3. f[k] = IF legal[k] = States THEN f[k - 1] ELSE Append(f[k - 1], legal[k])
        BY <2>1, <3>3, <4>1
      <4>. QED  BY <3>3, <4>2, <4>3
    <3>. QED  BY <3>1, <3>2, <3>3
  <2>3. E(m + 1, g)
    <3>1. g = [k \in 0 .. m + 1 |-> g[k]]
      OBVIOUS
    <3>. HIDE DEF g
    <3>. QED  BY <2>2, <3>1
  <2>. QED
    <3>. HIDE DEF E
    <3>. QED  BY <2>3
<1>3. n \in S
  <2>. HIDE DEF S
  <2>. QED  BY <1>1, <1>2, CountingUp
<1>. QED  BY <1>3

(* The walk has kept the conditions up to m that are not TRUE, and nothing *)
(* else.                                                                   *)
Kept(legal, kept, m) ==
    /\ \A p \in DOMAIN kept : \E k \in 1 .. m : kept[p] = legal[k]
    /\ \A k \in 1 .. m : legal[k] # States => \E p \in DOMAIN kept : kept[p] = legal[k]

LEMMA AppendKeeps ==
    ASSUME NEW legal, NEW C, NEW m \in Nat, NEW kept \in Seq(C), legal[m + 1] \in C,
           Kept(legal, kept, m)
    PROVE  /\ Append(kept, legal[m + 1]) \in Seq(C)
           /\ Kept(legal, Append(kept, legal[m + 1]), m + 1)
<1>. DEFINE e == legal[m + 1]
            s == Append(kept, e)
<1>1. /\ s \in Seq(C)
      /\ Len(kept) \in Nat
      /\ DOMAIN kept = 1 .. Len(kept)
      /\ DOMAIN s = 1 .. Len(kept) + 1
      /\ \A p \in 1 .. Len(kept) : s[p] = kept[p]
      /\ s[Len(kept) + 1] = e
  <2>1. e \in C
    OBVIOUS
  <2>. HIDE DEF e
  <2>. QED  BY <2>1
<1>2. 1 .. m + 1 = (1 .. m) \cup {m + 1}
  OBVIOUS
<1>. HIDE DEF s
<1>3. ASSUME NEW p \in DOMAIN s
      PROVE  \E k \in 1 .. m + 1 : s[p] = legal[k]
  <2>1. p \in 1 .. Len(kept) \/ p = Len(kept) + 1
    BY <1>1
  <2>2. CASE p \in 1 .. Len(kept)
    <3>1. PICK k \in 1 .. m : kept[p] = legal[k]
      BY <1>1, <2>2 DEF Kept
    <3>. QED  BY <1>1, <1>2, <2>2, <3>1
  <2>3. CASE p = Len(kept) + 1
    <3>1. s[p] = legal[m + 1] /\ m + 1 \in 1 .. m + 1
      BY <1>1, <1>2, <2>3
    <3>. QED  BY <3>1
  <2>. QED  BY <2>1, <2>2, <2>3
<1>4. ASSUME NEW k \in 1 .. m + 1, legal[k] # States
      PROVE  \E p \in DOMAIN s : s[p] = legal[k]
  <2>1. CASE k \in 1 .. m
    <3>1. PICK p \in DOMAIN kept : kept[p] = legal[k]
      BY <1>4, <2>1 DEF Kept
    <3>2. p \in DOMAIN s /\ s[p] = legal[k]
      BY <1>1, <3>1
    <3>. QED  BY <3>2
  <2>2. CASE k = m + 1
    <3>1. Len(kept) + 1 \in DOMAIN s /\ s[Len(kept) + 1] = legal[k]
      BY <1>1, <2>2
    <3>. QED  BY <3>1
  <2>. QED  BY <1>2, <2>1, <2>2
<1>5. Kept(legal, s, m + 1)
  BY <1>3, <1>4 DEF Kept
<1>. QED  BY <1>1, <1>5 DEF s

LEMMA WalkKeeps ==
    ASSUME NEW legal, NEW n \in Nat, NEW f,
           f = [k \in 0 .. n |-> IF k = 0 THEN << >>
                                 ELSE IF legal[k] = States THEN f[k - 1]
                                 ELSE Append(f[k - 1], legal[k])],
           NEW C, \A k \in 1 .. n : legal[k] \in C
    PROVE  f[n] \in Seq(C) /\ Kept(legal, f[n], n)
<1>. DEFINE S == {m \in Nat : m <= n => f[m] \in Seq(C) /\ Kept(legal, f[m], m)}
<1>1. 0 \in S
  <2>1. f[0] = << >>
    BY 0 \in 0 .. n
  <2>2. Kept(legal, << >>, 0)
    BY DEF Kept
  <2>. QED  BY <2>1, <2>2
<1>2. ASSUME NEW m \in Nat, m \in S
      PROVE  m + 1 \in S
  <2>1. CASE m + 1 <= n
    <3>1. /\ f[m] \in Seq(C) /\ Kept(legal, f[m], m)
          /\ m + 1 \in 1 .. n /\ m + 1 \in 0 .. n /\ m + 1 # 0 /\ (m + 1) - 1 = m
      BY <1>2, <2>1
    <3>2. f[m + 1] = IF legal[m + 1] = States THEN f[m] ELSE Append(f[m], legal[m + 1])
      BY <3>1
    <3>3. f[m + 1] \in Seq(C) /\ Kept(legal, f[m + 1], m + 1)
      <4>1. CASE legal[m + 1] = States
        <5>1. 1 .. m + 1 = (1 .. m) \cup {m + 1}
          OBVIOUS
        <5>2. Kept(legal, f[m], m + 1)
          BY <3>1, <4>1, <5>1 DEF Kept
        <5>. QED  BY <3>1, <3>2, <4>1, <5>2
      <4>2. CASE legal[m + 1] # States
        BY <3>1, <3>2, <4>2, AppendKeeps
      <4>. QED  BY <4>1, <4>2
    <3>. QED  BY <3>3
  <2>2. CASE ~(m + 1 <= n)
    BY <2>2
  <2>. QED  BY <2>1, <2>2
<1>3. n \in S
  <2>. HIDE DEF S
  <2>. QED  BY <1>1, <1>2, CountingUp
<1>. QED  BY <1>3
-----------------------------------------------------------------------------
(* The theory of the triple fixed point, with CanForce for the image.      *)

LEMMA SpecParts ==
    ASSUME NEW sp \in SpecType
    PROVE  /\ sp.player \in Players
           /\ sp.assumptions \in Seq(SUBSET States) /\ Len(sp.assumptions) \in Nat \ {0}
           /\ sp.guarantees \in Seq(SUBSET States) /\ Len(sp.guarantees) \in Nat \ {0}
<1>1. \A q \in Seq(SUBSET States) \ {<< >>} : Len(q) \in Nat \ {0}
  OBVIOUS
<1>. QED  BY <1>1 DEF SpecType, NonEmptySeq

LEMMA BaseLegal ==
    ASSUME NEW g, NEW plr, NEW S, NEW G, NEW T
    PROVE  Base(g, plr, S, G, T) \in SUBSET Invar(g)
  BY ForceInvar DEF Base

LEMMA BaseMonotone ==
    ASSUME NEW g, NEW plr, NEW S, NEW S2, S \subseteq S2, NEW T, NEW T2, T \subseteq T2,
           NEW G, NEW G2, G \cap Invar(g) \subseteq G2
    PROVE  Base(g, plr, S, G, T) \subseteq Base(g, plr, S2, G2, T2)
<1>1. /\ CanForce(g, S, plr) \subseteq CanForce(g, S2, plr)
      /\ CanForce(g, T, plr) \subseteq CanForce(g, T2, plr)
      /\ CanForce(g, S, plr) \subseteq Invar(g)
  BY ForceMonotone, ForceInvar
<1>. QED  BY <1>1 DEF Base

(* Only what is legal counts of an assumption.                             *)
LEMMA StayMonotone ==
    ASSUME NEW g, NEW plr, NEW base, NEW base2, base \subseteq base2,
           NEW fair, NEW fair2, fair2 \cap Invar(g) \subseteq fair
    PROVE  StayIn(g, plr, base, fair) \subseteq StayIn(g, plr, base2, fair2)
<1>1. \A T : CanForce(g, T, plr) \subseteq Invar(g)
  BY ForceInvar
<1>. QED  BY <1>1 DEF StayIn

LEMMA StayLegal ==
    ASSUME NEW g, NEW plr, NEW base, NEW fair
    PROVE  StayIn(g, plr, base, fair) \subseteq Invar(g)
  BY DEF StayIn

LEMMA ExtendedMonotone ==
    ASSUME NEW g, NEW plr, NEW As, NEW base, NEW base2, base \subseteq base2
    PROVE  Extended(g, plr, As, base) \subseteq Extended(g, plr, As, base2)
<1>1. \A k \in DOMAIN As :
          StayIn(g, plr, base, As[k]) \subseteq StayIn(g, plr, base2, As[k])
  BY StayMonotone
<1>. QED  BY <1>1 DEF Extended

(* A larger goal and a larger guarantee are served from more states.       *)
LEMMA ServedMonotone ==
    ASSUME NEW g, NEW plr, NEW As, NEW S, NEW S2, S \subseteq S2,
           NEW G, NEW G2, G \cap Invar(g) \subseteq G2
    PROVE  ServedFrom(g, plr, As, S, G) \subseteq ServedFrom(g, plr, As, S2, G2)
<1>1. ASSUME NEW T
      PROVE  Extended(g, plr, As, Base(g, plr, S, G, T))
                 \subseteq Extended(g, plr, As, Base(g, plr, S2, G2, T))
  BY BaseMonotone, ExtendedMonotone
<1>. QED  BY <1>1 DEF ServedFrom

(* Assumptions that are at least as hard to keep out of can take the       *)
(* place of others.                                                        *)
LEMMA ExtendedByFewer ==
    ASSUME NEW g, NEW plr, NEW As, NEW Bs, NEW base,
           \A k \in DOMAIN As : \E m \in DOMAIN Bs : Bs[m] \cap Invar(g) \subseteq As[k]
    PROVE  Extended(g, plr, As, base) \subseteq Extended(g, plr, Bs, base)
<1>1. ASSUME NEW k \in DOMAIN As
      PROVE  \E m \in DOMAIN Bs : StayIn(g, plr, base, As[k]) \subseteq StayIn(g, plr, base, Bs[m])
  BY StayMonotone
<1>. QED  BY <1>1 DEF Extended

LEMMA ServeIsServed ==
    ASSUME NEW g \in GameType, NEW plr, NEW As, NEW G, NEW S \in SUBSET Invar(g)
    PROVE  Serve(Images(g, plr), As, G, S) = ServedFrom(g, plr, As, S, G)
<1>. DEFINE pre == Images(g, plr)
            Extend(T) == UNION {Stay(pre, (pre[S] \cap G) \cup pre[T], As[k]) : k \in DOMAIN As}
<1>1. /\ DOMAIN pre = SUBSET Invar(g)
      /\ \A T \in SUBSET Invar(g) : pre[T] = CanForce(g, T, plr)
  BY DEF Images
<1>. HIDE DEF pre
<1>2. ASSUME NEW base, NEW fair
      PROVE  Stay(pre, base, fair) = StayIn(g, plr, base, fair)
  BY <1>1 DEF Stay, StayIn
<1>3. ASSUME NEW T \in SUBSET Invar(g)
      PROVE  Extend(T) = Extended(g, plr, As, Base(g, plr, S, G, T))
  <2>1. (pre[S] \cap G) \cup pre[T] = Base(g, plr, S, G, T)
    BY <1>1 DEF Base
  <2>2. \A k \in DOMAIN As : Stay(pre, (pre[S] \cap G) \cup pre[T], As[k])
                                 = StayIn(g, plr, Base(g, plr, S, G, T), As[k])
    BY <1>2, <2>1
  <2>. QED  BY <2>2 DEF Extended
<1>4. Serve(pre, As, G, S)
          = {s \in States : \A T \in {T \in DOMAIN pre : Extend(T) \subseteq T} : s \in T}
  BY DEF Serve
<1>. HIDE DEF Extend
<1>5. Serve(pre, As, G, S) = ServedFrom(g, plr, As, S, G)
  BY <1>1, <1>3, <1>4 DEF ServedFrom
<1>. QED  BY <1>5 DEF pre

(* The states that are won are the greatest winning set.                   *)
LEMMA WinningIsWon ==
    ASSUME NEW g \in GameType, NEW sp \in SpecType, NEW W
    PROVE  /\ IsWinning(g, sp.player, sp.assumptions, sp.guarantees, W)
                  => W \subseteq WinRegion(g, sp)
           /\ IsWinning(g, sp.player, sp.assumptions, sp.guarantees, WinRegion(g, sp))
<1>. DEFINE pre == Images(g, sp.player)
            Wins(Z1) == IsWinning(g, sp.player, sp.assumptions, sp.guarantees, Z1)
            All == {Z1 \in SUBSET Invar(g) : Wins(Z1)}
<1>1. DOMAIN pre = SUBSET Invar(g)
  BY DEF Images
<1>2. \A Z1 \in SUBSET Invar(g) :
          (\A k \in DOMAIN sp.guarantees :
               Z1 \subseteq Serve(pre, sp.assumptions, sp.guarantees[k], Z1)) <=> Wins(Z1)
  BY ServeIsServed DEF IsWinning
<1>3. WinRegion(g, sp) = UNION All
  <2>1. WinRegion(g, sp) = UNION {Z1 \in DOMAIN pre : \A k \in DOMAIN sp.guarantees :
            Z1 \subseteq Serve(pre, sp.assumptions, sp.guarantees[k], Z1)}
    BY DEF WinRegion
  <2>2. {Z1 \in DOMAIN pre : \A k \in DOMAIN sp.guarantees :
            Z1 \subseteq Serve(pre, sp.assumptions, sp.guarantees[k], Z1)} = All
    <3>. HIDE DEF pre, Wins
    <3>. QED  BY <1>1, <1>2
  <2>. QED  BY <2>1, <2>2
<1>4. Wins(W) => W \subseteq UNION All
  BY DEF IsWinning
<1>5. Wins(UNION All)
  <2>1. ASSUME NEW Z1 \in All, NEW k \in DOMAIN sp.guarantees
        PROVE  Z1 \subseteq ServedFrom(g, sp.player, sp.assumptions, UNION All, sp.guarantees[k])
    <3>1. Z1 \subseteq UNION All
      OBVIOUS
    <3>2. ServedFrom(g, sp.player, sp.assumptions, Z1, sp.guarantees[k])
              \subseteq ServedFrom(g, sp.player, sp.assumptions, UNION All, sp.guarantees[k])
      <4>. HIDE DEF All
      <4>. QED  BY <3>1, ServedMonotone
    <3>. QED  BY <3>2 DEF IsWinning
  <2>2. UNION All \subseteq Invar(g)
    OBVIOUS
  <2>. QED
    <3>. HIDE DEF Wins
    <3>1. \A k \in DOMAIN sp.guarantees :
              UNION All \subseteq ServedFrom(g, sp.player, sp.assumptions, UNION All, sp.guarantees[k])
      <4>. HIDE DEF All
      <4>. QED  BY <2>1
    <3>. QED  BY <2>2, <3>1 DEF IsWinning, Wins
<1>. QED  BY <1>3, <1>4, <1>5

(* Dropping conditions changes no meaning: what is left are legal parts of *)
(* the conditions as written, and every condition as written contains one. *)
LEMMA NormalizeKeeps ==
    ASSUME game \in GameType, NEW exps \in Seq(SUBSET States), Len(exps) \in Nat \ {0}
    PROVE  /\ Normalize(exps, Invar(game)) \in Seq(SUBSET States)
           /\ Len(Normalize(exps, Invar(game))) \in Nat \ {0}
           /\ \A m \in DOMAIN Normalize(exps, Invar(game)) : \E k \in DOMAIN exps :
                  Normalize(exps, Invar(game))[m] = exps[k] \cap Invar(game)
           /\ \A k \in DOMAIN exps : \E m \in DOMAIN Normalize(exps, Invar(game)) :
                  Normalize(exps, Invar(game))[m] \subseteq exps[k] \cap Invar(game)
<1>. DEFINE n == Len(exps)
            legal == [k \in DOMAIN exps |-> exps[k] \cap Invar(game)]
            Walk(f) == f = [k \in 0 .. n |-> IF k = 0 THEN << >>
                                             ELSE IF legal[k] = States THEN f[k - 1]
                                             ELSE Append(f[k - 1], legal[k])]
            proper == CHOOSE f : Walk(f)
            N == IF \E k \in DOMAIN exps : legal[k] = {} THEN <<{}>>
                 ELSE IF proper[n] = << >> THEN <<States>>
                 ELSE proper[n]
<1>1. Normalize(exps, Invar(game)) = N
  BY DEF Normalize
<1>2. /\ n \in Nat \ {0} /\ DOMAIN exps = 1 .. n /\ 1 \in DOMAIN exps
      /\ \A k \in 1 .. n : legal[k] = exps[k] \cap Invar(game) /\ legal[k] \in SUBSET States
  OBVIOUS
<1>3. Walk(proper)
  <2>1. \E f : Walk(f)
    <3>. HIDE DEF legal, n
    <3>. QED  BY <1>2, WalkExists
  <2>. HIDE DEF Walk
  <2>. QED  BY <2>1
<1>4. proper[n] \in Seq(SUBSET States) /\ Kept(legal, proper[n], n)
  <2>. HIDE DEF legal, n, proper
  <2>. QED  BY <1>2, <1>3, WalkKeeps
<1>5. /\ N \in Seq(SUBSET States) /\ Len(N) \in Nat \ {0}
      /\ \A m \in DOMAIN N : \E k \in 1 .. n : N[m] = legal[k]
      /\ \A k \in 1 .. n : \E m \in DOMAIN N : N[m] \subseteq legal[k]
  <2>. HIDE DEF legal, n, proper
  <2>1. CASE \E k \in DOMAIN exps : legal[k] = {}
    <3>1. N = <<{}>> /\ DOMAIN N = {1} /\ N[1] = {} /\ Len(N) = 1
      BY <2>1
    <3>. HIDE DEF N
    <3>2. N \in Seq(SUBSET States)
      BY <3>1
    <3>3. \A m \in DOMAIN N : \E k \in 1 .. n : N[m] = legal[k]
      BY <1>2, <2>1, <3>1
    <3>4. \A k \in 1 .. n : 1 \in DOMAIN N /\ N[1] \subseteq legal[k]
      BY <3>1
    <3>. QED  BY <3>1, <3>2, <3>3, <3>4
  <2>2. CASE ~(\E k \in DOMAIN exps : legal[k] = {}) /\ proper[n] = << >>
    <3>1. N = <<States>> /\ DOMAIN N = {1} /\ N[1] = States /\ Len(N) = 1
      BY <2>2
    <3>2. \A k \in 1 .. n : legal[k] = States
      BY <1>4, <2>2 DEF Kept
    <3>. HIDE DEF N
    <3>3. N \in Seq(SUBSET States)
      BY <3>1
    <3>4. 1 \in 1 .. n /\ \A m \in DOMAIN N : N[m] = legal[1]
      BY <1>2, <3>1, <3>2
    <3>5. \A k \in 1 .. n : 1 \in DOMAIN N /\ N[1] \subseteq legal[k]
      BY <3>1, <3>2
    <3>. QED  BY <3>1, <3>3, <3>4, <3>5
  <2>3. CASE ~(\E k \in DOMAIN exps : legal[k] = {}) /\ proper[n] # << >>
    <3>1. N = proper[n]
      BY <2>3
    <3>2. N \in Seq(SUBSET States) /\ N # << >> /\ Kept(legal, N, n)
      BY <1>4, <2>3, <3>1
    <3>. HIDE DEF N
    <3>3. Len(N) \in Nat \ {0} /\ DOMAIN N = 1 .. Len(N) /\ 1 \in DOMAIN N
      BY <3>2
    <3>4. ASSUME NEW k \in 1 .. n
          PROVE  \E m \in DOMAIN N : N[m] \subseteq legal[k]
      <4>1. CASE legal[k] = States
        <5>1. N[1] \in SUBSET States
          BY <3>2, <3>3
        <5>. QED  BY <3>3, <4>1, <5>1
      <4>2. CASE legal[k] # States
        BY <3>2, <4>2 DEF Kept
      <4>. QED  BY <4>1, <4>2
    <3>. QED  BY <3>2, <3>3, <3>4 DEF Kept
  <2>. QED  BY <2>1, <2>2, <2>3
<1>. HIDE DEF N, legal
<1>. QED  BY <1>1, <1>2, <1>5

(* A set is winning for what is left exactly when it is for the conditions *)
(* as written.                                                             *)
LEMMA NormalizedWinning ==
    ASSUME game \in GameType, spec \in SpecType, NEW W
    PROVE  IsWinning(game, player, Normalize(spec.assumptions, Invar(game)), Normalize(spec.guarantees, Invar(game)), W)
               <=> IsWinning(game, player, spec.assumptions, spec.guarantees, W)
<1>. DEFINE As == spec.assumptions
            Gs == spec.guarantees
            An == Normalize(As, Invar(game))
            Gn == Normalize(Gs, Invar(game))
<1>1. /\ \A m \in DOMAIN An : \E k \in DOMAIN As : An[m] = As[k] \cap Invar(game)
      /\ \A k \in DOMAIN As : \E m \in DOMAIN An : An[m] \subseteq As[k] \cap Invar(game)
      /\ \A m \in DOMAIN Gn : \E k \in DOMAIN Gs : Gn[m] = Gs[k] \cap Invar(game)
      /\ \A k \in DOMAIN Gs : \E m \in DOMAIN Gn : Gn[m] \subseteq Gs[k] \cap Invar(game)
  <2>1. /\ As \in Seq(SUBSET States) /\ Len(As) \in Nat \ {0}
        /\ Gs \in Seq(SUBSET States) /\ Len(Gs) \in Nat \ {0}
    BY SpecParts
  <2>. HIDE DEF As, Gs
  <2>. QED  BY <2>1, NormalizeKeeps
<1>. HIDE DEF As, Gs, An, Gn
<1>2. ASSUME NEW base
      PROVE  Extended(game, player, An, base) = Extended(game, player, As, base)
  <2>1. /\ \A m \in DOMAIN An : \E k \in DOMAIN As : As[k] \cap Invar(game) \subseteq An[m]
        /\ \A k \in DOMAIN As : \E m \in DOMAIN An : An[m] \cap Invar(game) \subseteq As[k]
    BY <1>1
  <2>2. Extended(game, player, An, base) \subseteq Extended(game, player, As, base)
    BY <2>1, ExtendedByFewer
  <2>3. Extended(game, player, As, base) \subseteq Extended(game, player, An, base)
    BY <2>1, ExtendedByFewer
  <2>. QED  BY <2>2, <2>3
<1>3. ASSUME NEW S, NEW G
      PROVE  ServedFrom(game, player, An, S, G) = ServedFrom(game, player, As, S, G)
  BY <1>2 DEF ServedFrom
<1>4. \A m \in DOMAIN Gn : \E k \in DOMAIN Gs :
          ServedFrom(game, player, As, W, Gs[k]) \subseteq ServedFrom(game, player, As, W, Gn[m])
  <2>1. \A m \in DOMAIN Gn : \E k \in DOMAIN Gs : Gs[k] \cap Invar(game) \subseteq Gn[m]
    BY <1>1
  <2>. QED  BY <2>1, ServedMonotone
<1>5. \A k \in DOMAIN Gs : \E m \in DOMAIN Gn :
          ServedFrom(game, player, As, W, Gn[m]) \subseteq ServedFrom(game, player, As, W, Gs[k])
  <2>1. \A k \in DOMAIN Gs : \E m \in DOMAIN Gn : Gn[m] \cap Invar(game) \subseteq Gs[k]
    BY <1>1
  <2>. QED  BY <2>1, ServedMonotone
<1>6. IsWinning(game, player, An, Gn, W) <=> IsWinning(game, player, As, Gs, W)
  BY <1>3, <1>4, <1>5 DEF IsWinning
<1>. QED  BY <1>6 DEF As, Gs, An, Gn

(* Nor does dropping conditions change which sets are closed.              *)
LEMMA NormalizedClosed ==
    ASSUME game \in GameType, spec \in SpecType, NEW S
    PROVE  (\A m \in DOMAIN Normalize(spec.assumptions, Invar(game)) :
                StayIn(game, player, S, Normalize(spec.assumptions, Invar(game))[m]) \subseteq S)
               <=> \A k \in DOMAIN spec.assumptions :
                       StayIn(game, player, S, spec.assumptions[k]) \subseteq S
<1>. DEFINE As == spec.assumptions
            An == Normalize(As, Invar(game))
<1>1. /\ \A m \in DOMAIN An : \E k \in DOMAIN As : An[m] = As[k] \cap Invar(game)
      /\ \A k \in DOMAIN As : \E m \in DOMAIN An : An[m] \subseteq As[k] \cap Invar(game)
  <2>1. As \in Seq(SUBSET States) /\ Len(As) \in Nat \ {0}
    BY SpecParts
  <2>. HIDE DEF As
  <2>. QED  BY <2>1, NormalizeKeeps
<1>. HIDE DEF As, An
<1>2. \A m \in DOMAIN An : \E k \in DOMAIN As :
          StayIn(game, player, S, An[m]) \subseteq StayIn(game, player, S, As[k])
  <2>1. \A m \in DOMAIN An : \E k \in DOMAIN As : As[k] \cap Invar(game) \subseteq An[m]
    BY <1>1
  <2>. QED  BY <2>1, StayMonotone
<1>3. \A k \in DOMAIN As : \E m \in DOMAIN An :
          StayIn(game, player, S, As[k]) \subseteq StayIn(game, player, S, An[m])
  <2>1. \A k \in DOMAIN As : \E m \in DOMAIN An : An[m] \cap Invar(game) \subseteq As[k]
    BY <1>1
  <2>. QED  BY <2>1, StayMonotone
<1>4. (\A m \in DOMAIN An : StayIn(game, player, S, An[m]) \subseteq S)
          <=> \A k \in DOMAIN As : StayIn(game, player, S, As[k]) \subseteq S
  BY <1>2, <1>3
<1>. QED  BY <1>4 DEF As, An

-----------------------------------------------------------------------------
(* The inductive invariant of the verdict, on top of IInv.                 *)

Wins(W) == IsWinning(game, player, assumptions, guarantees, W)

ServedIn(S, k) == ServedFrom(game, player, assumptions, S, guarantees[k])

From(T) == Base(game, player, Z, guarantees[j], T)

ConditionsNormal ==
    pc # "begin" => /\ assumptions = Normalize(spec.assumptions, Invar(game))
                    /\ guarantees = Normalize(spec.guarantees, Invar(game))

(* No winning set is cut from Z, nor can the player keep out of an         *)
(* assumption outside Z until it gets there.                               *)
ZKeepsWinners ==
    /\ \A W : Wins(W) => W \subseteq Z
    /\ \A k \in DOMAIN assumptions : StayIn(game, player, Z, assumptions[k]) \subseteq Z

(* A set in which the player wins and can stay.                            *)
IsFinal(S) == Wins(S) /\ S \subseteq CanForce(game, S, player)

(* The guarantees before n are served from Z, with the Z the pass began    *)
(* with to come back to.                                                   *)
ServedBefore(n) ==
    /\ Z \subseteq previousZ
    /\ \A k \in DOMAIN guarantees : k < n => Z \subseteq ServedIn(previousZ, k)

GuaranteeHolds ==
    /\ pc \in {"guarantee", "y", "x", "endY"} => j \in DOMAIN guarantees /\ ServedBefore(j)
    /\ pc = "endZ" => /\ ServedBefore(Len(guarantees) + 1)
                      /\ Z \subseteq CanForce(game, previousZ, player)

(* All of Y is served, and is what one round brings to Y or serves.        *)
YHolds ==
    /\ pc \in {"y", "x", "endY"} => Y \subseteq ServedIn(Z, j) /\ Y \subseteq From(Y)
    /\ pc = "endY" => Extended(game, player, assumptions, From(previousY)) \subseteq Y

(* X keeps all that a greatest fixed point would have; the assumptions     *)
(* before i have given Y theirs.                                           *)
XHolds ==
    pc = "x" =>
        /\ i \in DOMAIN assumptions
        /\ From(previousY) \subseteq start
        /\ start \subseteq From(Y)
        /\ StayIn(game, player, start, assumptions[i]) \subseteq X
        /\ \A k \in DOMAIN assumptions :
               k < i => StayIn(game, player, From(previousY), assumptions[k]) \subseteq Y

FlagsHold ==
    pc = "z" =>
        /\ isRealizable <=> StillRealizable(Z)
        /\ isZFixpointReached => IsFinal(Z) \/ (isSomeInitFalse /\ earlierTermination # "NONE")

(* Without early termination the loops end with the states that are won.   *)
ResultHolds ==
    pc \in {"strategy", "done"} /\ earlierTermination = "NONE" => IsFinal(Z)

Decided ==
    /\ isRealizable <=> StartsIn(game, WinRegion(game, spec), player, opt)
    /\ ~isSomeInitFalse /\ (earlierTermination = "NONE" \/ isRealizable)
           => Z = WinRegion(game, spec)

WInv ==
    /\ opt \in Quantifiers
    /\ ConditionsNormal
    /\ earlierTermination # "CONJUNCT" =>
           /\ InLoops => ZKeepsWinners
           /\ GuaranteeHolds
           /\ YHolds
           /\ XHolds
           /\ FlagsHold
           /\ ResultHolds
           /\ pc = "strategy" => Decided
           /\ VerdictIsRight

LEMMA WInvInit == Init => WInv
  BY DEF Init, WInv, ConditionsNormal, InLoops, GuaranteeHolds, YHolds, XHolds, FlagsHold,
         ResultHolds, VerdictIsRight

(* What every step leaves alone, and the shape of the conditions.          *)
LEMMA InputsStay ==
    ASSUME IInv, WInv, [Next]_vars
    PROVE  /\ game \in GameType /\ spec \in SpecType /\ opt \in Quantifiers /\ player \in Players
           /\ earlierTermination \in TerminationModes
           /\ game' = game /\ spec' = spec /\ opt' = opt /\ player' = player
           /\ earlierTermination' = earlierTermination
           /\ (isSomeInitFalse <=> isSomeInitFalse')
           /\ \A S : WinsAtInit(S)' <=> WinsAtInit(S)
<1>1. UNCHANGED input
  BY DEF Next, Begin, BeginZ, BeginGuarantee, BeginY, IterateX, EndY, EndZ, Leave,
         AssertionFails, Return, vars
<1>2. game \in GameType /\ spec \in SpecType /\ opt \in Quantifiers
      /\ earlierTermination \in TerminationModes
  BY DEF IInv, InputsKept, WInv
<1>. QED
  BY <1>1, <1>2, PlayerType DEF input, player, isSomeInitFalse, WinsAtInit

LEMMA ConditionsStay ==
    ASSUME IInv, WInv, [Next]_vars, pc # "begin"
    PROVE  assumptions' = assumptions /\ guarantees' = guarantees
  BY DEF Next, Begin, BeginZ, BeginGuarantee, BeginY, IterateX, EndY, EndZ, Leave,
         AssertionFails, Return, vars

LEMMA ConditionsShape ==
    ASSUME IInv, WInv, pc # "begin"
    PROVE  /\ Len(assumptions) \in Nat \ {0} /\ DOMAIN assumptions = 1 .. Len(assumptions)
           /\ Len(guarantees) \in Nat \ {0} /\ DOMAIN guarantees = 1 .. Len(guarantees)
           /\ 1 \in DOMAIN assumptions /\ 1 \in DOMAIN guarantees
<1>1. game \in GameType /\ spec \in SpecType
  BY DEF IInv, InputsKept
<1>2. /\ spec.assumptions \in Seq(SUBSET States) /\ Len(spec.assumptions) \in Nat \ {0}
      /\ spec.guarantees \in Seq(SUBSET States) /\ Len(spec.guarantees) \in Nat \ {0}
  BY <1>1, SpecParts
<1>3. /\ assumptions \in Seq(SUBSET States) /\ Len(assumptions) \in Nat \ {0}
      /\ guarantees \in Seq(SUBSET States) /\ Len(guarantees) \in Nat \ {0}
  BY <1>1, <1>2, NormalizeKeeps DEF WInv, ConditionsNormal
<1>. QED  BY <1>3

LEMMA ConditionsNormalStays ==
    ASSUME IInv, WInv, [Next]_vars
    PROVE  ConditionsNormal'
<1>1. /\ Normalize(spec.assumptions, Invar(game))' = Normalize(spec.assumptions, Invar(game))
      /\ Normalize(spec.guarantees, Invar(game))' = Normalize(spec.guarantees, Invar(game))
  BY InputsStay
<1>2. CASE Begin
  BY <1>1, <1>2, InputsStay DEF Begin, ConditionsNormal
<1>3. CASE ~Begin /\ pc = "begin"
  <2>1. UNCHANGED vars
    BY <1>3 DEF Next, BeginZ, BeginGuarantee, BeginY, IterateX, EndY, EndZ, Leave,
                AssertionFails, Return
  <2>. QED  BY <1>3, <2>1 DEF vars, ConditionsNormal
<1>4. CASE pc # "begin"
  BY <1>1, <1>4, ConditionsStay, InputsStay DEF WInv, ConditionsNormal
<1>. QED  BY <1>2, <1>3, <1>4

(* A winning set, what is served and what a pass starts from stay what     *)
(* they are as long as the sets they depend on do.                         *)
LEMMA MeaningsStay ==
    ASSUME IInv, WInv, [Next]_vars, pc # "begin"
    PROVE  /\ \A W : Wins(W)' <=> Wins(W)
           /\ \A W : IsFinal(W)' <=> IsFinal(W)
           /\ \A S, k : ServedIn(S, k)' = ServedIn(S, k)
           /\ Z' = Z /\ j' = j => \A T : From(T)' = From(T)
           /\ \A S, k : StayIn(game, player, S, assumptions[k])'
                            = StayIn(game, player, S, assumptions[k])
           /\ \A S : Extended(game, player, assumptions, S)' = Extended(game, player, assumptions, S)
           /\ DOMAIN assumptions' = DOMAIN assumptions
           /\ DOMAIN guarantees' = DOMAIN guarantees
           /\ Len(guarantees)' = Len(guarantees)
  BY InputsStay, ConditionsStay DEF Wins, IsFinal, ServedIn, From

(* A pass of the loop on X keeps all that the greatest fixed point has.    *)
LEMMA PassKeepsStay ==
    ASSUME NEW g, NEW plr, NEW base, NEW fair, NEW V, StayIn(g, plr, base, fair) \subseteq V
    PROVE  StayIn(g, plr, base, fair) \subseteq (CanForce(g, V, plr) \ fair) \cup base
<1>1. ASSUME NEW T \in SUBSET Invar(g), T \subseteq base \cup (CanForce(g, T, plr) \ fair)
      PROVE  T \subseteq (CanForce(g, V, plr) \ fair) \cup base
  <2>1. T \subseteq V
    BY <1>1 DEF StayIn
  <2>2. CanForce(g, T, plr) \subseteq CanForce(g, V, plr)
    BY <2>1, ForceMonotone
  <2>. QED  BY <1>1, <2>2
<1>. QED  BY <1>1 DEF StayIn

(* A fixed point of the loop on X is such a set itself.                    *)
LEMMA FixedPointStays ==
    ASSUME NEW g, NEW plr, NEW base, NEW fair, NEW V \in SUBSET Invar(g),
           V = (CanForce(g, V, plr) \ fair) \cup base
    PROVE  V \subseteq StayIn(g, plr, base, fair)
  BY DEF StayIn

(* What a pass starting from served states adds is served.                 *)
LEMMA StayIsServed ==
    ASSUME NEW g \in GameType, NEW plr, NEW As, NEW S, NEW G, NEW T,
           T \subseteq ServedFrom(g, plr, As, S, G),
           NEW base, base \subseteq Base(g, plr, S, G, T), NEW k \in DOMAIN As
    PROVE  StayIn(g, plr, base, As[k]) \subseteq ServedFrom(g, plr, As, S, G)
<1>1. ASSUME NEW U \in SUBSET Invar(g),
             Extended(g, plr, As, Base(g, plr, S, G, U)) \subseteq U
      PROVE  StayIn(g, plr, base, As[k]) \subseteq U
  <2>1. T \subseteq U
    BY <1>1 DEF ServedFrom
  <2>2. base \subseteq Base(g, plr, S, G, U)
    BY <2>1, BaseMonotone
  <2>3. StayIn(g, plr, base, As[k]) \subseteq StayIn(g, plr, Base(g, plr, S, G, U), As[k])
    BY <2>2, StayMonotone
  <2>. QED  BY <1>1, <2>3 DEF Extended
<1>2. StayIn(g, plr, base, As[k]) \subseteq States
  BY StayLegal, TypedInvar
<1>. QED  BY <1>1, <1>2 DEF ServedFrom

(* A fixed point of the loop on Y cuts no winning set, and the player      *)
(* cannot keep out of an assumption outside it until it gets there.        *)
LEMMA FixedPointKeepsWinners ==
    ASSUME NEW g \in GameType, NEW plr, NEW As, NEW Gs, NEW k \in DOMAIN Gs, NEW S,
           NEW T \in SUBSET Invar(g),
           Extended(g, plr, As, Base(g, plr, S, Gs[k], T)) \subseteq T,
           T \subseteq Base(g, plr, S, Gs[k], T)
    PROVE  /\ \A W : IsWinning(g, plr, As, Gs, W) /\ W \subseteq S => W \subseteq T
           /\ \A m \in DOMAIN As : StayIn(g, plr, T, As[m]) \subseteq T
<1>1. ASSUME NEW W, IsWinning(g, plr, As, Gs, W), W \subseteq S
      PROVE  W \subseteq T
  <2>1. W \subseteq ServedFrom(g, plr, As, W, Gs[k])
    BY <1>1 DEF IsWinning
  <2>2. ServedFrom(g, plr, As, W, Gs[k]) \subseteq ServedFrom(g, plr, As, S, Gs[k])
    BY <1>1, ServedMonotone
  <2>. QED  BY <2>1, <2>2 DEF ServedFrom
<1>2. ASSUME NEW m \in DOMAIN As
      PROVE  StayIn(g, plr, T, As[m]) \subseteq T
  <2>1. StayIn(g, plr, T, As[m]) \subseteq StayIn(g, plr, Base(g, plr, S, Gs[k], T), As[m])
    BY StayMonotone
  <2>. QED  BY <2>1 DEF Extended
<1>. QED  BY <1>1, <1>2

(* The parts of both invariants as they are used in a step.                *)
LEMMA Parts ==
    ASSUME IInv, WInv, earlierTermination # "CONJUNCT"
    PROVE  /\ InLoops => ZClosed
           /\ YInside /\ XInside
           /\ InLoops => ZKeepsWinners
           /\ GuaranteeHolds /\ YHolds /\ XHolds /\ FlagsHold /\ ResultHolds
           /\ pc = "strategy" => Decided
           /\ VerdictIsRight
  BY DEF IInv, WInv

(* The same sets, another Z of the same value.                             *)
LEMMA ZStays ==
    ASSUME IInv, WInv, [Next]_vars, pc # "begin", Z' = Z, ZKeepsWinners
    PROVE  ZKeepsWinners'
  BY MeaningsStay DEF ZKeepsWinners

LEMMA BeforeStays ==
    ASSUME IInv, WInv, [Next]_vars, pc # "begin", Z' = Z, previousZ' = previousZ
    PROVE  /\ j' = j => (ServedBefore(j)' <=> ServedBefore(j))
           /\ ServedBefore(Len(guarantees) + 1)' <=> ServedBefore(Len(guarantees) + 1)
  BY MeaningsStay DEF ServedBefore

(* What is to be shown of a step from a state of these modes.              *)
StepHolds ==
    /\ InLoops => ZKeepsWinners
    /\ GuaranteeHolds
    /\ YHolds
    /\ XHolds
    /\ FlagsHold
    /\ ResultHolds
    /\ pc = "strategy" => Decided
    /\ VerdictIsRight

LEMMA BeginHolds ==
    ASSUME IInv, WInv, IInv', earlierTermination # "CONJUNCT", Begin
    PROVE  StepHolds'
<1>. USE DEF Next
<1>1. /\ pc' = "z"
      /\ Z' = overapproxWinStates
      /\ isRealizable' = StillRealizable(Z')
      /\ isZFixpointReached' = (isSomeInitFalse /\ earlierTermination # "NONE")
      /\ assumptions' = Normalize(spec.assumptions, Invar(game))
      /\ guarantees' = Normalize(spec.guarantees, Invar(game))
      /\ game \in GameType /\ spec \in SpecType
      /\ SoundOver(game, spec, overapproxWinStates)
  BY DEF Begin, KeptBy, IInv, InputsKept
<1>2. /\ game' = game /\ player' = player /\ earlierTermination' = earlierTermination
      /\ (isSomeInitFalse <=> isSomeInitFalse')
      /\ \A S : WinsAtInit(S)' <=> WinsAtInit(S)
  BY InputsStay
<1>3. ZKeepsWinners'
  <2>1. ASSUME NEW W, Wins(W)'
        PROVE  W \subseteq Z'
    <3>1. IsWinning(game, player, spec.assumptions, spec.guarantees, W)
      BY <1>1, <1>2, <2>1, NormalizedWinning DEF Wins
    <3>. QED  BY <1>1, <3>1, WinningIsWon DEF SoundOver, player
  <2>2. \A k \in DOMAIN assumptions' : StayIn(game, player, Z, assumptions[k])' \subseteq Z'
    BY <1>1, <1>2, NormalizedClosed DEF SoundOver, player
  <2>. QED  BY <2>1, <2>2 DEF ZKeepsWinners
<1>4. FlagsHold'
  <2>1. (isRealizable <=> StillRealizable(Z))'
    BY <1>1, <1>2 DEF StillRealizable
  <2>2. isZFixpointReached' => isSomeInitFalse' /\ earlierTermination' # "NONE"
    BY <1>1, <1>2
  <2>. QED  BY <2>1, <2>2 DEF FlagsHold
<1>. QED
  BY <1>1, <1>3, <1>4 DEF StepHolds, GuaranteeHolds, YHolds, XHolds, ResultHolds, VerdictIsRight

LEMMA BeginZHolds ==
    ASSUME IInv, WInv, IInv', earlierTermination # "CONJUNCT", BeginZ
    PROVE  StepHolds'
<1>1. /\ pc = "z" /\ pc' = "guarantee" /\ j' = 1 /\ Z' = Z /\ previousZ' = Z
  BY DEF BeginZ
<1>2. ZKeepsWinners'
  BY <1>1, Parts, ZStays DEF Next, InLoops
<1>3. GuaranteeHolds'
  <2>1. /\ 1 \in DOMAIN guarantees' /\ DOMAIN guarantees' = 1 .. Len(guarantees)
        /\ Len(guarantees) \in Nat
    BY <1>1, ConditionsShape, MeaningsStay DEF Next
  <2>2. \A k \in DOMAIN guarantees' : ~(k < 1)
    BY <2>1
  <2>3. ServedBefore(j)'
    BY <1>1, <2>2 DEF ServedBefore
  <2>. QED  BY <1>1, <2>1, <2>3 DEF GuaranteeHolds
<1>. QED
  BY <1>1, <1>2, <1>3 DEF StepHolds, YHolds, XHolds, FlagsHold, ResultHolds, VerdictIsRight

LEMMA BeginGuaranteeHolds ==
    ASSUME IInv, WInv, IInv', earlierTermination # "CONJUNCT", BeginGuarantee
    PROVE  StepHolds'
<1>1. /\ pc = "guarantee" /\ pc' = "y" /\ j' = j /\ Z' = Z /\ previousZ' = previousZ
      /\ Y' = underapproxWinStates
      /\ game \in GameType /\ spec \in SpecType
      /\ SoundUnder(game, spec, underapproxWinStates) /\ underapproxWinStates \subseteq Z
  BY Parts DEF BeginGuarantee, zVars, IInv, InputsKept, InLoops, ZClosed
<1>2. ZKeepsWinners'
  BY <1>1, Parts, ZStays DEF Next, InLoops
<1>3. GuaranteeHolds'
  <2>1. j \in DOMAIN guarantees /\ ServedBefore(j)
    BY <1>1, Parts DEF GuaranteeHolds
  <2>2. j' \in DOMAIN guarantees' /\ ServedBefore(j)'
    BY <1>1, <2>1, BeforeStays, MeaningsStay DEF Next
  <2>. QED  BY <1>1, <2>2 DEF GuaranteeHolds
<1>4. YHolds'
  <2>. DEFINE under == underapproxWinStates
  <2>1. j \in DOMAIN guarantees
    BY <1>1, Parts DEF GuaranteeHolds
  <2>2. under \subseteq ServedIn(under, j)
    <3>1. Wins(under)
      BY <1>1, NormalizedWinning DEF SoundUnder, Wins, WInv, ConditionsNormal, player
    <3>. QED  BY <2>1, <3>1 DEF Wins, IsWinning, ServedIn
  <2>3. ServedIn(under, j) \subseteq ServedIn(Z, j)
    BY <1>1, ServedMonotone DEF ServedIn
  <2>4. under \subseteq From(under)
    BY <1>1 DEF SoundUnder, From, Base, player
  <2>5. Y' \subseteq ServedIn(Z, j)' /\ Y' \subseteq From(Y)'
    BY <1>1, <2>2, <2>3, <2>4, MeaningsStay DEF Next
  <2>. QED  BY <1>1, <2>5 DEF YHolds
<1>. QED
  BY <1>1, <1>2, <1>3, <1>4 DEF StepHolds, XHolds, FlagsHold, ResultHolds, VerdictIsRight

LEMMA BeginYHolds ==
    ASSUME IInv, WInv, IInv', earlierTermination # "CONJUNCT", BeginY
    PROVE  StepHolds'
<1>1. /\ pc = "y" /\ pc' = "x" /\ j' = j /\ Z' = Z /\ previousZ' = previousZ
      /\ start' = preImageZAndGuarantee \cup Pre(Y)
      /\ Y' = Y /\ previousY' = Y /\ i' = 1 /\ X' = Z
  BY DEF BeginY, zVars
<1>2. ZKeepsWinners /\ ZKeepsWinners'
  BY <1>1, Parts, ZStays DEF Next, InLoops
<1>3. GuaranteeHolds'
  <2>1. j \in DOMAIN guarantees /\ ServedBefore(j)
    BY <1>1, Parts DEF GuaranteeHolds
  <2>2. j' \in DOMAIN guarantees' /\ ServedBefore(j)'
    BY <1>1, <2>1, BeforeStays, MeaningsStay DEF Next
  <2>. QED  BY <1>1, <2>2 DEF GuaranteeHolds
<1>4. start' = From(Y)
  BY <1>1, PreIsForce DEF preImageZAndGuarantee, From, Base, IInv, InputsKept
<1>5. YHolds'
  <2>1. Y \subseteq ServedIn(Z, j) /\ Y \subseteq From(Y)
    BY <1>1, Parts DEF YHolds
  <2>2. Y' \subseteq ServedIn(Z, j)' /\ Y' \subseteq From(Y)'
    BY <1>1, <2>1, MeaningsStay DEF Next
  <2>. QED  BY <1>1, <2>2 DEF YHolds
<1>6. XHolds'
  <2>1. From(previousY)' = start' /\ From(Y)' = start'
    BY <1>1, <1>4, MeaningsStay DEF Next
  <2>2. 1 \in DOMAIN assumptions' /\ \A k \in DOMAIN assumptions' : ~(k < 1)
    BY <1>1, ConditionsShape, MeaningsStay DEF Next
  <2>3. start' \subseteq Z
    BY <1>1, InputsStay DEF IInv, XInside, Next
  <2>4. StayIn(game, player, start, assumptions[i])' \subseteq X'
    <3>1. StayIn(game, player, start', assumptions[1])
              \subseteq StayIn(game, player, Z, assumptions[1])
      BY <2>3, StayMonotone
    <3>2. StayIn(game, player, Z, assumptions[1]) \subseteq Z
      BY <1>1, <1>2, ConditionsShape DEF ZKeepsWinners
    <3>3. StayIn(game, player, start, assumptions[i])'
              = StayIn(game, player, start', assumptions[1])
      BY <1>1, InputsStay, ConditionsStay DEF Next
    <3>. QED  BY <1>1, <3>1, <3>2, <3>3
  <2>. QED  BY <1>1, <2>1, <2>2, <2>4 DEF XHolds
<1>. QED
  BY <1>1, <1>2, <1>3, <1>5, <1>6 DEF StepHolds, FlagsHold, ResultHolds, VerdictIsRight

LEMMA IterateXHolds ==
    ASSUME IInv, WInv, IInv', earlierTermination # "CONJUNCT", IterateX
    PROVE  StepHolds'
<1>. DEFINE fair == assumptions[i]
            tmp  == (CanForce(game, X, player) \ fair) \cup start
<1>1. /\ pc = "x" /\ j' = j /\ Z' = Z /\ previousZ' = previousZ /\ previousY' = previousY
      /\ game \in GameType /\ spec \in SpecType
  BY DEF IterateX, zVars, IInv, InputsKept
<1>2. /\ (Pre(X) \ fair) \cup start = tmp
  BY <1>1, PreIsForce
<1>3. /\ X # tmp => /\ X' = tmp /\ pc' = pc /\ Y' = Y /\ i' = i /\ start' = start
      /\ X = tmp => /\ Y' = Y \cup X /\ start' = Y \cup X
                    /\ IF i < Len(assumptions)
                       THEN i' = i + 1 /\ X' = Z /\ pc' = "x"
                       ELSE pc' = "endY"
  <2>. HIDE DEF tmp
  <2>. QED  BY <1>2 DEF IterateX
<1>. HIDE DEF tmp, fair
<1>4. ZKeepsWinners /\ ZKeepsWinners'
  BY <1>1, Parts, ZStays DEF Next, InLoops
<1>5. /\ i \in DOMAIN assumptions
      /\ From(previousY) \subseteq start
      /\ start \subseteq From(Y)
      /\ StayIn(game, player, start, fair) \subseteq X
      /\ \A k \in DOMAIN assumptions :
             k < i => StayIn(game, player, From(previousY), assumptions[k]) \subseteq Y
      /\ Y \subseteq ServedIn(Z, j) /\ Y \subseteq From(Y)
      /\ X \subseteq Z /\ Z \subseteq Invar(game)
  BY <1>1, Parts DEF XHolds, YHolds, XInside, ZClosed, InLoops, fair
<1>6. GuaranteeHolds'
  <2>1. j \in DOMAIN guarantees /\ ServedBefore(j)
    BY <1>1, Parts DEF GuaranteeHolds
  <2>2. j' \in DOMAIN guarantees' /\ ServedBefore(j)'
    BY <1>1, <2>1, BeforeStays, MeaningsStay DEF Next
  <2>3. pc' \in {"x", "endY"}
    BY <1>1, <1>3
  <2>. QED  BY <2>2, <2>3 DEF GuaranteeHolds
<1>7. /\ \A T : From(T)' = From(T)
      /\ ServedIn(Z, j)' = ServedIn(Z, j)
      /\ assumptions' = assumptions /\ game' = game /\ player' = player
  BY <1>1, MeaningsStay, ConditionsStay, InputsStay DEF Next
<1>8. CASE X # tmp
  <2>1. X' = tmp /\ pc' = "x" /\ Y' = Y /\ i' = i /\ start' = start
    BY <1>1, <1>3, <1>8
  <2>2. StayIn(game, player, start, fair) \subseteq tmp
    BY <1>5, PassKeepsStay DEF tmp
  <2>3. StayIn(game, player, start, assumptions[i])' = StayIn(game, player, start, fair)
    BY <1>7, <2>1 DEF fair
  <2>4. YHolds'
    BY <1>5, <1>7, <2>1 DEF YHolds
  <2>5. XHolds'
    BY <1>1, <1>5, <1>7, <2>1, <2>2, <2>3 DEF XHolds
  <2>. QED
    BY <1>4, <1>6, <2>1, <2>4, <2>5 DEF StepHolds, FlagsHold, ResultHolds, VerdictIsRight
<1>9. CASE X = tmp
  <2>. DEFINE next == Y \cup X
  <2>1. /\ Y' = next /\ start' = next
        /\ IF i < Len(assumptions) THEN i' = i + 1 /\ X' = Z /\ pc' = "x" ELSE pc' = "endY"
    BY <1>3, <1>9
  <2>2. X \subseteq StayIn(game, player, start, fair)
    <3>1. X \in SUBSET Invar(game) /\ X = (CanForce(game, X, player) \ fair) \cup start
      BY <1>5, <1>9 DEF tmp
    <3>. QED  BY <3>1, FixedPointStays
  <2>3. next \subseteq ServedIn(Z, j)
    <3>1. StayIn(game, player, start, fair) \subseteq ServedIn(Z, j)
      BY <1>1, <1>5, StayIsServed DEF ServedIn, From, fair
    <3>. QED  BY <1>5, <2>2, <3>1
  <2>4. next \subseteq From(next)
    <3>1. From(Y) \subseteq From(next)
      BY BaseMonotone DEF From
    <3>2. CanForce(game, X, player) \subseteq From(next)
      BY ForceMonotone DEF From, Base
    <3>3. X \subseteq CanForce(game, X, player) \cup start
      BY <1>9 DEF tmp
    <3>. QED  BY <1>5, <3>1, <3>2, <3>3
  <2>5. From(previousY) \subseteq next
    BY <1>5, <1>9 DEF tmp
  <2>6. StayIn(game, player, From(previousY), fair) \subseteq next
    <3>1. StayIn(game, player, From(previousY), fair) \subseteq StayIn(game, player, start, fair)
      BY <1>5, StayMonotone
    <3>. QED  BY <1>5, <3>1
  <2>7. \A k \in DOMAIN assumptions :
            k < i + 1 => StayIn(game, player, From(previousY), assumptions[k]) \subseteq next
    <3>1. \A k \in DOMAIN assumptions : k < i + 1 => k < i \/ k = i
      BY <1>1, <1>5, ConditionsShape
    <3>. QED  BY <1>5, <2>6, <3>1 DEF fair
  <2>. HIDE DEF next
  <2>8. CASE i < Len(assumptions)
    <3>1. i' = i + 1 /\ X' = Z /\ pc' = "x" /\ i + 1 \in DOMAIN assumptions
      BY <1>1, <1>5, <2>1, <2>8, ConditionsShape
    <3>2. next \subseteq Z
      BY <1>1, <1>7, <2>1, <3>1, InputsStay DEF IInv, XInside, Next
    <3>3. StayIn(game, player, start, assumptions[i])' \subseteq X'
      <4>1. StayIn(game, player, next, assumptions[i + 1])
                \subseteq StayIn(game, player, Z, assumptions[i + 1])
        BY <3>2, StayMonotone
      <4>2. StayIn(game, player, Z, assumptions[i + 1]) \subseteq Z
        BY <1>4, <3>1 DEF ZKeepsWinners
      <4>3. StayIn(game, player, start, assumptions[i])'
                = StayIn(game, player, next, assumptions[i + 1])
        BY <1>7, <2>1, <3>1
      <4>. QED  BY <3>1, <4>1, <4>2, <4>3
    <3>4. YHolds'
      BY <1>7, <2>1, <2>3, <2>4, <3>1 DEF YHolds
    <3>5. XHolds'
      BY <1>1, <1>7, <2>1, <2>4, <2>5, <2>7, <3>1, <3>3 DEF XHolds
    <3>. QED
      BY <1>4, <1>6, <3>1, <3>4, <3>5 DEF StepHolds, FlagsHold, ResultHolds, VerdictIsRight
  <2>9. CASE ~(i < Len(assumptions))
    <3>1. pc' = "endY" /\ \A k \in DOMAIN assumptions : k < i + 1
      BY <1>1, <1>5, <2>1, <2>9, ConditionsShape
    <3>2. Extended(game, player, assumptions, From(previousY)) \subseteq next
      BY <2>7, <3>1 DEF Extended
    <3>3. Extended(game, player, assumptions, From(previousY))'
              = Extended(game, player, assumptions, From(previousY))
      BY <1>1, <1>7
    <3>4. YHolds'
      BY <1>7, <2>1, <2>3, <2>4, <3>1, <3>2, <3>3 DEF YHolds
    <3>. QED
      BY <1>4, <1>6, <3>1, <3>4 DEF StepHolds, XHolds, FlagsHold, ResultHolds, VerdictIsRight
  <2>. QED  BY <2>8, <2>9
<1>. QED  BY <1>8, <1>9

LEMMA EndYHolds ==
    ASSUME IInv, WInv, IInv', earlierTermination # "CONJUNCT", EndY
    PROVE  StepHolds'
<1>1. /\ pc = "endY" /\ previousZ' = previousZ /\ Y' = Y
      /\ IF previousY = Y \/ Y = Z
         THEN /\ Z' = Y
              /\ IF j < Len(guarantees)
                 THEN j' = j + 1 /\ pc' = "guarantee"
                 ELSE pc' = "endZ"
         ELSE pc' = "y" /\ Z' = Z /\ j' = j
      /\ game \in GameType /\ spec \in SpecType
  BY DEF EndY, IInv, InputsKept
<1>2. /\ ZKeepsWinners
      /\ j \in DOMAIN guarantees /\ ServedBefore(j)
      /\ Y \subseteq ServedIn(Z, j) /\ Y \subseteq From(Y)
      /\ Extended(game, player, assumptions, From(previousY)) \subseteq Y
      /\ Y \subseteq Z /\ Z \subseteq Invar(game)
  BY <1>1, Parts DEF GuaranteeHolds, YHolds, YInside, ZClosed, InLoops
<1>3. CASE previousY = Y \/ Y = Z
  <2>1. /\ Z' = Y
        /\ IF j < Len(guarantees) THEN j' = j + 1 /\ pc' = "guarantee" ELSE pc' = "endZ"
    BY <1>1, <1>3
  <2>2. /\ \A W : Wins(W) => W \subseteq Y
        /\ \A k \in DOMAIN assumptions : StayIn(game, player, Y, assumptions[k]) \subseteq Y
    <3>1. CASE Y = Z
      BY <1>2, <3>1 DEF ZKeepsWinners
    <3>2. CASE previousY = Y
      <4>1. Y \in SUBSET Invar(game)
            /\ Extended(game, player, assumptions, Base(game, player, Z, guarantees[j], Y))
                   \subseteq Y
            /\ Y \subseteq Base(game, player, Z, guarantees[j], Y)
        BY <1>2, <3>2 DEF From
      <4>2. /\ \A W : IsWinning(game, player, assumptions, guarantees, W) /\ W \subseteq Z
                          => W \subseteq Y
            /\ \A k \in DOMAIN assumptions :
                   StayIn(game, player, Y, assumptions[k]) \subseteq Y
        BY <1>1, <1>2, <4>1, FixedPointKeepsWinners
      <4>. QED  BY <1>2, <4>2 DEF ZKeepsWinners, Wins
    <3>. QED  BY <1>3, <3>1, <3>2
  <2>3. ZKeepsWinners'
    BY <1>1, <2>1, <2>2, MeaningsStay DEF ZKeepsWinners, Next
  <2>4. Y \subseteq previousZ /\ Y \subseteq CanForce(game, previousZ, player)
    <3>1. Z \subseteq previousZ
      BY <1>2 DEF ServedBefore
    <3>2. /\ CanForce(game, Z, player) \subseteq CanForce(game, previousZ, player)
          /\ CanForce(game, Y, player) \subseteq CanForce(game, previousZ, player)
      BY <1>2, <3>1, ForceMonotone
    <3>. QED  BY <1>2, <3>1, <3>2 DEF From, Base
  <2>5. ASSUME NEW k \in DOMAIN guarantees, k < j + 1
        PROVE  Y \subseteq ServedIn(previousZ, k)
    <3>1. k < j \/ k = j
      BY <1>1, <1>2, <2>5, ConditionsShape
    <3>2. CASE k < j
      BY <1>2, <3>2 DEF ServedBefore
    <3>3. CASE k = j
      <4>1. ServedIn(Z, j) \subseteq ServedIn(previousZ, j)
        BY <1>2, ServedMonotone DEF ServedBefore, ServedIn
      <4>. QED  BY <1>2, <3>3, <4>1
    <3>. QED  BY <3>1, <3>2, <3>3
  <2>6. \A n : (\A k \in DOMAIN guarantees : k < n => k < j + 1) =>
            /\ Z' \subseteq previousZ'
            /\ \A k \in DOMAIN guarantees' : k < n => Z' \subseteq ServedIn(previousZ, k)'
    BY <1>1, <2>1, <2>4, <2>5, MeaningsStay DEF Next
  <2>7. CASE j < Len(guarantees)
    <3>1. j' = j + 1 /\ pc' = "guarantee" /\ j' \in DOMAIN guarantees'
      BY <1>1, <1>2, <2>1, <2>7, ConditionsShape, MeaningsStay DEF Next
    <3>2. ServedBefore(j)'
      BY <2>6, <3>1 DEF ServedBefore
    <3>. QED
      BY <2>3, <3>1, <3>2
      DEF StepHolds, GuaranteeHolds, YHolds, XHolds, FlagsHold, ResultHolds, VerdictIsRight
  <2>8. CASE ~(j < Len(guarantees))
    <3>1. pc' = "endZ" /\ Len(guarantees)' + 1 = j + 1
      BY <1>1, <1>2, <2>1, <2>8, ConditionsShape, MeaningsStay DEF Next
    <3>2. ServedBefore(Len(guarantees) + 1)'
      BY <2>6, <3>1 DEF ServedBefore
    <3>3. (Z \subseteq CanForce(game, previousZ, player))'
      BY <1>1, <2>1, <2>4, InputsStay DEF Next
    <3>. QED
      BY <2>3, <3>1, <3>2, <3>3
      DEF StepHolds, GuaranteeHolds, YHolds, XHolds, FlagsHold, ResultHolds, VerdictIsRight
  <2>. QED  BY <2>7, <2>8
<1>4. CASE ~(previousY = Y \/ Y = Z)
  <2>1. pc' = "y" /\ Z' = Z /\ j' = j
    BY <1>1, <1>4
  <2>2. ZKeepsWinners'
    BY <1>1, <1>2, <2>1, ZStays DEF Next
  <2>3. j' \in DOMAIN guarantees' /\ ServedBefore(j)'
    BY <1>1, <1>2, <2>1, BeforeStays, MeaningsStay DEF Next
  <2>4. Y' \subseteq ServedIn(Z, j)' /\ Y' \subseteq From(Y)'
    BY <1>1, <1>2, <2>1, MeaningsStay DEF Next
  <2>. QED
    BY <2>1, <2>2, <2>3, <2>4
    DEF StepHolds, GuaranteeHolds, YHolds, XHolds, FlagsHold, ResultHolds, VerdictIsRight
<1>. QED  BY <1>3, <1>4

LEMMA EndZHolds ==
    ASSUME IInv, WInv, IInv', earlierTermination # "CONJUNCT", EndZ
    PROVE  StepHolds'
<1>1. /\ pc = "endZ" /\ pc' = "z" /\ Z' = Z
      /\ isRealizable' = StillRealizable(Z)
      /\ isZFixpointReached' = (previousZ = Z)
  BY DEF EndZ, KeptBy
<1>2. /\ ZKeepsWinners /\ ZKeepsWinners'
      /\ ServedBefore(Len(guarantees) + 1)
      /\ Z \subseteq CanForce(game, previousZ, player)
      /\ Z \subseteq Invar(game)
  BY <1>1, Parts, ZStays DEF Next, InLoops, GuaranteeHolds, ZClosed
<1>3. isZFixpointReached' => IsFinal(Z)'
  <2>1. \A k \in DOMAIN guarantees : k < Len(guarantees) + 1
    BY <1>1, ConditionsShape
  <2>2. previousZ = Z => IsFinal(Z)
    BY <1>2, <2>1 DEF ServedBefore, ServedIn, Wins, IsWinning, IsFinal
  <2>3. IsFinal(Z)' <=> IsFinal(Z)
    BY <1>1, MeaningsStay DEF Next
  <2>. QED  BY <1>1, <2>2, <2>3
<1>4. (isRealizable <=> StillRealizable(Z))'
  BY <1>1, InputsStay DEF StillRealizable, Next
<1>. QED
  BY <1>1, <1>2, <1>3, <1>4
  DEF StepHolds, GuaranteeHolds, YHolds, XHolds, FlagsHold, ResultHolds, VerdictIsRight

(* A winning Z that no winning set is cut from is what is won; otherwise   *)
(* it is an over-approximation, from which only "no" is concluded.         *)
LEMMA LeaveHolds ==
    ASSUME IInv, WInv, IInv', earlierTermination # "CONJUNCT", Leave
    PROVE  StepHolds'
<1>. DEFINE R == WinRegion(game, spec)
            none == earlierTermination = "NONE"
<1>1. /\ pc = "z" /\ pc' = "strategy" /\ Z' = Z
      /\ isZFixpointReached \/ ~isRealizable
      /\ isRealizable' = IF none THEN WinsAtInit(Z) ELSE isRealizable
      /\ game \in GameType /\ spec \in SpecType /\ opt \in Quantifiers /\ player \in Players
      /\ game' = game /\ spec' = spec /\ opt' = opt /\ player' = player
      /\ earlierTermination' = earlierTermination
      /\ isSomeInitFalse <=> isSomeInitFalse'
  BY InputsStay DEF Leave, Next
<1>2. /\ ZKeepsWinners /\ ZKeepsWinners'
      /\ isRealizable <=> (none \/ WinsAtInit(Z))
      /\ isZFixpointReached => IsFinal(Z) \/ (isSomeInitFalse /\ ~none)
      /\ IsFinal(Z) => Wins(Z)
      /\ IsFinal(Z)' <=> IsFinal(Z)
  BY <1>1, Parts, ZStays, MeaningsStay DEF FlagsHold, StillRealizable, InLoops, IsFinal, Next
<1>3. \A W : Wins(W) <=> IsWinning(game, player, spec.assumptions, spec.guarantees, W)
  BY <1>1, NormalizedWinning DEF Wins, WInv, ConditionsNormal
<1>4. R \subseteq Z /\ (Wins(Z) => Z = R)
  <2>1. /\ Wins(R)
        /\ \A W : Wins(W) => W \subseteq R
    BY <1>1, <1>3, WinningIsWon DEF player
  <2>. QED  BY <1>2, <2>1 DEF ZKeepsWinners
<1>. HIDE DEF R, none
<1>5. WinsAtInit(Z) <=> StartsIn(game, Z, player, opt)
  BY <1>1, SatisfyIsStart DEF WinsAtInit
<1>6. WinsAtInit(Z) <=> StartsIn(game, R, player, opt)
  <2>1. CASE isSomeInitFalse
    BY <1>1, <1>5, <2>1, StartEmpty DEF isSomeInitFalse
  <2>2. CASE ~isSomeInitFalse /\ Wins(Z)
    BY <1>4, <1>5, <2>2
  <2>3. CASE ~isSomeInitFalse /\ ~Wins(Z)
    <3>1. ~WinsAtInit(Z)
      BY <1>1, <1>2, <2>3
    <3>2. ~StartsIn(game, R, player, opt)
      BY <1>1, <1>4, <1>5, <3>1, StartMonotone
    <3>. QED  BY <3>1, <3>2
  <2>. QED  BY <2>1, <2>2, <2>3
<1>7. isRealizable' <=> WinsAtInit(Z)
  BY <1>1, <1>2
<1>8. ~isSomeInitFalse /\ (none \/ isRealizable') => Z = R
  BY <1>1, <1>2, <1>4, <1>7
<1>9. Decided'
  <2>1. R = WinRegion(game', spec') /\ (none <=> earlierTermination' = "NONE")
    BY <1>1 DEF R, none
  <2>. QED  BY <1>1, <1>6, <1>7, <1>8, <2>1 DEF Decided
<1>10. ResultHolds'
  BY <1>1, <1>2 DEF ResultHolds, none
<1>. QED
  BY <1>1, <1>2, <1>9, <1>10 DEF StepHolds, GuaranteeHolds, YHolds, XHolds, FlagsHold, VerdictIsRight

LEMMA ReturnHolds ==
    ASSUME IInv, WInv, IInv', earlierTermination # "CONJUNCT", Return
    PROVE  StepHolds'
<1>1. /\ pc = "strategy" /\ pc' = "done" /\ Z' = Z /\ isRealizable' = isRealizable
      /\ status' = IF isRealizable THEN "realizable" ELSE "unrealizable"
      /\ game' = game /\ spec' = spec /\ opt' = opt
      /\ earlierTermination' = earlierTermination
      /\ isSomeInitFalse <=> isSomeInitFalse'
  BY InputsStay DEF Return, Next, zVars
<1>2. Decided /\ ResultHolds /\ ZKeepsWinners
  BY <1>1, Parts DEF InLoops
<1>3. VerdictIsRight'
  BY <1>1, <1>2 DEF VerdictIsRight, Decided, RightVerdict, player
<1>4. ZKeepsWinners' /\ ResultHolds'
  BY <1>1, <1>2, ZStays, MeaningsStay DEF ResultHolds, Next
<1>. QED
  BY <1>1, <1>3, <1>4 DEF StepHolds, GuaranteeHolds, YHolds, XHolds, FlagsHold

LEMMA AbortHolds ==
    ASSUME AssertionFails
    PROVE  StepHolds'
<1>1. pc' = "aborted"
  BY DEF AssertionFails
<1>. QED
  BY <1>1
  DEF StepHolds, InLoops, GuaranteeHolds, YHolds, XHolds, FlagsHold, ResultHolds, VerdictIsRight

LEMMA StutterHolds ==
    ASSUME IInv, WInv, earlierTermination # "CONJUNCT", UNCHANGED vars
    PROVE  StepHolds'
<1>1. StepHolds
  BY Parts DEF StepHolds
<1>. QED
  BY <1>1
  DEF vars, input, zVars, yVars, xVars, StepHolds, InLoops, ZKeepsWinners, Wins, GuaranteeHolds,
      ServedBefore, ServedIn, YHolds, From, XHolds, FlagsHold, IsFinal, StillRealizable, WinsAtInit,
      ResultHolds, isSomeInitFalse, Decided, VerdictIsRight, player

LEMMA WInvStep ==
    ASSUME IInv, WInv, IInv', [Next]_vars
    PROVE  WInv'
<1>1. (opt \in Quantifiers)' /\ ConditionsNormal' /\ earlierTermination' = earlierTermination
  BY InputsStay, ConditionsNormalStays
<1>2. earlierTermination # "CONJUNCT" => StepHolds'
  BY BeginHolds, BeginZHolds, BeginGuaranteeHolds, BeginYHolds, IterateXHolds, EndYHolds,
     EndZHolds, LeaveHolds, AbortHolds, ReturnHolds, StutterHolds DEF Next
<1>. QED  BY <1>1, <1>2 DEF WInv, StepHolds

LEMMA WInvAlways == Spec => []WInv
  BY IInvInit, IInvStep, WInvInit, WInvStep, PTL DEF Spec

(* No state that is won is ever dropped from Z, in every game and for      *)
(* every specification: an early "unrealizable" is a right one.            *)
THEOREM WinnersStay == Spec => []WinnersStayInZ
<1>1. IInv /\ WInv => WinnersStayInZ
  <2>. SUFFICES ASSUME IInv, WInv, earlierTermination # "CONJUNCT", pc = "endZ"
                PROVE  WinRegion(game, spec) \subseteq Z
    BY DEF WinnersStayInZ
  <2>1. game \in GameType /\ spec \in SpecType
    BY DEF IInv, InputsKept
  <2>2. Wins(WinRegion(game, spec))
    BY <2>1, WinningIsWon, NormalizedWinning DEF Wins, WInv, ConditionsNormal, player
  <2>. QED  BY <2>2, Parts DEF ZKeepsWinners, InLoops
<1>. QED  BY <1>1, IInvAlways, WInvAlways, PTL

(* Without the CONJUNCT mode every answer of the reactivity algorithm is   *)
(* right, with and without early termination, and so are the states it     *)
(* returns when it goes on to the fixed point or finds it.                 *)
THEOREM AnswersCorrect ==
    ASSUME "CONJUNCT" \notin Terminations
    PROVE  Spec => []VerdictIsRight
<1>1. Init => earlierTermination # "CONJUNCT"
  BY DEF Init
<1>2. IInv /\ WInv /\ earlierTermination # "CONJUNCT" /\ [Next]_vars
          => (earlierTermination # "CONJUNCT")'
  BY InputsStay
<1>3. IInv /\ WInv /\ earlierTermination # "CONJUNCT" => VerdictIsRight
  BY DEF WInv
<1>. QED  BY <1>1, <1>2, <1>3, IInvAlways, WInvAlways, PTL DEF Spec

-----------------------------------------------------------------------------
(* What the loops on Y and X went through.                                 *)

(* A pass of the loop on Y from prior to y: all it adds is in the sets kept*)
(* for the assumptions, and each of these keeps out of its assumption, or  *)
(* comes from where the pass started or from the sets before it.           *)
IsPass(k, prior, y, xs, W) ==
    /\ y \subseteq prior \cup UNION {xs[m] : m \in DOMAIN xs}
    /\ \A m \in DOMAIN xs :
           /\ xs[m] \subseteq y
           /\ xs[m] \subseteq (CanForce(game, xs[m], player) \ assumptions[m])
                                  \cup Base(game, player, W, guarantees[k], prior)
                                  \cup prior \cup UNION {xs[q] : q \in 1 .. m - 1}

(* The value of Y before the r-th pass for a guarantee.                    *)
Prior(ys, r) == IF r = 1 THEN {} ELSE ys[r - 1]

(* The passes for a guarantee, with W to come back to.                     *)
ArePasses(k, ys, xs, W) ==
    /\ ys \in Seq(SUBSET W) /\ xs \in Seq(Seq(SUBSET W)) /\ Len(xs) = Len(ys)
    /\ \A r \in 1 .. Len(ys) :
           /\ DOMAIN xs[r] = DOMAIN assumptions
           /\ IsPass(k, Prior(ys, r), ys[r], xs[r], W)

(* The passes for the guarantees before n have ended, each with one that   *)
(* adds nothing; what is left of Z was reached before that one.            *)
PassesBefore(n) ==
    \A k \in DOMAIN guarantees :
        k < n => /\ ArePasses(k, yResults[k], xResults[k], previousZ)
                 /\ yResults[k] # << >>
                 /\ Z \subseteq Prior(yResults[k], Len(yResults[k]))

(* The pass that is not over, with the assumptions before i.               *)
PassSoFar ==
    /\ previousY = Prior(yResults[j], Len(yResults[j]) + 1) /\ previousY \subseteq Y
    /\ xArray \in Seq(SUBSET previousZ)
    /\ Len(xArray) = IF pc = "x" THEN i - 1 ELSE Len(assumptions)
    /\ IsPass(j, previousY, Y, xArray, previousZ)
    /\ pc = "x" => start \subseteq Base(game, player, previousZ, guarantees[j], previousY)
                                       \cup previousY \cup UNION {xArray[q] : q \in 1 .. i - 1}

(* What is left of them for the strategy.                                  *)
PassesLeft ==
    \A k \in DOMAIN guarantees :
        /\ ArePasses(k, yResults[k], xResults[k], Z)
        /\ yResults[k] # << >> => Z \subseteq yResults[k][Len(yResults[k])]

RowsInv ==
    /\ underapproxWinStates = {}
    /\ pc # "begin" =>
           DOMAIN yResults = DOMAIN guarantees /\ DOMAIN xResults = DOMAIN guarantees
    /\ pc \in {"guarantee", "y", "x", "endY"} => PassesBefore(j)
    /\ pc \in {"y", "x", "endY"} => ArePasses(j, yResults[j], xResults[j], previousZ)
    /\ pc = "y" => Y = Prior(yResults[j], Len(yResults[j]) + 1)
    /\ pc \in {"x", "endY"} => PassSoFar
    /\ pc = "endZ" => PassesBefore(Len(guarantees) + 1)
    /\ pc = "z" /\ isZFixpointReached /\ ~isSomeInitFalse =>
           previousZ = Z /\ PassesBefore(Len(guarantees) + 1)
    /\ pc \in {"strategy", "done"} /\ isRealizable /\ ~isSomeInitFalse => PassesLeft

(* A strategy is handed over when the game is won.                         *)
StrategyInv ==
    strategy # NoStrategy =>
        /\ pc = "done" /\ strategy = StrategyArgs
        /\ isRealizable
        /\ StartsIn(game, strategy.winningStates, player, opt)
        /\ ~isSomeInitFalse =>
               Z \subseteq Invar(game) /\ \A k \in DOMAIN guarantees : yResults[k] # << >>

(* A pass from further on needs no more.                                   *)
LEMMA PassAgain ==
    ASSUME NEW k, NEW prior, NEW y, NEW xs, NEW W, IsPass(k, prior, y, xs, W), prior \subseteq y
    PROVE  IsPass(k, y, y, xs, W)
<1>1. Base(game, player, W, guarantees[k], prior) \subseteq Base(game, player, W, guarantees[k], y)
  BY ForceMonotone DEF Base
<1>. QED  BY <1>1 DEF IsPass

(* A list that goes on with one more value.                                *)
LEMMA PriorGrows ==
    ASSUME NEW T, NEW ys \in Seq(T), NEW y \in T
    PROVE  /\ Append(ys, y) # << >>
           /\ Prior(Append(ys, y), Len(Append(ys, y)) + 1) = y
           /\ Prior(Append(ys, y), Len(Append(ys, y))) = Prior(ys, Len(ys) + 1)
           /\ \A r \in 1 .. Len(ys) + 1 : Prior(Append(ys, y), r) = Prior(ys, r)
<1>. DEFINE zs == Append(ys, y)
            n  == Len(ys)
<1>1. /\ n \in Nat /\ zs \in Seq(T) /\ Len(zs) = n + 1 /\ zs[n + 1] = y
      /\ \A r \in 1 .. n : zs[r] = ys[r]
  OBVIOUS
<1>. HIDE DEF zs
<1>2. ASSUME NEW r \in 1 .. n + 1
      PROVE  Prior(zs, r) = Prior(ys, r)
  <2>1. CASE r = 1
    BY <2>1 DEF Prior
  <2>2. CASE r # 1
    <3>1. r - 1 \in 1 .. n
      BY <1>1, <2>2
    <3>. QED  BY <1>1, <2>2, <3>1 DEF Prior
  <2>. QED  BY <2>1, <2>2
<1>3. Prior(zs, Len(zs) + 1) = y
  <2>1. Len(zs) + 1 # 1 /\ (Len(zs) + 1) - 1 = n + 1
    BY <1>1
  <2>. QED  BY <1>1, <2>1 DEF Prior
<1>4. Prior(zs, Len(zs)) = Prior(ys, n + 1)
  <2>1. n + 1 \in 1 .. n + 1
    BY <1>1
  <2>. QED  BY <1>1, <1>2, <2>1
<1>5. zs # << >>
  BY <1>1
<1>. QED  BY <1>2, <1>3, <1>4, <1>5 DEF zs

(* The list of passes goes on from its last value.                         *)
LEMMA PassesGrow ==
    ASSUME NEW k, NEW ys, NEW xs, NEW W, ArePasses(k, ys, xs, W),
           NEW y \in SUBSET W, NEW x \in Seq(SUBSET W), DOMAIN x = DOMAIN assumptions,
           IsPass(k, Prior(ys, Len(ys) + 1), y, x, W)
    PROVE  ArePasses(k, Append(ys, y), Append(xs, x), W)
<1>. DEFINE zs == Append(ys, y)
            us == Append(xs, x)
            n  == Len(ys)
<1>1. /\ ys \in Seq(SUBSET W) /\ n \in Nat /\ xs \in Seq(Seq(SUBSET W)) /\ Len(xs) = n
      /\ \A r \in 1 .. n : DOMAIN xs[r] = DOMAIN assumptions
                              /\ IsPass(k, Prior(ys, r), ys[r], xs[r], W)
  BY DEF ArePasses
<1>2. /\ zs \in Seq(SUBSET W) /\ Len(zs) = n + 1 /\ zs[n + 1] = y
      /\ \A r \in 1 .. n : zs[r] = ys[r]
  BY <1>1
<1>3. /\ us \in Seq(Seq(SUBSET W)) /\ Len(us) = n + 1 /\ us[n + 1] = x
      /\ \A r \in 1 .. n : us[r] = xs[r]
  <2>. DEFINE T == Seq(SUBSET W)
  <2>1. xs \in Seq(T) /\ x \in T
    BY <1>1
  <2>. HIDE DEF T
  <2>2. Append(xs, x) \in Seq(T) /\ Len(Append(xs, x)) = n + 1 /\ Append(xs, x)[n + 1] = x
        /\ \A r \in 1 .. n : Append(xs, x)[r] = xs[r]
    BY <1>1, <2>1
  <2>. QED  BY <2>2 DEF T
<1>4. \A r \in 1 .. n + 1 : Prior(zs, r) = Prior(ys, r)
  BY <1>1, PriorGrows
<1>. HIDE DEF zs, us
<1>5. ASSUME NEW r \in 1 .. n + 1
      PROVE  DOMAIN us[r] = DOMAIN assumptions /\ IsPass(k, Prior(zs, r), zs[r], us[r], W)
  <2>1. CASE r = n + 1
    BY <1>2, <1>3, <1>4, <2>1
  <2>2. CASE r # n + 1
    <3>1. r \in 1 .. n
      BY <1>1, <2>2
    <3>. QED  BY <1>1, <1>2, <1>3, <1>4, <3>1
  <2>. QED  BY <2>1, <2>2
<1>6. ArePasses(k, zs, us, W)
  BY <1>2, <1>3, <1>5 DEF ArePasses
<1>. QED  BY <1>6 DEF zs, us

LEMMA RecordOnce ==
    ASSUME NEW T, NEW s \in Seq(T), NEW v \in T
    PROVE  s \o [k \in 1 .. 1 |-> v] = Append(s, v)
<1>1. [k \in 1 .. 1 |-> v] = <<v>>
  OBVIOUS
<1>2. s \o <<v>> = Append(s, v)
  OBVIOUS
<1>. QED  BY <1>1, <1>2

LEMMA RecordTwice ==
    ASSUME NEW T, NEW s \in Seq(T), NEW v \in T
    PROVE  s \o [k \in 1 .. 2 |-> v] = Append(Append(s, v), v)
<1>1. [k \in 1 .. 2 |-> v] = <<v, v>>
  OBVIOUS
<1>2. s \o <<v, v>> = Append(Append(s, v), v)
  OBVIOUS
<1>. QED  BY <1>1, <1>2

(* The list without its last pass.                                         *)
LEMMA PassesShorter ==
    ASSUME NEW k, NEW ys, NEW xs, NEW W, ArePasses(k, ys, xs, W), ys # << >>
    PROVE  /\ ArePasses(k, DropLast(ys), DropLast(xs), W)
           /\ DropLast(ys) # << >> =>
                  DropLast(ys)[Len(DropLast(ys))] = Prior(ys, Len(ys))
<1>. DEFINE n == Len(ys)
            zs == DropLast(ys)
            us == DropLast(xs)
<1>1. /\ ys \in Seq(SUBSET W) /\ n \in Nat \ {0} /\ xs \in Seq(Seq(SUBSET W)) /\ Len(xs) = n
      /\ \A r \in 1 .. n : DOMAIN xs[r] = DOMAIN assumptions
                              /\ IsPass(k, Prior(ys, r), ys[r], xs[r], W)
  BY DEF ArePasses
<1>2. zs = SubSeq(ys, 1, n - 1) /\ us = SubSeq(xs, 1, n - 1)
  <2>1. xs # << >>
    BY <1>1
  <2>. QED  BY <1>1, <2>1 DEF DropLast
<1>3. /\ zs \in Seq(SUBSET W) /\ Len(zs) = n - 1
      /\ \A r \in 1 .. n - 1 : zs[r] = ys[r]
  BY <1>1, <1>2
<1>4. /\ us \in Seq(Seq(SUBSET W)) /\ Len(us) = n - 1
      /\ \A r \in 1 .. n - 1 : us[r] = xs[r]
  <2>. DEFINE T == Seq(SUBSET W)
  <2>1. xs \in Seq(T) /\ us = SubSeq(xs, 1, n - 1)
    BY <1>1, <1>2
  <2>. HIDE DEF T, us
  <2>2. us \in Seq(T) /\ Len(us) = n - 1 /\ \A r \in 1 .. n - 1 : us[r] = xs[r]
    BY <1>1, <2>1
  <2>. QED  BY <2>2 DEF T
<1>. HIDE DEF zs, us
<1>5. ASSUME NEW r \in 1 .. n - 1
      PROVE  /\ r \in 1 .. n /\ Prior(zs, r) = Prior(ys, r)
             /\ DOMAIN us[r] = DOMAIN assumptions
             /\ IsPass(k, Prior(zs, r), zs[r], us[r], W)
  <2>1. r \in 1 .. n
    BY <1>1
  <2>2. Prior(zs, r) = Prior(ys, r)
    <3>1. CASE r = 1
      BY <3>1 DEF Prior
    <3>2. CASE r # 1
      <4>1. r - 1 \in 1 .. n - 1
        BY <1>1, <3>2
      <4>. QED  BY <1>3, <3>2, <4>1 DEF Prior
    <3>. QED  BY <3>1, <3>2
  <2>. QED  BY <1>1, <1>3, <1>4, <2>1, <2>2
<1>6. ArePasses(k, zs, us, W)
  BY <1>3, <1>4, <1>5 DEF ArePasses
<1>7. ASSUME zs # << >>
      PROVE  zs[Len(zs)] = Prior(ys, n)
  <2>1. n # 1 /\ n - 1 \in 1 .. n - 1
    BY <1>1, <1>3, <1>7
  <2>. QED  BY <1>3, <2>1 DEF Prior
<1>. QED  BY <1>6, <1>7 DEF zs, us

LEMMA RowsInit == Init => RowsInv /\ StrategyInv
  BY DEF Init, RowsInv, StrategyInv

(* What the invariant reads of what a step leaves alone.                   *)
LEMMA PassesStay ==
    ASSUME IInv, WInv, RowsInv, [Next]_vars, pc # "begin"
    PROVE  /\ underapproxWinStates' = {}
           /\ isSomeInitFalse' <=> isSomeInitFalse
           /\ assumptions' = assumptions /\ guarantees' = guarantees
           /\ \A k, W, T : Base(game, player, W, guarantees[k], T)'
                               = Base(game, player, W, guarantees[k], T)
           /\ \A k, prior, y, xs, W : IsPass(k, prior, y, xs, W)' <=> IsPass(k, prior, y, xs, W)
           /\ \A k, ys, xs, W : ArePasses(k, ys, xs, W)' <=> ArePasses(k, ys, xs, W)
<1>1. /\ game' = game /\ player' = player /\ assumptions' = assumptions /\ guarantees' = guarantees
      /\ isSomeInitFalse' <=> isSomeInitFalse
  BY InputsStay, ConditionsStay
<1>2. underapproxWinStates' = {}
  BY DEF RowsInv, Next, Begin, BeginZ, BeginGuarantee, BeginY, IterateX, EndY, EndZ, Leave,
         AssertionFails, Return, vars, input
<1>3. \A k, W, T : Base(game, player, W, guarantees[k], T)'
                       = Base(game, player, W, guarantees[k], T)
  BY <1>1
<1>4. \A k, prior, y, xs, W : IsPass(k, prior, y, xs, W)' <=> IsPass(k, prior, y, xs, W)
  BY <1>1 DEF IsPass
<1>5. \A k, ys, xs, W : ArePasses(k, ys, xs, W)' <=> ArePasses(k, ys, xs, W)
  BY <1>1 DEF ArePasses, IsPass, Prior
<1>. QED  BY <1>1, <1>2, <1>3, <1>4, <1>5

(* The guarantees before n, while only the lists of later ones change.     *)
LEMMA BeforeKept ==
    ASSUME IInv, WInv, RowsInv, [Next]_vars, pc # "begin", NEW n, PassesBefore(n),
           previousZ' = previousZ, Z' \subseteq Z,
           \A k \in DOMAIN guarantees :
               k < n => yResults'[k] = yResults[k] /\ xResults'[k] = xResults[k]
    PROVE  \A k \in DOMAIN guarantees' :
               k < n => /\ ArePasses(k, yResults[k], xResults[k], previousZ)'
                        /\ (yResults[k] # << >>)'
                        /\ Z' \subseteq Prior(yResults'[k], Len(yResults'[k]))
<1>1. /\ guarantees' = guarantees
      /\ \A k, ys, xs, W : ArePasses(k, ys, xs, W)' <=> ArePasses(k, ys, xs, W)
  BY PassesStay
<1>2. ASSUME NEW k \in DOMAIN guarantees, k < n
      PROVE  /\ ArePasses(k, yResults[k], xResults[k], previousZ)'
             /\ yResults'[k] # << >>
             /\ Z' \subseteq Prior(yResults'[k], Len(yResults'[k]))
  <2>1. yResults'[k] = yResults[k] /\ xResults'[k] = xResults[k]
    BY <1>2
  <2>2. /\ ArePasses(k, yResults[k], xResults[k], previousZ)
        /\ yResults[k] # << >>
        /\ Z \subseteq Prior(yResults[k], Len(yResults[k]))
    BY <1>2 DEF PassesBefore
  <2>3. ArePasses(k, yResults[k], xResults[k], previousZ)'
    BY <1>1, <2>1, <2>2
  <2>. QED  BY <2>1, <2>2, <2>3
<1>. QED  BY <1>1, <1>2

LEMMA RowsBegin ==
    ASSUME IInv, WInv, RowsInv, Begin
    PROVE  RowsInv'
<1>1. /\ pc' = "z"
      /\ yResults' = [k \in DOMAIN guarantees' |-> << >>]
      /\ xResults' = [k \in DOMAIN guarantees' |-> << >>]
      /\ isZFixpointReached' => isSomeInitFalse
      /\ underapproxWinStates' = underapproxWinStates
  BY DEF Begin, input
<1>2. isSomeInitFalse' <=> isSomeInitFalse
  BY InputsStay DEF Next
<1>. QED  BY <1>1, <1>2 DEF RowsInv

LEMMA RowsBeginZ ==
    ASSUME IInv, WInv, RowsInv, BeginZ
    PROVE  RowsInv'
<1>1. /\ pc = "z" /\ pc' = "guarantee" /\ j' = 1
      /\ yResults' = yResults /\ xResults' = xResults
  BY DEF BeginZ
<1>2. underapproxWinStates' = {} /\ guarantees' = guarantees
  BY <1>1, PassesStay DEF Next
<1>3. \A k \in DOMAIN guarantees : ~(k < 1)
  BY <1>1, ConditionsShape
<1>4. PassesBefore(j)'
  BY <1>1, <1>2, <1>3 DEF PassesBefore
<1>. QED  BY <1>1, <1>2, <1>4 DEF RowsInv

LEMMA RowsBeginGuarantee ==
    ASSUME IInv, WInv, RowsInv, earlierTermination # "CONJUNCT", BeginGuarantee
    PROVE  RowsInv'
<1>1. /\ pc = "guarantee" /\ pc' = "y" /\ j' = j /\ Z' = Z /\ previousZ' = previousZ
      /\ Y' = {}
      /\ yResults' = [yResults EXCEPT ![j] = << >>]
      /\ xResults' = [xResults EXCEPT ![j] = << >>]
  BY DEF BeginGuarantee, zVars, RowsInv
<1>2. /\ underapproxWinStates' = {} /\ guarantees' = guarantees
      /\ \A k, ys, xs, W : ArePasses(k, ys, xs, W)' <=> ArePasses(k, ys, xs, W)
  BY <1>1, PassesStay DEF Next
<1>3. /\ j \in DOMAIN guarantees /\ PassesBefore(j)
      /\ DOMAIN yResults = DOMAIN guarantees /\ DOMAIN xResults = DOMAIN guarantees
  BY <1>1, Parts DEF GuaranteeHolds, RowsInv
<1>4. /\ yResults'[j] = << >> /\ xResults'[j] = << >>
      /\ \A k \in DOMAIN guarantees : k # j => yResults'[k] = yResults[k] /\ xResults'[k] = xResults[k]
      /\ DOMAIN yResults' = DOMAIN guarantees /\ DOMAIN xResults' = DOMAIN guarantees
  BY <1>1, <1>3
<1>5. PassesBefore(j)'
  <2>1. \A k \in DOMAIN guarantees : k < j => k # j
    BY <1>1, <1>3, ConditionsShape
  <2>2. \A k \in DOMAIN guarantees' :
            k < j => /\ ArePasses(k, yResults[k], xResults[k], previousZ)'
                     /\ (yResults[k] # << >>)'
                     /\ Z' \subseteq Prior(yResults'[k], Len(yResults'[k]))
    BY <1>1, <1>3, <1>4, <2>1, BeforeKept DEF Next
  <2>. QED  BY <1>1, <1>4, <2>2 DEF PassesBefore, Prior
<1>6. ArePasses(j, yResults[j], xResults[j], previousZ)'
  <2>1. ArePasses(j, << >>, << >>, previousZ)
    <3>1. /\ << >> \in Seq(SUBSET previousZ) /\ << >> \in Seq(Seq(SUBSET previousZ))
          /\ 1 .. Len(<< >>) = {}
      OBVIOUS
    <3>. QED  BY <3>1 DEF ArePasses
  <2>. QED  BY <1>1, <1>2, <1>4, <2>1
<1>7. (Y = Prior(yResults[j], Len(yResults[j]) + 1))'
  <2>1. Prior(<< >>, Len(<< >>) + 1) = {}
    BY DEF Prior
  <2>. QED  BY <1>1, <1>4, <2>1 DEF Prior
<1>. QED  BY <1>1, <1>2, <1>4, <1>5, <1>6, <1>7 DEF RowsInv

LEMMA RowsBeginY ==
    ASSUME IInv, WInv, RowsInv, earlierTermination # "CONJUNCT", BeginY
    PROVE  RowsInv'
<1>1. /\ pc = "y" /\ pc' = "x" /\ j' = j /\ Z' = Z /\ previousZ' = previousZ
      /\ start' = preImageZAndGuarantee \cup Pre(Y)
      /\ Y' = Y /\ previousY' = Y /\ i' = 1 /\ xArray' = << >>
      /\ yResults' = yResults /\ xResults' = xResults
  BY DEF BeginY, zVars
<1>2. /\ underapproxWinStates' = {} /\ guarantees' = guarantees
      /\ \A k, W, T : Base(game, player, W, guarantees[k], T)'
                          = Base(game, player, W, guarantees[k], T)
      /\ \A k, prior, y, xs, W : IsPass(k, prior, y, xs, W)' <=> IsPass(k, prior, y, xs, W)
      /\ \A k, ys, xs, W : ArePasses(k, ys, xs, W)' <=> ArePasses(k, ys, xs, W)
  BY <1>1, PassesStay DEF Next
<1>3. /\ j \in DOMAIN guarantees /\ PassesBefore(j) /\ Z \subseteq previousZ
      /\ ArePasses(j, yResults[j], xResults[j], previousZ)
      /\ Y = Prior(yResults[j], Len(yResults[j]) + 1)
      /\ DOMAIN yResults = DOMAIN guarantees /\ DOMAIN xResults = DOMAIN guarantees
  BY <1>1, Parts DEF GuaranteeHolds, ServedBefore, RowsInv
<1>4. start' \subseteq Base(game, player, previousZ, guarantees[j], Y)
  <2>1. start' = Base(game, player, Z, guarantees[j], Y)
    BY <1>1, PreIsForce DEF preImageZAndGuarantee, Base, IInv, InputsKept
  <2>. QED  BY <1>3, <2>1, BaseMonotone
<1>5. PassesBefore(j)'
  BY <1>1, <1>2, <1>3 DEF PassesBefore, Prior
<1>6. PassSoFar'
  <2>1. xArray' \in Seq(SUBSET previousZ) /\ Len(xArray') = 0 /\ DOMAIN xArray' = {}
    BY <1>1
  <2>2. IsPass(j, Y, Y, xArray', previousZ)
    BY <2>1 DEF IsPass
  <2>3. IsPass(j, previousY, Y, xArray, previousZ)'
    BY <1>1, <1>2, <2>2
  <2>4. (previousY = Prior(yResults[j], Len(yResults[j]) + 1))'
    BY <1>1, <1>3 DEF Prior
  <2>5. start' \subseteq Base(game, player, previousZ, guarantees[j], previousY)'
    BY <1>1, <1>2, <1>4
  <2>. QED  BY <1>1, <2>1, <2>3, <2>4, <2>5 DEF PassSoFar
<1>7. ArePasses(j, yResults[j], xResults[j], previousZ)'
  BY <1>1, <1>2, <1>3
<1>. QED  BY <1>1, <1>2, <1>3, <1>5, <1>6, <1>7 DEF RowsInv

LEMMA RowsIterateX ==
    ASSUME IInv, WInv, RowsInv, earlierTermination # "CONJUNCT", IterateX
    PROVE  RowsInv'
<1>. DEFINE base   == Base(game, player, previousZ, guarantees[j], previousY)
            others == UNION {xArray[q] : q \in 1 .. i - 1}
<1>1. /\ pc = "x" /\ j' = j /\ Z' = Z /\ previousZ' = previousZ /\ previousY' = previousY
      /\ yResults' = yResults /\ xResults' = xResults
  BY DEF IterateX, zVars
<1>2. /\ underapproxWinStates' = {} /\ guarantees' = guarantees /\ assumptions' = assumptions
      /\ \A k, W, T : Base(game, player, W, guarantees[k], T)'
                          = Base(game, player, W, guarantees[k], T)
      /\ \A k, prior, y, xs, W : IsPass(k, prior, y, xs, W)' <=> IsPass(k, prior, y, xs, W)
      /\ \A k, ys, xs, W : ArePasses(k, ys, xs, W)' <=> ArePasses(k, ys, xs, W)
  BY <1>1, PassesStay DEF Next
<1>3. /\ j \in DOMAIN guarantees /\ PassesBefore(j) /\ Z \subseteq previousZ
      /\ ArePasses(j, yResults[j], xResults[j], previousZ)
      /\ DOMAIN yResults = DOMAIN guarantees /\ DOMAIN xResults = DOMAIN guarantees
      /\ PassSoFar /\ i \in DOMAIN assumptions /\ X \subseteq Z
  BY <1>1, Parts DEF GuaranteeHolds, ServedBefore, XHolds, XInside, RowsInv
<1>4. PassesBefore(j)' /\ ArePasses(j, yResults[j], xResults[j], previousZ)'
  BY <1>1, <1>2, <1>3 DEF PassesBefore, Prior
<1>5. /\ previousY = Prior(yResults[j], Len(yResults[j]) + 1) /\ previousY \subseteq Y
      /\ xArray \in Seq(SUBSET previousZ) /\ Len(xArray) = i - 1
      /\ IsPass(j, previousY, Y, xArray, previousZ)
      /\ start \subseteq base \cup previousY \cup others
      /\ Len(assumptions) \in Nat \ {0} /\ DOMAIN assumptions = 1 .. Len(assumptions)
      /\ i \in 1 .. Len(assumptions)
  BY <1>1, <1>3, ConditionsShape DEF PassSoFar
<1>6. (previousY = Prior(yResults[j], Len(yResults[j]) + 1))'
  BY <1>1, <1>5 DEF Prior
<1>7. base' = base
  BY <1>1, <1>2
<1>8. /\ X # (CanForce(game, X, player) \ assumptions[i]) \cup start =>
             /\ pc' = pc /\ Y' = Y /\ i' = i /\ start' = start /\ xArray' = xArray
      /\ X = (CanForce(game, X, player) \ assumptions[i]) \cup start =>
             /\ xArray' = Append(xArray, X) /\ Y' = Y \cup X /\ start' = Y \cup X
             /\ IF i < Len(assumptions) THEN i' = i + 1 /\ pc' = "x" ELSE pc' = "endY" /\ i' = i
  BY PreIsForce DEF IterateX, IInv, InputsKept
<1>. HIDE DEF base
<1>9. CASE X # (CanForce(game, X, player) \ assumptions[i]) \cup start
  <2>1. pc' = "x" /\ Y' = Y /\ i' = i /\ start' = start /\ xArray' = xArray
    BY <1>1, <1>8, <1>9
  <2>2. IsPass(j, previousY, Y, xArray, previousZ)'
    BY <1>1, <1>2, <1>5, <2>1
  <2>3. PassSoFar'
    BY <1>1, <1>5, <1>6, <1>7, <2>1, <2>2 DEF PassSoFar, base
  <2>. QED  BY <1>1, <1>2, <1>3, <1>4, <2>1, <2>3 DEF RowsInv
<1>10. CASE X = (CanForce(game, X, player) \ assumptions[i]) \cup start
  <2>. DEFINE zs == Append(xArray, X)
  <2>1. /\ xArray' = zs /\ Y' = Y \cup X /\ start' = Y \cup X
        /\ IF i < Len(assumptions) THEN i' = i + 1 /\ pc' = "x" ELSE pc' = "endY" /\ i' = i
    BY <1>8, <1>10
  <2>2. /\ zs \in Seq(SUBSET previousZ) /\ Len(zs) = i /\ DOMAIN zs = 1 .. i
        /\ zs[i] = X /\ \A q \in 1 .. i - 1 : zs[q] = xArray[q]
        /\ DOMAIN xArray = 1 .. i - 1
    BY <1>3, <1>5
  <2>. HIDE DEF zs
  <2>3. Y \cup X \subseteq previousY \cup UNION {zs[m] : m \in 1 .. i}
    <3>1. Y \subseteq previousY \cup UNION {xArray[m] : m \in 1 .. i - 1}
      BY <1>5, <2>2 DEF IsPass
    <3>2. \A m \in 1 .. i - 1 : m \in 1 .. i /\ xArray[m] = zs[m]
      BY <1>5, <2>2
    <3>3. i \in 1 .. i
      BY <1>5
    <3>. QED  BY <2>2, <3>1, <3>2, <3>3
  <2>4. ASSUME NEW m \in 1 .. i
        PROVE  /\ zs[m] \subseteq Y \cup X
               /\ zs[m] \subseteq (CanForce(game, zs[m], player) \ assumptions[m])
                                      \cup base \cup previousY \cup UNION {zs[q] : q \in 1 .. m - 1}
    <3>1. CASE m = i
      <4>1. UNION {zs[q] : q \in 1 .. i - 1} = others
        BY <2>2
      <4>. QED  BY <1>5, <1>10, <2>2, <3>1, <4>1
    <3>2. CASE m # i
      <4>1. m \in 1 .. i - 1 /\ \A q \in 1 .. m - 1 : q \in 1 .. i - 1
        BY <1>5, <3>2
      <4>2. UNION {zs[q] : q \in 1 .. m - 1} = UNION {xArray[q] : q \in 1 .. m - 1}
        BY <2>2, <4>1
      <4>3. /\ xArray[m] \subseteq Y
            /\ xArray[m] \subseteq (CanForce(game, xArray[m], player) \ assumptions[m])
                                      \cup base \cup previousY \cup UNION {xArray[q] : q \in 1 .. m - 1}
        BY <1>5, <2>2, <4>1 DEF IsPass, base
      <4>. QED  BY <2>2, <4>1, <4>2, <4>3
    <3>. QED  BY <3>1, <3>2
  <2>5. IsPass(j, previousY, Y \cup X, zs, previousZ)
    BY <2>2, <2>3, <2>4 DEF IsPass, base
  <2>6. IsPass(j, previousY, Y, xArray, previousZ)'
    BY <1>1, <1>2, <2>1, <2>5
  <2>7. PassSoFar'
    <3>1. CASE i < Len(assumptions)
      <4>1. i' = i + 1 /\ pc' = "x" /\ (i + 1) - 1 = i
        BY <1>5, <2>1, <3>1
      <4>2. start' \subseteq base' \cup previousY' \cup UNION {xArray'[q] : q \in 1 .. i' - 1}
        BY <1>1, <2>1, <2>3, <4>1
      <4>. QED  BY <1>1, <1>5, <1>6, <2>1, <2>2, <2>6, <4>1, <4>2 DEF PassSoFar, base
    <3>2. CASE ~(i < Len(assumptions))
      <4>1. pc' = "endY" /\ i = Len(assumptions)
        BY <1>5, <2>1, <3>2
      <4>. QED  BY <1>1, <1>2, <1>5, <1>6, <2>1, <2>2, <2>6, <4>1 DEF PassSoFar
    <3>. QED  BY <3>1, <3>2
  <2>8. pc' \in {"x", "endY"}
    BY <2>1
  <2>. QED  BY <1>1, <1>2, <1>3, <1>4, <2>7, <2>8 DEF RowsInv
<1>. QED  BY <1>9, <1>10

(* The end of a pass: it is recorded, once or twice.                       *)
LEMMA PassRecorded ==
    ASSUME IInv, WInv, RowsInv, earlierTermination # "CONJUNCT", EndY
    PROVE  /\ ArePasses(j, yResults'[j], xResults'[j], previousZ)
           /\ yResults'[j] # << >>
           /\ Prior(yResults'[j], Len(yResults'[j]) + 1) = Y
           /\ previousY = Y \/ Y = Z => Prior(yResults'[j], Len(yResults'[j])) = Y
<1>. DEFINE ys == yResults[j]
            xs == xResults[j]
            T  == Seq(SUBSET previousZ)
<1>1. pc = "endY"
  BY DEF EndY
<1>2. /\ j \in DOMAIN guarantees /\ Z \subseteq previousZ /\ Y \subseteq Z
      /\ ArePasses(j, ys, xs, previousZ)
      /\ DOMAIN yResults = DOMAIN guarantees /\ DOMAIN xResults = DOMAIN guarantees
      /\ PassSoFar
  BY <1>1, Parts DEF GuaranteeHolds, ServedBefore, YInside, RowsInv
<1>3. /\ previousY = Prior(ys, Len(ys) + 1) /\ previousY \subseteq Y
      /\ xArray \in Seq(SUBSET previousZ) /\ Len(xArray) = Len(assumptions)
      /\ IsPass(j, previousY, Y, xArray, previousZ)
      /\ Y \in SUBSET previousZ
  BY <1>1, <1>2 DEF PassSoFar
<1>4. DOMAIN xArray = DOMAIN assumptions
  BY <1>1, <1>3, ConditionsShape
<1>. HIDE DEF ys, xs
<1>5. /\ ArePasses(j, Append(ys, Y), Append(xs, xArray), previousZ)
      /\ Append(ys, Y) # << >>
      /\ Append(ys, Y) \in Seq(SUBSET previousZ) /\ Append(xs, xArray) \in Seq(T)
      /\ Prior(Append(ys, Y), Len(Append(ys, Y)) + 1) = Y
      /\ Prior(Append(ys, Y), Len(Append(ys, Y))) = previousY
  <2>. HIDE DEF T
  <2>1. /\ ArePasses(j, ys, xs, previousZ) /\ Y \in SUBSET previousZ /\ xArray \in Seq(SUBSET previousZ)
        /\ DOMAIN xArray = DOMAIN assumptions
        /\ IsPass(j, Prior(ys, Len(ys) + 1), Y, xArray, previousZ)
    BY <1>2, <1>3, <1>4 DEF ys, xs
  <2>2. ArePasses(j, Append(ys, Y), Append(xs, xArray), previousZ)
    BY <2>1, PassesGrow
  <2>3. /\ Append(ys, Y) # << >>
        /\ Prior(Append(ys, Y), Len(Append(ys, Y)) + 1) = Y
        /\ Prior(Append(ys, Y), Len(Append(ys, Y))) = Prior(ys, Len(ys) + 1)
    BY <2>1, PriorGrows DEF ArePasses
  <2>4. Append(ys, Y) \in Seq(SUBSET previousZ) /\ Append(xs, xArray) \in Seq(T)
    BY <2>2 DEF ArePasses, T
  <2>. QED  BY <1>3, <2>2, <2>3, <2>4 DEF ys
<1>6. ys \in Seq(SUBSET previousZ) /\ xs \in Seq(T)
  BY <1>2 DEF ArePasses, ys, xs
<1>7. CASE previousY # Y /\ Y = Z
  <2>1. /\ yResults' = [yResults EXCEPT ![j] = @ \o [k \in 1 .. 2 |-> Y]]
        /\ xResults' = [xResults EXCEPT ![j] = @ \o [k \in 1 .. 2 |-> xArray]]
    BY <1>7 DEF EndY
  <2>2. yResults'[j] = ys \o [k \in 1 .. 2 |-> Y] /\ xResults'[j] = xs \o [k \in 1 .. 2 |-> xArray]
    BY <1>2, <2>1 DEF ys, xs
  <2>. HIDE DEF T
  <2>3. /\ yResults'[j] = Append(Append(ys, Y), Y)
        /\ xResults'[j] = Append(Append(xs, xArray), xArray)
    <3>1. xArray \in T
      BY <1>3 DEF T
    <3>. QED  BY <1>3, <1>6, <2>2, <3>1, RecordTwice
  <2>. DEFINE y1 == Append(ys, Y)
              x1 == Append(xs, xArray)
  <2>4. IsPass(j, Prior(y1, Len(y1) + 1), Y, xArray, previousZ)
    BY <1>3, <1>5, PassAgain
  <2>5. ArePasses(j, y1, x1, previousZ) /\ Prior(y1, Len(y1) + 1) = Y
    BY <1>5
  <2>. HIDE DEF y1, x1
  <2>6. ArePasses(j, Append(y1, Y), Append(x1, xArray), previousZ)
    BY <1>3, <1>4, <2>4, <2>5, PassesGrow
  <2>7. /\ Append(y1, Y) # << >>
        /\ Prior(Append(y1, Y), Len(Append(y1, Y)) + 1) = Y
        /\ Prior(Append(y1, Y), Len(Append(y1, Y))) = Prior(y1, Len(y1) + 1)
    BY <1>3, <2>5, PriorGrows DEF ArePasses
  <2>. QED  BY <2>3, <2>5, <2>6, <2>7 DEF y1, x1
<1>8. CASE ~(previousY # Y /\ Y = Z)
  <2>1. /\ yResults' = [yResults EXCEPT ![j] = @ \o [k \in 1 .. 1 |-> Y]]
        /\ xResults' = [xResults EXCEPT ![j] = @ \o [k \in 1 .. 1 |-> xArray]]
    BY <1>8 DEF EndY
  <2>2. yResults'[j] = ys \o [k \in 1 .. 1 |-> Y] /\ xResults'[j] = xs \o [k \in 1 .. 1 |-> xArray]
    BY <1>2, <2>1 DEF ys, xs
  <2>. HIDE DEF T
  <2>3. /\ yResults'[j] = Append(ys, Y)
        /\ xResults'[j] = Append(xs, xArray)
    <3>1. xArray \in T
      BY <1>3 DEF T
    <3>. QED  BY <1>3, <1>6, <2>2, <3>1, RecordOnce
  <2>. QED  BY <1>5, <1>8, <2>3
<1>. QED  BY <1>7, <1>8

LEMMA RowsEndY ==
    ASSUME IInv, WInv, RowsInv, earlierTermination # "CONJUNCT", EndY
    PROVE  RowsInv'
<1>1. /\ pc = "endY" /\ previousZ' = previousZ /\ Y' = Y
      /\ IF previousY = Y \/ Y = Z
         THEN /\ Z' = Y
              /\ IF j < Len(guarantees)
                 THEN j' = j + 1 /\ pc' = "guarantee"
                 ELSE pc' = "endZ"
         ELSE pc' = "y" /\ Z' = Z /\ j' = j
  BY DEF EndY
<1>2. /\ underapproxWinStates' = {} /\ guarantees' = guarantees
      /\ \A k, ys, xs, W : ArePasses(k, ys, xs, W)' <=> ArePasses(k, ys, xs, W)
  BY <1>1, PassesStay DEF Next
<1>3. /\ j \in DOMAIN guarantees /\ Y \subseteq Z /\ PassesBefore(j)
      /\ DOMAIN yResults = DOMAIN guarantees /\ DOMAIN xResults = DOMAIN guarantees
      /\ Len(guarantees) \in Nat \ {0} /\ DOMAIN guarantees = 1 .. Len(guarantees)
  BY <1>1, Parts, ConditionsShape DEF GuaranteeHolds, YInside, RowsInv
<1>4. /\ DOMAIN yResults' = DOMAIN guarantees /\ DOMAIN xResults' = DOMAIN guarantees
      /\ \A k \in DOMAIN guarantees : k # j => yResults'[k] = yResults[k] /\ xResults'[k] = xResults[k]
  <2>1. PICK v, u : /\ yResults' = [yResults EXCEPT ![j] = v]
                    /\ xResults' = [xResults EXCEPT ![j] = u]
    BY DEF EndY
  <2>. QED  BY <1>3, <2>1
<1>5. /\ ArePasses(j, yResults'[j], xResults'[j], previousZ)
      /\ yResults'[j] # << >>
      /\ Prior(yResults'[j], Len(yResults'[j]) + 1) = Y
      /\ previousY = Y \/ Y = Z => Prior(yResults'[j], Len(yResults'[j])) = Y
  BY PassRecorded
<1>6. \A k \in DOMAIN guarantees' :
          k < j => /\ ArePasses(k, yResults[k], xResults[k], previousZ)'
                   /\ (yResults[k] # << >>)'
                   /\ Z' \subseteq Prior(yResults'[k], Len(yResults'[k]))
  <2>1. Z' \subseteq Z
    BY <1>1, <1>3
  <2>2. \A k \in DOMAIN guarantees : k < j => k # j
    BY <1>3
  <2>. QED  BY <1>1, <1>3, <1>4, <2>1, <2>2, BeforeKept DEF Next
<1>7. CASE previousY = Y \/ Y = Z
  <2>1. ASSUME NEW k \in DOMAIN guarantees', k < j + 1
        PROVE  /\ ArePasses(k, yResults[k], xResults[k], previousZ)'
               /\ (yResults[k] # << >>)'
               /\ Z' \subseteq Prior(yResults'[k], Len(yResults'[k]))
    <3>1. k < j \/ k = j
      BY <1>2, <1>3, <2>1
    <3>2. CASE k = j
      <4>1. ArePasses(k, yResults[k], xResults[k], previousZ)'
        BY <1>1, <1>2, <1>5, <3>2
      <4>. QED  BY <1>1, <1>5, <1>7, <3>2, <4>1
    <3>. QED  BY <1>6, <3>1, <3>2
  <2>2. CASE j < Len(guarantees)
    <3>1. pc' = "guarantee" /\ j' = j + 1
      BY <1>1, <1>7, <2>2
    <3>2. PassesBefore(j)'
      BY <2>1, <3>1 DEF PassesBefore, Prior
    <3>. QED  BY <1>2, <1>4, <3>1, <3>2 DEF RowsInv
  <2>3. CASE ~(j < Len(guarantees))
    <3>1. pc' = "endZ" /\ Len(guarantees') + 1 = j + 1
      BY <1>1, <1>2, <1>3, <1>7, <2>3
    <3>2. PassesBefore(Len(guarantees) + 1)'
      BY <2>1, <3>1 DEF PassesBefore, Prior
    <3>. QED  BY <1>2, <1>4, <3>1, <3>2 DEF RowsInv
  <2>. QED  BY <2>2, <2>3
<1>8. CASE ~(previousY = Y \/ Y = Z)
  <2>1. pc' = "y" /\ Z' = Z /\ j' = j
    BY <1>1, <1>8
  <2>2. PassesBefore(j)'
    BY <1>6, <2>1 DEF PassesBefore, Prior
  <2>3. ArePasses(j, yResults[j], xResults[j], previousZ)'
    BY <1>1, <1>2, <1>5, <2>1
  <2>4. (Y = Prior(yResults[j], Len(yResults[j]) + 1))'
    BY <1>1, <1>5, <2>1 DEF Prior
  <2>. QED  BY <1>2, <1>4, <2>1, <2>2, <2>3, <2>4 DEF RowsInv
<1>. QED  BY <1>7, <1>8

LEMMA RowsEndZ ==
    ASSUME IInv, WInv, RowsInv, earlierTermination # "CONJUNCT", EndZ
    PROVE  RowsInv'
<1>1. /\ pc = "endZ" /\ pc' = "z" /\ Z' = Z /\ previousZ' = previousZ
      /\ isZFixpointReached' = (previousZ = Z)
      /\ yResults' = yResults /\ xResults' = xResults
  BY DEF EndZ, KeptBy, yVars
<1>2. /\ underapproxWinStates' = {} /\ guarantees' = guarantees
      /\ \A k, ys, xs, W : ArePasses(k, ys, xs, W)' <=> ArePasses(k, ys, xs, W)
  BY <1>1, PassesStay DEF Next
<1>3. PassesBefore(Len(guarantees) + 1)'
  BY <1>1, <1>2 DEF RowsInv, PassesBefore, Prior
<1>. QED  BY <1>1, <1>2, <1>3 DEF RowsInv

LEMMA RowsLeave ==
    ASSUME IInv, WInv, RowsInv, earlierTermination # "CONJUNCT", Leave
    PROVE  RowsInv'
<1>1. /\ pc = "z" /\ pc' = "strategy" /\ Z' = Z
      /\ isZFixpointReached \/ ~isRealizable
      /\ isRealizable' = IF earlierTermination = "NONE" THEN WinsAtInit(Z) ELSE isRealizable
      /\ yResults' = Dropped(yResults) /\ xResults' = Dropped(xResults)
  BY DEF Leave
<1>2. /\ underapproxWinStates' = {} /\ guarantees' = guarantees
      /\ isSomeInitFalse' <=> isSomeInitFalse
      /\ \A k, ys, xs, W : ArePasses(k, ys, xs, W)' <=> ArePasses(k, ys, xs, W)
      /\ Len(guarantees) \in Nat \ {0} /\ DOMAIN guarantees = 1 .. Len(guarantees)
  BY <1>1, PassesStay, ConditionsShape DEF Next
<1>3. /\ DOMAIN yResults = DOMAIN guarantees /\ DOMAIN xResults = DOMAIN guarantees
  BY <1>1 DEF RowsInv
<1>4. /\ DOMAIN yResults' = DOMAIN guarantees /\ DOMAIN xResults' = DOMAIN guarantees
      /\ \A k \in DOMAIN guarantees : /\ yResults'[k] = DropLast(yResults[k])
                                      /\ xResults'[k] = DropLast(xResults[k])
  BY <1>1, <1>3 DEF Dropped
<1>5. ASSUME isRealizable', ~isSomeInitFalse'
      PROVE  PassesLeft'
  <2>1. isZFixpointReached /\ ~isSomeInitFalse
    BY <1>1, <1>2, <1>5, Parts DEF FlagsHold, StillRealizable
  <2>2. previousZ = Z /\ PassesBefore(Len(guarantees) + 1)
    BY <1>1, <2>1 DEF RowsInv
  <2>3. ASSUME NEW k \in DOMAIN guarantees
        PROVE  /\ ArePasses(k, yResults[k], xResults[k], Z)'
               /\ yResults'[k] # << >> => Z' \subseteq yResults'[k][Len(yResults'[k])]
    <3>1. k < Len(guarantees) + 1
      BY <1>2
    <3>2. /\ ArePasses(k, yResults[k], xResults[k], Z)
          /\ yResults[k] # << >>
          /\ Z \subseteq Prior(yResults[k], Len(yResults[k]))
      BY <2>2, <3>1 DEF PassesBefore
    <3>3. /\ ArePasses(k, yResults'[k], xResults'[k], Z)
          /\ yResults'[k] # << >> =>
                 yResults'[k][Len(yResults'[k])] = Prior(yResults[k], Len(yResults[k]))
      BY <1>4, <3>2, PassesShorter
    <3>4. ArePasses(k, yResults[k], xResults[k], Z)'
      BY <1>1, <1>2, <3>3
    <3>. QED  BY <1>1, <3>2, <3>3, <3>4
  <2>. QED  BY <1>2, <2>3 DEF PassesLeft
<1>. QED  BY <1>1, <1>2, <1>4, <1>5 DEF RowsInv

LEMMA RowsReturn ==
    ASSUME IInv, WInv, RowsInv, Return \/ AssertionFails \/ UNCHANGED vars
    PROVE  RowsInv'
<1>1. CASE UNCHANGED vars
  <2>1. UNCHANGED <<game, spec, assumptions, guarantees, previousZ, Z, Y, previousY, j>>
        /\ UNCHANGED <<yResults, xResults, i, start, xArray, pc>>
        /\ UNCHANGED <<underapproxWinStates, isZFixpointReached, isRealizable>>
    BY <1>1 DEF vars, input, zVars, yVars, xVars
  <2>2. \A k, ys, xs, W : ArePasses(k, ys, xs, W)' <=> ArePasses(k, ys, xs, W)
    BY <2>1 DEF ArePasses, IsPass, Prior, player
  <2>3. \A n : PassesBefore(n)' <=> PassesBefore(n)
    BY <2>1, <2>2 DEF PassesBefore, Prior
  <2>4. (PassSoFar' <=> PassSoFar) /\ (PassesLeft' <=> PassesLeft)
    BY <2>1, <2>2 DEF PassesLeft, PassSoFar, IsPass, Prior, player
  <2>5. isSomeInitFalse' <=> isSomeInitFalse
    BY <2>1 DEF isSomeInitFalse
  <2>. QED  BY <2>1, <2>2, <2>3, <2>4, <2>5 DEF RowsInv, Prior
<1>2. CASE Return \/ AssertionFails
  <2>1. /\ pc = "strategy" /\ pc' \in {"done", "aborted"} /\ Z' = Z
        /\ isRealizable' = isRealizable
        /\ yResults' = yResults /\ xResults' = xResults
    BY <1>2 DEF Return, AssertionFails, zVars, yVars
  <2>2. /\ underapproxWinStates' = {} /\ guarantees' = guarantees
        /\ isSomeInitFalse' <=> isSomeInitFalse
        /\ \A k, ys, xs, W : ArePasses(k, ys, xs, W)' <=> ArePasses(k, ys, xs, W)
    BY <1>2, <2>1, PassesStay DEF Next
  <2>3. PassesLeft' <=> PassesLeft
    BY <2>1, <2>2 DEF PassesLeft
  <2>. QED  BY <2>1, <2>2, <2>3 DEF RowsInv
<1>. QED  BY <1>1, <1>2

LEMMA RowsStep ==
    ASSUME IInv, WInv, RowsInv, earlierTermination # "CONJUNCT", [Next]_vars
    PROVE  RowsInv'
  BY RowsBegin, RowsBeginZ, RowsBeginGuarantee, RowsBeginY, RowsIterateX, RowsEndY, RowsEndZ,
     RowsLeave, RowsReturn DEF Next

LEMMA StrategyStep ==
    ASSUME IInv, WInv, StrategyInv, earlierTermination # "CONJUNCT", [Next]_vars
    PROVE  StrategyInv'
<1>1. CASE strategy' = NoStrategy
  BY <1>1 DEF StrategyInv, NoStrategy
<1>2. CASE strategy' # NoStrategy /\ ~Return
  <2>1. UNCHANGED vars
    BY <1>2 DEF StrategyInv, Next, Begin, BeginZ, BeginGuarantee, BeginY, IterateX, EndY, EndZ,
                Leave, AssertionFails, vars
  <2>2. StrategyInv' <=> StrategyInv
    BY <2>1 DEF vars, input, zVars, yVars, xVars, StrategyInv, StrategyArgs, NoStrategy, player,
                isSomeInitFalse, Rho1, Rho2, Rho3, Rows, Cells
  <2>. QED  BY <2>2
<1>3. CASE strategy' # NoStrategy /\ Return
  <2>1. /\ pc = "strategy" /\ pc' = "done" /\ isRealizable /\ strategy' = StrategyArgs
        /\ ~isSomeInitFalse => \A k \in DOMAIN guarantees : yResults[k] # << >>
        /\ UNCHANGED <<input, assumptions, guarantees, zVars, yVars, xVars>>
    BY <1>3 DEF Return, StrategyWanted, RowsMissing
  <2>2. /\ Z' = Z /\ isRealizable' = isRealizable /\ yResults' = yResults /\ game' = game
        /\ opt' = opt /\ player' = player /\ guarantees' = guarantees
        /\ isSomeInitFalse' <=> isSomeInitFalse
    BY <2>1 DEF zVars, yVars, input, player, isSomeInitFalse
  <2>3. StrategyArgs' = StrategyArgs
    BY <2>1 DEF zVars, yVars, input, StrategyArgs, player, isSomeInitFalse, Rho1, Rho2, Rho3,
                Rows, Cells
  <2>4. Decided /\ Z \subseteq Invar(game) /\ opt \in Quantifiers
    BY <2>1, Parts DEF InLoops, ZClosed, WInv
  <2>5. StartsIn(game, StrategyArgs.winningStates, player, opt)
    <3>1. StrategyArgs.winningStates = IF isSomeInitFalse THEN {} ELSE Z
      BY DEF StrategyArgs
    <3>2. StartsIn(game, WinRegion(game, spec), player, opt)
      BY <2>1, <2>4 DEF Decided
    <3>3. CASE isSomeInitFalse
      BY <2>4, <3>2, <3>3, StartEmpty DEF isSomeInitFalse
    <3>4. CASE ~isSomeInitFalse
      BY <2>1, <2>4, <3>1, <3>2, <3>4 DEF Decided
    <3>. QED  BY <3>3, <3>4
  <2>. QED  BY <2>1, <2>2, <2>3, <2>4, <2>5 DEF StrategyInv
<1>. QED  BY <1>1, <1>2, <1>3

-----------------------------------------------------------------------------
(* The moves of the strategy.                                              *)

LowY(k, r) == UNION {yResults[k][q] : q \in 1 .. r - 1}

LowX(k, d) ==
    UNION {xResults[k][c[1]][c[2]] : c \in {c \in Cells(xResults, k) : Before(c, d)}}

LEMMA RowsOfRho1 ==
    /\ \A k \in DOMAIN guarantees : \A m \in GetMove(game, Z, player) :
          m[1] \in Z \cap guarantees[k] => <<k - 1, k % Len(guarantees), m>> \in Rho1
    /\ \A row \in Rho1 : row[3] \in GetMove(game, Z, player)
<1>. DEFINE Part(k) == Rows(k - 1, k % Len(guarantees), GetMove(game, Z, player),
                            Z \cap guarantees[k])
<1>1. Rho1 = UNION {Part(k) : k \in DOMAIN guarantees}
  BY DEF Rho1
<1>2. \A k, row : row \in Part(k) <=>
          \E m \in GetMove(game, Z, player) :
              m[1] \in Z \cap guarantees[k] /\ row = <<k - 1, k % Len(guarantees), m>>
  BY DEF Rows
<1>3. \A k, m : m \in GetMove(game, Z, player) /\ m[1] \in Z \cap guarantees[k]
                    => <<k - 1, k % Len(guarantees), m>> \in Part(k)
  BY <1>2
<1>4. \A k : \A row \in Part(k) : row[3] \in GetMove(game, Z, player)
  BY <1>2
<1>. HIDE DEF Part
<1>. QED  BY <1>1, <1>3, <1>4

LEMMA RowsOfRho2 ==
    /\ \A k \in DOMAIN guarantees : \A r \in 2 .. Len(yResults[k]) :
          \A m \in GetMove(game, LowY(k, r), player) :
              m[1] \in yResults[k][r] \ LowY(k, r) => <<k - 1, k - 1, m>> \in Rho2(yResults)
    /\ \A row \in Rho2(yResults) :
          \E k \in DOMAIN guarantees : \E r \in 2 .. Len(yResults[k]) :
              row[3] \in GetMove(game, LowY(k, r), player)
<1>. DEFINE Part(k, r) == Rows(k - 1, k - 1, GetMove(game, LowY(k, r), player),
                               yResults[k][r] \ LowY(k, r))
<1>1. Rho2(yResults) = UNION {UNION {Part(k, r) : r \in 2 .. Len(yResults[k])}
                                 : k \in DOMAIN guarantees}
  BY DEF Rho2, LowY
<1>2. \A k, r, row : row \in Part(k, r) <=>
          \E m \in GetMove(game, LowY(k, r), player) :
              m[1] \in yResults[k][r] \ LowY(k, r) /\ row = <<k - 1, k - 1, m>>
  BY DEF Rows
<1>3. \A k, r, m : m \in GetMove(game, LowY(k, r), player)
                       /\ m[1] \in yResults[k][r] \ LowY(k, r)
                       => <<k - 1, k - 1, m>> \in Part(k, r)
  BY <1>2
<1>4. \A k, r : \A row \in Part(k, r) : row[3] \in GetMove(game, LowY(k, r), player)
  BY <1>2
<1>. HIDE DEF Part
<1>. QED  BY <1>1, <1>3, <1>4

LEMMA RowsOfRho3 ==
    /\ \A k \in DOMAIN guarantees : \A d \in Cells(xResults, k) :
          \A m \in GetMove(game, xResults[k][d[1]][d[2]], player) :
              m[1] \in (xResults[k][d[1]][d[2]] \ LowX(k, d)) \ assumptions[d[2]]
                  => <<k - 1, k - 1, m>> \in Rho3(xResults)
    /\ \A row \in Rho3(xResults) :
          \E k \in DOMAIN guarantees : \E d \in Cells(xResults, k) :
              row[3] \in GetMove(game, xResults[k][d[1]][d[2]], player)
<1>. DEFINE Part(k, d) == Rows(k - 1, k - 1, GetMove(game, xResults[k][d[1]][d[2]], player),
                               (xResults[k][d[1]][d[2]] \ LowX(k, d)) \ assumptions[d[2]])
<1>1. Rho3(xResults) = UNION {UNION {Part(k, d) : d \in Cells(xResults, k)}
                                 : k \in DOMAIN guarantees}
  BY DEF Rho3, LowX
<1>2. \A k, d, row : row \in Part(k, d) <=>
          \E m \in GetMove(game, xResults[k][d[1]][d[2]], player) :
              m[1] \in (xResults[k][d[1]][d[2]] \ LowX(k, d)) \ assumptions[d[2]] /\ row = <<k - 1, k - 1, m>>
  BY DEF Rows
<1>. HIDE DEF Part
<1>3. \A k, d, m : m \in GetMove(game, xResults[k][d[1]][d[2]], player)
                       /\ m[1] \in (xResults[k][d[1]][d[2]] \ LowX(k, d)) \ assumptions[d[2]]
                       => <<k - 1, k - 1, m>> \in Part(k, d)
  BY <1>2
<1>4. \A k, d : \A row \in Part(k, d) : row[3] \in GetMove(game, xResults[k][d[1]][d[2]], player)
  BY <1>2
<1>. QED  BY <1>1, <1>3, <1>4

(* The least index of a nonempty set of positions.                         *)
LEMMA LeastPosition ==
    ASSUME NEW T \in SUBSET Nat, T # {}
    PROVE  \E r \in T : \A q \in T : r <= q
<1>1. PICK r \in T : \A q \in T : ~(<<q, r>> \in OpToRel(<, Nat))
  BY NatLessThanWellFounded, WFMin
<1>2. \A q \in T : ~(q < r)
  BY <1>1 DEF OpToRel
<1>3. \A q \in T : q \in Nat /\ r \in Nat
  OBVIOUS
<1>. QED  BY <1>2, <1>3

(* From a state that was reached the player serves the guarantee, goes     *)
(* down in the values of Y, or keeps out of an assumption.                 *)
LEMMA CellBelow ==
    ASSUME NEW k, ArePasses(k, yResults[k], xResults[k], Z),
           NEW n \in 1 .. Len(yResults[k]), NEW s \in yResults[k][n],
           DOMAIN assumptions = 1 .. Len(assumptions), Len(assumptions) \in Nat
    PROVE  \/ s \in CanForce(game, Z, player) \cap guarantees[k]
           \/ s \in CanForce(game, {}, player)
           \/ \E r \in 2 .. Len(yResults[k]) :
                  /\ s \in yResults[k][r] \ LowY(k, r)
                  /\ s \in CanForce(game, LowY(k, r), player)
           \/ \E d \in Cells(xResults, k) :
                  /\ s \in (xResults[k][d[1]][d[2]] \ LowX(k, d)) \ assumptions[d[2]]
                  /\ s \in CanForce(game, xResults[k][d[1]][d[2]], player)
<1>. DEFINE ys == yResults[k]
            xs == xResults[k]
            T  == {q \in 1 .. Len(ys) : s \in ys[q]}
<1>1. /\ Len(ys) \in Nat /\ Len(xs) = Len(ys) /\ DOMAIN xs = 1 .. Len(ys)
      /\ \A r \in 1 .. Len(ys) : /\ DOMAIN xs[r] = DOMAIN assumptions
                                 /\ IsPass(k, Prior(ys, r), ys[r], xs[r], Z)
  BY DEF ArePasses
<1>2. PICK r \in T : \A q \in T : r <= q
  <2>1. T \subseteq Nat /\ T # {}
    OBVIOUS
  <2>. HIDE DEF T
  <2>. QED  BY <2>1, LeastPosition
<1>3. r \in 1 .. Len(ys) /\ r \in Nat /\ s \in ys[r]
  BY <1>1
<1>4. \A q \in 1 .. r - 1 : q \in 1 .. Len(ys) /\ s \notin ys[q]
  <2>1. ASSUME NEW q \in 1 .. r - 1
        PROVE  q \in 1 .. Len(ys) /\ q \in Nat /\ ~(r <= q)
    BY <1>1, <1>3
  <2>. QED  BY <1>2, <2>1
<1>5. s \notin LowY(k, r)
  BY <1>4 DEF LowY
<1>6. s \notin Prior(ys, r)
  <2>1. CASE r = 1
    BY <2>1 DEF Prior
  <2>2. CASE r # 1
    <3>1. r - 1 \in 1 .. r - 1
      BY <1>3, <2>2
    <3>. QED  BY <1>4, <2>2, <3>1 DEF Prior
  <2>. QED  BY <2>1, <2>2
<1>7. /\ DOMAIN xs[r] = DOMAIN assumptions
      /\ IsPass(k, Prior(ys, r), ys[r], xs[r], Z)
  BY <1>1, <1>3
<1>. DEFINE U == {m \in DOMAIN assumptions : s \in xs[r][m]}
<1>8. PICK m \in U : \A q \in U : m <= q
  <2>1. U \subseteq Nat /\ U # {}
    BY <1>3, <1>6, <1>7 DEF IsPass
  <2>. HIDE DEF U
  <2>. QED  BY <2>1, LeastPosition
<1>9. m \in DOMAIN assumptions /\ m \in Nat /\ s \in xs[r][m]
  OBVIOUS
<1>10. \A q \in DOMAIN assumptions : q < m => s \notin xs[r][q]
  BY <1>8, <1>9
<1>11. /\ xs[r][m] \subseteq (CanForce(game, xs[r][m], player) \ assumptions[m])
                                 \cup Base(game, player, Z, guarantees[k], Prior(ys, r))
                                 \cup Prior(ys, r) \cup UNION {xs[r][q] : q \in 1 .. m - 1}
  BY <1>7, <1>9 DEF IsPass
<1>. HIDE DEF T, U, ys, xs
<1>12. CASE s \in CanForce(game, xs[r][m], player) \ assumptions[m]
  <2>. DEFINE d == <<r, m>>
  <2>1. d \in Cells(xResults, k)
    BY <1>1, <1>3, <1>9 DEF Cells, xs
  <2>2. s \notin LowX(k, d)
    <3>1. ASSUME NEW c \in Cells(xResults, k), Before(c, d)
          PROVE  s \notin xs[c[1]][c[2]]
      <4>1. c[1] \in 1 .. Len(ys) /\ c[2] \in DOMAIN assumptions
        BY <1>1 DEF Cells, xs
      <4>2. CASE c[1] < r
        <5>1. c[1] \in 1 .. r - 1
          BY <1>1, <1>3, <4>1, <4>2
        <5>2. IsPass(k, Prior(ys, c[1]), ys[c[1]], xs[c[1]], Z)
              /\ DOMAIN xs[c[1]] = DOMAIN assumptions
          BY <1>1, <4>1
        <5>3. xs[c[1]][c[2]] \subseteq ys[c[1]]
          BY <4>1, <5>2 DEF IsPass
        <5>. QED  BY <1>4, <5>1, <5>3
      <4>3. CASE c[1] = r /\ c[2] < m
        BY <1>10, <4>1, <4>3
      <4>. QED  BY <3>1, <4>2, <4>3 DEF Before
    <3>. QED  BY <3>1 DEF LowX, xs
  <2>. QED  BY <1>9, <1>12, <2>1, <2>2 DEF xs
<1>13. CASE s \in CanForce(game, Z, player) \cap guarantees[k]
  BY <1>13
<1>14. CASE s \in CanForce(game, Prior(ys, r), player)
  <2>1. CASE r = 1
    BY <1>14, <2>1 DEF Prior
  <2>2. CASE r # 1
    <3>1. r \in 2 .. Len(ys) /\ r - 1 \in 1 .. r - 1
      BY <1>1, <1>3, <2>2
    <3>2. Prior(ys, r) \subseteq LowY(k, r)
      BY <2>2, <3>1 DEF Prior, LowY, ys
    <3>3. s \in CanForce(game, LowY(k, r), player)
      BY <1>14, <3>2, ForceMonotone
    <3>. QED  BY <1>3, <1>5, <3>1, <3>3 DEF ys
  <2>. QED  BY <2>1, <2>2
<1>15. s \notin UNION {xs[r][q] : q \in 1 .. m - 1}
  <2>1. ASSUME NEW q \in 1 .. m - 1
        PROVE  s \notin xs[r][q]
    <3>1. m \in 1 .. Len(assumptions)
      BY <1>9
    <3>2. q \in 1 .. Len(assumptions) /\ q < m
      BY <3>1
    <3>. QED  BY <1>10, <3>2
  <2>. QED  BY <2>1
<1>. QED  BY <1>6, <1>9, <1>11, <1>12, <1>13, <1>14, <1>15 DEF Base

(* No row leads into no state.                                             *)
LEMMA NothingIntoNone ==
    ASSUME NEW plr
    PROVE  GetMove(game, {}, plr) = {}
<1>1. Move1(game, {}) = {}
  BY DEF Move1, WithSuccessor2, Answerable
<1>2. Move2(game, {}) = {}
  BY DEF Move2
<1>. QED  BY <1>1, <1>2 DEF GetMove

(* Whatever the value of jx, some rows hold all moves into a set the owner *)
(* can force the game into; and no row leads out of Z.                     *)
LEMMA RowsForce ==
    ASSUME IInv, WInv, RowsInv, StrategyInv, strategy # NoStrategy, ~isSomeInitFalse,
           Len(guarantees) = Len(spec.guarantees)
    PROVE  /\ \A s \in Z, k \in jxRange : \E l \in jxRange, V \in SUBSET Z :
                  /\ s \in CanForce(game, V, player)
                  /\ \A m \in GetMove(game, V, player) :
                        m[1] = s => <<k, l, m>> \in strategy.trans
           /\ \A row \in strategy.trans : \E V \in SUBSET Z : row[3] \in GetMove(game, V, player)
<1>. DEFINE n == Len(guarantees)
<1>1. /\ n \in Nat \ {0} /\ DOMAIN guarantees = 1 .. n /\ jxRange = 0 .. n - 1
      /\ DOMAIN assumptions = 1 .. Len(assumptions) /\ Len(assumptions) \in Nat
  <2>1. pc # "begin"
    BY DEF StrategyInv
  <2>. QED  BY <2>1, ConditionsShape DEF jxRange
<1>2. \A k \in 1 .. n : /\ ArePasses(k, yResults[k], xResults[k], Z)
                        /\ yResults[k] # << >> /\ Z \subseteq yResults[k][Len(yResults[k])]
  <2>1. PassesLeft /\ \A k \in DOMAIN guarantees : yResults[k] # << >>
    BY DEF StrategyInv, RowsInv
  <2>. QED  BY <1>1, <2>1 DEF PassesLeft
<1>3. ASSUME NEW k \in 1 .. n
      PROVE  /\ \A r \in Nat : r \in 2 .. Len(yResults[k]) => LowY(k, r) \in SUBSET Z
             /\ \A d \in Cells(xResults, k) : xResults[k][d[1]][d[2]] \in SUBSET Z
  <2>1. /\ yResults[k] \in Seq(SUBSET Z) /\ xResults[k] \in Seq(Seq(SUBSET Z))
        /\ Len(xResults[k]) = Len(yResults[k])
        /\ \A r \in 1 .. Len(yResults[k]) : DOMAIN xResults[k][r] = DOMAIN assumptions
    BY <1>2 DEF ArePasses
  <2>2. ASSUME NEW r \in 2 .. Len(yResults[k]), NEW q \in 1 .. r - 1
        PROVE  yResults[k][q] \subseteq Z
    <3>1. q \in 1 .. Len(yResults[k])
      BY <2>1
    <3>. QED  BY <2>1, <3>1
  <2>3. ASSUME NEW d \in Cells(xResults, k)
        PROVE  xResults[k][d[1]][d[2]] \in SUBSET Z
    <3>1. d[1] \in 1 .. Len(yResults[k]) /\ d[2] \in DOMAIN assumptions
      BY <2>1 DEF Cells
    <3>2. xResults[k][d[1]] \in Seq(SUBSET Z) /\ d[2] \in DOMAIN xResults[k][d[1]]
      BY <2>1, <3>1
    <3>. QED  BY <3>2
  <2>. QED  BY <2>2, <2>3 DEF LowY
<1>4. strategy.trans = Rho1 \cup Rho2(yResults) \cup Rho3(xResults)
  BY DEF StrategyInv, StrategyArgs
<1>5. ASSUME NEW s \in Z, NEW k \in jxRange
      PROVE  \E l \in jxRange, V \in SUBSET Z :
                /\ s \in CanForce(game, V, player)
                /\ \A m \in GetMove(game, V, player) :
                      m[1] = s => <<k, l, m>> \in strategy.trans
  <2>1. k + 1 \in 1 .. n /\ (k + 1) - 1 = k /\ k + 1 \in DOMAIN guarantees
    BY <1>1
  <2>2. (k + 1) % n \in jxRange
    <3>1. \A a, b \in Nat : b > 0 => a % b \in 0 .. b - 1
      OBVIOUS
    <3>2. k + 1 \in Nat /\ n > 0
      BY <1>1, <2>1
    <3>. QED  BY <1>1, <3>1, <3>2
  <2>. DEFINE ys == yResults[k + 1]
  <2>3. ys \in Seq(SUBSET Z) /\ ys # << >>
    BY <1>2, <2>1 DEF ArePasses
  <2>4. Len(ys) \in 1 .. Len(ys) /\ s \in ys[Len(ys)]
    BY <1>2, <2>1, <2>3
  <2>5. \/ s \in CanForce(game, Z, player) \cap guarantees[k + 1]
        \/ s \in CanForce(game, {}, player)
        \/ \E r \in 2 .. Len(ys) : /\ s \in ys[r] \ LowY(k + 1, r)
                                   /\ s \in CanForce(game, LowY(k + 1, r), player)
        \/ \E d \in Cells(xResults, k + 1) :
               /\ s \in (xResults[k + 1][d[1]][d[2]] \ LowX(k + 1, d)) \ assumptions[d[2]]
               /\ s \in CanForce(game, xResults[k + 1][d[1]][d[2]], player)
    BY <1>1, <1>2, <2>1, <2>4, CellBelow
  <2>6. CASE s \in CanForce(game, Z, player) \cap guarantees[k + 1]
    <3>1. \A m \in GetMove(game, Z, player) :
              m[1] = s => <<k, (k + 1) % n, m>> \in strategy.trans
      BY <1>4, <2>1, <2>6, RowsOfRho1
    <3>. QED  BY <2>2, <2>6, <3>1
  <2>7. CASE s \in CanForce(game, {}, player)
    BY <2>7, NothingIntoNone
  <2>8. CASE \E r \in 2 .. Len(ys) : /\ s \in ys[r] \ LowY(k + 1, r)
                                     /\ s \in CanForce(game, LowY(k + 1, r), player)
    <3>1. PICK r \in 2 .. Len(ys) : /\ s \in ys[r] \ LowY(k + 1, r)
                                    /\ s \in CanForce(game, LowY(k + 1, r), player)
      BY <2>8
    <3>2. \A m \in GetMove(game, LowY(k + 1, r), player) :
              m[1] = s => <<k, k, m>> \in strategy.trans
      BY <1>4, <2>1, <3>1, RowsOfRho2
    <3>3. LowY(k + 1, r) \in SUBSET Z
      BY <1>3, <2>1
    <3>. QED  BY <3>1, <3>2, <3>3
  <2>9. CASE \E d \in Cells(xResults, k + 1) :
               /\ s \in (xResults[k + 1][d[1]][d[2]] \ LowX(k + 1, d)) \ assumptions[d[2]]
               /\ s \in CanForce(game, xResults[k + 1][d[1]][d[2]], player)
    <3>1. PICK d \in Cells(xResults, k + 1) :
               /\ s \in (xResults[k + 1][d[1]][d[2]] \ LowX(k + 1, d)) \ assumptions[d[2]]
               /\ s \in CanForce(game, xResults[k + 1][d[1]][d[2]], player)
      BY <2>9
    <3>2. \A m \in GetMove(game, xResults[k + 1][d[1]][d[2]], player) :
              m[1] = s => <<k, k, m>> \in strategy.trans
      BY <1>4, <2>1, <3>1, RowsOfRho3
    <3>3. xResults[k + 1][d[1]][d[2]] \in SUBSET Z
      BY <1>3, <2>1
    <3>. QED  BY <3>1, <3>2, <3>3
  <2>. QED  BY <2>5, <2>6, <2>7, <2>8, <2>9
<1>6. ASSUME NEW row \in strategy.trans
      PROVE  \E V \in SUBSET Z : row[3] \in GetMove(game, V, player)
  <2>1. CASE row \in Rho1
    BY <2>1, RowsOfRho1
  <2>2. CASE row \in Rho2(yResults)
    <3>1. PICK k \in 1 .. n : \E r \in 2 .. Len(yResults[k]) :
              row[3] \in GetMove(game, LowY(k, r), player)
      BY <1>1, <2>2, RowsOfRho2
    <3>2. PICK r \in 2 .. Len(yResults[k]) : row[3] \in GetMove(game, LowY(k, r), player)
      BY <3>1
    <3>3. LowY(k, r) \in SUBSET Z
      BY <1>3
    <3>. QED  BY <3>2, <3>3
  <2>3. CASE row \in Rho3(xResults)
    <3>1. PICK k \in 1 .. n : \E d \in Cells(xResults, k) :
              row[3] \in GetMove(game, xResults[k][d[1]][d[2]], player)
      BY <1>1, <2>3, RowsOfRho3
    <3>2. PICK d \in Cells(xResults, k) :
              row[3] \in GetMove(game, xResults[k][d[1]][d[2]], player)
      BY <3>1
    <3>3. xResults[k][d[1]][d[2]] \in SUBSET Z
      BY <1>3
    <3>. QED  BY <3>2, <3>3
  <2>. QED  BY <1>4, <2>1, <2>2, <2>3
<1>. QED  BY <1>5, <1>6

-----------------------------------------------------------------------------
(* The play.                                                               *)

(* The theory of plays, for the strategy this algorithm hands over.        *)
PP == INSTANCE PlayProofs WITH
        args     <- [strategy EXCEPT !.trans = Moves],
        target   <- {},
        finisher <- 0,
        modes    <- jxRange,
        links    <- Links

LEMMA PlayAssumptions == PP!GamesAssumption /\ PP!ValuationsAssumption
  BY GamesAssumption, ValuationsAssumption
     DEF PP!GamesAssumption, PP!ValuationsAssumption, PP!GameType, GameType,
         PP!States, States

(* It reads the definitions of the game that this algorithm reads.          *)
LEMMA PlayDefinitions ==
    /\ PP!Quantifiers = Quantifiers /\ PP!Players = Players /\ PP!States = States
    /\ PP!Invar(game) = Invar(game)
    /\ PP!Init1(game) = Init1(game) /\ PP!Init2(game) = Init2(game)
    /\ \A s : PP!Moves1(game, s) = Moves1(game, s)
    /\ \A s, q1 : PP!Moves2(game, s, q1) = Moves2(game, s, q1)
    /\ PP!WithoutSuccessor2(game) = WithoutSuccessor2(game)
    /\ \A W, plr, q : PP!StartsIn(game, W, plr, q) = StartsIn(game, W, plr, q)
  BY DEF PP!Quantifiers, Quantifiers, PP!Players, Players, PP!States, States,
         PP!Invar, Invar, PP!Init1, Init1, PP!Init2, Init2, PP!Moves1, Moves1,
         PP!Moves2, Moves2, PP!WithoutSuccessor2, WithoutSuccessor2,
         PP!WithSuccessor2, WithSuccessor2, PP!HalfRounds, HalfRounds,
         PP!StartsIn, StartsIn

(* The steps of the composed specification are those of the theory.        *)
LEMMA SameGame ==
    /\ \A plr : Plays!Opponent(plr) = PP!Opponent(plr)
    /\ Plays!States = PP!States
    /\ Plays!Invar(game) = PP!Invar(game)
    /\ Plays!Init1(game) = PP!Init1(game) /\ Plays!Init2(game) = PP!Init2(game)
    /\ \A s : Plays!Moves1(game, s) = PP!Moves1(game, s)
    /\ \A s, q1 : Plays!Moves2(game, s, q1) = PP!Moves2(game, s, q1)
    /\ Plays!WithoutSuccessor1(game) = PP!WithoutSuccessor1(game)
    /\ Plays!WithoutSuccessor2(game) = PP!WithoutSuccessor2(game)
    /\ \A W : Plays!WeakForwardImage(game, W) = PP!WeakForwardImage(game, W)
  BY DEF Plays!Opponent, PP!Opponent, Plays!States, PP!States, Plays!Invar, PP!Invar, Plays!Init1,
    PP!Init1, Plays!Init2, PP!Init2, Plays!Moves1, PP!Moves1, Plays!Moves2, PP!Moves2,
    Plays!WithSuccessor1, PP!WithSuccessor1, Plays!WithoutSuccessor1, PP!WithoutSuccessor1,
    Plays!HalfRounds, PP!HalfRounds, Plays!WithSuccessor2, PP!WithSuccessor2,
    Plays!WithoutSuccessor2, PP!WithoutSuccessor2, Plays!WeakForwardImage,
    PP!WeakForwardImage

LEMMA SameConstruction ==
    /\ Plays!NothingBuilt = PP!NothingBuilt /\ Plays!Role = PP!Role /\ Plays!Inits = PP!Inits
    /\ \A W : Plays!OneCube(W) = PP!OneCube(W)
    /\ \A p1 : Plays!Completions(p1) = PP!Completions(p1)
    /\ Plays!StuckInits1 = PP!StuckInits1 /\ Plays!WinningInits1 = PP!WinningInits1
    /\ Plays!WinningInits = PP!WinningInits /\ Plays!DeadInits = PP!DeadInits
    /\ Plays!Successors = PP!Successors /\ Plays!Parts1 = PP!Parts1 /\ Plays!Parts2 = PP!Parts2
    /\ Plays!InitSection = PP!InitSection /\ Plays!TransSection = PP!TransSection
    /\ \A g, d, m : Plays!InitParts(g, d, m) = PP!InitParts(g, d, m)
  BY SameGame
     DEF Plays!NothingBuilt, PP!NothingBuilt, Plays!Role, PP!Role, Plays!Inits, PP!Inits,
         Plays!OneCube, PP!OneCube, Plays!Completions, PP!Completions, Plays!StuckInits1,
         PP!StuckInits1, Plays!WinningInits1, PP!WinningInits1, Plays!WinningInits,
         PP!WinningInits, Plays!DeadInits, PP!DeadInits, Plays!Successors, PP!Successors,
         Plays!Parts1, PP!Parts1, Plays!Parts2, PP!Parts2, Plays!InitSection, PP!InitSection,
         Plays!TransSection, PP!TransSection, Plays!InitParts, PP!InitParts

LEMMA PlaySteps ==
    /\ Plays!PlayInit <=> PP!PlayInit
    /\ Plays!PlayNext => PP!PlayNext
    /\ Plays!Construct \/ Plays!Grow \/ Plays!Finish => PP!Construct \/ PP!Grow \/ PP!Finish
<1>1. Plays!Construct => PP!Construct
  BY SameGame, SameConstruction
     DEF Plays!Construct, PP!Construct, Plays!ConstructNormal1, PP!ConstructNormal1,
         Plays!ConstructNormal2, PP!ConstructNormal2, Plays!ConstructUniversal,
         PP!ConstructUniversal, Plays!ConstructExistential, PP!ConstructExistential
<1>2. (Plays!Grow => PP!Grow) /\ (Plays!Finish => PP!Finish)
  BY SameConstruction DEF Plays!Grow, PP!Grow, Plays!Finish, PP!Finish
<1>3. /\ Plays!owner = PP!owner
      /\ \A p1 : Plays!MayStart1(p1) <=> PP!MayStart1(p1)
      /\ \A p1, p2 : Plays!MayStart2(p1, p2) <=> PP!MayStart2(p1, p2)
      /\ \A q1, k : Plays!MayMove1(q1, k) <=> PP!MayMove1(q1, k)
      /\ \A q2, k : Plays!MayMove2(q2, k) <=> PP!MayMove2(q2, k)
  BY SameConstruction
     DEF Plays!owner, PP!owner, Plays!MayStart1, PP!MayStart1, Plays!MayStart2, PP!MayStart2,
         Plays!MayMove1, PP!MayMove1, Plays!MayMove2, PP!MayMove2
<1>4. /\ \A s : Plays!Arrive(s) <=> PP!Arrive(s)
      /\ \A plr : Plays!Stuck(plr) <=> PP!Stuck(plr)
  BY SameGame DEF Plays!Arrive, PP!Arrive, Plays!Stuck, PP!Stuck, Plays!NoHalf, PP!NoHalf
<1>5. Plays!StartWhole => PP!StartWhole
  BY SameGame, SameConstruction, <1>3, <1>4 DEF Plays!StartWhole, PP!StartWhole
<1>6. Plays!Start1 => PP!Start1
  BY SameGame, SameConstruction, <1>3, <1>4 DEF Plays!Start1, PP!Start1
<1>7. Plays!Start2 => PP!Start2
  BY SameGame, SameConstruction, <1>3, <1>4 DEF Plays!Start2, PP!Start2
<1>8. Plays!Play1 => PP!Play1
  BY SameGame, SameConstruction, <1>3, <1>4 DEF Plays!Play1, PP!Play1
<1>9. Plays!Play2 => PP!Play2
  BY SameGame, SameConstruction, <1>3, <1>4 DEF Plays!Play2, PP!Play2
<1>10. Plays!PlayInit <=> PP!PlayInit
  BY DEF Plays!PlayInit, PP!PlayInit, Plays!NoState, PP!NoState, Plays!NoHalf, PP!NoHalf
<1>. QED  BY <1>1, <1>2, <1>5, <1>6, <1>7, <1>8, <1>9, <1>10 DEF Plays!PlayNext, PP!PlayNext

(* The parts handed over, as the construction sees them.                   *)
LEMMA HandedOver ==
    ASSUME StrategyInv, strategy # NoStrategy
    PROVE  LET args == [strategy EXCEPT !.trans = Moves]
           IN  /\ args.player = player /\ args.reverse = FALSE /\ args.goal = {}
               /\ args.winningStates = strategy.winningStates
               /\ args.trans = Moves
               /\ ~isSomeInitFalse => strategy.winningStates = Z
  BY DEF StrategyInv, StrategyArgs

LEMMA ArgsAreGood ==
    ASSUME IInv, WInv, StrategyInv, game \in Games, strategy # NoStrategy
    PROVE  /\ PP!ArgsGood /\ PP!owner = player
           /\ ~isSomeInitFalse => PP!winning = Z
<1>1. /\ game \in GameType /\ opt \in Quantifiers /\ player \in Players
  BY PlayerType DEF IInv, InputsKept, WInv
<1>2. /\ PP!owner = player /\ PP!winning = strategy.winningStates /\ PP!Role = opt
      /\ ~isSomeInitFalse => PP!winning = Z
  <2>1. opt \in {"N", "A", "E"}
    BY <1>1 DEF Quantifiers
  <2>. QED  BY <2>1, HandedOver DEF PP!owner, PP!winning, PP!Role
<1>3. StartsIn(game, strategy.winningStates, player, opt)
  BY DEF StrategyInv
<1>4. PP!StartsIn(game, PP!winning, PP!owner, PP!Role)
  BY <1>2, <1>3, PlayDefinitions
<1>. QED  BY <1>1, <1>2, <1>4, HandedOver, PlayDefinitions DEF PP!ArgsGood

(* The rows fit together: whatever jx is, the owner has a move into a set  *)
(* it can force, and no move leads out of Z.                               *)
LEMMA MovesAreGood ==
    ASSUME IInv, WInv, RowsInv, StrategyInv, game \in Games, strategy # NoStrategy,
           Len(guarantees) = Len(spec.guarantees)
    PROVE  PP!MovesGood
<1>1. CASE PP!Inits = {}
  BY <1>1 DEF PP!MovesGood
<1>2. CASE PP!Inits # {}
  <2>1. ~isSomeInitFalse
    BY <1>2, PlayDefinitions DEF PP!Inits, isSomeInitFalse
  <2>2. PP!ArgsGood /\ PP!owner = player /\ PP!winning = Z
    BY <2>1, ArgsAreGood
  <2>3. /\ \A V, plr : PP!CanForce(game, V, plr) = CanForce(game, V, plr)
        /\ \A V, plr : PP!GetMove(game, V, plr) = GetMove(game, V, plr)
    BY DEF PP!CanForce, CanForce, PP!GetMove, GetMove, PP!Move1, Move1, PP!Move2, Move2,
           PP!WithSuccessor2, WithSuccessor2, PP!HalfRounds, HalfRounds, PP!Answerable,
           Answerable, PP!Invar, Invar, PP!Moves1, Moves1, PP!Moves2, Moves2
  <2>4. ASSUME NEW k \in jxRange, NEW l \in jxRange, NEW m, <<k, l, m>> \in strategy.trans
        PROVE  m \in {row[3] : row \in strategy.trans} \cap Links[<<k, l>>]
    <3>1. Links[<<k, l>>]
              = {row[3] : row \in {r \in strategy.trans : <<r[1], r[2]>> = <<k, l>>}}
      BY DEF Links
    <3>. QED  BY <2>4, <3>1
  <2>5. PP!MovesForced
    <3>. DEFINE moves == {row[3] : row \in strategy.trans}
    <3>1. ASSUME NEW s \in Z, NEW k \in jxRange
          PROVE  \E l \in jxRange, V \in SUBSET Z :
                     /\ s \in CanForce(game, V, player)
                     /\ \A m \in GetMove(game, V, player) : m[1] = s =>
                           m \in moves \cap Links[<<k, l>>]
      <4>1. PICK l \in jxRange, V \in SUBSET Z :
                /\ s \in CanForce(game, V, player)
                /\ \A m \in GetMove(game, V, player) :
                      m[1] = s => <<k, l, m>> \in strategy.trans
        BY <2>1, RowsForce
      <4>2. \A m \in GetMove(game, V, player) : m[1] = s =>
                m \in moves \cap Links[<<k, l>>]
        BY <2>4, <4>1
      <4>. QED  BY <4>1, <4>2
    <3>2. \A m \in moves :
              \E V \in SUBSET Z : m \in GetMove(game, V, player)
      BY <2>1, RowsForce
    <3>3. [strategy EXCEPT !.trans = Moves].trans = moves
      BY HandedOver DEF Moves
    <3>. HIDE DEF moves
    <3>. QED
      <4>1. ASSUME NEW s \in (PP!winning \cap PP!Invar(game)) \ {}, NEW k \in jxRange
            PROVE  \E l \in jxRange, V \in SUBSET PP!winning :
                       /\ s \in PP!CanForce(game, V, PP!owner)
                       /\ \A m \in PP!GetMove(game, V, PP!owner) :
                             m[1] = s => m \in moves \cap Links[<<k, l>>]
        <5>1. s \in Z
          BY <2>2, <4>1
        <5>2. PICK l \in jxRange, V \in SUBSET Z :
                  /\ s \in CanForce(game, V, player)
                  /\ \A m \in GetMove(game, V, player) :
                        m[1] = s => m \in moves \cap Links[<<k, l>>]
          BY <3>1, <5>1
        <5>3. /\ PP!CanForce(game, V, PP!owner) = CanForce(game, V, player)
              /\ PP!GetMove(game, V, PP!owner) = GetMove(game, V, player)
          BY <2>2, <2>3
        <5>. QED  BY <2>2, <5>2, <5>3
      <4>2. \A m \in moves : \E V \in SUBSET PP!winning : m \in PP!GetMove(game, V, PP!owner)
        BY <2>2, <2>3, <3>2
      <4>. QED  BY <3>3, <4>1, <4>2 DEF PP!MovesForced
  <2>. QED  BY <2>2, <2>5, PP!ForcedIsGood, PlayAssumptions DEF PP!ArgsGood
<1>. QED  BY <1>1, <1>2

(* What the algorithm, the construction and the play keep true together.   *)
(* Of the plays of a strategy that leaves out a guarantee it says nothing. *)
AlgorithmInv ==
    /\ IInv /\ WInv /\ RowsInv /\ StrategyInv
    /\ game \in Games /\ earlierTermination # "CONJUNCT"

EveryGuarantee == Len(guarantees) = Len(spec.guarantees)

PlaysInv ==
    /\ stage \in {"idle", "grow", "built"}
    /\ stage = "idle" => turn = "start1" /\ winner = 0
    /\ stage # "idle" => pc = "done" /\ strategy # NoStrategy
    /\ stage # "idle" /\ EveryGuarantee => PP!StartInv /\ PP!BuiltInv /\ PP!PlayInv

LEMMA PlaysInvStep ==
    AlgorithmInv /\ PlaysInv /\ [ComposedNext]_allVars => PlaysInv'
<1>. SUFFICES ASSUME AlgorithmInv, PlaysInv, [ComposedNext]_allVars
              PROVE  PlaysInv'
  OBVIOUS
<1>1. strategy # NoStrategy /\ EveryGuarantee => PP!ArgsGood /\ PP!MovesGood
  BY ArgsAreGood, MovesAreGood DEF AlgorithmInv, EveryGuarantee
<1>2. CASE AlgorithmNext
  <2>1. pc # "done" /\ UNCHANGED <<stage, playVars>>
    BY <1>2 DEF AlgorithmNext, Next, Begin, BeginZ, BeginGuarantee, BeginY, IterateX, EndY,
                EndZ, Leave, AssertionFails, Return
  <2>. QED  BY <2>1 DEF PlaysInv, playVars
<1>3. ASSUME UNCHANGED vars
      PROVE  /\ UNCHANGED PP!callers /\ UNCHANGED <<pc, strategy>>
             /\ EveryGuarantee' <=> EveryGuarantee
  BY <1>3 DEF PP!callers, vars, input, jxRange, Links, Moves, EveryGuarantee
<1>4. CASE pc = "done" /\ ConstructNext
  <2>1. /\ strategy # NoStrategy
        /\ PP!Construct \/ PP!Grow \/ PP!Finish
        /\ UNCHANGED <<vars, playVars>>
    BY <1>4, PlaySteps DEF ConstructNext
  <2>2. /\ UNCHANGED <<PP!callers, PP!playVars>> /\ UNCHANGED <<pc, strategy>>
        /\ EveryGuarantee' <=> EveryGuarantee
    BY <1>3, <2>1 DEF PP!playVars, playVars
  <2>3. stage' \in {"grow", "built"}
    BY <2>1 DEF PP!Construct, PP!Grow, PP!Finish
  <2>4. ASSUME EveryGuarantee
        PROVE  PP!StartInv /\ PP!PlayInv
    <3>1. CASE stage = "idle"
      <4>1. PP!Construct
        BY <2>1, <3>1 DEF PP!Grow, PP!Finish
      <4>. QED  BY <3>1, <4>1 DEF PP!Construct, PP!StartInv, PP!PlayInv, PlaysInv
    <3>2. CASE stage # "idle"
      BY <2>1, <2>4, <3>2 DEF PlaysInv
    <3>. QED  BY <3>1, <3>2
  <2>5. EveryGuarantee => PP!StartInv' /\ PP!BuiltInv' /\ PP!PlayInv'
    BY <1>1, <2>1, <2>2, <2>4, PP!ConstructSafe, PlayAssumptions
  <2>. QED  BY <1>4, <2>1, <2>2, <2>3, <2>5 DEF PlaysInv
<1>5. CASE stage = "built" /\ PlayNext
  <2>1. PP!PlayNext /\ UNCHANGED <<vars, stage, reachable, built>>
    BY <1>5, PlaySteps DEF PlayNext
  <2>2. /\ UNCHANGED PP!given /\ UNCHANGED <<pc, strategy, stage>>
        /\ EveryGuarantee' <=> EveryGuarantee
    BY <1>3, <2>1 DEF PP!given
  <2>3. strategy # NoStrategy /\ pc = "done"
    BY <1>5 DEF PlaysInv
  <2>4. ASSUME EveryGuarantee
        PROVE  PP!StartInv' /\ PP!BuiltInv' /\ PP!PlayInv'
    <3>1. PP!StartInv /\ PP!BuiltInv /\ PP!PlayInv
      BY <1>5, <2>4 DEF PlaysInv
    <3>2. PP!PlayInv'
      BY <1>1, <1>5, <2>1, <2>2, <2>3, <2>4, <3>1, PP!PlaySafe, PlayAssumptions
    <3>3. PP!StartInv' /\ PP!BuiltInv'
      BY <2>2, <3>1, PP!GivenKeep, PlayAssumptions
    <3>. QED  BY <3>2, <3>3
  <2>. QED  BY <1>5, <2>2, <2>3, <2>4 DEF PlaysInv
<1>6. CASE UNCHANGED allVars
  <2>1. /\ UNCHANGED <<PP!given, PP!playVars>>
        /\ UNCHANGED <<pc, strategy, stage, turn, winner>>
        /\ EveryGuarantee' <=> EveryGuarantee
    BY <1>3, <1>6 DEF allVars, PP!given, PP!playVars, playVars
  <2>2. ASSUME stage # "idle", EveryGuarantee
        PROVE  PP!StartInv' /\ PP!BuiltInv' /\ PP!PlayInv'
    <3>1. PP!StartInv /\ PP!BuiltInv /\ PP!PlayInv
      BY <2>2 DEF PlaysInv
    <3>. QED  BY <2>1, <3>1, PP!StutterSafe, PlayAssumptions
  <2>. QED  BY <2>1, <2>2 DEF PlaysInv
<1>. QED  BY <1>2, <1>4, <1>5, <1>6 DEF ComposedNext

LEMMA ComposedInvariants ==
    ASSUME "CONJUNCT" \notin Terminations
    PROVE  ComposedSpec => [](AlgorithmInv /\ PlaysInv)
<1>1. ComposedInit => Init /\ PlaysInv
  BY DEF ComposedInit, PlaysInv, Plays!PlayInit
<1>2. [ComposedNext]_allVars => [Next]_vars
  BY DEF ComposedNext, AlgorithmNext, ConstructNext, PlayNext, allVars
<1>3. Init => AlgorithmInv
  <2>. SUFFICES ASSUME Init PROVE AlgorithmInv
    OBVIOUS
  <2>1. game \in Games /\ earlierTermination # "CONJUNCT"
    BY DEF Init
  <2>. QED  BY <2>1, IInvInit, WInvInit, RowsInit DEF AlgorithmInv
<1>4. AlgorithmInv /\ [Next]_vars => AlgorithmInv'
  <2>. SUFFICES ASSUME AlgorithmInv, [Next]_vars PROVE AlgorithmInv'
    OBVIOUS
  <2>1. IInv /\ WInv /\ RowsInv /\ StrategyInv /\ game \in Games
        /\ earlierTermination # "CONJUNCT"
    BY DEF AlgorithmInv
  <2>2. game' \in Games /\ earlierTermination' # "CONJUNCT"
    BY <2>1, InputsStay
  <2>. QED  BY <2>1, <2>2, IInvStep, WInvStep, RowsStep, StrategyStep DEF AlgorithmInv
<1>. QED  BY <1>1, <1>2, <1>3, <1>4, PlaysInvStep, PTL DEF ComposedSpec

(* Without the CONJUNCT mode the answer is right, and stays it while the   *)
(* strategy is constructed and followed.                                   *)
THEOREM AnswersStayRight ==
    ASSUME "CONJUNCT" \notin Terminations
    PROVE  ComposedSpec => []AnswerIsRight
<1>1. AlgorithmInv => AnswerIsRight
  BY DEF AlgorithmInv, WInv, AnswerIsRight
<1>. QED  BY <1>1, ComposedInvariants, PTL

(* The promise of a printed strategy of a reactivity game, for every game, *)
(* specification, player and option: as long as every guarantee counts, so *)
(* that every value of jx stands for one, the follower always has a        *)
(* printed move, whatever value jx has in the beginning.  Where no move    *)
(* was handed over player 2 has been left without one.                     *)
THEOREM ReactivityFollowerNeverStuck ==
    ASSUME "CONJUNCT" \notin Terminations
    PROVE  ComposedSpec => []FollowerSafe
<1>1. AlgorithmInv /\ PlaysInv => FollowerSafe
  <2>. SUFFICES ASSUME AlgorithmInv, PlaysInv, NoGuaranteeSkipped, winner # 0
                PROVE  winner = Plays!owner
    BY DEF FollowerSafe, FollowerNeverStuck
  <2>1. stage # "idle" /\ pc = "done"
    BY DEF PlaysInv
  <2>2. EveryGuarantee
    BY <2>1 DEF NoGuaranteeSkipped, EveryGuarantee
  <2>3. PP!PlayInv
    BY <2>1, <2>2 DEF PlaysInv
  <2>. QED  BY <2>3 DEF PP!PlayInv, PP!owner, Plays!owner
<1>. QED  BY <1>1, ComposedInvariants, PTL

(* Nor does such a play ever leave the states that are won: from wherever  *)
(* it has got to, the specification can still be met.                      *)
THEOREM ReactivityFollowerStaysWinning ==
    ASSUME "CONJUNCT" \notin Terminations
    PROVE  ComposedSpec => [](NoGuaranteeSkipped /\ turn \in {"one", "two"}
                                  => pos \in WinRegion(game, spec))
<1>1. AlgorithmInv /\ PlaysInv =>
          (NoGuaranteeSkipped /\ turn \in {"one", "two"} => pos \in WinRegion(game, spec))
  <2>. SUFFICES ASSUME AlgorithmInv, PlaysInv, NoGuaranteeSkipped, turn \in {"one", "two"}
                PROVE  pos \in WinRegion(game, spec)
    OBVIOUS
  <2>1. stage # "idle" /\ pc = "done" /\ strategy # NoStrategy
    BY DEF PlaysInv
  <2>2. EveryGuarantee
    BY <2>1 DEF NoGuaranteeSkipped, EveryGuarantee
  <2>3. /\ IInv /\ WInv /\ StrategyInv /\ game \in Games /\ PP!PlayInv
        /\ earlierTermination # "CONJUNCT"
    BY <2>1, <2>2 DEF PlaysInv, AlgorithmInv
  <2>4. PP!Inits # {} /\ pos \in PP!winning
    BY <2>3 DEF PP!PlayInv, PP!Home
  <2>5. ~isSomeInitFalse /\ PP!winning = Z
    BY <2>1, <2>3, <2>4, ArgsAreGood, PlayDefinitions DEF PP!Inits, isSomeInitFalse
  <2>6. isRealizable /\ VerdictIsRight
    BY <2>1, <2>3 DEF StrategyInv, WInv
  <2>7. Z = WinRegion(game, spec)
    BY <2>1, <2>5, <2>6 DEF VerdictIsRight
  <2>. QED  BY <2>4, <2>5, <2>7
<1>. QED  BY <1>1, ComposedInvariants, PTL

-----------------------------------------------------------------------------
(* Two games of which one is better for the player.                        *)

(* In the second one every set can be forced from more states, the         *)
(* assumptions are easier to violate and the guarantees easier to serve.   *)
Helps(g, sp, g2, sp2) ==
    /\ sp.player = sp2.player
    /\ Invar(g) \subseteq Invar(g2)
    /\ \A S : CanForce(g, S, sp.player) \subseteq CanForce(g2, S, sp.player)
    /\ DOMAIN sp.assumptions = DOMAIN sp2.assumptions
    /\ DOMAIN sp.guarantees = DOMAIN sp2.guarantees
    /\ \A k \in DOMAIN sp.assumptions : sp2.assumptions[k] \subseteq sp.assumptions[k]
    /\ \A k \in DOMAIN sp.guarantees : sp.guarantees[k] \subseteq sp2.guarantees[k]

LEMMA HelpsStay ==
    ASSUME NEW g, NEW sp, NEW g2, NEW sp2, Helps(g, sp, g2, sp2),
           NEW base, NEW base2, base \subseteq base2, NEW k \in DOMAIN sp.assumptions
    PROVE  StayIn(g, sp.player, base, sp.assumptions[k])
               \subseteq StayIn(g2, sp2.player, base2, sp2.assumptions[k])
<1>1. ASSUME NEW T \in SUBSET Invar(g),
             T \subseteq base \cup (CanForce(g, T, sp.player) \ sp.assumptions[k])
      PROVE  /\ T \in SUBSET Invar(g2)
             /\ T \subseteq base2 \cup (CanForce(g2, T, sp2.player) \ sp2.assumptions[k])
  <2>1. /\ CanForce(g, T, sp.player) \subseteq CanForce(g2, T, sp2.player)
        /\ sp2.assumptions[k] \subseteq sp.assumptions[k]
        /\ Invar(g) \subseteq Invar(g2)
    BY DEF Helps
  <2>. QED  BY <1>1, <2>1
<1>. QED  BY <1>1 DEF StayIn

LEMMA HelpsServed ==
    ASSUME NEW g, NEW sp, NEW g2, NEW sp2, Helps(g, sp, g2, sp2), NEW S,
           NEW k \in DOMAIN sp.guarantees
    PROVE  ServedFrom(g, sp.player, sp.assumptions, S, sp.guarantees[k])
               \subseteq ServedFrom(g2, sp2.player, sp2.assumptions, S, sp2.guarantees[k])
<1>. DEFINE Low(T)  == Base(g, sp.player, S, sp.guarantees[k], T)
            High(T) == Base(g2, sp2.player, S, sp2.guarantees[k], T)
<1>1. ASSUME NEW T \in SUBSET Invar(g2),
             Extended(g2, sp2.player, sp2.assumptions, High(T)) \subseteq T
      PROVE  Extended(g, sp.player, sp.assumptions, Low(T \cap Invar(g))) \subseteq T \cap Invar(g)
  <2>. DEFINE U == T \cap Invar(g)
  <2>1. CanForce(g, U, sp.player) \subseteq CanForce(g, T, sp.player)
    BY ForceMonotone
  <2>2. Low(U) \subseteq High(T)
    BY <2>1 DEF Base, Helps
  <2>3. ASSUME NEW m \in DOMAIN sp.assumptions
        PROVE  /\ m \in DOMAIN sp2.assumptions
               /\ StayIn(g, sp.player, Low(U), sp.assumptions[m])
                      \subseteq StayIn(g2, sp2.player, High(T), sp2.assumptions[m])
               /\ StayIn(g, sp.player, Low(U), sp.assumptions[m]) \subseteq Invar(g)
    <3>. HIDE DEF Low, High, U
    <3>. QED  BY <2>2, HelpsStay, StayLegal DEF Helps
  <2>. HIDE DEF Low, High, U
  <2>4. Extended(g, sp.player, sp.assumptions, Low(U)) \subseteq T \cap Invar(g)
    BY <1>1, <2>3 DEF Extended
  <2>. QED  BY <2>4 DEF U
<1>. HIDE DEF Low, High
<1>2. ASSUME NEW s \in States,
             \A T \in SUBSET Invar(g) :
                 Extended(g, sp.player, sp.assumptions, Low(T)) \subseteq T => s \in T,
             NEW T \in SUBSET Invar(g2),
             Extended(g2, sp2.player, sp2.assumptions, High(T)) \subseteq T
      PROVE  s \in T
  <2>1. T \cap Invar(g) \in SUBSET Invar(g)
    OBVIOUS
  <2>2. s \in T \cap Invar(g)
    BY <1>1, <1>2, <2>1
  <2>. QED  BY <2>2
<1>. QED  BY <1>2 DEF ServedFrom, Low, High

LEMMA HelpsWinning ==
    ASSUME NEW g, NEW sp, NEW g2, NEW sp2, Helps(g, sp, g2, sp2), NEW W,
           IsWinning(g, sp.player, sp.assumptions, sp.guarantees, W)
    PROVE  IsWinning(g2, sp2.player, sp2.assumptions, sp2.guarantees, W)
<1>1. DOMAIN sp.guarantees = DOMAIN sp2.guarantees /\ Invar(g) \subseteq Invar(g2)
  BY DEF Helps
<1>. QED  BY <1>1, HelpsServed DEF IsWinning

(* What was enough for the player still is.                                *)
LEMMA HelpsUnder ==
    ASSUME NEW g, NEW sp, NEW g2, NEW sp2, Helps(g, sp, g2, sp2), NEW S,
           SoundUnder(g, sp, S)
    PROVE  SoundUnder(g2, sp2, S)
<1>1. CanForce(g, S, sp.player) \subseteq CanForce(g2, S, sp2.player)
  BY DEF Helps
<1>. QED  BY <1>1, HelpsWinning DEF SoundUnder

LEMMA HelpsRegion ==
    ASSUME NEW g \in GameType, NEW sp \in SpecType, NEW g2 \in GameType, NEW sp2 \in SpecType,
           Helps(g, sp, g2, sp2)
    PROVE  WinRegion(g, sp) \subseteq WinRegion(g2, sp2)
<1>1. IsWinning(g, sp.player, sp.assumptions, sp.guarantees, WinRegion(g, sp))
  BY WinningIsWon
<1>2. IsWinning(g2, sp2.player, sp2.assumptions, sp2.guarantees, WinRegion(g, sp))
  BY <1>1, HelpsWinning
<1>. QED  BY <1>2, WinningIsWon

(* What was out of reach for the player still is in the worse game.        *)
LEMMA HelpsOver ==
    ASSUME NEW g \in GameType, NEW sp \in SpecType, NEW g2 \in GameType, NEW sp2 \in SpecType,
           Helps(g, sp, g2, sp2), NEW S, SoundOver(g2, sp2, S), S \subseteq Invar(g)
    PROVE  SoundOver(g, sp, S)
<1>1. /\ CanForce(g, S, sp.player) \subseteq CanForce(g2, S, sp2.player)
      /\ DOMAIN sp.assumptions = DOMAIN sp2.assumptions
  BY DEF Helps
<1>2. \A k \in DOMAIN sp.assumptions :
          StayIn(g, sp.player, S, sp.assumptions[k])
              \subseteq StayIn(g2, sp2.player, S, sp2.assumptions[k])
  BY HelpsStay
<1>3. WinRegion(g, sp) \subseteq WinRegion(g2, sp2)
  BY HelpsRegion
<1>. QED  BY <1>1, <1>2, <1>3 DEF SoundOver

(* A sound over-approximation that is an under-approximation is exact.     *)
LEMMA BothAreExact ==
    ASSUME NEW g \in GameType, NEW sp \in SpecType, NEW S,
           SoundOver(g, sp, S), SoundUnder(g, sp, S)
    PROVE  S = WinRegion(g, sp)
  BY WinningIsWon DEF SoundOver, SoundUnder

(* The second game has fewer constraints on the player.                    *)
Looser(g, g2, plr) ==
    IF plr = 1
    THEN /\ g.init1 \subseteq g2.init1 /\ g.inv1 \subseteq g2.inv1
         /\ \A s \in States : g.trans1[s] \subseteq g2.trans1[s]
         /\ g.init2 = g2.init2 /\ g.inv2 = g2.inv2 /\ g.trans2 = g2.trans2
    ELSE /\ g.init2 \subseteq g2.init2 /\ g.inv2 \subseteq g2.inv2
         /\ \A m \in States \X P1 : g.trans2[m] \subseteq g2.trans2[m]
         /\ g.init1 = g2.init1 /\ g.inv1 = g2.inv1 /\ g.trans1 = g2.trans1

(* Without its own constraints a player can do more.                       *)
LEMMA LooserForces ==
    ASSUME NEW g \in GameType, NEW g2 \in GameType, NEW plr \in Players, Looser(g, g2, plr),
           NEW S
    PROVE  /\ Invar(g) \subseteq Invar(g2)
           /\ CanForce(g, S, plr) \subseteq CanForce(g2, S, plr)
<1>1. Invar(g) \subseteq Invar(g2)
  BY DEF Looser, Invar
<1>2. Invar(g) \subseteq States
  BY TypedInvar
<1>3. CASE plr = 1
  <2>1. \A s \in Invar(g) : Moves1(g, s) \subseteq Moves1(g2, s)
    BY <1>2, <1>3 DEF Looser, Moves1
  <2>2. \A s, q1 : Moves2(g, s, q1) = Moves2(g2, s, q1)
    BY <1>3 DEF Looser, Moves2
  <2>. QED  BY <1>1, <1>3, <2>1, <2>2 DEF CanForce
<1>4. CASE plr = 2
  <2>1. \A s : Moves1(g, s) = Moves1(g2, s)
    BY <1>4 DEF Looser, Moves1
  <2>2. \A s \in Invar(g) : \A q1 \in Moves1(g, s) : Moves2(g, s, q1) \subseteq Moves2(g2, s, q1)
    <3>1. g.inv1 \subseteq P1
      BY TypedParts
    <3>. QED  BY <1>2, <1>4, <3>1 DEF Looser, Moves1, Moves2
  <2>. QED  BY <1>1, <1>4, <2>1, <2>2 DEF CanForce
<1>. QED  BY <1>3, <1>4 DEF Players

(* Without the constraints of its opponent, but for those on the states, a *)
(* player can do less.                                                     *)
LEMMA LooserHinders ==
    ASSUME NEW g \in GameType, NEW g2 \in GameType, NEW plr \in Players, Looser(g, g2, plr),
           g.inv1 = g2.inv1, g.inv2 = g2.inv2, NEW S
    PROVE  /\ Invar(g) = Invar(g2)
           /\ CanForce(g2, S, Opponent(plr)) \subseteq CanForce(g, S, Opponent(plr))
<1>1. Invar(g) = Invar(g2)
  BY DEF Invar
<1>2. Invar(g) \subseteq States
  BY TypedInvar
<1>3. CASE plr = 1
  <2>1. \A s \in Invar(g) : Moves1(g, s) \subseteq Moves1(g2, s)
    BY <1>2, <1>3 DEF Looser, Moves1
  <2>2. \A s, q1 : Moves2(g, s, q1) = Moves2(g2, s, q1)
    BY <1>3 DEF Looser, Moves2
  <2>. QED  BY <1>1, <1>3, <2>1, <2>2 DEF CanForce, Opponent
<1>4. CASE plr = 2
  <2>1. \A s : Moves1(g, s) = Moves1(g2, s)
    BY <1>4 DEF Looser, Moves1
  <2>2. \A s \in Invar(g) : \A q1 \in Moves1(g, s) : Moves2(g, s, q1) \subseteq Moves2(g2, s, q1)
    <3>1. g.inv1 \subseteq P1
      BY TypedParts
    <3>. QED  BY <1>2, <1>4, <3>1 DEF Looser, Moves1, Moves2
  <2>. QED  BY <1>1, <1>4, <2>1, <2>2 DEF CanForce, Opponent
<1>. QED  BY <1>3, <1>4 DEF Players

(* The same for the start, when player 1 chooses first.                    *)
LEMMA LooserStarts ==
    ASSUME NEW g, NEW g2, NEW plr \in Players, Looser(g, g2, plr), NEW W
    PROVE  /\ StartsIn(g, W, plr, "N") => StartsIn(g2, W, plr, "N")
           /\ StartsIn(g2, W, Opponent(plr), "N") => StartsIn(g, W, Opponent(plr), "N")
<1>1. CASE plr = 1
  <2>1. Init1(g) \subseteq Init1(g2) /\ Init2(g) = Init2(g2)
    BY <1>1 DEF Looser, Init1, Init2
  <2>. QED  BY <1>1, <2>1 DEF StartsIn, Opponent
<1>2. CASE plr = 2
  <2>1. Init1(g) = Init1(g2) /\ Init2(g) \subseteq Init2(g2)
    BY <1>2 DEF Looser, Init1, Init2
  <2>. QED  BY <1>2, <2>1 DEF StartsIn, Opponent
<1>. QED  BY <1>1, <1>2 DEF Players

-----------------------------------------------------------------------------
(* Cores.  What a run starts from is right for the game it checks, the     *)
(* verdict of what is left stays that of the game that was read, and every *)
(* constraint that has been visited and kept was needed.                   *)

(* No INVAR of the opponent is substituted: with one of them TRUE there    *)
(* are states that were not legal before.                                  *)
InvarsKept(p) == p.gh[Opponent(p.property.player)].invar = << >> \/ "invar" \notin p.minimise

own == property.player

other == Opponent(own)

(* Whose constraints explain the verdict.                                  *)
Loser == IF realizable THEN other ELSE own

Removable(plr) ==
    UNION {{<<plr, kind, k>> : k \in Positions(plr, kind)} : kind \in minimise}

WonWithout(dropped) == WinRegion(GameWithout(dropped), SpecWithout(dropped))

OverWithout(dropped, S) == SoundOver(GameWithout(dropped), SpecWithout(dropped), S)

UnderWithout(dropped, S) == SoundUnder(GameWithout(dropped), SpecWithout(dropped), S)

CoreInputs ==
    \E p \in Problems : /\ gh = p.gh /\ property = p.property
                        /\ minimise = p.minimise /\ w = p.w
                        /\ InvarsKept(p)

LEMMA InputsTyped ==
    ASSUME CoreInputs
    PROVE  /\ gh[1].init \in Seq(SUBSET P1)
           /\ gh[1].invar \in Seq(SUBSET P1)
           /\ gh[1].trans \in Seq([States -> SUBSET P1])
           /\ gh[2].init \in Seq(SUBSET States)
           /\ gh[2].invar \in Seq(SUBSET States)
           /\ gh[2].trans \in Seq([States \X P1 -> SUBSET P2])
           /\ property \in SpecType
           /\ own \in Players /\ other \in Players
           /\ minimise \subseteq Kinds
           /\ w \in {"LOSER", "BOTH"}
           /\ gh[other].invar = << >> \/ "invar" \notin minimise
<1>1. PICK p \in Problems : gh = p.gh /\ property = p.property /\ minimise = p.minimise /\ w = p.w
                            /\ InvarsKept(p)
  BY DEF CoreInputs
<1>2. p \in ProblemType
  BY ProblemsAssumption
<1>3. /\ gh \in [init  : Seq(SUBSET P1), invar : Seq(SUBSET P1), trans : Seq([States -> SUBSET P1])]
              \X [init  : Seq(SUBSET States), invar : Seq(SUBSET States),
                  trans : Seq([States \X P1 -> SUBSET P2])]
      /\ property \in SpecType /\ minimise \subseteq Kinds /\ w \in {"LOSER", "BOTH"}
  BY <1>1, <1>2 DEF ProblemType
<1>4. /\ gh[1] \in [init  : Seq(SUBSET P1), invar : Seq(SUBSET P1), trans : Seq([States -> SUBSET P1])]
      /\ gh[2] \in [init  : Seq(SUBSET States), invar : Seq(SUBSET States),
                    trans : Seq([States \X P1 -> SUBSET P2])]
  BY <1>3
<1>5. own \in Players /\ other \in Players
  BY <1>3, SpecParts DEF own, other, Players, Opponent
<1>. QED  BY <1>1, <1>3, <1>4, <1>5 DEF InvarsKept, own, other

(* What is left of the constraints: fewer if more are dropped, the same    *)
(* if none of these is among what is dropped in addition.                  *)
LEMMA LeftShrinks ==
    ASSUME NEW plr, NEW kind, NEW D, NEW E, D \subseteq E
    PROVE  Left(plr, kind, E) \subseteq Left(plr, kind, D)
  BY DEF Left

LEMMA LeftSame ==
    ASSUME NEW plr, NEW kind, NEW D, NEW E, D \subseteq E,
           \A k \in DOMAIN gh[plr][kind] : <<plr, kind, k>> \in E => <<plr, kind, k>> \in D
    PROVE  Left(plr, kind, E) = Left(plr, kind, D)
  BY DEF Left

LEMMA ConjunctGrows ==
    ASSUME NEW U, NEW C, NEW C2, C2 \subseteq C
    PROVE  Conjunct(U, C) \subseteq Conjunct(U, C2)
  BY DEF Conjunct

LEMMA WithoutTyped ==
    ASSUME CoreInputs, NEW D
    PROVE  GameWithout(D) \in GameType /\ SpecWithout(D) \in SpecType
<1>1. \A U, C : Conjunct(U, C) \in SUBSET U
  BY DEF Conjunct
<1>2. GameWithout(D) \in GameType
  BY <1>1 DEF GameWithout, GameType
<1>3. property \in SpecType
  BY InputsTyped
<1>4. ASSUME NEW parts \in NonEmptySeq(SUBSET States), NEW plr
      PROVE  PartsWithout(parts, plr, D) \in NonEmptySeq(SUBSET States)
  <2>. DEFINE f == PartsWithout(parts, plr, D)
  <2>1. /\ parts \in Seq(SUBSET States) /\ Len(parts) \in Nat \ {0}
        /\ DOMAIN parts = 1 .. Len(parts)
    BY DEF NonEmptySeq
  <2>2. \A k \in DOMAIN parts : parts[k] \in SUBSET States
    BY <2>1
  <2>3. f \in [1 .. Len(parts) -> SUBSET States]
    BY <2>1, <2>2 DEF PartsWithout
  <2>. HIDE DEF f
  <2>4. f \in Seq(SUBSET States) /\ DOMAIN f = 1 .. Len(parts)
    BY <2>1, <2>3
  <2>5. f # << >>
    <3>1. 1 \in DOMAIN f
      BY <2>1, <2>4
    <3>. QED  BY <3>1
  <2>. QED  BY <2>4, <2>5 DEF NonEmptySeq, f
<1>5. SpecWithout(D) \in SpecType
  BY <1>3, <1>4 DEF SpecWithout, SpecType
<1>. QED  BY <1>2, <1>5

(* The parts of the specification that were dropped are TRUE.              *)
LEMMA PartsGrow ==
    ASSUME NEW parts \in Seq(SUBSET States), NEW plr, NEW D, NEW E, D \subseteq E
    PROVE  /\ DOMAIN PartsWithout(parts, plr, D) = DOMAIN PartsWithout(parts, plr, E)
           /\ \A k \in DOMAIN PartsWithout(parts, plr, D) :
                  PartsWithout(parts, plr, D)[k] \subseteq PartsWithout(parts, plr, E)[k]
  BY DEF PartsWithout

LEMMA PartsSame ==
    ASSUME NEW parts, NEW plr, NEW D, NEW E, D \subseteq E,
           \A k : <<plr, "prop", k>> \in E => <<plr, "prop", k>> \in D
    PROVE  PartsWithout(parts, plr, D) = PartsWithout(parts, plr, E)
  BY DEF PartsWithout

(* Only constraints of one player are dropped.                             *)
OnlyFrom(plr, ids) == \A id \in ids : id[1] = plr

LEMMA OthersLeft ==
    ASSUME NEW plr, NEW D, NEW E, D \subseteq E, OnlyFrom(plr, E \ D), NEW plr2, plr2 # plr,
           NEW kind
    PROVE  Left(plr2, kind, E) = Left(plr2, kind, D)
<1>1. \A k : <<plr2, kind, k>> \in E => <<plr2, kind, k>> \in D
  <2>1. \A k : <<plr2, kind, k>>[1] = plr2
    OBVIOUS
  <2>. QED  BY <2>1 DEF OnlyFrom
<1>. QED  BY <1>1, LeftSame

LEMMA WithoutParts ==
    \A D : /\ GameWithout(D).init1 = Conjunct(P1, Left(1, "init", D))
           /\ GameWithout(D).init2 = Conjunct(States, Left(2, "init", D))
           /\ GameWithout(D).inv1 = Conjunct(P1, Left(1, "invar", D))
           /\ GameWithout(D).inv2 = Conjunct(States, Left(2, "invar", D))
  BY DEF GameWithout

Trans1Of(C) == [s \in States |-> Conjunct(P1, {c[s] : c \in C})]

Trans2Of(C) == [m \in States \X P1 |-> Conjunct(P2, {c[m] : c \in C})]

LEMMA WithoutMoves ==
    \A D : /\ GameWithout(D).trans1 = Trans1Of(Left(1, "trans", D))
           /\ GameWithout(D).trans2 = Trans2Of(Left(2, "trans", D))
  BY DEF GameWithout, Trans1Of, Trans2Of

LEMMA MovesGrow ==
    ASSUME NEW C, NEW C2, C2 \subseteq C
    PROVE  /\ \A s \in States : Trans1Of(C)[s] \subseteq Trans1Of(C2)[s]
           /\ \A m \in States \X P1 : Trans2Of(C)[m] \subseteq Trans2Of(C2)[m]
  BY DEF Trans1Of, Trans2Of, Conjunct

LEMMA WithoutIsLooser ==
    ASSUME CoreInputs, NEW plr \in Players, NEW D, NEW E, D \subseteq E, OnlyFrom(plr, E \ D)
    PROVE  Looser(GameWithout(D), GameWithout(E), plr)
<1>1. \A p, kind : Left(p, kind, E) \subseteq Left(p, kind, D)
  BY LeftShrinks
<1>2. \A p, kind : p # plr => Left(p, kind, E) = Left(p, kind, D)
  BY OthersLeft
<1>3. \A U, p, kind : Conjunct(U, Left(p, kind, D)) \subseteq Conjunct(U, Left(p, kind, E))
  BY <1>1, ConjunctGrows
<1>4. CASE plr = 1
  <2>1. \A kind : Left(2, kind, E) = Left(2, kind, D)
    BY <1>2, <1>4
  <2>2. \A s \in States : GameWithout(D).trans1[s] \subseteq GameWithout(E).trans1[s]
    BY <1>1, MovesGrow, WithoutMoves
  <2>3. GameWithout(D).trans2 = GameWithout(E).trans2
    BY <2>1, WithoutMoves
  <2>4. /\ GameWithout(D).init2 = GameWithout(E).init2
        /\ GameWithout(D).inv2 = GameWithout(E).inv2
    BY <2>1, WithoutParts
  <2>5. /\ GameWithout(D).init1 \subseteq GameWithout(E).init1
        /\ GameWithout(D).inv1 \subseteq GameWithout(E).inv1
    BY <1>3, WithoutParts
  <2>. QED  BY <1>4, <2>2, <2>3, <2>4, <2>5 DEF Looser
<1>5. CASE plr = 2
  <2>1. \A kind : Left(1, kind, E) = Left(1, kind, D)
    BY <1>2, <1>5
  <2>2. \A m \in States \X P1 : GameWithout(D).trans2[m] \subseteq GameWithout(E).trans2[m]
    <3>1. Left(2, "trans", E) \subseteq Left(2, "trans", D)
      BY <1>1
    <3>. QED  BY <3>1, MovesGrow, WithoutMoves
  <2>3. GameWithout(D).trans1 = GameWithout(E).trans1
    BY <2>1, WithoutMoves
  <2>4. /\ GameWithout(D).init1 = GameWithout(E).init1
        /\ GameWithout(D).inv1 = GameWithout(E).inv1
    BY <2>1, WithoutParts
  <2>5. /\ GameWithout(D).init2 \subseteq GameWithout(E).init2
        /\ GameWithout(D).inv2 \subseteq GameWithout(E).inv2
    BY <1>3, WithoutParts
  <2>. QED  BY <1>5, <2>2, <2>3, <2>4, <2>5 DEF Looser
<1>. QED  BY <1>4, <1>5 DEF Players

(* Without some of its own constraints the player of the specification     *)
(* is better off.                                                          *)
LEMMA OwnDropped ==
    ASSUME CoreInputs, NEW D, NEW E, D \subseteq E, OnlyFrom(own, E \ D)
    PROVE  Helps(GameWithout(D), SpecWithout(D), GameWithout(E), SpecWithout(E))
<1>0. own \in Players /\ other # own
  BY InputsTyped DEF other, Opponent, Players
<1>1. /\ GameWithout(D) \in GameType /\ GameWithout(E) \in GameType
      /\ Looser(GameWithout(D), GameWithout(E), own)
  BY <1>0, WithoutTyped, WithoutIsLooser
<1>2. property.assumptions \in Seq(SUBSET States) /\ property.guarantees \in Seq(SUBSET States)
  BY InputsTyped, SpecParts
<1>3. \A k : <<other, "prop", k>> \in E => <<other, "prop", k>> \in D
  <2>1. \A k : <<other, "prop", k>>[1] = other
    OBVIOUS
  <2>. QED  BY <1>0, <2>1 DEF OnlyFrom
<1>4. PartsWithout(property.assumptions, other, D) = PartsWithout(property.assumptions, other, E)
  BY <1>3, PartsSame
<1>5. /\ Invar(GameWithout(D)) \subseteq Invar(GameWithout(E))
      /\ \A S : CanForce(GameWithout(D), S, own) \subseteq CanForce(GameWithout(E), S, own)
  BY <1>0, <1>1, LooserForces
<1>6. /\ SpecWithout(D).player = own /\ SpecWithout(E).player = own
      /\ SpecWithout(D).assumptions = SpecWithout(E).assumptions
      /\ SpecWithout(D).guarantees = PartsWithout(property.guarantees, own, D)
      /\ SpecWithout(E).guarantees = PartsWithout(property.guarantees, own, E)
  BY <1>4 DEF SpecWithout, own, other
<1>7. /\ DOMAIN SpecWithout(D).guarantees = DOMAIN SpecWithout(E).guarantees
      /\ \A k \in DOMAIN SpecWithout(D).guarantees :
             SpecWithout(D).guarantees[k] \subseteq SpecWithout(E).guarantees[k]
  <2>. DEFINE before == PartsWithout(property.guarantees, own, D)
              after == PartsWithout(property.guarantees, own, E)
  <2>1. DOMAIN before = DOMAIN after /\ \A k \in DOMAIN before : before[k] \subseteq after[k]
    BY <1>2, PartsGrow
  <2>. HIDE DEF before, after
  <2>2. SpecWithout(D).guarantees = before /\ SpecWithout(E).guarantees = after
    BY <1>6 DEF before, after
  <2>. QED  BY <2>1, <2>2
<1>. QED
  BY <1>5, <1>6, <1>7 DEF Helps

(* Without some of the opponent's it is worse off, as long as no more      *)
(* states become legal.                                                    *)
LEMMA OtherDropped ==
    ASSUME CoreInputs, NEW D, NEW E, D \subseteq E, OnlyFrom(other, E \ D),
           \A id \in E \ D : id[2] = "invar" => gh[other].invar = << >>
    PROVE  /\ Helps(GameWithout(E), SpecWithout(E), GameWithout(D), SpecWithout(D))
           /\ Invar(GameWithout(E)) = Invar(GameWithout(D))
<1>0. own \in Players /\ other \in Players /\ other # own /\ own = Opponent(other)
  BY InputsTyped DEF other, Opponent, Players
<1>1. /\ GameWithout(D) \in GameType /\ GameWithout(E) \in GameType
      /\ Looser(GameWithout(D), GameWithout(E), other)
  BY <1>0, WithoutTyped, WithoutIsLooser
<1>2. property.assumptions \in Seq(SUBSET States) /\ property.guarantees \in Seq(SUBSET States)
  BY InputsTyped, SpecParts
<1>3. \A k : <<own, "prop", k>> \in E => <<own, "prop", k>> \in D
  <2>1. \A k : <<own, "prop", k>>[1] = own
    OBVIOUS
  <2>. QED  BY <1>0, <2>1 DEF OnlyFrom
<1>4. PartsWithout(property.guarantees, own, D) = PartsWithout(property.guarantees, own, E)
  BY <1>3, PartsSame
<1>5. Left(other, "invar", E) = Left(other, "invar", D)
  <2>1. \A k : <<other, "invar", k>>[2] = "invar"
    OBVIOUS
  <2>2. CASE gh[other].invar = << >>
    <3>1. gh[other]["invar"] = << >>
      BY <2>2
    <3>2. DOMAIN gh[other]["invar"] = {}
      BY <3>1
    <3>. QED  BY <3>2 DEF Left
  <2>3. CASE gh[other].invar # << >>
    <3>1. \A k : <<other, "invar", k>> \in E => <<other, "invar", k>> \in D
      BY <2>1, <2>3
    <3>. QED  BY <3>1, LeftSame
  <2>. QED  BY <2>2, <2>3
<1>6. Left(own, "invar", E) = Left(own, "invar", D)
  BY <1>0, OthersLeft
<1>7. \A p \in Players : Left(p, "invar", E) = Left(p, "invar", D)
  BY <1>0, <1>5, <1>6 DEF Players
<1>8. GameWithout(D).inv1 = GameWithout(E).inv1 /\ GameWithout(D).inv2 = GameWithout(E).inv2
  BY <1>7, WithoutParts DEF Players
<1>9. /\ Invar(GameWithout(E)) = Invar(GameWithout(D))
      /\ \A S : CanForce(GameWithout(E), S, own) \subseteq CanForce(GameWithout(D), S, own)
  BY <1>0, <1>1, <1>8, LooserHinders
<1>10. /\ SpecWithout(D).player = own /\ SpecWithout(E).player = own
       /\ SpecWithout(D).guarantees = SpecWithout(E).guarantees
       /\ SpecWithout(D).assumptions = PartsWithout(property.assumptions, other, D)
       /\ SpecWithout(E).assumptions = PartsWithout(property.assumptions, other, E)
  BY <1>4 DEF SpecWithout, own, other
<1>11. /\ DOMAIN SpecWithout(D).assumptions = DOMAIN SpecWithout(E).assumptions
       /\ \A k \in DOMAIN SpecWithout(D).assumptions :
              SpecWithout(D).assumptions[k] \subseteq SpecWithout(E).assumptions[k]
  <2>. DEFINE before == PartsWithout(property.assumptions, other, D)
              after == PartsWithout(property.assumptions, other, E)
  <2>1. DOMAIN before = DOMAIN after /\ \A k \in DOMAIN before : before[k] \subseteq after[k]
    BY <1>2, PartsGrow
  <2>. HIDE DEF before, after
  <2>2. SpecWithout(D).assumptions = before /\ SpecWithout(E).assumptions = after
    BY <1>10 DEF before, after
  <2>. QED  BY <2>1, <2>2
<1>. QED
  BY <1>9, <1>10, <1>11 DEF Helps

LEMMA SameMoves ==
    ASSUME NEW g, NEW g2, g.inv1 = g2.inv1, g.inv2 = g2.inv2, g.trans1 = g2.trans1,
           g.trans2 = g2.trans2
    PROVE  /\ Invar(g) = Invar(g2)
           /\ \A S, plr : CanForce(g, S, plr) = CanForce(g2, S, plr)
<1>1. Invar(g) = Invar(g2)
  BY DEF Invar
<1>2. /\ \A s : Moves1(g, s) = Moves1(g2, s)
      /\ \A s, q1 : Moves2(g, s, q1) = Moves2(g2, s, q1)
  BY DEF Moves1, Moves2
<1>3. ASSUME NEW S, NEW plr
      PROVE  CanForce(g, S, plr) = CanForce(g2, S, plr)
  <2>1. CanForce(g, S, plr) \subseteq CanForce(g2, S, plr)
    BY <1>1, <1>2 DEF CanForce
  <2>2. CanForce(g2, S, plr) \subseteq CanForce(g, S, plr)
    BY <1>1, <1>2 DEF CanForce
  <2>. QED  BY <2>1, <2>2
<1>. QED  BY <1>1, <1>3

(* Initial conditions have no part in which states are won.                *)
LEMMA InitDropped ==
    ASSUME CoreInputs, NEW D, NEW id, id[2] = "init"
    PROVE  /\ WonWithout(D \cup {id}) = WonWithout(D)
           /\ \A S : OverWithout(D, S) => OverWithout(D \cup {id}, S)
           /\ \A S : UnderWithout(D, S) => UnderWithout(D \cup {id}, S)
<1>. DEFINE E == D \cup {id}
<1>1. ASSUME NEW p, NEW kind, kind # "init"
      PROVE  Left(p, kind, E) = Left(p, kind, D)
  <2>1. \A k : <<p, kind, k>>[2] = kind
    OBVIOUS
  <2>2. \A k : <<p, kind, k>> \in E => <<p, kind, k>> \in D
    BY <1>1, <2>1
  <2>. QED  BY <2>2, LeftSame
<1>2. \A p : Left(p, "invar", E) = Left(p, "invar", D) /\ Left(p, "trans", E) = Left(p, "trans", D)
  BY <1>1
<1>3. SpecWithout(E) = SpecWithout(D)
  <2>1. \A p, k : <<p, "prop", k>>[2] = "prop"
    OBVIOUS
  <2>2. \A p, k : <<p, "prop", k>> \in E => <<p, "prop", k>> \in D
    BY <2>1
  <2>3. \A parts, p : PartsWithout(parts, p, D) = PartsWithout(parts, p, E)
    BY <2>2, PartsSame
  <2>. QED  BY <2>3 DEF SpecWithout
<1>. HIDE DEF E
<1>4. /\ GameWithout(E).inv1 = GameWithout(D).inv1 /\ GameWithout(E).inv2 = GameWithout(D).inv2
      /\ GameWithout(E).trans1 = GameWithout(D).trans1
      /\ GameWithout(E).trans2 = GameWithout(D).trans2
  BY <1>2, WithoutParts, WithoutMoves
<1>5. /\ Invar(GameWithout(E)) = Invar(GameWithout(D))
      /\ \A S, plr : CanForce(GameWithout(E), S, plr) = CanForce(GameWithout(D), S, plr)
  BY <1>4, SameMoves
<1>6. /\ Helps(GameWithout(D), SpecWithout(D), GameWithout(E), SpecWithout(E))
      /\ Helps(GameWithout(E), SpecWithout(E), GameWithout(D), SpecWithout(D))
  BY <1>3, <1>5 DEF Helps
<1>7. /\ GameWithout(D) \in GameType /\ GameWithout(E) \in GameType
      /\ SpecWithout(D) \in SpecType /\ SpecWithout(E) \in SpecType
  BY WithoutTyped
<1>8. WonWithout(E) = WonWithout(D)
  <2>1. WonWithout(D) \subseteq WonWithout(E)
    BY <1>6, <1>7, HelpsRegion DEF WonWithout
  <2>2. WonWithout(E) \subseteq WonWithout(D)
    BY <1>6, <1>7, HelpsRegion DEF WonWithout
  <2>. QED  BY <2>1, <2>2
<1>9. \A S : OverWithout(D, S) => OverWithout(E, S)
  BY <1>5, <1>6, <1>7, HelpsOver DEF OverWithout, SoundOver
<1>10. \A S : UnderWithout(D, S) => UnderWithout(E, S)
  BY <1>6, <1>7, HelpsUnder DEF UnderWithout
<1>. QED  BY <1>8, <1>9, <1>10 DEF E

LEMMA VerdictMeans ==
    ASSUME NEW D
    PROVE  VerdictWithout(D) <=> StartsIn(GameWithout(D), WonWithout(D), own, opt)
  BY DEF VerdictWithout, RightVerdict, WonWithout, SpecWithout, own

(* Constraints the player of the specification could name are its own, and *)
(* the same for its opponent; no INVAR of the opponent is one of them.     *)
LEMMA RemovableIds ==
    ASSUME CoreInputs, NEW plr
    PROVE  /\ OnlyFrom(plr, Removable(plr))
           /\ \A id \in Removable(other) : id[2] = "invar" => gh[other].invar = << >>
<1>1. ASSUME NEW p, NEW id \in Removable(p)
      PROVE  id[1] = p /\ id[2] \in minimise
  BY DEF Removable
<1>. QED  BY <1>1, InputsTyped DEF OnlyFrom

(* When player 1 chooses first, the verdict cannot get better for a player *)
(* without constraints of its opponent, nor worse without its own.         *)
LEMMA VerdictOwn ==
    ASSUME CoreInputs, opt = "N", NEW D, NEW E, D \subseteq E, E \ D \subseteq Removable(own),
           VerdictWithout(D)
    PROVE  VerdictWithout(E)
<1>1. OnlyFrom(own, E \ D) /\ own \in Players
  BY RemovableIds, InputsTyped DEF OnlyFrom
<1>2. Looser(GameWithout(D), GameWithout(E), own)
  BY <1>1, WithoutIsLooser
<1>3. /\ GameWithout(D) \in GameType /\ GameWithout(E) \in GameType
      /\ SpecWithout(D) \in SpecType /\ SpecWithout(E) \in SpecType
  BY WithoutTyped
<1>4. WonWithout(D) \subseteq WonWithout(E)
  BY <1>1, <1>3, OwnDropped, HelpsRegion DEF WonWithout
<1>5. StartsIn(GameWithout(D), WonWithout(D), own, "N")
  BY VerdictMeans
<1>6. StartsIn(GameWithout(E), WonWithout(D), own, "N")
  BY <1>1, <1>2, <1>5, LooserStarts
<1>7. StartsIn(GameWithout(E), WonWithout(E), own, "N")
  BY <1>4, <1>6, StartMonotone DEF Quantifiers
<1>. QED  BY <1>7, VerdictMeans

LEMMA VerdictOther ==
    ASSUME CoreInputs, opt = "N", NEW D, NEW E, D \subseteq E, E \ D \subseteq Removable(other),
           VerdictWithout(E)
    PROVE  VerdictWithout(D)
<1>1. /\ OnlyFrom(other, E \ D) /\ own \in Players /\ other \in Players
      /\ own = Opponent(other)
      /\ \A id \in E \ D : id[2] = "invar" => gh[other].invar = << >>
  BY RemovableIds, InputsTyped DEF OnlyFrom, other, Opponent, Players
<1>2. Looser(GameWithout(D), GameWithout(E), other)
  BY <1>1, WithoutIsLooser
<1>3. /\ GameWithout(D) \in GameType /\ GameWithout(E) \in GameType
      /\ SpecWithout(D) \in SpecType /\ SpecWithout(E) \in SpecType
  BY WithoutTyped
<1>4. WonWithout(E) \subseteq WonWithout(D)
  BY <1>1, <1>3, OtherDropped, HelpsRegion DEF WonWithout
<1>5. StartsIn(GameWithout(E), WonWithout(E), own, "N")
  BY VerdictMeans
<1>6. StartsIn(GameWithout(D), WonWithout(E), own, "N")
  BY <1>1, <1>2, <1>5, LooserStarts
<1>7. StartsIn(GameWithout(D), WonWithout(D), own, "N")
  BY <1>4, <1>6, StartMonotone DEF Quantifiers
<1>. QED  BY <1>7, VerdictMeans

(* Approximations are handed on from one check to the next.                *)
LEMMA UnderHandedOn ==
    ASSUME CoreInputs, NEW D, NEW E, D \subseteq E, E \ D \subseteq Removable(own),
           NEW S, UnderWithout(D, S)
    PROVE  UnderWithout(E, S)
<1>1. OnlyFrom(own, E \ D)
  BY RemovableIds DEF OnlyFrom
<1>. QED  BY <1>1, OwnDropped, HelpsUnder DEF UnderWithout

LEMMA OverHandedOn ==
    ASSUME CoreInputs, NEW D, NEW E, D \subseteq E, E \ D \subseteq Removable(other),
           NEW S, OverWithout(D, S)
    PROVE  OverWithout(E, S)
<1>1. /\ OnlyFrom(other, E \ D)
      /\ \A id \in E \ D : id[2] = "invar" => gh[other].invar = << >>
  BY RemovableIds DEF OnlyFrom
<1>2. /\ Helps(GameWithout(E), SpecWithout(E), GameWithout(D), SpecWithout(D))
      /\ Invar(GameWithout(E)) = Invar(GameWithout(D))
  BY <1>1, OtherDropped
<1>3. S \subseteq Invar(GameWithout(E))
  BY <1>2 DEF OverWithout, SoundOver
<1>. QED  BY <1>2, <1>3, WithoutTyped, HelpsOver DEF OverWithout

LEMMA ExactWithout ==
    ASSUME CoreInputs, NEW D, NEW S, OverWithout(D, S), UnderWithout(D, S)
    PROVE  S = WonWithout(D)
  BY WithoutTyped, BothAreExact DEF OverWithout, UnderWithout, WonWithout

-----------------------------------------------------------------------------
(* A check of the game without some constraints, from beginning to end.    *)

LEMMA LaunchKeeps ==
    ASSUME CoreInputs, opt \in Quantifiers, NEW D, NEW mode \in {"NONE", "NORMAL"},
           NEW isUnder \in BOOLEAN, NEW S, Launch(D, mode, ~isUnder, isUnder, S),
           isUnder => UnderWithout(D, S), ~isUnder => OverWithout(D, S)
    PROVE  /\ IInv' /\ WInv'
           /\ earlierTermination' = mode
           /\ game' = GameWithout(D) /\ spec' = SpecWithout(D)
           /\ opt' = opt
<1>1. /\ game' = GameWithout(D) /\ spec' = SpecWithout(D) /\ opt' = opt
      /\ earlierTermination' = mode /\ pc' = "begin" /\ i' = 1
      /\ overapproxWinStates' = IF isUnder THEN Invar(game') ELSE S
      /\ underapproxWinStates' = IF isUnder THEN S ELSE {}
  BY DEF Launch
<1>2. game' \in GameType /\ spec' \in SpecType
  BY <1>1, WithoutTyped
<1>3. /\ SoundOver(game', spec', overapproxWinStates')
      /\ SoundUnder(game', spec', underapproxWinStates')
      /\ underapproxWinStates' \subseteq overapproxWinStates'
  <2>1. CASE isUnder
    <3>1. SoundUnder(game', spec', S)
      BY <1>1, <2>1 DEF UnderWithout
    <3>2. S \subseteq Invar(game')
      BY <3>1 DEF SoundUnder, IsWinning
    <3>. QED  BY <1>1, <2>1, <3>1, <3>2, AllIsOver
  <2>2. CASE ~isUnder
    <3>1. SoundOver(game', spec', S)
      BY <1>1, <2>2 DEF OverWithout
    <3>. QED  BY <1>1, <2>2, <3>1, NoneIsUnder
  <2>. QED  BY <2>1, <2>2
<1>4. InputsKept'
  BY <1>1, <1>2, <1>3 DEF InputsKept, TerminationModes
<1>5. IInv'
  BY <1>1, <1>4 DEF IInv, InLoops, YInside, XInside
<1>6. WInv'
  BY <1>1 DEF WInv, ConditionsNormal, InLoops, GuaranteeHolds, YHolds, XHolds, FlagsHold,
              ResultHolds, VerdictIsRight
<1>. QED  BY <1>1, <1>5, <1>6

LEMMA Finished ==
    ASSUME CoreInputs, IInv, WInv, earlierTermination # "CONJUNCT", pc = "done", NEW D,
           game = GameWithout(D), spec = SpecWithout(D)
    PROVE  /\ Answer <=> VerdictWithout(D)
           /\ OverWithout(D, Z)
           /\ earlierTermination = "NONE" => UnderWithout(D, Z) /\ Z = WonWithout(D)
<1>1. /\ ZClosed /\ ZKeepsWinners /\ ResultHolds /\ VerdictIsRight
      /\ game \in GameType /\ spec \in SpecType /\ ConditionsNormal
  BY Parts DEF InLoops, IInv, InputsKept, WInv
<1>2. Answer <=> VerdictWithout(D)
  BY <1>1 DEF VerdictIsRight, Answer, VerdictWithout
<1>3. /\ assumptions = Normalize(spec.assumptions, Invar(game))
      /\ guarantees = Normalize(spec.guarantees, Invar(game))
  BY <1>1 DEF ConditionsNormal
<1>4. \A W : Wins(W) <=> IsWinning(game, player, spec.assumptions, spec.guarantees, W)
  BY <1>1, <1>3, NormalizedWinning DEF Wins
<1>5. OverWithout(D, Z)
  <2>1. CanForce(game, Z, player) \subseteq Z /\ Z \subseteq Invar(game)
    BY <1>1, PreIsForce DEF ZClosed
  <2>2. \A k \in DOMAIN spec.assumptions : StayIn(game, player, Z, spec.assumptions[k]) \subseteq Z
    BY <1>1, <1>3, NormalizedClosed DEF ZKeepsWinners
  <2>3. WinRegion(game, spec) \subseteq Z
    BY <1>1, <1>4, WinningIsWon DEF ZKeepsWinners, player
  <2>. QED  BY <2>1, <2>2, <2>3 DEF OverWithout, SoundOver, player
<1>6. earlierTermination = "NONE" => UnderWithout(D, Z)
  BY <1>1, <1>4 DEF ResultHolds, IsFinal, UnderWithout, SoundUnder, player
<1>. QED  BY <1>2, <1>5, <1>6, ExactWithout

-----------------------------------------------------------------------------
(* The order the constraints are visited in.                               *)

Visited(ids) == {ids[k] : k \in DOMAIN ids}

InitsLeft(ids) == \E id \in Visited(ids) : id[2] = "init"

InitsFirst(ids) ==
    \A a, b \in DOMAIN ids : a < b /\ ids[b][2] = "init" => ids[a][2] = "init"

LEMMA JoinedLists ==
    ASSUME NEW C, NEW s \in Seq(C), NEW t \in Seq(C)
    PROVE  /\ s \o t \in Seq(C)
           /\ Visited(s \o t) = Visited(s) \cup Visited(t)
           /\ InitsFirst(s) /\ ~InitsLeft(t) => InitsFirst(s \o t)
<1>. DEFINE u == s \o t
<1>1. /\ u \in Seq(C) /\ Len(s) \in Nat /\ Len(t) \in Nat
      /\ DOMAIN s = 1 .. Len(s) /\ DOMAIN t = 1 .. Len(t) /\ DOMAIN u = 1 .. Len(s) + Len(t)
      /\ \A k \in 1 .. Len(s) + Len(t) : u[k] = IF k <= Len(s) THEN s[k] ELSE t[k - Len(s)]
  OBVIOUS
<1>. HIDE DEF u
<1>2. \A k \in DOMAIN s : k \in DOMAIN u /\ u[k] = s[k]
  BY <1>1
<1>3. \A k \in DOMAIN t : k + Len(s) \in DOMAIN u /\ u[k + Len(s)] = t[k]
  BY <1>1
<1>4. ASSUME NEW k \in DOMAIN u
      PROVE  \/ k \in DOMAIN s /\ u[k] = s[k]
             \/ k > Len(s) /\ k - Len(s) \in DOMAIN t /\ u[k] = t[k - Len(s)]
  BY <1>1
<1>5. Visited(u) = Visited(s) \cup Visited(t)
  <2>1. Visited(u) \subseteq Visited(s) \cup Visited(t)
    BY <1>4 DEF Visited
  <2>2. Visited(s) \subseteq Visited(u)
    BY <1>2 DEF Visited
  <2>3. Visited(t) \subseteq Visited(u)
    BY <1>3 DEF Visited
  <2>. QED  BY <2>1, <2>2, <2>3
<1>6. ASSUME InitsFirst(s), ~InitsLeft(t), NEW a \in DOMAIN u, NEW b \in DOMAIN u,
             a < b, u[b][2] = "init"
      PROVE  u[a][2] = "init"
  <2>1. b \in DOMAIN s /\ u[b] = s[b]
    BY <1>4, <1>6 DEF InitsLeft, Visited
  <2>2. a \in DOMAIN s /\ u[a] = s[a]
    BY <1>1, <1>2, <1>6, <2>1
  <2>. QED  BY <1>6, <2>1, <2>2 DEF InitsFirst
<1>7. InitsFirst(s) /\ ~InitsLeft(t) => InitsFirst(u)
  BY <1>6 DEF InitsFirst
<1>. QED  BY <1>1, <1>5, <1>7 DEF u

(* The rest of a list.                                                     *)
LEMMA RestOfList ==
    ASSUME NEW C, NEW s \in Seq(C), s # << >>, InitsFirst(s)
    PROVE  /\ Tail(s) \in Seq(C) /\ Head(s) \in C
           /\ Visited(s) = Visited(Tail(s)) \cup {Head(s)}
           /\ InitsFirst(Tail(s))
           /\ Head(s)[2] # "init" => ~InitsLeft(Tail(s))
           /\ InitsLeft(Tail(s)) => InitsLeft(s)
           /\ Head(s)[2] = "init" => InitsLeft(s)
<1>. DEFINE t == Tail(s)
<1>1. /\ t \in Seq(C) /\ Len(s) \in Nat \ {0} /\ Head(s) = s[1] /\ Head(s) \in C
      /\ DOMAIN s = 1 .. Len(s) /\ DOMAIN t = 1 .. Len(s) - 1
      /\ \A k \in 1 .. Len(s) - 1 : t[k] = s[k + 1]
  OBVIOUS
<1>. HIDE DEF t
<1>2. \A k \in DOMAIN t : k + 1 \in DOMAIN s /\ k + 1 > 1 /\ t[k] = s[k + 1]
  BY <1>1
<1>3. 1 \in DOMAIN s
  BY <1>1
<1>4. ASSUME NEW k \in DOMAIN s
      PROVE  k = 1 \/ (k - 1 \in DOMAIN t /\ s[k] = t[k - 1])
  BY <1>1
<1>5. Visited(s) = Visited(t) \cup {Head(s)}
  <2>1. Visited(s) \subseteq Visited(t) \cup {Head(s)}
    BY <1>1, <1>4 DEF Visited
  <2>2. Visited(t) \cup {Head(s)} \subseteq Visited(s)
    BY <1>1, <1>2, <1>3 DEF Visited
  <2>. QED  BY <2>1, <2>2
<1>6. ASSUME NEW a \in DOMAIN t, NEW b \in DOMAIN t, a < b, t[b][2] = "init"
      PROVE  t[a][2] = "init"
  <2>1. a + 1 < b + 1
    BY <1>1, <1>6
  <2>. QED  BY <1>2, <1>6, <2>1 DEF InitsFirst
<1>7. ASSUME NEW b \in DOMAIN t, t[b][2] = "init"
      PROVE  Head(s)[2] = "init"
  BY <1>1, <1>2, <1>3, <1>7 DEF InitsFirst
<1>8. InitsFirst(t) /\ (Head(s)[2] # "init" => ~InitsLeft(t))
  BY <1>6, <1>7 DEF InitsFirst, InitsLeft, Visited
<1>. QED  BY <1>1, <1>5, <1>8 DEF t, InitsLeft

(* Exactly the constraints of the player of the kinds to minimise are      *)
(* visited, the initial conditions first.                                  *)
LEMMA WorkVisits ==
    ASSUME CoreInputs, NEW plr \in Players
    PROVE  /\ Work(plr) \in Seq(Removable(plr))
           /\ Visited(Work(plr)) = Removable(plr)
           /\ InitsFirst(Work(plr))
<1>. DEFINE parts == IF plr = own THEN property.guarantees ELSE property.assumptions
            C == Removable(plr)
            ids(kind) == UNION {{<<plr, kind, k>> : k \in Positions(plr, kind)} : x \in minimise \cap {kind}}
            inits  == Ids(plr, "init", gh[plr].init)
            invars == Ids(plr, "invar", gh[plr].invar)
            transs == Ids(plr, "trans", gh[plr].trans)
            props  == Ids(plr, "prop", parts)
<1>1. /\ Positions(plr, "init") = DOMAIN gh[plr].init
      /\ Positions(plr, "invar") = DOMAIN gh[plr].invar
      /\ Positions(plr, "trans") = DOMAIN gh[plr].trans
      /\ Positions(plr, "prop") = DOMAIN parts
  BY DEF Positions, own
<1>2. /\ gh[plr].init \in Seq(SUBSET P1) \cup Seq(SUBSET States)
      /\ gh[plr].invar \in Seq(SUBSET P1) \cup Seq(SUBSET States)
      /\ gh[plr].trans \in Seq([States -> SUBSET P1]) \cup Seq([States \X P1 -> SUBSET P2])
      /\ parts \in Seq(SUBSET States)
  <2>1. plr \in {1, 2}
    BY DEF Players
  <2>2. parts \in Seq(SUBSET States)
    BY InputsTyped, SpecParts
  <2>. QED  BY <2>1, <2>2, InputsTyped
<1>3. ASSUME NEW kind \in Kinds, NEW D, NEW list \in Seq(D), DOMAIN list = Positions(plr, kind)
      PROVE  /\ Ids(plr, kind, list) \in Seq(C)
             /\ Visited(Ids(plr, kind, list)) = ids(kind)
             /\ \A id \in Visited(Ids(plr, kind, list)) : id[2] = kind
  <2>1. CASE kind \in minimise
    <3>1. /\ Ids(plr, kind, list) = [k \in DOMAIN list |-> <<plr, kind, k>>]
          /\ Len(list) \in Nat /\ DOMAIN list = 1 .. Len(list)
      BY <2>1 DEF Ids
    <3>2. \A k \in DOMAIN list : <<plr, kind, k>> \in C
      BY <1>3, <2>1 DEF Removable
    <3>3. ids(kind) = {<<plr, kind, k>> : k \in Positions(plr, kind)}
      BY <2>1
    <3>. HIDE DEF C, ids
    <3>4. Ids(plr, kind, list) \in [1 .. Len(list) -> C]
      BY <3>1, <3>2
    <3>5. Ids(plr, kind, list) \in Seq(C)
      BY <3>1, <3>4
    <3>6. Visited(Ids(plr, kind, list)) = {<<plr, kind, k>> : k \in DOMAIN list}
      BY <3>1 DEF Visited
    <3>. QED  BY <1>3, <3>3, <3>5, <3>6
  <2>2. CASE kind \notin minimise
    <3>1. Ids(plr, kind, list) = << >>
      BY <2>2 DEF Ids
    <3>2. ids(kind) = {}
      BY <2>2
    <3>3. Visited(<< >>) = {}
      BY DEF Visited
    <3>. QED  BY <3>1, <3>2, <3>3
  <2>. QED  BY <2>1, <2>2
<1>4. C = ids("init") \cup ids("invar") \cup ids("trans") \cup ids("prop")
  <2>1. minimise \subseteq {"init", "invar", "trans", "prop"}
    BY InputsTyped DEF Kinds
  <2>. QED  BY <2>1 DEF Removable
<1>. HIDE DEF C, ids, parts
<1>5. /\ inits \in Seq(C) /\ Visited(inits) = ids("init")
      /\ \A id \in Visited(inits) : id[2] = "init"
  BY <1>1, <1>2, <1>3 DEF Kinds
<1>6. /\ invars \in Seq(C) /\ Visited(invars) = ids("invar")
      /\ \A id \in Visited(invars) : id[2] = "invar"
  BY <1>1, <1>2, <1>3 DEF Kinds
<1>7. /\ transs \in Seq(C) /\ Visited(transs) = ids("trans")
      /\ \A id \in Visited(transs) : id[2] = "trans"
  BY <1>1, <1>2, <1>3 DEF Kinds
<1>8. /\ props \in Seq(C) /\ Visited(props) = ids("prop")
      /\ \A id \in Visited(props) : id[2] = "prop"
  BY <1>1, <1>2, <1>3 DEF Kinds
<1>9. Work(plr) = inits \o invars \o transs \o props
  BY DEF Work, parts, own
<1>. HIDE DEF inits, invars, transs, props
<1>10. InitsFirst(inits) /\ ~InitsLeft(invars) /\ ~InitsLeft(transs) /\ ~InitsLeft(props)
  BY <1>5, <1>6, <1>7, <1>8 DEF InitsFirst, InitsLeft, Visited
<1>. DEFINE two == inits \o invars
            three == two \o transs
            four == three \o props
<1>11. Work(plr) = four
  BY <1>9
<1>12. two \in Seq(C) /\ Visited(two) = ids("init") \cup ids("invar") /\ InitsFirst(two)
  BY <1>5, <1>6, <1>10, JoinedLists
<1>. HIDE DEF two
<1>13. /\ three \in Seq(C) /\ Visited(three) = ids("init") \cup ids("invar") \cup ids("trans")
       /\ InitsFirst(three)
  BY <1>7, <1>10, <1>12, JoinedLists
<1>. HIDE DEF three
<1>14. four \in Seq(C) /\ Visited(four) = C /\ InitsFirst(four)
  BY <1>4, <1>8, <1>10, <1>13, JoinedLists
<1>. QED  BY <1>11, <1>14 DEF C

-----------------------------------------------------------------------------
(* The invariant of the minimisation.                                      *)

(* What the run of the algorithm, if there is one, is about.               *)
RunInv ==
    /\ opt \in Quantifiers
    /\ IInv /\ WInv
    /\ earlierTermination # "CONJUNCT"
    /\ phase \in {"first", "recheck", "second"} =>
           game = GameWithout(removed) /\ spec = SpecWithout(removed)
    /\ phase \in {"first", "second"} \/ (phase = "recheck" /\ ~realizable)
           => earlierTermination = "NONE"

TodoInv ==
    phase \in {"minimise", "recheck"} =>
        /\ todo \in Seq(Removable(playerToModify))
        /\ InitsFirst(todo)
        /\ phase = "recheck" => ~InitsLeft(todo) /\ candidate \in Removable(playerToModify)

Needed(id, left) ==
    \E D \in SUBSET left : ~(realizable <=> VerdictWithout(D \cup {id}))

(* The constraints removed for good are the loser's and without effect on  *)
(* the verdict; each of the loser's is removed, still waiting for its      *)
(* check, or was needed in a game with fewer of them removed.              *)
Explained(left, waiting) ==
    /\ left \subseteq Removable(Loser)
    /\ realizable <=> VerdictWithout(left)
    /\ ~fun => \A id \in Removable(Loser) : id \in left \/ id \in waiting \/ Needed(id, left)

(* The states kept from an earlier check are right for what is left.       *)
Approximates(left) ==
    IF IsUnder THEN UnderWithout(left, approximation) ELSE OverWithout(left, approximation)

Remembered(left) ==
    /\ Approximates(left)
    /\ ~fun => OverWithout({}, winningStates) /\ UnderWithout({}, winningStates)
    /\ somethingChanged \/ left = {}

PhaseInv ==
    /\ phase # "aborted"
    /\ phase = "first" => removed = {} /\ ~fun /\ ~somethingChanged
    /\ phase # "first" =>
           /\ realizable <=> VerdictWithout({})
           /\ playerToModify = IF fun THEN Opponent(Loser) ELSE Loser
           /\ fun => w = "BOTH"
    /\ phase = "minimise" =>
           /\ Explained(removed, Visited(todo))
           /\ Remembered(removed)
           /\ InitsLeft(todo) => winningStates = WonWithout(removed)
    /\ phase = "recheck" =>
           \E left : /\ removed = left \cup {candidate}
                     /\ Explained(left, Visited(todo) \cup {candidate})
                     /\ Remembered(left)
    /\ phase = "second" => ~fun /\ w = "BOTH" /\ Explained(removed, {}) /\ somethingChanged
    /\ phase = "done" => Explained(core, {})

CoreTypes ==
    realizable \in BOOLEAN /\ fun \in BOOLEAN /\ somethingChanged \in BOOLEAN

CoreInv == CoreInputs /\ CoreTypes /\ RunInv /\ TodoInv /\ PhaseInv

(* What the constraints and the option give stays what it is.              *)
LEMMA MeaningsKept ==
    ASSUME UNCHANGED inputs, UNCHANGED opt
    PROVE  /\ CoreInputs' <=> CoreInputs
           /\ own' = own /\ other' = other
           /\ \A D : GameWithout(D)' = GameWithout(D) /\ SpecWithout(D)' = SpecWithout(D)
           /\ \A D : VerdictWithout(D)' <=> VerdictWithout(D)
           /\ \A D : WonWithout(D)' = WonWithout(D)
           /\ \A D, S : OverWithout(D, S)' <=> OverWithout(D, S)
           /\ \A D, S : UnderWithout(D, S)' <=> UnderWithout(D, S)
           /\ \A plr : Removable(plr)' = Removable(plr)
           /\ \A plr : Work(plr)' = Work(plr)
<1>1. gh' = gh /\ property' = property /\ minimise' = minimise /\ w' = w /\ opt' = opt
  BY DEF inputs
<1>2. CoreInputs' <=> CoreInputs
  BY <1>1 DEF CoreInputs
<1>3. own' = own /\ other' = other
  BY <1>1 DEF own, other
<1>4. \A p, kind, D : Left(p, kind, D)' = Left(p, kind, D)
  BY <1>1 DEF Left
<1>5. \A D : GameWithout(D)' = GameWithout(D)
  BY <1>4 DEF GameWithout
<1>6. \A D : SpecWithout(D)' = SpecWithout(D)
  BY <1>1 DEF SpecWithout, PartsWithout
<1>7. \A D : VerdictWithout(D)' <=> VerdictWithout(D)
  BY <1>1, <1>5, <1>6 DEF VerdictWithout
<1>8. \A D : WonWithout(D)' = WonWithout(D)
  BY <1>5, <1>6 DEF WonWithout
<1>9. \A D, S : (OverWithout(D, S)' <=> OverWithout(D, S))
                /\ (UnderWithout(D, S)' <=> UnderWithout(D, S))
  BY <1>5, <1>6 DEF OverWithout, UnderWithout
<1>10. \A plr, kind : Positions(plr, kind)' = Positions(plr, kind)
  BY <1>1 DEF Positions
<1>11. \A plr : Removable(plr)' = Removable(plr)
  BY <1>1, <1>10 DEF Removable
<1>12. \A plr : Work(plr)' = Work(plr)
  BY <1>1 DEF Work, Ids
<1>. QED  BY <1>2, <1>3, <1>5, <1>6, <1>7, <1>8, <1>9, <1>11, <1>12

LEMMA CoreInvInit ==
    ASSUME CoreInit, \A p \in Problems : InvarsKept(p)
    PROVE  CoreInv
<1>1. CoreInputs
  BY DEF CoreInit, CoreInputs
<1>2. /\ opt \in Quantifiers /\ game = GameWithout({}) /\ spec = SpecWithout({})
      /\ earlierTermination = "NONE" /\ pc = "begin" /\ i = 1
      /\ overapproxWinStates = Invar(game) /\ underapproxWinStates = {}
      /\ phase = "first" /\ removed = {}
      /\ ~fun /\ fun \in BOOLEAN /\ ~somethingChanged /\ somethingChanged \in BOOLEAN
      /\ realizable \in BOOLEAN
  BY DEF CoreInit
<1>3. game \in GameType /\ spec \in SpecType
  BY <1>1, <1>2, WithoutTyped
<1>4. InputsKept
  BY <1>2, <1>3, AllIsOver, NoneIsUnder DEF InputsKept, TerminationModes
<1>5. IInv /\ WInv
  BY <1>2, <1>4 DEF IInv, InLoops, YInside, XInside, WInv, ConditionsNormal, GuaranteeHolds,
                    YHolds, XHolds, FlagsHold, ResultHolds, VerdictIsRight
<1>6. RunInv
  BY <1>2, <1>5 DEF RunInv
<1>. QED  BY <1>1, <1>2, <1>6 DEF CoreInv, CoreTypes, TodoInv, PhaseInv

(* A step of the algorithm.                                                *)
LEMMA AlgorithmKeeps ==
    ASSUME CoreInv, [Next]_vars, UNCHANGED coreVars
    PROVE  CoreInv'
<1>1. IInv /\ WInv
  BY DEF CoreInv, RunInv
<1>2. IInv' /\ WInv'
  BY <1>1, IInvStep, WInvStep
<1>3. /\ game' = game /\ spec' = spec /\ opt' = opt
      /\ earlierTermination' = earlierTermination
  BY <1>1, InputsStay
<1>4. /\ UNCHANGED inputs /\ phase' = phase
      /\ removed' = removed /\ todo' = todo /\ candidate' = candidate
      /\ realizable' = realizable /\ playerToModify' = playerToModify
      /\ winningStates' = winningStates /\ approximation' = approximation
      /\ somethingChanged' = somethingChanged /\ fun' = fun /\ core' = core
      /\ w' = w /\ property' = property
  BY DEF coreVars, progress, inputs
<1>5. /\ CoreInputs' <=> CoreInputs
      /\ own' = own /\ other' = other
      /\ \A D : GameWithout(D)' = GameWithout(D) /\ SpecWithout(D)' = SpecWithout(D)
      /\ \A D : VerdictWithout(D)' <=> VerdictWithout(D)
      /\ \A D : WonWithout(D)' = WonWithout(D)
      /\ \A D, S : OverWithout(D, S)' <=> OverWithout(D, S)
      /\ \A D, S : UnderWithout(D, S)' <=> UnderWithout(D, S)
      /\ \A plr : Removable(plr)' = Removable(plr)
  BY <1>3, <1>4, MeaningsKept
<1>6. RunInv'
  BY <1>2, <1>3, <1>4, <1>5 DEF CoreInv, RunInv
<1>7. TodoInv'
  BY <1>4, <1>5 DEF CoreInv, TodoInv, InitsFirst, InitsLeft, Visited
<1>8. \A left, waiting : Explained(left, waiting)' <=> Explained(left, waiting)
  BY <1>4, <1>5 DEF Explained, Loser, Needed
<1>9. \A left : Remembered(left)' <=> Remembered(left)
  BY <1>4, <1>5 DEF Remembered, Approximates, IsUnder
<1>10. PhaseInv'
  BY <1>4, <1>5, <1>8, <1>9 DEF CoreInv, PhaseInv, Loser, InitsLeft, Visited
<1>. QED  BY <1>4, <1>5, <1>6, <1>7, <1>10 DEF CoreInv, CoreTypes

(* A constraint of the loser without which the verdict stays the same.     *)
LEMMA Accepted ==
    ASSUME NEW left, NEW waiting, NEW id \in Removable(Loser),
           Explained(left, waiting \cup {id}), realizable <=> VerdictWithout(left \cup {id})
    PROVE  Explained(left \cup {id}, waiting)
<1>1. \A c : Needed(c, left) => Needed(c, left \cup {id})
  BY DEF Needed
<1>. QED  BY <1>1 DEF Explained

(* One without which it does not; it was not removed before.               *)
LEMMA Rejected ==
    ASSUME NEW left, NEW waiting, NEW id, Explained(left, waiting \cup {id}),
           ~(realizable <=> VerdictWithout(left \cup {id}))
    PROVE  Explained(left, waiting) /\ (left \cup {id}) \ {id} = left /\ left \ {id} = left
<1>1. id \notin left
  <2>1. CASE id \in left
    <3>1. left \cup {id} = left
      BY <2>1
    <3>. QED  BY <3>1 DEF Explained
  <2>. QED  BY <2>1
<1>2. Needed(id, left)
  BY DEF Needed
<1>. QED  BY <1>1, <1>2 DEF Explained

(* A step that leaves the inputs alone leaves the meaning of all that is   *)
(* said about the constraints alone, but for what has been found out.      *)
LEMMA ExplainedKept ==
    ASSUME UNCHANGED inputs, UNCHANGED opt, realizable' = realizable
    PROVE  /\ Loser' = Loser
           /\ fun' = fun => \A left, waiting : Explained(left, waiting) => Explained(left, waiting)'
           /\ fun' => \A left, waiting : Explained(left, waiting) => Explained(left, waiting)'
<1>1. /\ own' = own /\ other' = other
      /\ \A D : VerdictWithout(D)' <=> VerdictWithout(D)
      /\ \A plr : Removable(plr)' = Removable(plr)
  BY MeaningsKept
<1>2. Loser' = Loser
  BY <1>1 DEF Loser
<1>3. \A id, left : Needed(id, left)' <=> Needed(id, left)
  BY <1>1 DEF Needed
<1>. QED  BY <1>1, <1>2, <1>3 DEF Explained

LEMMA RememberedKept ==
    ASSUME UNCHANGED inputs, UNCHANGED opt, fun' = fun, playerToModify' = playerToModify,
           winningStates' = winningStates
    PROVE  /\ IsUnder' <=> IsUnder
           /\ \A left : /\ Remembered(left)
                        /\ approximation' = approximation
                        /\ somethingChanged' = somethingChanged
                        => Remembered(left)'
<1>1. /\ property' = property
      /\ \A D, S : OverWithout(D, S)' <=> OverWithout(D, S)
      /\ \A D, S : UnderWithout(D, S)' <=> UnderWithout(D, S)
  BY MeaningsKept DEF inputs
<1>. QED  BY <1>1 DEF Remembered, Approximates, IsUnder

(* The first check tells what is to be explained.                          *)
LEMMA FirstVerdictKeeps ==
    ASSUME CoreInv, FirstVerdict
    PROVE  CoreInv'
<1>1. /\ phase = "first" /\ pc = "done" /\ removed = {} /\ ~fun /\ ~somethingChanged
      /\ CoreInputs /\ CoreTypes /\ opt \in Quantifiers
      /\ IInv /\ WInv /\ earlierTermination = "NONE"
      /\ game = GameWithout({}) /\ spec = SpecWithout({})
  BY DEF CoreInv, RunInv, PhaseInv, FirstVerdict
<1>2. /\ UNCHANGED vars /\ UNCHANGED inputs /\ removed' = removed
      /\ somethingChanged' = somethingChanged /\ fun' = fun
      /\ realizable' = Answer /\ phase' = "minimise"
      /\ playerToModify' = IF (Answer /\ player = 1) \/ (~Answer /\ player = 2) THEN 2 ELSE 1
      /\ winningStates' = bdd_dup(Z) /\ approximation' = bdd_dup(Z)
      /\ todo' = Work(playerToModify')
  BY DEF FirstVerdict, Minimise
<1>3. UNCHANGED opt /\ earlierTermination' = earlierTermination
  BY <1>2 DEF vars, input
<1>4. /\ (Answer <=> VerdictWithout({}))
      /\ OverWithout({}, Z) /\ UnderWithout({}, Z) /\ Z = WonWithout({})
  BY <1>1, Finished
<1>5. bdd_dup(Z) = Z
  <2>1. Z \subseteq States
    BY <1>1, <1>4, WithoutTyped, TypedInvar DEF OverWithout, SoundOver
  <2>. QED  BY <2>1 DEF bdd_dup
<1>6. /\ CoreInputs' /\ own' = own /\ other' = other
      /\ \A D : VerdictWithout(D)' <=> VerdictWithout(D)
      /\ \A D : WonWithout(D)' = WonWithout(D)
      /\ \A D, S : OverWithout(D, S)' <=> OverWithout(D, S)
      /\ \A D, S : UnderWithout(D, S)' <=> UnderWithout(D, S)
      /\ \A plr : Removable(plr)' = Removable(plr)
      /\ \A plr : Work(plr)' = Work(plr)
  BY <1>1, <1>2, <1>3, MeaningsKept
<1>7. playerToModify' = Loser' /\ playerToModify' \in Players /\ realizable' \in BOOLEAN
  <2>1. own \in Players /\ player = own
    BY <1>1, InputsTyped DEF player, SpecWithout, own
  <2>2. Answer \in BOOLEAN
    BY DEF Answer
  <2>. QED  BY <1>2, <1>6, <2>1, <2>2 DEF Loser, other, Opponent, Players
<1>8. /\ todo' \in Seq(Removable(playerToModify'))
      /\ Visited(todo') = Removable(playerToModify')
      /\ InitsFirst(todo')
  BY <1>1, <1>2, <1>7, WorkVisits
<1>9. RunInv'
  <2>1. IInv' /\ WInv'
    BY <1>1, <1>2, IInvStep, WInvStep
  <2>. QED  BY <1>1, <1>2, <1>3, <2>1 DEF RunInv
<1>10. TodoInv'
  BY <1>2, <1>6, <1>8 DEF TodoInv, InitsFirst
<1>11. Explained(removed, Visited(todo))'
  BY <1>1, <1>2, <1>4, <1>6, <1>7, <1>8 DEF Explained, Visited
<1>12. Remembered(removed)'
  BY <1>1, <1>2, <1>4, <1>5, <1>6 DEF Remembered, Approximates
<1>13. PhaseInv'
  BY <1>1, <1>2, <1>4, <1>5, <1>6, <1>7, <1>11, <1>12 DEF PhaseInv
<1>. QED  BY <1>1, <1>2, <1>6, <1>7, <1>9, <1>10, <1>13 DEF CoreInv, CoreTypes

(* A constraint on the initial states.                                     *)
LEMMA CheckInitKeeps ==
    ASSUME CoreInv, CheckInit
    PROVE  CoreInv'
<1>. DEFINE id == Head(todo)
            g == GameWithout(removed \cup {id})
            newReal == CanPlayerSatisfy(Init1(g), Init2(g), winningStates, own, opt)
<1>1. /\ phase = "minimise" /\ todo # << >> /\ id[2] = "init"
      /\ CoreInputs /\ CoreTypes /\ opt \in Quantifiers
      /\ todo \in Seq(Removable(playerToModify)) /\ InitsFirst(todo)
      /\ realizable <=> VerdictWithout({})
      /\ playerToModify = IF fun THEN Opponent(Loser) ELSE Loser
      /\ fun => w = "BOTH"
      /\ Explained(removed, Visited(todo)) /\ Remembered(removed)
      /\ InitsLeft(todo) => winningStates = WonWithout(removed)
      /\ IInv /\ WInv /\ earlierTermination # "CONJUNCT"
  BY DEF CoreInv, RunInv, TodoInv, PhaseInv, CheckInit
<1>2. /\ UNCHANGED vars /\ UNCHANGED inputs /\ todo' = Tail(todo)
      /\ realizable' = realizable /\ playerToModify' = playerToModify
      /\ winningStates' = winningStates /\ approximation' = approximation /\ fun' = fun
      /\ core' = core
      /\ Judge(id, newReal)
  BY DEF CheckInit, own
<1>3. UNCHANGED opt /\ earlierTermination' = earlierTermination /\ w' = w
  BY <1>2 DEF vars, input, inputs
<1>4. /\ Tail(todo) \in Seq(Removable(playerToModify)) /\ id \in Removable(playerToModify)
      /\ Visited(todo) = Visited(Tail(todo)) \cup {id}
      /\ InitsFirst(Tail(todo))
      /\ InitsLeft(todo)
  BY <1>1, RestOfList
<1>5. newReal <=> VerdictWithout(removed \cup {id})
  <2>1. winningStates = WonWithout(removed \cup {id})
    BY <1>1, <1>4, InitDropped
  <2>2. own \in Players
    BY <1>1, InputsTyped
  <2>3. newReal <=> StartsIn(g, winningStates, own, opt)
    BY <1>1, <2>2, SatisfyIsStart
  <2>. QED  BY <2>1, <2>3, VerdictMeans
<1>. HIDE DEF newReal
<1>6. newReal \in BOOLEAN
  BY DEF newReal, CanPlayerSatisfy
<1>. HIDE DEF id, g
<1>7. /\ CoreInputs' /\ own' = own /\ other' = other
      /\ \A D : VerdictWithout(D)' <=> VerdictWithout(D)
      /\ \A D : WonWithout(D)' = WonWithout(D)
      /\ \A plr : Removable(plr)' = Removable(plr)
  BY <1>1, <1>2, <1>3, MeaningsKept
<1>8. CoreTypes' /\ phase' \in {"minimise", "crashed"}
  BY <1>1, <1>2, <1>6 DEF CoreTypes, Judge
<1>9. RunInv'
  <2>1. IInv' /\ WInv'
    BY <1>1, <1>2, IInvStep, WInvStep
  <2>. QED  BY <1>1, <1>2, <1>3, <1>8, <2>1 DEF RunInv
<1>10. TodoInv'
  BY <1>2, <1>4, <1>7, <1>8 DEF TodoInv, InitsFirst
<1>11. (realizable <=> VerdictWithout({}))' /\ Loser' = Loser
  BY <1>1, <1>2, <1>3, <1>7, ExplainedKept
<1>12. phase' = "minimise" => /\ Explained(removed', Visited(Tail(todo)))
                              /\ winningStates = WonWithout(removed')
                              /\ Remembered(removed)'
  <2>. SUFFICES ASSUME phase' = "minimise"
                PROVE  /\ Explained(removed', Visited(Tail(todo)))
                       /\ winningStates = WonWithout(removed')
                       /\ Remembered(removed)'
    OBVIOUS
  <2>1. CASE newReal = realizable
    <3>1. ~fun /\ removed' = removed \cup {id} /\ somethingChanged'
      BY <1>2, <2>1 DEF Judge
    <3>2. id \in Removable(Loser)
      BY <1>1, <1>4, <3>1
    <3>3. Explained(removed', Visited(Tail(todo)))
      BY <1>1, <1>4, <1>5, <2>1, <3>1, <3>2, Accepted
    <3>4. winningStates = WonWithout(removed')
      BY <1>1, <1>4, <3>1, InitDropped
    <3>5. Approximates(removed')
      BY <1>1, <3>1, InitDropped DEF Remembered, Approximates
    <3>6. Remembered(removed)'
      <4>1. /\ property' = property
            /\ \A D, S : OverWithout(D, S)' <=> OverWithout(D, S)
            /\ \A D, S : UnderWithout(D, S)' <=> UnderWithout(D, S)
        BY <1>2, <1>3, MeaningsKept DEF inputs
      <4>. QED  BY <1>1, <1>2, <3>1, <3>5, <4>1 DEF Remembered, Approximates, IsUnder
    <3>. QED  BY <3>3, <3>4, <3>6
  <2>2. CASE newReal # realizable
    <3>1. removed' = removed \ {id} /\ somethingChanged' = somethingChanged
      BY <1>1, <1>2, <2>2 DEF Judge, CoreTypes
    <3>2. ~(realizable <=> VerdictWithout(removed \cup {id}))
      BY <1>1, <1>5, <1>6, <2>2 DEF CoreTypes
    <3>3. Explained(removed, Visited(Tail(todo))) /\ removed' = removed
      <4>1. Explained(removed, Visited(Tail(todo)) \cup {id})
        BY <1>1, <1>4
      <4>. QED  BY <3>1, <3>2, <4>1, Rejected
    <3>4. Remembered(removed)'
      BY <1>1, <1>2, <1>3, <3>1, <3>3, RememberedKept
    <3>. QED  BY <1>1, <1>4, <3>3, <3>4
  <2>. QED  BY <2>1, <2>2
<1>13. phase' = "minimise" => Explained(removed, Visited(todo))'
  BY <1>2, <1>3, <1>12, ExplainedKept DEF Visited
<1>14. PhaseInv'
  BY <1>1, <1>2, <1>3, <1>7, <1>8, <1>11, <1>12, <1>13 DEF PhaseInv
<1>. QED  BY <1>7, <1>8, <1>9, <1>10, <1>14 DEF CoreInv

(* Any other constraint is substituted and the game checked again.         *)
LEMMA DisableKeeps ==
    ASSUME CoreInv, Disable
    PROVE  CoreInv'
<1>. DEFINE id == Head(todo)
            mode == IF realizable THEN "NORMAL" ELSE "NONE"
<1>1. /\ phase = "minimise" /\ todo # << >> /\ id[2] # "init"
      /\ CoreInputs /\ CoreTypes /\ opt \in Quantifiers
      /\ todo \in Seq(Removable(playerToModify)) /\ InitsFirst(todo)
      /\ realizable <=> VerdictWithout({})
      /\ playerToModify = IF fun THEN Opponent(Loser) ELSE Loser
      /\ fun => w = "BOTH"
      /\ Explained(removed, Visited(todo)) /\ Remembered(removed)
  BY DEF CoreInv, RunInv, TodoInv, PhaseInv, Disable
<1>2. /\ UNCHANGED inputs /\ todo' = Tail(todo) /\ candidate' = id
      /\ removed' = removed \cup {id} /\ phase' = "recheck"
      /\ realizable' = realizable /\ playerToModify' = playerToModify
      /\ winningStates' = winningStates /\ approximation' = approximation
      /\ somethingChanged' = somethingChanged /\ fun' = fun /\ core' = core
      /\ Launch(removed', mode, ~IsUnder, IsUnder, approximation)
  BY DEF Disable
<1>3. UNCHANGED opt /\ w' = w
  BY <1>2 DEF Launch, inputs
<1>4. /\ Tail(todo) \in Seq(Removable(playerToModify)) /\ id \in Removable(playerToModify)
      /\ Visited(todo) = Visited(Tail(todo)) \cup {id}
      /\ InitsFirst(Tail(todo)) /\ ~InitsLeft(Tail(todo))
  BY <1>1, RestOfList
<1>. HIDE DEF id
<1>5. playerToModify = IF IsUnder THEN own ELSE other
  BY <1>1, InputsTyped DEF IsUnder, own, other, Loser, Opponent, Players
<1>6. removed' \ removed \subseteq Removable(playerToModify) /\ removed \subseteq removed'
  BY <1>2, <1>4
<1>7. /\ IsUnder => UnderWithout(removed', approximation)
      /\ ~IsUnder => OverWithout(removed', approximation)
  BY <1>1, <1>5, <1>6, UnderHandedOn, OverHandedOn DEF Remembered, Approximates
<1>8. mode \in {"NONE", "NORMAL"} /\ IsUnder \in BOOLEAN
  BY DEF IsUnder
<1>9. /\ IInv' /\ WInv' /\ earlierTermination' = mode
      /\ game' = GameWithout(removed') /\ spec' = SpecWithout(removed')
  <2>. HIDE DEF mode
  <2>1. \A D : Launch(D, mode, ~IsUnder, IsUnder, approximation) /\ D = removed'
               => /\ IInv' /\ WInv' /\ earlierTermination' = mode
                  /\ game' = GameWithout(D) /\ spec' = SpecWithout(D)
    BY <1>1, <1>7, <1>8, LaunchKeeps
  <2>. QED  BY <1>2, <2>1
<1>10. /\ CoreInputs' /\ own' = own /\ other' = other
       /\ \A D : GameWithout(D)' = GameWithout(D) /\ SpecWithout(D)' = SpecWithout(D)
       /\ \A D : VerdictWithout(D)' <=> VerdictWithout(D)
       /\ \A plr : Removable(plr)' = Removable(plr)
  BY <1>1, <1>2, <1>3, MeaningsKept
<1>11. RunInv'
  <2>1. /\ game' = GameWithout(removed)' /\ spec' = SpecWithout(removed)'
    BY <1>9, <1>10
  <2>. QED  BY <1>1, <1>2, <1>3, <1>9, <2>1 DEF RunInv
<1>12. TodoInv'
  BY <1>2, <1>4, <1>10 DEF TodoInv, InitsFirst, InitsLeft, Visited
<1>13. (realizable <=> VerdictWithout({}))' /\ Loser' = Loser
  BY <1>1, <1>2, <1>3, <1>10, ExplainedKept
<1>14. Explained(removed, Visited(Tail(todo)) \cup {id})
  BY <1>1, <1>4
<1>15. \E left : /\ removed' = left \cup {candidate'}
                 /\ Explained(left, Visited(todo) \cup {candidate})'
                 /\ Remembered(left)'
  <2>1. Remembered(removed) /\ removed' = removed \cup {candidate'}
    BY <1>1, <1>2
  <2>2. \A left, waiting : Explained(left, waiting) => Explained(left, waiting)'
    BY <1>2, <1>3, ExplainedKept
  <2>3. \A left : Remembered(left) => Remembered(left)'
    BY <1>2, <1>3, RememberedKept
  <2>4. Visited(todo)' \cup {candidate'} = Visited(Tail(todo)) \cup {id}
    BY <1>2 DEF Visited
  <2>5. \A left : Explained(left, Visited(Tail(todo)) \cup {id})
                  => Explained(left, Visited(todo) \cup {candidate})'
    BY <2>2, <2>4
  <2>. QED  BY <1>14, <2>1, <2>3, <2>5
<1>16. PhaseInv'
  BY <1>1, <1>2, <1>3, <1>10, <1>13, <1>15 DEF PhaseInv
<1>17. CoreTypes'
  BY <1>1, <1>2 DEF CoreTypes
<1>. QED  BY <1>10, <1>11, <1>12, <1>16, <1>17 DEF CoreInv

(* The check is over: the constraint stays TRUE or is put back.            *)
LEMMA RecheckKeeps ==
    ASSUME CoreInv, Recheck
    PROVE  CoreInv'
<1>1. /\ phase = "recheck" /\ pc = "done"
      /\ CoreInputs /\ CoreTypes /\ opt \in Quantifiers
      /\ todo \in Seq(Removable(playerToModify)) /\ InitsFirst(todo)
      /\ ~InitsLeft(todo) /\ candidate \in Removable(playerToModify)
      /\ realizable <=> VerdictWithout({})
      /\ playerToModify = IF fun THEN Opponent(Loser) ELSE Loser
      /\ fun => w = "BOTH"
      /\ IInv /\ WInv /\ earlierTermination # "CONJUNCT"
      /\ game = GameWithout(removed) /\ spec = SpecWithout(removed)
      /\ ~realizable => earlierTermination = "NONE"
  BY DEF CoreInv, RunInv, TodoInv, PhaseInv, Recheck
<1>2. PICK left : /\ removed = left \cup {candidate}
                  /\ Explained(left, Visited(todo) \cup {candidate})
                  /\ Remembered(left)
  BY <1>1 DEF CoreInv, PhaseInv
<1>3. /\ UNCHANGED vars /\ UNCHANGED inputs /\ todo' = todo /\ candidate' = candidate
      /\ realizable' = realizable /\ playerToModify' = playerToModify
      /\ winningStates' = winningStates /\ fun' = fun /\ core' = core
      /\ approximation' = IF Answer = realizable THEN bdd_dup(Z) ELSE approximation
      /\ Judge(candidate, Answer)
  BY DEF Recheck
<1>4. UNCHANGED opt /\ earlierTermination' = earlierTermination /\ w' = w
  BY <1>3 DEF vars, input, inputs
<1>5. /\ Answer \in BOOLEAN
      /\ Answer <=> VerdictWithout(removed)
      /\ OverWithout(removed, Z)
      /\ ~realizable => UnderWithout(removed, Z)
  BY <1>1, Finished DEF Answer
<1>6. bdd_dup(Z) = Z
  <2>1. Z \subseteq States
    BY <1>1, <1>5, WithoutTyped, TypedInvar DEF OverWithout, SoundOver
  <2>. QED  BY <2>1 DEF bdd_dup
<1>. HIDE DEF Answer
<1>7. /\ CoreInputs' /\ own' = own /\ other' = other
      /\ \A D : VerdictWithout(D)' <=> VerdictWithout(D)
      /\ \A plr : Removable(plr)' = Removable(plr)
  BY <1>1, <1>3, <1>4, MeaningsKept
<1>8. CoreTypes' /\ phase' \in {"minimise", "crashed"}
  BY <1>1, <1>3, <1>5 DEF CoreTypes, Judge
<1>9. RunInv'
  <2>1. IInv' /\ WInv'
    BY <1>1, <1>3, IInvStep, WInvStep
  <2>. QED  BY <1>1, <1>3, <1>4, <1>8, <2>1 DEF RunInv
<1>10. TodoInv' /\ ~InitsLeft(todo)'
  BY <1>1, <1>3, <1>7, <1>8 DEF TodoInv, InitsFirst, InitsLeft, Visited
<1>11. (realizable <=> VerdictWithout({}))' /\ Loser' = Loser
  BY <1>1, <1>3, <1>4, <1>7, ExplainedKept
<1>12. phase' = "minimise" => Explained(removed', Visited(todo)) /\ Remembered(removed)'
  <2>. SUFFICES ASSUME phase' = "minimise"
                PROVE  Explained(removed', Visited(todo)) /\ Remembered(removed)'
    OBVIOUS
  <2>1. CASE Answer = realizable
    <3>1. ~fun /\ removed' = left \cup {candidate} /\ somethingChanged' /\ approximation' = Z
      BY <1>2, <1>3, <1>6, <2>1 DEF Judge
    <3>2. candidate \in Removable(Loser)
      BY <1>1, <3>1
    <3>3. Explained(removed', Visited(todo))
      BY <1>2, <1>5, <2>1, <3>1, <3>2, Accepted
    <3>4. IF IsUnder THEN UnderWithout(removed', Z) ELSE OverWithout(removed', Z)
      <4>1. removed' = removed
        BY <1>2, <3>1
      <4>2. IsUnder => ~realizable
        BY <1>1, <3>1, InputsTyped DEF IsUnder, Loser, own, other, Opponent, Players
      <4>. QED  BY <1>5, <4>1, <4>2
    <3>5. Remembered(removed)'
      <4>1. /\ property' = property
            /\ \A D, S : OverWithout(D, S)' <=> OverWithout(D, S)
            /\ \A D, S : UnderWithout(D, S)' <=> UnderWithout(D, S)
        BY <1>3, <1>4, MeaningsKept DEF inputs
      <4>. QED  BY <1>2, <1>3, <3>1, <3>4, <4>1 DEF Remembered, Approximates, IsUnder
    <3>. QED  BY <3>3, <3>5
  <2>2. CASE Answer # realizable
    <3>1. removed' = removed \ {candidate} /\ somethingChanged' = somethingChanged
          /\ approximation' = approximation
      BY <1>1, <1>3, <2>2 DEF Judge, CoreTypes
    <3>2. ~(realizable <=> VerdictWithout(left \cup {candidate}))
      BY <1>1, <1>2, <1>5, <2>2 DEF CoreTypes
    <3>3. Explained(left, Visited(todo)) /\ removed' = left
      BY <1>2, <3>1, <3>2, Rejected
    <3>4. Remembered(left)'
      BY <1>2, <1>3, <1>4, <3>1, RememberedKept
    <3>5. Remembered(removed)'
      BY <3>3, <3>4 DEF Remembered, Approximates
    <3>. QED  BY <3>3, <3>5
  <2>. QED  BY <2>1, <2>2
<1>13. phase' = "minimise" => Explained(removed, Visited(todo))'
  BY <1>3, <1>4, <1>12, ExplainedKept DEF Visited
<1>14. PhaseInv'
  BY <1>1, <1>3, <1>4, <1>7, <1>8, <1>10, <1>11, <1>12, <1>13 DEF PhaseInv
<1>. QED  BY <1>7, <1>8, <1>9, <1>10, <1>14 DEF CoreInv

(* What is left is checked in one go.                                      *)
LEMMA RecomputeKeeps ==
    ASSUME CoreInv, Recompute
    PROVE  CoreInv'
<1>1. /\ phase = "minimise" /\ todo = << >> /\ w = "BOTH" /\ ~fun /\ somethingChanged
      /\ CoreInputs /\ CoreTypes /\ opt \in Quantifiers
      /\ realizable <=> VerdictWithout({})
      /\ playerToModify = Loser
      /\ Explained(removed, Visited(todo))
      /\ OverWithout({}, winningStates) /\ UnderWithout({}, winningStates)
  BY DEF CoreInv, RunInv, PhaseInv, Recompute, FirstPlayerMinimised, Remembered
<1>2. /\ UNCHANGED inputs /\ UNCHANGED progress /\ phase' = "second"
      /\ Launch(removed, "NONE", realizable, ~realizable, winningStates)
  BY DEF Recompute
<1>3. /\ removed' = removed /\ todo' = todo /\ candidate' = candidate
      /\ realizable' = realizable /\ playerToModify' = playerToModify
      /\ somethingChanged' = somethingChanged /\ fun' = fun /\ core' = core
      /\ w' = w /\ UNCHANGED opt
  BY <1>2 DEF progress, inputs, Launch
<1>4. Visited(todo) = {}
  BY <1>1 DEF Visited
<1>5. removed \subseteq Removable(Loser) /\ removed \ {} = removed /\ {} \subseteq removed
  BY <1>1 DEF Explained
<1>6. /\ ~realizable => UnderWithout(removed, winningStates)
      /\ realizable => OverWithout(removed, winningStates)
  BY <1>1, <1>5, UnderHandedOn, OverHandedOn DEF Loser
<1>7. /\ IInv' /\ WInv' /\ earlierTermination' = "NONE"
      /\ game' = GameWithout(removed) /\ spec' = SpecWithout(removed)
  <2>1. (~realizable) \in BOOLEAN /\ (realizable <=> ~(~realizable)) /\ realizable \in BOOLEAN
    BY <1>1 DEF CoreTypes
  <2>2. Launch(removed, "NONE", ~(~realizable), ~realizable, winningStates)
    BY <1>2, <2>1 DEF Launch
  <2>. QED  BY <1>1, <1>6, <2>1, <2>2, LaunchKeeps
<1>8. /\ CoreInputs' /\ own' = own /\ other' = other
      /\ \A D : GameWithout(D)' = GameWithout(D) /\ SpecWithout(D)' = SpecWithout(D)
      /\ \A D : VerdictWithout(D)' <=> VerdictWithout(D)
  BY <1>1, <1>2, <1>3, MeaningsKept
<1>9. RunInv'
  <2>1. /\ game' = GameWithout(removed)' /\ spec' = SpecWithout(removed)'
    BY <1>3, <1>7, <1>8
  <2>. QED  BY <1>1, <1>2, <1>3, <1>7, <2>1 DEF RunInv
<1>10. Explained(removed, {})'
  BY <1>1, <1>2, <1>3, <1>4, ExplainedKept
<1>11. (realizable <=> VerdictWithout({}))' /\ Loser' = Loser
  BY <1>1, <1>2, <1>3, <1>8, ExplainedKept
<1>12. PhaseInv'
  BY <1>1, <1>2, <1>3, <1>10, <1>11 DEF PhaseInv
<1>. QED  BY <1>1, <1>2, <1>3, <1>8, <1>9, <1>12 DEF CoreInv, CoreTypes, TodoInv

(* On to the other player, from the states that are won in what is left.   *)
LEMMA SwitchHolds ==
    ASSUME CoreInputs, CoreTypes, opt \in Quantifiers, RunInv, UNCHANGED vars, UNCHANGED inputs,
           removed' = removed, candidate' = candidate, realizable' = realizable,
           somethingChanged' = somethingChanged, core' = core,
           ~fun, w = "BOTH", realizable <=> VerdictWithout({}), playerToModify = Loser,
           somethingChanged \/ removed = {},
           NEW waiting, Explained(removed, waiting),
           NEW S, SwitchPlayer(S), OverWithout(removed, S), UnderWithout(removed, S)
    PROVE  CoreInv'
<1>1. S \subseteq States
  BY WithoutTyped, TypedInvar DEF OverWithout, SoundOver
<1>2. bdd_dup(S) = S
  BY <1>1 DEF bdd_dup
<1>3. /\ phase' = "minimise" /\ playerToModify' = Opponent(Loser)
      /\ winningStates' = S /\ approximation' = S
      /\ todo' = Work(playerToModify') /\ fun' = TRUE
  BY <1>2 DEF SwitchPlayer, Minimise
<1>4. UNCHANGED opt /\ earlierTermination' = earlierTermination /\ w' = w
  BY DEF vars, input, inputs
<1>5. /\ CoreInputs' /\ own' = own /\ other' = other
      /\ property' = property
      /\ \A D : VerdictWithout(D)' <=> VerdictWithout(D)
      /\ \A D : WonWithout(D)' = WonWithout(D)
      /\ \A D, T : OverWithout(D, T)' <=> OverWithout(D, T)
      /\ \A D, T : UnderWithout(D, T)' <=> UnderWithout(D, T)
      /\ \A plr : Removable(plr)' = Removable(plr)
      /\ \A plr : Work(plr)' = Work(plr)
  BY <1>4, MeaningsKept DEF inputs
<1>6. playerToModify' \in Players
  BY <1>3, InputsTyped DEF Loser, Opponent, Players
<1>7. /\ todo' \in Seq(Removable(playerToModify'))
      /\ InitsFirst(todo')
  BY <1>3, <1>6, WorkVisits
<1>8. RunInv'
  <2>1. IInv' /\ WInv'
    BY IInvStep, WInvStep DEF RunInv
  <2>. QED  BY <1>3, <1>4, <2>1 DEF RunInv
<1>9. TodoInv'
  BY <1>3, <1>5, <1>7 DEF TodoInv, InitsFirst
<1>10. Explained(removed, Visited(todo))' /\ Loser' = Loser
  <2>1. Loser' = Loser
    BY <1>5 DEF Loser
  <2>. QED  BY <1>3, <1>5, <2>1 DEF Explained
<1>11. Remembered(removed)'
  BY <1>3, <1>5 DEF Remembered, Approximates
<1>12. winningStates' = WonWithout(removed)'
  BY <1>3, <1>5, ExactWithout
<1>13. PhaseInv'
  BY <1>3, <1>4, <1>5, <1>10, <1>11, <1>12 DEF PhaseInv
<1>. QED  BY <1>3, <1>5, <1>8, <1>9, <1>13 DEF CoreInv, CoreTypes

LEMMA SwitchUnchangedKeeps ==
    ASSUME CoreInv, SwitchUnchanged
    PROVE  CoreInv'
<1>1. /\ CoreInputs /\ CoreTypes /\ opt \in Quantifiers /\ RunInv
      /\ ~fun /\ w = "BOTH" /\ (realizable <=> VerdictWithout({})) /\ playerToModify = Loser
      /\ removed = {} /\ Explained(removed, Visited(todo))
      /\ OverWithout({}, winningStates) /\ UnderWithout({}, winningStates)
  BY DEF CoreInv, RunInv, PhaseInv, SwitchUnchanged, FirstPlayerMinimised, Remembered
<1>2. /\ UNCHANGED vars /\ UNCHANGED inputs /\ removed' = removed /\ candidate' = candidate
      /\ realizable' = realizable /\ somethingChanged' = somethingChanged /\ core' = core
      /\ SwitchPlayer(winningStates)
  BY DEF SwitchUnchanged
<1>. QED  BY <1>1, <1>2, SwitchHolds

(* The assertion holds: what is left has the old verdict.                  *)
LEMMA SecondVerdictKeeps ==
    ASSUME CoreInv, SecondVerdict
    PROVE  CoreInv'
<1>1. /\ phase = "second" /\ pc = "done"
      /\ CoreInputs /\ CoreTypes /\ opt \in Quantifiers /\ RunInv
      /\ ~fun /\ w = "BOTH" /\ (realizable <=> VerdictWithout({})) /\ playerToModify = Loser
      /\ Explained(removed, {}) /\ somethingChanged
      /\ IInv /\ WInv /\ earlierTermination = "NONE"
      /\ game = GameWithout(removed) /\ spec = SpecWithout(removed)
  BY DEF CoreInv, RunInv, PhaseInv, SecondVerdict
<1>2. /\ Answer <=> VerdictWithout(removed)
      /\ OverWithout(removed, Z) /\ UnderWithout(removed, Z)
  BY <1>1, Finished
<1>3. Answer = realizable
  BY <1>1, <1>2 DEF Explained, Answer, CoreTypes
<1>4. /\ UNCHANGED vars /\ UNCHANGED inputs /\ removed' = removed /\ candidate' = candidate
      /\ realizable' = realizable /\ somethingChanged' = somethingChanged /\ core' = core
      /\ SwitchPlayer(Z)
  BY <1>3 DEF SecondVerdict
<1>. QED  BY <1>1, <1>2, <1>4, SwitchHolds

LEMMA ReportKeeps ==
    ASSUME CoreInv, Report
    PROVE  CoreInv'
<1>1. /\ phase = "minimise" /\ todo = << >>
      /\ CoreInputs /\ CoreTypes /\ opt \in Quantifiers /\ RunInv /\ IInv /\ WInv
      /\ realizable <=> VerdictWithout({})
      /\ playerToModify = IF fun THEN Opponent(Loser) ELSE Loser
      /\ fun => w = "BOTH"
      /\ Explained(removed, Visited(todo))
  BY DEF CoreInv, RunInv, PhaseInv, Report
<1>2. /\ UNCHANGED vars /\ UNCHANGED inputs /\ phase' = "done" /\ core' = removed
      /\ realizable' = realizable /\ playerToModify' = playerToModify
      /\ somethingChanged' = somethingChanged /\ fun' = fun
  BY DEF Report
<1>3. UNCHANGED opt /\ earlierTermination' = earlierTermination /\ w' = w
  BY <1>2 DEF vars, input, inputs
<1>4. /\ CoreInputs'
      /\ \A D : VerdictWithout(D)' <=> VerdictWithout(D)
      /\ \A plr : Removable(plr)' = Removable(plr)
  BY <1>1, <1>2, <1>3, MeaningsKept
<1>5. RunInv'
  <2>1. IInv' /\ WInv'
    BY <1>1, <1>2, IInvStep, WInvStep
  <2>. QED  BY <1>1, <1>2, <1>3, <2>1 DEF RunInv
<1>6. (realizable <=> VerdictWithout({}))' /\ Loser' = Loser
  BY <1>1, <1>2, <1>3, <1>4, ExplainedKept
<1>7. Explained(core, {})'
  <2>1. Explained(removed, {})
    BY <1>1 DEF Visited
  <2>. QED  BY <1>2, <1>4, <1>6, <2>1 DEF Explained, Needed
<1>8. PhaseInv'
  BY <1>1, <1>2, <1>3, <1>6, <1>7 DEF PhaseInv
<1>. QED  BY <1>1, <1>2, <1>4, <1>5, <1>8 DEF CoreInv, CoreTypes, TodoInv

LEMMA CoreInvStep ==
    ASSUME CoreInv, [CoreNext]_<<vars, coreVars>>
    PROVE  CoreInv'
<1>1. CASE CheckNext
  BY <1>1, AlgorithmKeeps DEF CheckNext
<1>2. CASE UNCHANGED <<vars, coreVars>>
  BY <1>2, AlgorithmKeeps
<1>. QED
  BY <1>1, <1>2, FirstVerdictKeeps, CheckInitKeeps, DisableKeeps, RecheckKeeps, RecomputeKeeps,
     SwitchUnchangedKeeps, SecondVerdictKeeps, ReportKeeps DEF CoreNext

LEMMA CoreInvAlways ==
    ASSUME \A p \in Problems : InvarsKept(p)
    PROVE  CoreSpec => []CoreInv
  BY CoreInvInit, CoreInvStep, PTL DEF CoreSpec

(* The assertion on the recomputed verdict never fails, and the game that  *)
(* is reported has the verdict of the one that was read, whatever was      *)
(* removed and whichever approximations the checks in between started from.*)
THEOREM CoreIsFaithful ==
    ASSUME \A p \in Problems : InvarsKept(p)
    PROVE  CoreSpec => []CoreKeepsVerdict
<1>1. CoreInv => CoreKeepsVerdict
  <2>. SUFFICES ASSUME CoreInv, phase = "done"
                PROVE  realizable = VerdictWithout({}) /\ realizable = VerdictWithout(core)
    BY DEF CoreKeepsVerdict, SameVerdictAgain, CoreInv, PhaseInv
  <2>1. /\ realizable \in BOOLEAN
        /\ realizable <=> VerdictWithout({})
        /\ realizable <=> VerdictWithout(core)
    BY DEF CoreInv, CoreTypes, PhaseInv, Explained
  <2>2. \A D : VerdictWithout(D) \in BOOLEAN
    BY DEF VerdictWithout
  <2>. QED  BY <2>1, <2>2
<1>. QED  BY <1>1, CoreInvAlways, PTL

(* Winning states kept from an earlier check are right for the game that   *)
(* the next one starts on.                                                 *)
THEOREM ReuseIsSound ==
    ASSUME \A p \in Problems : InvarsKept(p)
    PROVE  CoreSpec => []ApproximationHolds
<1>1. CoreInv => ApproximationHolds
  <2>. SUFFICES ASSUME CoreInv
                PROVE  /\ underapproxWinStates \subseteq WinRegion(game, spec)
                       /\ WinRegion(game, spec) \subseteq overapproxWinStates
    BY DEF ApproximationHolds
  <2>1. /\ game \in GameType /\ spec \in SpecType
        /\ SoundOver(game, spec, overapproxWinStates)
        /\ SoundUnder(game, spec, underapproxWinStates)
    BY DEF CoreInv, RunInv, IInv, InputsKept
  <2>. QED  BY <2>1, WinningIsWon DEF SoundOver, SoundUnder
<1>. QED  BY <1>1, CoreInvAlways, PTL

(* One pass is enough: when player 1 chooses first, no constraint of the   *)
(* loser that is left could be removed in addition.                        *)
THEOREM CoreCannotShrink ==
    ASSUME \A p \in Problems : InvarsKept(p)
    PROVE  CoreSpec => []CoreIsMinimal
<1>1. CoreInv => CoreIsMinimal
  <2>. SUFFICES ASSUME CoreInv, phase = "done", opt = "N", w = "LOSER",
                       NEW kind \in minimise, NEW k \in Positions(playerToModify, kind),
                       <<playerToModify, kind, k>> \notin core
                PROVE  VerdictWithout(core \cup {<<playerToModify, kind, k>>}) # realizable
    BY DEF CoreIsMinimal
  <2>. DEFINE id == <<playerToModify, kind, k>>
  <2>1. /\ CoreInputs /\ realizable \in BOOLEAN /\ ~fun /\ playerToModify = Loser
        /\ Explained(core, {})
    BY DEF CoreInv, CoreTypes, PhaseInv
  <2>2. id \in Removable(Loser)
    BY <2>1 DEF Removable
  <2>. HIDE DEF id
  <2>3. core \subseteq Removable(Loser)
    BY <2>1 DEF Explained
  <2>4. PICK D \in SUBSET core : ~(realizable <=> VerdictWithout(D \cup {id}))
    BY <2>1, <2>2 DEF Explained, Needed, id
  <2>5. /\ D \cup {id} \subseteq core \cup {id}
        /\ (core \cup {id}) \ (D \cup {id}) \subseteq Removable(Loser)
    BY <2>2, <2>3
  <2>6. ~(realizable <=> VerdictWithout(core \cup {id}))
    <3>1. CASE realizable
      BY <2>1, <2>4, <2>5, <3>1, VerdictOther DEF Loser
    <3>2. CASE ~realizable
      BY <2>1, <2>4, <2>5, <3>2, VerdictOwn DEF Loser
    <3>. QED  BY <3>1, <3>2
  <2>. QED  BY <2>6 DEF id
<1>. QED  BY <1>1, CoreInvAlways, PTL

=============================================================================
