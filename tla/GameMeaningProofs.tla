-------------------------- MODULE GameMeaningProofs -------------------------
(***************************************************************************)
(* The theory of one round and of the initial states: what the image       *)
(* operators of the game FSM compute, and the duality of the two players.  *)
(* Everything is about one game and holds for every size of the domains.   *)
(***************************************************************************)
EXTENDS GameMeaning, TLAPS

(* The parts of a game have the types its sections are checked for.        *)
LEMMA TypedParts ==
    ASSUME NEW g \in GameType
    PROVE  /\ g.init1 \subseteq P1
           /\ g.init2 \subseteq States
           /\ g.inv1 \subseteq P1
           /\ g.inv2 \subseteq States
           /\ g.trans1 \in [States -> SUBSET P1]
           /\ g.trans2 \in [States \X P1 -> SUBSET P2]
  BY DEF GameType

LEMMA TypedInvar ==
    ASSUME NEW g \in GameType
    PROVE  Invar(g) \subseteq States
  BY TypedParts DEF Invar

LEMMA GameParts ==
    ASSUME NEW g \in Games
    PROVE  /\ g.init1 \subseteq P1
           /\ g.init2 \subseteq States
           /\ g.inv1 \subseteq P1
           /\ g.inv2 \subseteq States
           /\ g.trans1 \in [States -> SUBSET P1]
           /\ g.trans2 \in [States \X P1 -> SUBSET P2]
  BY GamesAssumption, TypedParts

LEMMA InvarStates ==
    ASSUME NEW g \in Games
    PROVE  Invar(g) \subseteq States
  BY GamesAssumption, TypedInvar

(* The set operations of GameBddFsm_get_strong_backward_image, with their  *)
(* two tables of negations, compute what the player can force.             *)
THEOREM ImageIsForce ==
    ASSUME NEW g, NEW S, NEW plr \in Players
    PROVE  StrongBackwardImage(g, S, plr) = CanForce(g, S, plr)
<1>1. CASE plr = 1
  <2>1. ASSUME NEW s, NEW q1
        PROVE  ~Answerable(g, S, s, q1, plr # 1)
                   <=> \A q2 \in Moves2(g, s, q1) : <<q1, q2>> \in S
    BY <1>1 DEF Answerable
  <2>. QED  BY <1>1, <2>1 DEF StrongBackwardImage, CanForce
<1>2. CASE plr = 2
  <2>1. ASSUME NEW s, NEW q1
        PROVE  ~Answerable(g, S, s, q1, plr # 1)
                   <=> ~(\E q2 \in Moves2(g, s, q1) : <<q1, q2>> \in S)
    BY <1>2 DEF Answerable
  <2>. QED  BY <1>2, <2>1 DEF StrongBackwardImage, CanForce
<1>. QED  BY <1>1, <1>2 DEF Players

LEMMA ForceInvar ==
    ASSUME NEW g, NEW S, NEW plr
    PROVE  CanForce(g, S, plr) \subseteq Invar(g)
  BY DEF CanForce

(* A larger set is not harder to force.                                    *)
LEMMA ForceMonotone ==
    ASSUME NEW g, NEW S, NEW T, S \subseteq T, NEW plr
    PROVE  CanForce(g, S, plr) \subseteq CanForce(g, T, plr)
  BY DEF CanForce

(* A round from a legal state leads to a legal state.                      *)
LEMMA RoundInvar ==
    ASSUME NEW g, NEW s \in Invar(g),
           NEW q1 \in Moves1(g, s), NEW q2 \in Moves2(g, s, q1)
    PROVE  <<q1, q2>> \in Invar(g)
  BY DEF Moves1, Moves2, Invar

(* One player forces a set exactly when the other cannot force the rest.   *)
THEOREM ForceDuality ==
    ASSUME NEW g, NEW S, NEW plr \in Players
    PROVE  CanForce(g, S, plr)
               = Invar(g) \ CanForce(g, Invar(g) \ S, Opponent(plr))
<1>. DEFINE Some(T) == {s \in Invar(g) : \E q1 \in Moves1(g, s) :
                            \A q2 \in Moves2(g, s, q1) : <<q1, q2>> \in T}
            Every(T) == {s \in Invar(g) : \A q1 \in Moves1(g, s) :
                            \E q2 \in Moves2(g, s, q1) : <<q1, q2>> \in T}
<1>0. \A s \in Invar(g) : \A q1 \in Moves1(g, s) : \A q2 \in Moves2(g, s, q1) :
          <<q1, q2>> \in Invar(g)
  BY RoundInvar
<1>1. \A T : CanForce(g, T, 1) = Some(T) /\ CanForce(g, T, 2) = Every(T)
  BY DEF CanForce
<1>2. CASE plr = 1
  <2>1. Some(S) = Invar(g) \ Every(Invar(g) \ S)
    BY <1>0
  <2>. QED  BY <1>1, <1>2, <2>1 DEF Opponent
<1>3. CASE plr = 2
  <2>1. Every(S) = Invar(g) \ Some(Invar(g) \ S)
    BY <1>0
  <2>. QED  BY <1>1, <1>3, <2>1 DEF Opponent
<1>. QED  BY <1>2, <1>3 DEF Players

-----------------------------------------------------------------------------
(* The choice of the initial state.                                        *)

(* The table of negations of GameBddFsm_can_player_satisfy computes the    *)
(* quantifiers the option stands for.                                      *)
THEOREM SatisfyIsStart ==
    ASSUME NEW g, NEW W, NEW plr \in Players, NEW q \in Quantifiers
    PROVE  CanPlayerSatisfy(Init1(g), Init2(g), W, plr, q)
               <=> StartsIn(g, W, plr, q)
<1>. USE DEF CanPlayerSatisfy, StartsIn, GoalNegated, P1Negated, P2Negated
<1>1. CASE q = "A"
  BY <1>1
<1>2. CASE q = "E"
  BY <1>2
<1>3. CASE q = "N" /\ plr = 1
  BY <1>3
<1>4. CASE q = "N" /\ plr # 1
  BY <1>4
<1>. QED  BY <1>1, <1>2, <1>3, <1>4 DEF Quantifiers

LEMMA StartMonotone ==
    ASSUME NEW g, NEW W, NEW V, W \subseteq V, NEW plr, NEW q \in Quantifiers,
           StartsIn(g, W, plr, q)
    PROVE  StartsIn(g, V, plr, q)
<1>1. CASE q = "A"
  BY <1>1 DEF StartsIn
<1>2. CASE q = "E"
  BY <1>2 DEF StartsIn
<1>3. CASE q = "N" /\ plr = 1
  BY <1>3 DEF StartsIn
<1>4. CASE q = "N" /\ plr # 1
  BY <1>4 DEF StartsIn
<1>. QED  BY <1>1, <1>2, <1>3, <1>4 DEF Quantifiers

(* With an empty set of initial states the states that are won do not      *)
(* matter, which is why the loop may be skipped.                           *)
LEMMA StartEmpty ==
    ASSUME NEW g, NEW W, NEW V, NEW plr, NEW q \in Quantifiers,
           Init1(g) = {} \/ Init2(g) = {}
    PROVE  StartsIn(g, W, plr, q) <=> StartsIn(g, V, plr, q)
<1>1. CASE q = "A"
  BY <1>1 DEF StartsIn
<1>2. CASE q = "E"
  BY <1>2 DEF StartsIn
<1>3. CASE q = "N" /\ plr = 1
  BY <1>3 DEF StartsIn
<1>4. CASE q = "N" /\ plr # 1
  BY <1>4 DEF StartsIn
<1>. QED  BY <1>1, <1>2, <1>3, <1>4 DEF Quantifiers

LEMMA InitInvar ==
    ASSUME NEW g, NEW p1 \in Init1(g), NEW p2, <<p1, p2>> \in Init2(g)
    PROVE  <<p1, p2>> \in Invar(g)
  BY DEF Init1, Init2, Invar

(* The player gets the game to start in W exactly when the opponent, with  *)
(* the option read from its side, cannot get it to start in the rest.      *)
THEOREM StartDuality ==
    ASSUME NEW g, NEW W, NEW plr \in Players
    PROVE  /\ StartsIn(g, W, plr, "N")
                  <=> ~StartsIn(g, Invar(g) \ W, Opponent(plr), "N")
           /\ StartsIn(g, W, plr, "A")
                  <=> ~StartsIn(g, Invar(g) \ W, Opponent(plr), "E")
           /\ StartsIn(g, W, plr, "E")
                  <=> ~StartsIn(g, Invar(g) \ W, Opponent(plr), "A")
<1>0. \A p1 \in Init1(g), p2 \in P2 :
          <<p1, p2>> \in Init2(g) => <<p1, p2>> \in Invar(g)
  BY InitInvar
<1>1. StartsIn(g, W, plr, "N") <=> ~StartsIn(g, Invar(g) \ W, Opponent(plr), "N")
  <2>. DEFINE Some(T) == \E p1 \in Init1(g) : \A p2 \in P2 :
                              <<p1, p2>> \in Init2(g) => <<p1, p2>> \in T
              Every(T) == \A p1 \in Init1(g) : \E p2 \in P2 :
                              <<p1, p2>> \in Init2(g) \cap T
  <2>1. \A T : StartsIn(g, T, 1, "N") <=> Some(T)
    BY DEF StartsIn
  <2>2. \A T : StartsIn(g, T, 2, "N") <=> Every(T)
    BY DEF StartsIn
  <2>3. Some(W) <=> ~Every(Invar(g) \ W)
    BY <1>0
  <2>4. Every(W) <=> ~Some(Invar(g) \ W)
    BY <1>0
  <2>5. CASE plr = 1
    BY <2>1, <2>2, <2>3, <2>5 DEF Opponent
  <2>6. CASE plr = 2
    BY <2>1, <2>2, <2>4, <2>6 DEF Opponent
  <2>. QED  BY <2>5, <2>6 DEF Players
<1>2. StartsIn(g, W, plr, "A") <=> ~StartsIn(g, Invar(g) \ W, Opponent(plr), "E")
  BY <1>0 DEF StartsIn
<1>3. StartsIn(g, W, plr, "E") <=> ~StartsIn(g, Invar(g) \ W, Opponent(plr), "A")
  BY <1>0 DEF StartsIn
<1>. QED  BY <1>1, <1>2, <1>3
=============================================================================
