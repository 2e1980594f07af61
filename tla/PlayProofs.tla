----------------------------- MODULE PlayProofs -----------------------------
(***************************************************************************)
(* Theorems about the construction of a strategy and the plays in which it *)
(* is followed, for every algorithm that hands over winning states and     *)
(* moves as good as ArgsGood and MovesGood say: the play stays where the   *)
(* owner of the strategy wins, and the construction, which cuts the moves  *)
(* down to the states it computes as reachable, never cuts one needed.     *)
(***************************************************************************)
EXTENDS Play, GameMeaningProofs

winning == args.winningStates

(* The sets handed over, and who gets the game to start among them.        *)
ArgsGood ==
    /\ game \in Games
    /\ opt \in Quantifiers
    /\ owner \in Players
    /\ args.reverse \in BOOLEAN
    /\ args.goal \subseteq winning \cap target
    /\ winning \cap target \subseteq args.goal
    /\ winning \cap target # {} => finisher = owner
    /\ StartsIn(game, winning, owner, Role)

(* The moves handed over: the owner has one where it needs one, with every *)
(* value of jx, or can leave player 2 without one, which the construction  *)
(* adds; and none of the moves leads out of the winning states.            *)
MovesGood1 ==
    \A s \in (winning \cap Invar(game)) \ target :
        /\ \A j \in modes : \E q1 \in Moves1(game, s), k \in modes :
              <<s, q1>> \in (args.trans \cap links[<<j, k>>]) \cup WithoutSuccessor2(game)
        /\ \A q1 \in Moves1(game, s) : <<s, q1>> \in args.trans =>
              \A q2 \in Moves2(game, s, q1) : <<q1, q2>> \in winning

MovesGood2 ==
    /\ \A s \in (winning \cap Invar(game)) \ target : \A q1 \in Moves1(game, s) :
          \A j \in modes : \E q2 \in Moves2(game, s, q1), k \in modes :
              <<s, <<q1, q2>>>> \in args.trans \cap links[<<j, k>>]
    /\ \A m \in args.trans : m[2] \in winning

MovesGood ==
    Inits # {} => IF owner = 1 THEN MovesGood1 ELSE MovesGood2

(* Algorithms hand over moves into sets of winning states that the owner   *)
(* can force the game into, tied to the values of jx.                      *)
MovesForced ==
    /\ \A s \in (winning \cap Invar(game)) \ target, j \in modes :
          \E k \in modes, V \in SUBSET winning :
              /\ s \in CanForce(game, V, owner)
              /\ \A m \in GetMove(game, V, owner) :
                    m[1] = s => m \in args.trans \cap links[<<j, k>>]
    /\ \A m \in args.trans : \E V \in SUBSET winning : m \in GetMove(game, V, owner)

LEMMA ForcedIsGood ==
    ASSUME game \in Games, owner \in Players, MovesForced
    PROVE  MovesGood
<1>1. CASE owner = 1
  <2>1. ASSUME NEW V, NEW s \in Invar(game), NEW q1
        PROVE  <<s, q1>> \in GetMove(game, V, 1) <=>
                   /\ q1 \in Moves1(game, s) /\ <<s, q1>> \notin WithoutSuccessor2(game)
                   /\ \A q2 \in Moves2(game, s, q1) : <<q1, q2>> \in V
    <3>1. <<s, q1>> \in HalfRounds(game) <=> q1 \in Moves1(game, s)
      BY GameParts DEF HalfRounds, Moves1
    <3>2. <<s, q1>> \in WithSuccessor2(game) <=>
              q1 \in Moves1(game, s) /\ <<s, q1>> \notin WithoutSuccessor2(game)
      BY <3>1 DEF WithoutSuccessor2, WithSuccessor2
    <3>. QED  BY <3>2 DEF GetMove, Move1, Answerable
  <2>. SUFFICES ASSUME NEW s \in (winning \cap Invar(game)) \ target
                PROVE  /\ \A j \in modes : \E q1 \in Moves1(game, s), k \in modes :
                             <<s, q1>> \in (args.trans \cap links[<<j, k>>])
                                               \cup WithoutSuccessor2(game)
                       /\ \A q1 \in Moves1(game, s) : <<s, q1>> \in args.trans =>
                             \A q2 \in Moves2(game, s, q1) : <<q1, q2>> \in winning
    BY <1>1 DEF MovesGood, MovesGood1
  <2>2. ASSUME NEW j \in modes
        PROVE  \E q1 \in Moves1(game, s), k \in modes :
                   <<s, q1>> \in (args.trans \cap links[<<j, k>>]) \cup WithoutSuccessor2(game)
    <3>1. PICK k \in modes, V \in SUBSET winning :
              /\ s \in CanForce(game, V, 1)
              /\ \A m \in GetMove(game, V, 1) :
                    m[1] = s => m \in args.trans \cap links[<<j, k>>]
      BY <1>1 DEF MovesForced
    <3>2. PICK q1 \in Moves1(game, s) : \A q2 \in Moves2(game, s, q1) : <<q1, q2>> \in V
      BY <3>1 DEF CanForce
    <3>3. CASE <<s, q1>> \in WithoutSuccessor2(game)
      BY <3>3
    <3>4. CASE <<s, q1>> \notin WithoutSuccessor2(game)
      <4>1. <<s, q1>> \in GetMove(game, V, 1)
        BY <2>1, <3>2, <3>4
      <4>. QED  BY <3>1, <4>1
    <3>. QED  BY <3>3, <3>4
  <2>3. ASSUME NEW q1 \in Moves1(game, s), <<s, q1>> \in args.trans,
               NEW q2 \in Moves2(game, s, q1)
        PROVE  <<q1, q2>> \in winning
    <3>1. PICK V \in SUBSET winning : <<s, q1>> \in GetMove(game, V, 1)
      BY <1>1, <2>3 DEF MovesForced
    <3>2. <<q1, q2>> \in V
      BY <2>1, <2>3, <3>1
    <3>. QED  BY <3>2
  <2>. QED  BY <2>2, <2>3
<1>2. CASE owner = 2
  <2>1. ASSUME NEW s \in (winning \cap Invar(game)) \ target, NEW q1 \in Moves1(game, s),
               NEW j \in modes
        PROVE  \E q2 \in Moves2(game, s, q1), k \in modes :
                   <<s, <<q1, q2>>>> \in args.trans \cap links[<<j, k>>]
    <3>1. PICK k \in modes, V \in SUBSET winning :
              /\ s \in CanForce(game, V, 2)
              /\ \A m \in GetMove(game, V, 2) :
                    m[1] = s => m \in args.trans \cap links[<<j, k>>]
      BY <1>2 DEF MovesForced
    <3>2. PICK q2 \in Moves2(game, s, q1) : <<q1, q2>> \in V
      BY <3>1 DEF CanForce
    <3>3. <<s, <<q1, q2>>>> \in GetMove(game, V, 2)
      BY <3>2, RoundInvar DEF GetMove, Move2, Moves1, Moves2
    <3>. QED  BY <3>1, <3>3
  <2>2. ASSUME NEW m \in args.trans
        PROVE  m[2] \in winning
    <3>1. PICK V \in SUBSET winning : m \in GetMove(game, V, 2)
      BY <1>2, <2>2 DEF MovesForced
    <3>. QED  BY <3>1 DEF GetMove, Move2
  <2>3. MovesGood2
    BY <2>1, <2>2, Zenon DEF MovesGood2
  <2>. QED  BY <1>2, <2>3 DEF MovesGood
<1>. QED  BY <1>1, <1>2 DEF Players

-----------------------------------------------------------------------------
(* What the construction and the play keep true.                           *)

(* Where a play may be: at its end, where the strategy has been computed,  *)
(* or, for player 2, where player 1 is stuck.                              *)
Home(s) ==
    /\ s \in winning \cap Invar(game)
    /\ \/ s \in target \cup reachable
       \/ owner = 2 /\ s \in WithoutSuccessor1(game)

StartAllowed(s) ==
    /\ Role = "E" => s \in InitSection
    /\ Role = "N" => MayStart1(s[1]) /\ MayStart2(s[1], s[2])

StartInv ==
    stage \in {"grow", "built"} =>
        /\ DOMAIN built = {"init_goal", "init_opponent_deadlock", "init_moves",
                           "goal", "opponent_deadlock", "moves"}
        /\ \A s \in Inits : StartAllowed(s) => Home(s)
        /\ Role = "E" => Inits \cap InitSection # {}
        /\ Role = "N" /\ owner = 1 => \E p1 \in Init1(game) : MayStart1(p1)
        /\ Role = "N" /\ owner = 2 =>
              \A p1 \in Init1(game) : \E p2 \in Completions(p1) : MayStart2(p1, p2)

(* The states computed are closed, and the parts hold every move in them.  *)
BuiltInv ==
    stage = "built" =>
        /\ Successors \subseteq reachable
        /\ owner = 1 => \A s \in (States \cap reachable) \ args.goal, q1 \in P1 :
              /\ <<s, q1>> \notin built.goal
              /\ <<s, q1>> \in built.opponent_deadlock <=>
                    <<s, q1>> \in WithoutSuccessor2(game)
              /\ <<s, q1>> \in built.moves <=>
                    <<s, q1>> \in args.trans \ WithoutSuccessor2(game)
        /\ owner = 2 => TransSection = {m \in args.trans : m[1] \in reachable}

PlayInv ==
    /\ turn \in {"start1", "start2", "one", "two", "over"}
    /\ stage # "built" => turn = "start1"
    /\ winner = IF turn = "over" THEN owner ELSE 0
    /\ turn = "start2" =>
          /\ Role = "N"
          /\ \E p1 \in Init1(game) : half = <<p1>> /\ MayStart1(p1)
    /\ turn \in {"one", "two"} =>
          /\ Inits # {}
          /\ jx \in modes
          /\ Home(pos)
          /\ pos \notin target
    /\ turn = "two" =>
          /\ pos \in reachable
          /\ \E q1 \in Moves1(game, pos) :
                /\ half = <<q1>>
                /\ owner = 1 => \A q2 \in Moves2(game, pos, q1) : <<q1, q2>> \in winning

-----------------------------------------------------------------------------
(* The construction.                                                       *)

(* What the caller of the construction owns and the play only looks at.    *)
callers == <<game, opt, args, target, finisher, modes, links>>

LEMMA InitsParts ==
    ASSUME game \in Games
    PROVE  /\ \A s \in Inits : /\ s \in Invar(game) /\ s \in Init2(game)
                                /\ s[1] \in Init1(game) /\ s[2] \in P2
                                /\ s = <<s[1], s[2]>> /\ s[2] \in Completions(s[1])
           /\ \A p1 \in Init1(game), p2 \in P2 :
                 <<p1, p2>> \in Init2(game) => <<p1, p2>> \in Inits
  BY GameParts DEF Inits, Invar, Init1, Init2, States, Completions

(* When the opponent chooses the initial state, all of them are winning.   *)
LEMMA ConstructUniversalSafe ==
    ASSUME ArgsGood, ConstructUniversal, stage' = "grow", UNCHANGED callers
    PROVE  StartInv'
<1>1. /\ Role = "A" /\ Role' = "A"
      /\ built' = InitParts(Inits \cap args.goal, DeadInits, {})
      /\ reachable' = (Inits \ args.goal) \ DeadInits
  BY DEF ConstructUniversal, Role, callers
<1>2. ASSUME NEW s \in Inits
      PROVE  Home(s)'
  <2>1. s \in winning /\ s \in Invar(game)
    BY <1>1, InitsParts DEF ArgsGood, StartsIn
  <2>2. s \in target \cup reachable' \/ (owner = 2 /\ s \in WithoutSuccessor1(game))
    <3>1. args.player = 1 => DeadInits = {}
      BY DEF DeadInits
    <3>2. DeadInits \subseteq WithoutSuccessor1(game)
      BY DEF DeadInits
    <3>. QED  BY <1>1, <3>1, <3>2 DEF ArgsGood, owner, Players
  <2>. QED  BY <2>1, <2>2 DEF Home, callers, owner, winning
<1>3. DOMAIN built' = {"init_goal", "init_opponent_deadlock", "init_moves",
                       "goal", "opponent_deadlock", "moves"}
  BY <1>1 DEF InitParts, NothingBuilt
<1>4. Inits' = Inits
  BY DEF Inits, callers
<1>. QED  BY <1>1, <1>2, <1>3, <1>4 DEF StartInv

(* When the owner chooses it, a winning one is kept if there is one.       *)
LEMMA ConstructExistentialSafe ==
    ASSUME ArgsGood, ConstructExistential, stage' = "grow", UNCHANGED callers
    PROVE  StartInv'
<1>. DEFINE S == IF DeadInits # {} THEN {} ELSE WinningInits
<1>1. Role = "E" /\ Role' = "E" /\ Inits' = Inits
  BY DEF ConstructExistential, Role, Inits, callers
<1>2. PICK c \in OneCube(S) : /\ built' = InitParts(Inits \cap args.goal, DeadInits, c)
                              /\ reachable' = c
  BY DEF ConstructExistential
<1>3. c \subseteq S /\ (S # {} => c # {})
  BY <1>2 DEF OneCube
<1>4. InitSection' = (Inits \cap args.goal) \cup DeadInits \cup c
  BY <1>2 DEF InitSection, InitParts, NothingBuilt
<1>5. /\ c \subseteq WinningInits
      /\ WinningInits = (Inits \cap winning) \ args.goal
      /\ args.goal \subseteq winning \cap target
      /\ DeadInits \subseteq Inits \cap WithoutSuccessor1(game) \cap winning
      /\ owner = 1 => DeadInits = {}
      /\ owner \in {1, 2}
  BY <1>3 DEF WinningInits, winning, ArgsGood, DeadInits, owner, Players
<1>6. ASSUME NEW s \in Inits, s \in InitSection'
      PROVE  Home(s)'
  <2>1. s \in winning /\ s \in Invar(game)
    BY <1>4, <1>5, <1>6, InitsParts DEF ArgsGood
  <2>2. s \in target \cup reachable' \/ (owner = 2 /\ s \in WithoutSuccessor1(game))
    BY <1>2, <1>4, <1>5, <1>6
  <2>. QED  BY <2>1, <2>2 DEF Home, callers, owner, winning
<1>7. Inits \cap InitSection' # {}
  <2>1. PICK s \in Inits : s \in winning
    BY <1>1, InitsParts DEF ArgsGood, StartsIn
  <2>2. CASE s \in args.goal
    BY <1>4, <2>1, <2>2
  <2>3. CASE s \notin args.goal /\ DeadInits # {}
    BY <1>4, <1>5, <2>3
  <2>4. CASE s \notin args.goal /\ DeadInits = {}
    <3>1. S # {} /\ S \subseteq Inits
      BY <1>5, <2>1, <2>4
    <3>. QED  BY <1>3, <1>4, <3>1
  <2>. QED  BY <2>2, <2>3, <2>4
<1>8. DOMAIN built' = {"init_goal", "init_opponent_deadlock", "init_moves",
                       "goal", "opponent_deadlock", "moves"}
  BY <1>2 DEF InitParts, NothingBuilt
<1>. QED  BY <1>1, <1>6, <1>7, <1>8 DEF StartInv, StartAllowed

(* Player 1, choosing first, chooses what player 2 cannot complete, or can *)
(* complete with winning states only.                                      *)
LEMMA ConstructNormal1Safe ==
    ASSUME ArgsGood, ConstructNormal1, stage' = "grow", UNCHANGED callers
    PROVE  StartInv'
<1>1. Role = "N" /\ Role' = "N" /\ owner = 1 /\ owner' = 1
  BY DEF ConstructNormal1, Role, owner, callers
<1>2. PICK c : /\ c \subseteq WinningInits1 /\ (WinningInits1 # {} => c # {})
               /\ built' = InitParts({}, StuckInits1 \X P2, c \X P2)
               /\ reachable' = Inits \cap (c \X P2)
  BY DEF ConstructNormal1
<1>3. InitSection' = (StuckInits1 \X P2) \cup (c \X P2)
  BY <1>2 DEF InitSection, InitParts, NothingBuilt
<1>4. \A p1 : MayStart1(p1)' <=> p1 \in StuckInits1 \cup c
  BY <1>1, <1>3, ValuationsAssumption DEF MayStart1
<1>5. Inits' = Inits /\ Init1(game)' = Init1(game) /\ winning' = winning
  BY DEF Inits, callers, winning
<1>6. ASSUME NEW s \in Inits, MayStart1(s[1])'
      PROVE  Home(s)'
  <2>1. s[1] \in c
    BY <1>4, <1>6, InitsParts DEF StuckInits1, ArgsGood
  <2>2. s \in winning /\ s \in Invar(game)
    BY <1>2, <2>1, InitsParts DEF WinningInits1, ArgsGood, winning
  <2>3. s \in c \X P2
    <3>1. s = <<s[1], s[2]>> /\ s[2] \in P2
      BY InitsParts DEF ArgsGood
    <3>. QED  BY <2>1, <3>1
  <2>4. s \in reachable'
    BY <1>2, <2>3
  <2>. QED  BY <1>5, <2>2, <2>4 DEF Home, callers
<1>7. \E p1 \in Init1(game) : MayStart1(p1)'
  <2>1. PICK p1 \in Init1(game) : \A p2 \in P2 :
            <<p1, p2>> \in Init2(game) => <<p1, p2>> \in winning
    BY <1>1 DEF ArgsGood, StartsIn
  <2>2. CASE p1 \in StuckInits1
    BY <1>4, <2>2
  <2>3. CASE p1 \notin StuckInits1
    <3>1. p1 \in WinningInits1
      BY <2>1, <2>3 DEF WinningInits1, Completions, winning
    <3>. QED  BY <1>2, <1>4, <3>1 DEF WinningInits1
  <2>. QED  BY <2>2, <2>3
<1>8. DOMAIN built' = {"init_goal", "init_opponent_deadlock", "init_moves",
                       "goal", "opponent_deadlock", "moves"}
  BY <1>2 DEF InitParts, NothingBuilt
<1>. QED  BY <1>1, <1>5, <1>6, <1>7, <1>8 DEF StartInv, StartAllowed

(* Player 2, choosing second, has a winning answer to every choice.        *)
LEMMA ConstructNormal2Safe ==
    ASSUME ArgsGood, ConstructNormal2, stage' = "grow", UNCHANGED callers
    PROVE  StartInv'
<1>. DEFINE moves == WinningInits \ WithoutSuccessor1(game)
<1>1. Role = "N" /\ Role' = "N" /\ owner = 2 /\ owner' = 2
  BY DEF ConstructNormal2, Role, owner, callers
<1>2. /\ built' = InitParts(Inits \cap args.goal, DeadInits \ args.goal, moves)
      /\ reachable' = moves
  BY DEF ConstructNormal2
<1>3. InitSection' = (Inits \cap args.goal) \cup (DeadInits \ args.goal) \cup moves
  <2>. HIDE DEF moves
  <2>. QED  BY <1>2 DEF InitSection, InitParts, NothingBuilt
<1>4. /\ moves = ((Inits \cap winning) \ args.goal) \ WithoutSuccessor1(game)
      /\ args.goal \subseteq winning \cap target
      /\ DeadInits = Inits \cap WithoutSuccessor1(game) \cap winning
  BY <1>1 DEF WinningInits, winning, ArgsGood, DeadInits, owner
<1>5. InitSection' = Inits \cap winning
  BY <1>3, <1>4
<1>6. Inits' = Inits /\ Init1(game)' = Init1(game) /\ winning' = winning
      /\ \A p1 : Completions(p1)' = Completions(p1)
  BY DEF Inits, callers, winning, Completions
<1>7. \A p1, p2 : MayStart2(p1, p2)' <=> <<p1, p2>> \in InitSection'
  BY <1>1 DEF MayStart2
<1>8. ASSUME NEW s \in Inits, MayStart2(s[1], s[2])'
      PROVE  Home(s)'
  <2>1. s \in winning /\ s \in Invar(game)
    BY <1>5, <1>7, <1>8, InitsParts DEF ArgsGood
  <2>2. s \in target \cup reachable' \/ s \in WithoutSuccessor1(game)
    BY <1>2, <1>4, <2>1
  <2>. QED  BY <1>1, <1>6, <2>1, <2>2 DEF Home, callers
<1>9. ASSUME NEW p1 \in Init1(game)
      PROVE  \E p2 \in Completions(p1) : MayStart2(p1, p2)'
  <2>1. PICK p2 \in P2 : <<p1, p2>> \in Init2(game) \cap winning
    BY <1>1 DEF ArgsGood, StartsIn
  <2>2. <<p1, p2>> \in Inits
    BY <2>1, InitsParts DEF ArgsGood
  <2>. QED  BY <1>5, <1>7, <2>1, <2>2 DEF Completions
<1>10. DOMAIN built' = {"init_goal", "init_opponent_deadlock", "init_moves",
                       "goal", "opponent_deadlock", "moves"}
  BY <1>2 DEF InitParts, NothingBuilt
<1>. QED  BY <1>1, <1>6, <1>8, <1>9, <1>10 DEF StartInv, StartAllowed

(* The reachable states only grow while the rest stays, and closing them   *)
(* is what ends their computation.                                         *)
LEMMA GrowSafe ==
    ASSUME StartInv, Grow, UNCHANGED callers
    PROVE  StartInv' /\ BuiltInv'
<1>1. /\ stage = "grow" /\ stage' = "grow" /\ built' = built
      /\ reachable \subseteq reachable'
  BY DEF Grow
<1>2. /\ InitSection' = InitSection /\ Inits' = Inits /\ Role' = Role /\ owner' = owner
      /\ Init1(game)' = Init1(game)
      /\ \A p1 : Completions(p1)' = Completions(p1)
  BY <1>1 DEF InitSection, Inits, Role, owner, callers, Completions
<1>3. /\ \A p1 : MayStart1(p1)' = MayStart1(p1)
      /\ \A p1, p2 : MayStart2(p1, p2)' = MayStart2(p1, p2)
  BY <1>2 DEF MayStart1, MayStart2
<1>4. \A s : StartAllowed(s)' = StartAllowed(s)
  BY <1>2, <1>3 DEF StartAllowed
<1>5. \A s : Home(s) => Home(s)'
  BY <1>1 DEF Home, callers, winning, owner
<1>. QED  BY <1>1, <1>2, <1>3, <1>4, <1>5 DEF StartInv, BuiltInv

LEMMA FinishSafe ==
    ASSUME ArgsGood, StartInv, Finish, UNCHANGED callers
    PROVE  StartInv' /\ BuiltInv'
<1>1. /\ stage = "grow" /\ stage' = "built" /\ reachable' = reachable
      /\ Successors \subseteq reachable
      /\ built' = IF owner = 1 THEN Parts1 ELSE Parts2
      /\ owner \in {1, 2}
  BY DEF Finish, ArgsGood, Players, owner
<1>2. DOMAIN built = {"init_goal", "init_opponent_deadlock", "init_moves",
                      "goal", "opponent_deadlock", "moves"}
  BY <1>1 DEF StartInv
<1>3. /\ DOMAIN built' = DOMAIN built
      /\ built'.init_goal = built.init_goal
      /\ built'.init_opponent_deadlock = built.init_opponent_deadlock
      /\ built'.init_moves = built.init_moves
  BY <1>1, <1>2 DEF Parts1, Parts2
<1>4. StartInv'
  <2>1. /\ InitSection' = InitSection /\ Inits' = Inits /\ Role' = Role /\ owner' = owner
        /\ Init1(game)' = Init1(game)
        /\ \A p1 : Completions(p1)' = Completions(p1)
    BY <1>3 DEF InitSection, Inits, Role, owner, callers, Completions
  <2>2. /\ \A p1 : MayStart1(p1)' = MayStart1(p1)
        /\ \A p1, p2 : MayStart2(p1, p2)' = MayStart2(p1, p2)
    BY <2>1 DEF MayStart1, MayStart2
  <2>3. \A s : StartAllowed(s)' = StartAllowed(s)
    BY <2>1, <2>2 DEF StartAllowed
  <2>4. \A s : Home(s)' = Home(s)
    BY <1>1 DEF Home, callers, winning, owner
  <2>. QED  BY <1>1, <1>2, <1>3, <2>1, <2>2, <2>3, <2>4 DEF StartInv
<1>5. CASE owner = 1
  <2>. DEFINE open == {m \in States \X P1 : m[1] \in reachable \ args.goal}
              dead == WithoutSuccessor2(game)
  <2>1. /\ built'.goal = (args.goal \cap reachable) \X P1
        /\ built'.opponent_deadlock = dead \cap open
        /\ built'.moves = (args.trans \ dead) \cap open
    BY <1>1, <1>2, <1>5 DEF Parts1
  <2>2. ASSUME NEW s \in (States \cap reachable) \ args.goal, NEW q1 \in P1
        PROVE  /\ <<s, q1>> \notin built'.goal
               /\ <<s, q1>> \in built'.opponent_deadlock <=> <<s, q1>> \in dead
               /\ <<s, q1>> \in built'.moves <=> <<s, q1>> \in args.trans \ dead
    <3>1. <<s, q1>> \in open
      BY <2>2
    <3>2. <<s, q1>> \notin (args.goal \cap reachable) \X P1
      BY <2>2
    <3>. HIDE DEF open, dead
    <3>. QED  BY <2>1, <3>1, <3>2
  <2>3. owner' = 1 /\ Successors' = Successors
    BY <1>1, <1>5 DEF owner, callers, Successors, WeakForwardImage
  <2>. QED  BY <1>1, <1>4, <2>2, <2>3 DEF BuiltInv, callers
<1>6. CASE owner = 2
  <2>1. TransSection' = {m \in args.trans : m[1] \in reachable}
    BY <1>1, <1>2, <1>6 DEF Parts2, TransSection
  <2>2. owner' = 2 /\ Successors' = Successors
    BY <1>1, <1>6 DEF owner, callers, Successors, WeakForwardImage
  <2>. QED  BY <1>1, <1>4, <2>1, <2>2 DEF BuiltInv, callers
<1>. QED  BY <1>1, <1>5, <1>6

(* The hypotheses are about what the caller owns.                          *)
LEMMA CallersKeep ==
    ASSUME UNCHANGED callers
    PROVE  ArgsGood' = ArgsGood /\ MovesGood' = MovesGood
<1>1. /\ Role' = Role /\ owner' = owner /\ winning' = winning /\ Inits' = Inits
      /\ game' = game /\ target' = target /\ args' = args /\ modes' = modes /\ links' = links
  BY DEF Role, owner, winning, Inits, callers
<1>2. ArgsGood' = ArgsGood
  BY <1>1 DEF ArgsGood, callers
<1>3. MovesGood1' = MovesGood1 /\ MovesGood2' = MovesGood2
  BY <1>1 DEF MovesGood1, MovesGood2
<1>. QED  BY <1>1, <1>2, <1>3 DEF MovesGood

(* Constructing the strategy establishes what playing by it rests on.      *)
THEOREM ConstructSafe ==
    ASSUME ArgsGood, StartInv, PlayInv, Construct \/ Grow \/ Finish,
           UNCHANGED <<callers, playVars>>
    PROVE  StartInv' /\ BuiltInv' /\ PlayInv'
<1>1. UNCHANGED callers
  OBVIOUS
<1>2. StartInv' /\ BuiltInv'
  <2>1. CASE Construct
    <3>1. stage' = "grow"
      BY <2>1 DEF Construct
    <3>2. StartInv'
      BY <1>1, <2>1, <3>1, ConstructNormal1Safe, ConstructNormal2Safe,
         ConstructUniversalSafe, ConstructExistentialSafe DEF Construct
    <3>. QED  BY <3>1, <3>2 DEF BuiltInv
  <2>2. CASE Grow
    BY <1>1, <2>2, GrowSafe
  <2>3. CASE Finish
    BY <1>1, <2>3, FinishSafe
  <2>. QED  BY <2>1, <2>2, <2>3
<1>3. turn = "start1" /\ winner = 0
  BY DEF Construct, Grow, Finish, PlayInv
<1>. QED  BY <1>2, <1>3 DEF PlayInv, playVars

-----------------------------------------------------------------------------
(* The play.                                                               *)

(* What a play looks at and does not change.                               *)
given == <<callers, stage, reachable, built>>

LEMMA GivenKeep ==
    ASSUME UNCHANGED given
    PROVE  /\ owner' = owner /\ Role' = Role /\ Inits' = Inits /\ winning' = winning
           /\ game' = game /\ target' = target /\ modes' = modes
           /\ stage' = stage /\ reachable' = reachable
           /\ \A s : Home(s)' = Home(s)
           /\ \A p1 : MayStart1(p1)' = MayStart1(p1)
           /\ StartInv' = StartInv /\ BuiltInv' = BuiltInv
<1>1. /\ owner' = owner /\ Role' = Role /\ Inits' = Inits /\ winning' = winning
      /\ game' = game /\ target' = target /\ modes' = modes /\ args' = args
      /\ stage' = stage /\ reachable' = reachable /\ built' = built
  BY DEF given, callers, owner, Role, Inits, winning
<1>2. /\ InitSection' = InitSection /\ TransSection' = TransSection
      /\ Successors' = Successors
  BY <1>1 DEF InitSection, TransSection, Successors
<1>3. /\ \A s : Home(s)' = Home(s)
      /\ \A p1 : MayStart1(p1)' = MayStart1(p1)
      /\ \A p1, p2 : MayStart2(p1, p2)' = MayStart2(p1, p2)
      /\ \A p1 : Completions(p1)' = Completions(p1)
  BY <1>1, <1>2 DEF Home, MayStart1, MayStart2, Completions
<1>4. \A s : StartAllowed(s)' = StartAllowed(s)
  BY <1>1, <1>2, <1>3 DEF StartAllowed
<1>5. StartInv' = StartInv
  BY <1>1, <1>2, <1>3, <1>4 DEF StartInv
<1>6. BuiltInv' = BuiltInv
  BY <1>1, <1>2 DEF BuiltInv
<1>. QED  BY <1>1, <1>3, <1>5, <1>6

(* Arriving where a play may be is what the invariant asks for, and when   *)
(* the opponent is stuck the owner has won.                                *)
LEMMA ArriveSafe ==
    ASSUME ArgsGood, UNCHANGED given, stage = "built", Inits # {},
           NEW s, Home(s), Arrive(s), jx' \in modes
    PROVE  PlayInv'
<1>1. CASE s \in target
  <2>1. turn' = "over" /\ winner' = owner
    BY <1>1 DEF Arrive, ArgsGood, Home
  <2>. QED  BY <2>1, GivenKeep DEF PlayInv
<1>2. CASE s \notin target
  <2>1. turn' = "one" /\ winner' = 0 /\ pos' = s
    BY <1>2 DEF Arrive
  <2>2. Home(pos)'
    BY <2>1, GivenKeep DEF Home
  <2>. QED  BY <1>2, <2>1, <2>2, GivenKeep DEF PlayInv
<1>. QED  BY <1>1, <1>2

LEMMA StuckSafe ==
    ASSUME ArgsGood, UNCHANGED given, stage = "built",
           NEW plr \in Players, plr # owner, Stuck(plr)
    PROVE  PlayInv'
<1>1. turn' = "over" /\ winner' = owner
  BY DEF Stuck, Opponent, ArgsGood, Players
<1>. QED  BY <1>1, GivenKeep DEF PlayInv

LEMMA StartWholeSafe ==
    ASSUME ArgsGood, StartInv, UNCHANGED given, stage = "built", StartWhole
    PROVE  PlayInv'
<1>1. Role \in {"A", "E"} /\ owner \in Players
  BY DEF StartWhole, Role, ArgsGood, Quantifiers
<1>2. \A s \in Inits : (Role = "E" => s \in InitSection) => Home(s)
  BY <1>1 DEF StartInv, StartAllowed
<1>3. CASE Role = "E"
  <2>1. Inits \cap InitSection # {}
    BY <1>3 DEF StartInv
  <2>2. PICK s \in Inits \cap InitSection, k \in modes : Arrive(s) /\ jx' = k
    BY <1>3, <2>1 DEF StartWhole
  <2>. QED  BY <1>2, <2>2, ArriveSafe
<1>4. CASE Role = "A"
  <2>1. CASE \E s \in Inits, k \in modes : Arrive(s) /\ jx' = k
    BY <1>2, <1>4, <2>1, ArriveSafe
  <2>2. CASE Stuck(Opponent(owner))
    BY <1>1, <2>2, StuckSafe DEF Opponent, Players
  <2>. QED  BY <1>4, <2>1, <2>2 DEF StartWhole
<1>. QED  BY <1>1, <1>3, <1>4

LEMMA Start1Safe ==
    ASSUME ArgsGood, StartInv, PlayInv, UNCHANGED given, stage = "built", Start1
    PROVE  PlayInv'
<1>1. owner \in Players /\ Role = "N" /\ turn = "start1"
  BY DEF Start1, ArgsGood
<1>. DEFINE choices == {p1 \in Init1(game) : MayStart1(p1)}
<1>2. CASE choices = {} /\ Stuck(1)
  <2>1. owner # 1
    BY <1>1, <1>2 DEF StartInv
  <2>. QED  BY <1>2, <2>1, StuckSafe DEF Players
<1>3. CASE /\ \E p1 \in choices : half' = <<p1>>
           /\ turn' = "start2"
           /\ UNCHANGED <<pos, jx, winner>>
  <2>1. PICK p1 \in Init1(game) : half' = <<p1>> /\ MayStart1(p1)
    BY <1>3
  <2>2. winner' = 0
    BY <1>1, <1>3 DEF PlayInv
  <2>. QED  BY <1>1, <1>3, <2>1, <2>2, GivenKeep DEF PlayInv
<1>. QED  BY <1>2, <1>3 DEF Start1

LEMMA Start2Safe ==
    ASSUME ArgsGood, StartInv, PlayInv, UNCHANGED given, stage = "built", Start2
    PROVE  PlayInv'
<1>1. owner \in {1, 2} /\ Role = "N" /\ turn = "start2"
  BY DEF Start2, ArgsGood, PlayInv, Players
<1>2. PICK p1 \in Init1(game) : half = <<p1>> /\ MayStart1(p1)
  BY <1>1 DEF PlayInv
<1>. DEFINE choices == {p2 \in Completions(p1) : MayStart2(p1, p2)}
<1>3. half[1] = p1
  BY <1>2
<1>4. CASE choices = {} /\ Stuck(2)
  <2>1. owner # 2
    BY <1>1, <1>4 DEF StartInv
  <2>. QED  BY <1>4, <2>1, StuckSafe DEF Players
<1>5. CASE \E p2 \in choices, k \in modes : Arrive(<<p1, p2>>) /\ jx' = k
  <2>1. PICK p2 \in choices, k \in modes : Arrive(<<p1, p2>>) /\ jx' = k
    BY <1>5
  <2>2. <<p1, p2>> \in Inits
    BY <2>1, InitsParts DEF ArgsGood, Completions
  <2>3. StartAllowed(<<p1, p2>>)
    BY <1>1, <1>2, <2>1 DEF StartAllowed
  <2>4. Home(<<p1, p2>>)
    BY <2>2, <2>3 DEF StartInv
  <2>. QED  BY <2>1, <2>2, <2>4, ArriveSafe
<1>. QED  BY <1>3, <1>4, <1>5 DEF Start2

(* An owner that is player 1 has a move left in every state it can be in,  *)
(* and the moves left to it are safe.                                      *)
LEMMA Play1ByOwner ==
    ASSUME ArgsGood, MovesGood, BuiltInv, PlayInv, UNCHANGED given, stage = "built",
           Play1, owner = 1
    PROVE  PlayInv'
<1>1. /\ turn = "one" /\ jx \in modes /\ pos \in (winning \cap Invar(game)) \ target
      /\ pos \in reachable /\ Inits # {} /\ game \in Games
  BY DEF Play1, PlayInv, Home, ArgsGood
<1>2. /\ pos \in (States \cap reachable) \ args.goal
      /\ Moves1(game, pos) \subseteq P1
  BY <1>1, InvarStates, GameParts DEF ArgsGood, Moves1
<1>3. \A q1 \in Moves1(game, pos), k \in modes :
          MayMove1(q1, k) <=>
              \/ <<pos, q1>> \in WithoutSuccessor2(game)
              \/ <<pos, q1>> \in args.trans /\ <<pos, q1>> \in links[<<jx, k>>]
                     /\ <<pos, q1>> \notin WithoutSuccessor2(game)
  BY <1>2 DEF MayMove1, BuiltInv
<1>4. \E q1 \in Moves1(game, pos), k \in modes : MayMove1(q1, k)
  BY <1>1, <1>3 DEF MovesGood, MovesGood1
<1>. DEFINE choices == {c \in Moves1(game, pos) \X modes : MayMove1(c[1], c[2])}
<1>5. choices # {}
  <2>1. PICK q1 \in Moves1(game, pos), k \in modes : MayMove1(q1, k)
    BY <1>4
  <2>. <<q1, k>> \in choices
    BY <2>1
  <2>. QED  OBVIOUS
<1>6. PICK c \in choices : half' = <<c[1]>> /\ jx' = c[2]
                             /\ turn' = "two" /\ UNCHANGED <<pos, winner>>
  BY <1>5 DEF Play1
<1>7. c[1] \in Moves1(game, pos) /\ c[2] \in modes /\ MayMove1(c[1], c[2])
  BY <1>6
<1>8. \A q2 \in Moves2(game, pos, c[1]) : <<c[1], q2>> \in winning
  <2>1. CASE <<pos, c[1]>> \in WithoutSuccessor2(game)
    BY <1>7, <2>1 DEF WithoutSuccessor2, WithSuccessor2
  <2>2. CASE <<pos, c[1]>> \in args.trans
    BY <1>1, <1>7, <2>2 DEF MovesGood, MovesGood1
  <2>. QED  BY <1>3, <1>7, <2>1, <2>2
<1>. HIDE DEF choices
<1>9. winner' = 0
  BY <1>1, <1>6 DEF PlayInv
<1>10. Home(pos)' /\ Moves1(game, pos)' = Moves1(game, pos)
       /\ \A q1 : Moves2(game, pos, q1)' = Moves2(game, pos, q1)
  BY <1>1, <1>6, GivenKeep DEF PlayInv, Home
<1>. QED  BY <1>1, <1>6, <1>7, <1>8, <1>9, <1>10, GivenKeep DEF PlayInv

(* Any move of player 1 that is no dead end starts from a reachable state. *)
LEMMA Play1ByOther ==
    ASSUME ArgsGood, PlayInv, UNCHANGED given, stage = "built", Play1, owner = 2
    PROVE  PlayInv'
<1>1. /\ turn = "one" /\ jx \in modes /\ Home(pos) /\ pos \notin target /\ Inits # {}
  BY DEF Play1, PlayInv
<1>2. CASE Stuck(1)
  BY <1>2, StuckSafe DEF Players
<1>3. CASE ~Stuck(1)
  <2>1. PICK c \in Moves1(game, pos) \X modes :
            /\ half' = <<c[1]>> /\ jx' = c[2]
            /\ turn' = "two" /\ UNCHANGED <<pos, winner>>
    BY <1>3 DEF Play1
  <2>2. c[1] \in Moves1(game, pos) /\ c[2] \in modes
    BY <2>1
  <2>3. pos \in reachable
    BY <1>1, <2>2 DEF Home, WithoutSuccessor1, WithSuccessor1
  <2>4. winner' = 0
    BY <1>1, <2>1 DEF PlayInv
  <2>5. Home(pos)' /\ Moves1(game, pos)' = Moves1(game, pos)
    BY <1>1, <2>1, GivenKeep DEF Home
  <2>. QED  BY <1>1, <2>1, <2>2, <2>3, <2>4, <2>5, GivenKeep DEF PlayInv
<1>. QED  BY <1>2, <1>3

(* A completed round from a reachable state to a winning one ends in a     *)
(* reachable state.                                                        *)
LEMMA RoundHome ==
    ASSUME ArgsGood, BuiltInv, stage = "built",
           NEW s \in Invar(game) \cap reachable, NEW q1 \in Moves1(game, s),
           NEW q2 \in Moves2(game, s, q1), <<q1, q2>> \in winning
    PROVE  Home(<<q1, q2>>)
<1>1. <<q1, q2>> \in Invar(game)
  BY RoundInvar DEF ArgsGood
<1>2. q1 \in game.trans1[s] /\ q2 \in game.trans2[<<s, q1>>]
  BY DEF Moves1, Moves2
<1>3. <<q1, q2>> \in WeakForwardImage(game, reachable)
  BY <1>1, <1>2 DEF WeakForwardImage
<1>. QED  BY <1>1, <1>3 DEF BuiltInv, Successors, winning, Home

LEMMA Play2Safe ==
    ASSUME ArgsGood, MovesGood, BuiltInv, PlayInv, UNCHANGED given, stage = "built", Play2
    PROVE  PlayInv'
<1>1. /\ turn = "two" /\ jx \in modes /\ pos \in (winning \cap Invar(game)) \ target
      /\ pos \in reachable /\ Inits # {} /\ game \in Games /\ owner \in {1, 2}
  BY DEF Play2, PlayInv, Home, ArgsGood, Players
<1>2. PICK q1 \in Moves1(game, pos) :
          /\ half = <<q1>>
          /\ owner = 1 => \A q2 \in Moves2(game, pos, q1) : <<q1, q2>> \in winning
  BY <1>1 DEF PlayInv
<1>3. half[1] = q1
  BY <1>2
<1>. DEFINE choices == {c \in Moves2(game, pos, q1) \X modes : MayMove2(c[1], c[2])}
<1>4. (\E c \in choices : Arrive(<<q1, c[1]>>) /\ jx' = c[2]) \/ (choices = {} /\ Stuck(2))
  BY <1>3 DEF Play2
<1>5. CASE owner = 1
  <2>1. CASE Stuck(2)
    BY <1>5, <2>1, StuckSafe DEF Players
  <2>2. CASE \E c \in choices : Arrive(<<q1, c[1]>>) /\ jx' = c[2]
    <3>1. PICK c \in Moves2(game, pos, q1) \X modes : Arrive(<<q1, c[1]>>) /\ jx' = c[2]
      BY <2>2
    <3>2. c[1] \in Moves2(game, pos, q1) /\ c[2] \in modes
      BY <3>1
    <3>3. Home(<<q1, c[1]>>)
      BY <1>1, <1>2, <1>5, <3>2, RoundHome
    <3>. QED  BY <1>1, <3>1, <3>2, <3>3, ArriveSafe
  <2>. QED  BY <1>4, <2>1, <2>2
<1>6. CASE owner = 2
  <2>1. /\ TransSection = {m \in args.trans : m[1] \in reachable}
        /\ MovesGood2
    BY <1>1, <1>6 DEF BuiltInv, MovesGood
  <2>2. \A q2, k : MayMove2(q2, k) <=>
            <<pos, <<q1, q2>>>> \in args.trans \cap links[<<jx, k>>]
    BY <1>1, <1>3, <1>6, <2>1 DEF MayMove2
  <2>3. choices # {}
    <3>1. PICK q2 \in Moves2(game, pos, q1), k \in modes :
              <<pos, <<q1, q2>>>> \in args.trans \cap links[<<jx, k>>]
      BY <1>1, <2>1 DEF MovesGood2
    <3>. <<q2, k>> \in choices
      BY <2>2, <3>1
    <3>. QED  OBVIOUS
  <2>4. PICK c \in choices : Arrive(<<q1, c[1]>>) /\ jx' = c[2]
    BY <1>4, <2>3
  <2>5. c[1] \in Moves2(game, pos, q1) /\ c[2] \in modes /\ MayMove2(c[1], c[2])
    BY <2>4
  <2>6. <<q1, c[1]>> \in winning
    <3>1. <<pos, <<q1, c[1]>>>> \in args.trans
      BY <2>2, <2>5
    <3>. QED  BY <2>1, <3>1 DEF MovesGood2
  <2>7. Home(<<q1, c[1]>>)
    BY <1>1, <2>5, <2>6, RoundHome
  <2>. QED  BY <1>1, <2>4, <2>5, <2>7, ArriveSafe
<1>. QED  BY <1>1, <1>5, <1>6

(* Whatever the opponent does, a play in which the strategy is followed    *)
(* stays where its owner wins, and can only end with the owner winning.    *)
THEOREM PlaySafe ==
    ASSUME ArgsGood, MovesGood, StartInv, BuiltInv, PlayInv, stage = "built",
           PlayNext, UNCHANGED given
    PROVE  PlayInv'
<1>1. CASE Play1
  <2>1. owner \in {1, 2}
    BY DEF ArgsGood, Players
  <2>. QED  BY <1>1, <2>1, Play1ByOwner, Play1ByOther
<1>. QED  BY <1>1, StartWholeSafe, Start1Safe, Start2Safe, Play2Safe DEF PlayNext

LEMMA StutterSafe ==
    ASSUME PlayInv, UNCHANGED <<given, playVars>>
    PROVE  StartInv' = StartInv /\ BuiltInv' = BuiltInv /\ PlayInv'
<1>1. UNCHANGED given
  OBVIOUS
<1>2. UNCHANGED <<turn, pos, half, jx, winner>>
  BY DEF playVars
<1>3. Home(pos)' = Home(pos)
  BY <1>1, <1>2, GivenKeep DEF Home
<1>. QED  BY <1>1, <1>2, <1>3, GivenKeep DEF PlayInv
=============================================================================
