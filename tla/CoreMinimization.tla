-------------------------- MODULE CoreMinimization --------------------------
(***************************************************************************)
(* game_compute_core_switching_constraints and                             *)
(* game_minimize_players_constraints (gameUnrealCore.c): why is a game     *)
(* (un)realizable?  Constraints are substituted by TRUE one after the      *)
(* other, and the substitution is kept if the verdict stays the same.      *)
(* Every check is a run of the generalized reactivity algorithm of         *)
(* GenReactivity, that starts from winning states of an earlier check.     *)
(***************************************************************************)
EXTENDS GenReactivity

CONSTANT Problems   \* the inputs considered, see ProblemType

VARIABLES
    gh, property,    \* the constraints of the players and the specification
    minimise, w,     \* the kinds to minimise and "LOSER" or "BOTH"
    phase,           \* what the run of the algorithm is for, see Phases
    removed,         \* the constraints <<player, kind, k>> that are now TRUE
    todo,            \* those the traversal has yet to visit
    candidate,       \* the one that is disabled while the game is rechecked
    realizable, playerToModify, winningStates,
    approximation, somethingChanged,
    fun,             \* the opponent is to be checked after every removal
    core             \* what is reported as removed

inputs == <<gh, property, minimise, w>>

progress == <<removed, todo, candidate, realizable, playerToModify, winningStates,
              approximation, somethingChanged, fun, core>>

coreVars == <<inputs, phase, progress>>

Kinds == {"init", "invar", "trans", "prop"}

Phases == {"first", "minimise", "recheck", "second", "done", "aborted", "crashed"}

(* A constraint on p1 or the state, on the state, and on the half-move.    *)
ProblemType ==
    [gh : [init  : Seq(SUBSET P1), invar : Seq(SUBSET P1), trans : Seq([States -> SUBSET P1])]
              \X [init  : Seq(SUBSET States), invar : Seq(SUBSET States),
                  trans : Seq([States \X P1 -> SUBSET P2])],
     property : SpecType, minimise : SUBSET Kinds, w : {"LOSER", "BOTH"}]

ASSUME ProblemsAssumption == \A p \in Problems : p \in ProblemType

-----------------------------------------------------------------------------
(* The game and the specification with some constraints substituted.       *)

Left(plr, kind, dropped) ==
    {gh[plr][kind][k] : k \in {k \in DOMAIN gh[plr][kind] : <<plr, kind, k>> \notin dropped}}

Conjunct(universe, constraints) == {x \in universe : \A c \in constraints : x \in c}

GameWithout(dropped) ==
    LET t1 == Left(1, "trans", dropped)
        t2 == Left(2, "trans", dropped)
    IN  [init1  |-> Conjunct(P1, Left(1, "init", dropped)),
         init2  |-> Conjunct(States, Left(2, "init", dropped)),
         inv1   |-> Conjunct(P1, Left(1, "invar", dropped)),
         inv2   |-> Conjunct(States, Left(2, "invar", dropped)),
         trans1 |-> [s \in States |-> Conjunct(P1, {c[s] : c \in t1})],
         trans2 |-> [m \in States \X P1 |-> Conjunct(P2, {c[m] : c \in t2})]]

PartsWithout(parts, plr, dropped) ==
    [k \in DOMAIN parts |-> IF <<plr, "prop", k>> \in dropped THEN States ELSE parts[k]]

SpecWithout(dropped) ==
    [player      |-> property.player,
     assumptions |-> PartsWithout(property.assumptions, Opponent(property.player), dropped),
     guarantees  |-> PartsWithout(property.guarantees, property.player, dropped)]

(* The order constraints are visited in.                                   *)
Ids(plr, kind, list) ==
    IF kind \in minimise THEN [k \in DOMAIN list |-> <<plr, kind, k>>] ELSE << >>

(* Faulty variant: the first of the transition constraints is left out.    *)
ShortWork(plr) ==
    LET parts == IF plr = property.player THEN property.guarantees ELSE property.assumptions
        trans == Ids(plr, "trans", gh[plr].trans)
    IN  Ids(plr, "init", gh[plr].init) \o Ids(plr, "invar", gh[plr].invar)
            \o SubSeq(trans, 2, Len(trans)) \o Ids(plr, "prop", parts)

Work(plr) ==
    LET parts == IF plr = property.player THEN property.guarantees ELSE property.assumptions
    IN  Ids(plr, "init", gh[plr].init) \o Ids(plr, "invar", gh[plr].invar)
            \o Ids(plr, "trans", gh[plr].trans) \o Ids(plr, "prop", parts)

-----------------------------------------------------------------------------
(* A call of Game_ComputeGenReactivity; NULL approximations are replaced   *)
(* by all legal states and by no state.                                    *)

Launch(dropped, mode, isOver, isUnder, states) ==
    /\ game' = GameWithout(dropped)
    /\ spec' = SpecWithout(dropped)
    /\ earlierTermination' = mode
    /\ overapproxWinStates' = IF isOver THEN states ELSE Invar(game')
    /\ underapproxWinStates' = IF isUnder THEN states ELSE {}
    /\ pc' = "begin"
    /\ assumptions' = << >> /\ guarantees' = << >>
    /\ Z' = {} /\ previousZ' = {}
    /\ isZFixpointReached' = FALSE /\ isRealizable' = TRUE
    /\ j' = 1 /\ Y' = {} /\ previousY' = {}
    /\ i' = 1 /\ start' = {} /\ X' = {} /\ xArray' = << >>
    /\ yResults' = << >> /\ xResults' = << >>
    /\ strategy' = NoStrategy
    /\ status' = "none"
    /\ UNCHANGED opt

Answer == status = "realizable"

CheckNext == Next /\ UNCHANGED coreVars

CoreInit ==
    /\ \E p \in Problems : /\ gh = p.gh /\ property = p.property
                           /\ minimise = p.minimise /\ w = p.w
    /\ phase = "first"
    /\ removed = {} /\ todo = << >> /\ candidate = << >>
    /\ realizable = FALSE /\ playerToModify = 1 /\ winningStates = {}
    /\ approximation = {} /\ somethingChanged = FALSE /\ fun = FALSE /\ core = {}
    /\ opt \in Quantifiers
    /\ game = GameWithout({}) /\ spec = SpecWithout({})
    /\ earlierTermination = "NONE"
    /\ overapproxWinStates = Invar(game) /\ underapproxWinStates = {}
    /\ pc = "begin"
    /\ assumptions = << >> /\ guarantees = << >>
    /\ Z = {} /\ previousZ = {}
    /\ isZFixpointReached = FALSE /\ isRealizable = TRUE
    /\ j = 1 /\ Y = {} /\ previousY = {}
    /\ i = 1 /\ start = {} /\ X = {} /\ xArray = << >>
    /\ yResults = << >> /\ xResults = << >>
    /\ strategy = NoStrategy
    /\ status = "none"

(* The same states, listed anew: TLC evaluates a set through all unions it *)
(* was made from otherwise.                                                *)
bdd_dup(S) == {s \in States : s \in S}

(* Enter game_minimize_players_constraints.                                *)
Minimise(plr, states) ==
    /\ phase' = "minimise"
    /\ playerToModify' = plr
    /\ winningStates' = bdd_dup(states)
    /\ approximation' = bdd_dup(states)
    /\ todo' = Work(plr)

(* The loser's constraints explain the verdict: the opponent's when the    *)
(* player wins, the player's own when it does not.                         *)
FirstVerdict ==
    /\ phase = "first" /\ pc = "done"
    /\ realizable' = Answer
    /\ Minimise(IF (Answer /\ player = 1) \/ (~Answer /\ player = 2) THEN 2 ELSE 1, Z)
    /\ UNCHANGED <<vars, inputs, removed, candidate, somethingChanged, fun, core>>

(* Faulty variant: a constraint that matters is not put back.              *)
ForgetfulJudge(id, newReal) ==
    IF newReal = realizable /\ fun
    THEN phase' = "crashed" /\ UNCHANGED <<removed, somethingChanged>>
    ELSE /\ phase' = "minimise"
         /\ removed' = removed \cup {id}
         /\ somethingChanged' = TRUE

(* A substitution that changed the verdict is undone.  Otherwise it stays, *)
(* after a check of the opponent's constraints if there is one to call:    *)
(* through a pointer to a function type with one parameter less.           *)
Judge(id, newReal) ==
    IF newReal = realizable /\ fun
    THEN phase' = "crashed" /\ UNCHANGED <<removed, somethingChanged>>
    ELSE /\ phase' = "minimise"
         /\ removed' = IF newReal = realizable THEN removed \cup {id} ELSE removed \ {id}
         /\ somethingChanged' = (somethingChanged \/ newReal = realizable)

(* Initial conditions are checked against the exact winning states.        *)
CheckInit ==
    /\ phase = "minimise" /\ todo # << >>
    /\ Head(todo)[2] = "init"
    /\ todo' = Tail(todo)
    /\ LET g == GameWithout(removed \cup {Head(todo)})
       IN  Judge(Head(todo),
                 CanPlayerSatisfy(Init1(g), Init2(g), winningStates, property.player, opt))
    /\ UNCHANGED <<vars, inputs, candidate, realizable, playerToModify, winningStates,
                   approximation, fun, core>>

(* Faulty variant: assumptions give an under-approximation.                *)
OverallUnder == TRUE

(* Without some of its own constraints the player wins from more states.   *)
IsUnder == playerToModify = property.player

(* Faulty variant: the traversal does not advance.                         *)
StuckDisable ==
    /\ phase = "minimise" /\ todo # << >>
    /\ Head(todo)[2] # "init"
    /\ todo' = todo
    /\ candidate' = Head(todo)
    /\ removed' = removed \cup {Head(todo)}
    /\ phase' = "recheck"
    /\ Launch(removed', IF realizable THEN "NORMAL" ELSE "NONE",
              ~IsUnder, IsUnder, approximation)
    /\ UNCHANGED <<inputs, realizable, playerToModify, winningStates, approximation,
                   somethingChanged, fun, core>>

(* Substitute another constraint and have the game checked again.          *)
Disable ==
    /\ phase = "minimise" /\ todo # << >>
    /\ Head(todo)[2] # "init"
    /\ todo' = Tail(todo)
    /\ candidate' = Head(todo)
    /\ removed' = removed \cup {Head(todo)}
    /\ phase' = "recheck"
    /\ Launch(removed', IF realizable THEN "NORMAL" ELSE "NONE",
              ~IsUnder, IsUnder, approximation)
    /\ UNCHANGED <<inputs, realizable, playerToModify, winningStates, approximation,
                   somethingChanged, fun, core>>

Recheck ==
    /\ phase = "recheck" /\ pc = "done"
    /\ Judge(candidate, Answer)
    /\ approximation' = IF Answer = realizable THEN bdd_dup(Z) ELSE approximation
    /\ UNCHANGED <<vars, inputs, todo, candidate, realizable, playerToModify,
                   winningStates, fun, core>>

FirstPlayerMinimised == phase = "minimise" /\ todo = << >> /\ w = "BOTH" /\ ~fun

(* The exact winning states of what is left of the game.                   *)
Recompute ==
    /\ FirstPlayerMinimised /\ somethingChanged
    /\ phase' = "second"
    /\ Launch(removed, "NONE", realizable, ~realizable, winningStates)
    /\ UNCHANGED <<inputs, progress>>

(* Minimise the constraints of the other player.                           *)
SwitchPlayer(states) ==
    /\ Minimise(Opponent(playerToModify), states)
    /\ fun' = TRUE

SwitchUnchanged ==
    /\ FirstPlayerMinimised /\ ~somethingChanged
    /\ SwitchPlayer(winningStates)
    /\ UNCHANGED <<vars, inputs, removed, candidate, realizable, somethingChanged, core>>

(* nusmv_assert(realizable == realizable2).                                *)
SecondVerdict ==
    /\ phase = "second" /\ pc = "done"
    /\ IF Answer = realizable
       THEN SwitchPlayer(Z)
       ELSE /\ phase' = "aborted"
            /\ UNCHANGED <<todo, playerToModify, winningStates, approximation, fun>>
    /\ UNCHANGED <<vars, inputs, removed, candidate, realizable, somethingChanged, core>>

(* Print what is left and restore the constraints.                         *)
Report ==
    /\ phase = "minimise" /\ todo = << >> /\ (w = "LOSER" \/ fun)
    /\ phase' = "done"
    /\ core' = removed
    /\ removed' = {}
    /\ UNCHANGED <<vars, inputs, todo, candidate, realizable, playerToModify,
                   winningStates, approximation, somethingChanged, fun>>

CoreNext == \/ CheckNext \/ FirstVerdict \/ CheckInit \/ Disable \/ Recheck
            \/ Recompute \/ SwitchUnchanged \/ SecondVerdict \/ Report

CoreSpec == CoreInit /\ [][CoreNext]_<<vars, coreVars>> /\ WF_<<vars, coreVars>>(CoreNext)

-----------------------------------------------------------------------------
(* Properties.                                                             *)

VerdictWithout(dropped) ==
    RightVerdict(GameWithout(dropped), SpecWithout(dropped), opt) = "realizable"

(* nusmv_assert(realizable == realizable2): the game that is left after the*)
(* constraints of the first player have been minimised has the old verdict.*)
SameVerdictAgain == phase # "aborted"

(* "Removed" means without effect: the game that is reported has the       *)
(* verdict of the one that was read, although no two of the checks in      *)
(* between looked at the same game, and the assertion on it holds.         *)
CoreKeepsVerdict ==
    /\ SameVerdictAgain
    /\ phase = "done" => realizable = VerdictWithout({}) /\ realizable = VerdictWithout(core)

(* "Minimally sufficient set of assumptions, minimally unfulfillable set   *)
(* of guarantees": one pass is enough, no constraint of the loser that is  *)
(* left could be removed in addition.                                      *)
Positions(plr, kind) ==
    CASE kind # "prop"                               -> DOMAIN gh[plr][kind]
      [] kind = "prop" /\ plr = property.player      -> DOMAIN property.guarantees
      [] kind = "prop" /\ plr # property.player      -> DOMAIN property.assumptions

CoreIsMinimal ==
    phase = "done" /\ opt = "N" /\ w = "LOSER" =>
        \A kind \in minimise : \A k \in Positions(playerToModify, kind) :
            LET id == <<playerToModify, kind, k>>
            IN  id \notin core => VerdictWithout(core \cup {id}) # realizable

(* "Winning states can only decrease => previous winning states can be     *)
(* used as over-approximation", and the reverse for guarantees: what a     *)
(* check starts from is right for the game it checks.                      *)
ApproximationHolds ==
    pc = "begin" =>
        LET won == WinRegion(game, spec)
        IN  underapproxWinStates \subseteq won /\ won \subseteq overapproxWinStates

(* The minimisation comes to an end.                                       *)
CoreEnds == <>(phase \in {"done", "aborted", "crashed"})
=============================================================================
