----------------------------- MODULE BuchiGame -----------------------------
(***************************************************************************)
(* game_compute_buchi_game (gameCheckGenReactivityBuchiSpec.c): every      *)
(* Buchi condition is to hold again and again, without assumptions on the  *)
(* opponent.  A double fixed point, with its own early terminations, its   *)
(* own treatment of empty initial states and its own bookkeeping of the    *)
(* values of Y.  The specification is read as one of generalized           *)
(* reactivity whose only assumption is TRUE.                               *)
(***************************************************************************)
EXTENDS ReactivitySpecs

CONSTANT WantStrategy   \* the caller passed a container for the strategy

VARIABLES
    game, spec, opt,       \* the inputs
    pc,                    \* the loop the function is in
    Z, previousZ, isZFixpointReached, isRealizable,
    j, Y,                  \* the condition, the loop on Y
    yResults,              \* the values of Y for each condition, oldest first
    strategy,              \* the arguments of GameStrategy_construct
    status                 \* the value returned

input == <<game, spec, opt>>

zVars == <<Z, previousZ, isZFixpointReached, isRealizable>>

vars == <<input, pc, zVars, j, Y, yResults, strategy, status>>

-----------------------------------------------------------------------------

player == spec.player

buchiConditions == [k \in DOMAIN spec.guarantees |-> spec.guarantees[k] \cap Invar(game)]

Pre(S) == StrongBackwardImage(game, S, player)

isSomeInitFalse == Init1(game) = {} \/ Init2(game) = {}

WinsAtInit(S) == CanPlayerSatisfy(Init1(game), Init2(game), S, player, opt)

(* Rows <<jx, next(jx), m>> of the strategy; jx counts from 0.             *)
Rows(from, to, moves, S) ==
    {<<from, to, m>> : m \in {m \in moves : m[1] \in S}}

(* Faulty variant: there is no way back from the last condition.           *)
NoWrapRho1 ==
    UNION {Rows(k - 1, k, GetMove(game, Z, player), Z \cap buchiConditions[k])
              : k \in DOMAIN buchiConditions}

(* Meet the condition and pass to the next one.                            *)
Rho1 ==
    UNION {Rows(k - 1, k % Len(buchiConditions), GetMove(game, Z, player),
                Z \cap buchiConditions[k]) : k \in DOMAIN buchiConditions}

(* Faulty variant: Z before the conditions met in this pass.               *)
StalePreImage == Pre(previousZ) \cap buchiConditions[j]

preImageZAndBuchi == Pre(Z) \cap buchiConditions[j]

(* Faulty variant: go down from the values of Y into themselves.           *)
FlatRho2 ==
    UNION {UNION {Rows(k - 1, k - 1, GetMove(game, yResults[k][r], player), yResults[k][r])
                     : r \in 2 .. Len(yResults[k])}
              : k \in DOMAIN buchiConditions}

(* Go down in the values Y had.                                            *)
Rho2 ==
    UNION {LET low(r) == UNION {yResults[k][q] : q \in 1 .. r - 1}
           IN  UNION {Rows(k - 1, k - 1, GetMove(game, low(r), player),
                           yResults[k][r] \ low(r)) : r \in 2 .. Len(yResults[k])}
              : k \in DOMAIN buchiConditions}

StrategyArgs ==
    [player        |-> player,
     reverse       |-> FALSE,
     goal          |-> {},
     winningStates |-> Z,
     trans         |-> IF Z = {} THEN {} ELSE Rho1 \cup Rho2]

NoStrategy == [player |-> 0]

-----------------------------------------------------------------------------

Init == /\ game \in Games
        /\ spec \in Specs
        /\ opt \in Quantifiers
        /\ pc = "begin"
        /\ Z = {} /\ previousZ = {}
        /\ isZFixpointReached = FALSE /\ isRealizable = TRUE
        /\ j = 1 /\ Y = {}
        /\ yResults = << >>
        /\ strategy = NoStrategy
        /\ status = "none"

Begin ==
    /\ pc = "begin"
    /\ pc' = "z"
    /\ isZFixpointReached' = isSomeInitFalse
    /\ Z' = IF isSomeInitFalse THEN {} ELSE Invar(game)
    /\ isRealizable' = WinsAtInit(Z')
    /\ yResults' = [k \in DOMAIN buchiConditions |-> << >>]
    /\ UNCHANGED <<input, previousZ, j, Y, strategy, status>>

BeginZ ==
    /\ pc = "z"
    /\ ~isZFixpointReached /\ isRealizable
    /\ pc' = "condition"
    /\ previousZ' = Z
    /\ j' = 1
    /\ UNCHANGED <<input, Z, isZFixpointReached, isRealizable, Y, yResults, strategy,
                   status>>

BeginCondition ==
    /\ pc = "condition"
    /\ pc' = "y"
    /\ Y' = preImageZAndBuchi
    /\ yResults' = [yResults EXCEPT ![j] = <<preImageZAndBuchi>>]
    /\ UNCHANGED <<input, zVars, j, strategy, status>>

(* One pass of the loop on Y.  A value that repeats the one before is not  *)
(* kept; the last value, or the first one that is Z, is the new Z.         *)
IterateY ==
    /\ pc = "y"
    /\ LET next == Pre(Y) \cup preImageZAndBuchi
       IN  /\ Y' = next
           /\ yResults' = IF next = Y THEN yResults
                          ELSE [yResults EXCEPT ![j] = Append(@, next)]
           /\ IF next \in {Y, Z}
              THEN /\ Z' = next
                   /\ IF j < Len(buchiConditions)
                      THEN j' = j + 1 /\ pc' = "condition"
                      ELSE pc' = "endZ" /\ UNCHANGED j
              ELSE UNCHANGED <<pc, Z, j>>
    /\ UNCHANGED <<input, previousZ, isZFixpointReached, isRealizable, strategy, status>>

EndZ ==
    /\ pc = "endZ"
    /\ pc' = "z"
    /\ isZFixpointReached' = (previousZ = Z)
    /\ isRealizable' = WinsAtInit(Z)
    /\ UNCHANGED <<input, Z, previousZ, j, Y, yResults, strategy, status>>

Return ==
    /\ pc = "z"
    /\ isZFixpointReached \/ ~isRealizable
    /\ pc' = "done"
    /\ strategy' = IF WantStrategy /\ isRealizable THEN StrategyArgs ELSE NoStrategy
    /\ status' = IF isRealizable THEN "realizable" ELSE "unrealizable"
    /\ UNCHANGED <<input, zVars, j, Y, yResults>>

Next == \/ Begin \/ BeginZ \/ BeginCondition \/ IterateY \/ EndZ \/ Return

Spec == Init /\ [][Next]_vars /\ WF_vars(Next)

-----------------------------------------------------------------------------
(* Properties.                                                             *)

(* Y cannot be > Z: the player cannot force a way into Z from outside, and *)
(* the loop on Y never leaves Z.  Stopping as soon as Y is Z rests on it.  *)
YWithinZ ==
    pc \notin {"begin", "done"} /\ ~isSomeInitFalse =>
        /\ Z \subseteq Invar(game)
        /\ Pre(Z) \subseteq Z
        /\ pc = "y" => Y \subseteq Z

(* The verdict is right, and a specification that is realizable for other  *)
(* reasons than a lack of initial states ends with the states that are won.*)
VerdictIsRight ==
    pc = "done" =>
        /\ status = RightVerdict(game, spec, opt)
        /\ ~isSomeInitFalse /\ isRealizable => Z = WinRegion(game, spec)
=============================================================================
