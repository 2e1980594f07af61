--------------------------- MODULE GenReactivity ---------------------------
(***************************************************************************)
(* game_compute_gen_reactivity (gameCheckGenReactivityBuchiSpec.c): the    *)
(* triple fixed point that decides a generalized reactivity specification, *)
(* and the moves it hands to the strategy.  One step is one pass of one of *)
(* the four nested loops: Z outermost, then the guarantees j, then Y, then *)
(* for every assumption i the loop on X.                                   *)
(***************************************************************************)
EXTENDS ReactivitySpecs

CONSTANTS
    Terminations,   \* the values of earlierTermination considered
    WantStrategy    \* the caller passed a container for the strategy

VARIABLES
    game, spec, opt, earlierTermination,   \* the inputs
    overapproxWinStates, underapproxWinStates,
    pc,                    \* the loop the function is in
    assumptions, guarantees,
    Z, previousZ, isZFixpointReached, isRealizable,
    j, Y, previousY,       \* the guarantee, the loop on Y
    i, start, X, xArray,   \* the assumption, the loop on X
    yResults, xResults,    \* what the loops on Y went through, oldest first
    strategy,              \* the arguments of GameStrategy_construct
    status                 \* the value returned

input == <<game, spec, opt, earlierTermination, overapproxWinStates,
           underapproxWinStates>>

zVars == <<Z, previousZ, isZFixpointReached, isRealizable>>

yVars == <<j, Y, previousY, yResults, xResults>>

xVars == <<i, start, X, xArray>>

vars == <<input, pc, assumptions, guarantees, zVars, yVars, xVars, strategy, status>>

TerminationModes == {"NONE", "NORMAL", "CONJUNCT"}

ASSUME TerminationsAssumption == Terminations \subseteq TerminationModes

ASSUME WantStrategyAssumption == WantStrategy \in BOOLEAN

-----------------------------------------------------------------------------

player == spec.player

Pre(S) == StrongBackwardImage(game, S, player)

isSomeInitFalse == Init1(game) = {} \/ Init2(game) = {}

WinsAtInit(S) == CanPlayerSatisfy(Init1(game), Init2(game), S, player, opt)

(* Faulty variant: a false condition is skipped like a true one.           *)
SkipFalse(exps, invar) ==
    LET proper == SelectSeq([k \in DOMAIN exps |-> exps[k] \cap invar],
                            LAMBDA S : S \notin {{}, States})
    IN  IF proper = << >> THEN <<States>> ELSE proper

(* A false condition makes all the others useless, and true ones are       *)
(* skipped unless nothing else is left.                                    *)
Normalize(exps, invar) ==
    LET legal == [k \in DOMAIN exps |-> exps[k] \cap invar]
        proper[k \in 0 .. Len(exps)] ==
            IF k = 0 THEN << >>
            ELSE IF legal[k] = States THEN proper[k - 1]
            ELSE Append(proper[k - 1], legal[k])
    IN  IF \E k \in DOMAIN exps : legal[k] = {} THEN <<{}>>
        ELSE IF proper[Len(exps)] = << >> THEN <<States>>
        ELSE proper[Len(exps)]

(* The checks for an early termination, at the beginning and after every   *)
(* pass of the loop on Z.  No variable is outside both players here, so    *)
(* the result of player_satisfies_from is a constant.                      *)
KeptBy(S) == IF earlierTermination = "CONJUNCT" /\ ~WinsAtInit(S) THEN {} ELSE S

StillRealizable(S) == earlierTermination = "NONE" \/ WinsAtInit(S)

(* Faulty variant: Z before the guarantees served in this pass.            *)
StalePreImage == Pre(previousZ) \cap guarantees[j]

preImageZAndGuarantee == Pre(Z) \cap guarantees[j]

-----------------------------------------------------------------------------
(* The moves of the strategy: rows <<jx, next(jx), m>>, m a half-move of   *)
(* player 1 or a round; jx counts the guarantees from 0.                   *)

Rows(from, to, moves, S) ==
    {<<from, to, m>> : m \in {m \in moves : m[1] \in S}}

(* Faulty variant: there is no way back from the last guarantee.           *)
NoWrapRho1 ==
    UNION {Rows(k - 1, k, GetMove(game, Z, player), Z \cap guarantees[k])
              : k \in DOMAIN guarantees}

(* Serve the guarantee and pass to the next one.                           *)
Rho1 ==
    UNION {Rows(k - 1, k % Len(guarantees), GetMove(game, Z, player), Z \cap guarantees[k])
              : k \in DOMAIN guarantees}

(* Go down in the values Y had.                                            *)
Rho2(ys) ==
    UNION {LET low(r) == UNION {ys[k][q] : q \in 1 .. r - 1}
           IN  UNION {Rows(k - 1, k - 1, GetMove(game, low(r), player), ys[k][r] \ low(r))
                         : r \in 2 .. Len(ys[k])}
              : k \in DOMAIN guarantees}

(* Stay in a value of X, against the assumption it was computed for.       *)
Cells(xs, k) == (DOMAIN xs[k]) \X (DOMAIN assumptions)

Before(c, d) == c[1] < d[1] \/ (c[1] = d[1] /\ c[2] < d[2])

(* Faulty variant: stay even when the assumption holds.                    *)
CarelessRho3(xs) ==
    UNION {LET low(d) == UNION {xs[k][c[1]][c[2]] : c \in {c \in Cells(xs, k) : Before(c, d)}}
           IN  UNION {LET x == xs[k][d[1]][d[2]]
                      IN  Rows(k - 1, k - 1, GetMove(game, x, player), x \ low(d))
                         : d \in Cells(xs, k)}
              : k \in DOMAIN guarantees}

Rho3(xs) ==
    UNION {LET low(d) == UNION {xs[k][c[1]][c[2]] : c \in {c \in Cells(xs, k) : Before(c, d)}}
           IN  UNION {LET x == xs[k][d[1]][d[2]]
                      IN  Rows(k - 1, k - 1, GetMove(game, x, player),
                               (x \ low(d)) \ assumptions[d[2]])
                         : d \in Cells(xs, k)}
              : k \in DOMAIN guarantees}

(* The last values repeat the ones before them and are dropped.            *)
DropLast(s) == IF s = << >> THEN s ELSE SubSeq(s, 1, Len(s) - 1)

Dropped(results) == [k \in DOMAIN results |-> DropLast(results[k])]

StrategyArgs ==
    [player        |-> player,
     reverse       |-> FALSE,
     goal          |-> {},
     winningStates |-> IF isSomeInitFalse THEN {} ELSE Z,
     trans         |-> IF isSomeInitFalse THEN {}
                       ELSE Rho1 \cup Rho2(yResults) \cup Rho3(xResults)]

NoStrategy == [player |-> 0]

-----------------------------------------------------------------------------

Init == /\ game \in Games
        /\ spec \in Specs
        /\ opt \in Quantifiers
        /\ earlierTermination \in Terminations
        /\ overapproxWinStates = Invar(game)
        /\ underapproxWinStates = {}
        /\ pc = "begin"
        /\ assumptions = << >> /\ guarantees = << >>
        /\ Z = {} /\ previousZ = {}
        /\ isZFixpointReached = FALSE /\ isRealizable = TRUE
        /\ j = 1 /\ Y = {} /\ previousY = {}
        /\ i = 1 /\ start = {} /\ X = {} /\ xArray = << >>
        /\ yResults = << >> /\ xResults = << >>
        /\ strategy = NoStrategy
        /\ status = "none"

Begin ==
    /\ pc = "begin"
    /\ pc' = "z"
    /\ assumptions' = Normalize(spec.assumptions, Invar(game))
    /\ guarantees' = Normalize(spec.guarantees, Invar(game))
    /\ isZFixpointReached' = (isSomeInitFalse /\ earlierTermination # "NONE")
    /\ Z' = KeptBy(overapproxWinStates)
    /\ isRealizable' = StillRealizable(overapproxWinStates)
    /\ yResults' = [k \in DOMAIN guarantees' |-> << >>]
    /\ xResults' = [k \in DOMAIN guarantees' |-> << >>]
    /\ UNCHANGED <<input, previousZ, j, Y, previousY, xVars, strategy, status>>

(* Faulty variant: the value to compare with is not saved.                 *)
StaleBeginZ ==
    /\ pc = "z"
    /\ ~isZFixpointReached /\ isRealizable
    /\ pc' = "guarantee"
    /\ j' = 1
    /\ UNCHANGED <<input, assumptions, guarantees, zVars, Y, previousY, yResults,
                   xResults, xVars, strategy, status>>

(* Enter the loops on Z and on the guarantees.                             *)
BeginZ ==
    /\ pc = "z"
    /\ ~isZFixpointReached /\ isRealizable
    /\ pc' = "guarantee"
    /\ previousZ' = Z
    /\ j' = 1
    /\ UNCHANGED <<input, assumptions, guarantees, Z, isZFixpointReached,
                   isRealizable, Y, previousY, yResults, xResults, xVars,
                   strategy, status>>

BeginGuarantee ==
    /\ pc = "guarantee"
    /\ pc' = "y"
    /\ Y' = underapproxWinStates
    /\ yResults' = [yResults EXCEPT ![j] = << >>]
    /\ xResults' = [xResults EXCEPT ![j] = << >>]
    /\ UNCHANGED <<input, assumptions, guarantees, zVars, j, previousY, xVars,
                   strategy, status>>

(* Faulty variants: Y is not extended, and X begins as a least fixed point.*)
DullBeginY ==
    /\ pc = "y"
    /\ pc' = "x"
    /\ start' = preImageZAndGuarantee
    /\ previousY' = Y
    /\ i' = 1 /\ X' = Z /\ xArray' = << >>
    /\ UNCHANGED <<input, assumptions, guarantees, zVars, j, Y, yResults, xResults,
                   strategy, status>>

LowBeginY ==
    /\ pc = "y"
    /\ pc' = "x"
    /\ start' = preImageZAndGuarantee \cup Pre(Y)
    /\ previousY' = Y
    /\ i' = 1 /\ X' = Y /\ xArray' = << >>
    /\ UNCHANGED <<input, assumptions, guarantees, zVars, j, Y, yResults, xResults,
                   strategy, status>>

BeginY ==
    /\ pc = "y"
    /\ pc' = "x"
    /\ start' = preImageZAndGuarantee \cup Pre(Y)
    /\ previousY' = Y
    /\ i' = 1
    /\ X' = Z
    /\ xArray' = << >>
    /\ UNCHANGED <<input, assumptions, guarantees, zVars, j, Y, yResults, xResults,
                   strategy, status>>

(* One pass of the loop on X; when it adds and drops nothing, X is added   *)
(* to Y and the next assumption starts from there.                         *)
IterateX ==
    /\ pc = "x"
    /\ LET tmp == (Pre(X) \ assumptions[i]) \cup start
       IN  IF X # tmp
           THEN X' = tmp /\ UNCHANGED <<pc, Y, i, start, xArray>>
           ELSE /\ xArray' = Append(xArray, X)
                /\ Y' = Y \cup X
                /\ start' = Y'
                /\ IF i < Len(assumptions)
                   THEN i' = i + 1 /\ X' = Z /\ pc' = "x"
                   ELSE pc' = "endY" /\ UNCHANGED <<i, X>>
    /\ UNCHANGED <<input, assumptions, guarantees, zVars, j, previousY, yResults,
                   xResults, strategy, status>>

(* The values of this pass are recorded, twice if Y has reached Z before   *)
(* a pass without effect; a fixed point of Y is the new Z.                 *)
EndY ==
    /\ pc = "endY"
    /\ LET copies == IF previousY # Y /\ Y = Z THEN 2 ELSE 1
           Record(results, value) ==
               [results EXCEPT ![j] = @ \o [k \in 1 .. copies |-> value]]
       IN  /\ yResults' = Record(yResults, Y)
           /\ xResults' = Record(xResults, xArray)
    /\ IF previousY = Y \/ Y = Z
       THEN /\ Z' = Y
            /\ IF j < Len(guarantees)
               THEN j' = j + 1 /\ pc' = "guarantee"
               ELSE pc' = "endZ" /\ UNCHANGED j
       ELSE pc' = "y" /\ UNCHANGED <<Z, j>>
    /\ UNCHANGED <<input, assumptions, guarantees, previousZ, isZFixpointReached,
                   isRealizable, Y, previousY, xVars, strategy, status>>

EndZ ==
    /\ pc = "endZ"
    /\ pc' = "z"
    /\ Z' = KeptBy(Z)
    /\ isRealizable' = StillRealizable(Z)
    /\ isZFixpointReached' = (previousZ = Z')
    /\ UNCHANGED <<input, assumptions, guarantees, previousZ, yVars, xVars,
                   strategy, status>>

(* Leave the loops; the verdict is checked now if it has not been before.  *)
Leave ==
    /\ pc = "z"
    /\ isZFixpointReached \/ ~isRealizable
    /\ pc' = "strategy"
    /\ isRealizable' = IF earlierTermination = "NONE" THEN WinsAtInit(Z) ELSE isRealizable
    /\ yResults' = Dropped(yResults)
    /\ xResults' = Dropped(xResults)
    /\ UNCHANGED <<input, assumptions, guarantees, Z, previousZ, isZFixpointReached,
                   j, Y, previousY, xVars, strategy, status>>

StrategyWanted == WantStrategy /\ isRealizable

(* nusmv_assert(r != Nil) on the values of Y of every guarantee.           *)
RowsMissing == ~isSomeInitFalse /\ \E k \in DOMAIN guarantees : yResults[k] = << >>

AssertionFails ==
    /\ pc = "strategy"
    /\ StrategyWanted /\ RowsMissing
    /\ pc' = "aborted"
    /\ UNCHANGED <<input, assumptions, guarantees, zVars, yVars, xVars, strategy, status>>

Return ==
    /\ pc = "strategy"
    /\ ~(StrategyWanted /\ RowsMissing)
    /\ pc' = "done"
    /\ strategy' = IF StrategyWanted THEN StrategyArgs ELSE NoStrategy
    /\ status' = IF isRealizable THEN "realizable" ELSE "unrealizable"
    /\ UNCHANGED <<input, assumptions, guarantees, zVars, yVars, xVars>>

Next == \/ Begin \/ BeginZ \/ BeginGuarantee \/ BeginY \/ IterateX \/ EndY \/ EndZ
        \/ Leave \/ AssertionFails \/ Return

Spec == Init /\ [][Next]_vars /\ WF_vars(Next)

-----------------------------------------------------------------------------
(* Properties.                                                             *)

(* "Y cannot be > Z", and what makes it so: in every mode but CONJUNCT the *)
(* player cannot force a way into Z from outside, so the values of Y, X    *)
(* and start never leave Z, whichever pass of whichever loop they are in.  *)
(* Comparing Y with Z by identity to stop early rests on it.               *)
InLoops == pc \in {"z", "guarantee", "y", "x", "endY", "endZ", "strategy", "done"}

YWithinZ ==
    earlierTermination # "CONJUNCT" /\ InLoops =>
        /\ Z \subseteq Invar(game)
        /\ Pre(Z) \subseteq Z
        /\ pc \in {"y", "x", "endY"} => Y \subseteq Z
        /\ pc = "x" => start \subseteq Z /\ X \subseteq Z

(* No state that is won is ever dropped from Z: an early termination and   *)
(* all starting values of the inner loops are over-approximations.         *)
WinnersStayInZ ==
    earlierTermination # "CONJUNCT" /\ pc = "endZ" =>
        WinRegion(game, spec) \subseteq Z

(* The loop on X is a greatest fixed point: a pass only takes states away. *)
(* Otherwise comparing two consecutive values would not end the loop.      *)
XOnlyShrinks ==
    [][pc = "x" /\ pc' = "x" /\ i' = i /\ earlierTermination # "CONJUNCT"
          => X' \subseteq X]_vars

(* The verdict is the one the specification deserves, in each of the modes *)
(* of early termination; in the modes that go on to the fixed point, or    *)
(* find it, the winning states returned are the ones that are won.         *)
VerdictIsRight ==
    pc = "done" =>
        /\ status = RightVerdict(game, spec, opt)
        /\ ~isSomeInitFalse /\ (earlierTermination = "NONE" \/ isRealizable)
               => Z = WinRegion(game, spec)

(* The function always comes to an end.                                    *)
Terminates == <>(pc \in {"done", "aborted"})

(* nusmv_assert(r != Nil): when a strategy is built, every guarantee has a *)
(* list of values of Y to take moves from.                                 *)
StrategyHasRows == pc # "aborted"
=============================================================================
