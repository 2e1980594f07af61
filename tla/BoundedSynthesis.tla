-------------------------- MODULE BoundedSynthesis --------------------------
(***************************************************************************)
(* Game_CheckLtlGameSpecSF07 (gameCheckLTLSF07.c): LTL games are decided   *)
(* by avoidance games on the product with a counting monitor, for growing  *)
(* bounds and for either player in turn.  The option for initial states is *)
(* "N", the only one the algorithm supports.  A specification may be       *)
(* checked again as long as it is undecided.                               *)
(***************************************************************************)
EXTENDS LtlGames, CountingMonitor, FiniteSets

CONSTANTS
    Formulas,   \* the LTL formulas considered
    Ltl2Gba,    \* the automaton Wring gives for an operator
    Bounds,     \* the pairs <<kmin, kmax>> considered
    Enough,     \* a bound large enough for the games and formulas considered
    MaxChecks   \* bound on the number of checks

(* Game_Who.  The numbers are also compared with those of the players; the *)
(* players themselves cannot be named (Game_Who_from_string).              *)
BOTH == 1

PROTAGONIST == 2

ANTAGONIST == 3

Who == {BOTH, PROTAGONIST, ANTAGONIST}

MaxK == CHOOSE n \in {b[2] : b \in Bounds} : \A b \in Bounds : b[2] <= n

ASSUME SynthesisAssumption ==
    /\ Letters = BOOLEAN
    /\ Formulas \subseteq LtlType
    /\ \A f \in Formulas : Negation(f) \in Formulas
    /\ \A op \in Ops : IsAutomaton(Ltl2Gba[op])
    /\ Bounds \subseteq Nat \X Nat
    /\ \A b \in Bounds : b[1] <= b[2]
    /\ \E b \in Bounds : \A c \in Bounds : c[2] <= b[2]
    /\ Enough \in Nat /\ MaxChecks \in Nat

VARIABLES
    game, formula, specPlayer,  \* the property: its game, its formula, its player
    status,                 \* of the property
    args,                   \* kmin, kmax and whom to play for
    pc,                     \* where the function is
    currK, currPlayer,      \* the bound and the player of this iteration
    swapped,                \* it is the second iteration for this bound
    bas,                    \* the players whose automaton has been constructed
    number,                 \* the number of the last iteration, never reset
    declared,               \* numbers of iterations with variables declared
    built,                  \* what the iteration has constructed
    realizable,             \* the status of its goal
    checks, failures        \* checks begun, checks that ended with an error

prop == <<game, formula, specPlayer>>

history == <<checks, failures>>

vars == <<prop, status, args, pc, currK, currPlayer, swapped, bas, number, declared,
          built, realizable, history>>

-----------------------------------------------------------------------------
(* One iteration, as a function of its inputs.                             *)

(* No fairness constraint at all means that every state is fair.           *)
WithFairness(B) == IF B.fair = {} THEN [B EXCEPT !.fair = B.states] ELSE B

Automaton == [op \in Ops |-> WithFairness(Ltl2Gba[op])]

(* Faulty variant: the automaton accepts what the current player wants.    *)
UnnegatedBad(f, mine) == IF mine THEN f ELSE Negation(f)

(* What the plays the current player must prevent satisfy.                 *)
Bad(f, mine) == IF mine THEN Negation(f) ELSE f

(* The function f itself, which TLC evaluates once.                        *)
Tabulated(f) == CHOOSE h \in {f} : h = f

(* The monitor's constraints solved, once for every operator, bound and    *)
(* letter.                                                                 *)
Monitors == Ops \X (0 .. MaxK) \X BOOLEAN

MonitorInit ==
    Tabulated([m \in Monitors |->
        LET B == Automaton[m[1]]
        IN  {w \in Counters(B, m[2]) : InitOk(B, m[2], m[3], w)}])

MonitorTrans ==
    Tabulated([m \in Monitors |->
        LET B == Automaton[m[1]]
        IN  Tabulated([v \in Counters(B, m[2]) |->
                {w \in Counters(B, m[2]) : TransOk(B, m[2], m[3], v, w)}])])

(* The product: player 2 has the counters besides its own variables.       *)
WithCounters(S, V) == {<<s[1], <<s[2], v>>>> : s \in S, v \in V}

Product(g, bad, b) ==
    LET V == Counters(Automaton[bad.op], b)
        Old(x) == <<x[1], x[2][1]>>
        Old2(m) == m[1][2][2]
    IN  [init1  |-> g.init1,
         init2  |-> UNION {WithCounters({s}, MonitorInit[<<bad.op, b, s \in bad.p>>])
                              : s \in g.init2},
         inv1   |-> g.inv1,
         inv2   |-> WithCounters(g.inv2, V),
         trans1 |-> Tabulated([x \in WithCounters(States, V) |-> g.trans1[Old(x)]]),
         trans2 |-> Tabulated([m \in WithCounters(States, V) \X P1 |->
                        UNION {{q2} \X MonitorTrans[<<bad.op, b, <<m[2], q2>> \in bad.p>>][Old2(m)]
                                  : q2 \in g.trans2[<<Old(m[1]), m[2]>>]}])]

Goal(bad, b, V) ==
    WithCounters(States, {v \in V : Exceeded(Automaton[bad.op], b, v)})

OfProduct(V) == INSTANCE GameMeaning WITH P2 <- P2 \X V, Games <- {}

(* The avoidance game is played by the opponent, as in ReachAvoid.         *)
AvoidsBound(g, bad, b, plr) ==
    LET V == Counters(Automaton[bad.op], b)
        product == Product(g, bad, b)
        Reaching == [S \in SUBSET WithCounters(States, V) |->
            S \cup OfProduct(V)!StrongBackwardImage(product, S, Opponent(plr))]
    IN  ~OfProduct(V)!CanPlayerSatisfy(
            OfProduct(V)!Init1(product), OfProduct(V)!Init2(product),
            FixedPoint(Reaching, Goal(bad, b, V) \cap OfProduct(V)!Invar(product)),
            Opponent(plr), "N")

(* Game_UseStrongReachabilityAlgorithm on it, tabulated.                   *)
Check ==
    Tabulated([c \in Games \X Formulas \X Players \X (0 .. MaxK) |->
        AvoidsBound(c[1], c[2], c[4], c[3])])

-----------------------------------------------------------------------------
(* The loop over the bounds.                                               *)

Decided == status \in {"True", "False"}

(* Faulty variant: the counter of iterations is not a static one.          *)
RestartedStart ==
    /\ pc = "idle" /\ status = "Unchecked" /\ checks < MaxChecks
    /\ \E b \in Bounds, w \in Who : args' = [kmin |-> b[1], kmax |-> b[2], w |-> w]
    /\ currK' = args'.kmin
    /\ swapped' = FALSE
    /\ bas' = {}
    /\ checks' = checks + 1
    /\ pc' = "loop"
    /\ number' = -1
    /\ UNCHANGED <<prop, status, currPlayer, declared, built, realizable, failures>>

(* A check of the property, with the arguments of the command.             *)
Start ==
    /\ pc = "idle" /\ status = "Unchecked" /\ checks < MaxChecks
    /\ \E b \in Bounds, w \in Who : args' = [kmin |-> b[1], kmax |-> b[2], w |-> w]
    /\ currK' = args'.kmin
    /\ swapped' = FALSE
    /\ bas' = {}
    /\ checks' = checks + 1
    /\ pc' = "loop"
    /\ UNCHANGED <<prop, status, currPlayer, number, declared, built, realizable, failures>>

(* Whom the first iteration for a bound is for.  The last disjunct is      *)
(* meant for a player named by number, and true of BOTH: then player 1 is  *)
(* always the first, whoever the specification is for.                     *)
FirstPlayer ==
    IF \/ args.w = PROTAGONIST /\ specPlayer = 1
       \/ args.w = ANTAGONIST /\ specPlayer = 2
       \/ args.w = BOTH /\ specPlayer = 1
       \/ args.w = 1
    THEN 1 ELSE 2

(* Faulty variant: the loop is entered for kmax no more.                   *)
EarlyCreateIteration ==
    /\ pc = "loop"
    /\ currK < args.kmax
    /\ currPlayer' = IF swapped THEN Opponent(currPlayer) ELSE FirstPlayer
    /\ number' = number + 1
    /\ declared' = declared \cup {number'}
    /\ built' = {}
    /\ realizable' = "unknown"
    /\ pc' = "automaton"
    /\ UNCHANGED <<prop, status, args, currK, swapped, bas, history>>

(* The layers of an iteration exist from here until it is destroyed.       *)
CreateIteration ==
    /\ pc = "loop"
    /\ currK <= args.kmax
    /\ currPlayer' = IF swapped THEN Opponent(currPlayer) ELSE FirstPlayer
    /\ number' = number + 1
    /\ declared' = declared \cup {number'}
    /\ built' = {}
    /\ realizable' = "unknown"
    /\ pc' = "automaton"
    /\ UNCHANGED <<prop, status, args, currK, swapped, bas, history>>

(* The automaton of a player is constructed once.  This fails when the     *)
(* formula needs determinization variables or Wring gives no automaton;    *)
(* the error leaves the function and releases nothing.                     *)
ConstructBa ==
    /\ pc = "automaton"
    /\ \/ pc' = "monitor" /\ bas' = bas \cup {currPlayer} /\ UNCHANGED failures
       \/ /\ currPlayer \notin bas
          /\ pc' = "idle" /\ failures' = failures + 1 /\ UNCHANGED bas
    /\ UNCHANGED <<prop, status, args, currK, currPlayer, swapped, number, declared, built,
                   realizable, checks>>

(* The goal and the monitor of both players; the variables carry the       *)
(* number of the iteration in their names.                                 *)
ConstructMonitor ==
    /\ pc = "monitor"
    /\ built' = built \cup {"goal", "monitor"}
    /\ pc' = "product"
    /\ UNCHANGED <<prop, status, args, currK, currPlayer, swapped, bas, number, declared,
                   realizable, history>>

ConstructProduct ==
    /\ pc = "product"
    /\ built' = built \cup {"product"}
    /\ pc' = "check"
    /\ UNCHANGED <<prop, status, args, currK, currPlayer, swapped, bas, number, declared,
                   realizable, history>>

(* Faulty variant: an iteration without an answer is not destroyed.        *)
KeepingCheckGoal ==
    /\ pc = "check"
    /\ realizable' = IF Check[<<game, Bad(formula, currPlayer = specPlayer), currPlayer, currK>>]
                     THEN "realizable" ELSE "unrealizable"
    /\ status' = IF realizable' # "realizable" THEN status
                 ELSE IF currPlayer = specPlayer THEN "True" ELSE "False"
    /\ pc' = "iterated"
    /\ UNCHANGED <<prop, args, currK, currPlayer, swapped, bas, number, declared, built, history>>

(* An iteration that decides nothing is destroyed at once; the other is    *)
(* kept for the strategy to be printed.                                    *)
CheckGoal ==
    /\ pc = "check"
    /\ realizable' = IF Check[<<game, Bad(formula, currPlayer = specPlayer), currPlayer, currK>>]
                     THEN "realizable" ELSE "unrealizable"
    /\ status' = IF realizable' # "realizable" THEN status
                 ELSE IF currPlayer = specPlayer THEN "True" ELSE "False"
    /\ IF realizable' = "realizable"
       THEN UNCHANGED <<declared, built>>
       ELSE declared' = declared \ {number} /\ built' = {}
    /\ pc' = "iterated"
    /\ UNCHANGED <<prop, args, currK, currPlayer, swapped, bas, number, history>>

(* Faulty variant: the other player never gets its turn.                   *)
OneSidedNextIteration ==
    /\ pc = "iterated"
    /\ IF Decided THEN pc' = "report" /\ UNCHANGED currK ELSE pc' = "loop" /\ currK' = currK + 1
    /\ UNCHANGED <<prop, status, args, currPlayer, swapped, bas, number, declared, built,
                   realizable, history>>

NextIteration ==
    /\ pc = "iterated"
    /\ IF Decided
       THEN pc' = "report" /\ UNCHANGED <<currK, swapped>>
       ELSE /\ pc' = "loop"
            /\ swapped' = (args.w = BOTH /\ ~swapped)
            /\ currK' = IF swapped' THEN currK ELSE currK + 1
    /\ UNCHANGED <<prop, status, args, currPlayer, bas, number, declared, built,
                   realizable, history>>

LeaveLoop ==
    /\ pc = "loop" /\ currK > args.kmax
    /\ pc' = "report"
    /\ UNCHANGED <<prop, status, args, currK, currPlayer, swapped, bas, number, declared,
                   built, realizable, history>>

(* The answer is printed, and what is left is destroyed; that everything   *)
(* is destroyed then is asserted.                                          *)
Finish ==
    /\ pc = "report"
    /\ IF Decided
       THEN declared' = declared \ {number} /\ built' = {}
       ELSE UNCHANGED <<declared, built>>
    /\ bas' = {}
    /\ pc' = IF built' = {} THEN "idle" ELSE "aborted"
    /\ UNCHANGED <<prop, status, args, currK, currPlayer, swapped, number, realizable, history>>

Init ==
    /\ game \in Games /\ formula \in Formulas /\ specPlayer \in Players
    /\ status = "Unchecked"
    /\ args = [kmin |-> 0, kmax |-> 0, w |-> BOTH]
    /\ pc = "idle"
    /\ currK = 0 /\ currPlayer = 1 /\ swapped = FALSE
    /\ bas = {}
    /\ number = -1
    /\ declared = {} /\ built = {}
    /\ realizable = "unknown"
    /\ checks = 0 /\ failures = 0

Iteration ==
    \/ CreateIteration \/ ConstructBa \/ ConstructMonitor \/ ConstructProduct
    \/ CheckGoal \/ NextIteration \/ LeaveLoop \/ Finish

Next == Start \/ Iteration

(* The function runs on by itself; nobody has to check the property.       *)
Spec == Init /\ [][Next]_vars /\ WF_vars(Iteration)

-----------------------------------------------------------------------------
(* Properties.                                                             *)

(* "the strategy has been found" and "no strategy exists" are only said    *)
(* when the player of the specification has, or its opponent has, a        *)
(* strategy for the formula or its negation in the game itself, whatever   *)
(* the bounds and whoever was played for.                                  *)
VerdictIsRight ==
    /\ status = "True" => HasStrategy(game, formula, specPlayer)
    /\ status = "False" => HasStrategy(game, Negation(formula), Opponent(specPlayer))

(* When played for both players a large enough bound decides the property  *)
(* (the comment on w: "complete only for GAME_WHO_BOTH").                  *)
CompleteForBoth ==
    pc = "report" /\ args.w = BOTH /\ args.kmax >= Enough => Decided

(* A greater bound gives away no avoidance game, so that nothing is lost   *)
(* by starting at kmin; the first two bounds are the same.                 *)
BoundsOnlyHelp ==
    pc = "check" =>
        LET Wins(b) == Check[<<game, Bad(formula, currPlayer = specPlayer), currPlayer, b>>]
        IN  /\ currK < MaxK => (Wins(currK) => Wins(currK + 1))
            /\ currK = 0 /\ MaxK > 0 => (Wins(0) <=> Wins(1))

(* The monitor takes part in every round and in one way only: it takes no  *)
(* move away from player 2 and gives it no choice.                         *)
MonitorNeverBlocks ==
    pc = "monitor" =>
        LET op == Bad(formula, currPlayer = specPlayer).op
        IN  \A a \in BOOLEAN :
                /\ Cardinality(MonitorInit[<<op, currK, a>>]) = 1
                /\ \A v \in Counters(Automaton[op], currK) :
                        Cardinality(MonitorTrans[<<op, currK, a>>][v]) = 1

(* The names of the variables of a monitor are new, even after errors that *)
(* left the layers of earlier iterations in the symbol table.              *)
NamesAreFresh == [][CreateIteration => number' \notin declared]_vars

(* When the function returns nothing is left of it, except one iteration   *)
(* for every error on the way.                                             *)
AllReleased ==
    /\ pc # "aborted"
    /\ pc = "idle" => Cardinality(declared) = failures

(* A check ends.                                                           *)
Terminates == pc = "loop" ~> pc = "idle"
=============================================================================
