-------------------------- MODULE MCConditionPlays --------------------------
(***************************************************************************)
(* Either algorithm for Buchi conditions as instances for TLC, with the    *)
(* play that follows, and the reactivity algorithm by itself in all its    *)
(* modes of termination.  The variables are those of ReactivityPlay; the   *)
(* ones a Buchi game has no use for keep their values.  These are such     *)
(* that YWithinZ, WinnersStayInZ and XOnlyShrinks say nothing of it, and   *)
(* AnswerIsRight and FollowerSafe what they say of a reactivity game, of   *)
(* which every guarantee counts.                                           *)
(***************************************************************************)
EXTENDS MCReactivityPlay

VARIABLE algorithm   \* "reactivity", "buchi" or "decision"

(* Every state may be the first, with and without dead ends of player 1;   *)
(* or there is no first state, or none that suits both, and an illegal     *)
(* state.                                                                  *)
MCDecidedGames ==
    GamesOver({B}, {BB}, {B}, {BB},
              {[s \in BB |-> B], [s \in BB |-> {s[2]}],
               [s \in BB |-> IF s = <<1, 0>> THEN {} ELSE {1 - s[1]}]},
              {Trans2Avoid, Trans2Latch, Trans2Toggle})
    \cup MCNarrowGames

MCDecidedSpecs ==
    [player      : Players,
     assumptions : {<<BB>>, <<{<<0, 0>>, <<1, 0>>}, {<<0, 1>>}>>},
     guarantees  : {<<{<<1, 1>>}, {<<0, 0>>}>>, <<{<<0, 1>>, <<1, 1>>}, BB>>,
                    <<{<<0, 1>>}, {}>>}]

Decision == INSTANCE GenReactivity WITH
                Games        <- MCDecidedGames,
                Specs        <- MCDecidedSpecs,
                Terminations <- TerminationModes

MCBuchiSpecs ==
    [player      : Players,
     assumptions : {<<BB>>},
     guarantees  : {<<{<<1, 1>>}, {<<0, 0>>}>>, <<{<<0, 1>>, <<1, 1>>}, {<<1, 0>>}>>,
                    <<{<<0, 1>>}, {}>>, <<BB, {<<0, 0>>, <<0, 1>>}>>}]

Buchi == INSTANCE BuchiPlay WITH Specs <- MCBuchiSpecs

unused == <<earlierTermination, overapproxWinStates, underapproxWinStates, assumptions,
            guarantees, previousY, xResults, xVars>>

PlaysInit ==
    \/ algorithm = "reactivity" /\ ComposedInit
    \/ /\ algorithm = "decision"
       /\ Decision!Init /\ Plays!PlayInit
       /\ stage = "idle" /\ reachable = {} /\ built = Plays!NothingBuilt
    \/ /\ algorithm = "buchi"
       /\ Buchi!ComposedInit
       /\ earlierTermination = "CONJUNCT"
       /\ overapproxWinStates = {} /\ underapproxWinStates = {}
       /\ assumptions = << >> /\ guarantees = spec.guarantees
       /\ previousY = {} /\ xResults = << >>
       /\ i = 1 /\ start = {} /\ X = {} /\ xArray = << >>

PlaysNext ==
    \/ algorithm = "reactivity" /\ ComposedNext /\ UNCHANGED algorithm
    \/ algorithm = "decision" /\ AlgorithmNext /\ UNCHANGED algorithm
    \/ algorithm = "buchi" /\ Buchi!ComposedNext /\ UNCHANGED <<unused, algorithm>>

playsVars == <<allVars, algorithm>>

PlaysSpec == PlaysInit /\ [][PlaysNext]_playsVars /\ WF_playsVars(PlaysNext)

-----------------------------------------------------------------------------
(* Properties.                                                             *)

(* Y cannot be > Z in a Buchi game either; stopping as soon as Y is Z      *)
(* rests on it.                                                            *)
BuchiYWithinZ == algorithm = "buchi" => Buchi!YWithinZ

(* An infinite play of a reactivity game in which every assumption holds   *)
(* again and again serves every guarantee again and again, whoever moves   *)
(* and wherever jx begins: rho 2 goes down, rho 3 only waits for an        *)
(* assumption, rho 1 passes on.                                            *)
ServesGuarantees ==
    (\A k \in 1 .. ConditionBound : []<>Assumed(k))
        => (\A k \in 1 .. ConditionBound : []<>(algorithm = "reactivity" => Served(k)))

(* A play of a Buchi game that goes on meets every condition again and     *)
(* again, and every check that finds a strategy gets as far as the play.   *)
MeetsConditions ==
    \A k \in 1 .. ConditionBound :
        []<>(algorithm = "buchi" => Buchi!Meets(k))
=============================================================================
