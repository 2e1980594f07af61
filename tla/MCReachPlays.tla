---------------------------- MODULE MCReachPlays ----------------------------
(***************************************************************************)
(* Instances of ReachAvoid and StrategyPlay for TLC: some games are only   *)
(* decided, in others the strategy is constructed and followed as well.    *)
(***************************************************************************)
EXTENDS MCStrategyPlay

VARIABLE followed   \* the strategy is constructed and followed

(* All four states legal and initial; each player looks at one coordinate. *)
MCShallowGames == GamesOver({B}, {BB}, {B}, {BB}, Trans1ByOther, Trans2Tiny)

(* One initial state and long ways to the target.                          *)
MCDeepGames ==
    GamesOver({{0}}, {{<<0, 0>>}}, {B}, {BB}, Trans1Narrow, Trans2Narrow)

(* Every choice of the initial states, with and without illegal states.    *)
MCBoundaryGames ==
    GamesOver(SUBSET B, SUBSET BB, {B, {0}}, {BB, BB \ {<<0, 1>>}},
              {[s \in BB |-> {s[2]}], [s \in BB |-> B]}, {Trans2Copy, Trans2Avoid})

MCDecidedGames == MCShallowGames \cup MCDeepGames \cup MCBoundaryGames

MCAllGames == MCGames \cup MCDecidedGames

reachVars == <<allVars, followed>>

ReachInit ==
    /\ followed \in BOOLEAN
    /\ ComposedInit
    /\ game \in IF followed THEN MCGames ELSE MCDecidedGames

ReachNext ==
    /\ \/ followed /\ ComposedNext
       \/ ~followed /\ AlgorithmNext
    /\ UNCHANGED followed

ReachSpec == ReachInit /\ [][ReachNext]_reachVars /\ WF_reachVars(ReachNext)
=============================================================================
