---------------------------- MODULE StrategyPlay ----------------------------
(***************************************************************************)
(* The reachability algorithm, the strategy it constructs, and the plays   *)
(* in which the winner follows it.  The play ends in a target state, won   *)
(* by the player the algorithm played for.  The strategy has no variable   *)
(* of its own: jx stays 0.                                                 *)
(***************************************************************************)
EXTENDS ReachAvoid

VARIABLES
    stage, reachable, built,        \* the construction of the strategy
    turn, pos, half, jx, winner     \* the play

playVars == <<turn, pos, half, jx, winner>>

allVars == <<vars, stage, reachable, built, playVars>>

S == INSTANCE Play WITH
        args     <- strategy,
        target   <- originalTarget,
        finisher <- player,
        modes    <- {0},
        links    <- [kl \in {<<0, 0>>} |-> MoveSpace(strategy.player)]

PlayNext == S!PlayNext /\ UNCHANGED <<vars, stage, reachable, built>>

(* Constructing the strategy, once it has been asked for.                  *)
ConstructNext == /\ strategy # NoStrategy
                 /\ S!Construct \/ S!Grow \/ S!Finish
                 /\ UNCHANGED <<vars, playVars>>

AlgorithmNext == Next /\ UNCHANGED <<stage, reachable, built, playVars>>

ComposedInit == /\ Init
                /\ S!PlayInit
                /\ stage = "idle"
                /\ reachable = {}
                /\ built = S!NothingBuilt

ComposedNext == \/ AlgorithmNext
                \/ pc = "done" /\ ConstructNext
                \/ stage = "built" /\ PlayNext

ComposedSpec == ComposedInit /\ [][ComposedNext]_allVars /\ WF_allVars(ComposedNext)

-----------------------------------------------------------------------------
(* Properties.                                                             *)

(* Whoever the strategy is for never loses a play in which it is followed, *)
(* whatever the opponent does: it never gets stuck, and an avoider never   *)
(* meets a target state.  Nothing is lost when the construction cuts the   *)
(* moves down to the states it thinks reachable and takes the moves into   *)
(* dead ends out and in again.                                             *)
OwnerNeverLoses == winner # 0 => winner = S!owner

(* The states the construction computes as reachable are all in which the  *)
(* owner ever has to move, so restricting its moves to them is harmless.   *)
PlayStaysReachable ==
    turn = (IF S!owner = 1 THEN "one" ELSE "two") => pos \in reachable

(* A strategy for reaching does reach: cyclic plays that stay in winning   *)
(* states for ever are excluded by the layers.                             *)
ReachOwnerWins == (stage = "built" /\ isTargetReached) ~> (winner = S!owner)

(* "A strategy needs to cover each initial state": when the opponent       *)
(* chooses the whole initial state, the INIT section of the strategy       *)
(* module leaves every initial state in.                                   *)
InitSectionCoversInits ==
    stage = "built" /\ S!Role = "A" => S!Inits \subseteq S!InitSection
=============================================================================
