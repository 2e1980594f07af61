--------------------------- MODULE ReactivityPlay ---------------------------
(***************************************************************************)
(* The generalized reactivity algorithm, the strategy it constructs, and   *)
(* the plays in which the player follows it.  The strategy has a variable  *)
(* jx, declared by game_declare_special_var with one value for each        *)
(* guarantee of the specification as the user wrote it.                    *)
(***************************************************************************)
EXTENDS GenReactivity

CONSTANT ConditionBound   \* no specification has more conditions of a kind

VARIABLES
    stage, reachable, built,        \* the construction of the strategy
    turn, pos, half, jx, winner     \* the play

playVars == <<turn, pos, half, jx, winner>>

allVars == <<vars, stage, reachable, built, playVars>>

jxRange == 0 .. Len(spec.guarantees) - 1

(* The parts of the strategy are cut out of its moves without looking at   *)
(* jx, so they are built from the moves alone and tied to jx afterwards.   *)
Moves == {row[3] : row \in strategy.trans}

Links == [kl \in jxRange \X jxRange |->
             {row[3] : row \in {r \in strategy.trans : <<r[1], r[2]>> = kl}}]

Plays == INSTANCE Play WITH
        args     <- [strategy EXCEPT !.trans = Moves],
        target   <- {},
        finisher <- 0,
        modes    <- jxRange,
        links    <- Links

PlayNext == Plays!PlayNext /\ UNCHANGED <<vars, stage, reachable, built>>

(* Constructing the strategy, when there is one.                           *)
ConstructNext == /\ strategy # NoStrategy
                 /\ Plays!Construct \/ Plays!Grow \/ Plays!Finish
                 /\ UNCHANGED <<vars, playVars>>

AlgorithmNext == Next /\ UNCHANGED <<stage, reachable, built, playVars>>

ComposedInit == /\ Init
                /\ Plays!PlayInit
                /\ stage = "idle"
                /\ reachable = {}
                /\ built = Plays!NothingBuilt

ComposedNext == \/ AlgorithmNext
                \/ pc = "done" /\ ConstructNext
                \/ stage = "built" /\ PlayNext

ComposedSpec == ComposedInit /\ [][ComposedNext]_allVars /\ WF_allVars(ComposedNext)

-----------------------------------------------------------------------------
(* Properties.                                                             *)

(* The answer is the right one; nothing of it changes during the play.     *)
AnswerIsRight == stage = "idle" => VerdictIsRight

(* A guarantee TRUE is not counted when the moves are computed, and a      *)
(* guarantee FALSE is the only one that is.                                *)
NoGuaranteeSkipped == pc = "done" => Len(guarantees) = Len(spec.guarantees)

(* "The moves of player 1 that, when following the strategy, let him win": *)
(* whoever follows the strategy is never stuck, so never loses a finite    *)
(* play, whatever value jx has in the beginning.                           *)
FollowerNeverStuck == winner # 0 => winner = Plays!owner

(* The same, as long as every value of jx stands for a guarantee.          *)
FollowerSafe == NoGuaranteeSkipped => FollowerNeverStuck

(* What ServesGuarantees is about: the play is in a state of a condition.  *)
AtState(exps, k) == k \in DOMAIN exps => turn = "one" /\ pos \in exps[k]

Assumed(k) == stage = "built" => AtState(spec.assumptions, k)

Served(k) == stage = "built" /\ NoGuaranteeSkipped => winner # 0 \/ AtState(spec.guarantees, k)
=============================================================================
