----------------------------- MODULE BuchiPlay -----------------------------
(***************************************************************************)
(* The Buchi algorithm, the strategy it constructs, and the plays in which *)
(* the player follows it.                                                  *)
(***************************************************************************)
EXTENDS BuchiGame

CONSTANT ConditionBound   \* no specification has more conditions

VARIABLES
    stage, reachable, built,        \* the construction of the strategy
    turn, pos, half, jx, winner     \* the play

playVars == <<turn, pos, half, jx, winner>>

allVars == <<vars, stage, reachable, built, playVars>>

jxRange == 0 .. Len(spec.guarantees) - 1

Links == [kl \in jxRange \X jxRange |->
             {row[3] : row \in {r \in strategy.trans : <<r[1], r[2]>> = kl}}]

S == INSTANCE Play WITH
        args     <- [strategy EXCEPT !.trans = {row[3] : row \in @}],
        target   <- {},
        finisher <- 0,
        modes    <- jxRange,
        links    <- Links

PlayNext == S!PlayNext /\ UNCHANGED <<vars, stage, reachable, built>>

(* Constructing the strategy, when there is one.                           *)
ConstructNext == /\ strategy # NoStrategy
                 /\ S!Construct \/ S!Grow \/ S!Finish
                 /\ UNCHANGED <<vars, playVars>>

AlgorithmNext == Next /\ UNCHANGED <<stage, reachable, built, playVars>>

ComposedInit == /\ Init
                /\ S!PlayInit
                /\ stage = "idle"
                /\ reachable = {}
                /\ built = S!NothingBuilt

ComposedNext == \/ AlgorithmNext
                \/ pc = "done" /\ ConstructNext
                \/ stage = "built" /\ PlayNext

ComposedSpec == ComposedInit /\ [][ComposedNext]_allVars /\ WF_allVars(ComposedNext)

-----------------------------------------------------------------------------
(* Properties.                                                             *)

(* Whoever follows the strategy is never stuck and never loses a finite    *)
(* play, whatever value jx has in the beginning.                           *)
OwnerNeverStuck == winner # 0 => winner = S!owner

(* The play of a game that is won is in the k-th condition.                *)
Meets(k) ==
    k \in DOMAIN spec.guarantees /\ isRealizable =>
        winner # 0 \/ (turn = "one" /\ pos \in spec.guarantees[k])
=============================================================================
