--------------------------- MODULE Realizability ---------------------------
(***************************************************************************)
(* What the check of a reachability, avoidance or deadlock specification   *)
(* promises, independently of how NuGaT decides it: one atomic answer,     *)
(* right for the game.                                                     *)
(***************************************************************************)
EXTENDS GameSpecs

VARIABLES
    game,      \* the game read from the input file
    prop,      \* the specification: its type, its player, its target
    opt,       \* the initial-condition option, "N", "A" or "E"
    verdict    \* the answer given to the user

absVars == <<game, prop, opt, verdict>>

-----------------------------------------------------------------------------

Init == /\ game \in Games
        /\ prop \in Props
        /\ opt \in Quantifiers
        /\ verdict = "none"

Decide == /\ verdict = "none"
          /\ verdict' = RightVerdict(game, prop, opt)
          /\ UNCHANGED <<game, prop, opt>>

Spec == Init /\ [][Decide]_absVars /\ WF_absVars(Decide)
=============================================================================
