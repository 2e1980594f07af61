----------------------------- MODULE GameSpecs -----------------------------
(***************************************************************************)
(* The specifications the reachability algorithm decides, and what they    *)
(* mean: for a specification of a game, the states the named player wins   *)
(* from, and the verdict the game deserves.  Reaching is a least fixed     *)
(* point and avoiding a greatest one, both for the player the              *)
(* specification names and with the initial-condition option as the user   *)
(* set it; nothing is played for the opponent or dualised here.            *)
(***************************************************************************)
EXTENDS GameMeaning

CONSTANT Props   \* the specifications considered

TargetTypes == {"ReachTarget", "AvoidTarget"}

AvoidTypes == {"AvoidTarget", "AvoidDeadlock"}

PropTypes == TargetTypes \cup AvoidTypes \cup {"ReachDeadlock"}

PropType == [type : PropTypes, player : Players, expr : SUBSET States]

ASSUME PropsAssumption == Props \subseteq PropType

-----------------------------------------------------------------------------
(* The regions.                                                            *)

Closed(g, target, player, S) == target \subseteq S /\ CanForce(g, S, player) \subseteq S

(* Least set that holds the target and every state that forces into it.    *)
ReachRegion(g, target, player) ==
    {s \in States : \A S \in SUBSET States : Closed(g, target, player, S) => s \in S}

(* States of a target-free set the player can keep the game in forever.    *)
AvoidRegion(g, target, player) ==
    {s \in States : \E S \in SUBSET (Invar(g) \ target) :
        s \in S /\ S \subseteq CanForce(g, S, player)}

Target(g, p) == IF p.type \in TargetTypes THEN p.expr \cap Invar(g) ELSE {}

Region(g, p) ==
    IF p.type \in AvoidTypes
    THEN AvoidRegion(g, Target(g, p), p.player)
    ELSE ReachRegion(g, Target(g, p), p.player)

RightVerdict(g, p, q) ==
    IF StartsIn(g, Region(g, p), p.player, q) THEN "realizable" ELSE "unrealizable"
=============================================================================
