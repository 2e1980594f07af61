-------------------------- MODULE ReactivitySpecs --------------------------
(***************************************************************************)
(* Generalized reactivity specifications and what they mean.  The named    *)
(* player wins a play in which the opponent gets stuck, and an infinite    *)
(* play in which some assumption holds finitely often only or every        *)
(* guarantee infinitely often.  The states it wins from are the textbook   *)
(* nested fixed point, with every set computed from scratch: no fixed      *)
(* point starts from the value of another one, all guarantees are served   *)
(* by the same Z, and all assumptions see the same Y.  A Buchi game is the *)
(* case of the assumption TRUE.                                            *)
(***************************************************************************)
EXTENDS GameMeaning, Sequences

CONSTANT Specs   \* the specifications considered

NonEmptySeq(S) == Seq(S) \ {<< >>}

SpecType == [player      : Players,
             assumptions : NonEmptySeq(SUBSET States),
             guarantees  : NonEmptySeq(SUBSET States)]

ASSUME SpecsAssumption == \A sp \in Specs : sp \in SpecType

-----------------------------------------------------------------------------
(* pre[S] is what the player can force into S in one round.                *)
Images(g, plr) == [S \in SUBSET Invar(g) |-> CanForce(g, S, plr)]

(* States the player can keep out of "fair" from, until it is in "base".   *)
Stay(pre, base, fair) ==
    UNION {X \in DOMAIN pre : X \subseteq base \cup (pre[X] \ fair)}

(* States from which the player serves one guarantee and is then in Z, or  *)
(* keeps the play out of one of the assumptions for ever.                  *)
Serve(pre, assumptions, guarantee, Z) ==
    LET Extend(Y) ==
            UNION {Stay(pre, (pre[Z] \cap guarantee) \cup pre[Y], assumptions[i])
                      : i \in DOMAIN assumptions}
        closed == {Y \in DOMAIN pre : Extend(Y) \subseteq Y}
    IN  {s \in States : \A Y \in closed : s \in Y}

WinRegion(g, sp) ==
    LET pre == Images(g, sp.player)
    IN  UNION {Z \in DOMAIN pre : \A j \in DOMAIN sp.guarantees :
                  Z \subseteq Serve(pre, sp.assumptions, sp.guarantees[j], Z)}

RightVerdict(g, sp, q) ==
    IF StartsIn(g, WinRegion(g, sp), sp.player, q) THEN "realizable" ELSE "unrealizable"
=============================================================================
