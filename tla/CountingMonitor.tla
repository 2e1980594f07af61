-------------------------- MODULE CountingMonitor --------------------------
(***************************************************************************)
(* The monitor the bounded synthesis adds to a game (gameCheckLTLSF07.c):  *)
(* a counter for every state of a Buchi automaton, the greatest number of  *)
(* fair states, up to the bound k, on a run of the automaton that ends     *)
(* there, or -1 if no run does.  It is given as INIT and TRANS constraints *)
(* on the counters of player 2.                                            *)
(***************************************************************************)
EXTENDS Integers

CONSTANT Letters   \* what the labels of an automaton tell apart

(* An automaton reads the first letter in an initial state.                *)
IsAutomaton(B) ==
    /\ B = [states |-> B.states, initial |-> B.initial, trans |-> B.trans,
            fair |-> B.fair, label |-> B.label]
    /\ B.initial \subseteq B.states
    /\ B.trans \subseteq B.states \X B.states
    /\ B.fair \subseteq B.states
    /\ B.label \in [B.states -> SUBSET Letters]

Counters(B, k) == [B.states -> -1 .. k]

Holds(B, a, s) == a \in B.label[s]

Outgoing(B, s) == {t \in B.states : <<s, t>> \in B.trans}

Incoming(B, s) == {r \in B.states : <<r, s>> \in B.trans}

-----------------------------------------------------------------------------
(* The constraints; v are the counters before a letter a, w those after.   *)

InitValue(B, k, s) == IF s \notin B.fair \/ k = 0 THEN 0 ELSE 1

InitOk(B, k, a, w) ==
    \A s \in B.states :
        IF s \notin B.initial
        THEN w[s] = -1
        ELSE /\ ~Holds(B, a, s) <=> w[s] = -1
             /\ Holds(B, a, s) <=> w[s] = InitValue(B, k, s)

(* A run whose count is i goes on into t, whose count becomes n.           *)
GoesOn(B, k, i, t, n) ==
    IF i = k THEN n = i
    ELSE IF t \in B.fair THEN n > i
    ELSE n >= i

OutgoingOk(B, k, a, v, w, s) ==
    \A i \in 0 .. k : v[s] = i =>
        \A t \in Outgoing(B, s) : Holds(B, a, t) => GoesOn(B, k, i, t, w[t])

(* Whether a source with count n may be below, and is just at, a fair or   *)
(* other state s that gets the count i.                                    *)
MayBeBelow(B, k, s, i, n) == IF s \in B.fair /\ 0 < i /\ i < k THEN n < i ELSE n <= i

(* Faulty variant: a count that has reached the bound cannot be kept.      *)
NotKeptIsBelow(B, k, s, i, n) ==
    IF s \notin B.fair \/ k = 0 THEN n = i ELSE n = i - 1

IsBelow(B, k, s, i, n) ==
    IF s \notin B.fair \/ k = 0 THEN n = i
    ELSE IF i < k THEN n = i - 1
    ELSE n >= i - 1

IncomingOk(B, k, a, v, w, s) ==
    \A i \in 0 .. k : w[s] = i =>
        /\ s \notin B.fair \/ k = 0 \/ i > 0
        /\ Holds(B, a, s)
        /\ \A r \in Incoming(B, s) : MayBeBelow(B, k, s, i, v[r])
        /\ \E r \in Incoming(B, s) : IsBelow(B, k, s, i, v[r])

TransOk(B, k, a, v, w) ==
    \A s \in B.states : OutgoingOk(B, k, a, v, w, s) /\ IncomingOk(B, k, a, v, w, s)

(* Faulty variant: the counter of a state that is not fair is enough.      *)
ExceededAnywhere(B, k, v) == \E s \in B.states : v[s] = k

(* The bound is reached: what the current player has to avoid.             *)
Exceeded(B, k, v) == \E s \in B.fair : v[s] = k
=============================================================================
