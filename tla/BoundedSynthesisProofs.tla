----------------------- MODULE BoundedSynthesisProofs -----------------------
(***************************************************************************)
(* Theorems about the bounded synthesis.  About its monitor, for every     *)
(* automaton, finite or not, and every bound; about what the loop over the *)
(* bounds declares and releases; and about what it answers, for every      *)
(* finite game.  The argument for the answers: an avoidance game is won    *)
(* when there is a set of states of the product from which the player can  *)
(* stay in the set (a safe set).  Along a play that stays in one, no run   *)
(* of the automaton is fair again and again, and so the fixed point of the *)
(* complementary formula is reached (LoopVerdicts).  The fixed points have *)
(* tactics, by the rank of a state; a state of the automaton from which    *)
(* no run along the tactic is fair again and again has only so many fair   *)
(* states ahead, and the states of the product whose counters leave enough *)
(* for them are a safe set.  As one player or the other wins the game      *)
(* itself (LtlGamesAreDetermined), a large enough bound decides it         *)
(* (LoopIsComplete).                                                       *)
(***************************************************************************)
EXTENDS BoundedSynthesis, GameMeaningProofs, WringAutomata, WellFoundedInduction,
        FiniteSetTheorems, TLAPS

-----------------------------------------------------------------------------
(* What the counters are for.                                              *)

(* Counts of the runs that can be prolonged into t.                        *)
Counts(B, v, t) == {v[r] : r \in Incoming(B, t)} \ {-1}

IsGreatest(m, S) == m \in S /\ \A n \in S : n <= m

(* The counters after the letter a: a run that cannot be prolonged is      *)
(* forgotten, and entering a fair state is worth one, up to the bound.     *)
Prolonged(B, k, a, v, t) ==
    IF ~Holds(B, a, t) \/ Counts(B, v, t) = {}
    THEN -1
    ELSE LET m == CHOOSE m \in Counts(B, v, t) : IsGreatest(m, Counts(B, v, t))
         IN  IF t \in B.fair /\ m < k THEN m + 1 ELSE m

CountOn(B, k, a, v) == [t \in B.states |-> Prolonged(B, k, a, v, t)]

-----------------------------------------------------------------------------
(* What is counted.                                                        *)

(* Numbers up to a bound have a greatest one.                              *)
LEMMA GreatestExists ==
    ASSUME NEW k \in Nat, NEW S, S \subseteq 0 .. k, S # {}
    PROVE  \E m \in S : IsGreatest(m, S)
<1>. DEFINE T == {k - n : n \in S}
<1>1. T \subseteq Nat /\ T # {}
  <2>1. ASSUME NEW n \in S PROVE k - n \in Nat
    BY n \in 0 .. k
  <2>. QED  BY <2>1
<1>2. PICK x \in T : \A y \in T : ~(<<y, x>> \in OpToRel(<, Nat))
  BY <1>1, NatLessThanWellFounded, WFMin
<1>3. \A y \in T : ~(y < x)
  BY <1>1, <1>2 DEF OpToRel
<1>4. PICK m \in S : x = k - m
  OBVIOUS
<1>5. ASSUME NEW n \in S PROVE n <= m
  <2>1. ~(k - n < x)
    BY <1>3
  <2>. QED  BY <1>4, <2>1
<1>. QED  BY <1>5 DEF IsGreatest

LEMMA CountsType ==
    ASSUME NEW B, IsAutomaton(B), NEW k \in Nat, NEW v \in Counters(B, k), NEW t
    PROVE  Counts(B, v, t) \subseteq 0 .. k
<1>1. ASSUME NEW r \in B.states PROVE v[r] \in -1 .. k
  BY DEF Counters
<1>2. ASSUME NEW n \in -1 .. k, n # -1 PROVE n \in 0 .. k
  BY <1>2
<1>3. ASSUME NEW n \in Counts(B, v, t) PROVE n \in 0 .. k
  <2>1. PICK r \in B.states : n = v[r]
    BY DEF Counts, Incoming
  <2>2. n # -1
    BY DEF Counts
  <2>. QED  BY <1>1, <1>2, <2>1, <2>2
<1>. QED  BY <1>3

(* What the counter of t is, without choosing.                             *)
LEMMA ProlongedIs ==
    ASSUME NEW B, IsAutomaton(B), NEW k \in Nat, NEW a, NEW v \in Counters(B, k),
           NEW t \in B.states
    PROVE  /\ ~Holds(B, a, t) \/ Counts(B, v, t) = {} => Prolonged(B, k, a, v, t) = -1
           /\ \A m \in Counts(B, v, t) :
                 Holds(B, a, t) /\ IsGreatest(m, Counts(B, v, t)) =>
                    Prolonged(B, k, a, v, t) = IF t \in B.fair /\ m < k THEN m + 1 ELSE m
<1>1. ~Holds(B, a, t) \/ Counts(B, v, t) = {} => Prolonged(B, k, a, v, t) = -1
  BY DEF Prolonged
<1>2. ASSUME NEW m \in Counts(B, v, t), Holds(B, a, t), IsGreatest(m, Counts(B, v, t))
      PROVE  Prolonged(B, k, a, v, t) = IF t \in B.fair /\ m < k THEN m + 1 ELSE m
  <2>. DEFINE c == CHOOSE n \in Counts(B, v, t) : IsGreatest(n, Counts(B, v, t))
  <2>1. c \in Counts(B, v, t) /\ IsGreatest(c, Counts(B, v, t))
    BY <1>2
  <2>2. c <= m /\ m <= c
    BY <1>2, <2>1 DEF IsGreatest
  <2>3. c = m
    <3>. HIDE DEF c
    <3>. QED  BY <1>2, <2>1, <2>2, CountsType
  <2>4. Prolonged(B, k, a, v, t) = IF t \in B.fair /\ c < k THEN c + 1 ELSE c
    BY <1>2 DEF Prolonged
  <2>. QED  BY <2>3, <2>4
<1>. QED  BY <1>1, <1>2

LEMMA CountOnType ==
    ASSUME NEW B, IsAutomaton(B), NEW k \in Nat, NEW a, NEW v \in Counters(B, k)
    PROVE  CountOn(B, k, a, v) \in Counters(B, k)
<1>1. ASSUME NEW t \in B.states PROVE Prolonged(B, k, a, v, t) \in -1 .. k
  <2>1. CASE ~Holds(B, a, t) \/ Counts(B, v, t) = {}
    BY <2>1, ProlongedIs
  <2>2. CASE Holds(B, a, t) /\ Counts(B, v, t) # {}
    <3>1. PICK m \in Counts(B, v, t) : IsGreatest(m, Counts(B, v, t))
      BY <2>2, CountsType, GreatestExists
    <3>2. m \in 0 .. k
      BY CountsType
    <3>. QED  BY <2>2, <3>1, <3>2, ProlongedIs
  <2>. QED  BY <2>1, <2>2
<1>. QED  BY <1>1 DEF CountOn, Counters

-----------------------------------------------------------------------------
(* The constraints and the counting.                                       *)

(* A source of t that is counted, and what the greatest of them is.        *)
LEMMA CountedSource ==
    ASSUME NEW B, IsAutomaton(B), NEW k \in Nat, NEW v \in Counters(B, k),
           NEW t \in B.states
    PROVE  /\ \A n \in Counts(B, v, t) : \E r \in Incoming(B, t) : v[r] = n
           /\ \A r \in Incoming(B, t) : r \in B.states /\ v[r] \in -1 .. k
           /\ \A r \in Incoming(B, t) : v[r] # -1 => v[r] \in Counts(B, v, t)
           /\ \A r \in B.states : t \in Outgoing(B, r) <=> r \in Incoming(B, t)
  BY DEF Counts, Counters, Incoming, Outgoing

(* A counter the constraints allow is the one that is counted.             *)
LEMMA ConstraintsCount ==
    ASSUME NEW B, IsAutomaton(B), NEW k \in Nat, NEW a,
           NEW v \in Counters(B, k), NEW w \in Counters(B, k),
           TransOk(B, k, a, v, w), NEW t \in B.states
    PROVE  w[t] = Prolonged(B, k, a, v, t)
<1>1. w[t] \in -1 .. k
  BY DEF Counters
<1>. DEFINE i == w[t]
<1>2. ASSUME i # -1
      PROVE  /\ t \notin B.fair \/ k = 0 \/ i > 0
             /\ Holds(B, a, t)
             /\ \E r \in Incoming(B, t) : IsBelow(B, k, t, i, v[r])
  <2>1. i \in 0 .. k
    BY <1>1, <1>2
  <2>. QED  BY <2>1 DEF TransOk, IncomingOk
<1>3. CASE ~Holds(B, a, t)
  BY <1>2, <1>3, ProlongedIs
<1>4. CASE Holds(B, a, t) /\ Counts(B, v, t) = {}
  <2>1. ASSUME i # -1 PROVE FALSE
    <3>1. PICK r \in Incoming(B, t) : IsBelow(B, k, t, i, v[r])
      BY <1>2, <2>1
    <3>2. v[r] = -1
      BY <1>4, CountedSource
    <3>. QED  BY <1>1, <1>2, <2>1, <3>1, <3>2 DEF IsBelow
  <2>. QED  BY <1>4, <2>1, ProlongedIs
<1>5. CASE Holds(B, a, t) /\ Counts(B, v, t) # {}
  <2>1. PICK m \in Counts(B, v, t) : IsGreatest(m, Counts(B, v, t))
    BY <1>5, CountsType, GreatestExists
  <2>2. m \in 0 .. k
    BY CountsType
  <2>3. PICK s \in Incoming(B, t) : v[s] = m
    BY CountedSource
  <2>4. GoesOn(B, k, m, t, i)
    <3>1. s \in B.states /\ t \in Outgoing(B, s)
      BY CountedSource
    <3>2. OutgoingOk(B, k, a, v, w, s)
      BY <3>1 DEF TransOk
    <3>. QED  BY <1>5, <2>2, <2>3, <3>1, <3>2 DEF OutgoingOk
  <2>5. i # -1
    BY <1>1, <2>2, <2>4 DEF GoesOn
  <2>6. PICK r \in Incoming(B, t) : IsBelow(B, k, t, i, v[r])
    BY <1>2, <2>5
  <2>7. v[r] <= m /\ v[r] \in -1 .. k
    <3>1. v[r] \in -1 .. k /\ (v[r] # -1 => v[r] \in Counts(B, v, t))
      BY CountedSource
    <3>. QED  BY <2>1, <2>2, <3>1 DEF IsGreatest
  <2>8. t \notin B.fair \/ k = 0 \/ i > 0
    BY <1>2, <2>5
  <2>9. i = IF t \in B.fair /\ m < k THEN m + 1 ELSE m
    BY <1>1, <2>2, <2>4, <2>6, <2>7, <2>8 DEF GoesOn, IsBelow
  <2>. QED  BY <1>5, <2>1, <2>9, ProlongedIs
<1>. QED  BY <1>3, <1>4, <1>5

(* The counters that are counted are allowed by the constraints.           *)
LEMMA CountingIsAllowed ==
    ASSUME NEW B, IsAutomaton(B), NEW k \in Nat, NEW a, NEW v \in Counters(B, k)
    PROVE  TransOk(B, k, a, v, CountOn(B, k, a, v))
<1>. DEFINE w == CountOn(B, k, a, v)
<1>1. \A t \in B.states : w[t] = Prolonged(B, k, a, v, t) /\ w[t] \in -1 .. k
  BY CountOnType DEF CountOn, Counters
<1>. HIDE DEF w
<1>2. ASSUME NEW s \in B.states PROVE OutgoingOk(B, k, a, v, w, s)
  <2>1. ASSUME NEW i \in 0 .. k, v[s] = i, NEW t \in Outgoing(B, s), Holds(B, a, t)
        PROVE  GoesOn(B, k, i, t, w[t])
    <3>1. t \in B.states /\ s \in Incoming(B, t)
      BY CountedSource DEF Outgoing
    <3>2. i \in Counts(B, v, t)
      BY <2>1, <3>1, CountedSource
    <3>3. PICK m \in Counts(B, v, t) : IsGreatest(m, Counts(B, v, t))
      BY <3>2, CountsType, GreatestExists
    <3>4. m \in 0 .. k /\ i <= m
      BY <3>2, <3>3, CountsType DEF IsGreatest
    <3>5. w[t] = IF t \in B.fair /\ m < k THEN m + 1 ELSE m
      BY <1>1, <2>1, <3>1, <3>3, ProlongedIs
    <3>. QED  BY <2>1, <3>4, <3>5 DEF GoesOn
  <2>. QED  BY <2>1 DEF OutgoingOk
<1>3. ASSUME NEW t \in B.states PROVE IncomingOk(B, k, a, v, w, t)
  <2>1. ASSUME NEW i \in 0 .. k, w[t] = i
        PROVE  /\ t \notin B.fair \/ k = 0 \/ i > 0
               /\ Holds(B, a, t)
               /\ \A r \in Incoming(B, t) : MayBeBelow(B, k, t, i, v[r])
               /\ \E r \in Incoming(B, t) : IsBelow(B, k, t, i, v[r])
    <3>1. Holds(B, a, t) /\ Counts(B, v, t) # {}
      <4>1. i # -1
        BY <2>1
      <4>. QED  BY <1>1, <2>1, <4>1, ProlongedIs
    <3>2. PICK m \in Counts(B, v, t) : IsGreatest(m, Counts(B, v, t))
      BY <3>1, CountsType, GreatestExists
    <3>3. m \in 0 .. k
      BY CountsType
    <3>4. i = IF t \in B.fair /\ m < k THEN m + 1 ELSE m
      BY <1>1, <2>1, <3>1, <3>2, ProlongedIs
    <3>5. ASSUME NEW r \in Incoming(B, t) PROVE MayBeBelow(B, k, t, i, v[r])
      <4>1. v[r] \in -1 .. k /\ (v[r] # -1 => v[r] \in Counts(B, v, t))
        BY CountedSource
      <4>2. v[r] <= m
        BY <3>2, <3>3, <4>1 DEF IsGreatest
      <4>. QED  BY <2>1, <3>3, <3>4, <4>1, <4>2 DEF MayBeBelow
    <3>6. PICK r \in Incoming(B, t) : v[r] = m
      BY CountedSource
    <3>7. IsBelow(B, k, t, i, v[r])
      BY <2>1, <3>3, <3>4, <3>6 DEF IsBelow
    <3>8. t \notin B.fair \/ k = 0 \/ i > 0
      BY <2>1, <3>3, <3>4
    <3>. QED  BY <3>1, <3>5, <3>6, <3>7, <3>8
  <2>. QED  BY <2>1 DEF IncomingOk
<1>. QED  BY <1>2, <1>3 DEF TransOk, w

(* Whatever the automaton, the bound, the counters and the letter, the     *)
(* TRANS constraint of the monitor is fulfilled by exactly one next value  *)
(* of its counters: the monitor takes no move from the player it belongs   *)
(* to and leaves it no choice, and what it computes is the greatest count. *)
THEOREM MonitorCounts ==
    ASSUME NEW B, IsAutomaton(B), NEW k \in Nat, NEW a, NEW v \in Counters(B, k)
    PROVE  \A w \in Counters(B, k) : TransOk(B, k, a, v, w) <=> w = CountOn(B, k, a, v)
<1>1. ASSUME NEW w \in Counters(B, k), TransOk(B, k, a, v, w)
      PROVE  w = CountOn(B, k, a, v)
  <2>1. \A t \in B.states : w[t] = Prolonged(B, k, a, v, t)
    BY <1>1, ConstraintsCount
  <2>. QED  BY <2>1 DEF CountOn, Counters
<1>. QED  BY <1>1, CountingIsAllowed

(* So does the INIT constraint, for the first letter.                      *)
THEOREM MonitorStarts ==
    ASSUME NEW B, IsAutomaton(B), NEW k \in Nat, NEW a
    PROVE  \E w \in Counters(B, k) :
               \A u \in Counters(B, k) : InitOk(B, k, a, u) <=> u = w
<1>. DEFINE w == [s \in B.states |-> IF s \in B.initial /\ Holds(B, a, s)
                                     THEN InitValue(B, k, s) ELSE -1]
<1>1. \A s \in B.states : InitValue(B, k, s) \in 0 .. k
  BY DEF InitValue
<1>2. w \in Counters(B, k)
  BY <1>1 DEF Counters
<1>3. ASSUME NEW u \in Counters(B, k) PROVE InitOk(B, k, a, u) <=> u = w
  <2>1. \A s \in B.states : InitValue(B, k, s) # -1
    BY <1>1
  <2>2. InitOk(B, k, a, u) <=> \A s \in B.states : u[s] = w[s]
    BY <2>1 DEF InitOk
  <2>. QED  BY <2>2 DEF Counters
<1>. QED  BY <1>2, <1>3

-----------------------------------------------------------------------------
(* The monitor in the game.                                                *)

LEMMA BoundsParts ==
    /\ MaxK \in Nat
    /\ \A b \in Bounds : b[1] \in Nat /\ b[2] \in 0 .. MaxK
<1>. DEFINE ends == {b[2] : b \in Bounds}
<1>1. \A b \in Bounds : b[1] \in Nat /\ b[2] \in Nat
  BY SynthesisAssumption
<1>2. \E n \in ends : \A b \in Bounds : b[2] <= n
  BY SynthesisAssumption
<1>3. MaxK \in ends /\ \A b \in Bounds : b[2] <= MaxK
  BY <1>2 DEF MaxK
<1>. QED  BY <1>1, <1>3

LEMMA TabulatedIsSame == ASSUME NEW f PROVE Tabulated(f) = f
  BY DEF Tabulated

LEMMA AutomatonIsOne == \A op \in Ops : IsAutomaton(Automaton[op])
<1>1. ASSUME NEW B, IsAutomaton(B) PROVE IsAutomaton(WithFairness(B))
  <2>. DEFINE C == [B EXCEPT !.fair = B.states]
  <2>1. B = [states |-> B.states, initial |-> B.initial, trans |-> B.trans,
             fair |-> B.fair, label |-> B.label]
    BY <1>1 DEF IsAutomaton
  <2>2. C = [states |-> B.states, initial |-> B.initial, trans |-> B.trans,
             fair |-> B.states, label |-> B.label]
    BY <2>1
  <2>3. IsAutomaton(C)
    <3>. HIDE DEF C
    <3>. QED  BY <1>1, <2>2 DEF IsAutomaton
  <2>. QED  BY <1>1, <2>3 DEF WithFairness
<1>2. \A op \in Ops : IsAutomaton(Ltl2Gba[op])
  BY SynthesisAssumption
<1>. QED  BY <1>1, <1>2 DEF Automaton

(* Whatever the operator, the bound and the letter, the tabulated          *)
(* constraints have one solution.                                          *)
LEMMA OneSolution ==
    ASSUME NEW op \in Ops, NEW k \in 0 .. MaxK, NEW a \in BOOLEAN
    PROVE  /\ Cardinality(MonitorInit[<<op, k, a>>]) = 1
           /\ \A v \in Counters(Automaton[op], k) :
                 Cardinality(MonitorTrans[<<op, k, a>>][v]) = 1
<1>. DEFINE B == Automaton[op]
<1>1. IsAutomaton(B) /\ k \in Nat
  BY AutomatonIsOne, BoundsParts
<1>2. Cardinality(MonitorInit[<<op, k, a>>]) = 1
  <2>1. MonitorInit[<<op, k, a>>] = {w \in Counters(B, k) : InitOk(B, k, a, w)}
    BY TabulatedIsSame DEF MonitorInit, Monitors
  <2>2. PICK w \in Counters(B, k) : \A u \in Counters(B, k) : InitOk(B, k, a, u) <=> u = w
    BY <1>1, MonitorStarts
  <2>3. MonitorInit[<<op, k, a>>] = {w}
    BY <2>1, <2>2
  <2>. QED  BY <2>3, FS_Singleton
<1>3. ASSUME NEW v \in Counters(B, k)
      PROVE  Cardinality(MonitorTrans[<<op, k, a>>][v]) = 1
  <2>1. MonitorTrans[<<op, k, a>>][v] = {w \in Counters(B, k) : TransOk(B, k, a, v, w)}
    <3>. DEFINE row == [u \in Counters(B, k) |-> {w \in Counters(B, k) : TransOk(B, k, a, u, w)}]
    <3>1. MonitorTrans[<<op, k, a>>] = Tabulated(row)
      BY TabulatedIsSame DEF MonitorTrans, Monitors
    <3>2. Tabulated(row) = row
      BY TabulatedIsSame
    <3>. QED  BY <3>1, <3>2
  <2>2. \A w \in Counters(B, k) : TransOk(B, k, a, v, w) <=> w = CountOn(B, k, a, v)
    BY <1>1, MonitorCounts
  <2>3. CountOn(B, k, a, v) \in Counters(B, k)
    BY <1>1, CountOnType
  <2>4. MonitorTrans[<<op, k, a>>][v] = {CountOn(B, k, a, v)}
    BY <2>1, <2>2, <2>3
  <2>. QED  BY <2>4, FS_Singleton
<1>. QED  BY <1>2, <1>3

-----------------------------------------------------------------------------
(* The invariant of the loop over the bounds.                              *)

InIteration == pc \in {"automaton", "monitor", "product", "check"}

(* The layers of the last iteration exist.                                 *)
Alive == InIteration \/ (pc \in {"iterated", "report"} /\ Decided)

QuestionInv == formula \in Formulas /\ specPlayer \in Players

BoundInv ==
    /\ currK \in Nat
    /\ args.kmax \in 0 .. MaxK
    /\ InIteration => currK <= args.kmax

StageInv ==
    /\ pc \in {"idle", "loop", "iterated", "report"} \/ InIteration
    /\ status \in {"Unchecked", "True", "False"}
    /\ pc = "loop" \/ InIteration => status = "Unchecked"

(* What an error leaves is declared for ever, under a number of its own.   *)
LayersInv ==
    /\ number \in Nat \cup {-1}
    /\ failures \in Nat
    /\ declared \subseteq 0 .. number
    /\ Alive => number \in declared
    /\ Cardinality(declared) = IF Alive THEN failures + 1 ELSE failures

BuiltInv == pc = "automaton" \/ ~Alive => built = {}

SynthesisInv == QuestionInv /\ BoundInv /\ StageInv /\ LayersInv /\ BuiltInv

LEMMA SynthesisInvInit == Init => SynthesisInv
<1>. SUFFICES ASSUME Init PROVE SynthesisInv
  OBVIOUS
<1>1. QuestionInv
  BY DEF Init, QuestionInv
<1>2. BoundInv
  BY BoundsParts DEF Init, BoundInv, InIteration
<1>3. StageInv /\ BuiltInv
  BY DEF Init, StageInv, BuiltInv
<1>4. LayersInv
  BY FS_EmptySet DEF Init, LayersInv, Alive, InIteration
<1>. QED  BY <1>1, <1>2, <1>3, <1>4 DEF SynthesisInv

(* Declared layers are finitely many.                                      *)
LEMMA DeclaredIsFinite ==
    ASSUME LayersInv
    PROVE  IsFiniteSet(declared) /\ \A n \in declared : n \in Nat /\ n <= number
<1>1. number \in Int
  BY DEF LayersInv
<1>2. declared \subseteq 0 .. number
  BY DEF LayersInv
<1>3. IsFiniteSet(declared)
  <2>1. 0 \in Int /\ IsFiniteSet(0 .. number)
    BY <1>1, FS_Interval
  <2>. QED  BY <1>2, <2>1, FS_Subset
<1>4. \A n \in declared : n \in Nat /\ n <= number
  BY <1>1, <1>2
<1>. QED  BY <1>3, <1>4

(* Where an iteration is destroyed.                                        *)
LEMMA ReleaseLayers ==
    ASSUME LayersInv, Alive
    PROVE  /\ declared \ {number} \subseteq 0 .. number
           /\ Cardinality(declared \ {number}) = failures
<1>1. IsFiniteSet(declared) /\ number \in declared
  BY DeclaredIsFinite DEF LayersInv
<1>2. Cardinality(declared) = failures + 1 /\ failures \in Nat
  BY DEF LayersInv
<1>3. Cardinality(declared \ {number}) = Cardinality(declared) - 1
  BY <1>1, FS_RemoveElement
<1>. QED  BY <1>2, <1>3 DEF LayersInv

LEMMA StartKeeps == ASSUME SynthesisInv, Start PROVE SynthesisInv'
<1>. USE DEF SynthesisInv
<1>1. QuestionInv'
  BY DEF Start, QuestionInv, prop
<1>2. BoundInv'
  <2>1. PICK b \in Bounds : args'.kmin = b[1] /\ args'.kmax = b[2]
    BY DEF Start
  <2>. QED  BY <2>1, BoundsParts DEF Start, BoundInv, InIteration
<1>3. StageInv'
  BY DEF Start, StageInv, InIteration
<1>4. LayersInv' /\ BuiltInv'
  BY DEF Start, LayersInv, BuiltInv, StageInv, Alive, InIteration, Decided
<1>. QED  BY <1>1, <1>2, <1>3, <1>4

(* The next number is greater than those that are declared.                *)
LEMMA NextNumberIsFree ==
    ASSUME LayersInv
    PROVE  number + 1 \in Nat /\ number + 1 \notin declared /\ declared \subseteq 0 .. number + 1
<1>1. number \in Nat \cup {-1}
  BY DEF LayersInv
<1>. QED  BY <1>1, DeclaredIsFinite

LEMMA CreateIterationKeeps == ASSUME SynthesisInv, CreateIteration PROVE SynthesisInv'
<1>. USE DEF SynthesisInv
<1>1. QuestionInv' /\ BoundInv' /\ StageInv' /\ BuiltInv'
  BY DEF CreateIteration, QuestionInv, BoundInv, StageInv, BuiltInv, InIteration, prop, history
<1>2. LayersInv'
  <2>1. ~Alive /\ Alive'
    BY DEF CreateIteration, StageInv, Alive, InIteration
  <2>2. Cardinality(declared) = failures /\ failures \in Nat
    BY <2>1 DEF LayersInv
  <2>3. Cardinality(declared \cup {number + 1}) = failures + 1
    BY <2>2, NextNumberIsFree, DeclaredIsFinite, FS_AddElement
  <2>4. number' = number + 1 /\ declared' = declared \cup {number + 1} /\ failures' = failures
    BY DEF CreateIteration, history
  <2>. QED  BY <2>1, <2>2, <2>3, <2>4, NextNumberIsFree DEF LayersInv
<1>. QED  BY <1>1, <1>2

(* After an error the layers stay, and nobody will destroy them.           *)
LEMMA ConstructBaKeeps == ASSUME SynthesisInv, ConstructBa PROVE SynthesisInv'
<1>. USE DEF SynthesisInv
<1>1. QuestionInv' /\ BoundInv'
  BY DEF ConstructBa, QuestionInv, BoundInv, InIteration, prop
<1>2. StageInv' /\ BuiltInv'
  BY DEF ConstructBa, StageInv, BuiltInv, InIteration, Alive
<1>3. LayersInv'
  BY DEF ConstructBa, LayersInv, Alive, InIteration
<1>. QED  BY <1>1, <1>2, <1>3

LEMMA BuildingKeeps ==
    ASSUME SynthesisInv, ConstructMonitor \/ ConstructProduct PROVE SynthesisInv'
<1>. USE DEF SynthesisInv, ConstructMonitor, ConstructProduct
<1>1. QuestionInv' /\ BoundInv'
  BY DEF QuestionInv, BoundInv, InIteration, prop
<1>2. StageInv' /\ BuiltInv'
  BY DEF StageInv, BuiltInv, InIteration, Alive
<1>3. LayersInv'
  BY DEF LayersInv, Alive, InIteration, history
<1>. QED  BY <1>1, <1>2, <1>3

(* An iteration without an answer is destroyed; with one it is kept.       *)
LEMMA CheckGoalKeeps == ASSUME SynthesisInv, CheckGoal PROVE SynthesisInv'
<1>. USE DEF SynthesisInv
<1>1. QuestionInv' /\ BoundInv'
  BY DEF CheckGoal, QuestionInv, BoundInv, InIteration, prop
<1>2. /\ pc = "check" /\ pc' = "iterated" /\ number' = number /\ failures' = failures
      /\ status = "Unchecked" /\ Alive
  BY DEF CheckGoal, StageInv, Alive, InIteration, history
<1>3. CASE realizable' = "realizable"
  <2>1. status' \in {"True", "False"} /\ declared' = declared /\ Alive'
    BY <1>2, <1>3 DEF CheckGoal, Alive, Decided
  <2>2. StageInv' /\ BuiltInv'
    BY <1>2, <2>1 DEF StageInv, BuiltInv, InIteration
  <2>3. LayersInv'
    BY <1>2, <2>1 DEF LayersInv
  <2>. QED  BY <1>1, <2>2, <2>3
<1>4. CASE realizable' # "realizable"
  <2>1. status' = "Unchecked" /\ declared' = declared \ {number} /\ built' = {}
    BY <1>2, <1>4 DEF CheckGoal
  <2>2. ~Alive'
    BY <1>2, <2>1 DEF Alive, InIteration, Decided
  <2>3. StageInv' /\ BuiltInv'
    BY <1>2, <2>1, <2>2 DEF StageInv, BuiltInv, InIteration
  <2>4. LayersInv'
    BY <1>2, <2>1, <2>2, ReleaseLayers DEF LayersInv
  <2>. QED  BY <1>1, <2>3, <2>4
<1>. QED  BY <1>3, <1>4

LEMMA LeavingKeeps == ASSUME SynthesisInv, NextIteration \/ LeaveLoop PROVE SynthesisInv'
<1>. USE DEF SynthesisInv, NextIteration, LeaveLoop
<1>1. QuestionInv' /\ BoundInv'
  BY DEF QuestionInv, BoundInv, InIteration, prop
<1>2. StageInv'
  BY DEF StageInv, InIteration, Decided
<1>3. (Alive' <=> Alive) /\ pc # "automaton" /\ pc' # "automaton"
  BY DEF StageInv, Alive, InIteration, Decided
<1>4. LayersInv' /\ BuiltInv'
  BY <1>3 DEF LayersInv, BuiltInv, history
<1>. QED  BY <1>1, <1>2, <1>4

(* What the assertion at the end says is true.                             *)
LEMMA FinishKeeps == ASSUME SynthesisInv, Finish PROVE SynthesisInv'
<1>. USE DEF SynthesisInv
<1>1. built' = {}
  BY DEF Finish, BuiltInv, Alive, InIteration
<1>2. pc = "report" /\ pc' = "idle" /\ ~Alive'
  BY <1>1 DEF Finish, Alive, InIteration
<1>3. QuestionInv' /\ BoundInv' /\ StageInv' /\ BuiltInv'
  BY <1>1, <1>2 DEF Finish, QuestionInv, BoundInv, StageInv, BuiltInv, InIteration, prop
<1>4. number' = number /\ failures' = failures
  BY DEF Finish, history
<1>5. CASE Decided
  <2>1. Alive /\ declared' = declared \ {number}
    BY <1>2, <1>5 DEF Finish, Alive
  <2>2. LayersInv'
    BY <1>2, <1>4, <2>1, ReleaseLayers DEF LayersInv
  <2>. QED  BY <1>3, <2>2
<1>6. CASE ~Decided
  <2>1. ~Alive /\ declared' = declared
    BY <1>2, <1>6 DEF Finish, Alive, InIteration
  <2>2. LayersInv'
    BY <1>2, <1>4, <2>1 DEF LayersInv
  <2>. QED  BY <1>3, <2>2
<1>. QED  BY <1>5, <1>6

LEMMA SynthesisInvStep == SynthesisInv /\ [Next]_vars => SynthesisInv'
<1>. SUFFICES ASSUME SynthesisInv, [Next]_vars PROVE SynthesisInv'
  OBVIOUS
<1>1. CASE Start
  BY <1>1, StartKeeps
<1>2. CASE CreateIteration
  BY <1>2, CreateIterationKeeps
<1>3. CASE ConstructBa
  BY <1>3, ConstructBaKeeps
<1>4. CASE ConstructMonitor \/ ConstructProduct
  BY <1>4, BuildingKeeps
<1>5. CASE CheckGoal
  BY <1>5, CheckGoalKeeps
<1>6. CASE NextIteration \/ LeaveLoop
  BY <1>6, LeavingKeeps
<1>7. CASE Finish
  BY <1>7, FinishKeeps
<1>8. CASE UNCHANGED vars
  BY <1>8 DEF vars, prop, history, SynthesisInv, QuestionInv, BoundInv, StageInv, LayersInv,
              BuiltInv, Alive, InIteration, Decided
<1>. QED  BY <1>1, <1>2, <1>3, <1>4, <1>5, <1>6, <1>7, <1>8 DEF Next, Iteration

LEMMA SynthesisInvariant == Spec => []SynthesisInv
  BY SynthesisInvInit, SynthesisInvStep, PTL DEF Spec

-----------------------------------------------------------------------------
(* The properties of the loop.                                             *)

(* Whenever the function is left, nothing of it is left but one iteration  *)
(* for every error, and the assertion at its end never fails.              *)
THEOREM LoopReleases == Spec => []AllReleased
<1>1. SynthesisInv => AllReleased
  BY DEF SynthesisInv, StageInv, LayersInv, Alive, InIteration, AllReleased
<1>. QED  BY <1>1, SynthesisInvariant, PTL

(* The variables of a monitor have names nobody has, whatever iterations   *)
(* errors have left declared.                                              *)
THEOREM LoopNames == Spec => NamesAreFresh
<1>1. SynthesisInv => [CreateIteration => number' \notin declared]_vars
  BY NextNumberIsFree DEF SynthesisInv, CreateIteration
<1>. QED  BY <1>1, SynthesisInvariant, PTL DEF NamesAreFresh

(* In every iteration, for automata of any size and any bound, the monitor *)
(* takes no move away from player 2 and gives it no choice.                *)
THEOREM LoopMonitor == Spec => []MonitorNeverBlocks
<1>1. ASSUME SynthesisInv, pc = "monitor"
      PROVE  currK \in 0 .. MaxK
  BY <1>1, BoundsParts DEF SynthesisInv, BoundInv, InIteration
<1>2. ASSUME SynthesisInv, NEW mine \in BOOLEAN
      PROVE  Bad(formula, mine).op \in Ops
  <2>1. formula \in LtlType /\ Negation(formula) \in LtlType
    BY <1>2, SynthesisAssumption DEF SynthesisInv, QuestionInv
  <2>. QED  BY <2>1 DEF Bad, LtlType
<1>3. SynthesisInv => MonitorNeverBlocks
  BY <1>1, <1>2, OneSolution DEF MonitorNeverBlocks
<1>. QED  BY <1>3, SynthesisInvariant, PTL

-----------------------------------------------------------------------------
(* Fixed points.                                                           *)

Orbit(f, D, T) ==
    {U \in D : \A C \in SUBSET D : T \in C /\ (\A W \in C : f[W] \in C) => U \in C}

FixedIn(f, D, T) == {U \in Orbit(f, D, T) : f[U] = U}

(* The orbit of T is T itself and the orbit of what follows it.            *)
LEMMA OrbitStep ==
    ASSUME NEW D, NEW f \in [D -> D], NEW T \in D
    PROVE  Orbit(f, D, T) = {T} \cup Orbit(f, D, f[T])
<1>1. ASSUME NEW U \in Orbit(f, D, f[T]) PROVE U \in Orbit(f, D, T)
  BY <1>1 DEF Orbit
<1>2. T \in Orbit(f, D, T)
  BY DEF Orbit
<1>3. ASSUME NEW U \in Orbit(f, D, T) PROVE U \in {T} \cup Orbit(f, D, f[T])
  <2>. DEFINE C == {T} \cup Orbit(f, D, f[T])
  <2>1. C \in SUBSET D /\ T \in C
    BY DEF Orbit
  <2>2. f[T] \in C
    BY DEF Orbit
  <2>3. ASSUME NEW W \in Orbit(f, D, f[T]) PROVE f[W] \in C
    BY DEF Orbit
  <2>4. \A W \in C : f[W] \in C
    BY <2>2, <2>3
  <2>. QED  BY <2>1, <2>4, <1>3 DEF Orbit
<1>. QED  BY <1>1, <1>2, <1>3

(* What a recursive function means whose recursion may not end everywhere. *)
LEMMA FixedPointEquation ==
    ASSUME NEW D, NEW f \in [D -> D]
    PROVE  \E h : /\ \A T \in D : h[T] = IF f[T] = T THEN T ELSE h[f[T]]
                  /\ \A S : FixedPoint(f, S) = h[S]
<1>. DEFINE sol(h) == h = [T \in DOMAIN f |-> IF f[T] = T THEN T ELSE h[f[T]]]
            w == [T \in D |-> CHOOSE U : U \in FixedIn(f, D, T)]
            h == CHOOSE h : sol(h)
<1>1. ASSUME NEW T \in D PROVE w[T] = IF f[T] = T THEN T ELSE w[f[T]]
  <2>1. CASE f[T] = T
    <3>1. FixedIn(f, D, T) \subseteq {T}
      <4>1. {T} \in SUBSET D /\ \A W \in {T} : f[W] \in {T}
        BY <2>1
      <4>. QED  BY <4>1 DEF FixedIn, Orbit
    <3>2. T \in FixedIn(f, D, T)
      BY <2>1, OrbitStep DEF FixedIn
    <3>. QED  BY <2>1, <3>1, <3>2
  <2>2. CASE f[T] # T
    <3>1. FixedIn(f, D, T) = FixedIn(f, D, f[T])
      BY <2>2, OrbitStep DEF FixedIn
    <3>2. w[T] = w[f[T]]
      BY <3>1
    <3>. QED  BY <2>2, <3>2
  <2>. QED  BY <2>1, <2>2
<1>2. sol(w)
  <2>. HIDE DEF w
  <2>1. w = [T \in D |-> w[T]]
    BY DEF w
  <2>. QED  BY <1>1, <2>1
<1>3. sol(h)
  <2>1. \E x : sol(x)
    BY <1>2
  <2>. QED  BY <2>1
<1>4. \A T \in D : h[T] = IF f[T] = T THEN T ELSE h[f[T]]
  <2>. HIDE DEF h
  <2>1. ASSUME NEW T \in D PROVE h[T] = IF f[T] = T THEN T ELSE h[f[T]]
    <3>1. h = [U \in D |-> IF f[U] = U THEN U ELSE h[f[U]]]
      BY <1>3
    <3>. QED  BY <3>1
  <2>. QED  BY <2>1
<1>5. \A S : FixedPoint(f, S) = h[S]
  BY DEF FixedPoint
<1>. QED  BY <1>4, <1>5

Monotone(f, D) == \A T, U \in D : T \subseteq U => f[T] \subseteq f[U]

(* Of subsets of a finite set there is always a smallest and a greatest.   *)
LEMMA MinimalExists ==
    ASSUME NEW S, IsFiniteSet(S), NEW C \in SUBSET SUBSET S, C # {}
    PROVE  \E T \in C : \A U \in C : U \subseteq T => U = T
<1>1. C \subseteq FiniteSubsetsOf(S) /\ C # {}
  <2>1. ASSUME NEW T \in C PROVE T \in FiniteSubsetsOf(S)
    BY FS_Subset DEF FiniteSubsetsOf
  <2>. QED  BY <2>1
<1>2. PICK T \in C : \A U \in C : ~(<<U, T>> \in StrictSubsetOrdering(S))
  BY <1>1, FS_StrictSubsetOrderingWellFounded, WFMin
<1>3. ASSUME NEW U \in C, U \subseteq T PROVE U = T
  BY <1>2, <1>3 DEF StrictSubsetOrdering
<1>. QED  BY <1>3

LEMMA MaximalExists ==
    ASSUME NEW S, IsFiniteSet(S), NEW C \in SUBSET SUBSET S, C # {}
    PROVE  \E T \in C : \A U \in C : T \subseteq U => U = T
<1>. DEFINE R == {S \ T : T \in C}
<1>1. R \in SUBSET SUBSET S /\ R # {}
  <2>1. PICK T \in C : TRUE
    OBVIOUS
  <2>2. S \ T \in R
    OBVIOUS
  <2>3. R \in SUBSET SUBSET S
    OBVIOUS
  <2>. HIDE DEF R
  <2>. QED  BY <2>2, <2>3
<1>2. PICK x \in R : \A y \in R : y \subseteq x => y = x
  <2>. HIDE DEF R
  <2>. QED  BY <1>1, MinimalExists
<1>3. PICK T \in C : x = S \ T
  OBVIOUS
<1>4. ASSUME NEW U \in C, T \subseteq U PROVE U = T
  <2>1. S \ U \in R /\ S \ U \subseteq S \ T
    BY <1>4
  <2>2. S \ U = S \ T
    BY <1>2, <1>3, <2>1
  <2>. QED  BY <2>2
<1>. QED  BY <1>4

(* From a set below its image the least fixed point above it is reached.   *)
LEMMA LeastAbove ==
    ASSUME NEW S, IsFiniteSet(S), NEW f \in [SUBSET S -> SUBSET S], Monotone(f, SUBSET S),
           NEW R \in SUBSET S, R \subseteq f[R]
    PROVE  /\ FixedPoint(f, R) \in SUBSET S
           /\ R \subseteq FixedPoint(f, R)
           /\ f[FixedPoint(f, R)] = FixedPoint(f, R)
           /\ \A U \in SUBSET S : R \subseteq U /\ f[U] \subseteq U => FixedPoint(f, R) \subseteq U
<1>1. PICK h : /\ \A T \in SUBSET S : h[T] = IF f[T] = T THEN T ELSE h[f[T]]
               /\ \A T : FixedPoint(f, T) = h[T]
  BY FixedPointEquation
<1>. DEFINE Below(T) == \A U \in SUBSET S : R \subseteq U /\ f[U] \subseteq U => T \subseteq U
            C == {T \in SUBSET S : R \subseteq T /\ T \subseteq f[T] /\ h[T] = h[R] /\ Below(T)}
<1>2. R \in C
  OBVIOUS
<1>3. ASSUME NEW T \in C PROVE f[T] \in C
  <2>1. f[T] \in SUBSET S /\ R \subseteq f[T] /\ f[T] \subseteq f[f[T]]
    BY DEF Monotone
  <2>2. h[f[T]] = h[R]
    BY <1>1
  <2>3. ASSUME NEW U \in SUBSET S, R \subseteq U, f[U] \subseteq U PROVE f[T] \subseteq U
    <3>1. T \subseteq U
      BY <2>3
    <3>. QED  BY <2>3, <3>1 DEF Monotone
  <2>. QED  BY <2>1, <2>2, <2>3
<1>4. PICK T \in C : \A U \in C : T \subseteq U => U = T
  <2>1. C \in SUBSET SUBSET S /\ C # {}
    BY <1>2
  <2>. HIDE DEF C
  <2>. QED  BY <2>1, MaximalExists
<1>5. f[T] = T
  <2>1. f[T] \in C /\ T \subseteq f[T]
    BY <1>3
  <2>. QED  BY <1>4, <2>1
<1>6. FixedPoint(f, R) = T
  BY <1>1, <1>5
<1>. QED  BY <1>5, <1>6

(* From a set above its image the greatest fixed point below it is.        *)
LEMMA GreatestBelow ==
    ASSUME NEW S, IsFiniteSet(S), NEW f \in [SUBSET S -> SUBSET S], Monotone(f, SUBSET S),
           NEW R \in SUBSET S, f[R] \subseteq R
    PROVE  /\ FixedPoint(f, R) \in SUBSET S
           /\ FixedPoint(f, R) \subseteq R
           /\ f[FixedPoint(f, R)] = FixedPoint(f, R)
           /\ \A U \in SUBSET S : U \subseteq R /\ U \subseteq f[U] => U \subseteq FixedPoint(f, R)
<1>1. PICK h : /\ \A T \in SUBSET S : h[T] = IF f[T] = T THEN T ELSE h[f[T]]
               /\ \A T : FixedPoint(f, T) = h[T]
  BY FixedPointEquation
<1>. DEFINE Above(T) == \A U \in SUBSET S : U \subseteq R /\ U \subseteq f[U] => U \subseteq T
            C == {T \in SUBSET S : T \subseteq R /\ f[T] \subseteq T /\ h[T] = h[R] /\ Above(T)}
<1>2. R \in C
  OBVIOUS
<1>3. ASSUME NEW T \in C PROVE f[T] \in C
  <2>1. f[T] \in SUBSET S /\ f[T] \subseteq R /\ f[f[T]] \subseteq f[T]
    BY DEF Monotone
  <2>2. h[f[T]] = h[R]
    BY <1>1
  <2>3. ASSUME NEW U \in SUBSET S, U \subseteq R, U \subseteq f[U] PROVE U \subseteq f[T]
    <3>1. U \subseteq T
      BY <2>3
    <3>. QED  BY <2>3, <3>1 DEF Monotone
  <2>. QED  BY <2>1, <2>2, <2>3
<1>4. PICK T \in C : \A U \in C : U \subseteq T => U = T
  <2>1. C \in SUBSET SUBSET S /\ C # {}
    BY <1>2
  <2>. HIDE DEF C
  <2>. QED  BY <2>1, MinimalExists
<1>5. f[T] = T
  <2>1. f[T] \in C /\ f[T] \subseteq T
    BY <1>3
  <2>. QED  BY <1>4, <2>1
<1>6. FixedPoint(f, R) = T
  BY <1>1, <1>5
<1>. QED  BY <1>5, <1>6

-----------------------------------------------------------------------------
(* Natural numbers, sequences and finite sets of functions.                *)

LEMMA LeastNumber ==
    ASSUME NEW T \in SUBSET Nat, T # {}
    PROVE  \E n \in T : \A m \in T : n <= m
<1>1. PICK n \in T : \A m \in T : ~(<<m, n>> \in OpToRel(<, Nat))
  BY NatLessThanWellFounded, WFMin
<1>2. ASSUME NEW m \in T PROVE n <= m
  <2>1. ~(m < n)
    BY <1>1 DEF OpToRel
  <2>. QED  BY <2>1
<1>. QED  BY <1>2

(* Induction, over a set of numbers.                                       *)
LEMMA AllNumbers ==
    ASSUME NEW T, 0 \in T, \A n \in Nat : n \in T => n + 1 \in T
    PROVE  Nat \subseteq T
<1>. SUFFICES ASSUME Nat \ T # {} PROVE FALSE
  OBVIOUS
<1>1. PICK n \in Nat \ T : \A m \in Nat \ T : n <= m
  <2>. DEFINE U == Nat \ T
  <2>1. U \in SUBSET Nat /\ U # {}
    OBVIOUS
  <2>. HIDE DEF U
  <2>2. \E n \in U : \A m \in U : n <= m
    BY <2>1, LeastNumber
  <2>. QED  BY <2>2 DEF U
<1>2. n # 0 /\ n - 1 \in Nat /\ (n - 1) + 1 = n
  OBVIOUS
<1>3. n - 1 \in T
  BY <1>1, <1>2
<1>. QED  BY <1>2, <1>3

(* Where a step is always possible there is an infinite sequence of steps. *)
LEMMA StepsForever ==
    ASSUME NEW S, NEW R, \A x \in S : \E y \in S : <<x, y>> \in R, NEW a \in S
    PROVE  \E p \in [Nat -> S] : p[0] = a /\ \A n \in Nat : <<p[n], p[n + 1]>> \in R
<1>. DEFINE c == [x \in S |-> CHOOSE y \in S : <<x, y>> \in R]
            Attempt(n, q) == /\ q \in [0 .. n -> S] /\ q[0] = a
                             /\ \A i \in 0 .. n - 1 : q[i + 1] = c[q[i]]
            Possible == {n \in Nat : \E q : Attempt(n, q)}
            p == [n \in Nat |-> (CHOOSE q : Attempt(n, q))[n]]
<1>1. \A x \in S : c[x] \in S /\ <<x, c[x]>> \in R
  OBVIOUS
<1>. HIDE DEF c
<1>2. 0 \in Possible
  <2>1. Attempt(0, [i \in 0 .. 0 |-> a])
    OBVIOUS
  <2>. QED  BY <2>1
<1>3. ASSUME NEW n \in Nat, n \in Possible PROVE n + 1 \in Possible
  <2>1. PICK q : Attempt(n, q)
    BY <1>3
  <2>. DEFINE r == [i \in 0 .. n + 1 |-> IF i = n + 1 THEN c[q[n]] ELSE q[i]]
  <2>2. q[n] \in S /\ c[q[n]] \in S
    <3>1. n \in 0 .. n
      OBVIOUS
    <3>. QED  BY <1>1, <2>1, <3>1
  <2>3. r \in [0 .. n + 1 -> S] /\ r[0] = a
    BY <2>1, <2>2
  <2>4. ASSUME NEW i \in 0 .. (n + 1) - 1 PROVE r[i + 1] = c[r[i]]
    <3>1. i \in 0 .. n /\ i + 1 \in 0 .. n + 1 /\ i \in 0 .. n + 1 /\ i # n + 1
      OBVIOUS
    <3>2. r[i] = q[i]
      BY <3>1
    <3>3. CASE i = n
      BY <3>1, <3>2, <3>3
    <3>4. CASE i # n
      <4>1. i \in 0 .. n - 1 /\ i + 1 # n + 1
        BY <3>1, <3>4
      <4>2. r[i + 1] = q[i + 1]
        BY <3>1, <4>1
      <4>. QED  BY <2>1, <3>2, <4>1, <4>2
    <3>. QED  BY <3>3, <3>4
  <2>5. Attempt(n + 1, r)
    <3>. HIDE DEF r
    <3>. QED  BY <2>3, <2>4
  <2>. HIDE DEF Attempt
  <2>. QED  BY <2>5
<1>4. \A n \in Nat : \E q : Attempt(n, q)
  <2>. HIDE DEF Attempt
  <2>1. Nat \subseteq Possible
    <3>. HIDE DEF Possible
    <3>. QED  BY <1>2, <1>3, AllNumbers
  <2>. QED  BY <2>1
<1>5. ASSUME NEW n \in Nat, NEW q, Attempt(n, q), NEW m \in Nat, NEW r, Attempt(m, r)
      PROVE  \A i \in Nat : i <= n /\ i <= m => q[i] = r[i]
  <2>. DEFINE Same == {i \in Nat : i <= n /\ i <= m => q[i] = r[i]}
  <2>1. 0 \in Same
    BY <1>5
  <2>2. ASSUME NEW i \in Nat, i \in Same PROVE i + 1 \in Same
    <3>. SUFFICES ASSUME i + 1 <= n, i + 1 <= m PROVE q[i + 1] = r[i + 1]
      OBVIOUS
    <3>1. i <= n /\ i <= m /\ i \in 0 .. n - 1 /\ i \in 0 .. m - 1
      OBVIOUS
    <3>2. q[i] = r[i]
      BY <2>2, <3>1
    <3>. QED  BY <1>5, <3>1, <3>2
  <2>3. Nat \subseteq Same
    <3>. HIDE DEF Same
    <3>. QED  BY <2>1, <2>2, AllNumbers
  <2>. QED  BY <2>3
<1>6. ASSUME NEW n \in Nat
      PROVE  p[n] \in S /\ <<p[n], p[n + 1]>> \in R
  <2>. DEFINE q == CHOOSE q : Attempt(n, q)
              r == CHOOSE r : Attempt(n + 1, r)
  <2>1. Attempt(n, q) /\ Attempt(n + 1, r)
    <3>. HIDE DEF Attempt
    <3>. QED  BY <1>4
  <2>2. p[n] = q[n] /\ p[n + 1] = r[n + 1]
    <3>. HIDE DEF Attempt
    <3>. QED  OBVIOUS
  <2>. HIDE DEF q, r, p
  <2>3. q[n] = r[n]
    <3>1. n + 1 \in Nat /\ n <= n + 1 /\ n <= n
      OBVIOUS
    <3>. HIDE DEF Attempt
    <3>. QED  BY <1>5, <2>1, <3>1
  <2>4. r[n + 1] = c[r[n]] /\ r[n] \in S
    <3>1. n \in 0 .. (n + 1) - 1 /\ n \in 0 .. n + 1
      OBVIOUS
    <3>. QED  BY <2>1, <3>1
  <2>. QED  BY <1>1, <2>2, <2>3, <2>4
<1>7. p[0] = a
  <2>. DEFINE q == CHOOSE q : Attempt(0, q)
  <2>1. Attempt(0, q)
    <3>. HIDE DEF Attempt
    <3>. QED  BY <1>4
  <2>2. p[0] = q[0]
    <3>. HIDE DEF Attempt
    <3>. QED  OBVIOUS
  <2>. QED  BY <2>1, <2>2
<1>. QED
  <2>1. p \in [Nat -> S]
    <3>1. \A n \in Nat : p[n] \in S
      BY <1>6
    <3>. DEFINE e(n) == (CHOOSE q : Attempt(n, q))[n]
    <3>2. p = [n \in Nat |-> e(n)]
      OBVIOUS
    <3>. HIDE DEF e, p
    <3>3. \A n \in Nat : p[n] = e(n)
      BY <3>2
    <3>. QED  BY <3>1, <3>2, <3>3
  <2>. HIDE DEF p
  <2>. QED  BY <1>6, <1>7, <2>1

(* Between finite sets there are finitely many functions.                  *)
LEMMA FiniteFunctions ==
    ASSUME NEW S, IsFiniteSet(S), NEW T, IsFiniteSet(T)
    PROVE  IsFiniteSet([S -> T])
<1>. DEFINE C == {U \in SUBSET S : ~IsFiniteSet([U -> T])}
<1>. SUFFICES ASSUME C # {} PROVE FALSE
  OBVIOUS
<1>1. PICK U \in C : \A W \in C : W \subseteq U => W = U
  <2>1. C \in SUBSET SUBSET S
    OBVIOUS
  <2>. HIDE DEF C
  <2>. QED  BY <2>1, MinimalExists
<1>2. U # {}
  <2>1. [{} -> T] \subseteq {[x \in {} |-> x]}
    OBVIOUS
  <2>2. IsFiniteSet([{} -> T])
    BY <2>1, FS_Singleton, FS_Subset
  <2>. QED  BY <2>2
<1>3. PICK x \in U : TRUE
  BY <1>2
<1>. DEFINE W == U \ {x}
            F == [W -> T]
            e == [m \in F \X T |-> [y \in U |-> IF y = x THEN m[2] ELSE m[1][y]]]
<1>4. IsFiniteSet(F)
  <2>1. W \notin C
    BY <1>1
  <2>. QED  BY <2>1
<1>5. IsFiniteSet(F \X T)
  BY <1>4, FS_Product
<1>6. e \in Surjection(F \X T, [U -> T])
  <2>1. e \in [F \X T -> [U -> T]]
    OBVIOUS
  <2>2. ASSUME NEW h \in [U -> T] PROVE \E m \in F \X T : e[m] = h
    <3>. DEFINE m == <<[y \in W |-> h[y]], h[x]>>
    <3>1. m \in F \X T
      OBVIOUS
    <3>2. e[m] = [y \in U |-> IF y = x THEN h[x] ELSE h[y]]
      BY <3>1
    <3>3. e[m] = h
      BY <3>2
    <3>. QED  BY <3>1, <3>3
  <2>. QED  BY <2>1, <2>2 DEF Surjection
<1>7. IsFiniteSet([U -> T])
  BY <1>5, <1>6, FS_Surjection
<1>. QED  BY <1>7

-----------------------------------------------------------------------------
(* The states that are won, by what is used of each fixed point.           *)

(* A sum of what can be forced into from the sets, for the least and for   *)
(* the greatest fixed points.                                              *)
LEMMA ForceTypes ==
    ASSUME NEW g \in GameType, NEW plr
    PROVE  /\ Invar(g) \in StateSets
           /\ \A T : CanForce(g, T, plr) \subseteq Invar(g) /\ CanForce(g, T, plr) \in StateSets
           /\ \A T, U : T \subseteq U => CanForce(g, T, plr) \subseteq CanForce(g, U, plr)
  BY TypedInvar, ForceInvar, ForceMonotone DEF StateSets

LEMMA StucksOtherIs ==
    ASSUME NEW g \in GameType, IsFiniteSet(States), NEW plr
    PROVE  /\ StucksOther(g, plr) \in StateSets /\ StucksOther(g, plr) \subseteq Invar(g)
           /\ CanForce(g, StucksOther(g, plr), plr) = StucksOther(g, plr)
<1>. DEFINE f == [Y \in StateSets |-> CanForce(g, Y, plr)]
<1>1. f \in [SUBSET States -> SUBSET States] /\ Monotone(f, SUBSET States)
  BY ForceTypes DEF Monotone, StateSets
<1>2. StucksOther(g, plr) = FixedPoint(f, {})
  BY DEF StucksOther, Least
<1>3. FixedPoint(f, {}) \in SUBSET States /\ f[FixedPoint(f, {})] = FixedPoint(f, {})
  <2>. HIDE DEF f
  <2>. QED  BY <1>1, LeastAbove
<1>4. CanForce(g, StucksOther(g, plr), plr) = StucksOther(g, plr)
  BY <1>2, <1>3 DEF StateSets
<1>. QED  BY <1>2, <1>3, <1>4, ForceTypes DEF StateSets

LEMMA NeverStuckIs ==
    ASSUME NEW g \in GameType, IsFiniteSet(States), NEW plr
    PROVE  /\ NeverStuck(g, plr) \in StateSets /\ NeverStuck(g, plr) \subseteq Invar(g)
           /\ CanForce(g, NeverStuck(g, plr), plr) = NeverStuck(g, plr)
           /\ \A U : U \subseteq Invar(g) /\ U \subseteq CanForce(g, U, plr)
                        => U \subseteq NeverStuck(g, plr)
<1>. DEFINE f == [Z \in StateSets |-> CanForce(g, Z, plr)]
<1>1. f \in [SUBSET States -> SUBSET States] /\ Monotone(f, SUBSET States)
  BY ForceTypes DEF Monotone, StateSets
<1>2. NeverStuck(g, plr) = FixedPoint(f, Invar(g))
  BY DEF NeverStuck, Largest
<1>3. Invar(g) \in SUBSET States /\ f[Invar(g)] \subseteq Invar(g)
  BY ForceTypes DEF StateSets
<1>4. /\ FixedPoint(f, Invar(g)) \in SUBSET States
      /\ f[FixedPoint(f, Invar(g))] = FixedPoint(f, Invar(g))
      /\ \A U \in SUBSET States : U \subseteq Invar(g) /\ U \subseteq f[U]
            => U \subseteq FixedPoint(f, Invar(g))
  <2>. DEFINE R == Invar(g)
  <2>1. R \in SUBSET States /\ f[R] \subseteq R
    BY <1>3
  <2>. HIDE DEF f, R
  <2>2. /\ FixedPoint(f, R) \in SUBSET States /\ f[FixedPoint(f, R)] = FixedPoint(f, R)
        /\ \A U \in SUBSET States : U \subseteq R /\ U \subseteq f[U] => U \subseteq FixedPoint(f, R)
    BY <1>1, <2>1, GreatestBelow
  <2>. QED  BY <2>2 DEF R
<1>5. ASSUME NEW U, U \subseteq Invar(g), U \subseteq CanForce(g, U, plr)
      PROVE  U \subseteq NeverStuck(g, plr)
  <2>0. U \in StateSets
    BY <1>5, ForceTypes DEF StateSets
  <2>1. U \in SUBSET States /\ U \subseteq f[U]
    BY <1>5, <2>0 DEF StateSets
  <2>. HIDE DEF f
  <2>. QED  BY <1>2, <1>4, <1>5, <2>1
<1>6. CanForce(g, NeverStuck(g, plr), plr) = NeverStuck(g, plr)
  BY <1>2, <1>4 DEF StateSets
<1>7. NeverStuck(g, plr) \subseteq Invar(g)
  BY <1>6, ForceTypes
<1>. QED  BY <1>2, <1>4, <1>5, <1>6, <1>7 DEF StateSets

LEMMA WonNext ==
    ASSUME NEW g, NEW phi, phi.op = "X", NEW plr
    PROVE  WinningStates(g, phi, plr)
               = CanForce(g, (phi.p \cap NeverStuck(g, plr)) \cup StucksOther(g, plr), plr)
  BY DEF WinningStates

LEMMA WonGlobally ==
    ASSUME NEW g \in GameType, IsFiniteSet(States), NEW phi, phi.op = "G", NEW plr
    PROVE  /\ WinningStates(g, phi, plr) \subseteq Invar(g)
           /\ WinningStates(g, phi, plr)
                  = StucksOther(g, plr) \cup (phi.p \cap CanForce(g, WinningStates(g, phi, plr), plr))
           /\ \A U : U \subseteq Invar(g)
                     /\ U \subseteq StucksOther(g, plr) \cup (phi.p \cap CanForce(g, U, plr))
                        => U \subseteq WinningStates(g, phi, plr)
<1>. DEFINE stucks == StucksOther(g, plr)
            f == [Z \in StateSets |-> stucks \cup (phi.p \cap CanForce(g, Z, plr))]
<1>0. stucks \in StateSets /\ stucks \subseteq Invar(g)
  BY StucksOtherIs
<1>1. WinningStates(g, phi, plr) = FixedPoint(f, Invar(g))
  BY DEF WinningStates, Largest
<1>. HIDE DEF stucks
<1>2. f \in [SUBSET States -> SUBSET States] /\ Monotone(f, SUBSET States)
  BY <1>0, ForceTypes DEF Monotone, StateSets
<1>3. Invar(g) \in SUBSET States /\ f[Invar(g)] \subseteq Invar(g)
  BY <1>0, ForceTypes DEF StateSets
<1>4. /\ FixedPoint(f, Invar(g)) \in SUBSET States
      /\ f[FixedPoint(f, Invar(g))] = FixedPoint(f, Invar(g))
      /\ \A U \in SUBSET States : U \subseteq Invar(g) /\ U \subseteq f[U]
            => U \subseteq FixedPoint(f, Invar(g))
  <2>. DEFINE R == Invar(g)
  <2>1. R \in SUBSET States /\ f[R] \subseteq R
    BY <1>3
  <2>. HIDE DEF f, R
  <2>2. /\ FixedPoint(f, R) \in SUBSET States /\ f[FixedPoint(f, R)] = FixedPoint(f, R)
        /\ \A U \in SUBSET States : U \subseteq R /\ U \subseteq f[U] => U \subseteq FixedPoint(f, R)
    BY <1>2, <2>1, GreatestBelow
  <2>. QED  BY <2>2 DEF R
<1>. DEFINE W == WinningStates(g, phi, plr)
<1>6. W = stucks \cup (phi.p \cap CanForce(g, W, plr))
  <2>1. W \in StateSets /\ f[W] = W
    <3>. HIDE DEF f
    <3>. QED  BY <1>1, <1>4 DEF StateSets
  <2>. HIDE DEF W
  <2>. QED  BY <2>1
<1>7. W \subseteq Invar(g)
  <2>. HIDE DEF W
  <2>. QED  BY <1>0, <1>6, ForceTypes
<1>5. ASSUME NEW U, U \subseteq Invar(g), U \subseteq stucks \cup (phi.p \cap CanForce(g, U, plr))
      PROVE  U \subseteq WinningStates(g, phi, plr)
  <2>1. U \in SUBSET States /\ U \subseteq f[U]
    BY <1>3, <1>5 DEF StateSets
  <2>. HIDE DEF f
  <2>. QED  BY <1>1, <1>4, <1>5, <2>1
<1>. QED  BY <1>5, <1>6, <1>7 DEF stucks

LEMMA WonFinally ==
    ASSUME NEW g \in GameType, IsFiniteSet(States), NEW phi, phi.op = "F", NEW plr
    PROVE  WinningStates(g, phi, plr)
               = (phi.p \cap NeverStuck(g, plr)) \cup CanForce(g, WinningStates(g, phi, plr), plr)
<1>. DEFINE first == phi.p \cap NeverStuck(g, plr)
            f == [Y \in StateSets |-> first \cup CanForce(g, Y, plr)]
<1>0. first \in StateSets
  BY NeverStuckIs DEF StateSets
<1>1. WinningStates(g, phi, plr) = FixedPoint(f, {})
  BY DEF WinningStates, Least
<1>. HIDE DEF first
<1>2. f \in [SUBSET States -> SUBSET States] /\ Monotone(f, SUBSET States)
  BY <1>0, ForceTypes DEF Monotone, StateSets
<1>3. FixedPoint(f, {}) \in SUBSET States /\ f[FixedPoint(f, {})] = FixedPoint(f, {})
  <2>. HIDE DEF f
  <2>. QED  BY <1>2, LeastAbove
<1>4. f[FixedPoint(f, {})] = first \cup CanForce(g, FixedPoint(f, {}), plr)
  <2>. DEFINE F == FixedPoint(f, {})
  <2>1. F \in StateSets
    BY <1>3 DEF StateSets
  <2>. HIDE DEF F
  <2>2. f[F] = first \cup CanForce(g, F, plr)
    BY <2>1
  <2>. QED  BY <2>2 DEF F
<1>. QED
  <2>. HIDE DEF f
  <2>. QED  BY <1>1, <1>3, <1>4 DEF first

(* The inner fixed point of GF: from where p is reached, for a set Z.      *)
ReachedOnceMore(g, p, plr, Z) ==
    Least([Y \in StateSets |-> (p \cap CanForce(g, Z, plr)) \cup CanForce(g, Y, plr)])

LEMMA ReachedOnceMoreIs ==
    ASSUME NEW g \in GameType, IsFiniteSet(States), NEW p, NEW plr, NEW Z
    PROVE  LET M == ReachedOnceMore(g, p, plr, Z)
           IN  /\ M \in StateSets
               /\ M = (p \cap CanForce(g, Z, plr)) \cup CanForce(g, M, plr)
               /\ \A U \in StateSets :
                     (p \cap CanForce(g, Z, plr)) \cup CanForce(g, U, plr) \subseteq U => M \subseteq U
<1>. DEFINE first == p \cap CanForce(g, Z, plr)
            f == [Y \in StateSets |-> first \cup CanForce(g, Y, plr)]
            M == ReachedOnceMore(g, p, plr, Z)
<1>0. first \in StateSets
  BY ForceTypes DEF StateSets
<1>1. M = FixedPoint(f, {})
  BY DEF ReachedOnceMore, Least
<1>. HIDE DEF first, M
<1>2. f \in [SUBSET States -> SUBSET States] /\ Monotone(f, SUBSET States)
  BY <1>0, ForceTypes DEF Monotone, StateSets
<1>3. /\ M \in SUBSET States /\ f[M] = M
      /\ \A U \in SUBSET States : f[U] \subseteq U => M \subseteq U
  <2>. HIDE DEF f
  <2>. QED  BY <1>1, <1>2, LeastAbove
<1>4. \A U \in StateSets : f[U] = first \cup CanForce(g, U, plr)
  OBVIOUS
<1>5. M \in StateSets /\ M = first \cup CanForce(g, M, plr)
  <2>. HIDE DEF f
  <2>. QED  BY <1>3, <1>4 DEF StateSets
<1>6. \A U \in StateSets : first \cup CanForce(g, U, plr) \subseteq U => M \subseteq U
  <2>. HIDE DEF f
  <2>. QED  BY <1>3, <1>4 DEF StateSets
<1>. QED  BY <1>5, <1>6 DEF M, first

LEMMA WonAgainAndAgain ==
    ASSUME NEW g \in GameType, IsFiniteSet(States), NEW phi, phi.op = "GF", NEW plr
    PROVE  /\ LET W == WinningStates(g, phi, plr) IN W = ReachedOnceMore(g, phi.p, plr, W)
           /\ \A U : U \subseteq Invar(g) /\ U \subseteq ReachedOnceMore(g, phi.p, plr, U)
                        => U \subseteq WinningStates(g, phi, plr)
<1>. DEFINE M(Z) == ReachedOnceMore(g, phi.p, plr, Z)
            f == [Z \in StateSets |-> M(Z)]
<1>1. WinningStates(g, phi, plr) = FixedPoint(f, Invar(g))
  BY DEF WinningStates, Largest, ReachedOnceMore
<1>0. \A Z : M(Z) \in StateSets /\ M(Z) = (phi.p \cap CanForce(g, Z, plr)) \cup CanForce(g, M(Z), plr)
  BY ReachedOnceMoreIs
<1>2. ASSUME NEW Z, NEW U, Z \subseteq U PROVE M(Z) \subseteq M(U)
  <2>1. CanForce(g, Z, plr) \subseteq CanForce(g, U, plr)
    BY <1>2, ForceTypes
  <2>2. (phi.p \cap CanForce(g, Z, plr)) \cup CanForce(g, M(U), plr) \subseteq M(U)
    BY <1>0, <2>1
  <2>. QED  BY <1>0, <2>2, ReachedOnceMoreIs
<1>3. M(Invar(g)) \subseteq Invar(g)
  BY <1>0, ForceTypes
<1>. HIDE DEF M
<1>4. f \in [SUBSET States -> SUBSET States] /\ Monotone(f, SUBSET States)
  BY <1>0, <1>2 DEF Monotone, StateSets
<1>5. Invar(g) \in SUBSET States /\ f[Invar(g)] \subseteq Invar(g)
  BY <1>3, ForceTypes DEF StateSets
<1>6. /\ FixedPoint(f, Invar(g)) \in SUBSET States
      /\ f[FixedPoint(f, Invar(g))] = FixedPoint(f, Invar(g))
      /\ \A U \in SUBSET States : U \subseteq Invar(g) /\ U \subseteq f[U]
            => U \subseteq FixedPoint(f, Invar(g))
  <2>. DEFINE R == Invar(g)
  <2>1. R \in SUBSET States /\ f[R] \subseteq R
    BY <1>5
  <2>. HIDE DEF f, R
  <2>2. /\ FixedPoint(f, R) \in SUBSET States /\ f[FixedPoint(f, R)] = FixedPoint(f, R)
        /\ \A U \in SUBSET States : U \subseteq R /\ U \subseteq f[U] => U \subseteq FixedPoint(f, R)
    BY <1>4, <2>1, GreatestBelow
  <2>. QED  BY <2>2 DEF R
<1>. DEFINE W == WinningStates(g, phi, plr)
<1>8. W = M(W)
  <2>1. W \in StateSets /\ f[W] = W
    <3>. HIDE DEF f
    <3>. QED  BY <1>1, <1>6 DEF StateSets
  <2>. HIDE DEF W
  <2>. QED  BY <2>1
<1>7. ASSUME NEW U, U \subseteq Invar(g), U \subseteq M(U)
      PROVE  U \subseteq WinningStates(g, phi, plr)
  <2>1. U \in SUBSET States /\ U \subseteq f[U]
    BY <1>5, <1>7 DEF StateSets
  <2>. HIDE DEF f
  <2>. QED  BY <1>1, <1>6, <1>7, <2>1
<1>. QED  BY <1>7, <1>8 DEF M

(* The inner fixed point of FG: where p is kept to until Y is reached.     *)
KeptUntil(g, p, plr, Y) ==
    Largest(g, [Z \in StateSets |-> CanForce(g, Y, plr) \cup (p \cap CanForce(g, Z, plr))])

LEMMA KeptUntilIs ==
    ASSUME NEW g \in GameType, IsFiniteSet(States), NEW p, NEW plr, NEW Y
    PROVE  LET N == KeptUntil(g, p, plr, Y)
           IN  /\ N \in StateSets /\ N \subseteq Invar(g)
               /\ N = CanForce(g, Y, plr) \cup (p \cap CanForce(g, N, plr))
               /\ \A U : U \subseteq Invar(g)
                         /\ U \subseteq CanForce(g, Y, plr) \cup (p \cap CanForce(g, U, plr))
                            => U \subseteq N
<1>. DEFINE first == CanForce(g, Y, plr)
            f == [Z \in StateSets |-> first \cup (p \cap CanForce(g, Z, plr))]
            N == KeptUntil(g, p, plr, Y)
<1>0. first \in StateSets /\ first \subseteq Invar(g)
  BY ForceTypes DEF StateSets
<1>1. N = FixedPoint(f, Invar(g))
  BY DEF KeptUntil, Largest
<1>. HIDE DEF first, N
<1>2. f \in [SUBSET States -> SUBSET States] /\ Monotone(f, SUBSET States)
  BY <1>0, ForceTypes DEF Monotone, StateSets
<1>3. Invar(g) \in SUBSET States /\ f[Invar(g)] \subseteq Invar(g)
  BY <1>0, ForceTypes DEF StateSets
<1>4. /\ N \in SUBSET States /\ N \subseteq Invar(g) /\ f[N] = N
      /\ \A U \in SUBSET States : U \subseteq Invar(g) /\ U \subseteq f[U] => U \subseteq N
  <2>. HIDE DEF f
  <2>. QED  BY <1>1, <1>2, <1>3, GreatestBelow
<1>5. \A U \in StateSets : f[U] = first \cup (p \cap CanForce(g, U, plr))
  OBVIOUS
<1>6. /\ N \in StateSets /\ N \subseteq Invar(g)
      /\ N = first \cup (p \cap CanForce(g, N, plr))
  <2>. HIDE DEF f
  <2>. QED  BY <1>4, <1>5 DEF StateSets
<1>7. ASSUME NEW U, U \subseteq Invar(g), U \subseteq first \cup (p \cap CanForce(g, U, plr))
      PROVE  U \subseteq N
  <2>1. U \in SUBSET States /\ U \in StateSets
    BY <1>3, <1>7 DEF StateSets
  <2>. HIDE DEF f
  <2>. QED  BY <1>4, <1>5, <1>7, <2>1
<1>. QED  BY <1>6, <1>7 DEF N, first

LEMMA WonFromSomeTime ==
    ASSUME NEW g \in GameType, IsFiniteSet(States), NEW phi, phi.op = "FG", NEW plr
    PROVE  LET W == WinningStates(g, phi, plr) IN W = KeptUntil(g, phi.p, plr, W)
<1>. DEFINE N(Y) == KeptUntil(g, phi.p, plr, Y)
            f == [Y \in StateSets |-> N(Y)]
            W == WinningStates(g, phi, plr)
<1>1. W = FixedPoint(f, {})
  BY DEF WinningStates, Least, KeptUntil
<1>0. \A Y : N(Y) \in StateSets
  BY KeptUntilIs
<1>2. ASSUME NEW Y, NEW U, Y \subseteq U PROVE N(Y) \subseteq N(U)
  <2>1. CanForce(g, Y, plr) \subseteq CanForce(g, U, plr)
    BY <1>2, ForceTypes
  <2>2. /\ N(Y) \subseteq Invar(g)
        /\ N(Y) \subseteq CanForce(g, U, plr) \cup (phi.p \cap CanForce(g, N(Y), plr))
    BY <2>1, KeptUntilIs
  <2>. QED  BY <2>2, KeptUntilIs
<1>. HIDE DEF N, W
<1>3. f \in [SUBSET States -> SUBSET States] /\ Monotone(f, SUBSET States)
  BY <1>0, <1>2 DEF Monotone, StateSets
<1>4. W \in SUBSET States /\ f[W] = W
  <2>. HIDE DEF f
  <2>. QED  BY <1>1, <1>3, LeastAbove
<1>5. W = N(W)
  BY <1>4 DEF StateSets
<1>. QED  BY <1>5 DEF N, W

-----------------------------------------------------------------------------
(* The product, as a game on states with counters.                         *)

(* What the counters are after the first letter, and after another one.    *)
FirstCount(B, k, a) ==
    [s \in B.states |-> IF s \in B.initial /\ Holds(B, a, s) THEN InitValue(B, k, s) ELSE -1]

First(bad, k, s) == FirstCount(Automaton[bad.op], k, s \in bad.p)

Counted(bad, k, v, s) == CountOn(Automaton[bad.op], k, s \in bad.p, v)

CountersOf(bad, k) == Counters(Automaton[bad.op], k)

LEMMA FirstCountIs ==
    ASSUME NEW B, IsAutomaton(B), NEW k \in Nat, NEW a
    PROVE  /\ FirstCount(B, k, a) \in Counters(B, k)
           /\ \A u \in Counters(B, k) : InitOk(B, k, a, u) <=> u = FirstCount(B, k, a)
<1>. DEFINE w == FirstCount(B, k, a)
<1>1. \A s \in B.states : InitValue(B, k, s) \in 0 .. k
  BY DEF InitValue
<1>2. w \in Counters(B, k)
  BY <1>1 DEF Counters, FirstCount
<1>3. ASSUME NEW u \in Counters(B, k) PROVE InitOk(B, k, a, u) <=> u = w
  <2>1. \A s \in B.states : InitValue(B, k, s) # -1
    BY <1>1
  <2>2. InitOk(B, k, a, u) <=> \A s \in B.states : u[s] = w[s]
    BY <2>1 DEF InitOk, FirstCount
  <2>3. w = [s \in B.states |-> w[s]]
    BY DEF FirstCount
  <2>4. u = [s \in B.states |-> u[s]]
    BY DEF Counters
  <2>. QED  BY <2>2, <2>3, <2>4
<1>. QED  BY <1>2, <1>3

LEMMA TablesAre ==
    ASSUME NEW op \in Ops, NEW k \in 0 .. MaxK, NEW a \in BOOLEAN
    PROVE  /\ MonitorInit[<<op, k, a>>] = {FirstCount(Automaton[op], k, a)}
           /\ \A v \in Counters(Automaton[op], k) :
                 MonitorTrans[<<op, k, a>>][v] = {CountOn(Automaton[op], k, a, v)}
<1>. DEFINE B == Automaton[op]
<1>1. IsAutomaton(B) /\ k \in Nat
  BY AutomatonIsOne, BoundsParts
<1>2. MonitorInit[<<op, k, a>>] = {FirstCount(B, k, a)}
  <2>1. MonitorInit[<<op, k, a>>] = {w \in Counters(B, k) : InitOk(B, k, a, w)}
    BY TabulatedIsSame DEF MonitorInit, Monitors
  <2>. QED  BY <1>1, <2>1, FirstCountIs
<1>3. ASSUME NEW v \in Counters(B, k)
      PROVE  MonitorTrans[<<op, k, a>>][v] = {CountOn(B, k, a, v)}
  <2>1. MonitorTrans[<<op, k, a>>][v] = {w \in Counters(B, k) : TransOk(B, k, a, v, w)}
    <3>. DEFINE row == [u \in Counters(B, k) |-> {w \in Counters(B, k) : TransOk(B, k, a, u, w)}]
    <3>1. MonitorTrans[<<op, k, a>>] = Tabulated(row)
      BY TabulatedIsSame DEF MonitorTrans, Monitors
    <3>2. Tabulated(row) = row
      BY TabulatedIsSame
    <3>. QED  BY <3>1, <3>2
  <2>2. \A w \in Counters(B, k) : TransOk(B, k, a, v, w) <=> w = CountOn(B, k, a, v)
    BY <1>1, MonitorCounts
  <2>3. CountOn(B, k, a, v) \in Counters(B, k)
    BY <1>1, CountOnType
  <2>. QED  BY <2>1, <2>2, <2>3
<1>. QED  BY <1>2, <1>3

LEMMA BadParts ==
    ASSUME NEW bad \in LtlType, NEW k \in 0 .. MaxK
    PROVE  /\ bad.op \in Ops /\ bad.p \in SUBSET States /\ k \in Nat
           /\ IsAutomaton(Automaton[bad.op])
           /\ \A s : First(bad, k, s) \in CountersOf(bad, k)
           /\ \A v \in CountersOf(bad, k) : \A s : Counted(bad, k, v, s) \in CountersOf(bad, k)
<1>1. bad.op \in Ops /\ bad.p \in SUBSET States /\ k \in Nat
  BY BoundsParts DEF LtlType
<1>2. IsAutomaton(Automaton[bad.op])
  BY <1>1, AutomatonIsOne
<1>3. \A s : First(bad, k, s) \in CountersOf(bad, k)
  BY <1>1, <1>2, FirstCountIs DEF First, CountersOf
<1>4. \A v \in CountersOf(bad, k) : \A s : Counted(bad, k, v, s) \in CountersOf(bad, k)
  BY <1>1, <1>2, CountOnType DEF Counted, CountersOf
<1>. QED  BY <1>1, <1>2, <1>3, <1>4

(* The tables, for the letter of a state.                                  *)
LEMMA TablesOf ==
    ASSUME NEW bad \in LtlType, NEW k \in 0 .. MaxK, NEW s
    PROVE  /\ MonitorInit[<<bad.op, k, s \in bad.p>>] = {First(bad, k, s)}
           /\ \A v \in CountersOf(bad, k) :
                 MonitorTrans[<<bad.op, k, s \in bad.p>>][v] = {Counted(bad, k, v, s)}
<1>. DEFINE a == s \in bad.p
<1>1. a \in BOOLEAN
  OBVIOUS
<1>2. /\ First(bad, k, s) = FirstCount(Automaton[bad.op], k, a)
      /\ \A v : Counted(bad, k, v, s) = CountOn(Automaton[bad.op], k, a, v)
  BY DEF First, Counted
<1>. HIDE DEF a
<1>3. /\ MonitorInit[<<bad.op, k, a>>] = {First(bad, k, s)}
      /\ \A v \in CountersOf(bad, k) :
            MonitorTrans[<<bad.op, k, a>>][v] = {Counted(bad, k, v, s)}
  BY <1>1, <1>2, BadParts, TablesAre DEF CountersOf
<1>. QED  BY <1>3 DEF a

Joined(s, v) == <<s[1], <<s[2], v>>>>

LEMMA JoinedIs ==
    ASSUME NEW S \in SUBSET States, NEW V
    PROVE  /\ \A x \in WithCounters(S, V) : \E s \in S, v \in V : x = Joined(s, v)
           /\ \A s \in S, v \in V : Joined(s, v) \in WithCounters(S, V)
           /\ \A s \in States : \A v : Joined(s, v) \in WithCounters(S, V) => s \in S /\ v \in V
<1>1. ASSUME NEW s \in States, NEW v, Joined(s, v) \in WithCounters(S, V)
      PROVE  s \in S /\ v \in V
  <2>1. PICK t \in S, w \in V : Joined(s, v) = <<t[1], <<t[2], w>>>>
    BY <1>1 DEF WithCounters
  <2>2. s[1] = t[1] /\ s[2] = t[2] /\ v = w
    BY <2>1 DEF Joined
  <2>3. s = <<s[1], s[2]>> /\ t = <<t[1], t[2]>>
    BY DEF States
  <2>. QED  BY <2>2, <2>3
<1>. QED  BY <1>1 DEF WithCounters, Joined

(* What player 2 of the product answers when it answers by T in the game.   *)
Replies(bad, k, v, q1, T) == {<<q2, Counted(bad, k, v, <<q1, q2>>)>> : q2 \in T}

LEMMA ProductParts ==
    ASSUME NEW g \in GameType, NEW bad \in LtlType, NEW k \in 0 .. MaxK
    PROVE  /\ Product(g, bad, k).init1 = g.init1
           /\ Product(g, bad, k).inv1 = g.inv1
           /\ Product(g, bad, k).inv2 = WithCounters(g.inv2, CountersOf(bad, k))
           /\ Product(g, bad, k).init2 = {Joined(s, First(bad, k, s)) : s \in g.init2}
           /\ \A s \in States, v \in CountersOf(bad, k) :
                 Product(g, bad, k).trans1[Joined(s, v)] = g.trans1[s]
           /\ \A s \in States, v \in CountersOf(bad, k), q1 \in P1 :
                 Product(g, bad, k).trans2[<<Joined(s, v), q1>>]
                     = Replies(bad, k, v, q1, g.trans2[<<s, q1>>])
<1>. DEFINE V == CountersOf(bad, k)
            Old(x) == <<x[1], x[2][1]>>
            Old2(m) == m[1][2][2]
            X == WithCounters(States, V)
            i2 == UNION {WithCounters({s}, MonitorInit[<<bad.op, k, s \in bad.p>>]) : s \in g.init2}
            t1 == [x \in X |-> g.trans1[Old(x)]]
            e2(m) == UNION {{q2} \X MonitorTrans[<<bad.op, k, <<m[2], q2>> \in bad.p>>][Old2(m)]
                                  : q2 \in g.trans2[<<Old(m[1]), m[2]>>]}
            t2 == [m \in X \X P1 |-> e2(m)]
<1>1. Product(g, bad, k) = [init1 |-> g.init1, init2 |-> i2, inv1 |-> g.inv1,
                            inv2 |-> WithCounters(g.inv2, V), trans1 |-> t1, trans2 |-> t2]
  <2>1. Tabulated(t1) = t1 /\ Tabulated(t2) = t2
    BY TabulatedIsSame
  <2>. QED  BY <2>1 DEF Product, CountersOf
<1>2. \A s \in States : \A v : Old(Joined(s, v)) = s
  BY DEF Joined, States
<1>3. \A s \in States, v \in V : Joined(s, v) \in X
  BY JoinedIs
<1>4. i2 = {Joined(s, First(bad, k, s)) : s \in g.init2}
  <2>1. ASSUME NEW s \in g.init2
        PROVE  WithCounters({s}, MonitorInit[<<bad.op, k, s \in bad.p>>])
                   = {Joined(s, First(bad, k, s))}
    <3>1. MonitorInit[<<bad.op, k, s \in bad.p>>] = {First(bad, k, s)}
      BY TablesOf
    <3>. QED  BY <3>1 DEF WithCounters, Joined
  <2>2. i2 = UNION {{Joined(s, First(bad, k, s))} : s \in g.init2}
    BY <2>1
  <2>. QED  BY <2>2
<1>5. ASSUME NEW s \in States, NEW v \in V PROVE t1[Joined(s, v)] = g.trans1[s]
  BY <1>2, <1>3
<1>6. ASSUME NEW s \in States, NEW v \in V, NEW q1 \in P1
      PROVE  t2[<<Joined(s, v), q1>>] = Replies(bad, k, v, q1, g.trans2[<<s, q1>>])
  <2>. DEFINE m == <<Joined(s, v), q1>>
  <2>1. m \in X \X P1 /\ Old(m[1]) = s /\ Old2(m) = v /\ m[2] = q1
    BY <1>2, <1>3 DEF Joined
  <2>2. ASSUME NEW q2
        PROVE  {q2} \X MonitorTrans[<<bad.op, k, <<q1, q2>> \in bad.p>>][v]
                   = {<<q2, Counted(bad, k, v, <<q1, q2>>)>>}
    <3>1. MonitorTrans[<<bad.op, k, <<q1, q2>> \in bad.p>>][v] = {Counted(bad, k, v, <<q1, q2>>)}
      BY TablesOf
    <3>. QED  BY <3>1
  <2>3. t2[m] = e2(m)
    <3>. HIDE DEF e2, m
    <3>. QED  BY <2>1
  <2>4. e2(m) = UNION {{q2} \X MonitorTrans[<<bad.op, k, <<q1, q2>> \in bad.p>>][v]
                           : q2 \in g.trans2[<<s, q1>>]}
    <3>. HIDE DEF m
    <3>. QED  BY <2>1
  <2>5. e2(m) = UNION {{<<q2, Counted(bad, k, v, <<q1, q2>>)>>} : q2 \in g.trans2[<<s, q1>>]}
    <3>. DEFINE a(q2) == {q2} \X MonitorTrans[<<bad.op, k, <<q1, q2>> \in bad.p>>][v]
                b(q2) == {<<q2, Counted(bad, k, v, <<q1, q2>>)>>}
    <3>1. e2(m) = UNION {a(q2) : q2 \in g.trans2[<<s, q1>>]}
      BY <2>4
    <3>2. \A q2 : a(q2) = b(q2)
      BY <2>2
    <3>3. \A T : UNION {a(q2) : q2 \in T} = UNION {b(q2) : q2 \in T}
      <4>. HIDE DEF a, b
      <4>. QED  BY <3>2
    <3>4. e2(m) = UNION {b(q2) : q2 \in g.trans2[<<s, q1>>]}
      <4>. HIDE DEF a, b, m, e2
      <4>. QED  BY <3>1, <3>3
    <3>. QED  BY <3>4
  <2>. HIDE DEF e2
  <2>6. e2(m) = Replies(bad, k, v, q1, g.trans2[<<s, q1>>])
    BY <2>5 DEF Replies
  <2>. QED  BY <2>3, <2>6
<1>. HIDE DEF i2, t1, t2, X, e2
<1>7. /\ Product(g, bad, k).init1 = g.init1 /\ Product(g, bad, k).inv1 = g.inv1
      /\ Product(g, bad, k).inv2 = WithCounters(g.inv2, V) /\ Product(g, bad, k).init2 = i2
      /\ Product(g, bad, k).trans1 = t1 /\ Product(g, bad, k).trans2 = t2
  BY <1>1
<1>8. \A s \in States, v \in V : Product(g, bad, k).trans1[Joined(s, v)] = g.trans1[s]
  BY <1>5, <1>7
<1>9. \A s \in States, v \in V, q1 \in P1 :
          Product(g, bad, k).trans2[<<Joined(s, v), q1>>]
              = Replies(bad, k, v, q1, g.trans2[<<s, q1>>])
  BY <1>6, <1>7
<1>. QED  BY <1>4, <1>7, <1>8, <1>9

(* One round of the product.                                               *)
After(bad, k, v, q1, q2) == <<<<q1, q2>>, Counted(bad, k, v, <<q1, q2>>)>>

Forces(g, bad, k, x, A, plr) ==
    IF plr = 1
    THEN \E q1 \in Moves1(g, x[1]) : \A q2 \in Moves2(g, x[1], q1) : After(bad, k, x[2], q1, q2) \in A
    ELSE \A q1 \in Moves1(g, x[1]) : \E q2 \in Moves2(g, x[1], q1) : After(bad, k, x[2], q1, q2) \in A

Counting(g, bad, k) == Invar(g) \X CountersOf(bad, k)

LEMMA MovesTyped ==
    ASSUME NEW g \in GameType, NEW s \in Invar(g)
    PROVE  /\ s \in States
           /\ \A q1 \in Moves1(g, s) : q1 \in P1
           /\ \A q1 \in Moves1(g, s) : \A q2 \in Moves2(g, s, q1) :
                 q2 \in P2 /\ <<q1, q2>> \in Invar(g) /\ <<q1, q2>> \in States
<1>1. s \in States
  BY TypedInvar
<1>2. \A q1 \in Moves1(g, s) : q1 \in P1
  BY TypedParts DEF Moves1
<1>3. ASSUME NEW q1 \in Moves1(g, s), NEW q2 \in Moves2(g, s, q1)
      PROVE  q2 \in P2 /\ <<q1, q2>> \in Invar(g) /\ <<q1, q2>> \in States
  BY RoundInvar, TypedInvar DEF States
<1>. QED  BY <1>1, <1>2, <1>3

LEMMA AfterTyped ==
    ASSUME NEW g \in GameType, NEW bad \in LtlType, NEW k \in 0 .. MaxK,
           NEW x \in Counting(g, bad, k),
           NEW q1 \in Moves1(g, x[1]), NEW q2 \in Moves2(g, x[1], q1)
    PROVE  After(bad, k, x[2], q1, q2) \in Counting(g, bad, k)
  BY MovesTyped, BadParts DEF After, Counting

LEMMA ProductInvar ==
    ASSUME NEW g \in GameType, NEW bad \in LtlType, NEW k \in 0 .. MaxK
    PROVE  LET V == CountersOf(bad, k)
           IN  OfProduct(V)!Invar(Product(g, bad, k)) = WithCounters(Invar(g), V)
<1>. DEFINE V == CountersOf(bad, k)
            Q == Product(g, bad, k)
<1>1. Q.inv1 = g.inv1 /\ Q.inv2 = WithCounters(g.inv2, V)
  BY ProductParts
<1>2. OfProduct(V)!Invar(Q) = {x \in Q.inv2 : x[1] \in Q.inv1}
  BY DEF OfProduct!Invar
<1>. HIDE DEF Q
<1>3. g.inv2 \in SUBSET States /\ Invar(g) \in SUBSET States
  BY TypedParts, TypedInvar
<1>4. ASSUME NEW x \in WithCounters(g.inv2, V), x[1] \in g.inv1
      PROVE  x \in WithCounters(Invar(g), V)
  <2>1. PICK s \in g.inv2, v \in V : x = <<s[1], <<s[2], v>>>>
    BY DEF WithCounters
  <2>. QED  BY <1>4, <2>1 DEF WithCounters, Invar
<1>5. ASSUME NEW x \in WithCounters(Invar(g), V)
      PROVE  x \in WithCounters(g.inv2, V) /\ x[1] \in g.inv1
  <2>1. PICK s \in Invar(g), v \in V : x = <<s[1], <<s[2], v>>>>
    BY DEF WithCounters
  <2>. QED  BY <2>1 DEF WithCounters, Invar
<1>6. OfProduct(V)!Invar(Q) = WithCounters(Invar(g), V)
  <2>. DEFINE T == WithCounters(Invar(g), V)
              R == OfProduct(V)!Invar(Q)
  <2>1. R = {x \in WithCounters(g.inv2, V) : x[1] \in g.inv1}
    BY <1>1, <1>2
  <2>2. \A x : x \in T <=> x \in WithCounters(g.inv2, V) /\ x[1] \in g.inv1
    BY <1>4, <1>5
  <2>. HIDE DEF T, R
  <2>. QED  BY <2>1, <2>2 DEF T, R
<1>. QED  BY <1>6 DEF Q

LEMMA ProductMoves ==
    ASSUME NEW g \in GameType, NEW bad \in LtlType, NEW k \in 0 .. MaxK,
           NEW s \in Invar(g), NEW v \in CountersOf(bad, k)
    PROVE  LET V == CountersOf(bad, k)
               Q == Product(g, bad, k)
           IN  /\ OfProduct(V)!Moves1(Q, Joined(s, v)) = Moves1(g, s)
               /\ \A q1 \in Moves1(g, s) :
                     OfProduct(V)!Moves2(Q, Joined(s, v), q1)
                         = Replies(bad, k, v, q1, Moves2(g, s, q1))
<1>. DEFINE V == CountersOf(bad, k)
            Q == Product(g, bad, k)
<1>0. s \in States /\ g.inv2 \in SUBSET States
  BY TypedInvar, TypedParts
<1>1. /\ Q.inv1 = g.inv1 /\ Q.inv2 = WithCounters(g.inv2, V)
      /\ Q.trans1[Joined(s, v)] = g.trans1[s]
      /\ \A q1 \in P1 : Q.trans2[<<Joined(s, v), q1>>]
                            = Replies(bad, k, v, q1, g.trans2[<<s, q1>>])
  BY <1>0, ProductParts
<1>2. /\ OfProduct(V)!Moves1(Q, Joined(s, v)) = Q.trans1[Joined(s, v)] \cap Q.inv1
      /\ \A q1 : OfProduct(V)!Moves2(Q, Joined(s, v), q1)
             = {q \in Q.trans2[<<Joined(s, v), q1>>] : <<q1, q>> \in Q.inv2}
  BY DEF OfProduct!Moves1, OfProduct!Moves2
<1>. HIDE DEF Q
<1>3. ASSUME NEW q1 \in Moves1(g, s)
      PROVE  OfProduct(V)!Moves2(Q, Joined(s, v), q1) = Replies(bad, k, v, q1, Moves2(g, s, q1))
  <2>1. q1 \in P1
    BY MovesTyped
  <2>2. ASSUME NEW q2 \in g.trans2[<<s, q1>>]
        PROVE  <<q1, <<q2, Counted(bad, k, v, <<q1, q2>>)>>>> \in WithCounters(g.inv2, V)
                   <=> <<q1, q2>> \in g.inv2
    <3>1. g.trans2[<<s, q1>>] \in SUBSET P2
      BY <1>0, <2>1, TypedParts
    <3>2. <<q1, q2>> \in States /\ Counted(bad, k, v, <<q1, q2>>) \in V
      BY <2>1, <3>1, BadParts DEF States
    <3>3. <<q1, <<q2, Counted(bad, k, v, <<q1, q2>>)>>>>
              = Joined(<<q1, q2>>, Counted(bad, k, v, <<q1, q2>>))
      BY DEF Joined
    <3>. QED  BY <1>0, <3>2, <3>3, JoinedIs
  <2>3. Moves2(g, s, q1) = {q2 \in g.trans2[<<s, q1>>] : <<q1, q2>> \in g.inv2}
    BY DEF Moves2
  <2>. DEFINE All == Replies(bad, k, v, q1, g.trans2[<<s, q1>>])
              Into == WithCounters(g.inv2, V)
              M == OfProduct(V)!Moves2(Q, Joined(s, v), q1)
  <2>4. M = {q \in All : <<q1, q>> \in Into}
    <3>1. M = {q \in Q.trans2[<<Joined(s, v), q1>>] : <<q1, q>> \in Q.inv2}
      BY <1>2
    <3>2. Q.trans2[<<Joined(s, v), q1>>] = All /\ Q.inv2 = Into
      BY <1>1, <2>1
    <3>. HIDE DEF M, All, Into
    <3>. QED  BY <3>1, <3>2
  <2>5. \A q \in All : <<q1, q>> \in Into
            <=> \E q2 \in Moves2(g, s, q1) : q = <<q2, Counted(bad, k, v, <<q1, q2>>)>>
    <3>. HIDE DEF Into
    <3>. QED  BY <2>2, <2>3 DEF Replies, Into
  <2>6. \A q2 \in Moves2(g, s, q1) : <<q2, Counted(bad, k, v, <<q1, q2>>)>> \in All
    BY <2>3 DEF Replies
  <2>7. M = Replies(bad, k, v, q1, Moves2(g, s, q1))
    <3>. HIDE DEF M, All, Into
    <3>. QED  BY <2>4, <2>5, <2>6 DEF Replies
  <2>. QED  BY <2>7
<1>. QED  BY <1>1, <1>2, <1>3 DEF Moves1, Q

Split(bad, k, S) == {x \in States \X CountersOf(bad, k) : Joined(x[1], x[2]) \in S}

LEMMA ProductImage ==
    ASSUME NEW g \in GameType, NEW bad \in LtlType, NEW k \in 0 .. MaxK,
           NEW s \in States, NEW v \in CountersOf(bad, k), NEW S, NEW plr \in Players
    PROVE  Joined(s, v) \in OfProduct(CountersOf(bad, k))!StrongBackwardImage(Product(g, bad, k), S, plr)
               <=> s \in Invar(g) /\ Forces(g, bad, k, <<s, v>>, Split(bad, k, S), plr)
<1>. DEFINE V == CountersOf(bad, k)
            Q == Product(g, bad, k)
            x == Joined(s, v)
            Answer(q1, hit) == \E q \in OfProduct(V)!Moves2(Q, x, q1) : (<<q1, q>> \in S) <=> hit
<1>1. x \in OfProduct(V)!StrongBackwardImage(Q, S, plr)
          <=> /\ x \in OfProduct(V)!Invar(Q)
              /\ (\E q1 \in OfProduct(V)!Moves1(Q, x) : ~Answer(q1, plr # 1)) <=> (plr # 2)
  BY DEF OfProduct!StrongBackwardImage, OfProduct!Answerable
<1>2. x \in OfProduct(V)!Invar(Q) <=> s \in Invar(g)
  <2>1. Invar(g) \in SUBSET States
    BY TypedInvar
  <2>. QED  BY <2>1, ProductInvar, JoinedIs
<1>. SUFFICES ASSUME s \in Invar(g)
     PROVE  ((\E q1 \in OfProduct(V)!Moves1(Q, x) : ~Answer(q1, plr # 1)) <=> (plr # 2))
                <=> Forces(g, bad, k, <<s, v>>, Split(bad, k, S), plr)
  BY <1>1, <1>2
<1>3. OfProduct(V)!Moves1(Q, x) = Moves1(g, s)
  BY ProductMoves
<1>4. ASSUME NEW q1 \in Moves1(g, s)
      PROVE  /\ Answer(q1, TRUE) <=> \E q2 \in Moves2(g, s, q1) :
                    After(bad, k, v, q1, q2) \in Split(bad, k, S)
             /\ ~Answer(q1, FALSE) <=> \A q2 \in Moves2(g, s, q1) :
                    After(bad, k, v, q1, q2) \in Split(bad, k, S)
  <2>1. OfProduct(V)!Moves2(Q, x, q1) = Replies(bad, k, v, q1, Moves2(g, s, q1))
    BY ProductMoves
  <2>2. ASSUME NEW q2 \in Moves2(g, s, q1)
        PROVE  After(bad, k, v, q1, q2) \in Split(bad, k, S)
                   <=> <<q1, <<q2, Counted(bad, k, v, <<q1, q2>>)>>>> \in S
    <3>1. <<q1, q2>> \in States /\ Counted(bad, k, v, <<q1, q2>>) \in V
      BY MovesTyped, BadParts
    <3>. QED  BY <3>1 DEF After, Split, Joined
  <2>. DEFINE M == OfProduct(V)!Moves2(Q, x, q1)
  <2>3. \A hit : Answer(q1, hit) = \E q \in M : (<<q1, q>> \in S) <=> hit
    OBVIOUS
  <2>4. M = {<<q2, Counted(bad, k, v, <<q1, q2>>)>> : q2 \in Moves2(g, s, q1)}
    BY <2>1 DEF Replies
  <2>. HIDE DEF M, Answer
  <2>. QED  BY <2>2, <2>3, <2>4
<1>5. CASE plr = 1
  <2>1. (plr # 1) = FALSE /\ (plr # 2) = TRUE
    BY <1>5
  <2>2. Forces(g, bad, k, <<s, v>>, Split(bad, k, S), plr)
            <=> \E q1 \in Moves1(g, s) : \A q2 \in Moves2(g, s, q1) :
                    After(bad, k, v, q1, q2) \in Split(bad, k, S)
    BY <1>5 DEF Forces
  <2>. HIDE DEF Q, x, Answer
  <2>. QED  BY <1>3, <1>4, <2>1, <2>2
<1>6. CASE plr = 2
  <2>1. (plr # 1) = TRUE /\ (plr # 2) = FALSE
    BY <1>6
  <2>2. Forces(g, bad, k, <<s, v>>, Split(bad, k, S), plr)
            <=> \A q1 \in Moves1(g, s) : \E q2 \in Moves2(g, s, q1) :
                    After(bad, k, v, q1, q2) \in Split(bad, k, S)
    BY <1>6 DEF Forces
  <2>. HIDE DEF Q, x, Answer
  <2>. QED  BY <1>3, <1>4, <2>1, <2>2
<1>. QED  BY <1>5, <1>6 DEF Players

(* The initial states from which the play starts in a state and counters of A. *)
Beginning(g, bad, k, A) == {s \in Invar(g) : <<s, First(bad, k, s)>> \in A}

LEMMA ProductInit ==
    ASSUME NEW g \in GameType, NEW bad \in LtlType, NEW k \in 0 .. MaxK
    PROVE  LET V == CountersOf(bad, k)
               Q == Product(g, bad, k)
           IN  /\ OfProduct(V)!Init1(Q) = Init1(g)
               /\ \A p1, p : p \in P2 \X V /\ <<p1, p>> \in OfProduct(V)!Init2(Q)
                     <=> \E p2 \in P2 : /\ <<p1, p2>> \in Init2(g)
                                        /\ p = <<p2, First(bad, k, <<p1, p2>>)>>
<1>. DEFINE V == CountersOf(bad, k)
            Q == Product(g, bad, k)
            Into == WithCounters(g.inv2, V)
            First2 == {Joined(s, First(bad, k, s)) : s \in g.init2}
<1>1. Q.init1 = g.init1 /\ Q.inv1 = g.inv1 /\ Q.inv2 = Into /\ Q.init2 = First2
  BY ProductParts
<1>2. OfProduct(V)!Init1(Q) = Q.init1 \cap Q.inv1 /\ OfProduct(V)!Init2(Q) = Q.init2 \cap Q.inv2
  BY DEF OfProduct!Init1, OfProduct!Init2
<1>. HIDE DEF Q
<1>3. OfProduct(V)!Init1(Q) = Init1(g)
  BY <1>1, <1>2 DEF Init1
<1>4. g.init2 \in SUBSET States /\ g.inv2 \in SUBSET States
  BY TypedParts
<1>5. ASSUME NEW s \in States
      PROVE  /\ s[2] \in P2 /\ First(bad, k, s) \in V
             /\ Joined(s, First(bad, k, s)) = <<s[1], <<s[2], First(bad, k, s)>>>>
             /\ s = <<s[1], s[2]>>
             /\ Joined(s, First(bad, k, s)) \in Into <=> s \in g.inv2
  <2>1. First(bad, k, s) \in V
    BY BadParts
  <2>2. Joined(s, First(bad, k, s)) \in Into <=> s \in g.inv2
    BY <1>4, <2>1, JoinedIs
  <2>. QED  BY <2>1, <2>2 DEF States, Joined
<1>6. ASSUME NEW p1, NEW p, p \in P2 \X V, <<p1, p>> \in OfProduct(V)!Init2(Q)
      PROVE  \E p2 \in P2 : <<p1, p2>> \in Init2(g) /\ p = <<p2, First(bad, k, <<p1, p2>>)>>
  <2>1. <<p1, p>> \in First2 /\ <<p1, p>> \in Into
    <3>. HIDE DEF First2, Into
    <3>. QED  BY <1>1, <1>2, <1>6
  <2>2. PICK s \in g.init2 : <<p1, p>> = Joined(s, First(bad, k, s))
    BY <2>1
  <2>3. s \in g.inv2
    <3>. HIDE DEF Into
    <3>. QED  BY <1>4, <1>5, <2>1, <2>2
  <2>4. p1 = s[1] /\ p = <<s[2], First(bad, k, s)>> /\ s = <<p1, s[2]>> /\ s[2] \in P2
    BY <1>4, <1>5, <2>2
  <2>. QED  BY <2>3, <2>4 DEF Init2
<1>7. ASSUME NEW p1, NEW p2 \in P2, <<p1, p2>> \in Init2(g)
      PROVE  LET p == <<p2, First(bad, k, <<p1, p2>>)>>
             IN  p \in P2 \X V /\ <<p1, p>> \in OfProduct(V)!Init2(Q)
  <2>. DEFINE s == <<p1, p2>>
              p == <<p2, First(bad, k, <<p1, p2>>)>>
  <2>1. s \in g.init2 /\ s \in g.inv2 /\ s \in States
    BY <1>4, <1>7 DEF Init2
  <2>2. Joined(s, First(bad, k, s)) = <<p1, p>>
    BY DEF Joined
  <2>3. <<p1, p>> \in First2
    <3>1. Joined(s, First(bad, k, s)) \in First2
      <4>. HIDE DEF s
      <4>. QED  BY <2>1
    <3>. QED  BY <2>2, <3>1
  <2>4. <<p1, p>> \in Into
    <3>. HIDE DEF s, p, Into
    <3>. QED  BY <1>5, <2>1, <2>2
  <2>5. p \in P2 \X V
    <3>. HIDE DEF s
    <3>1. First(bad, k, s) \in V
      BY <1>5, <2>1
    <3>. QED  BY <3>1 DEF s
  <2>. HIDE DEF First2, Into, p
  <2>6. p \in P2 \X V /\ <<p1, p>> \in OfProduct(V)!Init2(Q)
    BY <1>1, <1>2, <2>3, <2>4, <2>5
  <2>. QED  BY <2>6 DEF p
<1>. HIDE DEF V
<1>8. \A p1, p : p \in P2 \X V /\ <<p1, p>> \in OfProduct(V)!Init2(Q)
         <=> \E p2 \in P2 : <<p1, p2>> \in Init2(g) /\ p = <<p2, First(bad, k, <<p1, p2>>)>>
  BY <1>6, <1>7
<1>. QED  BY <1>3, <1>8 DEF Q, V

LEMMA AvoidsStart ==
    ASSUME NEW g \in GameType, NEW bad \in LtlType, NEW k \in 0 .. MaxK, NEW plr \in Players,
           NEW T
    PROVE  LET V == CountersOf(bad, k)
               Q == Product(g, bad, k)
           IN  ~OfProduct(V)!CanPlayerSatisfy(OfProduct(V)!Init1(Q), OfProduct(V)!Init2(Q), T,
                                              Opponent(plr), "N")
                  <=> StartsIn(g, {s \in Invar(g) : Joined(s, First(bad, k, s)) \notin T}, plr, "N")
<1>. DEFINE V == CountersOf(bad, k)
            Q == Product(g, bad, k)
            W == {s \in Invar(g) : Joined(s, First(bad, k, s)) \notin T}
            I1 == OfProduct(V)!Init1(Q)
            I2 == OfProduct(V)!Init2(Q)
            PP == P2 \X V
            Can == OfProduct(V)!CanPlayerSatisfy(I1, I2, T, Opponent(plr), "N")
            Legal(p1, p) == p \in PP /\ <<p1, p>> \in I2
<1>1. I1 = Init1(g)
  BY ProductInit
<1>2. \A p1, p : Legal(p1, p)
         <=> \E p2 \in P2 : <<p1, p2>> \in Init2(g) /\ p = <<p2, First(bad, k, <<p1, p2>>)>>
  BY ProductInit
<1>3. ASSUME NEW p1 \in Init1(g), NEW p2 \in P2, <<p1, p2>> \in Init2(g)
      PROVE  /\ Legal(p1, <<p2, First(bad, k, <<p1, p2>>)>>)
             /\ <<p1, p2>> \in W <=> <<p1, <<p2, First(bad, k, <<p1, p2>>)>>>> \notin T
  <2>1. <<p1, p2>> \in Invar(g)
    BY <1>3, InitInvar
  <2>2. Joined(<<p1, p2>>, First(bad, k, <<p1, p2>>)) = <<p1, <<p2, First(bad, k, <<p1, p2>>)>>>>
    BY DEF Joined
  <2>3. Legal(p1, <<p2, First(bad, k, <<p1, p2>>)>>)
    <3>. HIDE DEF Legal
    <3>. QED  BY <1>2, <1>3
  <2>. QED  BY <2>1, <2>2, <2>3
<1>4. CASE plr = 2
  <2>1. Opponent(plr) = 1 /\ plr # 1
    BY <1>4 DEF Opponent
  <2>2. ~Can <=> \A p1 \in I1 : \E p : Legal(p1, p) /\ <<p1, p>> \notin T
    BY <2>1 DEF OfProduct!CanPlayerSatisfy, OfProduct!GoalNegated, OfProduct!P2Negated,
                OfProduct!P1Negated
  <2>3. StartsIn(g, W, plr, "N") <=> \A p1 \in Init1(g) : \E p2 \in P2 : <<p1, p2>> \in Init2(g) \cap W
    BY <2>1 DEF StartsIn
  <2>. HIDE DEF Can, Legal, I1, I2, W
  <2>4. ~Can <=> \A p1 \in Init1(g) : \E p2 \in P2 : <<p1, p2>> \in Init2(g) \cap W
    <3>1. ASSUME NEW p1 \in Init1(g)
          PROVE  (\E p : Legal(p1, p) /\ <<p1, p>> \notin T)
                     <=> \E p2 \in P2 : <<p1, p2>> \in Init2(g) \cap W
      <4>1. ASSUME NEW p, Legal(p1, p), <<p1, p>> \notin T
            PROVE  \E p2 \in P2 : <<p1, p2>> \in Init2(g) \cap W
        BY <1>2, <1>3, <4>1
      <4>2. ASSUME NEW p2 \in P2, <<p1, p2>> \in Init2(g) \cap W
            PROVE  \E p : Legal(p1, p) /\ <<p1, p>> \notin T
        <5>1. <<p1, p2>> \in Init2(g) /\ <<p1, p2>> \in W
          BY <4>2
        <5>. QED  BY <1>3, <5>1
      <4>. QED  BY <4>1, <4>2
    <3>. QED  BY <1>1, <2>2, <3>1
  <2>5. ~Can <=> StartsIn(g, W, plr, "N")
    BY <2>3, <2>4
  <2>. QED  BY <2>5 DEF Can, I1, I2, W
<1>5. CASE plr = 1
  <2>1. Opponent(plr) = 2
    BY <1>5 DEF Opponent
  <2>2. ~Can <=> \E p1 \in I1 : \A p : Legal(p1, p) => <<p1, p>> \notin T
    <3>. DEFINE Some(p1) == \E p \in PP : <<p1, p>> \in I2 /\ <<p1, p>> \in T
    <3>1. Can <=> ((\E p1 \in I1 : ~Some(p1)) <=> FALSE)
      BY <2>1 DEF OfProduct!CanPlayerSatisfy, OfProduct!GoalNegated, OfProduct!P2Negated,
                  OfProduct!P1Negated
    <3>2. \A p1 : ~Some(p1) <=> \A p : Legal(p1, p) => <<p1, p>> \notin T
      OBVIOUS
    <3>. HIDE DEF Can, Legal, I1, I2, Some
    <3>. QED  BY <3>1, <3>2
  <2>3. StartsIn(g, W, plr, "N")
            <=> \E p1 \in Init1(g) : \A p2 \in P2 : <<p1, p2>> \in Init2(g) => <<p1, p2>> \in W
    BY <1>5 DEF StartsIn
  <2>. HIDE DEF Can, Legal, I1, I2, W
  <2>4. ~Can <=> \E p1 \in Init1(g) : \A p2 \in P2 : <<p1, p2>> \in Init2(g) => <<p1, p2>> \in W
    BY <1>1, <1>2, <1>3, <2>2
  <2>5. ~Can <=> StartsIn(g, W, plr, "N")
    BY <2>3, <2>4
  <2>. QED  BY <2>5 DEF Can, I1, I2, W
<1>. QED  BY <1>4, <1>5 DEF Players

(* A set of states with counters the player can stay in, below the bound.  *)
IsSafe(g, bad, k, A, plr) ==
    /\ A \subseteq Counting(g, bad, k)
    /\ \A x \in A : /\ ~Exceeded(Automaton[bad.op], k, x[2])
                    /\ Forces(g, bad, k, x, A, plr)

LEMMA ForcesDual ==
    ASSUME NEW g \in GameType, NEW bad \in LtlType, NEW k \in 0 .. MaxK, NEW plr \in Players,
           NEW x \in Counting(g, bad, k), NEW T, NEW A,
           \A y \in Counting(g, bad, k) : y \in A <=> y \notin T
    PROVE  Forces(g, bad, k, x, A, plr) <=> ~Forces(g, bad, k, x, T, Opponent(plr))
<1>1. \A q1 \in Moves1(g, x[1]) : \A q2 \in Moves2(g, x[1], q1) :
          After(bad, k, x[2], q1, q2) \in A <=> After(bad, k, x[2], q1, q2) \notin T
  BY AfterTyped
<1>2. CASE plr = 1
  BY <1>1, <1>2 DEF Forces, Opponent
<1>3. CASE plr = 2
  BY <1>1, <1>3 DEF Forces, Opponent
<1>. QED  BY <1>2, <1>3 DEF Players

LEMMA ForcesMonotone ==
    ASSUME NEW g, NEW bad, NEW k, NEW x, NEW A, NEW C, A \subseteq C, NEW plr,
           Forces(g, bad, k, x, A, plr)
    PROVE  Forces(g, bad, k, x, C, plr)
  BY DEF Forces

LEMMA FiniteCounting ==
    ASSUME IsFiniteSet(States), NEW bad \in LtlType, NEW k \in 0 .. MaxK,
           IsFiniteSet(Automaton[bad.op].states)
    PROVE  /\ IsFiniteSet(CountersOf(bad, k))
           /\ IsFiniteSet(WithCounters(States, CountersOf(bad, k)))
<1>. DEFINE V == CountersOf(bad, k)
<1>1. IsFiniteSet(V)
  <2>1. k \in Int
    BY BadParts
  <2>2. IsFiniteSet(-1 .. k)
    BY <2>1, FS_Interval
  <2>. QED  BY <2>2, FiniteFunctions DEF CountersOf, Counters
<1>2. IsFiniteSet(States \X V)
  BY <1>1, FS_Product
<1>. DEFINE c == [x \in States \X V |-> Joined(x[1], x[2])]
<1>3. c \in Surjection(States \X V, WithCounters(States, V))
  <2>1. c \in [States \X V -> WithCounters(States, V)]
    BY JoinedIs
  <2>2. ASSUME NEW y \in WithCounters(States, V) PROVE \E x \in States \X V : c[x] = y
    <3>1. PICK s \in States, v \in V : y = Joined(s, v)
      BY JoinedIs
    <3>2. <<s, v>> \in States \X V /\ c[<<s, v>>] = Joined(s, v)
      OBVIOUS
    <3>. QED  BY <3>1, <3>2
  <2>. QED  BY <2>1, <2>2 DEF Surjection
<1>4. IsFiniteSet(WithCounters(States, V))
  BY <1>2, <1>3, FS_Surjection
<1>. QED  BY <1>1, <1>4

(* The states of the product from which the opponent gets over the bound.  *)
Lost(g, bad, k, plr) ==
    LET V == CountersOf(bad, k)
    IN  FixedPoint([S \in SUBSET WithCounters(States, V) |->
                       S \cup OfProduct(V)!StrongBackwardImage(Product(g, bad, k), S, Opponent(plr))],
                   Goal(bad, k, V) \cap OfProduct(V)!Invar(Product(g, bad, k)))

LEMMA LostIs ==
    ASSUME NEW g \in GameType, NEW bad \in LtlType, NEW k \in 0 .. MaxK, NEW plr \in Players,
           IsFiniteSet(States), IsFiniteSet(Automaton[bad.op].states)
    PROVE  LET V == CountersOf(bad, k)
               L == Lost(g, bad, k, plr)
           IN  /\ \A x \in Counting(g, bad, k) :
                     /\ Exceeded(Automaton[bad.op], k, x[2]) => Joined(x[1], x[2]) \in L
                     /\ Forces(g, bad, k, x, Split(bad, k, L), Opponent(plr))
                            => Joined(x[1], x[2]) \in L
               /\ \A U \in SUBSET WithCounters(States, V) :
                     /\ \A x \in Counting(g, bad, k) :
                           \/ Exceeded(Automaton[bad.op], k, x[2])
                           \/ Forces(g, bad, k, x, Split(bad, k, U), Opponent(plr))
                           => Joined(x[1], x[2]) \in U
                     => L \subseteq U
<1>. DEFINE V == CountersOf(bad, k)
            Q == Product(g, bad, k)
            X == WithCounters(States, V)
            opp == Opponent(plr)
            Img(S) == OfProduct(V)!StrongBackwardImage(Q, S, opp)
            f == [S \in SUBSET X |-> S \cup Img(S)]
            Inv == WithCounters(Invar(g), V)
            R == Goal(bad, k, V) \cap Inv
            L == Lost(g, bad, k, plr)
            Over(v) == Exceeded(Automaton[bad.op], k, v)
<1>0. /\ Invar(g) \in SUBSET States /\ opp \in Players
      /\ Counting(g, bad, k) \subseteq States \X V
      /\ \A x \in Counting(g, bad, k) : x[1] \in States /\ x[1] \in Invar(g) /\ x[2] \in V
                                         /\ x = <<x[1], x[2]>>
  BY TypedInvar DEF Counting, Opponent, Players
<1>1. OfProduct(V)!Invar(Q) = Inv
  BY ProductInvar
<1>2. L = FixedPoint(f, R)
  <2>1. L = FixedPoint(f, Goal(bad, k, V) \cap OfProduct(V)!Invar(Q))
    BY DEF Lost
  <2>. HIDE DEF L, Inv, f, Q
  <2>. QED  BY <1>1, <2>1
<1>3. ASSUME NEW s \in States, NEW v \in V
      PROVE  /\ Joined(s, v) \in X
             /\ Joined(s, v) \in R <=> s \in Invar(g) /\ Over(v)
             /\ \A S : Joined(s, v) \in Img(S)
                          <=> s \in Invar(g) /\ Forces(g, bad, k, <<s, v>>, Split(bad, k, S), opp)
  <2>1. Joined(s, v) \in X
    BY JoinedIs
  <2>2. Joined(s, v) \in Inv <=> s \in Invar(g)
    BY <1>0, JoinedIs
  <2>3. Joined(s, v) \in Goal(bad, k, V) <=> Over(v)
    <3>1. Goal(bad, k, V) = WithCounters(States, {u \in V : Over(u)})
      BY DEF Goal
    <3>. DEFINE D == {u \in V : Over(u)}
    <3>2. Joined(s, v) \in WithCounters(States, D) <=> v \in D
      <4>. HIDE DEF D
      <4>. QED  BY JoinedIs
    <3>. QED  BY <3>1, <3>2
  <2>4. \A S : Joined(s, v) \in Img(S)
                   <=> s \in Invar(g) /\ Forces(g, bad, k, <<s, v>>, Split(bad, k, S), opp)
    <3>. HIDE DEF opp
    <3>. QED  BY <1>0, ProductImage
  <2>. HIDE DEF Inv, X, Img, Over
  <2>. QED  BY <2>1, <2>2, <2>3, <2>4
<1>4. ASSUME NEW S PROVE Img(S) \subseteq Inv
  BY <1>1 DEF OfProduct!StrongBackwardImage
<1>5. Inv \subseteq X
  BY <1>0 DEF WithCounters
<1>6. ASSUME NEW S, NEW T, S \subseteq T PROVE Img(S) \subseteq Img(T)
  <2>. SUFFICES ASSUME NEW y, y \in Img(S) PROVE y \in Img(T)
    OBVIOUS
  <2>. HIDE DEF X, Inv
  <2>1. y \in X
    BY <1>4, <1>5
  <2>2. PICK s \in States, v \in V : y = Joined(s, v)
    BY <2>1, JoinedIs DEF X
  <2>3. s \in Invar(g) /\ Forces(g, bad, k, <<s, v>>, Split(bad, k, S), opp)
    BY <1>3, <2>2
  <2>4. Split(bad, k, S) \subseteq Split(bad, k, T)
    BY <1>6 DEF Split
  <2>5. Forces(g, bad, k, <<s, v>>, Split(bad, k, T), opp)
    BY <2>3, <2>4, ForcesMonotone
  <2>. QED  BY <1>3, <2>2, <2>3, <2>5
<1>. HIDE DEF Img, X, Inv
<1>7. f \in [SUBSET X -> SUBSET X] /\ Monotone(f, SUBSET X)
  <2>1. \A S \in SUBSET X : f[S] = S \cup Img(S) /\ S \cup Img(S) \in SUBSET X
    BY <1>4, <1>5
  <2>2. f \in [SUBSET X -> SUBSET X]
    BY <2>1
  <2>. HIDE DEF f
  <2>. QED  BY <1>6, <2>1, <2>2 DEF Monotone
<1>8. IsFiniteSet(X)
  BY FiniteCounting DEF X
<1>9. R \in SUBSET X /\ R \subseteq f[R]
  <2>1. R \in SUBSET X
    BY <1>5
  <2>. HIDE DEF R
  <2>. QED  BY <2>1
<1>10. /\ L \in SUBSET X /\ R \subseteq L /\ f[L] = L
       /\ \A U \in SUBSET X : R \subseteq U /\ f[U] \subseteq U => L \subseteq U
  <2>. HIDE DEF f, R, L
  <2>. QED  BY <1>2, <1>7, <1>8, <1>9, LeastAbove
<1>11. Img(L) \subseteq L
  <2>1. f[L] = L \cup Img(L)
    <3>. HIDE DEF L
    <3>. QED  BY <1>10
  <2>. QED  BY <1>10, <2>1
<1>12. ASSUME NEW x \in Counting(g, bad, k)
       PROVE  /\ Over(x[2]) => Joined(x[1], x[2]) \in L
              /\ Forces(g, bad, k, x, Split(bad, k, L), opp) => Joined(x[1], x[2]) \in L
  <2>1. x[1] \in States /\ x[1] \in Invar(g) /\ x[2] \in V /\ x = <<x[1], x[2]>>
    BY <1>0
  <2>. HIDE DEF f, R, L, Over, opp
  <2>2. Over(x[2]) => Joined(x[1], x[2]) \in L
    BY <1>3, <1>10, <2>1
  <2>3. Forces(g, bad, k, x, Split(bad, k, L), opp) => Joined(x[1], x[2]) \in L
    BY <1>3, <1>11, <2>1
  <2>. QED  BY <2>2, <2>3
<1>13. ASSUME NEW U \in SUBSET X,
              \A x \in Counting(g, bad, k) :
                  Over(x[2]) \/ Forces(g, bad, k, x, Split(bad, k, U), opp)
                     => Joined(x[1], x[2]) \in U
       PROVE  L \subseteq U
  <2>1. ASSUME NEW s \in Invar(g), NEW v \in V
        PROVE  <<s, v>> \in Counting(g, bad, k) /\ s \in States
    BY <1>0 DEF Counting
  <2>. HIDE DEF Over, opp, L
  <2>2. R \subseteq U
    <3>. SUFFICES ASSUME NEW y \in R PROVE y \in U
      OBVIOUS
    <3>1. PICK s \in States, v \in V : y = Joined(s, v)
      BY <1>5, JoinedIs DEF X
    <3>2. s \in Invar(g) /\ Over(v)
      <4>. HIDE DEF R
      <4>. QED  BY <1>3, <3>1
    <3>. QED  BY <1>13, <2>1, <3>1, <3>2
  <2>3. Img(U) \subseteq U
    <3>. SUFFICES ASSUME NEW y \in Img(U) PROVE y \in U
      OBVIOUS
    <3>1. PICK s \in States, v \in V : y = Joined(s, v)
      BY <1>4, <1>5, JoinedIs DEF X
    <3>2. s \in Invar(g) /\ Forces(g, bad, k, <<s, v>>, Split(bad, k, U), opp)
      <4>. HIDE DEF R
      <4>. QED  BY <1>3, <3>1
    <3>. QED  BY <1>13, <2>1, <3>1, <3>2
  <2>4. f[U] \subseteq U
    BY <2>3
  <2>. HIDE DEF f, R
  <2>. QED  BY <1>10, <2>2, <2>4
<1>. HIDE DEF L
<1>. QED  BY <1>12, <1>13 DEF X, L

LEMMA AvoidsIs ==
    ASSUME NEW g \in GameType, NEW bad \in LtlType, NEW k \in 0 .. MaxK, NEW plr \in Players,
           IsFiniteSet(States), IsFiniteSet(Automaton[bad.op].states)
    PROVE  AvoidsBound(g, bad, k, plr)
               <=> \E A : IsSafe(g, bad, k, A, plr)
                          /\ StartsIn(g, Beginning(g, bad, k, A), plr, "N")
<1>. DEFINE V == CountersOf(bad, k)
            L == Lost(g, bad, k, plr)
            Free(T) == {s \in Invar(g) : Joined(s, First(bad, k, s)) \notin T}
            Q == Product(g, bad, k)
            Can(T) == OfProduct(V)!CanPlayerSatisfy(OfProduct(V)!Init1(Q), OfProduct(V)!Init2(Q), T,
                                                    Opponent(plr), "N")
<1>0. /\ Counting(g, bad, k) \subseteq States \X V
      /\ \A x \in Counting(g, bad, k) : x[1] \in States /\ x[1] \in Invar(g) /\ x[2] \in V
                                         /\ x = <<x[1], x[2]>>
  BY TypedInvar DEF Counting
<1>1. AvoidsBound(g, bad, k, plr) <=> ~Can(L)
  BY DEF AvoidsBound, Lost, CountersOf
<1>2. \A T : ~Can(T) <=> StartsIn(g, Free(T), plr, "N")
  BY AvoidsStart
<1>3. AvoidsBound(g, bad, k, plr) <=> StartsIn(g, Free(L), plr, "N")
  <2>. HIDE DEF Can, L
  <2>. QED  BY <1>1, <1>2
<1>4. ASSUME StartsIn(g, Free(L), plr, "N")
      PROVE  \E A : IsSafe(g, bad, k, A, plr) /\ StartsIn(g, Beginning(g, bad, k, A), plr, "N")
  <2>. DEFINE A == {x \in Counting(g, bad, k) : Joined(x[1], x[2]) \notin L}
  <2>1. \A y \in Counting(g, bad, k) : y \in A <=> y \notin Split(bad, k, L)
    BY <1>0 DEF Split
  <2>2. IsSafe(g, bad, k, A, plr)
    <3>1. ASSUME NEW x \in A
          PROVE  ~Exceeded(Automaton[bad.op], k, x[2]) /\ Forces(g, bad, k, x, A, plr)
      <4>1. x \in Counting(g, bad, k) /\ Joined(x[1], x[2]) \notin L
        OBVIOUS
      <4>. HIDE DEF A, L
      <4>2. /\ ~Exceeded(Automaton[bad.op], k, x[2])
            /\ ~Forces(g, bad, k, x, Split(bad, k, L), Opponent(plr))
        BY <4>1, LostIs DEF L
      <4>3. Forces(g, bad, k, x, A, plr)
        BY <2>1, <4>1, <4>2, ForcesDual
      <4>. QED  BY <4>2, <4>3
    <3>. QED  BY <3>1 DEF IsSafe
  <2>3. Free(L) \subseteq Beginning(g, bad, k, A)
    <3>1. \A s \in Invar(g) : First(bad, k, s) \in V
      BY BadParts
    <3>. HIDE DEF L
    <3>. QED  BY <3>1 DEF Beginning, Counting
  <2>4. StartsIn(g, Beginning(g, bad, k, A), plr, "N")
    <3>. DEFINE W == Free(L)
                B == Beginning(g, bad, k, A)
    <3>1. W \subseteq B /\ StartsIn(g, W, plr, "N") /\ "N" \in Quantifiers
      BY <1>4, <2>3 DEF Quantifiers
    <3>. HIDE DEF W, B
    <3>2. StartsIn(g, B, plr, "N")
      BY <3>1, StartMonotone
    <3>. QED  BY <3>2 DEF B
  <2>. QED  BY <2>2, <2>4
<1>5. ASSUME NEW A, IsSafe(g, bad, k, A, plr), StartsIn(g, Beginning(g, bad, k, A), plr, "N")
      PROVE  StartsIn(g, Free(L), plr, "N")
  <2>. DEFINE X == WithCounters(States, V)
              U == {y \in X : \A x \in A : y # Joined(x[1], x[2])}
  <2>1. \A x \in A : x \in Counting(g, bad, k) /\ ~Exceeded(Automaton[bad.op], k, x[2])
                     /\ Forces(g, bad, k, x, A, plr)
    BY <1>5 DEF IsSafe
  <2>2. \A x \in Counting(g, bad, k) : Joined(x[1], x[2]) \in U <=> x \notin A
    <3>1. ASSUME NEW x \in Counting(g, bad, k), NEW y \in Counting(g, bad, k),
                 Joined(x[1], x[2]) = Joined(y[1], y[2])
          PROVE  x = y
      <4>1. x[1] = y[1] /\ x[2] = y[2]
        <5>1. x[1] = <<x[1][1], x[1][2]>> /\ y[1] = <<y[1][1], y[1][2]>>
          BY <1>0 DEF States
        <5>2. x[1][1] = y[1][1] /\ x[1][2] = y[1][2] /\ x[2] = y[2]
          BY <3>1 DEF Joined
        <5>. QED  BY <5>1, <5>2
      <4>. QED  BY <1>0, <4>1
    <3>2. \A x \in Counting(g, bad, k) : Joined(x[1], x[2]) \in X
      BY <1>0, JoinedIs
    <3>. QED  BY <2>1, <3>1, <3>2
  <2>. HIDE DEF U, X
  <2>3. \A y \in Counting(g, bad, k) : y \in A <=> y \notin Split(bad, k, U)
    BY <1>0, <2>2 DEF Split
  <2>4. ASSUME NEW x \in Counting(g, bad, k),
               \/ Exceeded(Automaton[bad.op], k, x[2])
               \/ Forces(g, bad, k, x, Split(bad, k, U), Opponent(plr))
        PROVE  Joined(x[1], x[2]) \in U
    <3>. SUFFICES ASSUME x \in A PROVE FALSE
      BY <2>2
    <3>1. Forces(g, bad, k, x, A, plr) /\ ~Exceeded(Automaton[bad.op], k, x[2])
      BY <2>1
    <3>2. ~Forces(g, bad, k, x, Split(bad, k, U), Opponent(plr))
      BY <2>3, <3>1, ForcesDual
    <3>. QED  BY <2>4, <3>1, <3>2
  <2>5. U \in SUBSET WithCounters(States, V)
    BY DEF U, X
  <2>6. L \subseteq U
    BY <2>4, <2>5, LostIs
  <2>7. Beginning(g, bad, k, A) \subseteq Free(L)
    <3>. HIDE DEF L
    <3>1. ASSUME NEW s \in Beginning(g, bad, k, A) PROVE Joined(s, First(bad, k, s)) \notin L
      <4>. DEFINE x == <<s, First(bad, k, s)>>
      <4>1. x \in A /\ x[1] = s /\ x[2] = First(bad, k, s)
        BY DEF Beginning
      <4>. QED  BY <2>1, <2>2, <2>6, <4>1
    <3>. QED  BY <3>1 DEF Beginning
  <2>. DEFINE W == Beginning(g, bad, k, A)
              F == Free(L)
  <2>8. W \subseteq F /\ StartsIn(g, W, plr, "N") /\ "N" \in Quantifiers
    BY <1>5, <2>7 DEF Quantifiers
  <2>. HIDE DEF W, F
  <2>9. StartsIn(g, F, plr, "N")
    BY <2>8, StartMonotone
  <2>. QED  BY <2>9 DEF F
<1>. HIDE DEF L
<1>. QED  BY <1>3, <1>4, <1>5

-----------------------------------------------------------------------------
(* Greater bounds.                                                         *)

(* Counters for a smaller bound k.                                         *)
Capped(n, k) == IF n < k THEN n ELSE k

Cap(B, k, v) == [s \in B.states |-> Capped(v[s], k)]

LEMMA CapType ==
    ASSUME NEW B, NEW j \in Nat, NEW k \in Nat, k <= j, NEW v \in Counters(B, j)
    PROVE  Cap(B, k, v) \in Counters(B, k)
<1>1. ASSUME NEW n \in -1 .. j PROVE Capped(n, k) \in -1 .. k
  BY DEF Capped
<1>2. \A s \in B.states : v[s] \in -1 .. j
  BY DEF Counters
<1>. QED  BY <1>1, <1>2 DEF Cap, Counters

(* Counting up to the smaller bound is counting up to the greater one.     *)
LEMMA CapCounts ==
    ASSUME NEW B, IsAutomaton(B), NEW j \in Nat, NEW k \in Nat, k <= j, NEW a,
           NEW v \in Counters(B, j)
    PROVE  CountOn(B, k, a, Cap(B, k, v)) = Cap(B, k, CountOn(B, j, a, v))
<1>. DEFINE u == Cap(B, k, v)
<1>1. u \in Counters(B, k) /\ \A s \in B.states : u[s] = Capped(v[s], k) /\ v[s] \in -1 .. j
  BY CapType DEF Cap, Counters
<1>. HIDE DEF u
<1>2. ASSUME NEW t \in B.states
      PROVE  Prolonged(B, k, a, u, t) = Capped(Prolonged(B, j, a, v, t), k)
  <2>1. \A r \in Incoming(B, t) : r \in B.states
    BY DEF Incoming
  <2>2. \A r \in B.states : u[r] = -1 <=> v[r] = -1
    BY <1>1 DEF Capped
  <2>3. CASE ~Holds(B, a, t) \/ Counts(B, v, t) = {}
    <3>1. Counts(B, v, t) = {} => Counts(B, u, t) = {}
      BY <2>1, <2>2 DEF Counts
    <3>2. Prolonged(B, k, a, u, t) = -1 /\ Prolonged(B, j, a, v, t) = -1
      BY <1>1, <2>3, <3>1, ProlongedIs
    <3>. QED  BY <3>2 DEF Capped
  <2>4. CASE Holds(B, a, t) /\ Counts(B, v, t) # {}
    <3>1. PICK m \in Counts(B, v, t) : IsGreatest(m, Counts(B, v, t))
      BY <2>4, CountsType, GreatestExists
    <3>2. m \in 0 .. j
      BY CountsType
    <3>3. PICK r \in Incoming(B, t) : v[r] = m
      BY CountedSource
    <3>4. Capped(m, k) \in Counts(B, u, t)
      <4>1. u[r] = Capped(m, k) /\ u[r] # -1
        BY <1>1, <2>1, <2>2, <3>2, <3>3
      <4>. QED  BY <4>1, <3>3 DEF Counts
    <3>5. ASSUME NEW n \in Counts(B, u, t) PROVE n <= Capped(m, k)
      <4>1. PICK q \in Incoming(B, t) : n = u[q]
        BY DEF Counts
      <4>2. n # -1
        BY DEF Counts
      <4>3. v[q] \in Counts(B, v, t) /\ v[q] \in -1 .. j /\ n = Capped(v[q], k)
        BY <1>1, <2>1, <2>2, <4>1, <4>2, CountedSource
      <4>4. v[q] <= m
        BY <3>1, <4>3 DEF IsGreatest
      <4>. QED  BY <3>2, <4>3, <4>4 DEF Capped
    <3>6. IsGreatest(Capped(m, k), Counts(B, u, t))
      BY <3>4, <3>5 DEF IsGreatest
    <3>. DEFINE c == Capped(m, k)
    <3>7. Prolonged(B, k, a, u, t) = IF t \in B.fair /\ c < k THEN c + 1 ELSE c
      <4>1. c \in Counts(B, u, t) /\ IsGreatest(c, Counts(B, u, t))
        BY <3>4, <3>6
      <4>. HIDE DEF c
      <4>. QED  BY <1>1, <2>4, <4>1, ProlongedIs
    <3>8. Prolonged(B, j, a, v, t) = IF t \in B.fair /\ m < j THEN m + 1 ELSE m
      BY <2>4, <3>1, ProlongedIs
    <3>. QED  BY <3>2, <3>7, <3>8 DEF Capped
  <2>. QED  BY <2>3, <2>4
<1>. DEFINE w == CountOn(B, j, a, v)
<1>3. \A t \in B.states : w[t] = Prolonged(B, j, a, v, t)
  BY DEF CountOn
<1>. HIDE DEF w
<1>4. CountOn(B, k, a, u) = Cap(B, k, w)
  BY <1>2, <1>3 DEF CountOn, Cap
<1>. QED  BY <1>4 DEF u, w

LEMMA CapFirst ==
    ASSUME NEW B, NEW j \in Nat, NEW k \in Nat, k <= j, NEW a
    PROVE  FirstCount(B, k, a) = Cap(B, k, FirstCount(B, j, a))
<1>. DEFINE w == FirstCount(B, j, a)
<1>1. \A s \in B.states : w[s] = IF s \in B.initial /\ Holds(B, a, s) THEN InitValue(B, j, s) ELSE -1
  BY DEF FirstCount
<1>2. ASSUME NEW s
      PROVE  Capped(InitValue(B, j, s), k) = InitValue(B, k, s) /\ Capped(-1, k) = -1
  <2>1. CASE s \in B.fair
    BY <2>1 DEF InitValue, Capped
  <2>2. CASE s \notin B.fair
    BY <2>2 DEF InitValue, Capped
  <2>. QED  BY <2>1, <2>2
<1>. HIDE DEF w
<1>3. FirstCount(B, k, a) = Cap(B, k, w)
  BY <1>1, <1>2 DEF FirstCount, Cap
<1>. QED  BY <1>3 DEF w

(* The states with counters up to j whose counters up to k are in A.       *)
Finer(g, bad, j, k, A) ==
    {x \in Counting(g, bad, j) : <<x[1], Cap(Automaton[bad.op], k, x[2])>> \in A}

LEMMA CapAfter ==
    ASSUME NEW bad \in LtlType, NEW j \in 0 .. MaxK, NEW k \in 0 .. MaxK, k <= j
    PROVE  /\ \A v \in CountersOf(bad, j) : \A q1, q2 :
                 After(bad, k, Cap(Automaton[bad.op], k, v), q1, q2)
                     = <<<<q1, q2>>, Cap(Automaton[bad.op], k, Counted(bad, j, v, <<q1, q2>>))>>
           /\ \A s : First(bad, k, s) = Cap(Automaton[bad.op], k, First(bad, j, s))
<1>. DEFINE B == Automaton[bad.op]
<1>1. IsAutomaton(B) /\ k \in Nat /\ j \in Nat
  BY BadParts
<1>2. ASSUME NEW v \in CountersOf(bad, j), NEW s
      PROVE  Counted(bad, k, Cap(B, k, v), s) = Cap(B, k, Counted(bad, j, v, s))
  <2>. DEFINE a == s \in bad.p
  <2>1. v \in Counters(B, j)
    BY DEF CountersOf
  <2>. HIDE DEF a, B
  <2>2. CountOn(B, k, a, Cap(B, k, v)) = Cap(B, k, CountOn(B, j, a, v))
    BY <1>1, <2>1, CapCounts
  <2>. QED  BY <2>2 DEF Counted, a, B
<1>3. ASSUME NEW s PROVE First(bad, k, s) = Cap(B, k, First(bad, j, s))
  <2>. DEFINE a == s \in bad.p
  <2>. HIDE DEF a, B
  <2>1. FirstCount(B, k, a) = Cap(B, k, FirstCount(B, j, a))
    BY <1>1, CapFirst
  <2>. QED  BY <2>1 DEF First, a, B
<1>. QED  BY <1>2, <1>3 DEF After

(* What is safe for a bound is safe for a greater one.                     *)
LEMMA SafeForMore ==
    ASSUME NEW g \in GameType, NEW bad \in LtlType, NEW j \in 0 .. MaxK, NEW k \in 0 .. MaxK,
           k <= j, NEW plr \in Players, NEW A, IsSafe(g, bad, k, A, plr)
    PROVE  /\ IsSafe(g, bad, j, Finer(g, bad, j, k, A), plr)
           /\ Beginning(g, bad, k, A) \subseteq Beginning(g, bad, j, Finer(g, bad, j, k, A))
<1>. DEFINE B == Automaton[bad.op]
            C == Finer(g, bad, j, k, A)
<1>0. IsAutomaton(B) /\ k \in Nat /\ j \in Nat
  BY BadParts
<1>1. C \subseteq Counting(g, bad, j)
  BY DEF Finer
<1>2. ASSUME NEW x \in C
      PROVE  ~Exceeded(B, j, x[2]) /\ Forces(g, bad, j, x, C, plr)
  <2>. DEFINE y == <<x[1], Cap(B, k, x[2])>>
  <2>1. /\ x \in Counting(g, bad, j) /\ y \in A /\ x[2] \in CountersOf(bad, j)
        /\ y[1] = x[1] /\ y[2] = Cap(B, k, x[2])
    BY DEF Finer, Counting
  <2>2. ~Exceeded(B, k, y[2]) /\ Forces(g, bad, k, y, A, plr)
    BY <2>1 DEF IsSafe
  <2>. HIDE DEF y
  <2>3. ~Exceeded(B, j, x[2])
    <3>1. ASSUME NEW s \in B.fair, x[2][s] = j PROVE FALSE
      <4>1. s \in B.states
        BY <1>0 DEF IsAutomaton
      <4>2. y[2][s] = k
        BY <1>0, <2>1, <3>1, <4>1 DEF Cap, Capped
      <4>. QED  BY <2>2, <4>2 DEF Exceeded
    <3>. QED  BY <3>1 DEF Exceeded
  <2>4. ASSUME NEW q1 \in Moves1(g, x[1]), NEW q2 \in Moves2(g, x[1], q1),
               After(bad, k, y[2], q1, q2) \in A
        PROVE  After(bad, j, x[2], q1, q2) \in C
    <3>. DEFINE z == After(bad, j, x[2], q1, q2)
    <3>1. z \in Counting(g, bad, j)
      BY <2>1, AfterTyped
    <3>2. z[1] = <<q1, q2>> /\ z[2] = Counted(bad, j, x[2], <<q1, q2>>)
      BY DEF After
    <3>3. After(bad, k, y[2], q1, q2) = <<z[1], Cap(B, k, z[2])>>
      BY <2>1, <3>2, CapAfter
    <3>. HIDE DEF z
    <3>4. z \in C
      BY <2>4, <3>1, <3>3 DEF Finer
    <3>. QED  BY <3>4 DEF z
  <2>5. Forces(g, bad, j, x, C, plr)
    <3>. HIDE DEF C
    <3>. QED  BY <2>1, <2>2, <2>4 DEF Forces
  <2>. QED  BY <2>3, <2>5
<1>3. ASSUME NEW s \in Beginning(g, bad, k, A) PROVE s \in Beginning(g, bad, j, C)
  <2>1. s \in Invar(g) /\ <<s, First(bad, k, s)>> \in A
    BY DEF Beginning
  <2>2. First(bad, k, s) = Cap(B, k, First(bad, j, s)) /\ First(bad, j, s) \in CountersOf(bad, j)
    BY CapAfter, BadParts
  <2>. QED  BY <2>1, <2>2 DEF Beginning, Finer, Counting
<1>. QED  BY <1>1, <1>2, <1>3 DEF IsSafe

(* With the bound 1 a counter of a fair state is -1 or 1, and with the     *)
(* bound 0 it is -1 or 0: the two are the same.                            *)
FairCounted(B, v) == \A t \in B.fair : v[t] # 0

Coarser(g, bad, A) ==
    {<<x[1], Cap(Automaton[bad.op], 0, x[2])>> :
        x \in {y \in A : FairCounted(Automaton[bad.op], y[2])}}

LEMMA FairIsCounted ==
    ASSUME NEW bad \in LtlType, 1 \in 0 .. MaxK
    PROVE  /\ \A s : FairCounted(Automaton[bad.op], First(bad, 1, s))
           /\ \A v \in CountersOf(bad, 1) : \A s : FairCounted(Automaton[bad.op], Counted(bad, 1, v, s))
<1>. DEFINE B == Automaton[bad.op]
<1>1. IsAutomaton(B) /\ B.fair \subseteq B.states
  BY BadParts DEF IsAutomaton
<1>2. ASSUME NEW s, NEW t \in B.fair PROVE First(bad, 1, s)[t] # 0
  BY <1>1 DEF First, FirstCount, InitValue
<1>3. ASSUME NEW v \in CountersOf(bad, 1), NEW s, NEW t \in B.fair
      PROVE  Counted(bad, 1, v, s)[t] # 0
  <2>. DEFINE a == s \in bad.p
  <2>1. v \in Counters(B, 1) /\ t \in B.states
    BY <1>1 DEF CountersOf
  <2>2. Counted(bad, 1, v, s)[t] = Prolonged(B, 1, a, v, t)
    BY <2>1 DEF Counted, CountOn
  <2>. HIDE DEF a, B
  <2>3. CASE ~Holds(B, a, t) \/ Counts(B, v, t) = {}
    <3>1. Prolonged(B, 1, a, v, t) = -1
      BY <1>1, <2>1, <2>3, ProlongedIs
    <3>. QED  BY <2>2, <3>1
  <2>4. CASE Holds(B, a, t) /\ Counts(B, v, t) # {}
    <3>1. PICK m \in Counts(B, v, t) : IsGreatest(m, Counts(B, v, t))
      BY <1>1, <2>1, <2>4, CountsType, GreatestExists
    <3>2. m \in 0 .. 1
      BY <1>1, <2>1, CountsType
    <3>3. Prolonged(B, 1, a, v, t) = IF t \in B.fair /\ m < 1 THEN m + 1 ELSE m
      BY <1>1, <2>1, <2>4, <3>1, ProlongedIs
    <3>. QED  BY <2>2, <3>2, <3>3, <1>3
  <2>. QED  BY <2>3, <2>4
<1>. QED  BY <1>2, <1>3 DEF FairCounted

LEMMA SafeForZero ==
    ASSUME NEW g \in GameType, NEW bad \in LtlType, 1 \in 0 .. MaxK,
           NEW plr \in Players, NEW A, IsSafe(g, bad, 1, A, plr)
    PROVE  /\ IsSafe(g, bad, 0, Coarser(g, bad, A), plr)
           /\ Beginning(g, bad, 1, A) \subseteq Beginning(g, bad, 0, Coarser(g, bad, A))
<1>. DEFINE B == Automaton[bad.op]
            C == Coarser(g, bad, A)
<1>0. IsAutomaton(B) /\ 0 \in 0 .. MaxK /\ 0 \in Nat /\ 1 \in Nat /\ 0 <= 1
  BY BadParts, BoundsParts
<1>1. \A x \in A : x \in Counting(g, bad, 1) /\ ~Exceeded(B, 1, x[2]) /\ Forces(g, bad, 1, x, A, plr)
  BY DEF IsSafe
<1>2. ASSUME NEW x \in A, FairCounted(B, x[2])
      PROVE  LET y == <<x[1], Cap(B, 0, x[2])>>
             IN  /\ y \in Counting(g, bad, 0) /\ ~Exceeded(B, 0, y[2])
                 /\ Forces(g, bad, 0, y, C, plr)
  <2>. DEFINE y == <<x[1], Cap(B, 0, x[2])>>
  <2>1. x \in Counting(g, bad, 1) /\ x[1] \in Invar(g) /\ x[2] \in Counters(B, 1)
    BY <1>1 DEF Counting, CountersOf
  <2>2. y[1] = x[1] /\ y[2] = Cap(B, 0, x[2])
    OBVIOUS
  <2>3. y \in Counting(g, bad, 0)
    BY <1>0, <2>1, CapType DEF Counting, CountersOf
  <2>4. ~Exceeded(B, 0, y[2])
    <3>1. ASSUME NEW s \in B.fair, y[2][s] = 0 PROVE FALSE
      <4>1. s \in B.states
        BY <1>0 DEF IsAutomaton
      <4>2. x[2][s] \in -1 .. 1 /\ y[2][s] = Capped(x[2][s], 0)
        BY <2>1, <2>2, <4>1 DEF Counters, Cap
      <4>3. x[2][s] # 0 /\ x[2][s] # 1
        BY <1>1, <1>2 DEF FairCounted, Exceeded
      <4>. QED  BY <3>1, <4>2, <4>3 DEF Capped
    <3>. QED  BY <3>1 DEF Exceeded
  <2>. HIDE DEF y
  <2>5. ASSUME NEW q1 \in Moves1(g, x[1]), NEW q2 \in Moves2(g, x[1], q1),
               After(bad, 1, x[2], q1, q2) \in A
        PROVE  After(bad, 0, y[2], q1, q2) \in C
    <3>. DEFINE z == After(bad, 1, x[2], q1, q2)
    <3>1. z[1] = <<q1, q2>> /\ z[2] = Counted(bad, 1, x[2], <<q1, q2>>)
      BY DEF After
    <3>2. x[2] \in CountersOf(bad, 1)
      BY <2>1 DEF CountersOf
    <3>3. After(bad, 0, y[2], q1, q2) = <<z[1], Cap(B, 0, z[2])>>
      <4>1. After(bad, 0, Cap(B, 0, x[2]), q1, q2)
                = <<<<q1, q2>>, Cap(B, 0, Counted(bad, 1, x[2], <<q1, q2>>))>>
        BY <1>0, <3>2, CapAfter
      <4>. HIDE DEF z
      <4>. QED  BY <2>2, <3>1, <4>1
    <3>4. FairCounted(B, z[2])
      BY <3>1, <3>2, FairIsCounted
    <3>5. z \in A
      BY <2>5
    <3>. HIDE DEF z
    <3>. QED  BY <3>3, <3>4, <3>5 DEF Coarser
  <2>6. Forces(g, bad, 0, y, C, plr)
    <3>1. Forces(g, bad, 1, x, A, plr)
      BY <1>1
    <3>. HIDE DEF C
    <3>. QED  BY <2>2, <2>5, <3>1 DEF Forces
  <2>. QED  BY <2>3, <2>4, <2>6 DEF y
<1>3. IsSafe(g, bad, 0, C, plr)
  <2>1. ASSUME NEW c \in C
        PROVE  c \in Counting(g, bad, 0) /\ ~Exceeded(B, 0, c[2]) /\ Forces(g, bad, 0, c, C, plr)
    <3>1. PICK x \in A : FairCounted(B, x[2]) /\ c = <<x[1], Cap(B, 0, x[2])>>
      BY DEF Coarser
    <3>. HIDE DEF C
    <3>. QED  BY <1>2, <3>1
  <2>. QED  BY <2>1 DEF IsSafe
<1>4. ASSUME NEW s \in Beginning(g, bad, 1, A) PROVE s \in Beginning(g, bad, 0, C)
  <2>. DEFINE x == <<s, First(bad, 1, s)>>
  <2>1. s \in Invar(g) /\ x \in A /\ x[1] = s /\ x[2] = First(bad, 1, s)
    BY DEF Beginning
  <2>2. First(bad, 0, s) = Cap(B, 0, First(bad, 1, s))
    BY <1>0, CapAfter
  <2>3. FairCounted(B, First(bad, 1, s))
    BY FairIsCounted
  <2>. HIDE DEF x
  <2>4. <<s, First(bad, 0, s)>> \in C
    BY <2>1, <2>2, <2>3 DEF Coarser
  <2>. QED  BY <2>1, <2>4 DEF Beginning
<1>. QED  BY <1>3, <1>4

(* Variables range over finitely many valuations, automata are finite.     *)
IsFinite ==
    /\ IsFiniteSet(P1) /\ IsFiniteSet(P2)
    /\ \A op \in Ops : IsFiniteSet(Ltl2Gba[op].states)

LEMMA FiniteParts ==
    ASSUME IsFinite
    PROVE  /\ IsFiniteSet(States)
           /\ \A op \in Ops : IsFiniteSet(Automaton[op].states)
<1>1. IsFiniteSet(States)
  BY FS_Product DEF IsFinite, States
<1>2. ASSUME NEW op \in Ops PROVE IsFiniteSet(Automaton[op].states)
  <2>. DEFINE B == Ltl2Gba[op]
  <2>1. IsAutomaton(B) /\ IsFiniteSet(B.states)
    BY SynthesisAssumption DEF IsFinite
  <2>2. B = [states |-> B.states, initial |-> B.initial, trans |-> B.trans,
             fair |-> B.fair, label |-> B.label]
    BY <2>1 DEF IsAutomaton
  <2>. HIDE DEF B
  <2>3. WithFairness(B).states = B.states
    BY <2>2 DEF WithFairness
  <2>. QED  BY <2>1, <2>3 DEF Automaton, B
<1>. QED  BY <1>1, <1>2

(* A greater bound gives away no avoidance game.                           *)
LEMMA MoreAvoids ==
    ASSUME IsFinite, NEW g \in GameType, NEW bad \in LtlType, NEW plr \in Players
    PROVE  /\ \A k, j \in 0 .. MaxK :
                 k <= j /\ AvoidsBound(g, bad, k, plr) => AvoidsBound(g, bad, j, plr)
           /\ 1 \in 0 .. MaxK /\ AvoidsBound(g, bad, 1, plr) => AvoidsBound(g, bad, 0, plr)
<1>0. IsFiniteSet(States) /\ IsFiniteSet(Automaton[bad.op].states) /\ "N" \in Quantifiers
  BY FiniteParts DEF LtlType, Quantifiers
<1>1. ASSUME NEW k \in 0 .. MaxK, NEW j \in 0 .. MaxK, k <= j, AvoidsBound(g, bad, k, plr)
      PROVE  AvoidsBound(g, bad, j, plr)
  <2>1. PICK A : IsSafe(g, bad, k, A, plr) /\ StartsIn(g, Beginning(g, bad, k, A), plr, "N")
    BY <1>0, <1>1, AvoidsIs
  <2>. DEFINE C == Finer(g, bad, j, k, A)
  <2>2. IsSafe(g, bad, j, C, plr) /\ Beginning(g, bad, k, A) \subseteq Beginning(g, bad, j, C)
    BY <1>1, <2>1, SafeForMore
  <2>. HIDE DEF C
  <2>3. StartsIn(g, Beginning(g, bad, j, C), plr, "N")
    BY <1>0, <2>1, <2>2, StartMonotone
  <2>. QED  BY <1>0, <2>2, <2>3, AvoidsIs
<1>2. ASSUME 1 \in 0 .. MaxK, AvoidsBound(g, bad, 1, plr)
      PROVE  AvoidsBound(g, bad, 0, plr)
  <2>0. 0 \in 0 .. MaxK
    BY BoundsParts
  <2>1. PICK A : IsSafe(g, bad, 1, A, plr) /\ StartsIn(g, Beginning(g, bad, 1, A), plr, "N")
    BY <1>0, <1>2, AvoidsIs
  <2>. DEFINE C == Coarser(g, bad, A)
  <2>2. IsSafe(g, bad, 0, C, plr) /\ Beginning(g, bad, 1, A) \subseteq Beginning(g, bad, 0, C)
    BY <1>2, <2>1, SafeForZero
  <2>. HIDE DEF C
  <2>3. StartsIn(g, Beginning(g, bad, 0, C), plr, "N")
    BY <1>0, <2>1, <2>2, StartMonotone
  <2>. QED  BY <1>0, <2>0, <2>2, <2>3, AvoidsIs
<1>. QED  BY <1>1, <1>2

LEMMA CheckIs ==
    ASSUME NEW g \in Games, NEW f \in Formulas, NEW mine \in BOOLEAN, NEW plr \in Players,
           NEW k \in 0 .. MaxK
    PROVE  /\ g \in GameType /\ f \in LtlType /\ Bad(f, mine) \in LtlType
           /\ Check[<<g, Bad(f, mine), plr, k>>] = AvoidsBound(g, Bad(f, mine), k, plr)
<1>1. g \in GameType
  BY GamesAssumption
<1>2. f \in LtlType /\ Bad(f, mine) \in Formulas /\ Bad(f, mine) \in LtlType
  BY SynthesisAssumption DEF Bad
<1>3. Check = [c \in Games \X Formulas \X Players \X (0 .. MaxK) |->
                  AvoidsBound(c[1], c[2], c[4], c[3])]
  BY TabulatedIsSame DEF Check
<1>. DEFINE bad == Bad(f, mine)
            c == <<g, bad, plr, k>>
<1>4. c \in Games \X Formulas \X Players \X (0 .. MaxK)
  BY <1>2
<1>5. c[1] = g /\ c[2] = bad /\ c[3] = plr /\ c[4] = k
  OBVIOUS
<1>. HIDE DEF c
<1>6. Check[c] = AvoidsBound(c[1], c[2], c[4], c[3])
  BY <1>3, <1>4
<1>7. Check[c] = AvoidsBound(g, bad, k, plr)
  BY <1>5, <1>6
<1>. QED  BY <1>1, <1>2, <1>7 DEF c

(* Who plays what.                                                         *)
AskedInv ==
    /\ game \in Games /\ formula \in Formulas
    /\ specPlayer \in Players /\ currPlayer \in Players

LEMMA AskedInvariant == Spec => []AskedInv
<1>1. Init => AskedInv
  BY DEF Init, AskedInv, Players
<1>2. AskedInv /\ [Next]_vars => AskedInv'
  <2>. SUFFICES ASSUME AskedInv, [Next]_vars PROVE AskedInv'
    OBVIOUS
  <2>1. CASE Start
    BY <2>1 DEF Start, AskedInv, prop
  <2>2. CASE CreateIteration
    BY <2>2 DEF CreateIteration, FirstPlayer, Opponent, Players, AskedInv, prop
  <2>3. CASE ConstructBa \/ ConstructMonitor \/ ConstructProduct
    BY <2>3 DEF ConstructBa, ConstructMonitor, ConstructProduct, AskedInv, prop
  <2>4. CASE CheckGoal
    BY <2>4 DEF CheckGoal, AskedInv, prop
  <2>5. CASE NextIteration \/ LeaveLoop \/ Finish
    BY <2>5 DEF NextIteration, LeaveLoop, Finish, AskedInv, prop
  <2>6. CASE UNCHANGED vars
    BY <2>6 DEF vars, AskedInv, prop
  <2>. QED  BY <2>1, <2>2, <2>3, <2>4, <2>5, <2>6 DEF Next, Iteration
<1>. QED  BY <1>1, <1>2, PTL DEF Spec

(* A greater bound gives away no avoidance game, and the first two bounds  *)
(* are the same: the loop over the bounds (Game_CheckLtlGameSpecSF07)      *)
(* loses nothing by starting at kmin, for every game and every automaton   *)
(* that are finite.                                                        *)
THEOREM LoopBounds ==
    ASSUME IsFinite
    PROVE  Spec => []BoundsOnlyHelp
<1>1. ASSUME AskedInv, SynthesisInv PROVE BoundsOnlyHelp
  <2>. SUFFICES ASSUME pc = "check"
       PROVE  LET Wins(b) == Check[<<game, Bad(formula, currPlayer = specPlayer), currPlayer, b>>]
              IN  /\ currK < MaxK => (Wins(currK) => Wins(currK + 1))
                  /\ currK = 0 /\ MaxK > 0 => (Wins(0) <=> Wins(1))
    BY DEF BoundsOnlyHelp
  <2>. DEFINE mine == currPlayer = specPlayer
              bad == Bad(formula, mine)
              W(b) == Check[<<game, bad, currPlayer, b>>]
  <2>0. mine \in BOOLEAN
    OBVIOUS
  <2>1. game \in Games /\ formula \in Formulas /\ currPlayer \in Players
    BY <1>1 DEF AskedInv
  <2>2. MaxK \in Nat /\ currK \in 0 .. MaxK
    BY <1>1, BoundsParts DEF SynthesisInv, BoundInv, InIteration
  <2>. HIDE DEF mine
  <2>3. /\ game \in GameType /\ bad \in LtlType
        /\ \A b \in 0 .. MaxK : W(b) = AvoidsBound(game, bad, b, currPlayer)
    <3>1. 0 \in 0 .. MaxK
      BY BoundsParts
    <3>. QED  BY <2>0, <2>1, <3>1, CheckIs
  <2>. HIDE DEF bad, W
  <2>4. /\ \A k, j \in 0 .. MaxK : k <= j /\ W(k) => W(j)
        /\ 1 \in 0 .. MaxK /\ W(1) => W(0)
    <3>1. 1 \in 0 .. MaxK => 0 \in 0 .. MaxK
      BY BoundsParts
    <3>. QED  BY <2>1, <2>3, <3>1, MoreAvoids
  <2>5. currK < MaxK => currK + 1 \in 0 .. MaxK /\ currK <= currK + 1
    BY <2>2
  <2>6. MaxK > 0 => 0 \in 0 .. MaxK /\ 1 \in 0 .. MaxK
    BY <2>2
  <2>7. /\ currK < MaxK => (W(currK) => W(currK + 1))
        /\ currK = 0 /\ MaxK > 0 => (W(0) <=> W(1))
    <3>1. 0 <= 1 /\ currK <= currK + 1
      BY <2>2
    <3>. QED  BY <2>2, <2>4, <2>5, <2>6, <3>1
  <2>. QED  BY <2>7 DEF W, bad, mine
<1>. QED  BY <1>1, AskedInvariant, SynthesisInvariant, PTL

-----------------------------------------------------------------------------
(* Words, what an automaton accepts, and plays of the product.             *)

Words == [Nat -> BOOLEAN]

(* A word, that tells where p holds, satisfies op(p).                      *)
Satisfies(op, w) ==
    \/ op = "X" /\ w[1]
    \/ op = "G" /\ \A n \in Nat : w[n]
    \/ op = "F" /\ \E n \in Nat : w[n]
    \/ op = "GF" /\ \A n \in Nat : \E m \in Nat : n <= m /\ w[m]
    \/ op = "FG" /\ \E n \in Nat : \A m \in Nat : n <= m => w[m]

IsRun(B, w, r) ==
    /\ r \in [Nat -> B.states]
    /\ r[0] \in B.initial
    /\ \A n \in Nat : Holds(B, w[n], r[n]) /\ <<r[n], r[n + 1]>> \in B.trans
    /\ \A n \in Nat : \E m \in Nat : n <= m /\ r[m] \in B.fair

(* The automaton of an operator misses none of its words.                  *)
Recognizes(op) == \A w \in Words : Satisfies(op, w) => \E r : IsRun(Automaton[op], w, r)

(* A run that is counted stays counted, and is worth one more where it is  *)
(* fair.                                                                   *)
LEMMA RunIsCounted ==
    ASSUME NEW B, IsAutomaton(B), NEW k \in Nat, NEW a, NEW v \in Counters(B, k),
           NEW r, NEW t, <<r, t>> \in B.trans, Holds(B, a, t), v[r] # -1
    PROVE  /\ CountOn(B, k, a, v)[t] \in 0 .. k /\ v[r] \in 0 .. k
           /\ v[r] <= CountOn(B, k, a, v)[t]
           /\ t \in B.fair /\ v[r] < k => v[r] < CountOn(B, k, a, v)[t]
<1>1. r \in B.states /\ t \in B.states /\ r \in Incoming(B, t)
  BY DEF IsAutomaton, Incoming
<1>2. v[r] \in Counts(B, v, t)
  BY <1>1, CountedSource
<1>3. PICK m \in Counts(B, v, t) : IsGreatest(m, Counts(B, v, t))
  BY <1>2, CountsType, GreatestExists
<1>4. m \in 0 .. k /\ v[r] \in 0 .. k /\ v[r] <= m
  BY <1>2, <1>3, CountsType DEF IsGreatest
<1>5. CountOn(B, k, a, v)[t] = IF t \in B.fair /\ m < k THEN m + 1 ELSE m
  BY <1>1, <1>3, ProlongedIs DEF CountOn
<1>. QED  BY <1>4, <1>5

Edges(g, bad, k, A) ==
    {e \in A \X A : \E q1 \in Moves1(g, e[1][1]) : \E q2 \in Moves2(g, e[1][1], q1) :
                        e[2] = After(bad, k, e[1][2], q1, q2)}

IsPath(g, bad, k, A, x, p) ==
    /\ p \in [Nat -> A]
    /\ p[0] = x
    /\ \A n \in Nat : <<p[n], p[n + 1]>> \in Edges(g, bad, k, A)

WordOf(bad, p) == [n \in Nat |-> p[n][1] \in bad.p]

(* No play that stays below the bound satisfies what is to be prevented.   *)
LEMMA SafePlays ==
    ASSUME NEW g \in GameType, NEW bad \in LtlType, NEW k \in 0 .. MaxK, NEW plr \in Players,
           NEW A, IsSafe(g, bad, k, A, plr), Recognizes(bad.op),
           NEW s, NEW p, IsPath(g, bad, k, A, <<s, First(bad, k, s)>>, p)
    PROVE  ~Satisfies(bad.op, WordOf(bad, p))
<1>. DEFINE B == Automaton[bad.op]
            w == WordOf(bad, p)
<1>. SUFFICES ASSUME Satisfies(bad.op, w) PROVE FALSE
  OBVIOUS
<1>0. IsAutomaton(B) /\ k \in Nat /\ bad.op \in Ops
  BY BadParts
<1>1. PICK r : IsRun(B, w, r)
  <2>1. w \in Words
    BY DEF Words, WordOf
  <2>. HIDE DEF w
  <2>. QED  BY <2>1 DEF Recognizes
<1>. DEFINE c(n) == p[n][2][r[n]]
<1>2. ASSUME NEW n \in Nat
      PROVE  /\ p[n] \in A /\ p[n][2] \in Counters(B, k)
             /\ p[n + 1][2] = CountOn(B, k, w[n + 1], p[n][2])
             /\ Holds(B, w[n + 1], r[n + 1]) /\ <<r[n], r[n + 1]>> \in B.trans
  <2>1. p[n] \in A /\ <<p[n], p[n + 1]>> \in Edges(g, bad, k, A)
    BY DEF IsPath
  <2>2. p[n][2] \in Counters(B, k)
    BY <2>1 DEF IsSafe, Counting, CountersOf
  <2>. DEFINE x == p[n]
              y == p[n + 1]
  <2>3. \E q1, q2 : y = After(bad, k, x[2], q1, q2)
    <3>. HIDE DEF x, y
    <3>1. <<x, y>> \in Edges(g, bad, k, A)
      BY <2>1 DEF x, y
    <3>. QED  BY <3>1 DEF Edges
  <2>4. PICK q1, q2 : p[n + 1] = After(bad, k, p[n][2], q1, q2)
    BY <2>3
  <2>5. p[n + 1][1] = <<q1, q2>> /\ p[n + 1][2] = Counted(bad, k, p[n][2], <<q1, q2>>)
    BY <2>4 DEF After
  <2>6. w[n + 1] = (p[n + 1][1] \in bad.p)
    BY DEF WordOf
  <2>7. p[n + 1][2] = CountOn(B, k, w[n + 1], p[n][2])
    <3>. DEFINE a == p[n + 1][1] \in bad.p
    <3>1. Counted(bad, k, p[n][2], p[n + 1][1]) = CountOn(B, k, a, p[n][2])
      BY DEF Counted
    <3>2. p[n + 1][2] = Counted(bad, k, p[n][2], p[n + 1][1])
      BY <2>5
    <3>3. a = w[n + 1]
      BY <2>6
    <3>. HIDE DEF a, w, B
    <3>. QED  BY <3>1, <3>2, <3>3
  <2>. HIDE DEF w, B
  <2>8. Holds(B, w[n + 1], r[n + 1]) /\ <<r[n], r[n + 1]>> \in B.trans
    <3>1. /\ \A m \in Nat : Holds(B, w[m], r[m])
          /\ \A m \in Nat : <<r[m], r[m + 1]>> \in B.trans
      BY <1>1 DEF IsRun
    <3>2. n + 1 \in Nat
      OBVIOUS
    <3>. QED  BY <3>1, <3>2
  <2>. QED  BY <2>1, <2>2, <2>7, <2>8
<1>3. c(0) # -1
  <2>1. r[0] \in B.initial /\ Holds(B, w[0], r[0]) /\ r[0] \in B.states
    <3>. HIDE DEF w, B
    <3>. QED  BY <1>1 DEF IsRun
  <2>2. p[0] = <<s, First(bad, k, s)>> /\ w[0] = (p[0][1] \in bad.p)
    BY DEF IsPath, WordOf
  <2>. DEFINE a == s \in bad.p
  <2>3. w[0] = a
    BY <2>2
  <2>4. p[0][2] = FirstCount(B, k, a)
    BY <2>2 DEF First
  <2>. HIDE DEF a, w, B
  <2>5. c(0) = InitValue(B, k, r[0])
    BY <2>1, <2>3, <2>4 DEF FirstCount
  <2>. QED  BY <2>5 DEF InitValue
<1>. HIDE DEF w, B
<1>4. ASSUME NEW n \in Nat, c(n) # -1
      PROVE  /\ c(n) \in 0 .. k /\ c(n + 1) \in 0 .. k /\ c(n + 1) # -1
             /\ c(n) <= c(n + 1)
             /\ r[n + 1] \in B.fair /\ c(n) < k => c(n) < c(n + 1)
  <2>. DEFINE v == p[n][2]
  <2>1. /\ v \in Counters(B, k) /\ p[n + 1][2] = CountOn(B, k, w[n + 1], v)
        /\ Holds(B, w[n + 1], r[n + 1]) /\ <<r[n], r[n + 1]>> \in B.trans
        /\ v[r[n]] # -1
    BY <1>2, <1>4
  <2>. HIDE DEF v
  <2>2. /\ CountOn(B, k, w[n + 1], v)[r[n + 1]] \in 0 .. k /\ v[r[n]] \in 0 .. k
        /\ v[r[n]] <= CountOn(B, k, w[n + 1], v)[r[n + 1]]
        /\ r[n + 1] \in B.fair /\ v[r[n]] < k => v[r[n]] < CountOn(B, k, w[n + 1], v)[r[n + 1]]
    BY <1>0, <2>1, RunIsCounted
  <2>. QED  BY <2>1, <2>2 DEF v
<1>. HIDE DEF c
<1>5. \A n \in Nat : c(n) # -1
  <2>. DEFINE T == {n \in Nat : c(n) # -1}
  <2>1. 0 \in T /\ \A n \in Nat : n \in T => n + 1 \in T
    BY <1>3, <1>4
  <2>. HIDE DEF T
  <2>2. Nat \subseteq T
    BY <2>1, AllNumbers
  <2>. QED  BY <2>2 DEF T
(* From some time on the count of the run is at least i.                   *)
<1>. DEFINE From(n, i) == \A m \in Nat : n <= m => i <= c(m)
<1>6. ASSUME NEW n \in Nat, NEW i \in Nat, i <= c(n) PROVE From(n, i)
  <2>. DEFINE T == {m \in Nat : n <= m => i <= c(m)}
  <2>1. 0 \in T
    <3>1. n <= 0 => n = 0
      OBVIOUS
    <3>. QED  BY <1>6, <3>1
  <2>2. ASSUME NEW m \in Nat, m \in T PROVE m + 1 \in T
    <3>. SUFFICES ASSUME n <= m + 1 PROVE i <= c(m + 1)
      OBVIOUS
    <3>1. CASE n = m + 1
      BY <1>6, <3>1
    <3>2. CASE n # m + 1
      <4>1. n <= m
        BY <3>2
      <4>2. i <= c(m) /\ c(m) <= c(m + 1) /\ c(m) \in 0 .. k /\ c(m + 1) \in 0 .. k
        BY <1>4, <1>5, <2>2, <4>1
      <4>. QED  BY <4>2
    <3>. QED  BY <3>1, <3>2
  <2>. HIDE DEF T
  <2>3. Nat \subseteq T
    BY <2>1, <2>2, AllNumbers
  <2>. QED  BY <2>3 DEF T
<1>7. \A i \in Nat : i <= k => \E n \in Nat : From(n, i)
  <2>. DEFINE T == {i \in Nat : i <= k => \E n \in Nat : From(n, i)}
  <2>1. 0 \in T
    <3>1. 0 <= c(0)
      BY <1>4, <1>5
    <3>2. From(0, 0)
      BY <1>6, <3>1
    <3>. QED  BY <3>2
  <2>2. ASSUME NEW i \in Nat, i \in T PROVE i + 1 \in T
    <3>. SUFFICES ASSUME i + 1 <= k PROVE \E n \in Nat : From(n, i + 1)
      OBVIOUS
    <3>1. i <= k
      BY <1>0
    <3>2. PICK n \in Nat : From(n, i)
      BY <2>2, <3>1
    <3>3. PICK m \in Nat : n + 1 <= m /\ r[m] \in B.fair
      <4>1. n + 1 \in Nat /\ \A l \in Nat : \E m \in Nat : l <= m /\ r[m] \in B.fair
        BY <1>1 DEF IsRun
      <4>. QED  BY <4>1
    <3>4. m - 1 \in Nat /\ n <= m - 1 /\ (m - 1) + 1 = m
      BY <3>3
    <3>5. i <= c(m - 1)
      BY <3>2, <3>4
    <3>6. /\ c(m - 1) \in 0 .. k /\ c(m) \in 0 .. k /\ c(m - 1) <= c(m)
          /\ r[m] \in B.fair /\ c(m - 1) < k => c(m - 1) < c(m)
      <4>. DEFINE l == m - 1
      <4>1. l \in Nat /\ l + 1 = m
        BY <3>4
      <4>. HIDE DEF l
      <4>2. /\ c(l) \in 0 .. k /\ c(l + 1) \in 0 .. k /\ c(l) <= c(l + 1)
            /\ r[l + 1] \in B.fair /\ c(l) < k => c(l) < c(l + 1)
        BY <1>4, <1>5, <4>1
      <4>3. /\ c(l) \in 0 .. k /\ c(m) \in 0 .. k /\ c(l) <= c(m)
            /\ r[m] \in B.fair /\ c(l) < k => c(l) < c(m)
        BY <4>1, <4>2
      <4>. QED  BY <4>3 DEF l
    <3>7. i + 1 <= c(m)
      BY <1>0, <3>3, <3>5, <3>6
    <3>8. From(m, i + 1)
      <4>. HIDE DEF From
      <4>. QED  BY <1>6, <3>7
    <3>. QED  BY <3>8
  <2>. HIDE DEF T
  <2>3. Nat \subseteq T
    BY <2>1, <2>2, AllNumbers
  <2>. HIDE DEF From
  <2>. QED  BY <2>3 DEF T
<1>8. PICK n \in Nat : From(n, k)
  <2>. HIDE DEF From
  <2>. QED  BY <1>0, <1>7
<1>9. PICK m \in Nat : n <= m /\ r[m] \in B.fair
  BY <1>1 DEF IsRun
<1>10. c(m) = k
  <2>1. k <= c(m) /\ c(m) \in 0 .. k
    BY <1>4, <1>5, <1>8, <1>9
  <2>. QED  BY <1>0, <2>1
<1>11. ~Exceeded(B, k, p[m][2])
  BY <1>2 DEF IsSafe, B
<1>. QED  BY <1>9, <1>10, <1>11 DEF Exceeded, c

-----------------------------------------------------------------------------
(* What is safe is won.                                                    *)

StatesOf(A) == {x[1] : x \in A}

LEMMA SafeParts ==
    ASSUME NEW g \in GameType, NEW bad, NEW k, NEW plr, NEW A, IsSafe(g, bad, k, A, plr)
    PROVE  \A x \in A : x[1] \in Invar(g) /\ x[1] \in States
  BY TypedInvar DEF IsSafe, Counting

(* Where the player cannot force T, a round that stays safe leaves T.      *)
LEMMA SafeRound ==
    ASSUME NEW g \in GameType, NEW bad, NEW k, NEW plr \in Players,
           NEW A, IsSafe(g, bad, k, A, plr), NEW x \in A, NEW T, x[1] \notin CanForce(g, T, plr)
    PROVE  \E y \in A : <<x, y>> \in Edges(g, bad, k, A) /\ y[1] \notin T
<1>1. x[1] \in Invar(g) /\ Forces(g, bad, k, x, A, plr)
  BY SafeParts DEF IsSafe
<1>2. \E q1 \in Moves1(g, x[1]) : \E q2 \in Moves2(g, x[1], q1) :
          After(bad, k, x[2], q1, q2) \in A /\ <<q1, q2>> \notin T
  <2>1. CASE plr = 1
    <3>1. \E q1 \in Moves1(g, x[1]) : \A q2 \in Moves2(g, x[1], q1) :
              After(bad, k, x[2], q1, q2) \in A
      BY <1>1, <2>1 DEF Forces
    <3>2. \A q1 \in Moves1(g, x[1]) : \E q2 \in Moves2(g, x[1], q1) : <<q1, q2>> \notin T
      BY <1>1, <2>1 DEF CanForce
    <3>. QED  BY <3>1, <3>2
  <2>2. CASE plr = 2
    <3>1. \A q1 \in Moves1(g, x[1]) : \E q2 \in Moves2(g, x[1], q1) :
              After(bad, k, x[2], q1, q2) \in A
      BY <1>1, <2>2 DEF Forces
    <3>2. \E q1 \in Moves1(g, x[1]) : \A q2 \in Moves2(g, x[1], q1) : <<q1, q2>> \notin T
      BY <1>1, <2>2 DEF CanForce
    <3>. QED  BY <3>1, <3>2
  <2>. QED  BY <2>1, <2>2 DEF Players
<1>3. PICK q1 \in Moves1(g, x[1]) : \E q2 \in Moves2(g, x[1], q1) :
          After(bad, k, x[2], q1, q2) \in A /\ <<q1, q2>> \notin T
  BY <1>2
<1>4. PICK q2 \in Moves2(g, x[1], q1) : After(bad, k, x[2], q1, q2) \in A /\ <<q1, q2>> \notin T
  BY <1>3
<1>. DEFINE y == After(bad, k, x[2], q1, q2)
<1>5. y[1] = <<q1, q2>>
  BY DEF After
<1>6. <<x, y>> \in Edges(g, bad, k, A)
  BY <1>4 DEF Edges
<1>. QED  BY <1>4, <1>5, <1>6

(* From any state of a set of states with a round to go on there is a play.*)
LEMMA PlaysGoOn ==
    ASSUME NEW g, NEW bad, NEW k, NEW A, NEW E \in SUBSET A,
           \A x \in E : \E y \in E : <<x, y>> \in Edges(g, bad, k, A), NEW x \in E
    PROVE  \E p \in [Nat -> E] : IsPath(g, bad, k, A, x, p)
<1>1. PICK p \in [Nat -> E] : p[0] = x /\ \A n \in Nat : <<p[n], p[n + 1]>> \in Edges(g, bad, k, A)
  BY StepsForever
<1>2. p \in [Nat -> A]
  BY <1>1
<1>. QED  BY <1>1, <1>2 DEF IsPath

(* A round before a play is a play.                                        *)
LEMMA PlaysBegin ==
    ASSUME NEW g, NEW bad, NEW k, NEW A, NEW x, NEW y, <<x, y>> \in Edges(g, bad, k, A),
           NEW p, IsPath(g, bad, k, A, y, p)
    PROVE  \E r : /\ IsPath(g, bad, k, A, x, r)
                  /\ \A n \in Nat : WordOf(bad, r)[n + 1] = WordOf(bad, p)[n]
<1>. DEFINE r == [n \in Nat |-> IF n = 0 THEN x ELSE p[n - 1]]
<1>1. x \in A /\ p \in [Nat -> A] /\ p[0] = y
  BY DEF IsPath, Edges
<1>2. r[0] = x /\ \A n \in Nat : r[n + 1] = p[n]
  <2>1. \A n \in Nat : n + 1 \in Nat /\ n + 1 # 0 /\ (n + 1) - 1 = n
    OBVIOUS
  <2>. QED  BY <2>1
<1>3. r \in [Nat -> A]
  BY <1>1
<1>. HIDE DEF r
<1>4. ASSUME NEW n \in Nat PROVE <<r[n], r[n + 1]>> \in Edges(g, bad, k, A)
  <2>1. CASE n = 0
    BY <1>1, <1>2, <2>1
  <2>2. CASE n # 0
    <3>1. PICK m \in Nat : n = m + 1
      <4>1. n - 1 \in Nat /\ n = (n - 1) + 1
        BY <2>2
      <4>. QED  BY <4>1
    <3>2. r[n] = p[m] /\ r[n + 1] = p[m + 1]
      BY <1>2, <3>1
    <3>. QED  BY <3>2 DEF IsPath
  <2>. QED  BY <2>1, <2>2
<1>5. IsPath(g, bad, k, A, x, r)
  BY <1>2, <1>3, <1>4 DEF IsPath
<1>6. \A n \in Nat : WordOf(bad, r)[n + 1] = WordOf(bad, p)[n]
  <2>1. \A n \in Nat : n + 1 \in Nat
    OBVIOUS
  <2>. QED  BY <1>2, <2>1 DEF WordOf
<1>. QED  BY <1>5, <1>6

LEMMA SafeNeverStuck ==
    ASSUME NEW g \in GameType, IsFiniteSet(States), NEW bad, NEW k, NEW plr \in Players,
           NEW A, IsSafe(g, bad, k, A, plr)
    PROVE  \A x \in A : x[1] \in NeverStuck(g, plr)
<1>. DEFINE U == StatesOf(A)
<1>1. U \subseteq Invar(g)
  BY SafeParts DEF StatesOf
<1>2. ASSUME NEW x \in A, x[1] \notin CanForce(g, U, plr) PROVE FALSE
  <2>. HIDE DEF U
  <2>1. PICK y \in A : y[1] \notin U
    BY <1>2, SafeRound
  <2>. QED  BY <2>1 DEF StatesOf, U
<1>3. U \subseteq CanForce(g, U, plr)
  <2>1. \A x \in A : x[1] \in CanForce(g, U, plr)
    BY <1>2
  <2>. QED  BY <2>1 DEF StatesOf
<1>4. U \subseteq NeverStuck(g, plr)
  <2>. HIDE DEF U
  <2>. QED  BY <1>1, <1>3, NeverStuckIs
<1>. QED  BY <1>4 DEF StatesOf

(* Unless the opponent can be made stuck there is a play that stays safe.  *)
LEMMA SafePlayExists ==
    ASSUME NEW g \in GameType, IsFiniteSet(States), NEW bad, NEW k, NEW plr \in Players,
           NEW A, IsSafe(g, bad, k, A, plr), NEW x \in A, x[1] \notin StucksOther(g, plr)
    PROVE  \E p : IsPath(g, bad, k, A, x, p)
<1>. DEFINE E == {y \in A : y[1] \notin StucksOther(g, plr)}
<1>1. ASSUME NEW y \in E PROVE \E z \in E : <<y, z>> \in Edges(g, bad, k, A)
  <2>1. y[1] \notin CanForce(g, StucksOther(g, plr), plr)
    BY StucksOtherIs
  <2>. QED  BY <2>1, SafeRound
<1>2. x \in E /\ E \in SUBSET A
  OBVIOUS
<1>. HIDE DEF E
<1>. QED  BY <1>1, <1>2, PlaysGoOn

(* The play does not satisfy what was to be prevented.                     *)
Prevented(g, bad, k, A, x) ==
    \A p : IsPath(g, bad, k, A, x, p) => ~Satisfies(bad.op, WordOf(bad, p))

LEMMA WordIs ==
    ASSUME NEW g, NEW bad, NEW k, NEW A, NEW x, NEW p, IsPath(g, bad, k, A, x, p)
    PROVE  /\ \A n \in Nat : p[n] \in A /\ (WordOf(bad, p)[n] <=> p[n][1] \in bad.p)
           /\ p[0] = x /\ p \in [Nat -> A]
  BY DEF IsPath, WordOf

LEMMA WinsFinally ==
    ASSUME NEW g \in GameType, IsFiniteSet(States), NEW bad \in LtlType, bad.op = "G",
           NEW k, NEW plr \in Players, NEW A, IsSafe(g, bad, k, A, plr),
           NEW x \in A, Prevented(g, bad, k, A, x)
    PROVE  x[1] \in WinningStates(g, Negation(bad), plr)
<1>. DEFINE W == WinningStates(g, Negation(bad), plr)
            E == {y \in A : y[1] \notin W}
<1>1. Negation(bad).op = "F" /\ Negation(bad).p = States \ bad.p
  BY DEF Negation, DualOp
<1>2. W = ((States \ bad.p) \cap NeverStuck(g, plr)) \cup CanForce(g, W, plr)
  <2>. DEFINE f == Negation(bad)
  <2>. HIDE DEF f
  <2>1. f.op = "F" /\ f.p = States \ bad.p
    BY <1>1 DEF f
  <2>2. WinningStates(g, f, plr)
            = (f.p \cap NeverStuck(g, plr)) \cup CanForce(g, WinningStates(g, f, plr), plr)
    BY <2>1, WonFinally
  <2>. QED  BY <2>1, <2>2 DEF f
<1>. HIDE DEF W
<1>3. ASSUME NEW y \in E PROVE y[1] \in bad.p /\ \E z \in E : <<y, z>> \in Edges(g, bad, k, A)
  <2>1. y \in A /\ y[1] \notin CanForce(g, W, plr) /\ y[1] \in NeverStuck(g, plr) /\ y[1] \in States
    BY <1>2, SafeNeverStuck, SafeParts
  <2>. QED  BY <1>2, <2>1, SafeRound
<1>4. ASSUME x[1] \notin W PROVE FALSE
  <2>1. x \in E /\ E \in SUBSET A
    BY <1>4
  <2>. HIDE DEF E
  <2>2. PICK p \in [Nat -> E] : IsPath(g, bad, k, A, x, p)
    BY <1>3, <2>1, PlaysGoOn
  <2>3. \A n \in Nat : WordOf(bad, p)[n]
    BY <1>3, <2>2, WordIs
  <2>. QED  BY <2>2, <2>3 DEF Prevented, Satisfies
<1>. QED  BY <1>4 DEF W

LEMMA WinsGlobally ==
    ASSUME NEW g \in GameType, IsFiniteSet(States), NEW bad \in LtlType, bad.op = "F",
           NEW k, NEW plr \in Players, NEW A, IsSafe(g, bad, k, A, plr),
           NEW x \in A, Prevented(g, bad, k, A, x)
    PROVE  x[1] \in WinningStates(g, Negation(bad), plr)
<1>. DEFINE W == WinningStates(g, Negation(bad), plr)
            D == {y \in A : Prevented(g, bad, k, A, y)}
            U == StatesOf(D)
            stucks == StucksOther(g, plr)
<1>1. Negation(bad).op = "G" /\ Negation(bad).p = States \ bad.p
  BY DEF Negation, DualOp
<1>2. U \subseteq Invar(g) /\ U \subseteq stucks \cup ((States \ bad.p) \cap CanForce(g, U, plr))
         => U \subseteq W
  <2>. DEFINE f == Negation(bad)
  <2>. HIDE DEF f, U
  <2>1. f.op = "G" /\ f.p = States \ bad.p
    BY <1>1 DEF f
  <2>2. U \subseteq Invar(g) /\ U \subseteq StucksOther(g, plr) \cup (f.p \cap CanForce(g, U, plr))
            => U \subseteq WinningStates(g, f, plr)
    BY <2>1, WonGlobally
  <2>. QED  BY <2>1, <2>2 DEF f
<1>3. ASSUME NEW y \in D
      PROVE  y[1] \in Invar(g)
             /\ y[1] \in stucks \cup ((States \ bad.p) \cap CanForce(g, U, plr))
  <2>1. y \in A /\ Prevented(g, bad, k, A, y) /\ y[1] \in Invar(g) /\ y[1] \in States
    BY SafeParts
  <2>. SUFFICES ASSUME y[1] \notin stucks
       PROVE  y[1] \notin bad.p /\ y[1] \in CanForce(g, U, plr)
    BY <2>1
  <2>2. y[1] \notin bad.p
    <3>. SUFFICES ASSUME y[1] \in bad.p PROVE FALSE
      OBVIOUS
    <3>1. PICK p : IsPath(g, bad, k, A, y, p)
      BY <2>1, SafePlayExists
    <3>2. WordOf(bad, p)[0]
      BY <3>1, WordIs
    <3>. QED  BY <2>1, <3>1, <3>2 DEF Prevented, Satisfies
  <2>3. y[1] \in CanForce(g, U, plr)
    <3>. SUFFICES ASSUME y[1] \notin CanForce(g, U, plr) PROVE FALSE
      OBVIOUS
    <3>1. PICK z \in A : <<y, z>> \in Edges(g, bad, k, A) /\ z[1] \notin U
      <4>. HIDE DEF U
      <4>. QED  BY <2>1, SafeRound
    <3>2. z \notin D
      BY <3>1 DEF StatesOf
    <3>3. PICK p : IsPath(g, bad, k, A, z, p) /\ Satisfies(bad.op, WordOf(bad, p))
      BY <3>2 DEF Prevented
    <3>4. PICK n \in Nat : WordOf(bad, p)[n]
      BY <3>3 DEF Satisfies
    <3>5. PICK r : /\ IsPath(g, bad, k, A, y, r)
                   /\ \A m \in Nat : WordOf(bad, r)[m + 1] = WordOf(bad, p)[m]
      BY <3>1, <3>3, PlaysBegin
    <3>6. n + 1 \in Nat /\ WordOf(bad, r)[n + 1]
      BY <3>4, <3>5
    <3>. QED  BY <2>1, <3>5, <3>6 DEF Prevented, Satisfies
  <2>. QED  BY <2>2, <2>3
<1>4. U \subseteq W
  <2>1. U \subseteq Invar(g) /\ U \subseteq stucks \cup ((States \ bad.p) \cap CanForce(g, U, plr))
    <3>. DEFINE Z == stucks \cup ((States \ bad.p) \cap CanForce(g, U, plr))
    <3>1. \A y \in D : y[1] \in Invar(g) /\ y[1] \in Z
      BY <1>3
    <3>. HIDE DEF Z, D
    <3>2. U \subseteq Invar(g) /\ U \subseteq Z
      BY <3>1 DEF StatesOf
    <3>. QED  BY <3>2 DEF Z
  <2>. HIDE DEF U, W
  <2>. QED  BY <1>2, <2>1
<1>. QED  BY <1>4 DEF StatesOf

LEMMA WinsAgainAndAgain ==
    ASSUME NEW g \in GameType, IsFiniteSet(States), NEW bad \in LtlType, bad.op = "FG",
           NEW k, NEW plr \in Players, NEW A, IsSafe(g, bad, k, A, plr),
           NEW x \in A, Prevented(g, bad, k, A, x)
    PROVE  x[1] \in WinningStates(g, Negation(bad), plr)
<1>. DEFINE W == WinningStates(g, Negation(bad), plr)
            q == States \ bad.p
            D == {y \in A : Prevented(g, bad, k, A, y)}
            U == StatesOf(D)
            M == ReachedOnceMore(g, q, plr, U)
            E == {y \in D : y[1] \notin M}
<1>1. Negation(bad).op = "GF" /\ Negation(bad).p = q
  BY DEF Negation, DualOp
<1>2. U \subseteq Invar(g) /\ U \subseteq M => U \subseteq W
  <2>. DEFINE f == Negation(bad)
  <2>. HIDE DEF f, U, q
  <2>1. f.op = "GF" /\ f.p = q
    BY <1>1 DEF f
  <2>2. U \subseteq Invar(g) /\ U \subseteq ReachedOnceMore(g, f.p, plr, U)
            => U \subseteq WinningStates(g, f, plr)
    BY <2>1, WonAgainAndAgain
  <2>. QED  BY <2>1, <2>2 DEF f
<1>3. M = (q \cap CanForce(g, U, plr)) \cup CanForce(g, M, plr)
  <2>. HIDE DEF U, q
  <2>. QED  BY ReachedOnceMoreIs
<1>4. ASSUME NEW y \in D, NEW z \in A, <<y, z>> \in Edges(g, bad, k, A) PROVE z \in D
  <2>. SUFFICES ASSUME NEW p, IsPath(g, bad, k, A, z, p), Satisfies(bad.op, WordOf(bad, p))
       PROVE  FALSE
    BY DEF Prevented
  <2>1. PICK n \in Nat : \A m \in Nat : n <= m => WordOf(bad, p)[m]
    BY DEF Satisfies
  <2>2. PICK r : /\ IsPath(g, bad, k, A, y, r)
                 /\ \A m \in Nat : WordOf(bad, r)[m + 1] = WordOf(bad, p)[m]
    BY <1>4, PlaysBegin
  <2>3. ASSUME NEW m \in Nat, n + 1 <= m PROVE WordOf(bad, r)[m]
    <3>1. m - 1 \in Nat /\ n <= m - 1 /\ (m - 1) + 1 = m
      BY <2>3
    <3>. QED  BY <2>1, <2>2, <3>1
  <2>4. n + 1 \in Nat
    OBVIOUS
  <2>. QED  BY <2>2, <2>3, <2>4 DEF Prevented, Satisfies
<1>. HIDE DEF M
<1>5. ASSUME NEW y \in E
      PROVE  y[1] \in bad.p /\ \E z \in E : <<y, z>> \in Edges(g, bad, k, A)
  <2>1. y \in A /\ y \in D /\ y[1] \notin M /\ y[1] \in States
    BY SafeParts
  <2>2. y[1] \in CanForce(g, U, plr)
    <3>. SUFFICES ASSUME y[1] \notin CanForce(g, U, plr) PROVE FALSE
      OBVIOUS
    <3>1. PICK z \in A : <<y, z>> \in Edges(g, bad, k, A) /\ z[1] \notin U
      <4>. HIDE DEF U, E
      <4>. QED  BY <2>1, SafeRound
    <3>2. z \in D
      BY <1>4, <2>1, <3>1
    <3>. QED  BY <3>1, <3>2 DEF StatesOf
  <2>3. y[1] \in bad.p
    <3>. HIDE DEF U, E
    <3>. QED  BY <1>3, <2>1, <2>2
  <2>4. y[1] \notin CanForce(g, M, plr)
    <3>. HIDE DEF U, E
    <3>. QED  BY <1>3, <2>1
  <2>5. PICK z \in A : <<y, z>> \in Edges(g, bad, k, A) /\ z[1] \notin M
    <3>. HIDE DEF U, E
    <3>. QED  BY <2>1, <2>4, SafeRound
  <2>6. z \in E
    BY <1>4, <2>1, <2>5
  <2>. QED  BY <2>3, <2>5, <2>6
<1>6. E = {}
  <2>. SUFFICES ASSUME NEW y \in E PROVE FALSE
    OBVIOUS
  <2>1. E \in SUBSET A /\ Prevented(g, bad, k, A, y)
    OBVIOUS
  <2>. HIDE DEF E
  <2>2. PICK p \in [Nat -> E] : IsPath(g, bad, k, A, y, p)
    BY <1>5, <2>1, PlaysGoOn
  <2>3. \A n \in Nat : WordOf(bad, p)[n]
    BY <1>5, <2>2, WordIs
  <2>. QED  BY <2>1, <2>2, <2>3 DEF Prevented, Satisfies
<1>7. U \subseteq Invar(g) /\ U \subseteq M
  <2>1. \A y \in D : y[1] \in Invar(g) /\ y[1] \in M
    BY <1>6, SafeParts
  <2>. HIDE DEF D
  <2>. QED  BY <2>1 DEF StatesOf
<1>8. x[1] \in U
  BY DEF StatesOf
<1>. HIDE DEF U
<1>. QED  BY <1>2, <1>7, <1>8

LEMMA WinsNext ==
    ASSUME NEW g \in GameType, IsFiniteSet(States), NEW bad \in LtlType, bad.op = "X",
           NEW k, NEW plr \in Players, NEW A, IsSafe(g, bad, k, A, plr),
           NEW x \in A, Prevented(g, bad, k, A, x)
    PROVE  x[1] \in WinningStates(g, Negation(bad), plr)
<1>. DEFINE stucks == StucksOther(g, plr)
            T == ((States \ bad.p) \cap NeverStuck(g, plr)) \cup stucks
<1>1. WinningStates(g, Negation(bad), plr) = CanForce(g, T, plr)
  <2>. DEFINE f == Negation(bad)
  <2>1. f.op = "X" /\ f.p = States \ bad.p
    BY DEF Negation, DualOp
  <2>. HIDE DEF f
  <2>2. WinningStates(g, f, plr)
            = CanForce(g, (f.p \cap NeverStuck(g, plr)) \cup StucksOther(g, plr), plr)
    BY <2>1, WonNext
  <2>. QED  BY <2>1, <2>2 DEF f
<1>2. ASSUME x[1] \notin CanForce(g, T, plr) PROVE FALSE
  <2>1. PICK y \in A : <<x, y>> \in Edges(g, bad, k, A) /\ y[1] \notin T
    <3>. HIDE DEF T
    <3>. QED  BY <1>2, SafeRound
  <2>2. y[1] \in bad.p /\ y[1] \notin stucks
    BY <2>1, SafeNeverStuck, SafeParts
  <2>3. PICK p : IsPath(g, bad, k, A, y, p)
    BY <2>2, SafePlayExists
  <2>4. PICK r : /\ IsPath(g, bad, k, A, x, r)
                 /\ \A m \in Nat : WordOf(bad, r)[m + 1] = WordOf(bad, p)[m]
    BY <2>1, <2>3, PlaysBegin
  <2>5. WordOf(bad, r)[0 + 1] = WordOf(bad, p)[0] /\ WordOf(bad, p)[0] /\ 0 + 1 = 1
    BY <2>2, <2>3, <2>4, WordIs
  <2>. QED  BY <2>4, <2>5 DEF Prevented, Satisfies
<1>. QED  BY <1>1, <1>2

(* From x there is a walk of n steps in E to Q.                            *)
Walks(E, R, Q, x, n) ==
    \E p \in [0 .. n -> E] : /\ p[0] = x
                             /\ \A i \in 0 .. n - 1 : <<p[i], p[i + 1]>> \in R
                             /\ p[n] \in Q

LEMMA WalksNow ==
    ASSUME NEW E, NEW R, NEW Q, NEW x \in E
    PROVE  Walks(E, R, Q, x, 0) <=> x \in Q
<1>1. ASSUME x \in Q PROVE Walks(E, R, Q, x, 0)
  <2>. DEFINE p == [i \in 0 .. 0 |-> x]
  <2>1. p \in [0 .. 0 -> E] /\ p[0] = x /\ \A i \in 0 .. 0 - 1 : FALSE
    OBVIOUS
  <2>. HIDE DEF p
  <2>. QED  BY <1>1, <2>1 DEF Walks
<1>. QED  BY <1>1 DEF Walks

LEMMA WalksLater ==
    ASSUME NEW E, NEW R, NEW Q, NEW n \in Nat, NEW x \in E
    PROVE  Walks(E, R, Q, x, n + 1)
               <=> \E y \in E : <<x, y>> \in R /\ Walks(E, R, Q, y, n)
<1>1. ASSUME NEW y \in E, <<x, y>> \in R, Walks(E, R, Q, y, n)
      PROVE  Walks(E, R, Q, x, n + 1)
  <2>1. PICK p \in [0 .. n -> E] : /\ p[0] = y
                                   /\ \A i \in 0 .. n - 1 : <<p[i], p[i + 1]>> \in R
                                   /\ p[n] \in Q
    BY <1>1 DEF Walks
  <2>. DEFINE r == [i \in 0 .. n + 1 |-> IF i = 0 THEN x ELSE p[i - 1]]
  <2>2. r \in [0 .. n + 1 -> E] /\ r[0] = x
    <3>1. \A i \in 0 .. n + 1 : i # 0 => i - 1 \in 0 .. n
      OBVIOUS
    <3>. QED  BY <3>1
  <2>3. \A i \in 0 .. n : r[i + 1] = p[i]
    <3>1. \A i \in 0 .. n : i + 1 \in 0 .. n + 1 /\ i + 1 # 0 /\ (i + 1) - 1 = i
      OBVIOUS
    <3>. QED  BY <3>1
  <2>. HIDE DEF r
  <2>4. ASSUME NEW i \in 0 .. (n + 1) - 1 PROVE <<r[i], r[i + 1]>> \in R
    <3>1. CASE i = 0
      <4>1. 0 \in 0 .. n /\ i + 1 = 0 + 1
        BY <3>1
      <4>2. r[i + 1] = y
        BY <2>1, <2>3, <4>1
      <4>. QED  BY <1>1, <2>2, <3>1, <4>2
    <3>2. CASE i # 0
      <4>. DEFINE l == i - 1
      <4>1. l \in 0 .. n /\ l \in 0 .. n - 1 /\ i = l + 1 /\ i \in 0 .. n
        BY <3>2
      <4>. HIDE DEF l
      <4>2. r[i] = p[l] /\ r[i + 1] = p[l + 1]
        BY <2>3, <4>1
      <4>. QED  BY <2>1, <4>1, <4>2
    <3>. QED  BY <3>1, <3>2
  <2>5. r[n + 1] \in Q
    <3>1. n \in 0 .. n
      OBVIOUS
    <3>. QED  BY <2>1, <2>3, <3>1
  <2>. QED  BY <2>2, <2>4, <2>5 DEF Walks
<1>2. ASSUME Walks(E, R, Q, x, n + 1)
      PROVE  \E y \in E : <<x, y>> \in R /\ Walks(E, R, Q, y, n)
  <2>1. PICK r \in [0 .. n + 1 -> E] : /\ r[0] = x
                                       /\ \A i \in 0 .. (n + 1) - 1 : <<r[i], r[i + 1]>> \in R
                                       /\ r[n + 1] \in Q
    BY <1>2 DEF Walks
  <2>. DEFINE p == [i \in 0 .. n |-> r[i + 1]]
  <2>2. p \in [0 .. n -> E]
    <3>1. \A i \in 0 .. n : i + 1 \in 0 .. n + 1
      OBVIOUS
    <3>. QED  BY <3>1
  <2>3. \A i \in 0 .. n : p[i] = r[i + 1]
    OBVIOUS
  <2>. HIDE DEF p
  <2>4. ASSUME NEW i \in 0 .. n - 1 PROVE <<p[i], p[i + 1]>> \in R
    <3>1. i \in 0 .. n /\ i + 1 \in 0 .. n /\ i + 1 \in 0 .. (n + 1) - 1
      OBVIOUS
    <3>2. p[i] = r[i + 1] /\ p[i + 1] = r[(i + 1) + 1]
      BY <2>3, <3>1
    <3>. QED  BY <2>1, <3>1, <3>2
  <2>5. p[n] = r[n + 1] /\ p[0] = r[0 + 1] /\ 0 + 1 = 1
    <3>1. n \in 0 .. n /\ 0 \in 0 .. n
      OBVIOUS
    <3>. QED  BY <2>3, <3>1
  <2>6. <<x, r[1]>> \in R /\ r[1] \in E
    <3>1. 0 \in 0 .. (n + 1) - 1 /\ 1 \in 0 .. n + 1 /\ 0 + 1 = 1
      OBVIOUS
    <3>. QED  BY <2>1, <3>1
  <2>7. Walks(E, R, Q, r[1], n)
    BY <2>1, <2>2, <2>4, <2>5 DEF Walks
  <2>. QED  BY <2>6, <2>7
<1>. QED  BY <1>1, <1>2

(* Walks in E go on, and Q is reached from everywhere.                     *)
NeverEnds(E, R) == \A x \in E : \E y \in E : <<x, y>> \in R

ReachesAlways(E, R, Q) == \A x \in E : \E n \in Nat : Walks(E, R, Q, x, n)

IsVisiting(E, R, Q, x, p) ==
    /\ p \in [Nat -> E] /\ p[0] = x
    /\ \A n \in Nat : <<p[n], p[n + 1]>> \in R
    /\ \A n \in Nat : \E m \in Nat : n <= m /\ p[m] \in Q

(* Where Q is reached from everywhere there is an infinite walk that is in *)
(* Q infinitely often.                                                     *)
LEMMA VisitedForever ==
    ASSUME NEW E, NEW R, NEW Q, NeverEnds(E, R), ReachesAlways(E, R, Q), NEW x \in E
    PROVE  \E p : IsVisiting(E, R, Q, x, p)
<1>. DEFINE Far(y) == {n \in Nat : Walks(E, R, Q, y, n)}
            IsRank(y, n) == n \in Far(y) /\ \A m \in Far(y) : n <= m
            Rank(y) == CHOOSE n : IsRank(y, n)
            Closer == {e \in E \X E : e \in R /\ (e[1] \notin Q => Rank(e[2]) < Rank(e[1]))}
<1>1. ASSUME NEW y \in E PROVE IsRank(y, Rank(y)) /\ Rank(y) \in Nat
  <2>1. Far(y) \in SUBSET Nat /\ Far(y) # {}
    BY DEF ReachesAlways
  <2>2. \E n : IsRank(y, n)
    <3>. DEFINE T == Far(y)
    <3>. HIDE DEF T
    <3>1. \E n \in T : \A m \in T : n <= m
      BY <2>1, LeastNumber DEF T
    <3>. QED  BY <3>1 DEF T
  <2>3. IsRank(y, Rank(y))
    <3>. HIDE DEF IsRank
    <3>. QED  BY <2>2
  <2>. HIDE DEF Rank
  <2>. QED  BY <2>3
<1>. HIDE DEF Rank
<1>2. ASSUME NEW y \in E PROVE \E z \in E : <<y, z>> \in Closer
  <2>1. CASE y \in Q
    <3>1. PICK z \in E : <<y, z>> \in R
      BY DEF NeverEnds
    <3>. QED  BY <2>1, <3>1
  <2>2. CASE y \notin Q
    <3>. DEFINE n == Rank(y)
    <3>1. n \in Nat /\ Walks(E, R, Q, y, n)
      BY <1>1
    <3>. HIDE DEF n
    <3>2. n # 0
      BY <2>2, <3>1, WalksNow
    <3>. DEFINE l == n - 1
    <3>3. l \in Nat /\ n = l + 1 /\ l < n
      BY <3>1, <3>2
    <3>. HIDE DEF l
    <3>4. PICK z \in E : <<y, z>> \in R /\ Walks(E, R, Q, z, l)
      BY <3>1, <3>3, WalksLater
    <3>5. Rank(z) <= l /\ Rank(z) \in Nat
      BY <1>1, <3>3, <3>4
    <3>6. Rank(z) < Rank(y)
      BY <3>1, <3>3, <3>5 DEF n
    <3>. QED  BY <3>4, <3>6
  <2>. QED  BY <2>1, <2>2
<1>3. PICK p \in [Nat -> E] : p[0] = x /\ \A n \in Nat : <<p[n], p[n + 1]>> \in Closer
  <2>. HIDE DEF Closer
  <2>. QED  BY <1>2, StepsForever
<1>4. ASSUME NEW n \in Nat
      PROVE  /\ p[n] \in E /\ <<p[n], p[n + 1]>> \in R
             /\ p[n] \notin Q => Rank(p[n + 1]) < Rank(p[n])
  <2>1. <<p[n], p[n + 1]>> \in Closer /\ p[n] \in E
    BY <1>3
  <2>. QED  BY <2>1
<1>5. ASSUME NEW n \in Nat, \A m \in Nat : n <= m => p[m] \notin Q PROVE FALSE
  <2>. DEFINE T == {Rank(p[m]) : m \in {l \in Nat : n <= l}}
  <2>1. T \in SUBSET Nat /\ T # {}
    <3>1. \A m \in Nat : Rank(p[m]) \in Nat
      BY <1>1, <1>4
    <3>2. n \in {l \in Nat : n <= l}
      OBVIOUS
    <3>. QED  BY <3>1, <3>2
  <2>2. PICK i \in T : \A j \in T : i <= j
    <3>. HIDE DEF T
    <3>. QED  BY <2>1, LeastNumber
  <2>3. PICK m \in Nat : n <= m /\ i = Rank(p[m])
    OBVIOUS
  <2>4. m + 1 \in Nat /\ n <= m + 1
    BY <2>3
  <2>5. Rank(p[m + 1]) \in T
    BY <2>4
  <2>6. Rank(p[m + 1]) < Rank(p[m]) /\ Rank(p[m + 1]) \in Nat /\ Rank(p[m]) \in Nat
    BY <1>1, <1>4, <1>5, <2>3, <2>4
  <2>7. i <= Rank(p[m + 1])
    BY <2>2, <2>5
  <2>. QED  BY <2>3, <2>6, <2>7
<1>6. IsVisiting(E, R, Q, x, p)
  BY <1>3, <1>4, <1>5 DEF IsVisiting
<1>. QED  BY <1>6

LEMMA WinsFromSomeTime ==
    ASSUME NEW g \in GameType, IsFiniteSet(States), NEW bad \in LtlType, bad.op = "GF",
           NEW k, NEW plr \in Players, NEW A, IsSafe(g, bad, k, A, plr),
           NEW x \in A, Prevented(g, bad, k, A, x)
    PROVE  x[1] \in WinningStates(g, Negation(bad), plr)
<1>. DEFINE W == WinningStates(g, Negation(bad), plr)
            q == States \ bad.p
            E == {y \in A : y[1] \notin W}
            R == Edges(g, bad, k, A)
            Q == {y \in A : y[1] \in bad.p}
            Never == {y \in E : \A n \in Nat : ~Walks(E, R, Q, y, n)}
            U == W \cup StatesOf(Never)
<1>1. /\ W \subseteq Invar(g)
      /\ W = CanForce(g, W, plr) \cup (q \cap CanForce(g, W, plr))
      /\ \A T : T \subseteq Invar(g) /\ T \subseteq CanForce(g, W, plr) \cup (q \cap CanForce(g, T, plr))
            => T \subseteq W
  <2>. DEFINE f == Negation(bad)
  <2>1. f.op = "FG" /\ f.p = q
    BY DEF Negation, DualOp
  <2>. HIDE DEF f, q
  <2>2. LET V == WinningStates(g, f, plr) IN V = KeptUntil(g, f.p, plr, V)
    BY <2>1, WonFromSomeTime
  <2>3. W = KeptUntil(g, q, plr, W)
    BY <2>1, <2>2 DEF f
  <2>. HIDE DEF W
  <2>4. LET N == KeptUntil(g, q, plr, W)
        IN  /\ N \subseteq Invar(g)
            /\ N = CanForce(g, W, plr) \cup (q \cap CanForce(g, N, plr))
            /\ \A T : T \subseteq Invar(g)
                      /\ T \subseteq CanForce(g, W, plr) \cup (q \cap CanForce(g, T, plr)) => T \subseteq N
    BY KeptUntilIs
  <2>. QED  BY <2>3, <2>4
<1>. HIDE DEF W
<1>2. ASSUME NEW y \in E PROVE \E z \in E : <<y, z>> \in R
  <2>1. y \in A /\ y[1] \notin CanForce(g, W, plr)
    BY <1>1
  <2>. QED  BY <2>1, SafeRound
<1>3. ASSUME NEW y \in Never
      PROVE  y[1] \in Invar(g) /\ y[1] \in q \cap CanForce(g, U, plr)
  <2>1. y \in A /\ y \in E /\ y[1] \in Invar(g) /\ y[1] \in States
    BY SafeParts
  <2>2. y[1] \notin bad.p
    <3>1. ~Walks(E, R, Q, y, 0)
      OBVIOUS
    <3>. HIDE DEF E
    <3>. QED  BY <2>1, <3>1, WalksNow
  <2>3. y[1] \in CanForce(g, U, plr)
    <3>. SUFFICES ASSUME y[1] \notin CanForce(g, U, plr) PROVE FALSE
      OBVIOUS
    <3>1. PICK z \in A : <<y, z>> \in R /\ z[1] \notin U
      <4>. HIDE DEF U
      <4>. QED  BY <2>1, SafeRound
    <3>2. z \in E /\ z \notin Never
      BY <3>1 DEF StatesOf
    <3>3. PICK n \in Nat : Walks(E, R, Q, z, n)
      BY <3>2
    <3>4. E \in SUBSET A
      OBVIOUS
    <3>5. Walks(E, R, Q, y, n + 1)
      <4>. HIDE DEF E
      <4>. QED  BY <2>1, <3>1, <3>2, <3>3, <3>4, WalksLater
    <3>6. n + 1 \in Nat
      OBVIOUS
    <3>. QED  BY <3>5, <3>6
  <2>. QED  BY <2>1, <2>2, <2>3
<1>4. U \subseteq W
  <2>1. W \subseteq CanForce(g, W, plr) \cup (q \cap CanForce(g, U, plr)) /\ W \subseteq Invar(g)
    BY <1>1
  <2>2. StatesOf(Never) \subseteq q \cap CanForce(g, U, plr) /\ StatesOf(Never) \subseteq Invar(g)
    <3>. DEFINE Z == q \cap CanForce(g, U, plr)
    <3>1. \A y \in Never : y[1] \in Z /\ y[1] \in Invar(g)
      BY <1>3
    <3>. HIDE DEF Z, Never
    <3>2. StatesOf(Never) \subseteq Z /\ StatesOf(Never) \subseteq Invar(g)
      BY <3>1 DEF StatesOf
    <3>. QED  BY <3>2 DEF Z
  <2>3. U \subseteq Invar(g) /\ U \subseteq CanForce(g, W, plr) \cup (q \cap CanForce(g, U, plr))
    <3>. DEFINE Z == q \cap CanForce(g, U, plr)
                S == StatesOf(Never)
    <3>1. W \subseteq CanForce(g, W, plr) \cup Z /\ W \subseteq Invar(g) /\ S \subseteq Z /\ S \subseteq Invar(g)
      BY <2>1, <2>2
    <3>2. U = W \cup S
      OBVIOUS
    <3>. HIDE DEF Z, S, U
    <3>3. U \subseteq Invar(g) /\ U \subseteq CanForce(g, W, plr) \cup Z
      BY <3>1, <3>2
    <3>. QED  BY <3>3 DEF Z
  <2>. HIDE DEF U
  <2>. QED  BY <1>1, <2>3
<1>5. Never = {}
  <2>1. \A y \in Never : y[1] \in W
    BY <1>4 DEF StatesOf
  <2>. QED  BY <2>1
<1>6. ASSUME x[1] \notin W PROVE FALSE
  <2>1. E \in SUBSET A /\ x \in E
    BY <1>6
  <2>2. \A y \in E : \E n \in Nat : Walks(E, R, Q, y, n)
    BY <1>5
  <2>3. PICK p : IsVisiting(E, R, Q, x, p)
    <3>1. NeverEnds(E, R) /\ ReachesAlways(E, R, Q)
      BY <1>2, <2>2 DEF NeverEnds, ReachesAlways
    <3>2. x \in E
      BY <2>1
    <3>. HIDE DEF E, R, Q
    <3>. QED  BY <3>1, <3>2, VisitedForever
  <2>. HIDE DEF E
  <2>4. IsPath(g, bad, k, A, x, p)
    <3>1. p \in [Nat -> A]
      BY <2>1, <2>3 DEF IsVisiting
    <3>. QED  BY <2>3, <3>1 DEF IsPath, IsVisiting
  <2>5. \A n \in Nat : \E m \in Nat : n <= m /\ WordOf(bad, p)[m]
    BY <2>3 DEF WordOf, Q, IsVisiting
  <2>. QED  BY <2>4, <2>5 DEF Prevented, Satisfies
<1>. QED  BY <1>6 DEF W

(* Avoiding the bound wins the game itself, for the complementary formula. *)
LEMMA AvoidsWins ==
    ASSUME IsFinite, NEW g \in GameType, NEW bad \in LtlType, Recognizes(bad.op),
           NEW plr \in Players, NEW k \in 0 .. MaxK, AvoidsBound(g, bad, k, plr)
    PROVE  HasStrategy(g, Negation(bad), plr)
<1>0. IsFiniteSet(States) /\ IsFiniteSet(Automaton[bad.op].states) /\ "N" \in Quantifiers
  BY FiniteParts DEF LtlType, Quantifiers
<1>1. PICK A : IsSafe(g, bad, k, A, plr) /\ StartsIn(g, Beginning(g, bad, k, A), plr, "N")
  BY <1>0, AvoidsIs
<1>. DEFINE W == WinningStates(g, Negation(bad), plr)
<1>2. ASSUME NEW s \in Beginning(g, bad, k, A) PROVE s \in W
  <2>. DEFINE x == <<s, First(bad, k, s)>>
  <2>1. x \in A /\ x[1] = s
    BY DEF Beginning
  <2>2. Prevented(g, bad, k, A, x)
    BY <1>1, SafePlays DEF Prevented
  <2>. HIDE DEF x
  <2>3. bad.op \in {"X", "G", "F", "GF", "FG"}
    BY DEF LtlType, Ops
  <2>4. CASE bad.op = "X"
    BY <1>0, <1>1, <2>1, <2>2, <2>4, WinsNext
  <2>5. CASE bad.op = "G"
    BY <1>0, <1>1, <2>1, <2>2, <2>5, WinsFinally
  <2>6. CASE bad.op = "F"
    BY <1>0, <1>1, <2>1, <2>2, <2>6, WinsGlobally
  <2>7. CASE bad.op = "GF"
    BY <1>0, <1>1, <2>1, <2>2, <2>7, WinsFromSomeTime
  <2>8. CASE bad.op = "FG"
    BY <1>0, <1>1, <2>1, <2>2, <2>8, WinsAgainAndAgain
  <2>. QED  BY <2>3, <2>4, <2>5, <2>6, <2>7, <2>8
<1>. HIDE DEF W
<1>3. StartsIn(g, W, plr, "N")
  BY <1>0, <1>1, <1>2, StartMonotone
<1>. QED  BY <1>3 DEF HasStrategy, W

LEMMA NegationTwice ==
    ASSUME NEW f \in LtlType
    PROVE  Negation(f) \in LtlType /\ Negation(Negation(f)) = f
<1>1. f = [op |-> f.op, p |-> f.p] /\ f.op \in Ops /\ f.p \subseteq States
  BY DEF LtlType
<1>. DEFINE o == f.op
            p == f.p
<1>2. DualOp[o] \in Ops /\ DualOp[DualOp[o]] = o
  <2>1. o \in {"X", "G", "F", "GF", "FG"}
    BY <1>1 DEF Ops
  <2>. HIDE DEF o
  <2>. QED  BY <2>1 DEF DualOp, Ops
<1>3. States \ (States \ p) = p
  BY <1>1
<1>. HIDE DEF o, p
<1>4. Negation(f) = [op |-> DualOp[o], p |-> States \ p]
  BY DEF Negation, o, p
<1>5. Negation(f) \in LtlType
  BY <1>2, <1>4 DEF LtlType
<1>6. Negation(Negation(f)) = [op |-> DualOp[DualOp[o]], p |-> States \ (States \ p)]
  BY <1>4 DEF Negation
<1>. QED  BY <1>1, <1>2, <1>3, <1>5, <1>6 DEF o, p

(* What is reported is right: the player said to have a strategy has one   *)
(* in the game itself, whatever the bounds and whoever was played for,     *)
(* provided that the automata Wring gives miss no word of their formula.   *)
THEOREM LoopVerdicts ==
    ASSUME IsFinite, \A op \in Ops : Recognizes(op)
    PROVE  Spec => []VerdictIsRight
<1>1. Init => VerdictIsRight
  BY DEF Init, VerdictIsRight
<1>2. ASSUME VerdictIsRight, AskedInv, SynthesisInv, [Next]_vars PROVE VerdictIsRight'
  <2>1. CASE UNCHANGED <<prop, status>>
    BY <1>2, <2>1 DEF VerdictIsRight, prop
  <2>2. CASE CheckGoal
    <3>. DEFINE mine == currPlayer = specPlayer
                bad == Bad(formula, mine)
                won == Check[<<game, bad, currPlayer, currK>>]
    <3>1. /\ game \in Games /\ formula \in Formulas
          /\ currPlayer \in Players /\ specPlayer \in Players
      BY <1>2 DEF AskedInv
    <3>2. currK \in 0 .. MaxK
      BY <1>2, <2>2, BoundsParts DEF CheckGoal, SynthesisInv, BoundInv, InIteration
    <3>3. /\ game' = game /\ formula' = formula /\ specPlayer' = specPlayer
          /\ status' = IF ~won THEN status ELSE IF mine THEN "True" ELSE "False"
      BY <2>2 DEF CheckGoal, prop
    <3>4. mine \in BOOLEAN
      OBVIOUS
    <3>5. /\ game \in GameType /\ formula \in LtlType /\ bad \in LtlType
          /\ won = AvoidsBound(game, bad, currK, currPlayer)
      <4>. HIDE DEF mine
      <4>. QED  BY <3>1, <3>2, <3>4, CheckIs
    <3>6. CASE ~won
      <4>1. status' = status
        BY <3>3, <3>6
      <4>. QED  BY <1>2, <3>3, <4>1 DEF VerdictIsRight
    <3>7. CASE won
      <4>1. HasStrategy(game, Negation(bad), currPlayer)
        <5>1. bad.op \in Ops
          BY <3>5 DEF LtlType
        <5>. HIDE DEF bad, won
        <5>. QED  BY <3>1, <3>2, <3>5, <3>7, <5>1, AvoidsWins
      <4>2. CASE mine
        <5>1. Negation(bad) = formula /\ currPlayer = specPlayer
          BY <3>5, <4>2, NegationTwice DEF Bad
        <5>2. status' = "True"
          BY <3>3, <3>7, <4>2
        <5>3. HasStrategy(game, formula, specPlayer)
          <6>. HIDE DEF bad
          <6>. QED  BY <4>1, <5>1
        <5>. QED  BY <3>3, <5>2, <5>3 DEF VerdictIsRight
      <4>3. CASE ~mine
        <5>1. bad = formula /\ currPlayer = Opponent(specPlayer)
          BY <3>1, <4>3 DEF Bad, Players, Opponent
        <5>2. status' = "False"
          BY <3>3, <3>7, <4>3
        <5>3. HasStrategy(game, Negation(formula), Opponent(specPlayer))
          <6>. HIDE DEF bad
          <6>. QED  BY <4>1, <5>1
        <5>. QED  BY <3>3, <5>2, <5>3 DEF VerdictIsRight
      <4>. QED  BY <4>2, <4>3
    <3>. QED  BY <3>6, <3>7
  <2>3. Next => CheckGoal \/ UNCHANGED <<prop, status>>
    BY DEF Next, Iteration, Start, CreateIteration, ConstructBa, ConstructMonitor,
           ConstructProduct, NextIteration, LeaveLoop, Finish
  <2>4. UNCHANGED vars => UNCHANGED <<prop, status>>
    BY DEF vars
  <2>. QED  BY <1>2, <2>1, <2>2, <2>3, <2>4
<1>. QED  BY <1>1, <1>2, AskedInvariant, SynthesisInvariant, PTL DEF Spec

-----------------------------------------------------------------------------
(* A least fixed point, in ranks.                                          *)

(* A set is reached in the layers of its ranks, one after the other.       *)
IsRanking(f, T, rank) ==
    /\ rank \in [T -> Nat]
    /\ \A s \in T : f[{u \in T : rank[u] < rank[s]}] = {u \in T : rank[u] <= rank[s]}

IsRanked(f, T) ==
    \E n \in Nat : \E rank : IsRanking(f, T, rank) /\ \A s \in T : rank[s] < n

LEMMA RankMore ==
    ASSUME NEW S, NEW f \in [SUBSET S -> SUBSET S], Monotone(f, SUBSET S),
           NEW T \in SUBSET S, IsRanked(f, T)
    PROVE  T \subseteq f[T] /\ IsRanked(f, f[T])
<1>0. PICK n \in Nat : \E rank : IsRanking(f, T, rank) /\ \A s \in T : rank[s] < n
  BY DEF IsRanked
<1>1. PICK rank : IsRanking(f, T, rank) /\ \A s \in T : rank[s] < n
  BY <1>0
<1>. DEFINE Below(s) == {u \in T : rank[u] < rank[s]}
<1>2. rank \in [T -> Nat] /\ \A s \in T : f[Below(s)] = {u \in T : rank[u] <= rank[s]}
  BY <1>1 DEF IsRanking
<1>3. T \subseteq f[T]
  <2>. SUFFICES ASSUME NEW s \in T PROVE s \in f[T]
    OBVIOUS
  <2>1. Below(s) \in SUBSET S /\ Below(s) \subseteq T
    OBVIOUS
  <2>2. s \in f[Below(s)]
    <3>1. rank[s] \in Nat
      BY <1>2
    <3>. QED  BY <1>2, <3>1
  <2>. HIDE DEF Below
  <2>. QED  BY <2>1, <2>2 DEF Monotone
<1>. DEFINE U == f[T]
            more == [u \in U |-> IF u \in T THEN rank[u] ELSE n]
<1>4. U \in SUBSET S /\ T \subseteq U
  BY <1>3
<1>. HIDE DEF U
<1>5. more \in [U -> Nat] /\ \A u \in U : more[u] < n + 1
  BY <1>1, <1>2
<1>6. ASSUME NEW s \in U
      PROVE  f[{u \in U : more[u] < more[s]}] = {u \in U : more[u] <= more[s]}
  <2>1. CASE s \in T
    <3>1. {u \in U : more[u] < more[s]} = Below(s)
      BY <1>1, <1>2, <1>4, <2>1
    <3>2. {u \in U : more[u] <= more[s]} = {u \in T : rank[u] <= rank[s]}
      BY <1>1, <1>2, <1>4, <2>1
    <3>. QED  BY <1>2, <2>1, <3>1, <3>2
  <2>2. CASE s \notin T
    <3>1. {u \in U : more[u] < more[s]} = T
      BY <1>1, <1>2, <1>4, <2>2
    <3>2. {u \in U : more[u] <= more[s]} = U
      BY <1>1, <1>2, <1>4, <2>2
    <3>. QED  BY <3>1, <3>2 DEF U
  <2>. QED  BY <2>1, <2>2
<1>7. IsRanked(f, U)
  <2>1. IsRanking(f, U, more)
    BY <1>5, <1>6 DEF IsRanking
  <2>. HIDE DEF more
  <2>2. n + 1 \in Nat
    OBVIOUS
  <2>. QED  BY <1>5, <2>1, <2>2 DEF IsRanked
<1>. QED  BY <1>3, <1>7 DEF U

LEMMA RankExists ==
    ASSUME NEW S, IsFiniteSet(S), NEW f \in [SUBSET S -> SUBSET S], Monotone(f, SUBSET S)
    PROVE  \E rank : IsRanking(f, Least(f), rank)
<1>. DEFINE C == {T \in SUBSET S : IsRanked(f, T)}
<1>1. IsRanked(f, {})
  <2>. DEFINE rank == [s \in {} |-> 0]
  <2>1. IsRanking(f, {}, rank)
    BY DEF IsRanking
  <2>. QED  BY <2>1 DEF IsRanked
<1>2. C \in SUBSET SUBSET S /\ C # {}
  BY <1>1
<1>3. PICK T \in C : \A U \in C : T \subseteq U => U = T
  <2>. HIDE DEF C
  <2>. QED  BY <1>2, MaximalExists
<1>4. f[T] = T
  <2>1. T \subseteq f[T] /\ IsRanked(f, f[T]) /\ f[T] \in SUBSET S
    BY RankMore
  <2>. QED  BY <1>3, <2>1
<1>. DEFINE R == {}
<1>5. /\ Least(f) \in SUBSET S /\ f[Least(f)] = Least(f)
      /\ \A U \in SUBSET S : f[U] \subseteq U => Least(f) \subseteq U
  <2>1. R \in SUBSET S /\ R \subseteq f[R] /\ \A U : R \subseteq U
    OBVIOUS
  <2>. HIDE DEF R
  <2>2. /\ FixedPoint(f, R) \in SUBSET S
        /\ f[FixedPoint(f, R)] = FixedPoint(f, R)
        /\ \A U \in SUBSET S : R \subseteq U /\ f[U] \subseteq U => FixedPoint(f, R) \subseteq U
    BY <2>1, LeastAbove
  <2>. QED  BY <2>1, <2>2 DEF Least, R
<1>6. Least(f) \subseteq T
  BY <1>4, <1>5
<1>7. PICK rank : IsRanking(f, T, rank)
  BY DEF IsRanked
<1>8. T \subseteq Least(f)
  <2>. DEFINE L == Least(f)
              Out == {rank[s] : s \in T \ L}
  <2>. HIDE DEF L
  <2>1. rank \in [T -> Nat]
        /\ \A s \in T : f[{u \in T : rank[u] < rank[s]}] = {u \in T : rank[u] <= rank[s]}
    BY <1>7 DEF IsRanking
  <2>2. Out \in SUBSET Nat
    BY <2>1
  <2>3. ASSUME T \ L # {} PROVE FALSE
    <3>1. PICK n \in Out : \A m \in Out : n <= m
      <4>1. Out # {}
        BY <2>3
      <4>. HIDE DEF Out
      <4>. QED  BY <2>2, <4>1, LeastNumber
    <3>2. PICK s \in T \ L : n = rank[s]
      OBVIOUS
    <3>. DEFINE D == {u \in T : rank[u] < rank[s]}
    <3>3. D \subseteq L /\ D \in SUBSET S
      <4>. SUFFICES ASSUME NEW u \in T, rank[u] < rank[s], u \notin L PROVE FALSE
        OBVIOUS
      <4>1. rank[u] \in Out /\ rank[u] \in Nat /\ rank[s] \in Nat
        BY <2>1
      <4>. QED  BY <3>1, <3>2, <4>1
    <3>4. s \in f[D]
      <4>1. rank[s] \in Nat
        BY <2>1
      <4>. QED  BY <2>1, <4>1
    <3>. HIDE DEF D
    <3>5. L \in SUBSET S /\ f[L] = L
      BY <1>5 DEF L
    <3>6. f[D] \subseteq f[L]
      BY <3>3, <3>5 DEF Monotone
    <3>. QED  BY <3>4, <3>5, <3>6
  <2>. QED  BY <2>3 DEF L
<1>9. T = Least(f)
  BY <1>6, <1>8
<1>. QED  BY <1>7, <1>9

(* What is in a least fixed point is in the image of what is below it.     *)
IsDescent(f, T, rank) ==
    rank \in [T -> Nat] /\ \A s \in T : s \in f[{u \in T : rank[u] < rank[s]}]

LEMMA RanksDown ==
    ASSUME NEW S, IsFiniteSet(S), NEW f \in [SUBSET S -> SUBSET S], Monotone(f, SUBSET S)
    PROVE  \E rank : IsDescent(f, Least(f), rank)
<1>1. PICK rank : IsRanking(f, Least(f), rank)
  BY RankExists
<1>2. rank \in [Least(f) -> Nat]
  BY <1>1 DEF IsRanking
<1>3. ASSUME NEW s \in Least(f) PROVE s \in f[{u \in Least(f) : rank[u] < rank[s]}]
  <2>1. rank[s] <= rank[s]
    BY <1>2
  <2>. QED  BY <1>1, <2>1 DEF IsRanking
<1>. QED  BY <1>2, <1>3 DEF IsDescent

LEMMA StucksRanked ==
    ASSUME NEW g \in GameType, IsFiniteSet(States), NEW plr
    PROVE  LET L == StucksOther(g, plr)
           IN  \E rank \in [L -> Nat] :
                   \A s \in L : s \in CanForce(g, {u \in L : rank[u] < rank[s]}, plr)
<1>. DEFINE f == [Y \in StateSets |-> CanForce(g, Y, plr)]
            L == StucksOther(g, plr)
<1>1. f \in [SUBSET States -> SUBSET States] /\ Monotone(f, SUBSET States)
  BY ForceTypes DEF Monotone, StateSets
<1>2. L = Least(f)
  BY DEF StucksOther
<1>3. L \in StateSets
  BY StucksOtherIs
<1>. HIDE DEF L
<1>4. PICK rank : IsDescent(f, L, rank)
  <2>. HIDE DEF f
  <2>. QED  BY <1>1, <1>2, RanksDown
<1>5. \A s \in L : s \in CanForce(g, {u \in L : rank[u] < rank[s]}, plr)
  BY <1>3, <1>4 DEF StateSets, IsDescent
<1>. QED  BY <1>4, <1>5 DEF L, IsDescent

LEMMA FinallyRanked ==
    ASSUME NEW g \in GameType, IsFiniteSet(States), NEW phi, phi.op = "F", NEW plr
    PROVE  LET W == WinningStates(g, phi, plr)
           IN  \E rank \in [W -> Nat] :
                   \A s \in W : \/ s \in phi.p \cap NeverStuck(g, plr)
                                \/ s \in CanForce(g, {u \in W : rank[u] < rank[s]}, plr)
<1>. DEFINE first == phi.p \cap NeverStuck(g, plr)
            f == [Y \in StateSets |-> first \cup CanForce(g, Y, plr)]
            W == WinningStates(g, phi, plr)
<1>0. first \in StateSets
  BY NeverStuckIs DEF StateSets
<1>2. W = Least(f)
  BY DEF WinningStates
<1>. HIDE DEF first, W
<1>1. f \in [SUBSET States -> SUBSET States] /\ Monotone(f, SUBSET States)
  BY <1>0, ForceTypes DEF Monotone, StateSets
<1>3. W = first \cup CanForce(g, W, plr)
  BY WonFinally DEF W, first
<1>4. W \in StateSets
  BY <1>0, <1>3, ForceTypes DEF StateSets
<1>5. PICK rank : IsDescent(f, W, rank)
  <2>. HIDE DEF f
  <2>. QED  BY <1>1, <1>2, RanksDown
<1>6. \A s \in W : s \in first \/ s \in CanForce(g, {u \in W : rank[u] < rank[s]}, plr)
  BY <1>4, <1>5 DEF StateSets, IsDescent
<1>. QED  BY <1>5, <1>6 DEF W, first, IsDescent

LEMMA OnceMoreRanked ==
    ASSUME NEW g \in GameType, IsFiniteSet(States), NEW p, NEW plr, NEW Z
    PROVE  LET M == ReachedOnceMore(g, p, plr, Z)
           IN  \E rank \in [M -> Nat] :
                   \A s \in M : \/ s \in p \cap CanForce(g, Z, plr)
                                \/ s \in CanForce(g, {u \in M : rank[u] < rank[s]}, plr)
<1>. DEFINE first == p \cap CanForce(g, Z, plr)
            f == [Y \in StateSets |-> first \cup CanForce(g, Y, plr)]
            M == ReachedOnceMore(g, p, plr, Z)
<1>0. first \in StateSets
  BY ForceTypes DEF StateSets
<1>2. M = Least(f)
  BY DEF ReachedOnceMore
<1>3. M \in StateSets
  BY ReachedOnceMoreIs
<1>. HIDE DEF first, M
<1>1. f \in [SUBSET States -> SUBSET States] /\ Monotone(f, SUBSET States)
  BY <1>0, ForceTypes DEF Monotone, StateSets
<1>5. PICK rank : IsDescent(f, M, rank)
  <2>. HIDE DEF f
  <2>. QED  BY <1>1, <1>2, RanksDown
<1>6. \A s \in M : s \in first \/ s \in CanForce(g, {u \in M : rank[u] < rank[s]}, plr)
  BY <1>3, <1>5 DEF StateSets, IsDescent
<1>. QED  BY <1>5, <1>6 DEF M, first, IsDescent

(* Of FG the states of a rank are those where p is kept to until a lower   *)
(* rank is reached.                                                        *)
LEMMA FromSomeTimeRanked ==
    ASSUME NEW g \in GameType, IsFiniteSet(States), NEW phi, phi.op = "FG", NEW plr
    PROVE  LET W == WinningStates(g, phi, plr)
           IN  /\ W \in StateSets
               /\ \E rank \in [W -> Nat] : \A s \in W :
                     \/ s \in CanForce(g, {u \in W : rank[u] < rank[s]}, plr)
                     \/ s \in phi.p \cap CanForce(g, {u \in W : rank[u] <= rank[s]}, plr)
<1>. DEFINE N(Y) == KeptUntil(g, phi.p, plr, Y)
            f == [Y \in StateSets |-> N(Y)]
            W == WinningStates(g, phi, plr)
<1>1. W = Least(f)
  BY DEF WinningStates, KeptUntil
<1>0. \A Y : N(Y) \in StateSets /\ N(Y) = CanForce(g, Y, plr) \cup (phi.p \cap CanForce(g, N(Y), plr))
  BY KeptUntilIs
<1>2. ASSUME NEW Y, NEW U, Y \subseteq U PROVE N(Y) \subseteq N(U)
  <2>1. CanForce(g, Y, plr) \subseteq CanForce(g, U, plr)
    BY <1>2, ForceTypes
  <2>2. /\ N(Y) \subseteq Invar(g)
        /\ N(Y) \subseteq CanForce(g, U, plr) \cup (phi.p \cap CanForce(g, N(Y), plr))
    BY <2>1, KeptUntilIs
  <2>. QED  BY <2>2, KeptUntilIs
<1>6. W = N(W)
  BY WonFromSomeTime
<1>. HIDE DEF N, W
<1>3. f \in [SUBSET States -> SUBSET States] /\ Monotone(f, SUBSET States)
  BY <1>0, <1>2 DEF Monotone, StateSets
<1>4. W \in StateSets
  BY <1>0, <1>6
<1>5. PICK rank : IsRanking(f, W, rank)
  <2>. HIDE DEF f
  <2>. QED  BY <1>1, <1>3, RankExists
<1>7. rank \in [W -> Nat]
  BY <1>5 DEF IsRanking
<1>8. ASSUME NEW s \in W
      PROVE  \/ s \in CanForce(g, {u \in W : rank[u] < rank[s]}, plr)
             \/ s \in phi.p \cap CanForce(g, {u \in W : rank[u] <= rank[s]}, plr)
  <2>. DEFINE Y == {u \in W : rank[u] < rank[s]}
              U == {u \in W : rank[u] <= rank[s]}
  <2>1. f[Y] = U
    BY <1>5 DEF IsRanking
  <2>2. Y \in StateSets
    BY <1>4 DEF StateSets
  <2>3. s \in U
    BY <1>7
  <2>. HIDE DEF Y, U
  <2>4. N(Y) = U
    BY <2>1, <2>2
  <2>5. U = CanForce(g, Y, plr) \cup (phi.p \cap CanForce(g, U, plr))
    BY <1>0, <2>4
  <2>6. s \in CanForce(g, Y, plr) \/ s \in phi.p \cap CanForce(g, U, plr)
    BY <2>3, <2>5
  <2>. QED  BY <2>6 DEF Y, U
<1>. QED  BY <1>4, <1>7, <1>8 DEF W

-----------------------------------------------------------------------------
(* What one player does not win the other wins, for the negation.          *)

(* The rest of the legal states.                                           *)
Rest(g, S) == Invar(g) \ S

LEMMA OpponentIs ==
    ASSUME NEW plr \in Players
    PROVE  Opponent(plr) \in Players /\ Opponent(Opponent(plr)) = plr
  BY DEF Players, Opponent

LEMMA RestForced ==
    ASSUME NEW g, NEW plr \in Players, NEW S
    PROVE  Rest(g, CanForce(g, S, plr)) = CanForce(g, Rest(g, S), Opponent(plr))
<1>1. CanForce(g, S, plr) = Invar(g) \ CanForce(g, Invar(g) \ S, Opponent(plr))
  BY ForceDuality
<1>2. CanForce(g, Invar(g) \ S, Opponent(plr)) \subseteq Invar(g)
  BY ForceInvar
<1>. QED  BY <1>1, <1>2 DEF Rest

LEMMA StucksRest ==
    ASSUME NEW g \in GameType, IsFiniteSet(States), NEW plr \in Players
    PROVE  /\ Rest(g, StucksOther(g, plr)) \subseteq NeverStuck(g, Opponent(plr))
           /\ Rest(g, NeverStuck(g, plr)) \subseteq StucksOther(g, Opponent(plr))
<1>. DEFINE opp == Opponent(plr)
<1>0. opp \in Players /\ Opponent(opp) = plr
  BY OpponentIs
<1>1. Rest(g, StucksOther(g, plr)) \subseteq NeverStuck(g, opp)
  <2>. DEFINE U == Rest(g, StucksOther(g, plr))
  <2>1. CanForce(g, U, opp) = U
    BY StucksOtherIs, RestForced
  <2>2. U \subseteq Invar(g)
    BY DEF Rest
  <2>. HIDE DEF U, opp
  <2>3. U \subseteq CanForce(g, U, opp)
    BY <2>1
  <2>4. U \subseteq NeverStuck(g, opp)
    BY <2>2, <2>3, NeverStuckIs
  <2>. QED  BY <2>4 DEF U
<1>2. Rest(g, NeverStuck(g, plr)) \subseteq StucksOther(g, opp)
  <2>. DEFINE L == StucksOther(g, opp)
              U == Rest(g, L)
  <2>1. CanForce(g, U, plr) = U
    BY <1>0, StucksOtherIs, RestForced
  <2>2. U \subseteq Invar(g)
    BY DEF Rest
  <2>3. U \subseteq NeverStuck(g, plr)
    <3>. HIDE DEF U
    <3>1. U \subseteq CanForce(g, U, plr)
      BY <2>1
    <3>. QED  BY <2>2, <3>1, NeverStuckIs
  <2>4. Rest(g, L) \subseteq NeverStuck(g, plr)
    BY <2>3
  <2>. HIDE DEF L
  <2>5. Rest(g, NeverStuck(g, plr)) \subseteq L
    BY <2>4 DEF Rest
  <2>. QED  BY <2>5 DEF L
<1>. QED  BY <1>1, <1>2

LEMMA NextRest ==
    ASSUME NEW g \in GameType, IsFiniteSet(States), NEW plr \in Players,
           NEW f, f.op = "X", NEW h, h.op = "X", h.p = States \ f.p
    PROVE  Rest(g, WinningStates(g, f, plr)) \subseteq WinningStates(g, h, Opponent(plr))
<1>. DEFINE opp == Opponent(plr)
            S == (f.p \cap NeverStuck(g, plr)) \cup StucksOther(g, plr)
            T == (h.p \cap NeverStuck(g, opp)) \cup StucksOther(g, opp)
<1>1. Rest(g, S) \subseteq T
  <2>1. Invar(g) \subseteq States
    BY TypedInvar
  <2>2. /\ Rest(g, StucksOther(g, plr)) \subseteq NeverStuck(g, opp)
        /\ Rest(g, NeverStuck(g, plr)) \subseteq StucksOther(g, opp)
    BY StucksRest
  <2>. HIDE DEF opp
  <2>. QED  BY <2>1, <2>2 DEF Rest
<1>2. opp \in Players
  BY OpponentIs
<1>. HIDE DEF S, T, opp
<1>3. WinningStates(g, f, plr) = CanForce(g, S, plr) /\ WinningStates(g, h, opp) = CanForce(g, T, opp)
  BY WonNext DEF S, T
<1>4. Rest(g, CanForce(g, S, plr)) = CanForce(g, Rest(g, S), opp)
  BY RestForced DEF opp
<1>5. CanForce(g, Rest(g, S), opp) \subseteq CanForce(g, T, opp)
  BY <1>1, ForceMonotone
<1>. QED  BY <1>3, <1>4, <1>5 DEF opp

LEMMA FinallyRest ==
    ASSUME NEW g \in GameType, IsFiniteSet(States), NEW plr \in Players,
           NEW f, f.op = "F", NEW h, h.op = "G", h.p = States \ f.p
    PROVE  Rest(g, WinningStates(g, f, plr)) \subseteq WinningStates(g, h, Opponent(plr))
<1>. DEFINE opp == Opponent(plr)
            V == WinningStates(g, f, plr)
            U == Rest(g, V)
<1>1. V = (f.p \cap NeverStuck(g, plr)) \cup CanForce(g, V, plr)
  BY WonFinally
<1>2. CanForce(g, U, opp) = Rest(g, CanForce(g, V, plr))
  BY RestForced
<1>3. Rest(g, NeverStuck(g, plr)) \subseteq StucksOther(g, opp)
  BY StucksRest
<1>4. Invar(g) \subseteq States
  BY TypedInvar
<1>. HIDE DEF V, opp
<1>5. U \subseteq Invar(g) /\ U \subseteq StucksOther(g, opp) \cup (h.p \cap CanForce(g, U, opp))
  BY <1>1, <1>2, <1>3, <1>4 DEF Rest
<1>. HIDE DEF U
<1>6. U \subseteq WinningStates(g, h, opp)
  BY <1>5, WonGlobally
<1>. QED  BY <1>6 DEF U, V, opp

LEMMA RepeatedRest ==
    ASSUME NEW g \in GameType, IsFiniteSet(States), NEW plr \in Players,
           NEW f, f.op = "FG", NEW h, h.op = "GF", h.p = States \ f.p
    PROVE  Rest(g, WinningStates(g, f, plr)) \subseteq WinningStates(g, h, Opponent(plr))
<1>. DEFINE opp == Opponent(plr)
            V == WinningStates(g, f, plr)
            U == Rest(g, V)
            M == ReachedOnceMore(g, h.p, opp, U)
            T == Rest(g, M)
<1>0. opp \in Players /\ Opponent(opp) = plr
  BY OpponentIs
<1>1. V = KeptUntil(g, f.p, plr, V)
  BY WonFromSomeTime
<1>2. LET N == KeptUntil(g, f.p, plr, V)
      IN  /\ N \subseteq Invar(g)
          /\ \A S : S \subseteq Invar(g)
                    /\ S \subseteq CanForce(g, V, plr) \cup (f.p \cap CanForce(g, S, plr)) => S \subseteq N
  BY KeptUntilIs
<1>3. M = (h.p \cap CanForce(g, U, opp)) \cup CanForce(g, M, opp)
  BY ReachedOnceMoreIs
<1>4. CanForce(g, U, opp) = Rest(g, CanForce(g, V, plr))
  BY RestForced
<1>5. CanForce(g, M, opp) = Rest(g, CanForce(g, T, plr))
  <2>1. Rest(g, CanForce(g, M, opp)) = CanForce(g, T, plr) /\ CanForce(g, M, opp) \subseteq Invar(g)
    <3>. HIDE DEF M, opp
    <3>. QED  BY <1>0, RestForced, ForceInvar
  <2>. HIDE DEF M, opp, T
  <2>. QED  BY <2>1 DEF Rest
<1>6. Invar(g) \subseteq States
  BY TypedInvar
<1>. HIDE DEF V, opp, M
<1>7. T \subseteq Invar(g) /\ T \subseteq CanForce(g, V, plr) \cup (f.p \cap CanForce(g, T, plr))
  <2>. HIDE DEF U
  <2>1. T \subseteq Invar(g) /\ T \cap M = {}
    BY DEF Rest
  <2>. HIDE DEF T
  <2>. QED  BY <1>3, <1>4, <1>5, <1>6, <2>1 DEF Rest
<1>8. T \subseteq V
  <2>. HIDE DEF T
  <2>. QED  BY <1>1, <1>2, <1>7
<1>9. U \subseteq Invar(g) /\ U \subseteq M
  BY <1>8 DEF Rest
<1>. HIDE DEF U
<1>10. U \subseteq WinningStates(g, h, opp)
  BY <1>9, WonAgainAndAgain DEF M
<1>. QED  BY <1>10 DEF U, V, opp

LEMMA RestIsWon ==
    ASSUME NEW g \in GameType, IsFiniteSet(States), NEW plr \in Players, NEW f \in LtlType
    PROVE  Rest(g, WinningStates(g, f, plr)) \subseteq WinningStates(g, Negation(f), Opponent(plr))
<1>. DEFINE h == Negation(f)
            opp == Opponent(plr)
<1>0. opp \in Players /\ Opponent(opp) = plr
  BY OpponentIs
<1>1. f.p = States \ h.p /\ h.p = States \ f.p
  <2>1. f.p \subseteq States
    BY DEF LtlType
  <2>2. h.p = States \ f.p
    BY DEF Negation
  <2>. HIDE DEF h
  <2>. QED  BY <2>1, <2>2
<1>2. \/ f.op = "X" /\ h.op = "X"
      \/ f.op = "G" /\ h.op = "F"
      \/ f.op = "F" /\ h.op = "G"
      \/ f.op = "GF" /\ h.op = "FG"
      \/ f.op = "FG" /\ h.op = "GF"
  <2>. DEFINE o == f.op
  <2>1. h.op = DualOp[o] /\ o \in {"X", "G", "F", "GF", "FG"}
    BY DEF Negation, LtlType, Ops
  <2>. HIDE DEF h, o
  <2>2. \/ o = "X" /\ h.op = "X"
        \/ o = "G" /\ h.op = "F"
        \/ o = "F" /\ h.op = "G"
        \/ o = "GF" /\ h.op = "FG"
        \/ o = "FG" /\ h.op = "GF"
    BY <2>1 DEF DualOp
  <2>. QED  BY <2>2 DEF o
<1>. HIDE DEF h, opp
<1>4. CASE Rest(g, WinningStates(g, h, opp)) \subseteq WinningStates(g, f, plr)
  <2>. QED  BY <1>4 DEF Rest, h, opp
<1>5. CASE Rest(g, WinningStates(g, f, plr)) \subseteq WinningStates(g, h, opp)
  BY <1>5 DEF h, opp
<1>6. CASE f.op = "X" /\ h.op = "X"
  <2>1. Rest(g, WinningStates(g, f, plr)) \subseteq WinningStates(g, h, opp)
    BY <1>1, <1>6, NextRest DEF opp
  <2>. QED  BY <1>5, <2>1
<1>7. CASE f.op = "F" /\ h.op = "G"
  <2>1. Rest(g, WinningStates(g, f, plr)) \subseteq WinningStates(g, h, opp)
    BY <1>1, <1>7, FinallyRest DEF opp
  <2>. QED  BY <1>5, <2>1
<1>8. CASE f.op = "FG" /\ h.op = "GF"
  <2>1. Rest(g, WinningStates(g, f, plr)) \subseteq WinningStates(g, h, opp)
    BY <1>1, <1>8, RepeatedRest DEF opp
  <2>. QED  BY <1>5, <2>1
<1>9. CASE f.op = "G" /\ h.op = "F"
  <2>1. Rest(g, WinningStates(g, h, opp)) \subseteq WinningStates(g, f, Opponent(opp))
    BY <1>0, <1>1, <1>9, FinallyRest
  <2>. QED  BY <1>0, <1>4, <2>1
<1>10. CASE f.op = "GF" /\ h.op = "FG"
  <2>1. Rest(g, WinningStates(g, h, opp)) \subseteq WinningStates(g, f, Opponent(opp))
    BY <1>0, <1>1, <1>10, RepeatedRest
  <2>. QED  BY <1>0, <1>4, <2>1
<1>. QED  BY <1>2, <1>6, <1>7, <1>8, <1>9, <1>10

(* A player or its opponent has a strategy, for the formula or for its     *)
(* negation.                                                               *)
LEMMA EitherWins ==
    ASSUME NEW g \in GameType, IsFiniteSet(States), NEW plr \in Players, NEW f \in LtlType
    PROVE  HasStrategy(g, f, plr) \/ HasStrategy(g, Negation(f), Opponent(plr))
<1>. DEFINE W == WinningStates(g, f, plr)
            V == WinningStates(g, Negation(f), Opponent(plr))
<1>1. ASSUME ~StartsIn(g, W, plr, "N") PROVE StartsIn(g, V, Opponent(plr), "N")
  <2>. HIDE DEF W, V
  <2>1. StartsIn(g, Rest(g, W), Opponent(plr), "N")
    BY <1>1, StartDuality DEF Rest
  <2>2. Rest(g, W) \subseteq V /\ "N" \in Quantifiers
    BY RestIsWon DEF W, V, Quantifiers
  <2>. QED  BY <2>1, <2>2, StartMonotone
<1>. QED  BY <1>1 DEF HasStrategy

-----------------------------------------------------------------------------
(* How the states that are won are played: wherever the play is in N the   *)
(* player makes the next state be in move of it.                           *)

IsTactic(g, N, move, plr) ==
    /\ N \subseteq Invar(g) /\ move \in [N -> SUBSET N]
    /\ \A s \in N : s \in CanForce(g, move[s], plr)

IsPlay(N, move, s, p) ==
    p \in [Nat -> N] /\ p[0] = s /\ \A n \in Nat : p[n + 1] \in move[p[n]]

LettersOf(bad, p) == [n \in Nat |-> p[n] \in bad.p]

IsWinningTactic(g, bad, plr, N, move) ==
    /\ IsTactic(g, N, move, plr)
    /\ \A s \in WinningStates(g, Negation(bad), plr) :
          s \in N /\ \A p : IsPlay(N, move, s, p) => ~Satisfies(bad.op, LettersOf(bad, p))

(* Ranks do not go down for ever.                                          *)
LEMMA NoDescent ==
    ASSUME NEW p, NEW L, NEW rank \in [L -> Nat], NEW n \in Nat, p[n] \in L,
           \A m \in Nat : n <= m /\ p[m] \in L => p[m + 1] \in L /\ rank[p[m + 1]] < rank[p[m]]
    PROVE  FALSE
<1>. DEFINE T == {rank[p[m]] : m \in {l \in Nat : n <= l /\ p[l] \in L}}
<1>1. T \in SUBSET Nat /\ T # {}
  OBVIOUS
<1>2. PICK i \in T : \A j \in T : i <= j
  <2>. HIDE DEF T
  <2>. QED  BY <1>1, LeastNumber
<1>3. PICK m \in Nat : n <= m /\ p[m] \in L /\ i = rank[p[m]]
  OBVIOUS
<1>4. m + 1 \in Nat /\ n <= m + 1
  BY <1>3
<1>5. p[m + 1] \in L /\ rank[p[m + 1]] < rank[p[m]]
  BY <1>3
<1>6. rank[p[m + 1]] \in T
  BY <1>4, <1>5
<1>7. rank[p[m + 1]] \in Nat /\ rank[p[m]] \in Nat
  BY <1>3, <1>5
<1>8. i <= rank[p[m + 1]]
  <2>. HIDE DEF T
  <2>. QED  BY <1>2, <1>6
<1>. QED  BY <1>3, <1>5, <1>7, <1>8

LEMMA PlayIs ==
    ASSUME NEW g \in GameType, NEW bad, NEW N, NEW move, NEW plr, IsTactic(g, N, move, plr),
           NEW s, NEW p, IsPlay(N, move, s, p)
    PROVE  /\ p[0] = s
           /\ \A n \in Nat : /\ p[n] \in N /\ p[n] \in States
                             /\ p[n + 1] \in move[p[n]]
                             /\ LettersOf(bad, p)[n] <=> p[n] \in bad.p
  BY TypedInvar DEF IsTactic, IsPlay, LettersOf

LEMMA PlaysGlobally ==
    ASSUME NEW g \in GameType, IsFiniteSet(States), NEW bad \in LtlType, bad.op = "F",
           NEW plr \in Players
    PROVE  \E N, move : IsWinningTactic(g, bad, plr, N, move)
<1>. DEFINE f == Negation(bad)
            W == WinningStates(g, f, plr)
            L == StucksOther(g, plr)
<1>1. f.op = "G" /\ f.p = States \ bad.p
  BY DEF Negation, DualOp
<1>. HIDE DEF f
<1>2. W \subseteq Invar(g) /\ W = L \cup (f.p \cap CanForce(g, W, plr))
  BY <1>1, WonGlobally
<1>3. PICK rank \in [L -> Nat] : \A s \in L : s \in CanForce(g, {u \in L : rank[u] < rank[s]}, plr)
  BY StucksRanked
<1>. HIDE DEF W, L
<1>. DEFINE move == [s \in W |-> IF s \in L THEN {u \in L : rank[u] < rank[s]} ELSE W]
<1>4. IsTactic(g, W, move, plr)
  <2>1. move \in [W -> SUBSET W]
    BY <1>2
  <2>2. \A s \in W : s \in CanForce(g, move[s], plr)
    BY <1>2, <1>3
  <2>. HIDE DEF move
  <2>. QED  BY <1>2, <2>1, <2>2 DEF IsTactic
<1>5. ASSUME NEW s \in W, NEW p, IsPlay(W, move, s, p), Satisfies("F", LettersOf(bad, p))
      PROVE  FALSE
  <2>. DEFINE w == LettersOf(bad, p)
  <2>1. \A n \in Nat : /\ p[n] \in W /\ p[n] \in States /\ p[n + 1] \in move[p[n]]
                       /\ w[n] <=> p[n] \in bad.p
    <3>. HIDE DEF move
    <3>. QED  BY <1>4, <1>5, PlayIs
  <2>2. PICK n \in Nat : w[n]
    <3>. HIDE DEF w
    <3>. QED  BY <1>5 DEF Satisfies, w
  <2>. HIDE DEF w
  <2>3. p[n] \in L
    BY <1>1, <1>2, <2>1, <2>2
  <2>4. \A m \in Nat : p[m] \in L => p[m + 1] \in L /\ rank[p[m + 1]] < rank[p[m]]
    BY <2>1
  <2>. HIDE DEF move
  <2>. QED  BY <2>3, <2>4, NoDescent
<1>6. IsWinningTactic(g, bad, plr, W, move)
  <2>. HIDE DEF move
  <2>. QED  BY <1>4, <1>5 DEF IsWinningTactic, W, f
<1>. QED  BY <1>6

LEMMA PlaysFinally ==
    ASSUME NEW g \in GameType, IsFiniteSet(States), NEW bad \in LtlType, bad.op = "G",
           NEW plr \in Players
    PROVE  \E N, move : IsWinningTactic(g, bad, plr, N, move)
<1>. DEFINE f == Negation(bad)
            W == WinningStates(g, f, plr)
            safe == NeverStuck(g, plr)
            N == W \cup safe
            first == f.p \cap safe
<1>1. f.op = "F" /\ f.p = States \ bad.p
  BY DEF Negation, DualOp
<1>. HIDE DEF f
<1>2. W = first \cup CanForce(g, W, plr)
  BY <1>1, WonFinally
<1>3. safe \subseteq Invar(g) /\ CanForce(g, safe, plr) = safe
  BY NeverStuckIs
<1>4. PICK rank \in [W -> Nat] :
          \A s \in W : s \in first \/ s \in CanForce(g, {u \in W : rank[u] < rank[s]}, plr)
  BY <1>1, FinallyRanked
<1>5. CanForce(g, W, plr) \subseteq Invar(g)
  BY ForceInvar
<1>. HIDE DEF W, safe
<1>. DEFINE move == [s \in N |-> IF s \in W \ first THEN {u \in W : rank[u] < rank[s]} ELSE safe]
<1>6. IsTactic(g, N, move, plr)
  <2>1. move \in [N -> SUBSET N] /\ N \subseteq Invar(g)
    BY <1>2, <1>3, <1>5
  <2>2. \A s \in N : s \in CanForce(g, move[s], plr)
    BY <1>3, <1>4
  <2>. HIDE DEF move, N
  <2>. QED  BY <2>1, <2>2 DEF IsTactic
<1>7. ASSUME NEW s \in W, NEW p, IsPlay(N, move, s, p), Satisfies("G", LettersOf(bad, p))
      PROVE  FALSE
  <2>. DEFINE w == LettersOf(bad, p)
  <2>1. p[0] = s
        /\ \A n \in Nat : /\ p[n] \in N /\ p[n] \in States /\ p[n + 1] \in move[p[n]]
                          /\ w[n] <=> p[n] \in bad.p
    <3>. HIDE DEF move, N
    <3>. QED  BY <1>6, <1>7, PlayIs
  <2>2. \A n \in Nat : w[n]
    <3>. HIDE DEF w
    <3>. QED  BY <1>7 DEF Satisfies, w
  <2>. HIDE DEF w
  <2>3. \A n \in Nat : p[n] \notin first
    BY <1>1, <2>1, <2>2
  <2>4. \A m \in Nat : p[m] \in W => p[m + 1] \in W /\ rank[p[m + 1]] < rank[p[m]]
    <3>. HIDE DEF first
    <3>. QED  BY <2>1, <2>3
  <2>5. 0 \in Nat /\ p[0] \in W
    BY <2>1
  <2>. HIDE DEF move
  <2>. QED  BY <2>4, <2>5, NoDescent
<1>8. IsWinningTactic(g, bad, plr, N, move)
  <2>1. W \subseteq N
    OBVIOUS
  <2>. HIDE DEF move, N
  <2>. QED  BY <1>6, <1>7, <2>1 DEF IsWinningTactic, W, f
<1>. QED  BY <1>8

LEMMA PlaysAgainAndAgain ==
    ASSUME NEW g \in GameType, IsFiniteSet(States), NEW bad \in LtlType, bad.op = "FG",
           NEW plr \in Players
    PROVE  \E N, move : IsWinningTactic(g, bad, plr, N, move)
<1>. DEFINE f == Negation(bad)
            W == WinningStates(g, f, plr)
            first == f.p \cap CanForce(g, W, plr)
<1>1. f.op = "GF" /\ f.p = States \ bad.p
  BY DEF Negation, DualOp
<1>. HIDE DEF f
<1>2. W = ReachedOnceMore(g, f.p, plr, W)
  BY <1>1, WonAgainAndAgain
<1>. HIDE DEF W
<1>3. W = first \cup CanForce(g, W, plr)
  <2>1. LET M == ReachedOnceMore(g, f.p, plr, W)
        IN  M = (f.p \cap CanForce(g, W, plr)) \cup CanForce(g, M, plr)
    BY ReachedOnceMoreIs
  <2>. QED  BY <1>2, <2>1
<1>4. PICK rank \in [W -> Nat] :
          \A s \in W : s \in first \/ s \in CanForce(g, {u \in W : rank[u] < rank[s]}, plr)
  <2>1. LET M == ReachedOnceMore(g, f.p, plr, W)
        IN  \E rank \in [M -> Nat] :
                \A s \in M : \/ s \in f.p \cap CanForce(g, W, plr)
                             \/ s \in CanForce(g, {u \in M : rank[u] < rank[s]}, plr)
    BY OnceMoreRanked
  <2>. QED  BY <1>2, <2>1
<1>5. CanForce(g, W, plr) \subseteq Invar(g)
  BY ForceInvar
<1>. DEFINE move == [s \in W |-> IF s \in first THEN W ELSE {u \in W : rank[u] < rank[s]}]
<1>6. IsTactic(g, W, move, plr)
  <2>1. move \in [W -> SUBSET W] /\ W \subseteq Invar(g)
    BY <1>3, <1>5
  <2>2. \A s \in W : s \in CanForce(g, move[s], plr)
    BY <1>4
  <2>. HIDE DEF move
  <2>. QED  BY <2>1, <2>2 DEF IsTactic
<1>7. ASSUME NEW s \in W, NEW p, IsPlay(W, move, s, p), Satisfies("FG", LettersOf(bad, p))
      PROVE  FALSE
  <2>. DEFINE w == LettersOf(bad, p)
  <2>1. \A n \in Nat : /\ p[n] \in W /\ p[n] \in States /\ p[n + 1] \in move[p[n]]
                       /\ w[n] <=> p[n] \in bad.p
    <3>. HIDE DEF move
    <3>. QED  BY <1>6, <1>7, PlayIs
  <2>2. PICK n \in Nat : \A m \in Nat : n <= m => w[m]
    <3>. HIDE DEF w
    <3>. QED  BY <1>7 DEF Satisfies, w
  <2>. HIDE DEF w
  <2>3. \A m \in Nat : n <= m => p[m] \notin first
    BY <1>1, <2>1, <2>2
  <2>4. \A m \in Nat : n <= m /\ p[m] \in W => p[m + 1] \in W /\ rank[p[m + 1]] < rank[p[m]]
    <3>. HIDE DEF first
    <3>. QED  BY <2>1, <2>3
  <2>5. p[n] \in W
    BY <2>1
  <2>. HIDE DEF move
  <2>. QED  BY <2>4, <2>5, NoDescent
<1>8. IsWinningTactic(g, bad, plr, W, move)
  <2>. HIDE DEF move
  <2>. QED  BY <1>6, <1>7 DEF IsWinningTactic, W, f
<1>. QED  BY <1>8

LEMMA PlaysFromSomeTime ==
    ASSUME NEW g \in GameType, IsFiniteSet(States), NEW bad \in LtlType, bad.op = "GF",
           NEW plr \in Players
    PROVE  \E N, move : IsWinningTactic(g, bad, plr, N, move)
<1>. DEFINE f == Negation(bad)
            W == WinningStates(g, f, plr)
<1>1. f.op = "FG" /\ f.p = States \ bad.p
  BY DEF Negation, DualOp
<1>. HIDE DEF f
<1>2. PICK rank \in [W -> Nat] : \A s \in W :
          \/ s \in CanForce(g, {u \in W : rank[u] < rank[s]}, plr)
          \/ s \in f.p \cap CanForce(g, {u \in W : rank[u] <= rank[s]}, plr)
  BY <1>1, FromSomeTimeRanked
<1>. HIDE DEF W
<1>. DEFINE Lower(s) == {u \in W : rank[u] < rank[s]}
            NotHigher(s) == {u \in W : rank[u] <= rank[s]}
            move == [s \in W |-> IF s \in f.p \cap CanForce(g, NotHigher(s), plr)
                                THEN NotHigher(s) ELSE Lower(s)]
<1>3. IsTactic(g, W, move, plr)
  <2>1. move \in [W -> SUBSET W]
    OBVIOUS
  <2>2. \A s \in W : s \in CanForce(g, move[s], plr)
    BY <1>2
  <2>3. W \subseteq Invar(g)
    <3>. HIDE DEF move
    <3>. QED  BY <2>2, ForceInvar
  <2>. HIDE DEF move
  <2>. QED  BY <2>1, <2>2, <2>3 DEF IsTactic
<1>4. ASSUME NEW s \in W, NEW p, IsPlay(W, move, s, p), Satisfies("GF", LettersOf(bad, p))
      PROVE  FALSE
  <2>. DEFINE w == LettersOf(bad, p)
  <2>1. \A n \in Nat : /\ p[n] \in W /\ p[n] \in States /\ p[n + 1] \in move[p[n]]
                       /\ w[n] <=> p[n] \in bad.p
    <3>. HIDE DEF move
    <3>. QED  BY <1>3, <1>4, PlayIs
  <2>2. \A n \in Nat : \E m \in Nat : n <= m /\ w[m]
    <3>. HIDE DEF w
    <3>. QED  BY <1>4 DEF Satisfies, w
  <2>. HIDE DEF w
  <2>3. \A m \in Nat : /\ rank[p[m]] \in Nat /\ rank[p[m + 1]] \in Nat
                       /\ rank[p[m + 1]] <= rank[p[m]]
                       /\ w[m] => rank[p[m + 1]] < rank[p[m]]
    <3>. SUFFICES ASSUME NEW m \in Nat
                  PROVE  /\ rank[p[m]] \in Nat /\ rank[p[m + 1]] \in Nat
                         /\ rank[p[m + 1]] <= rank[p[m]]
                         /\ w[m] => rank[p[m + 1]] < rank[p[m]]
      OBVIOUS
    <3>1. /\ p[m] \in W /\ p[m] \in States /\ p[m + 1] \in move[p[m]]
          /\ w[m] <=> p[m] \in bad.p
      BY <2>1
    <3>2. w[m] => p[m] \notin f.p
      BY <1>1, <3>1
    <3>3. move[p[m]] = NotHigher(p[m]) \/ move[p[m]] = Lower(p[m])
      BY <3>1
    <3>4. w[m] => move[p[m]] = Lower(p[m])
      BY <3>1, <3>2
    <3>. HIDE DEF move
    <3>. QED  BY <3>1, <3>3, <3>4
  <2>. DEFINE T == {rank[p[m]] : m \in Nat}
  <2>4. T \in SUBSET Nat /\ T # {}
    BY <2>3
  <2>5. PICK i \in T : \A j \in T : i <= j
    <3>. HIDE DEF T
    <3>. QED  BY <2>4, LeastNumber
  <2>6. PICK n \in Nat : i = rank[p[n]]
    OBVIOUS
  <2>. DEFINE C == {m \in Nat : n <= m => rank[p[m]] <= i}
  <2>7. Nat \subseteq C
    <3>1. 0 \in C
      BY <2>3, <2>6
    <3>2. ASSUME NEW m \in Nat, m \in C PROVE m + 1 \in C
      <4>1. CASE n <= m
        BY <2>3, <2>5, <3>2, <4>1
      <4>2. CASE n = m + 1
        BY <2>3, <2>6, <4>2
      <4>3. CASE m + 1 < n
        BY <4>3
      <4>. QED  BY <4>1, <4>2, <4>3
    <3>. HIDE DEF C
    <3>. QED  BY <3>1, <3>2, AllNumbers
  <2>8. PICK m \in Nat : n <= m /\ w[m]
    BY <2>2
  <2>9. rank[p[m + 1]] < rank[p[m]] /\ rank[p[m]] <= i
    BY <2>3, <2>7, <2>8
  <2>10. rank[p[m + 1]] \in T
    <3>1. m + 1 \in Nat
      OBVIOUS
    <3>. QED  BY <3>1
  <2>11. i <= rank[p[m + 1]]
    <3>. HIDE DEF T
    <3>. QED  BY <2>5, <2>10
  <2>. QED  BY <2>3, <2>4, <2>9, <2>11
<1>5. IsWinningTactic(g, bad, plr, W, move)
  <2>. HIDE DEF move
  <2>. QED  BY <1>3, <1>4 DEF IsWinningTactic, W, f
<1>. QED  BY <1>5

LEMMA PlaysNext ==
    ASSUME NEW g \in GameType, IsFiniteSet(States), NEW bad \in LtlType, bad.op = "X",
           NEW plr \in Players
    PROVE  \E N, move : IsWinningTactic(g, bad, plr, N, move)
<1>. DEFINE f == Negation(bad)
            W == WinningStates(g, f, plr)
            safe == NeverStuck(g, plr)
            L == StucksOther(g, plr)
            T == (f.p \cap safe) \cup L
            N == W \cup safe \cup L
<1>1. f.op = "X" /\ f.p = States \ bad.p
  BY DEF Negation, DualOp
<1>. HIDE DEF f
<1>2. W = CanForce(g, T, plr)
  BY <1>1, WonNext
<1>3. safe \subseteq Invar(g) /\ CanForce(g, safe, plr) = safe
  BY NeverStuckIs
<1>4. L \subseteq Invar(g)
  BY StucksOtherIs
<1>5. PICK rank \in [L -> Nat] : \A s \in L : s \in CanForce(g, {u \in L : rank[u] < rank[s]}, plr)
  BY StucksRanked
<1>6. CanForce(g, T, plr) \subseteq Invar(g)
  BY ForceInvar
<1>. HIDE DEF W, safe, L
<1>. DEFINE move == [s \in N |-> IF s \in L THEN {u \in L : rank[u] < rank[s]}
                                ELSE IF s \in W THEN T ELSE safe]
<1>7. IsTactic(g, N, move, plr)
  <2>1. move \in [N -> SUBSET N] /\ N \subseteq Invar(g)
    BY <1>2, <1>3, <1>4, <1>6
  <2>2. \A s \in N : s \in CanForce(g, move[s], plr)
    BY <1>2, <1>3, <1>5
  <2>. HIDE DEF move, N
  <2>. QED  BY <2>1, <2>2 DEF IsTactic
<1>8. ASSUME NEW s \in W, NEW p, IsPlay(N, move, s, p), Satisfies("X", LettersOf(bad, p))
      PROVE  FALSE
  <2>. DEFINE w == LettersOf(bad, p)
  <2>1. p[0] = s
        /\ \A n \in Nat : /\ p[n] \in N /\ p[n] \in States /\ p[n + 1] \in move[p[n]]
                          /\ w[n] <=> p[n] \in bad.p
    <3>. HIDE DEF move, N
    <3>. QED  BY <1>7, <1>8, PlayIs
  <2>2. w[1]
    <3>. HIDE DEF w
    <3>. QED  BY <1>8 DEF Satisfies, w
  <2>. HIDE DEF w
  <2>3. ASSUME NEW n \in Nat, p[n] \in L PROVE FALSE
    <3>1. \A m \in Nat : p[m] \in L => p[m + 1] \in L /\ rank[p[m + 1]] < rank[p[m]]
      BY <2>1
    <3>. HIDE DEF move
    <3>. QED  BY <2>3, <3>1, NoDescent
  <2>4. 0 \in Nat /\ 1 \in Nat /\ 0 + 1 = 1
    OBVIOUS
  <2>5. move[p[0]] = T
    BY <2>1, <2>3, <2>4
  <2>6. p[1] \in T /\ p[1] \in bad.p
    <3>. HIDE DEF move, T
    <3>. QED  BY <2>1, <2>2, <2>4, <2>5
  <2>7. p[1] \in f.p
    BY <2>3, <2>4, <2>6
  <2>. QED  BY <1>1, <2>6, <2>7
<1>9. IsWinningTactic(g, bad, plr, N, move)
  <2>1. W \subseteq N
    OBVIOUS
  <2>. HIDE DEF move, N
  <2>. QED  BY <1>7, <1>8, <2>1 DEF IsWinningTactic, W, f
<1>. QED  BY <1>9

(* There is a tactic for every formula.                                    *)
LEMMA TacticExists ==
    ASSUME NEW g \in GameType, IsFiniteSet(States), NEW bad \in LtlType, NEW plr \in Players
    PROVE  \E N, move : IsWinningTactic(g, bad, plr, N, move)
<1>1. bad.op \in {"X", "G", "F", "GF", "FG"}
  BY DEF LtlType, Ops
<1>. QED  BY <1>1, PlaysNext, PlaysGlobally, PlaysFinally, PlaysAgainAndAgain, PlaysFromSomeTime

-----------------------------------------------------------------------------
(* A finite graph: how often Q can be visited from a node from which it    *)
(* cannot be visited forever.                                              *)

Quiet(X, R, Q) == {x \in X : \A p : ~IsVisiting(X, R, Q, x, p)}

(* The nodes of Q that can be visited after x.                             *)
Ahead(X, R, Q, x) ==
    {y \in Quiet(X, R, Q) \cap Q : \E n \in Nat : Walks(Quiet(X, R, Q), R, {y}, x, n + 1)}

Worth(X, R, Q, x) == Cardinality(Ahead(X, R, Q, x))

LEMMA QuietGoesOn ==
    ASSUME NEW X, NEW R, NEW Q, NEW x \in Quiet(X, R, Q), NEW y \in X, <<x, y>> \in R
    PROVE  y \in Quiet(X, R, Q)
<1>. SUFFICES ASSUME NEW p, IsVisiting(X, R, Q, y, p) PROVE FALSE
  BY DEF Quiet
<1>. DEFINE r == [n \in Nat |-> IF n = 0 THEN x ELSE p[n - 1]]
<1>1. /\ p \in [Nat -> X] /\ p[0] = y
      /\ \A n \in Nat : <<p[n], p[n + 1]>> \in R
      /\ \A n \in Nat : \E m \in Nat : n <= m /\ p[m] \in Q
  BY DEF IsVisiting
<1>2. r \in [Nat -> X] /\ r[0] = x /\ \A n \in Nat : r[n + 1] = p[n]
  <2>1. x \in X
    BY DEF Quiet
  <2>2. \A n \in Nat : n # 0 => n - 1 \in Nat
    OBVIOUS
  <2>3. r \in [Nat -> X] /\ r[0] = x
    BY <1>1, <2>1, <2>2
  <2>4. \A n \in Nat : n + 1 \in Nat /\ n + 1 # 0 /\ (n + 1) - 1 = n
    OBVIOUS
  <2>. QED  BY <2>3, <2>4
<1>. HIDE DEF r
<1>3. ASSUME NEW n \in Nat PROVE <<r[n], r[n + 1]>> \in R
  <2>1. CASE n = 0
    BY <1>1, <1>2, <2>1
  <2>2. CASE n # 0
    <3>. DEFINE l == n - 1
    <3>1. l \in Nat /\ n = l + 1
      BY <2>2
    <3>. HIDE DEF l
    <3>. QED  BY <1>1, <1>2, <3>1
  <2>. QED  BY <2>1, <2>2
<1>4. ASSUME NEW n \in Nat PROVE \E m \in Nat : n <= m /\ r[m] \in Q
  <2>1. PICK m \in Nat : n <= m /\ p[m] \in Q
    BY <1>1
  <2>2. m + 1 \in Nat /\ n <= m + 1
    BY <2>1
  <2>. QED  BY <1>2, <2>1, <2>2
<1>5. IsVisiting(X, R, Q, x, r)
  BY <1>2, <1>3, <1>4 DEF IsVisiting
<1>. QED  BY <1>5 DEF Quiet

(* A walk to y stays where y can be reached.                               *)
LEMMA WalksWithin ==
    ASSUME NEW E, NEW R, NEW Q
    PROVE  LET D == {z \in E : \E n \in Nat : Walks(E, R, Q, z, n)}
           IN  \A n \in Nat : \A z \in E : Walks(E, R, Q, z, n) => Walks(D, R, Q, z, n)
<1>. DEFINE D == {z \in E : \E n \in Nat : Walks(E, R, Q, z, n)}
            C == {n \in Nat : \A z \in E : Walks(E, R, Q, z, n) => Walks(D, R, Q, z, n)}
<1>0. \A n \in Nat : \A z \in E : Walks(E, R, Q, z, n) => z \in D
  OBVIOUS
<1>. HIDE DEF D
<1>1. 0 \in C
  BY <1>0, WalksNow
<1>2. ASSUME NEW n \in Nat, n \in C PROVE n + 1 \in C
  <2>. SUFFICES ASSUME NEW z \in E, Walks(E, R, Q, z, n + 1) PROVE Walks(D, R, Q, z, n + 1)
    OBVIOUS
  <2>1. PICK u \in E : <<z, u>> \in R /\ Walks(E, R, Q, u, n)
    BY WalksLater
  <2>2. Walks(D, R, Q, u, n) /\ u \in D
    BY <1>0, <1>2, <2>1
  <2>3. z \in D
    <3>1. n + 1 \in Nat
      OBVIOUS
    <3>. QED  BY <1>0, <3>1
  <2>. QED  BY <2>1, <2>2, <2>3, WalksLater
<1>3. Nat \subseteq C
  <2>. HIDE DEF C
  <2>. QED  BY <1>1, <1>2, AllNumbers
<1>. QED  BY <1>3 DEF D

LEMMA NotAheadOfItself ==
    ASSUME NEW X, NEW R, NEW Q, NEW y
    PROVE  y \notin Ahead(X, R, Q, y)
<1>. SUFFICES ASSUME y \in Ahead(X, R, Q, y) PROVE FALSE
  OBVIOUS
<1>. DEFINE Z == Quiet(X, R, Q)
            Y == {y}
            D == {z \in Z : \E m \in Nat : Walks(Z, R, Y, z, m)}
<1>1. y \in Z /\ y \in Q
  BY DEF Ahead
<1>2. PICK n \in Nat : Walks(Z, R, Y, y, n + 1)
  BY DEF Ahead
<1>3. Z \subseteq X
  BY DEF Quiet
<1>. HIDE DEF Z
<1>4. y \in Y /\ \A z \in Y : z = y
  OBVIOUS
<1>. HIDE DEF Y
<1>5. y \in D
  <2>1. n + 1 \in Nat
    OBVIOUS
  <2>. QED  BY <1>1, <1>2, <2>1
<1>6. NeverEnds(D, R)
  <2>. SUFFICES ASSUME NEW z \in D PROVE \E u \in D : <<z, u>> \in R
    BY DEF NeverEnds
  <2>1. PICK m \in Nat : Walks(Z, R, Y, z, m)
    OBVIOUS
  <2>2. CASE m = 0
    <3>1. z = y
      BY <1>4, <2>1, <2>2, WalksNow
    <3>2. PICK u \in Z : <<y, u>> \in R /\ Walks(Z, R, Y, u, n)
      BY <1>1, <1>2, WalksLater
    <3>. QED  BY <3>1, <3>2
  <2>3. CASE m # 0
    <3>. DEFINE l == m - 1
    <3>1. l \in Nat /\ m = l + 1
      BY <2>3
    <3>. HIDE DEF l
    <3>2. PICK u \in Z : <<z, u>> \in R /\ Walks(Z, R, Y, u, l)
      BY <2>1, <3>1, WalksLater
    <3>. QED  BY <3>1, <3>2
  <2>. QED  BY <2>2, <2>3
<1>7. ReachesAlways(D, R, Y)
  <2>1. \A m \in Nat : \A z \in Z : Walks(Z, R, Y, z, m) => Walks(D, R, Y, z, m)
    BY WalksWithin
  <2>. SUFFICES ASSUME NEW z \in D PROVE \E m \in Nat : Walks(D, R, Y, z, m)
    BY DEF ReachesAlways
  <2>2. PICK m \in Nat : Walks(Z, R, Y, z, m)
    OBVIOUS
  <2>. HIDE DEF D
  <2>3. z \in Z
    BY DEF D
  <2>. QED  BY <2>1, <2>2, <2>3
<1>8. D \subseteq X
  BY <1>3
<1>. HIDE DEF D
<1>9. PICK p : IsVisiting(D, R, Y, y, p)
  BY <1>5, <1>6, <1>7, VisitedForever
<1>10. IsVisiting(X, R, Q, y, p)
  BY <1>1, <1>4, <1>8, <1>9 DEF IsVisiting
<1>. QED  BY <1>1, <1>10 DEF Z, Quiet

(* What is ahead of y is ahead of a node before it, and so is y itself.    *)
LEMMA AheadShrinks ==
    ASSUME NEW X, NEW R, NEW Q, NEW x \in Quiet(X, R, Q), NEW y \in X, <<x, y>> \in R
    PROVE  /\ Ahead(X, R, Q, y) \subseteq Ahead(X, R, Q, x)
           /\ y \in Q => y \in Ahead(X, R, Q, x)
<1>. DEFINE Z == Quiet(X, R, Q)
<1>1. x \in Z /\ y \in Z
  BY QuietGoesOn
<1>2. ASSUME NEW z \in Ahead(X, R, Q, y) PROVE z \in Ahead(X, R, Q, x)
  <2>. DEFINE Y == {z}
  <2>1. PICK n \in Nat : Walks(Z, R, Y, y, n + 1)
    BY DEF Ahead
  <2>2. z \in Z \cap Q
    BY DEF Ahead
  <2>. DEFINE m == n + 1
  <2>3. m \in Nat
    OBVIOUS
  <2>. HIDE DEF Z, Y, m
  <2>4. Walks(Z, R, Y, x, m + 1)
    BY <1>1, <2>1, <2>3, WalksLater DEF m
  <2>. QED  BY <2>2, <2>3, <2>4 DEF Ahead, Y, Z
<1>3. ASSUME y \in Q PROVE y \in Ahead(X, R, Q, x)
  <2>. DEFINE Y == {y}
  <2>1. y \in Y /\ 0 \in Nat
    OBVIOUS
  <2>. HIDE DEF Z, Y
  <2>2. Walks(Z, R, Y, y, 0)
    BY <1>1, <2>1, WalksNow
  <2>3. Walks(Z, R, Y, x, 0 + 1)
    BY <1>1, <2>1, <2>2, WalksLater
  <2>. QED  BY <1>1, <1>3, <2>1, <2>3 DEF Ahead, Y, Z
<1>. QED  BY <1>2, <1>3

(* A step costs what it is worth.                                          *)
LEMMA WorthIs ==
    ASSUME NEW X, IsFiniteSet(X), NEW R, NEW Q, NEW x \in Quiet(X, R, Q)
    PROVE  /\ Worth(X, R, Q, x) \in Nat
           /\ Worth(X, R, Q, x) <= Cardinality(X)
           /\ x \in Q => Worth(X, R, Q, x) + 1 <= Cardinality(X)
           /\ \A y \in X : <<x, y>> \in R =>
                 /\ y \in Quiet(X, R, Q)
                 /\ Worth(X, R, Q, y) \in Nat
                 /\ Worth(X, R, Q, y) <= Worth(X, R, Q, x)
                 /\ y \in Q => Worth(X, R, Q, y) + 1 <= Worth(X, R, Q, x)
<1>1. ASSUME NEW y PROVE /\ Ahead(X, R, Q, y) \subseteq X
                         /\ IsFiniteSet(Ahead(X, R, Q, y))
                         /\ Worth(X, R, Q, y) \in Nat
  <2>1. Ahead(X, R, Q, y) \subseteq X
    BY DEF Ahead, Quiet
  <2>2. IsFiniteSet(Ahead(X, R, Q, y))
    BY <2>1, FS_Subset
  <2>. QED  BY <2>1, <2>2, FS_CardinalityType DEF Worth
<1>2. ASSUME NEW y, NEW S, IsFiniteSet(S), Ahead(X, R, Q, y) \subseteq S, y \in S
      PROVE  Worth(X, R, Q, y) + 1 <= Cardinality(S)
  <2>. DEFINE A == Ahead(X, R, Q, y)
              T == A \cup {y}
  <2>1. y \notin A /\ IsFiniteSet(A)
    BY <1>1, NotAheadOfItself
  <2>2. T \in SUBSET S
    BY <1>2
  <2>. HIDE DEF A
  <2>3. Cardinality(T) = Cardinality(A) + 1
    BY <2>1, FS_AddElement
  <2>. HIDE DEF T
  <2>4. Cardinality(T) <= Cardinality(S)
    BY <1>2, <2>2, FS_Subset
  <2>. QED  BY <2>3, <2>4 DEF Worth, A
<1>3. Worth(X, R, Q, x) <= Cardinality(X)
  BY <1>1, FS_Subset DEF Worth
<1>4. x \in Q => Worth(X, R, Q, x) + 1 <= Cardinality(X)
  BY <1>1, <1>2 DEF Quiet
<1>5. ASSUME NEW y \in X, <<x, y>> \in R
      PROVE  /\ y \in Quiet(X, R, Q)
             /\ Worth(X, R, Q, y) <= Worth(X, R, Q, x)
             /\ y \in Q => Worth(X, R, Q, y) + 1 <= Worth(X, R, Q, x)
  <2>1. /\ Ahead(X, R, Q, y) \subseteq Ahead(X, R, Q, x)
        /\ y \in Q => y \in Ahead(X, R, Q, x)
    BY <1>5, AheadShrinks
  <2>2. IsFiniteSet(Ahead(X, R, Q, x))
    BY <1>1
  <2>3. Worth(X, R, Q, y) <= Worth(X, R, Q, x)
    BY <2>1, <2>2, FS_Subset DEF Worth
  <2>4. y \in Q => Worth(X, R, Q, y) + 1 <= Worth(X, R, Q, x)
    BY <1>2, <2>1, <2>2 DEF Worth
  <2>. QED  BY <1>5, <2>3, <2>4, QuietGoesOn
<1>. QED  BY <1>1, <1>3, <1>4, <1>5

-----------------------------------------------------------------------------
(* What is won avoids a large enough bound.                                *)

(* No other word is accepted.                                              *)
AcceptsOnly(op) == \A w \in Words : \A r : IsRun(Automaton[op], w, r) => Satisfies(op, w)

(* The tactic and the automaton, together.                                 *)
Pairs(bad, N) == N \X Automaton[bad.op].states

Joint(bad, N, move) ==
    {e \in Pairs(bad, N) \X Pairs(bad, N) :
        /\ e[2][1] \in move[e[1][1]]
        /\ <<e[1][2], e[2][2]>> \in Automaton[bad.op].trans
        /\ Holds(Automaton[bad.op], e[2][1] \in bad.p, e[2][2])}

FairPairs(bad, N) == {z \in Pairs(bad, N) : z[2] \in Automaton[bad.op].fair}

QuietPairs(bad, N, move) == Quiet(Pairs(bad, N), Joint(bad, N, move), FairPairs(bad, N))

Cost(bad, N, move, z) == Worth(Pairs(bad, N), Joint(bad, N, move), FairPairs(bad, N), z)

LEMMA JointIs ==
    ASSUME NEW bad, NEW N, NEW move, NEW y, NEW z, <<y, z>> \in Joint(bad, N, move)
    PROVE  /\ y \in Pairs(bad, N) /\ z \in Pairs(bad, N)
           /\ z[1] \in move[y[1]]
           /\ <<y[2], z[2]>> \in Automaton[bad.op].trans
           /\ Holds(Automaton[bad.op], z[1] \in bad.p, z[2])
  BY DEF Joint

(* A play along the tactic from a state that is won has no run.            *)
LEMMA BeginsQuiet ==
    ASSUME NEW g, NEW bad \in LtlType, NEW plr, NEW N, NEW move,
           IsWinningTactic(g, bad, plr, N, move), AcceptsOnly(bad.op),
           NEW s \in WinningStates(g, Negation(bad), plr),
           NEW q \in Automaton[bad.op].initial, q \in Automaton[bad.op].states,
           Holds(Automaton[bad.op], s \in bad.p, q)
    PROVE  <<s, q>> \in QuietPairs(bad, N, move)
<1>. DEFINE B == Automaton[bad.op]
            x == <<s, q>>
            X == Pairs(bad, N)
            R == Joint(bad, N, move)
            F == FairPairs(bad, N)
<1>1. s \in N /\ \A p : IsPlay(N, move, s, p) => ~Satisfies(bad.op, LettersOf(bad, p))
  BY DEF IsWinningTactic
<1>2. x \in X /\ x[1] = s /\ x[2] = q
  BY <1>1 DEF Pairs
<1>. SUFFICES ASSUME NEW p, IsVisiting(X, R, F, x, p) PROVE FALSE
  BY <1>2 DEF QuietPairs, Quiet
<1>. DEFINE play == [n \in Nat |-> p[n][1]]
            run == [n \in Nat |-> p[n][2]]
            w == LettersOf(bad, play)
<1>. HIDE DEF x
<1>3. /\ p \in [Nat -> X] /\ p[0] = x
      /\ \A n \in Nat : <<p[n], p[n + 1]>> \in R
      /\ \A n \in Nat : \E m \in Nat : n <= m /\ p[m] \in F
  BY DEF IsVisiting
<1>. HIDE DEF R, F, X
<1>4. ASSUME NEW n \in Nat
      PROVE  /\ p[n][1] \in N /\ p[n][2] \in B.states
             /\ p[n + 1][1] \in move[p[n][1]]
             /\ <<p[n][2], p[n + 1][2]>> \in B.trans
             /\ Holds(B, p[n + 1][1] \in bad.p, p[n + 1][2])
  <2>1. <<p[n], p[n + 1]>> \in Joint(bad, N, move)
    BY <1>3 DEF R
  <2>2. p[n] \in Pairs(bad, N)
    BY <1>3 DEF X
  <2>. QED  BY <2>1, <2>2, JointIs DEF Pairs
<1>5. \A n \in Nat : play[n] = p[n][1] /\ run[n] = p[n][2] /\ w[n] = (p[n][1] \in bad.p)
  BY DEF LettersOf
<1>6. play \in [Nat -> N] /\ run \in [Nat -> B.states] /\ w \in Words
  <2>1. play \in [Nat -> N]
    BY <1>4
  <2>2. run \in [Nat -> B.states]
    <3>. HIDE DEF B
    <3>. QED  BY <1>4
  <2>3. w \in Words
    <3>. HIDE DEF play
    <3>. QED  BY DEF LettersOf, Words
  <2>. QED  BY <2>1, <2>2, <2>3
<1>. HIDE DEF play, run, w, B
<1>7. IsPlay(N, move, s, play)
  <2>1. ASSUME NEW n \in Nat PROVE play[n + 1] \in move[play[n]]
    <3>1. n + 1 \in Nat
      OBVIOUS
    <3>. QED  BY <1>4, <1>5, <3>1
  <2>. QED  BY <1>2, <1>3, <1>5, <1>6, <2>1 DEF IsPlay
<1>8. IsRun(B, w, run)
  <2>1. run[0] \in B.initial
    BY <1>2, <1>3, <1>5 DEF B
  <2>2. ASSUME NEW n \in Nat PROVE Holds(B, w[n], run[n]) /\ <<run[n], run[n + 1]>> \in B.trans
    <3>1. <<run[n], run[n + 1]>> \in B.trans
      BY <1>4, <1>5
    <3>2. CASE n = 0
      BY <1>2, <1>3, <1>5, <3>1, <3>2 DEF B
    <3>3. CASE n # 0
      <4>. DEFINE l == n - 1
      <4>1. l \in Nat /\ n = l + 1
        BY <3>3
      <4>. HIDE DEF l
      <4>2. Holds(B, p[n][1] \in bad.p, p[n][2])
        BY <1>4, <4>1
      <4>. QED  BY <1>5, <3>1, <4>2
    <3>. QED  BY <3>2, <3>3
  <2>3. ASSUME NEW n \in Nat PROVE \E m \in Nat : n <= m /\ run[m] \in B.fair
    <3>1. PICK m \in Nat : n <= m /\ p[m] \in F
      BY <1>3
    <3>. QED  BY <1>5, <3>1 DEF F, FairPairs, B
  <2>. QED  BY <1>6, <2>1, <2>2, <2>3 DEF IsRun
<1>9. ~Satisfies(bad.op, w)
  BY <1>1, <1>7 DEF w
<1>. QED  BY <1>6, <1>8, <1>9 DEF AcceptsOnly, B

(* States with counters that leave enough for all that is ahead.           *)
Affordable(g, bad, k, N, move) ==
    {x \in Counting(g, bad, k) :
        /\ x[1] \in N
        /\ \A q \in Automaton[bad.op].states : x[2][q] # -1 =>
              /\ <<x[1], q>> \in QuietPairs(bad, N, move)
              /\ x[2][q] + Cost(bad, N, move, <<x[1], q>>) <= Cardinality(Pairs(bad, N))}

LEMMA AffordableStart ==
    ASSUME NEW g \in GameType, NEW bad \in LtlType, NEW plr, NEW N, NEW move,
           IsWinningTactic(g, bad, plr, N, move), AcceptsOnly(bad.op),
           IsFiniteSet(Pairs(bad, N)), NEW k \in 0 .. MaxK, k # 0
    PROVE  WinningStates(g, Negation(bad), plr)
               \subseteq Beginning(g, bad, k, Affordable(g, bad, k, N, move))
<1>. DEFINE B == Automaton[bad.op]
<1>. SUFFICES ASSUME NEW s \in WinningStates(g, Negation(bad), plr)
              PROVE  s \in Beginning(g, bad, k, Affordable(g, bad, k, N, move))
  OBVIOUS
<1>. DEFINE v == First(bad, k, s)
            x == <<s, v>>
<1>1. s \in N /\ s \in Invar(g)
  BY DEF IsWinningTactic, IsTactic
<1>2. v \in CountersOf(bad, k) /\ IsAutomaton(B)
  BY BadParts
<1>3. x \in Counting(g, bad, k) /\ x[1] = s /\ x[2] = v
  BY <1>1, <1>2 DEF Counting
<1>. HIDE DEF x
<1>4. ASSUME NEW q \in B.states, v[q] # -1
      PROVE  /\ <<s, q>> \in QuietPairs(bad, N, move)
             /\ v[q] + Cost(bad, N, move, <<s, q>>) <= Cardinality(Pairs(bad, N))
  <2>1. q \in B.initial /\ Holds(B, s \in bad.p, q) /\ v[q] = InitValue(B, k, q)
    BY <1>4 DEF First, FirstCount
  <2>. DEFINE z == <<s, q>>
  <2>2. z \in QuietPairs(bad, N, move)
    BY <2>1, BeginsQuiet
  <2>3. z \in Pairs(bad, N) /\ z[2] = q
    BY <1>1 DEF Pairs
  <2>. HIDE DEF z
  <2>4. z \in FairPairs(bad, N) <=> q \in B.fair
    BY <2>3 DEF FairPairs
  <2>5. /\ Cost(bad, N, move, z) \in Nat
        /\ Cost(bad, N, move, z) <= Cardinality(Pairs(bad, N))
        /\ z \in FairPairs(bad, N) => Cost(bad, N, move, z) + 1 <= Cardinality(Pairs(bad, N))
    BY <2>2, WorthIs DEF QuietPairs, Cost
  <2>6. v[q] = IF q \in B.fair THEN 1 ELSE 0
    BY <2>1 DEF InitValue
  <2>7. Cardinality(Pairs(bad, N)) \in Nat
    BY FS_CardinalityType
  <2>8. v[q] + Cost(bad, N, move, z) <= Cardinality(Pairs(bad, N))
    <3>. HIDE DEF v
    <3>. QED  BY <2>4, <2>5, <2>6, <2>7
  <2>. QED  BY <2>2, <2>8 DEF z
<1>5. x \in Affordable(g, bad, k, N, move)
  <2>. HIDE DEF v
  <2>. QED  BY <1>1, <1>3, <1>4 DEF Affordable
<1>. QED  BY <1>1, <1>5 DEF Beginning, x

LEMMA AffordableIsSafe ==
    ASSUME NEW g \in GameType, NEW bad \in LtlType, NEW plr \in Players, NEW N, NEW move,
           IsTactic(g, N, move, plr),
           IsFiniteSet(Pairs(bad, N)), NEW k \in 0 .. MaxK, Cardinality(Pairs(bad, N)) < k
    PROVE  IsSafe(g, bad, k, Affordable(g, bad, k, N, move), plr)
<1>. DEFINE B == Automaton[bad.op]
            A == Affordable(g, bad, k, N, move)
            P == Pairs(bad, N)
            K == Cardinality(P)
            Quiets == QuietPairs(bad, N, move)
            cost(z) == Cost(bad, N, move, z)
<1>0. K \in Nat /\ k \in Nat /\ IsAutomaton(B)
  BY BadParts, FS_CardinalityType
<1>1. \A z \in Quiets : /\ cost(z) \in Nat
                        /\ \A y \in P : <<z, y>> \in Joint(bad, N, move) =>
                              /\ y \in Quiets /\ cost(y) \in Nat /\ cost(y) <= cost(z)
                              /\ y \in FairPairs(bad, N) => cost(y) + 1 <= cost(z)
  BY WorthIs DEF QuietPairs, Cost
<1>2. A \subseteq Counting(g, bad, k)
      /\ \A x \in A : /\ x[1] \in N /\ x[2] \in Counters(B, k)
                      /\ \A q \in B.states : x[2][q] # -1 =>
                            /\ <<x[1], q>> \in Quiets
                            /\ x[2][q] + cost(<<x[1], q>>) <= K
  BY DEF Affordable, Counting, CountersOf
<1>. HIDE DEF A, K, Quiets, cost, P
<1>3. ASSUME NEW x \in A PROVE ~Exceeded(B, k, x[2])
  <2>. SUFFICES ASSUME NEW q \in B.fair, x[2][q] = k PROVE FALSE
    BY DEF Exceeded
  <2>1. q \in B.states
    BY <1>0 DEF IsAutomaton
  <2>2. cost(<<x[1], q>>) \in Nat /\ x[2][q] + cost(<<x[1], q>>) <= K
    BY <1>0, <1>1, <1>2, <2>1
  <2>. QED  BY <1>0, <2>2 DEF K, P
<1>4. ASSUME NEW x \in A, NEW q1 \in Moves1(g, x[1]), NEW q2 \in Moves2(g, x[1], q1),
             <<q1, q2>> \in move[x[1]]
      PROVE  After(bad, k, x[2], q1, q2) \in A
  <2>. DEFINE y == After(bad, k, x[2], q1, q2)
              t == <<q1, q2>>
              v == x[2]
              u == Counted(bad, k, v, t)
  <2>1. y \in Counting(g, bad, k)
    BY <1>2, AfterTyped
  <2>2. y[1] = t /\ y[2] = u
    BY DEF After
  <2>3. t \in N
    BY <1>2, <1>4 DEF IsTactic
  <2>4. u = CountOn(B, k, t \in bad.p, v) /\ v \in Counters(B, k)
    BY <1>2 DEF Counted
  <2>. HIDE DEF y, t, u, v, B
  <2>5. ASSUME NEW r \in B.states, u[r] # -1
        PROVE  <<t, r>> \in Quiets /\ u[r] + cost(<<t, r>>) <= K
    <3>1. u[r] = Prolonged(B, k, t \in bad.p, v, r)
      BY <2>4 DEF CountOn
    <3>2. Holds(B, t \in bad.p, r) /\ Counts(B, v, r) # {}
      BY <1>0, <2>4, <2>5, <3>1, ProlongedIs
    <3>3. PICK m \in Counts(B, v, r) : IsGreatest(m, Counts(B, v, r))
      BY <1>0, <2>4, <3>2, CountsType, GreatestExists
    <3>4. u[r] = IF r \in B.fair /\ m < k THEN m + 1 ELSE m
      BY <1>0, <2>4, <3>1, <3>2, <3>3, ProlongedIs
    <3>5. PICK q \in B.states : m = v[q] /\ <<q, r>> \in B.trans /\ v[q] # -1
      BY DEF Counts, Incoming
    <3>6. m \in 0 .. k
      BY <1>0, <2>4, CountsType
    <3>. DEFINE z == <<x[1], q>>
                z1 == <<t, r>>
    <3>7. z \in Quiets /\ m + cost(z) <= K
      BY <1>2, <3>5 DEF v
    <3>8. <<z, z1>> \in Joint(bad, N, move) /\ z1 \in P /\ z1[2] = r
      <4>1. x[1] \in N /\ t \in move[x[1]]
        BY <1>2, <1>4 DEF t
      <4>2. z \in Pairs(bad, N) /\ z1 \in Pairs(bad, N)
        BY <2>3, <4>1 DEF Pairs, B
      <4>. QED  BY <3>2, <3>5, <4>1, <4>2 DEF Joint, P, B
    <3>. HIDE DEF z, z1
    <3>9. z1 \in FairPairs(bad, N) <=> r \in B.fair
      BY <3>8 DEF FairPairs, P, B
    <3>10. /\ z1 \in Quiets /\ cost(z1) \in Nat /\ cost(z) \in Nat /\ cost(z1) <= cost(z)
           /\ r \in B.fair => cost(z1) + 1 <= cost(z)
      BY <1>1, <3>7, <3>8, <3>9
    <3>11. u[r] + cost(z1) <= K
      BY <1>0, <3>4, <3>6, <3>7, <3>10
    <3>. QED  BY <3>10, <3>11 DEF z1
  <2>. QED  BY <2>1, <2>2, <2>3, <2>5 DEF A, Affordable, Quiets, cost, K, P, B, y
<1>5. ASSUME NEW x \in A PROVE Forces(g, bad, k, x, A, plr)
  <2>1. x[1] \in CanForce(g, move[x[1]], plr)
    BY <1>2 DEF IsTactic
  <2>2. CASE plr = 1
    <3>1. PICK q1 \in Moves1(g, x[1]) : \A q2 \in Moves2(g, x[1], q1) : <<q1, q2>> \in move[x[1]]
      BY <2>1, <2>2 DEF CanForce
    <3>. QED  BY <1>4, <2>2, <3>1 DEF Forces
  <2>3. CASE plr # 1
    <3>1. \A q1 \in Moves1(g, x[1]) : \E q2 \in Moves2(g, x[1], q1) : <<q1, q2>> \in move[x[1]]
      BY <2>1, <2>3 DEF CanForce
    <3>. QED  BY <1>4, <2>3, <3>1 DEF Forces
  <2>. QED  BY <2>2, <2>3
<1>. QED  BY <1>2, <1>3, <1>5 DEF IsSafe, A, B

(* Winning the game itself avoids a bound that exceeds the number of       *)
(* states of the game times those of the automaton.                        *)
LEMMA WinsAvoid ==
    ASSUME IsFinite, NEW g \in GameType, NEW bad \in LtlType, AcceptsOnly(bad.op),
           NEW plr \in Players, NEW k \in 0 .. MaxK,
           Cardinality(States) * Cardinality(Automaton[bad.op].states) < k,
           HasStrategy(g, Negation(bad), plr)
    PROVE  AvoidsBound(g, bad, k, plr)
<1>. DEFINE S == Automaton[bad.op].states
<1>0. IsFiniteSet(States) /\ IsFiniteSet(S)
  BY FiniteParts DEF LtlType
<1>1. PICK N, move : IsWinningTactic(g, bad, plr, N, move)
  BY <1>0, TacticExists
<1>2. IsFiniteSet(Pairs(bad, N)) /\ Cardinality(Pairs(bad, N)) < k /\ k # 0
  <2>1. N \subseteq States
    BY <1>1, TypedInvar DEF IsWinningTactic, IsTactic
  <2>. HIDE DEF S
  <2>. DEFINE T == States
              Q == N \X S
  <2>2. Q \in SUBSET (T \X S)
    BY <2>1
  <2>3. IsFiniteSet(T \X S) /\ Cardinality(T \X S) = Cardinality(T) * Cardinality(S)
    BY <1>0, FS_Product
  <2>. HIDE DEF Q, T
  <2>4. IsFiniteSet(Q) /\ Cardinality(Q) <= Cardinality(T \X S)
    BY <2>2, <2>3, FS_Subset
  <2>5. Cardinality(Q) \in Nat /\ Cardinality(T \X S) \in Nat
    BY <2>3, <2>4, FS_CardinalityType
  <2>6. Cardinality(T \X S) < k
    BY <2>3 DEF T, S
  <2>7. IsFiniteSet(Q) /\ Cardinality(Q) < k /\ k # 0
    BY <2>4, <2>5, <2>6
  <2>. QED  BY <2>7 DEF Q, S, Pairs
<1>. DEFINE A == Affordable(g, bad, k, N, move)
<1>3. IsSafe(g, bad, k, A, plr)
  BY <1>1, <1>2, AffordableIsSafe DEF IsWinningTactic
<1>4. WinningStates(g, Negation(bad), plr) \subseteq Beginning(g, bad, k, A)
  BY <1>1, <1>2, AffordableStart
<1>. HIDE DEF A
<1>5. StartsIn(g, Beginning(g, bad, k, A), plr, "N")
  <2>1. "N" \in Quantifiers
    BY DEF Quantifiers
  <2>. QED  BY <1>4, <2>1, StartMonotone DEF HasStrategy
<1>. QED  BY <1>0, <1>3, <1>5, AvoidsIs

-----------------------------------------------------------------------------
(* The loop over the bounds, played for both players.                      *)

(* The avoidance game that the player plays for this bound is lost.        *)
GoalLost(plr, k) == ~Check[<<game, Bad(formula, plr = specPlayer), plr, k>>]

LostByBoth(k) == \A plr \in Players : GoalLost(plr, k)

RangeInv ==
    /\ swapped \in BOOLEAN
    /\ args.kmin \in Nat /\ args.kmin <= args.kmax
    /\ pc = "loop" =>
          /\ args.kmin <= currK /\ currK <= args.kmax + 1
          /\ swapped => currK <= args.kmax
    /\ InIteration \/ pc = "iterated" => args.kmin <= currK /\ currK <= args.kmax

LostInv ==
    args.w = BOTH =>
        /\ pc = "loop" /\ ~swapped /\ args.kmin < currK => LostByBoth(currK - 1)
        /\ pc = "loop" /\ swapped => GoalLost(currPlayer, currK)
        /\ InIteration /\ swapped => GoalLost(Opponent(currPlayer), currK)
        /\ pc = "iterated" /\ ~Decided =>
              /\ GoalLost(currPlayer, currK)
              /\ swapped => GoalLost(Opponent(currPlayer), currK)
        /\ pc = "report" /\ ~Decided => LostByBoth(args.kmax)

LostSoFar == RangeInv /\ LostInv

LEMMA TwoPlayers ==
    ASSUME NEW plr \in Players, NEW k, GoalLost(plr, k), GoalLost(Opponent(plr), k)
    PROVE  LostByBoth(k)
<1>1. \A p \in Players : p = plr \/ p = Opponent(plr)
  BY DEF Players, Opponent
<1>. QED  BY <1>1 DEF LostByBoth

LEMMA LostInit == Init => LostSoFar
<1>. SUFFICES ASSUME Init PROVE LostSoFar
  OBVIOUS
<1>1. pc = "idle" /\ swapped = FALSE /\ args.kmin = 0 /\ args.kmax = 0
  BY DEF Init
<1>2. RangeInv
  <2>1. args.kmin \in Nat /\ args.kmin <= args.kmax
    BY <1>1
  <2>2. swapped \in BOOLEAN
    BY <1>1
  <2>3. pc # "loop" /\ pc # "iterated" /\ ~InIteration
    BY <1>1 DEF InIteration
  <2>. QED  BY <2>1, <2>2, <2>3 DEF RangeInv
<1>3. LostInv
  BY <1>1 DEF LostInv, InIteration
<1>. QED  BY <1>2, <1>3 DEF LostSoFar

LEMMA LostStart == ASSUME Start PROVE LostSoFar'
<1>1. PICK b \in Bounds, w \in Who : args' = [kmin |-> b[1], kmax |-> b[2], w |-> w]
  BY DEF Start
<1>2. b[1] \in Nat /\ b[2] \in Nat /\ b[1] <= b[2]
  BY SynthesisAssumption
<1>3. /\ args'.kmin = b[1] /\ args'.kmax = b[2] /\ currK' = b[1]
      /\ swapped' = FALSE /\ pc' = "loop"
  BY <1>1 DEF Start
<1>4. RangeInv'
  <2>1. args'.kmin \in Nat /\ args'.kmin <= args'.kmax
    BY <1>2, <1>3
  <2>2. args'.kmin <= currK' /\ currK' <= args'.kmax + 1
    BY <1>2, <1>3
  <2>3. swapped' \in BOOLEAN /\ ~swapped'
    BY <1>3
  <2>4. pc' = "loop" /\ ~InIteration'
    BY <1>3 DEF InIteration
  <2>. QED  BY <2>1, <2>2, <2>3, <2>4 DEF RangeInv
<1>5. LostInv'
  <2>1. ~(args'.kmin < currK')
    BY <1>2, <1>3
  <2>. QED  BY <1>3, <2>1 DEF LostInv, InIteration
<1>. QED  BY <1>4, <1>5 DEF LostSoFar

LEMMA LostCreate == ASSUME AskedInv, SynthesisInv, LostSoFar, CreateIteration PROVE LostSoFar'
<1>1. /\ pc = "loop" /\ pc' = "automaton" /\ currK <= args.kmax
      /\ args' = args /\ currK' = currK /\ swapped' = swapped
      /\ game' = game /\ formula' = formula /\ specPlayer' = specPlayer
  BY DEF CreateIteration, prop
<1>2. RangeInv'
  BY <1>1 DEF LostSoFar, RangeInv, InIteration
<1>3. LostInv'
  <2>. SUFFICES ASSUME args.w = BOTH, swapped PROVE GoalLost(Opponent(currPlayer), currK)'
    BY <1>1 DEF LostInv, InIteration
  <2>1. GoalLost(currPlayer, currK)
    BY <1>1 DEF LostSoFar, LostInv
  <2>2. currPlayer' = Opponent(currPlayer)
    BY DEF CreateIteration
  <2>3. Opponent(Opponent(currPlayer)) = currPlayer
    BY DEF AskedInv, Opponent, Players
  <2>. QED  BY <1>1, <2>1, <2>2, <2>3 DEF GoalLost
<1>. QED  BY <1>2, <1>3 DEF LostSoFar

LEMMA LostBuilding ==
    ASSUME LostSoFar, ConstructBa \/ ConstructMonitor \/ ConstructProduct
    PROVE  LostSoFar'
<1>1. /\ args' = args /\ currK' = currK /\ swapped' = swapped /\ currPlayer' = currPlayer
      /\ game' = game /\ formula' = formula /\ specPlayer' = specPlayer
      /\ InIteration /\ pc' \in {"monitor", "product", "check", "idle"}
  BY DEF ConstructBa, ConstructMonitor, ConstructProduct, prop, InIteration
<1>2. RangeInv'
  BY <1>1 DEF LostSoFar, RangeInv, InIteration
<1>3. LostInv'
  BY <1>1 DEF LostSoFar, LostInv, InIteration, GoalLost
<1>. QED  BY <1>2, <1>3 DEF LostSoFar

LEMMA LostCheck == ASSUME SynthesisInv, LostSoFar, CheckGoal PROVE LostSoFar'
<1>1. /\ args' = args /\ currK' = currK /\ swapped' = swapped /\ currPlayer' = currPlayer
      /\ game' = game /\ formula' = formula /\ specPlayer' = specPlayer
      /\ InIteration /\ pc' = "iterated"
  BY DEF CheckGoal, prop, InIteration
<1>2. RangeInv'
  BY <1>1 DEF LostSoFar, RangeInv, InIteration
<1>3. LostInv'
  <2>. SUFFICES ASSUME args.w = BOTH, ~Decided'
                PROVE  /\ GoalLost(currPlayer, currK)
                       /\ swapped => GoalLost(Opponent(currPlayer), currK)
    BY <1>1 DEF LostInv, InIteration, GoalLost
  <2>1. GoalLost(currPlayer, currK)
    BY DEF CheckGoal, Decided, GoalLost
  <2>2. swapped => GoalLost(Opponent(currPlayer), currK)
    BY <1>1 DEF LostSoFar, LostInv
  <2>. QED  BY <2>1, <2>2
<1>. QED  BY <1>2, <1>3 DEF LostSoFar

LEMMA LostNext == ASSUME AskedInv, SynthesisInv, LostSoFar, NextIteration PROVE LostSoFar'
<1>1. /\ args' = args /\ currPlayer' = currPlayer /\ status' = status /\ pc = "iterated"
      /\ game' = game /\ formula' = formula /\ specPlayer' = specPlayer
  BY DEF NextIteration, prop
<1>2. CASE Decided
  <2>1. pc' = "report" /\ currK' = currK /\ swapped' = swapped /\ Decided'
    BY <1>1, <1>2 DEF NextIteration, Decided
  <2>. QED  BY <1>1, <2>1 DEF LostSoFar, RangeInv, LostInv, InIteration
<1>3. CASE ~Decided
  <2>1. /\ pc' = "loop" /\ swapped' = (args.w = BOTH /\ ~swapped)
        /\ currK' = IF swapped' THEN currK ELSE currK + 1
    BY <1>3 DEF NextIteration
  <2>2. /\ args.kmin <= currK /\ currK <= args.kmax /\ currK \in Nat
        /\ args.kmin \in Nat /\ args.kmax \in Nat /\ swapped \in BOOLEAN
    BY <1>1, BoundsParts DEF SynthesisInv, BoundInv, LostSoFar, RangeInv
  <2>3. RangeInv'
    BY <1>1, <2>1, <2>2 DEF RangeInv, InIteration
  <2>4. ASSUME args.w = BOTH
        PROVE  /\ GoalLost(currPlayer, currK)
               /\ swapped => LostByBoth(currK)
    BY <1>1, <1>3, <2>4, TwoPlayers DEF LostSoFar, LostInv, AskedInv
  <2>5. LostInv'
    <3>. SUFFICES ASSUME args.w = BOTH
                  PROVE  /\ ~swapped' => LostByBoth(currK - 1)'
                         /\ swapped' => GoalLost(currPlayer, currK)'
      BY <1>1, <2>1 DEF LostInv, InIteration
    <3>1. CASE swapped
      <4>1. ~swapped' /\ currK' - 1 = currK
        <5>1. ~swapped'
          BY <2>1, <3>1
        <5>2. currK' = currK + 1
          BY <2>1, <5>1
        <5>. QED  BY <2>2, <5>1, <5>2
      <4>2. LostByBoth(currK - 1)'
        BY <1>1, <2>4, <3>1, <4>1 DEF LostByBoth, GoalLost
      <4>. QED  BY <4>1, <4>2
    <3>2. CASE ~swapped
      <4>1. swapped' /\ currK' = currK
        BY <2>1, <3>2
      <4>2. GoalLost(currPlayer, currK)'
        BY <1>1, <2>4, <4>1 DEF GoalLost
      <4>. QED  BY <4>1, <4>2
    <3>. QED  BY <3>1, <3>2
  <2>. QED  BY <2>3, <2>5 DEF LostSoFar
<1>. QED  BY <1>2, <1>3

LEMMA LostLeave == ASSUME SynthesisInv, LostSoFar, LeaveLoop PROVE LostSoFar'
<1>1. /\ args' = args /\ currK' = currK /\ swapped' = swapped /\ currPlayer' = currPlayer
      /\ game' = game /\ formula' = formula /\ specPlayer' = specPlayer
      /\ pc = "loop" /\ pc' = "report" /\ currK > args.kmax
  BY DEF LeaveLoop, prop
<1>2. /\ args.kmin \in Nat /\ args.kmax \in Nat /\ currK \in Nat
      /\ args.kmin <= args.kmax /\ currK <= args.kmax + 1
      /\ swapped => currK <= args.kmax
  BY <1>1, BoundsParts DEF SynthesisInv, BoundInv, LostSoFar, RangeInv
<1>3. ~swapped /\ args.kmin < currK /\ currK - 1 = args.kmax
  BY <1>1, <1>2
<1>4. RangeInv'
  BY <1>1 DEF LostSoFar, RangeInv, InIteration
<1>5. args.w = BOTH => LostByBoth(args.kmax)
  BY <1>1, <1>3 DEF LostSoFar, LostInv
<1>6. LostInv'
  BY <1>1, <1>5 DEF LostInv, InIteration, LostByBoth, GoalLost
<1>. QED  BY <1>4, <1>6 DEF LostSoFar

LEMMA LostFinish == ASSUME LostSoFar, Finish PROVE LostSoFar'
<1>1. /\ args' = args /\ currK' = currK /\ swapped' = swapped
      /\ pc' \in {"idle", "aborted"}
  BY DEF Finish
<1>. QED  BY <1>1 DEF LostSoFar, RangeInv, LostInv, InIteration

(* Once the loop has passed a bound both players have lost their games for *)
(* it, when it is played for both.                                         *)
LEMMA LostInvariant == Spec => []LostSoFar
<1>1. AskedInv /\ SynthesisInv /\ LostSoFar /\ [Next]_vars => LostSoFar'
  <2>. SUFFICES ASSUME AskedInv, SynthesisInv, LostSoFar, [Next]_vars PROVE LostSoFar'
    OBVIOUS
  <2>1. CASE Start
    BY <2>1, LostStart
  <2>2. CASE CreateIteration
    BY <2>2, LostCreate
  <2>3. CASE ConstructBa \/ ConstructMonitor \/ ConstructProduct
    BY <2>3, LostBuilding
  <2>4. CASE CheckGoal
    BY <2>4, LostCheck
  <2>5. CASE NextIteration
    BY <2>5, LostNext
  <2>6. CASE LeaveLoop
    BY <2>6, LostLeave
  <2>7. CASE Finish
    BY <2>7, LostFinish
  <2>8. CASE UNCHANGED vars
    BY <2>8 DEF vars, prop, history, LostSoFar, RangeInv, LostInv, InIteration, Decided,
                LostByBoth, GoalLost
  <2>. QED  BY <2>1, <2>2, <2>3, <2>4, <2>5, <2>6, <2>7, <2>8 DEF Next, Iteration
<1>. QED  BY <1>1, LostInit, AskedInvariant, SynthesisInvariant, PTL DEF Spec

(* Played for both players, the loop decides the property once its last    *)
(* bound exceeds the number of states of the game times those of the       *)
(* automaton ("complete only for GAME_WHO_BOTH"), provided that the        *)
(* automata Wring gives accept no word that is not one of their formula.   *)
THEOREM LoopIsComplete ==
    ASSUME IsFinite, \A op \in Ops : AcceptsOnly(op),
           \A op \in Ops : Cardinality(States) * Cardinality(Automaton[op].states) < Enough
    PROVE  Spec => []CompleteForBoth
<1>1. ASSUME AskedInv, SynthesisInv, LostSoFar PROVE CompleteForBoth
  <2>. SUFFICES ASSUME pc = "report", args.w = BOTH, args.kmax >= Enough, ~Decided
                PROVE  FALSE
    BY DEF CompleteForBoth
  <2>. DEFINE k == args.kmax
              other == Opponent(specPlayer)
  <2>1. LostByBoth(k)
    BY <1>1 DEF LostSoFar, LostInv
  <2>2. game \in Games /\ formula \in Formulas /\ specPlayer \in Players /\ other \in Players
    BY <1>1 DEF AskedInv, Opponent, Players
  <2>3. k \in 0 .. MaxK /\ Enough \in Nat /\ Enough <= k
    BY <1>1, BoundsParts, SynthesisAssumption DEF SynthesisInv, BoundInv
  <2>4. game \in GameType /\ formula \in LtlType
    BY <2>2, SynthesisAssumption, GamesAssumption
  <2>. HIDE DEF k, other
  <2>5. ASSUME NEW plr \in Players, NEW bad \in Formulas, bad \in LtlType,
               bad = Bad(formula, plr = specPlayer)
        PROVE  ~HasStrategy(game, Negation(bad), plr)
    <3>. DEFINE mine == plr = specPlayer
    <3>1. mine \in BOOLEAN
      OBVIOUS
    <3>2. ~Check[<<game, Bad(formula, mine), plr, k>>]
      BY <2>1 DEF LostByBoth, GoalLost
    <3>3. bad = Bad(formula, mine)
      BY <2>5
    <3>. HIDE DEF mine
    <3>4. ~AvoidsBound(game, bad, k, plr)
      BY <2>2, <2>3, <3>1, <3>2, <3>3, CheckIs
    <3>5. Cardinality(States) * Cardinality(Automaton[bad.op].states) < k
      <4>. DEFINE c == Cardinality(States) * Cardinality(Automaton[bad.op].states)
      <4>1. bad.op \in Ops
        BY <2>5 DEF LtlType
      <4>2. c < Enough /\ c \in Int
        <5>1. Cardinality(States) \in Nat /\ Cardinality(Automaton[bad.op].states) \in Nat
          BY <4>1, FiniteParts, FS_CardinalityType
        <5>. HIDE DEF k
        <5>. QED  BY <4>1, <5>1
      <4>. HIDE DEF c
      <4>3. c < k
        BY <2>3, <4>2
      <4>. QED  BY <4>3 DEF c
    <3>6. bad.op \in Ops
      BY <2>5 DEF LtlType
    <3>. QED  BY <2>3, <2>4, <2>5, <3>4, <3>5, <3>6, WinsAvoid
  <2>6. ~HasStrategy(game, formula, specPlayer)
    <3>1. Negation(formula) \in Formulas /\ Negation(formula) \in LtlType
      BY <2>2, SynthesisAssumption
    <3>2. Negation(formula) = Bad(formula, specPlayer = specPlayer)
      BY DEF Bad
    <3>3. Negation(Negation(formula)) = formula
      BY <2>4, NegationTwice
    <3>4. ~HasStrategy(game, Negation(Negation(formula)), specPlayer)
      BY <2>2, <2>5, <3>1, <3>2
    <3>. QED  BY <3>3, <3>4
  <2>7. ~HasStrategy(game, Negation(formula), other)
    <3>1. formula = Bad(formula, other = specPlayer)
      BY <2>2 DEF Bad, other, Opponent, Players
    <3>. QED  BY <2>2, <2>4, <2>5, <3>1
  <2>. QED  BY <2>2, <2>4, <2>6, <2>7, FiniteParts, EitherWins DEF other
<1>. QED  BY <1>1, AskedInvariant, SynthesisInvariant, LostInvariant, PTL

-----------------------------------------------------------------------------
(* The automata Wring gives for the operators accept exactly their words.  *)

AsWring == Ltl2Gba = AutomataOfWring

(* A run of an automaton, with its parts written out.                      *)
Runs(states, initial, trans, fair, label, w, r) ==
    /\ \A n \in Nat : r[n] \in states /\ w[n] \in label[r[n]]
    /\ r[0] \in initial
    /\ \A n \in Nat : <<r[n], r[n + 1]>> \in trans
    /\ \A n \in Nat : \E m \in Nat : n <= m /\ r[m] \in fair

LEMMA RunIs ==
    ASSUME NEW states, NEW initial, NEW trans, NEW fair, NEW label, NEW w, NEW r,
           NEW op \in Ops,
           Ltl2Gba[op] = [states |-> states, initial |-> initial, trans |-> trans,
                          fair |-> fair, label |-> label]
    PROVE  IsRun(Automaton[op], w, r)
               <=> /\ r \in [Nat -> states]
                   /\ Runs(states, initial, trans,
                           IF fair = {} THEN states ELSE fair, label, w, r)
<1>. DEFINE B == Ltl2Gba[op]
            A == Automaton[op]
<1>1. A = WithFairness(B)
  BY DEF Automaton
<1>2. /\ A.states = states /\ A.initial = initial /\ A.trans = trans /\ A.label = label
      /\ A.fair = IF fair = {} THEN states ELSE fair
  BY <1>1 DEF WithFairness
<1>. HIDE DEF A
<1>3. ASSUME r \in [Nat -> states] PROVE \A n \in Nat : r[n] \in states
  BY <1>3
<1>4. ASSUME IsRun(A, w, r)
      PROVE  /\ r \in [Nat -> states]
             /\ Runs(states, initial, trans, IF fair = {} THEN states ELSE fair, label, w, r)
  <2>1. r \in [Nat -> states]
    BY <1>2, <1>4 DEF IsRun
  <2>. QED  BY <1>2, <1>3, <1>4, <2>1 DEF IsRun, Runs, Holds
<1>5. ASSUME r \in [Nat -> states],
             Runs(states, initial, trans, IF fair = {} THEN states ELSE fair, label, w, r)
      PROVE  IsRun(A, w, r)
  BY <1>2, <1>5 DEF IsRun, Runs, Holds
<1>. QED  BY <1>4, <1>5 DEF A

LEMMA RunX ==
    ASSUME AsWring, NEW w, NEW r
    PROVE  IsRun(Automaton["X"], w, r)
               <=> /\ r \in [Nat -> {"s1", "s2", "s3"}]
                   /\ Runs({"s1", "s2", "s3"}, {"s1"},
                           {<<"s1", "s2">>, <<"s2", "s3">>, <<"s3", "s3">>},
                           {"s1", "s2", "s3"},
                           [s1 |-> BOOLEAN, s2 |-> {TRUE}, s3 |-> BOOLEAN], w, r)
<1>. DEFINE S == {"s1", "s2", "s3"}
            T == {<<"s1", "s2">>, <<"s2", "s3">>, <<"s3", "s3">>}
            L == [s1 |-> BOOLEAN, s2 |-> {TRUE}, s3 |-> BOOLEAN]
<1>1. "X" \in Ops
  BY DEF Ops
<1>2. Ltl2Gba["X"] = [states |-> S, initial |-> {"s1"}, trans |-> T, fair |-> {}, label |-> L]
  BY DEF AsWring, AutomataOfWring, AnyLetter
<1>. HIDE DEF S, T, L
<1>3. IsRun(Automaton["X"], w, r)
          <=> r \in [Nat -> S] /\ Runs(S, {"s1"}, T, IF {} = {} THEN S ELSE {}, L, w, r)
  BY <1>1, <1>2, RunIs
<1>4. (IF {} = {} THEN S ELSE {}) = S
  OBVIOUS
<1>. QED  BY <1>3, <1>4 DEF S, T, L

LEMMA RunG ==
    ASSUME AsWring, NEW w, NEW r
    PROVE  IsRun(Automaton["G"], w, r)
               <=> /\ r \in [Nat -> {"s1"}]
                   /\ Runs({"s1"}, {"s1"}, {<<"s1", "s1">>}, {"s1"}, [s1 |-> {TRUE}], w, r)
<1>. DEFINE S == {"s1"}
            T == {<<"s1", "s1">>}
            L == [s1 |-> {TRUE}]
<1>1. "G" \in Ops
  BY DEF Ops
<1>2. Ltl2Gba["G"] = [states |-> S, initial |-> {"s1"}, trans |-> T, fair |-> {}, label |-> L]
  BY DEF AsWring, AutomataOfWring, AnyLetter
<1>. HIDE DEF S, T, L
<1>3. IsRun(Automaton["G"], w, r)
          <=> r \in [Nat -> S] /\ Runs(S, {"s1"}, T, IF {} = {} THEN S ELSE {}, L, w, r)
  BY <1>1, <1>2, RunIs
<1>4. (IF {} = {} THEN S ELSE {}) = S
  OBVIOUS
<1>. QED  BY <1>3, <1>4 DEF S, T, L

LEMMA RunF ==
    ASSUME AsWring, NEW w, NEW r
    PROVE  IsRun(Automaton["F"], w, r)
               <=> /\ r \in [Nat -> {"s1", "s2", "s3"}]
                   /\ Runs({"s1", "s2", "s3"}, {"s1", "s2"},
                           {<<"s1", "s1">>, <<"s1", "s2">>, <<"s2", "s3">>, <<"s3", "s3">>},
                           {"s2", "s3"},
                           [s1 |-> BOOLEAN, s2 |-> {TRUE}, s3 |-> BOOLEAN], w, r)
<1>. DEFINE S == {"s1", "s2", "s3"}
            I == {"s1", "s2"}
            T == {<<"s1", "s1">>, <<"s1", "s2">>, <<"s2", "s3">>, <<"s3", "s3">>}
            F == {"s2", "s3"}
            L == [s1 |-> BOOLEAN, s2 |-> {TRUE}, s3 |-> BOOLEAN]
<1>1. "F" \in Ops
  BY DEF Ops
<1>2. Ltl2Gba["F"] = [states |-> S, initial |-> I, trans |-> T, fair |-> F, label |-> L]
  BY DEF AsWring, AutomataOfWring, AnyLetter
<1>3. F # {}
  OBVIOUS
<1>. HIDE DEF S, I, T, F, L
<1>4. IsRun(Automaton["F"], w, r)
          <=> r \in [Nat -> S] /\ Runs(S, I, T, IF F = {} THEN S ELSE F, L, w, r)
  BY <1>1, <1>2, RunIs
<1>. QED  BY <1>3, <1>4 DEF S, I, T, F, L

LEMMA RunGF ==
    ASSUME AsWring, NEW w, NEW r
    PROVE  IsRun(Automaton["GF"], w, r)
               <=> /\ r \in [Nat -> {"s1", "s2"}]
                   /\ Runs({"s1", "s2"}, {"s1", "s2"}, {"s1", "s2"} \X {"s1", "s2"}, {"s2"},
                           [s1 |-> BOOLEAN, s2 |-> {TRUE}], w, r)
<1>. DEFINE S == {"s1", "s2"}
            T == {"s1", "s2"} \X {"s1", "s2"}
            F == {"s2"}
            L == [s1 |-> BOOLEAN, s2 |-> {TRUE}]
<1>1. "GF" \in Ops
  BY DEF Ops
<1>2. Ltl2Gba["GF"] = [states |-> S, initial |-> S, trans |-> T, fair |-> F, label |-> L]
  BY DEF AsWring, AutomataOfWring, AnyLetter
<1>3. F # {}
  OBVIOUS
<1>. HIDE DEF S, T, F, L
<1>4. IsRun(Automaton["GF"], w, r)
          <=> r \in [Nat -> S] /\ Runs(S, S, T, IF F = {} THEN S ELSE F, L, w, r)
  BY <1>1, <1>2, RunIs
<1>. QED  BY <1>3, <1>4 DEF S, T, F, L

LEMMA RunFG ==
    ASSUME AsWring, NEW w, NEW r
    PROVE  IsRun(Automaton["FG"], w, r)
               <=> /\ r \in [Nat -> {"s1", "s2"}]
                   /\ Runs({"s1", "s2"}, {"s1", "s2"},
                           {<<"s1", "s1">>, <<"s1", "s2">>, <<"s2", "s2">>}, {"s2"},
                           [s1 |-> BOOLEAN, s2 |-> {TRUE}], w, r)
<1>. DEFINE S == {"s1", "s2"}
            T == {<<"s1", "s1">>, <<"s1", "s2">>, <<"s2", "s2">>}
            F == {"s2"}
            L == [s1 |-> BOOLEAN, s2 |-> {TRUE}]
<1>1. "FG" \in Ops
  BY DEF Ops
<1>2. Ltl2Gba["FG"] = [states |-> S, initial |-> S, trans |-> T, fair |-> F, label |-> L]
  BY DEF AsWring, AutomataOfWring, AnyLetter
<1>3. F # {}
  OBVIOUS
<1>. HIDE DEF S, T, F, L
<1>4. IsRun(Automaton["FG"], w, r)
          <=> r \in [Nat -> S] /\ Runs(S, S, T, IF F = {} THEN S ELSE F, L, w, r)
  BY <1>1, <1>2, RunIs
<1>. QED  BY <1>3, <1>4 DEF S, T, F, L

LEMMA OwnOfX == ASSUME AsWring PROVE Recognizes("X") /\ AcceptsOnly("X")
<1>1. Recognizes("X")
  <2>. SUFFICES ASSUME NEW w \in Words, Satisfies("X", w)
                PROVE  \E r : IsRun(Automaton["X"], w, r)
    BY DEF Recognizes
  <2>. DEFINE r == [n \in Nat |-> IF n = 0 THEN "s1" ELSE IF n = 1 THEN "s2" ELSE "s3"]
              L == [s1 |-> BOOLEAN, s2 |-> {TRUE}, s3 |-> BOOLEAN]
  <2>1. w[1] = TRUE /\ \A n \in Nat : w[n] \in BOOLEAN
    BY DEF Satisfies, Words
  <2>2. r \in [Nat -> {"s1", "s2", "s3"}]
    OBVIOUS
  <2>3. /\ r[0] = "s1" /\ r[1] = "s2"
        /\ \A n \in Nat : n # 0 /\ n # 1 => r[n] = "s3"
    OBVIOUS
  <2>4. L["s1"] = BOOLEAN /\ L["s2"] = {TRUE} /\ L["s3"] = BOOLEAN
    OBVIOUS
  <2>. HIDE DEF r, L
  <2>5. \A n \in Nat : r[n] \in {"s1", "s2", "s3"}
    BY <2>2
  <2>6. ASSUME NEW n \in Nat PROVE w[n] \in L[r[n]]
    <3>1. CASE n = 1
      BY <2>1, <2>3, <2>4, <3>1
    <3>2. CASE n # 1
      <4>1. r[n] = "s1" \/ r[n] = "s3"
        BY <2>3, <3>2
      <4>. QED  BY <2>1, <2>4, <4>1
    <3>. QED  BY <3>1, <3>2
  <2>7. ASSUME NEW n \in Nat
        PROVE  <<r[n], r[n + 1]>> \in {<<"s1", "s2">>, <<"s2", "s3">>, <<"s3", "s3">>}
    <3>1. n + 1 \in Nat /\ n + 1 # 0 /\ (n + 1 = 1 <=> n = 0)
      OBVIOUS
    <3>2. CASE n = 0
      BY <2>3, <3>2
    <3>3. CASE n = 1
      <4>1. n + 1 = 2 /\ r[n + 1] = "s3"
        BY <2>3, <3>3
      <4>. QED  BY <2>3, <3>3, <4>1
    <3>4. CASE n # 0 /\ n # 1
      <4>1. r[n] = "s3" /\ r[n + 1] = "s3"
        BY <2>3, <3>1, <3>4
      <4>. QED  BY <4>1
    <3>. QED  BY <3>2, <3>3, <3>4
  <2>8. \A n \in Nat : \E m \in Nat : n <= m /\ r[m] \in {"s1", "s2", "s3"}
    BY <2>5
  <2>9. Runs({"s1", "s2", "s3"}, {"s1"}, {<<"s1", "s2">>, <<"s2", "s3">>, <<"s3", "s3">>},
             {"s1", "s2", "s3"}, L, w, r)
    BY <2>3, <2>5, <2>6, <2>7, <2>8 DEF Runs
  <2>. QED  BY <2>2, <2>9, RunX DEF L
<1>2. AcceptsOnly("X")
  <2>. SUFFICES ASSUME NEW w \in Words, NEW r, IsRun(Automaton["X"], w, r)
                PROVE  Satisfies("X", w)
    BY DEF AcceptsOnly
  <2>. DEFINE L == [s1 |-> BOOLEAN, s2 |-> {TRUE}, s3 |-> BOOLEAN]
  <2>1. Runs({"s1", "s2", "s3"}, {"s1"}, {<<"s1", "s2">>, <<"s2", "s3">>, <<"s3", "s3">>},
             {"s1", "s2", "s3"}, L, w, r)
    BY RunX
  <2>2. L["s2"] = {TRUE}
    OBVIOUS
  <2>. HIDE DEF L
  <2>3. r[0] = "s1" /\ <<r[0], r[0 + 1]>> \in {<<"s1", "s2">>, <<"s2", "s3">>, <<"s3", "s3">>}
    BY <2>1 DEF Runs
  <2>4. r[1] = "s2" /\ w[1] \in L[r[1]]
    BY <2>1, <2>3 DEF Runs
  <2>5. w[1] = TRUE
    BY <2>2, <2>4
  <2>. QED  BY <2>5, Zenon DEF Satisfies
<1>. QED  BY <1>1, <1>2

LEMMA OwnOfG == ASSUME AsWring PROVE Recognizes("G") /\ AcceptsOnly("G")
<1>. DEFINE L == [s1 |-> {TRUE}]
<1>0. L["s1"] = {TRUE}
  OBVIOUS
<1>1. Recognizes("G")
  <2>. SUFFICES ASSUME NEW w \in Words, Satisfies("G", w)
                PROVE  \E r : IsRun(Automaton["G"], w, r)
    BY DEF Recognizes
  <2>. DEFINE r == [n \in Nat |-> "s1"]
  <2>1. \A n \in Nat : w[n] = TRUE
    BY DEF Satisfies, Words
  <2>2. r \in [Nat -> {"s1"}] /\ \A n \in Nat : r[n] = "s1"
    OBVIOUS
  <2>. HIDE DEF r, L
  <2>3. Runs({"s1"}, {"s1"}, {<<"s1", "s1">>}, {"s1"}, L, w, r)
    <3>1. ASSUME NEW n \in Nat
          PROVE  /\ r[n] \in {"s1"} /\ w[n] \in L[r[n]]
                 /\ <<r[n], r[n + 1]>> \in {<<"s1", "s1">>}
                 /\ n <= n
      <4>1. n + 1 \in Nat
        OBVIOUS
      <4>2. r[n] = "s1" /\ r[n + 1] = "s1" /\ w[n] = TRUE
        BY <2>1, <2>2, <4>1
      <4>3. w[n] \in L[r[n]]
        BY <1>0, <4>2
      <4>4. n <= n
        OBVIOUS
      <4>. QED  BY <4>2, <4>3, <4>4
    <3>. QED  BY <3>1 DEF Runs
  <2>. QED  BY <2>2, <2>3, RunG DEF L
<1>2. AcceptsOnly("G")
  <2>. SUFFICES ASSUME NEW w \in Words, NEW r, IsRun(Automaton["G"], w, r)
                PROVE  Satisfies("G", w)
    BY DEF AcceptsOnly
  <2>1. Runs({"s1"}, {"s1"}, {<<"s1", "s1">>}, {"s1"}, L, w, r)
    BY RunG
  <2>. HIDE DEF L
  <2>2. \A n \in Nat : w[n] = TRUE
    BY <1>0, <2>1 DEF Runs
  <2>. QED  BY <2>2, Zenon DEF Satisfies
<1>. QED  BY <1>1, <1>2

LEMMA OwnOfF == ASSUME AsWring PROVE Recognizes("F") /\ AcceptsOnly("F")
<1>. DEFINE S == {"s1", "s2", "s3"}
            I == {"s1", "s2"}
            T == {<<"s1", "s1">>, <<"s1", "s2">>, <<"s2", "s3">>, <<"s3", "s3">>}
            F == {"s2", "s3"}
            L == [s1 |-> BOOLEAN, s2 |-> {TRUE}, s3 |-> BOOLEAN]
<1>0. L["s1"] = BOOLEAN /\ L["s2"] = {TRUE} /\ L["s3"] = BOOLEAN
  OBVIOUS
<1>1. Recognizes("F")
  <2>. SUFFICES ASSUME NEW w \in Words, Satisfies("F", w)
                PROVE  \E r : IsRun(Automaton["F"], w, r)
    BY DEF Recognizes
  <2>1. PICK l \in Nat : w[l] = TRUE
    BY DEF Satisfies, Words
  <2>2. \A n \in Nat : w[n] \in BOOLEAN
    BY DEF Words
  <2>. DEFINE r == [n \in Nat |-> IF n < l THEN "s1" ELSE IF n = l THEN "s2" ELSE "s3"]
  <2>3. r \in [Nat -> S]
    OBVIOUS
  <2>4. \A n \in Nat : /\ n < l => r[n] = "s1"
                       /\ n = l => r[n] = "s2"
                       /\ l < n => r[n] = "s3"
    OBVIOUS
  <2>. HIDE DEF r, L
  <2>5. \A n \in Nat : r[n] \in S
    BY <2>3
  <2>6. ASSUME NEW n \in Nat PROVE w[n] \in L[r[n]]
    <3>1. CASE n = l
      BY <1>0, <2>1, <2>4, <3>1
    <3>2. CASE n # l
      <4>1. r[n] = "s1" \/ r[n] = "s3"
        BY <2>4, <3>2
      <4>. QED  BY <1>0, <2>2, <4>1
    <3>. QED  BY <3>1, <3>2
  <2>7. ASSUME NEW n \in Nat PROVE <<r[n], r[n + 1]>> \in T
    <3>1. n + 1 \in Nat
      OBVIOUS
    <3>2. CASE n + 1 < l
      BY <2>4, <3>1, <3>2
    <3>3. CASE n + 1 = l
      BY <2>4, <3>1, <3>3
    <3>4. CASE n = l
      BY <2>4, <3>1, <3>4
    <3>5. CASE l < n
      BY <2>4, <3>1, <3>5
    <3>. QED  BY <3>2, <3>3, <3>4, <3>5
  <2>8. ASSUME NEW n \in Nat PROVE \E m \in Nat : n <= m /\ r[m] \in F
    <3>1. n + l + 1 \in Nat /\ n <= n + l + 1 /\ l < n + l + 1
      OBVIOUS
    <3>2. r[n + l + 1] \in F
      BY <2>4, <3>1
    <3>. QED  BY <3>1, <3>2
  <2>9. r[0] \in I
    BY <2>4
  <2>10. Runs(S, I, T, F, L, w, r)
    <3>. HIDE DEF S, I, T, F
    <3>. QED  BY <2>5, <2>6, <2>7, <2>8, <2>9 DEF Runs
  <2>. QED  BY <2>3, <2>10, RunF DEF L
<1>2. AcceptsOnly("F")
  <2>. SUFFICES ASSUME NEW w \in Words, NEW r, IsRun(Automaton["F"], w, r)
                PROVE  Satisfies("F", w)
    BY DEF AcceptsOnly
  <2>1. Runs(S, I, T, F, L, w, r)
    BY RunF
  <2>. HIDE DEF L
  <2>2. /\ \A n \in Nat : r[n] \in S /\ w[n] \in L[r[n]]
        /\ r[0] \in I
        /\ \A n \in Nat : <<r[n], r[n + 1]>> \in T
        /\ \E m \in Nat : r[m] \in F
    BY <2>1 DEF Runs
  <2>. DEFINE D == {n \in Nat : r[n] # "s1"}
  <2>3. D \in SUBSET Nat /\ D # {}
    BY <2>2
  <2>4. PICK n \in D : \A m \in D : n <= m
    BY <2>3, LeastNumber
  <2>5. n \in Nat /\ r[n] # "s1"
    OBVIOUS
  <2>6. r[n] = "s2"
    <3>1. CASE n = 0
      BY <2>2, <2>5, <3>1
    <3>2. CASE n # 0
      <4>1. n - 1 \in Nat /\ (n - 1) + 1 = n /\ ~(n <= n - 1)
        BY <2>5, <3>2
      <4>2. r[n - 1] = "s1"
        BY <2>4, <4>1
      <4>3. <<r[n - 1], r[n]>> \in T
        BY <2>2, <4>1
      <4>. QED  BY <2>5, <4>2, <4>3
    <3>. QED  BY <3>1, <3>2
  <2>7. w[n] \in {TRUE}
    BY <1>0, <2>2, <2>5, <2>6
  <2>. QED  BY <2>5, <2>7 DEF Satisfies
<1>. QED  BY <1>1, <1>2

LEMMA OwnOfGF == ASSUME AsWring PROVE Recognizes("GF") /\ AcceptsOnly("GF")
<1>. DEFINE S == {"s1", "s2"}
            T == {"s1", "s2"} \X {"s1", "s2"}
            F == {"s2"}
            L == [s1 |-> BOOLEAN, s2 |-> {TRUE}]
<1>0. L["s1"] = BOOLEAN /\ L["s2"] = {TRUE}
  OBVIOUS
<1>1. Recognizes("GF")
  <2>. SUFFICES ASSUME NEW w \in Words, Satisfies("GF", w)
                PROVE  \E r : IsRun(Automaton["GF"], w, r)
    BY DEF Recognizes
  <2>1. /\ \A n \in Nat : w[n] \in BOOLEAN
        /\ \A n \in Nat : \E m \in Nat : n <= m /\ w[m]
    BY DEF Satisfies, Words
  <2>. DEFINE r == [n \in Nat |-> IF w[n] THEN "s2" ELSE "s1"]
  <2>2. r \in [Nat -> S]
    OBVIOUS
  <2>3. \A n \in Nat : r[n] = IF w[n] THEN "s2" ELSE "s1"
    OBVIOUS
  <2>. HIDE DEF r, L
  <2>4. \A n \in Nat : r[n] \in S /\ w[n] \in L[r[n]]
    BY <1>0, <2>1, <2>3
  <2>5. ASSUME NEW n \in Nat PROVE <<r[n], r[n + 1]>> \in T
    <3>1. n + 1 \in Nat
      OBVIOUS
    <3>. QED  BY <2>4, <3>1
  <2>6. \A n \in Nat : \E m \in Nat : n <= m /\ r[m] \in F
    BY <2>1, <2>3
  <2>7. Runs(S, S, T, F, L, w, r)
    <3>. HIDE DEF S, T, F
    <3>. QED  BY <2>4, <2>5, <2>6 DEF Runs
  <2>. QED  BY <2>2, <2>7, RunGF DEF L
<1>2. AcceptsOnly("GF")
  <2>. SUFFICES ASSUME NEW w \in Words, NEW r, IsRun(Automaton["GF"], w, r)
                PROVE  Satisfies("GF", w)
    BY DEF AcceptsOnly
  <2>1. Runs(S, S, T, F, L, w, r)
    BY RunGF
  <2>. HIDE DEF L
  <2>2. /\ \A n \in Nat : w[n] \in L[r[n]]
        /\ \A n \in Nat : \E m \in Nat : n <= m /\ r[m] = "s2"
    BY <2>1 DEF Runs
  <2>3. \A n \in Nat : \E m \in Nat : n <= m /\ w[m] = TRUE
    BY <1>0, <2>2
  <2>. QED  BY <2>3, Zenon DEF Satisfies
<1>. QED  BY <1>1, <1>2

LEMMA OwnOfFG == ASSUME AsWring PROVE Recognizes("FG") /\ AcceptsOnly("FG")
<1>. DEFINE S == {"s1", "s2"}
            T == {<<"s1", "s1">>, <<"s1", "s2">>, <<"s2", "s2">>}
            F == {"s2"}
            L == [s1 |-> BOOLEAN, s2 |-> {TRUE}]
<1>0. L["s1"] = BOOLEAN /\ L["s2"] = {TRUE}
  OBVIOUS
<1>1. Recognizes("FG")
  <2>. SUFFICES ASSUME NEW w \in Words, Satisfies("FG", w)
                PROVE  \E r : IsRun(Automaton["FG"], w, r)
    BY DEF Recognizes
  <2>1. PICK l \in Nat : \A m \in Nat : l <= m => w[m] = TRUE
    BY DEF Satisfies, Words
  <2>2. \A n \in Nat : w[n] \in BOOLEAN
    BY DEF Words
  <2>. DEFINE r == [n \in Nat |-> IF n < l THEN "s1" ELSE "s2"]
  <2>3. r \in [Nat -> S]
    OBVIOUS
  <2>4. \A n \in Nat : /\ n < l => r[n] = "s1"
                       /\ l <= n => r[n] = "s2"
    OBVIOUS
  <2>. HIDE DEF r, L
  <2>5. ASSUME NEW n \in Nat PROVE r[n] \in S /\ w[n] \in L[r[n]]
    <3>1. CASE n < l
      BY <1>0, <2>2, <2>4, <3>1
    <3>2. CASE l <= n
      BY <1>0, <2>1, <2>4, <3>2
    <3>. QED  BY <3>1, <3>2
  <2>6. ASSUME NEW n \in Nat PROVE <<r[n], r[n + 1]>> \in T
    <3>1. n + 1 \in Nat
      OBVIOUS
    <3>2. CASE n + 1 < l
      BY <2>4, <3>1, <3>2
    <3>3. CASE l <= n + 1 /\ n < l
      BY <2>4, <3>1, <3>3
    <3>4. CASE l <= n
      BY <2>4, <3>1, <3>4
    <3>. QED  BY <3>2, <3>3, <3>4
  <2>7. ASSUME NEW n \in Nat PROVE \E m \in Nat : n <= m /\ r[m] \in F
    <3>1. n + l \in Nat /\ n <= n + l /\ l <= n + l
      OBVIOUS
    <3>2. r[n + l] \in F
      BY <2>4, <3>1
    <3>. QED  BY <3>1, <3>2
  <2>8. r[0] \in S
    BY <2>5
  <2>9. Runs(S, S, T, F, L, w, r)
    <3>. HIDE DEF S, T, F
    <3>. QED  BY <2>5, <2>6, <2>7, <2>8 DEF Runs
  <2>. QED  BY <2>3, <2>9, RunFG DEF L
<1>2. AcceptsOnly("FG")
  <2>. SUFFICES ASSUME NEW w \in Words, NEW r, IsRun(Automaton["FG"], w, r)
                PROVE  Satisfies("FG", w)
    BY DEF AcceptsOnly
  <2>1. Runs(S, S, T, F, L, w, r)
    BY RunFG
  <2>. HIDE DEF L
  <2>2. /\ \A n \in Nat : w[n] \in L[r[n]]
        /\ \A n \in Nat : <<r[n], r[n + 1]>> \in T
        /\ \E m \in Nat : r[m] = "s2"
    BY <2>1 DEF Runs
  <2>3. PICK l \in Nat : r[l] = "s2"
    BY <2>2
  <2>. DEFINE D == {n \in Nat : l <= n /\ r[n] # "s2"}
  <2>4. D = {}
    <3>. SUFFICES ASSUME D # {} PROVE FALSE
      OBVIOUS
    <3>1. D \in SUBSET Nat
      OBVIOUS
    <3>2. PICK n \in D : \A m \in D : n <= m
      BY <3>1, LeastNumber
    <3>3. n \in Nat /\ l <= n /\ r[n] # "s2" /\ n # l
      BY <2>3
    <3>4. n - 1 \in Nat /\ (n - 1) + 1 = n /\ ~(n <= n - 1) /\ l <= n - 1
      BY <3>3
    <3>5. r[n - 1] = "s2"
      BY <3>2, <3>4
    <3>6. <<r[n - 1], r[n]>> \in T
      BY <2>2, <3>4
    <3>. QED  BY <3>3, <3>5, <3>6
  <2>5. ASSUME NEW m \in Nat, l <= m PROVE w[m] = TRUE
    <3>1. r[m] = "s2"
      BY <2>4, <2>5
    <3>. QED  BY <1>0, <2>2, <3>1
  <2>. QED  BY <2>5, Zenon DEF Satisfies
<1>. QED  BY <1>1, <1>2

LEMMA OwnLanguage == ASSUME AsWring PROVE \A op \in Ops : Recognizes(op) /\ AcceptsOnly(op)
  BY OwnOfX, OwnOfG, OwnOfF, OwnOfGF, OwnOfFG DEF Ops

LEMMA FewStates ==
    ASSUME AsWring
    PROVE  \A op \in Ops : /\ IsFiniteSet(Ltl2Gba[op].states)
                           /\ Automaton[op].states = Ltl2Gba[op].states
                           /\ Cardinality(Ltl2Gba[op].states) <= 3
<1>1. ASSUME NEW op \in Ops PROVE Ltl2Gba[op].states \subseteq {"s1", "s2", "s3"}
  BY <1>1 DEF AsWring, AutomataOfWring, Ops
<1>2. IsFiniteSet({"s1", "s2", "s3"}) /\ Cardinality({"s1", "s2", "s3"}) = 3
  <2>. DEFINE A == {"s1"}
              B == A \cup {"s2"}
              C == B \cup {"s3"}
  <2>1. IsFiniteSet(A) /\ Cardinality(A) = 1
    BY FS_Singleton
  <2>2. "s2" \notin A
    OBVIOUS
  <2>. HIDE DEF A
  <2>3. IsFiniteSet(B) /\ Cardinality(B) = 2
    BY <2>1, <2>2, FS_AddElement
  <2>4. "s3" \notin B
    BY DEF A
  <2>. HIDE DEF B
  <2>5. IsFiniteSet(C) /\ Cardinality(C) = 3
    BY <2>3, <2>4, FS_AddElement
  <2>6. C = {"s1", "s2", "s3"}
    BY DEF A, B
  <2>. QED  BY <2>5, <2>6
<1>3. ASSUME NEW op \in Ops
      PROVE  /\ IsFiniteSet(Ltl2Gba[op].states)
             /\ Cardinality(Ltl2Gba[op].states) <= 3
  <2>. DEFINE D == Ltl2Gba[op].states
              E == {"s1", "s2", "s3"}
  <2>1. D \subseteq E
    BY <1>1
  <2>. HIDE DEF D, E
  <2>2. IsFiniteSet(D) /\ Cardinality(D) <= Cardinality(E)
    BY <1>2, <2>1, FS_Subset DEF E
  <2>. QED  BY <1>2, <2>2 DEF D, E
<1>4. ASSUME NEW op \in Ops PROVE Automaton[op].states = Ltl2Gba[op].states
  <2>. DEFINE B == Ltl2Gba[op]
  <2>1. IsAutomaton(B)
    BY SynthesisAssumption
  <2>2. B = [states |-> B.states, initial |-> B.initial, trans |-> B.trans,
             fair |-> B.fair, label |-> B.label]
    BY <2>1 DEF IsAutomaton
  <2>. HIDE DEF B
  <2>3. WithFairness(B).states = B.states
    BY <2>2 DEF WithFairness
  <2>. QED  BY <2>3 DEF Automaton, B
<1>. QED  BY <1>3, <1>4

(* With the automata Wring gives for the operators nothing is assumed of   *)
(* them: whenever the variables have finitely many valuations, the loop of *)
(* Game_CheckLtlGameSpecSF07 only reports what is right, loses nothing by  *)
(* starting at kmin, and decides the property when it is played for both   *)
(* players up to a bound above three times the number of states.           *)
THEOREM LoopWithWring ==
    ASSUME IsFiniteSet(P1), IsFiniteSet(P2), Ltl2Gba = AutomataOfWring
    PROVE  /\ Spec => []VerdictIsRight
           /\ Spec => []BoundsOnlyHelp
           /\ 3 * Cardinality(States) < Enough => (Spec => []CompleteForBoth)
<1>1. IsFinite
  BY FewStates DEF IsFinite, AsWring
<1>2. \A op \in Ops : Recognizes(op) /\ AcceptsOnly(op)
  BY OwnLanguage DEF AsWring
<1>3. ASSUME 3 * Cardinality(States) < Enough, NEW op \in Ops
      PROVE  Cardinality(States) * Cardinality(Automaton[op].states) < Enough
  <2>. DEFINE c == Cardinality(States)
              d == Cardinality(Automaton[op].states)
  <2>1. c \in Nat /\ d \in Nat /\ d <= 3 /\ Enough \in Nat
    BY <1>1, FiniteParts, FewStates, FS_CardinalityType, SynthesisAssumption DEF AsWring
  <2>2. d = 0 \/ d = 1 \/ d = 2 \/ d = 3
    BY <2>1
  <2>3. 3 * c < Enough
    BY <1>3
  <2>. HIDE DEF c, d
  <2>4. c * d < Enough
    BY <2>1, <2>2, <2>3
  <2>. QED  BY <2>4 DEF c, d
<1>4. Spec => []VerdictIsRight
  BY <1>1, <1>2, LoopVerdicts
<1>5. Spec => []BoundsOnlyHelp
  BY <1>1, LoopBounds
<1>6. ASSUME 3 * Cardinality(States) < Enough PROVE Spec => []CompleteForBoth
  BY <1>1, <1>2, <1>3, <1>6, LoopIsComplete
<1>. QED  BY <1>4, <1>5, <1>6

-----------------------------------------------------------------------------
(* What the reference meaning and the bounds have to do with each other,   *)
(* without the loop.                                                       *)

(* Each player can force the play, and so they can play it together.       *)
LEMMA MovesMeet ==
    ASSUME NEW g, NEW plr \in Players, NEW S, NEW T, T \subseteq Invar(g),
           NEW s \in CanForce(g, S, plr), s \in CanForce(g, T, Opponent(plr))
    PROVE  S \cap T # {}
<1>. SUFFICES ASSUME S \cap T = {} PROVE FALSE
  OBVIOUS
<1>1. T \subseteq Invar(g) \ S
  OBVIOUS
<1>2. s \in CanForce(g, Invar(g) \ S, Opponent(plr))
  BY <1>1, ForceMonotone
<1>3. CanForce(g, S, plr) = Invar(g) \ CanForce(g, Invar(g) \ S, Opponent(plr))
  BY ForceDuality
<1>. QED  BY <1>2, <1>3

LEMMA NotBothWords ==
    ASSUME NEW f \in LtlType, NEW p, \A n \in Nat : p[n] \in States
    PROVE  \/ Satisfies(f.op, LettersOf(f, p))
           \/ Satisfies(Negation(f).op, LettersOf(Negation(f), p))
<1>. DEFINE h == Negation(f)
            w == LettersOf(f, p)
            v == LettersOf(h, p)
<1>1. f.op \in {"X", "G", "F", "GF", "FG"} /\ h.op = DualOp[f.op] /\ h.p = States \ f.p
  BY DEF LtlType, Ops, Negation
<1>2. /\ f.op = "X" => h.op = "X"
      /\ f.op = "G" => h.op = "F"
      /\ f.op = "F" => h.op = "G"
      /\ f.op = "GF" => h.op = "FG"
      /\ f.op = "FG" => h.op = "GF"
  BY <1>1 DEF DualOp
<1>. HIDE DEF h
<1>3. \A n \in Nat : (w[n] <=> p[n] \in f.p) /\ (v[n] <=> ~(p[n] \in f.p))
  BY <1>1 DEF LettersOf
<1>. HIDE DEF w, v
<1>4. \A n \in Nat : w[n] \/ v[n]
  BY <1>3
<1>5. CASE f.op = "X"
  <2>1. w[1] \/ v[1]
    BY <1>4
  <2>. QED  BY <1>2, <1>5, <2>1, Zenon DEF Satisfies, w, v, h
<1>6. CASE f.op = "G"
  <2>1. (\A n \in Nat : w[n]) \/ (\E n \in Nat : v[n])
    BY <1>4
  <2>. QED  BY <1>2, <1>6, <2>1, Zenon DEF Satisfies, w, v, h
<1>7. CASE f.op = "F"
  <2>1. (\E n \in Nat : w[n]) \/ (\A n \in Nat : v[n])
    BY <1>4
  <2>. QED  BY <1>2, <1>7, <2>1, Zenon DEF Satisfies, w, v, h
<1>8. CASE f.op = "GF"
  <2>1. \/ \A n \in Nat : \E m \in Nat : n <= m /\ w[m]
        \/ \E n \in Nat : \A m \in Nat : n <= m => v[m]
    BY <1>4
  <2>. QED  BY <1>2, <1>8, <2>1, Zenon DEF Satisfies, w, v, h
<1>9. CASE f.op = "FG"
  <2>1. \/ \E n \in Nat : \A m \in Nat : n <= m => w[m]
        \/ \A n \in Nat : \E m \in Nat : n <= m /\ v[m]
    BY <1>4
  <2>. QED  BY <1>2, <1>9, <2>1, Zenon DEF Satisfies, w, v, h
<1>. QED  BY <1>1, <1>5, <1>6, <1>7, <1>8, <1>9

(* A play in which both play what wins from here satisfies neither.        *)
LEMMA NotBothWin ==
    ASSUME NEW g \in GameType, IsFiniteSet(States), NEW plr \in Players, NEW f \in LtlType,
           NEW s \in WinningStates(g, f, plr),
           s \in WinningStates(g, Negation(f), Opponent(plr))
    PROVE  FALSE
<1>. DEFINE h == Negation(f)
            opp == Opponent(plr)
<1>1. opp \in Players /\ h \in LtlType /\ Negation(h) = f
  BY OpponentIs, NegationTwice
<1>. HIDE DEF h, opp
<1>2. PICK N, move : IsWinningTactic(g, h, plr, N, move)
  BY <1>1, TacticExists
<1>3. PICK M, reply : IsWinningTactic(g, f, opp, M, reply)
  BY <1>1, TacticExists
<1>4. /\ IsTactic(g, N, move, plr) /\ s \in N
      /\ \A p : IsPlay(N, move, s, p) => ~Satisfies(h.op, LettersOf(h, p))
  BY <1>1, <1>2 DEF IsWinningTactic
<1>5. /\ IsTactic(g, M, reply, opp) /\ s \in M
      /\ \A p : IsPlay(M, reply, s, p) => ~Satisfies(f.op, LettersOf(f, p))
  BY <1>3 DEF IsWinningTactic, h, opp
<1>. DEFINE D == N \cap M
            R == {e \in D \X D : e[2] \in move[e[1]] /\ e[2] \in reply[e[1]]}
<1>6. ASSUME NEW t \in D PROVE \E u \in D : <<t, u>> \in R
  <2>1. /\ move[t] \subseteq N /\ reply[t] \subseteq M /\ M \subseteq Invar(g)
        /\ t \in CanForce(g, move[t], plr) /\ t \in CanForce(g, reply[t], opp)
    BY <1>4, <1>5 DEF IsTactic
  <2>2. reply[t] \subseteq Invar(g)
    BY <2>1
  <2>3. move[t] \cap reply[t] # {}
    BY <2>1, <2>2, MovesMeet DEF opp
  <2>4. PICK u : u \in move[t] /\ u \in reply[t]
    BY <2>3
  <2>. QED  BY <2>1, <2>4
<1>7. s \in D
  BY <1>4, <1>5
<1>. HIDE DEF R
<1>8. PICK p \in [Nat -> D] : p[0] = s /\ \A n \in Nat : <<p[n], p[n + 1]>> \in R
  BY <1>6, <1>7, StepsForever
<1>9. \A n \in Nat : p[n + 1] \in move[p[n]] /\ p[n + 1] \in reply[p[n]]
  BY <1>8 DEF R
<1>10. IsPlay(N, move, s, p) /\ IsPlay(M, reply, s, p)
  <2>1. p \in [Nat -> N] /\ p \in [Nat -> M]
    BY <1>8
  <2>. QED  BY <1>8, <1>9, <2>1 DEF IsPlay
<1>11. \A n \in Nat : p[n] \in States
  BY <1>4, <1>8, TypedInvar DEF IsTactic
<1>12. Satisfies(f.op, LettersOf(f, p)) \/ Satisfies(h.op, LettersOf(h, p))
  BY <1>11, NotBothWords DEF h
<1>. QED  BY <1>4, <1>5, <1>10, <1>12

(* The games are determined: one player has a strategy for the formula     *)
(* exactly when the other has none for its negation.  That is why the loop *)
(* (Game_CheckLtlGameSpecSF07) may try either player for a bound, why both *)
(* cannot be told to win, and why the answer FALSE means anything.         *)
THEOREM LtlGamesAreDetermined ==
    ASSUME NEW g \in GameType, IsFiniteSet(States), NEW plr \in Players, NEW f \in LtlType
    PROVE  HasStrategy(g, f, plr) <=> ~HasStrategy(g, Negation(f), Opponent(plr))
<1>. DEFINE W == WinningStates(g, f, plr)
            V == WinningStates(g, Negation(f), Opponent(plr))
<1>1. ASSUME StartsIn(g, W, plr, "N"), StartsIn(g, V, Opponent(plr), "N") PROVE FALSE
  <2>1. V \cap Invar(g) \subseteq Invar(g) \ W
    BY NotBothWin
  <2>. HIDE DEF W, V
  <2>2. "N" \in Quantifiers
    BY DEF Quantifiers
  <2>3. StartsIn(g, Invar(g) \ W, Opponent(plr), "N")
    <3>1. StartsIn(g, V \cap Invar(g), Opponent(plr), "N")
      BY <1>1, InitInvar DEF StartsIn
    <3>. QED  BY <2>1, <2>2, <3>1, StartMonotone
  <2>. QED  BY <1>1, <2>3, StartDuality
<1>. QED  BY <1>1, EitherWins DEF HasStrategy

(* The avoidance game for a bound decides the LTL game itself, for either  *)
(* player, once the bound exceeds the number of states of the game times   *)
(* those of the automaton, and if the automaton accepts exactly the words  *)
(* of its formula: counting further can change nothing.                    *)
THEOREM LargeBoundIsExact ==
    ASSUME IsFinite, NEW g \in GameType, NEW bad \in LtlType,
           Recognizes(bad.op), AcceptsOnly(bad.op), NEW plr \in Players, NEW k \in 0 .. MaxK,
           Cardinality(States) * Cardinality(Automaton[bad.op].states) < k
    PROVE  AvoidsBound(g, bad, k, plr) <=> HasStrategy(g, Negation(bad), plr)
  BY AvoidsWins, WinsAvoid
=============================================================================
