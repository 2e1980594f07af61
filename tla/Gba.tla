-------------------------------- MODULE Gba --------------------------------
(***************************************************************************)
(* The generalized Buchi automaton of gameCheckLTLSF07_gba.c, as it is     *)
(* filled by the parser of Wring's output.  Lists grow at the front.  A    *)
(* state is named by its id.                                               *)
(***************************************************************************)
EXTENDS Sequences, Naturals

LOCAL INSTANCE TLC

EmptyGba ==
    [states |-> << >>, transitions |-> << >>, initial |-> {}, fair |-> << >>,
     label |-> << >>, incoming |-> << >>, outgoing |-> << >>]

Push(list, e) == <<e>> \o list

AddState(gba, id, label) ==
    [gba EXCEPT !.states = Push(@, id),
                !.label = (id :> label) @@ @,
                !.incoming = (id :> << >>) @@ @,
                !.outgoing = (id :> << >>) @@ @]

(* Faulty variant: the lists of source and target are mixed up.            *)
SwappedAddTransition(gba, source, target) ==
    [gba EXCEPT !.transitions = Push(@, <<source, target>>),
                !.outgoing[target] = Push(@, <<source, target>>),
                !.incoming[source] = Push(@, <<source, target>>)]

AddTransition(gba, source, target) ==
    [gba EXCEPT !.transitions = Push(@, <<source, target>>),
                !.outgoing[source] = Push(@, <<source, target>>),
                !.incoming[target] = Push(@, <<source, target>>)]

AddStateToInitialStates(gba, s) == [gba EXCEPT !.initial = @ \cup {s}]

AddFairnessConstraint(gba, constraint) == [gba EXCEPT !.fair = Push(@, constraint)]

IsStateInitial(gba, s) == s \in gba.initial

FairnessConstraintsCount(gba) == Len(gba.fair)

IsStateInFirstFairnessConstraint(gba, s) ==
    FairnessConstraintsCount(gba) >= 1 /\ s \in Head(gba.fair)

IsSimple(gba) == FairnessConstraintsCount(gba) = 1
=============================================================================
