-------------------------- MODULE StrategyPrinting --------------------------
(***************************************************************************)
(* Printing a strategy (gameGeneral.c, gameCheckLTLSF07.c): the printers   *)
(* put the names of layers together in a buffer, collect the variables of  *)
(* the layers named, and print BDDs over these variables.  An array of     *)
(* names holds pointers; what it names is read when the variables are      *)
(* collected.                                                              *)
(***************************************************************************)
EXTENDS Naturals, Sequences

CONSTANTS
    nPlayers,  \* n_players
    Declared   \* whether the strategy declares variables of its own: jx, the monitor's

VARIABLES
    printer,   \* which of them prints
    boolean,   \* whether the Boolean model, with its determinization layers, is built
    declares,  \* whether the strategy declares variables
    i,         \* the player of the running loop
    str,       \* the text in the buffer
    layers,    \* how many pointers to it the array of names holds
    vars,      \* the variables for printing
    out,       \* the sections printed, with what is in them
    pc

printVars == <<printer, boolean, declares, i, str, layers, vars, out, pc>>

SF07Printers == {"sexp", "separate", "conjoined"}

Printers == {"general"} \cup SF07Printers

Name(kind, p) == <<kind, p>>

(* The variables of a layer, one for each player's, and the strategy's own.*)
VarsOf(name) == IF name[1] = "layer" THEN {name} ELSE {}

Own == IF declares THEN {Name("own", 1)} ELSE {}

-----------------------------------------------------------------------------
(* Collecting.                                                             *)

NameLayer ==
    /\ pc = "layers"
    /\ str' = Name("layer", i)
    /\ layers' = layers + 1
    /\ IF i = nPlayers THEN i' = 1 /\ pc' = "determ" ELSE i' = i + 1 /\ UNCHANGED pc
    /\ UNCHANGED <<printer, boolean, declares, vars, out>>

(* The general printer writes the name of the determinization layer over   *)
(* the buffer; the others use a buffer of an inner block, which may be at  *)
(* the place of the first one, whose block has ended.  The layer is gone   *)
(* through before it is compared with NULL.                                *)
CheckDeterminization ==
    /\ pc = "determ"
    /\ str' \in {Name("determ", i)} \cup (IF printer \in SF07Printers THEN {str} ELSE {})
    /\ IF ~boolean
       THEN pc' = "aborted" /\ UNCHANGED i
       ELSE IF i = nPlayers
       THEN pc' = "collect" /\ UNCHANGED i
       ELSE i' = i + 1 /\ UNCHANGED pc
    /\ UNCHANGED <<printer, boolean, declares, layers, vars, out>>

(* Every pointer finds the text that is in the buffer now.                 *)
CollectVars ==
    /\ pc = "collect"
    /\ vars' = UNION {VarsOf(str) : k \in 1 .. layers} \cup Own
    /\ pc' = "declare"
    /\ UNCHANGED <<printer, boolean, declares, i, str, layers, out>>

-----------------------------------------------------------------------------
(* Printing.  The monitor is printed as an expression after the strategy,  *)
(* as a BDD of its own after each section, or conjoined with the section.  *)

Emit(sections) == out' = out \o sections

Section(name) ==
    CASE printer = "separate"  -> <<<<name, {"strategy"}>>, <<name, {"monitor"}>>>>
      [] printer = "conjoined" -> <<<<name, {"strategy", "monitor"}>>>>
      [] OTHER                 -> <<<<name, {"strategy"}>>>>

Declare ==
    /\ pc = "declare"
    /\ Emit(IF Own = {} THEN << >> ELSE <<<<"VAR", Own>>>>)
    /\ pc' = "init"
    /\ UNCHANGED <<printer, boolean, declares, i, str, layers, vars>>

PrintInit ==
    /\ pc = "init"
    /\ Emit(Section("INIT"))
    /\ pc' = "trans"
    /\ UNCHANGED <<printer, boolean, declares, i, str, layers, vars>>

PrintTrans ==
    /\ pc = "trans"
    /\ Emit(Section("TRANS"))
    /\ pc' = IF printer = "sexp" THEN "monitor" ELSE "done"
    /\ UNCHANGED <<printer, boolean, declares, i, str, layers, vars>>

PrintMonitor ==
    /\ pc = "monitor"
    /\ Emit(<<<<"INIT", {"monitor"}>>, <<"TRANS", {"monitor"}>>>>)
    /\ pc' = "done"
    /\ UNCHANGED <<printer, boolean, declares, i, str, layers, vars>>

(* LTL games are only checked when the Boolean model is built; their       *)
(* monitor has variables.                                                  *)
Init ==
    /\ printer \in Printers /\ boolean \in BOOLEAN /\ declares \in Declared
    /\ printer \in SF07Printers => boolean /\ declares
    /\ i = 1 /\ str = Name("none", 0) /\ layers = 0
    /\ vars = {} /\ out = << >>
    /\ pc = "layers"

Next == \/ NameLayer \/ CheckDeterminization \/ CollectVars
        \/ Declare \/ PrintInit \/ PrintTrans \/ PrintMonitor

Spec == Init /\ [][Next]_printVars

-----------------------------------------------------------------------------
(* "'vars' contains the variables for printing" (GameStrategy.c:1325): the *)
(* BDDs of a strategy and of a monitor are over the variables of all       *)
(* players.                                                                *)
VarsAreThoseOfTheGame ==
    pc \in {"init", "trans", "monitor"} => \A p \in 1 .. nPlayers : Name("layer", p) \in vars
=============================================================================
