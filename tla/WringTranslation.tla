-------------------------- MODULE WringTranslation --------------------------
(***************************************************************************)
(* Game_SF07_gba_wring_ltl2gba (gameCheckLTLSF07_gba_wring.c): an LTL      *)
(* formula is written to a file, Wring is run on it as a program of its    *)
(* own, and the automaton it prints is parsed; construct_ba                *)
(* (gameCheckLTLSF07.c) takes the result.  The files may not be opened,    *)
(* Wring may fail, and what it prints may be cut off anywhere.             *)
(*                                                                         *)
(* The output is a sequence of lines, and a line a sequence of tokens,     *)
(* <<kind>> or <<kind, value>>.  Between tokens blanks are left out, but   *)
(* the one at the beginning of a line that tells the lines of arcs.        *)
(***************************************************************************)
EXTENDS WringNames, Gba

LOCAL INSTANCE SequencesExt
LOCAL INSTANCE FiniteSetsExt
LOCAL INSTANCE TLC

CONSTANTS
    Formulas,   \* the LTL formulas considered
    Wring,      \* the automaton Wring prints for each of them
    MaxCalls    \* bound on the number of calls

VARIABLES
    formula,    \* of the call
    kept,       \* the files the options say to keep
    names,      \* of the input and the output file
    files,      \* the files that exist
    text,       \* what the input file contains
    lines,      \* of the output not yet parsed
    pc,
    gba,        \* what has been parsed of the automaton
    open,       \* what the parser holds: the output file, the table of ids
    result,     \* of the last call
    ba,         \* the automaton the caller has accepted
    fault,      \* whether anything went wrong outside the program
    calls, failed   \* the number of calls, those that ended with an error

call == <<formula, kept, names>>

vars == <<call, files, text, lines, pc, gba, open, result, ba, fault, calls, failed>>

-----------------------------------------------------------------------------
(* What Wring prints.                                                      *)

Listed(tokens) ==
    FlattenSeq([k \in DOMAIN tokens |-> IF k = 1 THEN <<tokens[k]>> ELSE <<<<",">>, tokens[k]>>])

Ids(ids) == Listed([k \in DOMAIN ids |-> <<"id", ids[k]>>])

Literal(name, positive) ==
    <<"literal", NameText(name) \o <<"=", IF positive THEN "1" ELSE "0">>>>

StateLine(A, s) ==
    <<<<"id", s>>, <<":">>, <<"{">>, <<"formula">>, <<",">>, <<"formula">>, <<"}">>, <<"label">>,
      <<":">>, <<"{">>>>
    \o Listed([k \in DOMAIN A.label[s] |-> Literal(A.label[s][k][1], A.label[s][k][2])])
    \o <<<<"}">>, <<"eol">>>>

ArcLine(A, s) ==
    <<IF s \in A.initial THEN <<"->">> ELSE <<"blank">>, <<"id", s>>, <<"->">>, <<"{">>>>
    \o Ids(A.next[s]) \o <<<<"}">>, <<"eol">>>>

FairLine(ids) == <<<<"{">>>> \o Ids(ids) \o <<<<"}">>, <<"eol">>>>

Printed(A) ==
    <<<<<<"dashes">>, <<"eol">>>>, <<<<"formula">>, <<"eol">>>>, <<<<"dashes">>, <<"eol">>>>,
      <<<<"formula">>, <<"eol">>>>, <<<<"States">>, <<"eol">>>>>>
    \o [k \in DOMAIN A.states |-> StateLine(A, A.states[k])]
    \o <<<<<<"Arcs">>, <<"eol">>>>>>
    \o [k \in DOMAIN A.states |-> ArcLine(A, A.states[k])]
    \o <<<<<<"Fair Sets">>, <<"eol">>>>>>
    \o [k \in DOMAIN A.fair |-> FairLine(A.fair[k])]
    \o <<<<<<"End">>, <<"eol">>>>, <<<<"Stats">>, <<"eol">>>>, <<<<"CPU time">>, <<"eol">>>>>>

(* Wring knows the formula by what has been written only.                  *)
Output(written) == Printed(Wring[CHOOSE f \in Formulas : FormulaText(f) = written])

(* What may be left of a token that is cut off: another id, or the n of    *)
(* one; a literal without its value; the beginning of a word.              *)
Halves(token) ==
    CASE token[1] = "id" -> {<<<<"id", "cut">>>>, <<<<"formula">>>>}
      [] token[1] = "literal" -> {<<<<"stub">>>>}
      [] token[1] \in {"dashes", "States", "label", "Arcs", "->", "Fair Sets", "End", "Stats",
                       "CPU time"} -> {<<<<"junk">>>>}
      [] OTHER -> {}

Cut(output) ==
    UNION {UNION {{SubSeq(output, 1, i - 1)
                   \o (IF j = 1 /\ half = << >> THEN << >>
                       ELSE <<SubSeq(output[i], 1, j - 1) \o half>>)
                       : half \in {<< >>} \cup Halves(output[i][j])}
                  : j \in DOMAIN output[i]} : i \in DOMAIN output}

-----------------------------------------------------------------------------
(* The readers of a line.                                                  *)

Kind(line, k) == IF k \in DOMAIN line THEN line[k][1] ELSE "end"

Starts(line, k, kinds) == \A i \in DOMAIN kinds : Kind(line, k + i - 1) = kinds[i]

(* A list from position k, the first of whose elements is of one kind, the *)
(* others of some; a comma may follow the last one.                        *)
Elements(line, k, first, others) ==
    LET IsList(n) ==
            \A i \in 1 .. n :
                IF i = 1 THEN Kind(line, k) = first
                ELSE Kind(line, k + 2 * i - 3) = "," /\ Kind(line, k + 2 * i - 2) \in others
        n == Max({i \in 0 .. Len(line) : IsList(i)})
        last == k + 2 * n - 1
    IN  [elements |-> [i \in 1 .. n |-> line[k + 2 * i - 2]],
         next |-> IF n = 0 THEN k ELSE IF Kind(line, last) = "," THEN last + 1 ELSE last]

FormulasOf(line) == Elements(line, 4, "formula", {"formula"})

LiteralsOf(line) == Elements(line, FormulasOf(line).next + 4, "literal", {"literal"})

(* The name in a literal, whose last two characters are = and the value.   *)
NameIn(literal) == Decoded(SubSeq(literal[2], 1, Len(literal[2]) - 2))

LabelOf(line) ==
    LET literals == LiteralsOf(line).elements
    IN  [k \in DOMAIN literals |-> <<NameIn(literals[k]).node, Last(literals[k][2]) = "1">>]

(* What may come of reading a line that is not as it should be.  Of a      *)
(* literal without value nothing is read but the memory before its text,   *)
(* which is written as well.                                               *)
StateProblems(line) ==
    LET literals == LiteralsOf(line)
        unreadable == {k \in DOMAIN literals.elements : ~NameIn(literals.elements[k]).ok}
    IN  IF \/ ~Starts(line, 2, <<":", "{">>)
           \/ ~Starts(line, FormulasOf(line).next, <<"}", "label", ":", "{">>)
        THEN {"failed"}
        ELSE IF unreadable # {} THEN {NameIn(literals.elements[Min(unreadable)]).outcome}
        ELSE CASE Kind(line, literals.next) = "stub" -> {"failed", "aborted"}
               [] Kind(line, literals.next) = "}" -> {}
               [] OTHER -> {"failed"}

Targets(line, k) == Elements(line, k, "id", {"id", "formula"})

Known(token) == token[1] = "id" /\ token[2] \in ToSet(gba.states)

ListProblems(line, k) ==
    IF \E i \in DOMAIN Targets(line, k).elements : ~Known(Targets(line, k).elements[i])
    THEN {"aborted"}
    ELSE IF Kind(line, Targets(line, k).next) = "}" THEN {} ELSE {"failed"}

ArcProblems(line) ==
    IF Kind(line, 2) # "id" THEN {"failed"}
    ELSE IF ~Known(line[2]) THEN {"aborted"}
    ELSE IF Kind(line, 1) = "->" /\ IsStateInitial(gba, line[2][2]) THEN {"aborted"}
    ELSE IF ~Starts(line, 3, <<"->", "{">>) THEN {"failed"}
    ELSE ListProblems(line, 5)

IsStateLine(line) == Kind(line, 1) = "id"

IsArcLine(line) == Kind(line, 1) \in {"->", "blank"}

IsFairLine(line) == Kind(line, 1) = "{"

(* The other lines, by the place of the parser; the last two may be        *)
(* followed by anything.                                                   *)
Expected ==
    [dashes1 |-> <<"dashes", "eol">>, formula1 |-> <<"formula", "eol">>,
     dashes2 |-> <<"dashes", "eol">>, formula2 |-> <<"formula", "eol">>,
     title |-> <<"States", "eol">>, states |-> <<"Arcs", "eol">>,
     arcs |-> <<"Fair Sets", "eol">>, fair |-> <<"End", "eol">>,
     stats |-> <<"Stats">>, cputime |-> <<"CPU time">>]

After ==
    [dashes1 |-> "formula1", formula1 |-> "dashes2", dashes2 |-> "formula2",
     formula2 |-> "title", title |-> "states", states |-> "arcs", arcs |-> "fair",
     fair |-> "stats", stats |-> "cputime", cputime |-> "eof"]

IsEntry ==
    \/ pc = "states" /\ IsStateLine(Head(lines))
    \/ pc = "arcs" /\ IsArcLine(Head(lines))
    \/ pc = "fair" /\ IsFairLine(Head(lines))

(* What may come of the next line, if it cannot be parsed.                 *)
Problems ==
    IF lines = << >> THEN {"failed"}
    ELSE IF ~IsEntry THEN IF Starts(Head(lines), 1, Expected[pc]) THEN {} ELSE {"failed"}
    ELSE CASE pc = "states" -> StateProblems(Head(lines))
           [] pc = "arcs" -> ArcProblems(Head(lines))
           [] pc = "fair" -> ListProblems(Head(lines), 2)

-----------------------------------------------------------------------------
(* A call.                                                                 *)

NoGba == << >>

(* The names are those of new files, or the default ones if none can be    *)
(* had.                                                                    *)
Start ==
    /\ pc = "idle" /\ calls < MaxCalls
    /\ formula' \in Formulas
    /\ calls' = calls + 1
    /\ \E temporary \in SUBSET {"input", "output"} :
        /\ names' = [file \in {"input", "output"} |->
                        <<file, IF file \in temporary THEN calls' ELSE 0>>]
        /\ files' = files \cup {names'[file] : file \in temporary}
    /\ fault' = FALSE
    /\ gba' = NoGba /\ ba' = NoGba
    /\ result' = "none"
    /\ pc' = "write"
    /\ UNCHANGED <<kept, text, lines, open, failed>>

(* An error leaves the call; the files stay.                               *)
Exit ==
    /\ failed' = failed \cup {calls}
    /\ result' = "failed"
    /\ text' = << >> /\ lines' = << >>
    /\ pc' = "idle"
    /\ gba' = NoGba

WriteInputFile ==
    /\ pc = "write"
    /\ text' = FormulaText(formula)
    /\ files' = files \cup {names["input"]}
    /\ pc' = "execute"
    /\ UNCHANGED <<call, lines, gba, open, result, ba, fault, calls, failed>>

FileNotOpened ==
    /\ pc \in {"write", "parse"}
    /\ fault' = TRUE
    /\ Exit
    /\ UNCHANGED <<call, files, open, ba, calls>>

(* The shell creates the output file.  Wring does not see whether all of   *)
(* its output could be written.                                            *)
Execute ==
    /\ pc = "execute"
    /\ \/ lines' = Output(text) /\ UNCHANGED fault
       \/ lines' \in Cut(Output(text)) /\ fault' = TRUE
    /\ files' = files \cup {names["output"]}
    /\ pc' = "parse"
    /\ UNCHANGED <<call, text, gba, open, result, ba, calls, failed>>

(* A status other than 0: there is no automaton, and perhaps no file.      *)
ExecuteFails ==
    /\ pc = "execute"
    /\ fault' = TRUE
    /\ \/ files' = files \cup {names["output"]}
       \/ UNCHANGED files
    /\ pc' = "destroy"
    /\ UNCHANGED <<call, text, lines, gba, open, result, ba, calls, failed>>

OpenOutput ==
    /\ pc = "parse"
    /\ gba' = EmptyGba
    /\ open' = {"output_file", "ids"}
    /\ pc' = "dashes1"
    /\ UNCHANGED <<call, files, text, lines, result, ba, fault, calls, failed>>

Parsing == pc \in DOMAIN Expected

ParseTo(place, automaton) ==
    /\ gba' = automaton
    /\ pc' = place
    /\ lines' = Tail(lines)
    /\ UNCHANGED <<call, files, text, open, result, ba, fault, calls, failed>>

ReadLine == Parsing /\ Problems = {} /\ ~IsEntry /\ ParseTo(After[pc], gba)

ReadState ==
    /\ pc = "states" /\ Problems = {} /\ IsEntry
    /\ ParseTo(pc, AddState(gba, Head(lines)[1][2], LabelOf(Head(lines))))

ReadArc ==
    /\ pc = "arcs" /\ Problems = {} /\ IsEntry
    /\ LET source == Head(lines)[2][2]
           targets == Targets(Head(lines), 5).elements
           Add(automaton, token) == AddTransition(automaton, source, token[2])
       IN  ParseTo(pc, FoldLeft(Add, IF Kind(Head(lines), 1) = "->"
                                     THEN AddStateToInitialStates(gba, source) ELSE gba,
                                targets))

ReadFairSet ==
    /\ pc = "fair" /\ Problems = {} /\ IsEntry
    /\ ParseTo(pc, AddFairnessConstraint(gba,
                       {token[2] : token \in ToSet(Targets(Head(lines), 2).elements)}))

(* Faulty variant: the file stays open after an error.                     *)
LeakyParserError ==
    /\ Parsing /\ "failed" \in Problems
    /\ open' = open \ {"ids"}
    /\ Exit
    /\ UNCHANGED <<call, files, ba, fault, calls>>

ParserError ==
    /\ Parsing /\ "failed" \in Problems
    /\ open' = {}
    /\ Exit
    /\ UNCHANGED <<call, files, ba, fault, calls>>

(* A failed assertion ends the process.                                    *)
Abort ==
    /\ Parsing /\ "aborted" \in Problems
    /\ pc' = "aborted"
    /\ UNCHANGED <<call, files, text, lines, gba, open, result, ba, fault, calls, failed>>

ReadEnd ==
    /\ pc = "eof" /\ lines = << >>
    /\ open' = {}
    /\ pc' = "destroy"
    /\ UNCHANGED <<call, files, text, lines, gba, result, ba, fault, calls, failed>>

(* Faulty variant: only the input file is removed.                         *)
ForgetfulDestroy ==
    /\ pc = "destroy"
    /\ files' = files \ {names["input"]}
    /\ text' = << >> /\ lines' = << >>
    /\ pc' = "returned"
    /\ UNCHANGED <<call, gba, open, result, ba, fault, calls, failed>>

Destroy ==
    /\ pc = "destroy"
    /\ files' = files \ {names[file] : file \in {"input", "output"} \ kept}
    /\ text' = << >> /\ lines' = << >>
    /\ pc' = "returned"
    /\ UNCHANGED <<call, gba, open, result, ba, fault, calls, failed>>

Usable == gba # NoGba /\ FairnessConstraintsCount(gba) <= 1

(* The caller makes the automaton simple, which it cannot always be.       *)
Accept ==
    /\ pc = "returned"
    /\ Usable
    /\ ba' = IF FairnessConstraintsCount(gba) = 0
             THEN AddFairnessConstraint(gba, ToSet(gba.states)) ELSE gba
    /\ result' = "accepted"
    /\ gba' = NoGba
    /\ pc' = "idle"
    /\ UNCHANGED <<call, files, text, lines, open, fault, calls, failed>>

Refuse ==
    /\ pc = "returned"
    /\ ~Usable
    /\ result' = "refused"
    /\ gba' = NoGba
    /\ pc' = "idle"
    /\ UNCHANGED <<call, files, text, lines, open, ba, fault, calls, failed>>

Init ==
    /\ formula \in Formulas
    /\ kept \in SUBSET {"input", "output"}
    /\ names = << >>
    /\ files = {} /\ open = {} /\ failed = {}
    /\ text = << >> /\ lines = << >>
    /\ gba = NoGba /\ ba = NoGba
    /\ pc = "idle" /\ result = "none"
    /\ fault = FALSE /\ calls = 0

Next ==
    \/ Start \/ WriteInputFile \/ FileNotOpened \/ Execute \/ ExecuteFails \/ OpenOutput
    \/ ReadLine \/ ReadState \/ ReadArc \/ ReadFairSet \/ ParserError \/ Abort \/ ReadEnd
    \/ Destroy \/ Accept \/ Refuse

Spec == Init /\ [][Next]_vars

-----------------------------------------------------------------------------
(* Properties.  The names in f survive the trip.                           *)
RECURSIVE NamesSurvive(_)
NamesSurvive(f) ==
    IF f[1] \in NameTypes THEN ~HasZR(f) ELSE \A k \in 2 .. Len(f) : NamesSurvive(f[k])

Arcs(A) == {<<s, t>> \in ToSet(A.states) \X ToSet(A.states) : t \in ToSet(A.next[s])}

FairSets(A) == {ToSet(A.fair[k]) : k \in DOMAIN A.fair}

(* The automaton the caller accepts is the one Wring has for the formula   *)
(* of this call: its states with their labels in the names of the program, *)
(* its arcs, found from either end, its initial and its fair states        *)
(* (parse_output_file, construct_ba).                                      *)
TranslationIsFaithful ==
    result = "accepted" /\ NamesSurvive(formula) =>
        LET A == Wring[formula]
            all == ToSet(A.states)
        IN  /\ IsSimple(ba)
            /\ ToSet(ba.states) = all /\ Len(ba.states) = Cardinality(all)
            /\ {s \in all : IsStateInitial(ba, s)} = A.initial
            /\ \A s \in all :
                /\ ba.label[s] = A.label[s]
                /\ ToSet(ba.outgoing[s]) = {a \in Arcs(A) : a[1] = s}
                /\ ToSet(ba.incoming[s]) = {a \in Arcs(A) : a[2] = s}
                /\ IsStateInFirstFairnessConstraint(ba, s) <=> \A F \in FairSets(A) : s \in F
            /\ Len(ba.transitions) = Cardinality(Arcs(A))

(* No automaton is lost but by something outside the program, or because   *)
(* it has several fairness constraints: what is written for a formula can  *)
(* be read again, and no assertion fails (ltl2gba).                        *)
ErrorsHaveCauses ==
    /\ NamesSurvive(formula) /\ ~fault => result # "failed" /\ pc # "aborted"
    /\ NamesSurvive(formula) /\ ~fault /\ result = "refused" => Cardinality(FairSets(Wring[formula])) > 1

(* Between calls the parser holds nothing, and the only files left are     *)
(* those to be kept and those of calls that ended with an error (destroy,  *)
(* the exits of parse_output_file).                                        *)
NothingLeft ==
    pc = "idle" =>
        /\ open = {}
        /\ \A file \in files :
            \/ file[1] \in kept
            \/ file[2] \in failed
            \/ file[2] = 0 /\ failed # {}
        /\ result \in {"accepted", "refused"} =>
            \A file \in {"input", "output"} : names[file] \in files => file \in kept
=============================================================================
