---------------------------- MODULE ProgramLine ----------------------------
(***************************************************************************)
(* The command line of the executable (sm_ParseLineOptions): a loop over   *)
(* the words with a pointer and a count that move separately.  The build   *)
(* has a preprocessor and no SAT solver.  What the line sets is a partial  *)
(* function; a field outside its domain keeps the default of NuSMV.        *)
(***************************************************************************)
EXTENDS Integers, SequencesExt

LOCAL INSTANCE TLC

CONSTANT Lines  \* command lines: each a sequence of options with their arguments

VARIABLES
    line,    \* what was typed
    argv,    \* the position of the word to read
    argc,    \* the count of words to read
    config,  \* what the line has set
    at       \* "line", "ready", or how the program ended

lineVars == <<line, argv, argc, config, at>>

Words == FlattenSeq(line)

here == Words[argv]

(* The pointer may be one past the last word, where argv holds NULL.       *)
argument == IF argv < Len(Words) THEN Words[argv + 1] ELSE "NULL"

NoSettings == [f \in {} |-> FALSE]

-----------------------------------------------------------------------------
(* The tables of options.                                                  *)

(* Options without an argument, by what they set.  A second test for -s,   *)
(* to print strategies, is never reached.                                  *)
SessionFlags ==
    "-quiet"      :> ("quiet" :> TRUE) @@
    "-int"        :> ("batch" :> FALSE) @@
    "-s"          :> ("ignoreInitFile" :> TRUE) @@
    "-old"        :> ("backwardComp" :> TRUE) @@
    "-old_div_op" :> ("ansiDiv" :> FALSE) @@
    "-dcx"        :> ("counterExamples" :> FALSE) @@
    "-ctt"        :> ("checkFsm" :> TRUE) @@
    "-lp"         :> ("listProperties" :> TRUE)

CheckingFlags ==
    "-is"  :> ("ignoreSpec" :> TRUE) @@
    "-ic"  :> ("ignoreCompute" :> TRUE) @@
    "-ils" :> ("ignoreLtl" :> TRUE) @@
    "-ips" :> ("ignorePsl" :> TRUE) @@
    "-ii"  :> ("ignoreInvar" :> TRUE) @@
    "-r"   :> ("printReachable" :> TRUE @@ "forward" :> TRUE @@ "useReachable" :> TRUE) @@
    "-f"   :> ("forward" :> TRUE @@ "useReachable" :> TRUE) @@
    "-df"  :> ("forward" :> FALSE @@ "useReachable" :> FALSE) @@
    "-flt" :> ("tableauForward" :> TRUE) @@
    "-AG"  :> ("agOnly" :> TRUE)

OrderingFlags ==
    "-reorder" :> ("reorder" :> TRUE) @@
    "-dynamic" :> ("dynamicReorder" :> TRUE)

PartitionFlags ==
    "-disable_bdd_cache" :> ("bddCache" :> FALSE) @@
    "-mono"              :> ("partition" :> "Monolithic") @@
    "-coi"               :> ("coi" :> TRUE) @@
    "-noaffinity"        :> ("affinity" :> FALSE) @@
    "-iwls95preorder"    :> ("preorder" :> TRUE)

GameFlags ==
    "-dp" :> NoSettings @@
    "-e"  :> ("printStrategy" :> TRUE @@ "strategyPrintout" :> TRUE
                                      @@ "indentedPrintout" :> TRUE)

Flags == SessionFlags @@ CheckingFlags @@ OrderingFlags @@ PartitionFlags
         @@ GameFlags

(* Options whose argument is a file: nothing looks whether there is one.   *)
Files == "-i"   :> "inputOrder"  @@ "-o"   :> "outputOrder" @@ "-t" :> "transOrder" @@
         "-ofm" :> "flatFile"    @@ "-obm" :> "boolFile"

(* Options whose argument is a number, and those that refuse a negative    *)
(* one.                                                                    *)
Numbered == "-n" :> "propNo" @@ "-v" :> "verbose" @@ "-thresh" :> "threshold" @@
            "-cp" :> "threshold" @@ "-iwls95" :> "clusterSize"

Naturals == {"-n"}

Partition == "-thresh" :> ("partition" :> "Threshold") @@ "-cp" :> ("partition" :> "Threshold")
             @@ "-iwls95" :> ("partition" :> "Iwls95CP")

PartitionOf(option) == IF option \in DOMAIN Partition THEN Partition[option] ELSE NoSettings

(* What strtol reads in a word it reads to its end: nothing is zero.       *)
Numbers == "" :> 0 @@ "1" :> 1 @@ "2" :> 2 @@ "-3" :> -3

(* Options whose argument is one of some names.                            *)
Named == "-m" :> "reorderMethod" @@ "-bdd_soh" :> "staticOrder" @@ "-sin" :> "symbInlining" @@
         "-rin" :> "rbcInlining" @@ "-ojeba" :> "justiceAlgorithm"

Names == [o \in {"-sin", "-rin"} |-> {"on", "off"}] @@
         "-m" :> {"sift"} @@ "-bdd_soh" :> {"basic"} @@ "-ojeba" :> {"EL_bwd"}

Helps == {"-h", "-help"}

(* The SAT options are compiled out.                                       *)
Unknown == {"-x", "-bmc"}

Known == DOMAIN Flags \cup DOMAIN Files \cup DOMAIN Numbered \cup DOMAIN Named
         \cup Helps \cup {"-source", "-load", "-cpp", "-pre"}

-----------------------------------------------------------------------------
(* The loop.                                                               *)

Advance(n) == argv' = argv + n /\ argc' = argc - n /\ UNCHANGED <<line, at>>

Exit(code) == at' = code /\ UNCHANGED <<line, argv, argc, config>>

Reads(options) == at = "line" /\ argc > 0 /\ here \in options

(* An option without an argument.                                          *)
SetFlags ==
    /\ Reads(DOMAIN Flags)
    /\ config' = Flags[here] @@ config
    /\ Advance(1)

SetFile ==
    /\ Reads(DOMAIN Files)
    /\ config' = Files[here] :> argument @@ config
    /\ Advance(2)

Acceptable(option, word) ==
    word \in DOMAIN Numbers /\ (option \in Naturals => Numbers[word] >= 0)

SetNumber ==
    /\ Reads(DOMAIN Numbered)
    /\ IF argc < 2 \/ ~Acceptable(here, argument)
       THEN Exit("refused")
       ELSE /\ config' = Numbered[here] :> Numbers[argument] @@ PartitionOf(here) @@ config
            /\ Advance(2)

SetName ==
    /\ Reads(DOMAIN Named)
    /\ IF argc < 2 \/ argument \notin Names[here]
       THEN Exit("refused")
       ELSE config' = Named[here] :> argument @@ config /\ Advance(2)

(* A script is only run at the prompt; the last one given is kept.         *)
SetScript ==
    /\ Reads({"-source", "-load"})
    /\ IF argc = 1
       THEN Exit("refused")
       ELSE config' = "script" :> argument @@ "batch" :> FALSE @@ config /\ Advance(2)

preprocessors == IF "pp" \in DOMAIN config THEN config["pp"] ELSE << >>

(* Faulty variant: the count moves over the option only.                   *)
ShortAddPreprocessor ==
    /\ Reads({"-cpp", "-pre"})
    /\ IF here = "-cpp"
       THEN config' = "pp" :> <<"cpp">> \o preprocessors @@ config /\ Advance(1)
       ELSE IF argc < 2
       THEN Exit("refused")
       ELSE /\ config' = "pp" :> Append(preprocessors, argument) @@ config
            /\ argv' = argv + 2 /\ argc' = argc - 1
            /\ UNCHANGED <<line, at>>

(* cpp goes before the preprocessors given so far, the others after them.  *)
AddPreprocessor ==
    /\ Reads({"-cpp", "-pre"})
    /\ IF here = "-cpp"
       THEN config' = "pp" :> <<"cpp">> \o preprocessors @@ config /\ Advance(1)
       ELSE IF argc < 2
       THEN Exit("refused")
       ELSE config' = "pp" :> Append(preprocessors, argument) @@ config /\ Advance(2)

(* A last word without a dash is the model; anything else is unknown.      *)
IsOption(word) == word \in Known \cup Unknown

TakeOperand ==
    /\ at = "line" /\ argc > 0 /\ here \notin Known
    /\ IF argc = 1 /\ ~IsOption(here)
       THEN config' = "inputFile" :> here @@ config /\ Advance(1)
       ELSE Exit("usage")

Usage == Reads(Helps) /\ Exit("usage")

EndOfLine ==
    /\ at = "line" /\ argc <= 0
    /\ Exit("ready")

LineInit ==
    /\ line \in Lines
    /\ argv = 1 /\ argc = Len(Words)
    /\ config = NoSettings
    /\ at = "line"

LineNext == \/ SetFlags \/ SetFile \/ SetNumber \/ SetName \/ SetScript
            \/ AddPreprocessor \/ TakeOperand \/ Usage \/ EndOfLine

-----------------------------------------------------------------------------
(* What a line means, option by option, whatever the loop does.            *)

Word(piece, k) == IF k \in DOMAIN piece THEN piece[k] ELSE "NULL"

Faulty(piece) ==
    LET option == piece[1]
        word   == Word(piece, 2)
    IN  \/ option \in DOMAIN Numbered /\ ~Acceptable(option, word)
        \/ option \in DOMAIN Named /\ word \notin Names[option]
        \/ option \in {"-source", "-load", "-pre"} /\ word = "NULL"

Meaning(piece) ==
    LET option == piece[1]
        word   == Word(piece, 2)
    IN  CASE option \in DOMAIN Flags    -> Flags[option]
          [] option \in DOMAIN Files    -> Files[option] :> word
          [] option \in DOMAIN Numbered -> Numbered[option] :> Numbers[word] @@ PartitionOf(option)
          [] option \in DOMAIN Named    -> Named[option] :> word
          [] option \in {"-source", "-load"} -> "script" :> word @@ "batch" :> FALSE
          [] option \notin Known        -> "inputFile" :> option
          [] OTHER                      -> NoSettings

SpeaksLast(k, f) == \A j \in DOMAIN line : j > k => f \notin DOMAIN Meaning(line[j])

(* However options follow each other, an argument is never taken for an    *)
(* option or the other way round: a line is refused for an argument that   *)
(* is missing or wrong and for nothing else, and of a line that is         *)
(* accepted every setting is the one of the last option that speaks of it, *)
(* cpp comes before the other preprocessors and these in their order, and  *)
(* no option, and not the model, was passed over.  Only the file options   *)
(* let the count and the pointer run past the end.                         *)
LineIsUnderstood ==
    /\ at = "line" /\ argc >= 0 => argv + argc = Len(Words) + 1
    /\ at = "refused" => \E k \in DOMAIN line : Faulty(line[k])
    /\ at = "ready" =>
          /\ argc < 0 => line[Len(line)][1] \in DOMAIN Files /\ Len(line[Len(line)]) = 1
          /\ \A k \in DOMAIN line : ~Faulty(line[k])
          /\ \A k \in DOMAIN line : \A f \in DOMAIN Meaning(line[k]) :
                SpeaksLast(k, f) => config[f] = Meaning(line[k])[f]
          /\ LET Of(option) == SelectSeq(line, LAMBDA piece : piece[1] = option)
             IN  preprocessors = [k \in DOMAIN Of("-cpp") |-> "cpp"]
                                 \o [k \in DOMAIN Of("-pre") |-> Of("-pre")[k][2]]
=============================================================================
