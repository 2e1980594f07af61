---------------------------- MODULE CommandLine ----------------------------
(***************************************************************************)
(* What the commands of the game mode do with their options and with their *)
(* streams (gameCmd.c): the option loop, the defaults, the prerequisites,  *)
(* the streams opened, the calls of a check, and the clean-up of every     *)
(* exit.  Options are read one at a time.  What is printed, and options    *)
(* that only change the layout, are left out.                              *)
(***************************************************************************)
EXTENDS Integers, Sequences

CONSTANTS
    Commands,    \* the commands typed
    Props,       \* the property database: type and player of each
    Situations,  \* the sets of stages the model may have passed
    MaxOptions   \* bound on the options of a command

Players == {1, 2}

SF07 == "check_ltlgame_sf07"

Core == "extract_unrealizable_core"

(* The commands that share one function, and the properties they check.    *)
SpecType ==
    [check_reach_target     |-> "reach_target",  check_atl_reach_target |-> "atl_reach_target",
     check_avoid_target     |-> "avoid_target",  check_reach_deadlock   |-> "reach_deadlock",
     check_avoid_deadlock   |-> "avoid_deadlock", check_buchi_game      |-> "buchi",
     check_gen_reactivity   |-> "gen_reactivity"]

CheckSpecs == DOMAIN SpecType

Selectors == {"check_property", "show_property"}

Writers == {"write_flat_model", "write_boolean_model"}

AllCommands == CheckSpecs \cup Selectors \cup Writers \cup {SF07, Core}

ASSUME CommandLineAssumption ==
    /\ Commands \subseteq AllCommands
    /\ MaxOptions \in Nat

VARIABLES
    stages,          \* what the model has passed
    defaultFile,     \* the environment names a file for written models
    cmd, opt, given, \* the command, its options, how many were read
    out, old,        \* outostream (ofileid) and old_outostream
    strategyStream,
    open,            \* what the command has opened or made and not released
    touched,         \* the files the command has opened for writing
    work,            \* the properties it has checked
    res,             \* what it returns
    pc

setting == <<stages, defaultFile>>

streams == <<out, old, strategyStream>>

vars == <<setting, cmd, opt, given, streams, open, touched, work, res, pc>>

-----------------------------------------------------------------------------
(* Options.  An option is a field and its value; getopt gives "unknown"    *)
(* for a letter the command does not have.                                 *)

Unset ==
    [more |-> FALSE, file |-> FALSE, prop |-> -1,
     strategy |-> FALSE, strategyFile |-> FALSE, algorithm |-> "none",
     kmin |-> -1, kmax |-> -1, who |-> -1,
     coreType |-> "none", init |-> TRUE, invar |-> TRUE, trans |-> TRUE, spec |-> TRUE, n |-> -1,
     type |-> "any", player |-> 0, status |-> "any", count |-> FALSE]

(* A text that is no natural number.                                       *)
NoNumber == -2

DefaultKmax == 20

Opt(field, values) == {field} \X values

Always == Opt("help", {TRUE}) \cup Opt("unknown", {TRUE})

Output == Opt("more", {TRUE}) \cup Opt("file", {TRUE})

(* Numbers of properties, and one that does not exist.                     *)
Number == Opt("prop", 1 .. Len(Props) + 1)

StrategyOptions == Opt("strategy", {TRUE}) \cup Opt("strategyFile", {TRUE})

(* Game_Who_from_string returns before it looks for the players' numbers;  *)
(* the numbers of Game_Who coincide with those of players all the same.    *)
WhoFromString ==
    [s \in {"n", "b", "p", "a", "w", "l", "1", "2"} |->
        CASE s = "n" -> 0 [] s = "b" -> 1 [] s = "p" -> 2 [] s = "a" -> 3
          [] s = "w" -> 4 [] s = "l" -> 5 [] OTHER -> -1]

BOTH == 1

LOSER == 5

AcceptedWho(c) == Players \cup IF c = SF07 THEN 1 .. 3 ELSE {LOSER, BOTH}

OptionsOf(c) ==
    Always \cup
    CASE c \in Writers -> Opt("file", {TRUE})
      [] c \in Selectors ->
            Number \cup Opt("type", {Props[k].type : k \in DOMAIN Props} \ {"atl_reach_target"}) \cup Opt("player", 0 .. 2)
            \cup IF c = "check_property" THEN {}
                 ELSE Output \cup Opt("count", {TRUE}) \cup Opt("status", {"Unchecked", "True", "False"})
      [] c \in CheckSpecs ->
            Output \cup Number \cup StrategyOptions
            \cup Opt("algorithm", {a \in {"default", "other"} : c = "check_avoid_target"})
      [] c = SF07 ->
            Output \cup Number \cup StrategyOptions
            \cup Opt("kmin", {NoNumber, 0, 1, 21}) \cup Opt("kmax", {NoNumber, 0, 1}) \cup Opt("who", DOMAIN WhoFromString)
      [] c = Core ->
            Output \cup Number
            \cup Opt("algorithm", {"explicit", "actvars", "other"})
            \cup Opt("coreType", {"core", "fix", "other"})
            \cup {"init", "invar", "trans", "spec"} \X {FALSE}
            \cup Opt("who", DOMAIN WhoFromString) \cup Opt("n", {NoNumber, 0, 1})

Bad(o) ==
    CASE o[1] = "algorithm"      -> o[2] = "other"
      [] o[1] = "coreType"       -> o[2] = "other"
      [] o[1] = "who"            -> WhoFromString[o[2]] \notin AcceptedWho(cmd)
      [] o[1] \in {"kmin", "kmax", "n"} -> o[2] = NoNumber
      [] o[1] = "player"         -> o[2] \notin Players
      [] OTHER                   -> FALSE

(* Options that may be given once; the others set a flag again.            *)
OnceOnly(c) ==
    {"prop", "algorithm", "coreType", "kmin", "kmax", "n", "who", "init", "invar", "trans", "spec",
     "type", "player", "status"}
        \cup (IF c \in CheckSpecs THEN {"more", "strategyFile"} ELSE {})
        \cup (IF c \in CheckSpecs \cup {"show_property", "write_flat_model"} THEN {"file"} ELSE {})

Filter == {"type", "player", "status"}

Refused(o) ==
    \/ o[1] = "help"
    \/ o[1] = "unknown" /\ cmd \notin Writers
    \/ o[1] \in OnceOnly(cmd) /\ opt[o[1]] # Unset[o[1]]
    \/ o[1] = "more" /\ opt.file
    \/ o[1] = "file" /\ opt.more
    \/ o[1] \in Filter /\ opt.prop # -1
    \/ o[1] = "prop" /\ \E f \in Filter : opt[f] # Unset[f]
    \/ Bad(o)

(* A strategy file implies that a strategy is wanted.                      *)
With(o) ==
    IF o[1] = "unknown" THEN opt
    ELSE IF o[1] = "strategyFile" THEN [opt EXCEPT !.strategyFile = TRUE, !.strategy = TRUE]
    ELSE IF o[1] = "who" THEN [opt EXCEPT !.who = WhoFromString[o[2]]]
    ELSE [opt EXCEPT ![o[1]] = o[2]]

-----------------------------------------------------------------------------
(* Defaults, and combinations the core extraction refuses.                 *)

CoreDefaults(o) ==
    LET algo == IF o.algorithm = "none" THEN "explicit" ELSE o.algorithm
        actvars == algo = "actvars"
    IN  [o EXCEPT !.algorithm = algo,
                  !.coreType  = IF @ = "none" THEN "core" ELSE @,
                  !.who       = IF @ # -1 THEN @ ELSE IF actvars THEN BOTH ELSE LOSER,
                  !.n         = IF actvars /\ @ = -1 THEN 1 ELSE @]

(* Faulty variant: a number is not looked at with the explicit algorithm.  *)
LaxSuitable(o) ==
    IF o.algorithm = "actvars"
    THEN o.who \in Players \cup {BOTH}
    ELSE o.who \in {LOSER, BOTH} /\ o.coreType = "core"

Suitable(o) ==
    IF o.algorithm = "actvars"
    THEN o.who \in Players \cup {BOTH}
    ELSE o.who \in {LOSER, BOTH} /\ o.coreType = "core" /\ o.n = -1

(* The bounds are only completed after the streams have been opened.       *)
Bounds(o) ==
    IF cmd # SF07 THEN o
    ELSE [o EXCEPT !.kmin = IF @ = -1 THEN 0 ELSE @,
                   !.kmax = IF @ = -1 THEN DefaultKmax ELSE @,
                   !.who  = IF @ = -1 THEN BOTH ELSE @]

Needed(c) ==
    CASE c = "check_property"                        -> {"build"}
      [] c \in {"show_property", "write_flat_model"} -> {"flatten"}
      [] c = "write_boolean_model"                   -> {"bool"}
      [] c = SF07                                    -> {"encode", "build", "bool"}
      [] OTHER                                       -> {"encode", "build"}

-----------------------------------------------------------------------------
(* Reading the options.                                                    *)

Exit(r) == res' = r /\ pc' = "cleanup"

GoOn(next) == res' = res /\ pc' = next

Type(c) ==
    /\ pc = "prompt"
    /\ cmd' = c /\ opt' = Unset /\ given' = 0
    /\ out' = IF c \in Writers THEN "none" ELSE "own"
    /\ old' = "none" /\ strategyStream' = "none"
    /\ open' = {} /\ touched' = {} /\ work' = {}
    /\ res' = "none" /\ pc' = "options"
    /\ UNCHANGED setting

(* The number of a property is looked up at once.                          *)
TakeOption(o) ==
    /\ pc = "options" /\ given < MaxOptions
    /\ given' = given + 1
    /\ IF Refused(o) THEN Exit("usage") /\ opt' = opt
       ELSE IF o[1] = "prop" /\ o[2] > Len(Props) THEN Exit("error") /\ opt' = opt
       ELSE GoOn("options") /\ opt' = With(o)
    /\ UNCHANGED <<setting, cmd, streams, open, touched, work>>

(* Faulty variant: all commands open their streams first.                  *)
EagerEndOfOptions(operands) ==
    /\ pc = "options"
    /\ opt' = IF cmd = Core THEN CoreDefaults(opt) ELSE opt
    /\ IF operands \/ (cmd = Core /\ ~Suitable(opt'))
       THEN Exit("usage")
       ELSE GoOn("output")
    /\ UNCHANGED <<setting, cmd, given, streams, open, touched, work>>

(* The files of written models are opened before the stages are checked.   *)
EndOfOptions(operands) ==
    /\ pc = "options"
    /\ opt' = IF cmd = Core THEN CoreDefaults(opt) ELSE opt
    /\ IF operands \/ (cmd = Core /\ ~Suitable(opt'))
       THEN Exit("usage")
       ELSE GoOn(IF cmd \in Writers THEN "output" ELSE "stages")
    /\ UNCHANGED <<setting, cmd, given, streams, open, touched, work>>

CheckStages ==
    /\ pc = "stages"
    /\ IF ~(Needed(cmd) \subseteq stages) THEN Exit("error")
       ELSE GoOn(IF cmd \in Writers \cup {"check_property"} THEN "run" ELSE "output")
    /\ UNCHANGED <<setting, cmd, opt, given, streams, open, touched, work>>

-----------------------------------------------------------------------------
(* Streams.                                                                *)

Redirected == opt.more \/ opt.file

Wanted == Redirected \/ (cmd \in Writers /\ defaultFile)

OutputReady ==
    GoOn(CASE cmd \in Writers                -> "stages"
           [] cmd \in CheckSpecs \cup {SF07} -> "strategy"
           [] OTHER                          -> "run")

KeepOutput ==
    /\ pc = "output" /\ ~Wanted
    /\ out' = "own"
    /\ OutputReady
    /\ UNCHANGED <<setting, cmd, opt, given, old, strategyStream, open, touched, work>>

OpenOutput ==
    /\ pc = "output" /\ Wanted
    /\ out' = "opened"
    /\ old' = IF cmd \in Writers THEN "none" ELSE "own"
    /\ open' = open \cup {"output"}
    /\ touched' = IF opt.more THEN touched ELSE touched \cup {"output"}
    /\ OutputReady
    /\ UNCHANGED <<setting, cmd, opt, given, strategyStream, work>>

(* Only the shared function of the checks keeps the failed stream.         *)
OutputFails ==
    /\ pc = "output" /\ Wanted
    /\ IF cmd \in CheckSpecs THEN out' = "none" /\ old' = "own" ELSE UNCHANGED <<out, old>>
    /\ Exit("error")
    /\ UNCHANGED <<setting, cmd, opt, given, strategyStream, open, touched, work>>

OpenStrategy ==
    /\ pc = "strategy"
    /\ \/ /\ ~opt.strategyFile
          /\ GoOn("run")
          /\ UNCHANGED <<strategyStream, open, touched>>
       \/ /\ opt.strategyFile
          /\ strategyStream' = "opened"
          /\ open' = open \cup {"strategy"} /\ touched' = touched \cup {"strategy"}
          /\ GoOn("run")
       \/ /\ opt.strategyFile
          /\ Exit("error")
          /\ UNCHANGED <<strategyStream, open, touched>>
    /\ UNCHANGED <<setting, cmd, opt, given, out, old, work>>

-----------------------------------------------------------------------------
(* What is done.                                                           *)

(* The properties are checked in the order of their numbers, until a check *)
(* raises an error.                                                        *)
RunOn(todo) ==
    \/ work' = todo /\ Exit("ok")
    \/ \E last \in todo : work' = {k \in todo : k <= last} /\ Exit("error")

TypeChecked ==
    CASE cmd = SF07 -> "ltl" [] cmd = Core -> "gen_reactivity" [] OTHER -> SpecType[cmd]

OfType(k) == Props[k].type = TypeChecked

Todo == IF opt.prop # -1 THEN {opt.prop} ELSE {k \in DOMAIN Props : OfType(k)}

(* The bounds are only completed and compared here, with all streams open. *)
RunChecks ==
    /\ pc = "run" /\ cmd \in CheckSpecs \cup {SF07, Core}
    /\ opt' = Bounds(opt)
    /\ IF opt'.kmax < opt'.kmin THEN Exit("usage") /\ work' = work
       ELSE IF opt.prop # -1 /\ ~OfType(opt.prop) THEN Exit("error") /\ work' = work
       ELSE RunOn(Todo)
    /\ UNCHANGED <<setting, cmd, given, streams, open, touched>>

Passes(k) ==
    /\ opt.type \in {"any", Props[k].type}
    /\ opt.player \in {0, Props[k].player}

Selected == IF opt.prop # -1 THEN {opt.prop} ELSE {k \in DOMAIN Props : Passes(k)}

(* LTL games need the Boolean machine; this is seen before any is checked. *)
CheckProperty ==
    /\ pc = "run" /\ cmd = "check_property"
    /\ IF (\E k \in Selected : Props[k].type = "ltl") /\ "bool" \notin stages
       THEN Exit("error") /\ work' = work
       ELSE RunOn(Selected)
    /\ UNCHANGED <<setting, cmd, opt, given, streams, open, touched>>

(* An error while listing returns at once, without the clean-up.           *)
ShowProperty ==
    /\ pc = "run" /\ cmd = "show_property"
    /\ \/ Exit("ok")
       \/ ~opt.count /\ opt.prop # -1 /\ Exit("error")
       \/ ~opt.count /\ opt.prop = -1 /\ res' = "error" /\ pc' = "prompt"
    /\ UNCHANGED <<setting, cmd, opt, given, streams, open, touched, work>>

(* The specifications are printed with the environment of the encoder.     *)
SplitAndPrintSpec(hasEncoder) == IF hasEncoder THEN {"ok", "error"} ELSE {"undefined"}

(* Writing the sections of a player may fail, too.  A flat model is        *)
(* written without an encoder.                                             *)
WriteFlatModel ==
    /\ pc = "run" /\ cmd = "write_flat_model"
    /\ \E r \in {"error"} \cup SplitAndPrintSpec(FALSE) :
            IF r = "undefined" THEN GoOn(r) ELSE Exit(r)
    /\ UNCHANGED <<setting, cmd, opt, given, streams, open, touched, work>>

(* An error after its creation leaves the layer for determinization.       *)
WriteBooleanModel ==
    /\ pc = "run" /\ cmd = "write_boolean_model"
    /\ \/ Exit("error") /\ open' = open
       \/ \E r \in SplitAndPrintSpec(TRUE) :
            Exit(r) /\ open' = IF r = "ok" THEN open ELSE open \cup {"layer"}
    /\ UNCHANGED <<setting, cmd, opt, given, streams, touched, work>>

(* What the core extraction asserts of its arguments.                      *)
CoreArguments(o) ==
    \/ /\ o.algorithm = "actvars" /\ o.coreType \in {"core", "fix"}
       /\ o.who \in Players \cup {BOTH} /\ o.n >= -1
    \/ /\ o.algorithm = "explicit" /\ o.coreType = "core"
       /\ o.who \in {LOSER, BOTH} /\ o.n = -1

-----------------------------------------------------------------------------
(* The clean-up of the exits.                                              *)

(* Whether a stream was asked for decides, not whether one was opened.     *)
CloseWanted ==
    /\ open' = open \ ({"strategy"} \cup IF Redirected THEN {"output"} ELSE {})
    /\ out' = IF Redirected THEN old ELSE out
    /\ pc' = IF Redirected /\ out = "own" THEN "undefined" ELSE "prompt"

CloseSaved ==
    LET replaced == Redirected /\ old # "none"
    IN  /\ open' = open \ ({"strategy"} \cup IF replaced THEN {"output"} ELSE {})
        /\ out' = IF replaced THEN old ELSE out
        /\ pc' = "prompt"

CloseFile ==
    /\ open' = open \ {"output"}
    /\ out' = out
    /\ pc' = IF cmd = "write_flat_model" /\ out = "none" THEN "undefined" ELSE "prompt"

(* Faulty variant: every command cleans up like the shared function.       *)
WantedCleanUp ==
    /\ pc = "cleanup"
    /\ CASE cmd \in Writers -> CloseFile
         [] OTHER           -> CloseWanted
    /\ UNCHANGED <<setting, cmd, opt, given, old, strategyStream, touched, work, res>>

CleanUp ==
    /\ pc = "cleanup"
    /\ CASE cmd \in CheckSpecs -> CloseWanted
         [] cmd \in Writers    -> CloseFile
         [] OTHER              -> CloseSaved
    /\ UNCHANGED <<setting, cmd, opt, given, old, strategyStream, touched, work, res>>

Init ==
    /\ stages \in Situations /\ defaultFile \in BOOLEAN
    /\ cmd = "none" /\ opt = Unset /\ given = 0
    /\ out = "own" /\ old = "none" /\ strategyStream = "none"
    /\ open = {} /\ touched = {} /\ work = {}
    /\ res = "none" /\ pc = "prompt"

Next ==
    \/ \E c \in Commands : Type(c)
    \/ pc = "options" /\ \E o \in OptionsOf(cmd) : TakeOption(o)
    \/ \E operands \in BOOLEAN : EndOfOptions(operands)
    \/ CheckStages
    \/ KeepOutput \/ OpenOutput \/ OutputFails \/ OpenStrategy
    \/ RunChecks \/ CheckProperty \/ ShowProperty \/ WriteFlatModel \/ WriteBooleanModel
    \/ CleanUp

Spec == Init /\ [][Next]_vars

-----------------------------------------------------------------------------
(* Properties.                                                             *)

(* However a command ends, it has closed what it opened and nothing else.  *)
(* The exceptions: show_property returns from an error in its list without *)
(* its clean-up, and an error in write_boolean_model leaves a layer; a     *)
(* check that is refused or fails before its stream is opened closes the   *)
(* program's own, and write_flat_model closes a stream it does not have or *)
(* dies when it comes to the specifications.                               *)
OutputRestored ==
    /\ pc = "prompt" =>
        open \subseteq (IF cmd = "show_property" /\ res = "error" THEN {"output"} ELSE {})
                  \cup (IF cmd = "write_boolean_model" /\ res = "error" THEN {"layer"} ELSE {})
    /\ pc = "undefined" =>
        \/ cmd = "write_flat_model" /\ (out = "none" \/ Needed(cmd) \subseteq stages)
        \/ cmd \in CheckSpecs /\ Redirected /\ res \in {"usage", "error"} /\ touched = {}

(* A command that is refused has checked nothing and written over no file, *)
(* and so has one that comes too early.  Models are written to a file that *)
(* is opened, and emptied, before the stage is looked at, and the bounds   *)
(* of check_ltlgame_sf07 are only compared when its files are open.        *)
RefusedDoesNothing ==
    /\ res = "usage" => /\ work = {}
                        /\ touched # {} => cmd = SF07 /\ 0 <= opt.kmax /\ opt.kmax < opt.kmin
    /\ cmd # "none" /\ ~(Needed(cmd) \subseteq stages) =>
            work = {} /\ (touched # {} => cmd \in Writers)

(* The arguments the options make are as the functions called assert,      *)
(* whatever options were given in whatever order: the stream of the        *)
(* strategy is open exactly if it has a name, output goes one way, the     *)
(* bounds are in order and all is as the core extraction wants it; and     *)
(* every property that is handed over has the type the function is for.    *)
(* What the check of LTL games also asserts, of the status of its property *)
(* and of the initial condition, is a matter of the session, not of the    *)
(* line: see GameSession.                                                  *)
ArgumentsMeetAssertions ==
    /\ pc = "run" =>
        /\ ~(opt.more /\ opt.file)
        /\ opt.strategyFile <=> strategyStream = "opened"
        /\ opt.player \in Players \cup {0}
    /\ pc = "run" /\ cmd = Core => CoreArguments(opt)
    /\ cmd = SF07 /\ work # {} =>
        0 <= opt.kmin /\ opt.kmin <= opt.kmax /\ opt.who \in 1 .. 3
    /\ cmd \in CheckSpecs \cup {SF07, Core} =>
        \A k \in work : Props[k].type = TypeChecked
=============================================================================
