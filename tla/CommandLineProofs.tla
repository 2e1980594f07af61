-------------------------- MODULE CommandLineProofs --------------------------
(***************************************************************************)
(* Theorems about the options and the streams of the commands, for every   *)
(* property database, every number of options and every set of stages the  *)
(* model may have passed.                                                  *)
(***************************************************************************)
EXTENDS CommandLine, TLAPS

-----------------------------------------------------------------------------
(* The invariant.                                                          *)

(* What can be read of the options, whatever was given in whatever order.  *)
OptionsInv ==
    /\ DOMAIN opt = DOMAIN Unset
    /\ opt.more \in BOOLEAN /\ opt.file \in BOOLEAN /\ opt.strategyFile \in BOOLEAN
    /\ ~(opt.more /\ opt.file)
    /\ cmd \in Writers => ~opt.more
    /\ opt.strategyFile => cmd \in CheckSpecs \cup {SF07}
    /\ opt.player \in Players \cup {0}
    /\ opt.kmin \in Nat \cup {-1} /\ opt.kmax \in Nat \cup {-1}
    /\ cmd # SF07 => opt.kmin = -1 /\ opt.kmax = -1
    /\ cmd \in {SF07, Core} => opt.who \in {-1} \cup AcceptedWho(cmd)
    /\ cmd = Core => /\ opt.algorithm \in {"none", "explicit", "actvars"}
                     /\ opt.coreType \in {"none", "core", "fix"}
                     /\ opt.n \in {-1, 0, 1}

PhaseInv ==
    /\ cmd \in AllCommands \cup {"none"}
    /\ cmd = "none" => /\ pc = "prompt" /\ res = "none"
                       /\ open = {} /\ touched = {} /\ work = {}
    /\ pc \in {"prompt", "options", "stages", "output", "strategy", "run", "cleanup",
               "undefined"}
    /\ pc \in {"options", "stages", "output", "strategy", "run"} => res = "none" /\ work = {}
    /\ pc \in {"strategy", "run"} \/ (pc = "output" /\ cmd \notin Writers) =>
            Needed(cmd) \subseteq stages
    /\ pc = "output" => cmd # "check_property"
    /\ pc = "strategy" => cmd \in CheckSpecs \cup {SF07}
    /\ pc \in {"stages", "output", "strategy", "run"} /\ cmd = Core => CoreArguments(opt)

(* Nothing has been opened.                                                *)
Untouched ==
    /\ out = IF cmd \in Writers THEN "none" ELSE "own"
    /\ old = "none" /\ strategyStream = "none"
    /\ open = {} /\ touched = {}

(* The stream of the output is the one that is wanted.                     *)
OutputChosen ==
    IF Wanted
    THEN out = "opened" /\ old = (IF cmd \in Writers THEN "none" ELSE "own")
    ELSE out = "own" /\ old = "none" /\ "output" \notin open

(* What the clean-up of the command expects, and what it cannot handle.    *)
CleanUpInv ==
    /\ res # "none"
    /\ cmd \in CheckSpecs =>
            /\ open \subseteq {"output", "strategy"}
            /\ "output" \in open => Redirected
            /\ Redirected /\ out = "own" => res \in {"usage", "error"} /\ touched = {}
    /\ cmd \in Writers =>
            /\ open \subseteq {"output", "layer"}
            /\ "layer" \in open => cmd = "write_boolean_model" /\ res = "error"
    /\ cmd \notin CheckSpecs \cup Writers =>
            /\ open \subseteq {"output", "strategy"}
            /\ "output" \in open => Redirected /\ old # "none"

StreamsInv ==
    /\ pc \in {"options", "output"} => Untouched
    /\ pc = "stages" => IF cmd \in Writers
                        THEN /\ OutputChosen
                             /\ open \subseteq {"output"} /\ strategyStream = "none"
                        ELSE Untouched
    /\ pc = "strategy" =>
            OutputChosen /\ open \subseteq {"output"} /\ strategyStream = "none"
    /\ pc = "run" =>
            /\ IF cmd = "check_property" THEN Untouched ELSE OutputChosen
            /\ open \subseteq IF cmd \in Writers THEN {"output"} ELSE {"output", "strategy"}
            /\ opt.strategyFile <=> strategyStream = "opened"
            /\ "strategy" \in open => strategyStream = "opened"
    /\ pc = "cleanup" => CleanUpInv

WorkInv ==
    /\ cmd = SF07 /\ work # {} =>
            0 <= opt.kmin /\ opt.kmin <= opt.kmax /\ opt.who \in 1 .. 3
    /\ cmd \in CheckSpecs \cup {SF07, Core} => \A k \in work : Props[k].type = TypeChecked

CommandInv ==
    OptionsInv /\ PhaseInv /\ StreamsInv /\ WorkInv /\ OutputRestored /\ RefusedDoesNothing

-----------------------------------------------------------------------------
(* Commands and options.                                                   *)

LEMMA CommandNames ==
    /\ CheckSpecs = {"check_reach_target", "check_atl_reach_target", "check_avoid_target",
                     "check_reach_deadlock", "check_avoid_deadlock", "check_buchi_game",
                     "check_gen_reactivity"}
    /\ "none" \notin AllCommands
    /\ SF07 # Core /\ SF07 \notin CheckSpecs \cup Writers \cup Selectors
    /\ Core \notin CheckSpecs \cup Writers \cup Selectors
    /\ CheckSpecs \cap Writers = {} /\ Selectors \cap (CheckSpecs \cup Writers) = {}
<1>1. CheckSpecs = {"check_reach_target", "check_atl_reach_target", "check_avoid_target",
                    "check_reach_deadlock", "check_avoid_deadlock", "check_buchi_game",
                    "check_gen_reactivity"}
  BY DEF CheckSpecs, SpecType
<1>. QED  BY <1>1 DEF AllCommands, Writers, Selectors, SF07, Core

LEMMA UnsetFields ==
    DOMAIN Unset = {"more", "file", "prop", "strategy", "strategyFile", "algorithm", "kmin",
                    "kmax", "who", "coreType", "init", "invar", "trans", "spec", "n", "type",
                    "player", "status", "count"}
  BY DEF Unset

(* The options a command has, as far as their values matter here.          *)
LEMMA OptionIs ==
    ASSUME NEW c \in AllCommands, NEW o \in OptionsOf(c)
    PROVE  /\ o[1] \in {"help", "unknown"} \cup DOMAIN Unset
           /\ o[1] \in {"kmin", "kmax"} => c = SF07 /\ o[2] \in {NoNumber} \cup Nat
           /\ o[1] \in {"strategy", "strategyFile"} => c \in CheckSpecs \cup {SF07}
           /\ o[1] = "more" => c \notin Writers
           /\ o[1] \in {"more", "file"} => o[2] = TRUE
           /\ o[1] = "player" => o[2] \in 0 .. 2
           /\ c = Core =>
                /\ o[1] = "algorithm" => o[2] \in {"explicit", "actvars", "other"}
                /\ o[1] = "coreType" => o[2] \in {"core", "fix", "other"}
                /\ o[1] = "n" => o[2] \in {NoNumber, 0, 1}
<1>1. CASE c \in Writers
  <2>1. o \in Always \cup Opt("file", {TRUE})
    BY <1>1, CommandNames DEF OptionsOf
  <2>. QED  BY <1>1, <2>1, CommandNames, UnsetFields
          DEF Opt, Always, Output, Number, StrategyOptions
<1>2. CASE c \in Selectors
  <2>1. o \in Always \cup Number \cup Output \cup Opt("player", 0 .. 2)
            \cup ({"type", "status", "count"} \X {o[2]})
    BY <1>2, CommandNames DEF OptionsOf, Opt
  <2>. QED  BY <1>2, <2>1, CommandNames, UnsetFields
          DEF Opt, Always, Output, Number, StrategyOptions
<1>3. CASE c \in CheckSpecs
  <2>1. o \in Always \cup Output \cup Number \cup StrategyOptions
            \cup Opt("algorithm", {"default", "other"})
    BY <1>3, CommandNames DEF OptionsOf, Opt
  <2>. QED  BY <1>3, <2>1, CommandNames, UnsetFields
          DEF Opt, Always, Output, Number, StrategyOptions
<1>4. CASE c = SF07
  <2>1. o \in Always \cup Output \cup Number \cup StrategyOptions
            \cup Opt("kmin", {NoNumber, 0, 1, 21}) \cup Opt("kmax", {NoNumber, 0, 1})
            \cup ({"who"} \X {o[2]})
    BY <1>4, CommandNames DEF OptionsOf, Opt
  <2>2. /\ o[1] \in {"help", "unknown", "more", "file", "prop", "strategy", "strategyFile",
                     "kmin", "kmax", "who"}
        /\ o[1] \in {"more", "file"} => o[2] = TRUE
        /\ o[1] \in {"kmin", "kmax"} => o[2] \in {NoNumber, 0, 1, 21}
    BY <2>1 DEF Opt, Always, Output, Number, StrategyOptions
  <2>. QED  BY <1>4, <2>2, CommandNames, UnsetFields
<1>5. CASE c = Core
  <2>1. o \in Always \cup Output \cup Number
            \cup Opt("algorithm", {"explicit", "actvars", "other"})
            \cup Opt("coreType", {"core", "fix", "other"})
            \cup ({"init", "invar", "trans", "spec", "who"} \X {o[2]})
            \cup Opt("n", {NoNumber, 0, 1})
    BY <1>5, CommandNames DEF OptionsOf, Opt
  <2>. QED  BY <1>5, <2>1, CommandNames, UnsetFields
          DEF Opt, Always, Output, Number, StrategyOptions
<1>. QED  BY <1>1, <1>2, <1>3, <1>4, <1>5 DEF AllCommands

(* An option that is taken leaves what can be read of the others.          *)
LEMMA OptionTaken ==
    ASSUME OptionsInv, cmd \in AllCommands, cmd' = cmd,
           NEW o \in OptionsOf(cmd), ~Refused(o), opt' = With(o)
    PROVE  OptionsInv'
<1>. DEFINE f == o[1]
<1>1. /\ f \in {"unknown"} \cup DOMAIN Unset
      /\ ~Bad(o)
      /\ f = "more" => ~opt.file
      /\ f = "file" => ~opt.more
  BY OptionIs DEF Refused
<1>2. \A field \in DOMAIN Unset : opt'[field] =
        IF field = f /\ f = "who" THEN WhoFromString[o[2]]
        ELSE IF field \in {f, "strategy"} /\ f = "strategyFile" THEN TRUE
        ELSE IF field = f THEN o[2]
        ELSE opt[field]
  BY <1>1, UnsetFields DEF With, OptionsInv
<1>3. DOMAIN opt' = DOMAIN Unset
  BY <1>1, UnsetFields DEF With, OptionsInv
<1>4. /\ opt'.more \in BOOLEAN /\ opt'.file \in BOOLEAN /\ opt'.strategyFile \in BOOLEAN
      /\ ~(opt'.more /\ opt'.file)
      /\ cmd \in Writers => ~opt'.more
      /\ opt'.strategyFile => cmd \in CheckSpecs \cup {SF07}
  <2>1. /\ f \in {"strategyFile"} => cmd \in CheckSpecs \cup {SF07}
        /\ f = "more" => cmd \notin Writers
        /\ f \in {"more", "file"} => o[2] = TRUE
    BY OptionIs
  <2>2. /\ opt'.more = IF f = "more" THEN TRUE ELSE opt.more
        /\ opt'.file = IF f = "file" THEN TRUE ELSE opt.file
        /\ opt'.strategyFile = IF f = "strategyFile" THEN TRUE ELSE opt.strategyFile
    BY <1>2, <2>1, UnsetFields
  <2>. QED  BY <1>1, <2>1, <2>2 DEF OptionsInv
<1>5. opt'.player \in Players \cup {0}
  BY <1>1, <1>2, OptionIs, UnsetFields DEF OptionsInv, Bad
<1>6. /\ opt'.kmin \in Nat \cup {-1} /\ opt'.kmax \in Nat \cup {-1}
      /\ cmd # SF07 => opt'.kmin = -1 /\ opt'.kmax = -1
  <2>1. f \in {"kmin", "kmax"} => cmd = SF07 /\ o[2] \in Nat
    BY <1>1, OptionIs DEF Bad
  <2>. QED  BY <1>2, <2>1, UnsetFields DEF OptionsInv
<1>7. cmd \in {SF07, Core} => opt'.who \in {-1} \cup AcceptedWho(cmd)
  <2>1. f = "who" => WhoFromString[o[2]] \in AcceptedWho(cmd)
    BY <1>1 DEF Bad
  <2>. QED  BY <1>2, <2>1, UnsetFields DEF OptionsInv
<1>8. cmd = Core => /\ opt'.algorithm \in {"none", "explicit", "actvars"}
                    /\ opt'.coreType \in {"none", "core", "fix"}
                    /\ opt'.n \in {-1, 0, 1}
  <2>1. ASSUME cmd = Core
        PROVE  /\ f = "algorithm" => o[2] \in {"explicit", "actvars"}
               /\ f = "coreType" => o[2] \in {"core", "fix"}
               /\ f = "n" => o[2] \in {0, 1}
    BY <1>1, <2>1, OptionIs DEF Bad
  <2>. QED  BY <1>2, <2>1, UnsetFields DEF OptionsInv
<1>. QED  BY <1>3, <1>4, <1>5, <1>6, <1>7, <1>8 DEF OptionsInv

LEMMA OptionsSame ==
    ASSUME OptionsInv, UNCHANGED <<cmd, opt>> PROVE OptionsInv'
  BY DEF OptionsInv

(* The defaults of the core extraction are what it asserts.                *)
LEMMA CoreDefaultsAre ==
    ASSUME OptionsInv, cmd = Core
    PROVE  LET o == CoreDefaults(opt)
           IN  /\ DOMAIN o = DOMAIN opt
               /\ \A field \in DOMAIN opt \ {"algorithm", "coreType", "who", "n"} :
                        o[field] = opt[field]
               /\ o.algorithm \in {"explicit", "actvars"}
               /\ o.coreType \in {"core", "fix"}
               /\ o.who \in AcceptedWho(Core)
               /\ o.n \in {-1, 0, 1}
               /\ Suitable(o) => CoreArguments(o)
<1>. DEFINE o == CoreDefaults(opt)
<1>1. /\ opt.algorithm \in {"none", "explicit", "actvars"}
      /\ opt.coreType \in {"none", "core", "fix"}
      /\ opt.n \in {-1, 0, 1}
      /\ opt.who \in {-1} \cup AcceptedWho(Core)
  BY DEF OptionsInv
<1>2. {BOTH, LOSER} \subseteq AcceptedWho(Core) /\ -1 \notin AcceptedWho(Core)
  BY CommandNames DEF AcceptedWho, BOTH, LOSER, Players
<1>3. DOMAIN opt = DOMAIN Unset
  BY DEF OptionsInv
<1>4. /\ o.algorithm = IF opt.algorithm = "none" THEN "explicit" ELSE opt.algorithm
      /\ o.coreType = IF opt.coreType = "none" THEN "core" ELSE opt.coreType
      /\ o.who = IF opt.who # -1 THEN opt.who ELSE IF o.algorithm = "actvars" THEN BOTH ELSE LOSER
      /\ o.n = IF o.algorithm = "actvars" /\ opt.n = -1 THEN 1 ELSE opt.n
      /\ DOMAIN o = DOMAIN opt
      /\ \A field \in DOMAIN opt \ {"algorithm", "coreType", "who", "n"} : o[field] = opt[field]
  BY <1>3, UnsetFields DEF CoreDefaults
<1>5. o.algorithm \in {"explicit", "actvars"} /\ o.coreType \in {"core", "fix"}
  BY <1>1, <1>4
<1>6. o.who \in AcceptedWho(Core) /\ o.n \in {-1, 0, 1}
  BY <1>1, <1>2, <1>4
<1>7. Suitable(o) => CoreArguments(o)
  <2>. HIDE DEF o
  <2>. QED  BY <1>5, <1>6 DEF Suitable, CoreArguments
<1>. QED  BY <1>4, <1>5, <1>6, <1>7

(* Completed bounds are numbers.                                           *)
LEMMA BoundsAre ==
    ASSUME OptionsInv, opt' = Bounds(opt), cmd' = cmd
    PROVE  /\ OptionsInv'
           /\ cmd # SF07 => opt' = opt
           /\ cmd = SF07 => opt'.kmin \in Nat /\ opt'.kmax \in Nat /\ opt'.who \in 1 .. 3
           /\ opt'.prop = opt.prop /\ opt'.more = opt.more /\ opt'.file = opt.file
<1>1. CASE cmd # SF07
  <2>1. opt' = opt
    BY <1>1 DEF Bounds
  <2>. QED  BY <1>1, <2>1, OptionsSame
<1>2. CASE cmd = SF07
  <2>1. DOMAIN opt = DOMAIN Unset
    BY DEF OptionsInv
  <2>2. /\ opt'.kmin = IF opt.kmin = -1 THEN 0 ELSE opt.kmin
        /\ opt'.kmax = IF opt.kmax = -1 THEN DefaultKmax ELSE opt.kmax
        /\ opt'.who = IF opt.who = -1 THEN BOTH ELSE opt.who
        /\ DOMAIN opt' = DOMAIN Unset
        /\ \A field \in DOMAIN opt \ {"kmin", "kmax", "who"} : opt'[field] = opt[field]
    BY <1>2, <2>1, UnsetFields DEF Bounds
  <2>3. opt.who \in {-1} \cup 1 .. 3
    BY <1>2 DEF OptionsInv, AcceptedWho, Players
  <2>4. opt'.kmin \in Nat /\ opt'.kmax \in Nat /\ opt'.who \in 1 .. 3
    BY <2>2, <2>3 DEF OptionsInv, DefaultKmax, BOTH
  <2>5. /\ opt'.more = opt.more /\ opt'.file = opt.file /\ opt'.player = opt.player
        /\ opt'.strategyFile = opt.strategyFile /\ opt'.prop = opt.prop
    BY <2>1, <2>2, UnsetFields
  <2>6. OptionsInv'
    BY <1>2, <2>2, <2>4, <2>5, CommandNames DEF OptionsInv, AcceptedWho
  <2>. QED  BY <1>2, <2>4, <2>5, <2>6
<1>. QED  BY <1>1, <1>2

-----------------------------------------------------------------------------
(* The steps.                                                              *)

LEMMA CommandInvInit == Init => CommandInv
<1>. SUFFICES ASSUME Init PROVE CommandInv
  OBVIOUS
<1>. USE CommandNames DEF Init
<1>1. OptionsInv
  BY DEF OptionsInv, Unset, AllCommands
<1>2. PhaseInv /\ StreamsInv
  BY DEF PhaseInv, StreamsInv
<1>3. WorkInv
  BY DEF WorkInv
<1>4. OutputRestored /\ RefusedDoesNothing
  BY DEF OutputRestored, RefusedDoesNothing
<1>. QED  BY <1>1, <1>2, <1>3, <1>4 DEF CommandInv

LEMMA TypeKeeps == ASSUME CommandInv, NEW c \in Commands, Type(c) PROVE CommandInv'
<1>1. c \in AllCommands /\ cmd' = c /\ c # "none"
  BY CommandLineAssumption, CommandNames DEF Type
<1>2. OptionsInv'
  BY <1>1 DEF Type, OptionsInv, Unset
<1>3. PhaseInv' /\ StreamsInv'
  BY <1>1 DEF Type, PhaseInv, StreamsInv, Untouched
<1>4. WorkInv' /\ OutputRestored' /\ RefusedDoesNothing'
  BY DEF Type, WorkInv, OutputRestored, RefusedDoesNothing
<1>. QED  BY <1>2, <1>3, <1>4 DEF CommandInv

(* An exit on which nothing has been opened yet.                           *)
LEMMA EarlyExit ==
    ASSUME Untouched, UNCHANGED <<cmd, streams, open, touched>>, res' \in {"usage", "error"}
    PROVE  CleanUpInv'
  BY DEF Untouched, streams, CleanUpInv

(* What the properties say while a command is on its way.                  *)
LEMMA UnderWay ==
    ASSUME PhaseInv, pc' \notin {"prompt", "undefined"}, UNCHANGED <<cmd, stages>>, cmd # "none",
           work' = {}, touched' # {} => Needed(cmd) \subseteq stages \/ cmd \in Writers,
           res' = "usage" => touched' = {}
    PROVE  WorkInv' /\ OutputRestored' /\ RefusedDoesNothing'
  BY DEF WorkInv, OutputRestored, RefusedDoesNothing

LEMMA TakeOptionKeeps ==
    ASSUME CommandInv, NEW o \in OptionsOf(cmd), TakeOption(o) PROVE CommandInv'
<1>. USE DEF CommandInv
<1>1. /\ pc = "options" /\ Untouched /\ res = "none" /\ work = {}
      /\ cmd \in AllCommands /\ cmd # "none" /\ cmd' = cmd
      /\ UNCHANGED <<stages, streams, open, touched, work>>
  BY DEF TakeOption, PhaseInv, StreamsInv, setting
<1>2. \/ pc' = "options" /\ res' = "none" /\ ~Refused(o) /\ opt' = With(o)
      \/ pc' = "cleanup" /\ res' \in {"usage", "error"} /\ opt' = opt
  BY <1>1 DEF TakeOption, Exit, GoOn
<1>3. OptionsInv'
  BY <1>1, <1>2, OptionTaken, OptionsSame
<1>4. Untouched'
  BY <1>1 DEF Untouched, streams
<1>5. PhaseInv' /\ StreamsInv'
  BY <1>1, <1>2, <1>4, EarlyExit DEF PhaseInv, StreamsInv
<1>6. WorkInv' /\ OutputRestored' /\ RefusedDoesNothing'
  BY <1>1, <1>2, <1>4, UnderWay DEF Untouched
<1>. QED  BY <1>3, <1>5, <1>6

LEMMA EndOfOptionsKeeps ==
    ASSUME CommandInv, NEW operands \in BOOLEAN, EndOfOptions(operands) PROVE CommandInv'
<1>. USE DEF CommandInv
<1>1. /\ pc = "options" /\ Untouched /\ res = "none" /\ work = {}
      /\ cmd \in AllCommands /\ cmd # "none" /\ cmd' = cmd
      /\ UNCHANGED <<stages, streams, open, touched, work>>
  BY DEF EndOfOptions, PhaseInv, StreamsInv, setting
<1>2. \/ /\ pc' = IF cmd \in Writers THEN "output" ELSE "stages"
         /\ res' = "none" /\ (cmd = Core => Suitable(opt'))
      \/ pc' = "cleanup" /\ res' = "usage"
  BY <1>1 DEF EndOfOptions, Exit, GoOn
<1>3. OptionsInv' /\ (cmd = Core /\ Suitable(opt') => CoreArguments(opt'))
  <2>1. CASE cmd = Core
    <3>1. opt' = CoreDefaults(opt)
      BY <2>1 DEF EndOfOptions
    <3>2. DOMAIN opt = DOMAIN Unset
      BY DEF OptionsInv
    <3>3. /\ DOMAIN opt' = DOMAIN Unset
          /\ opt'.algorithm \in {"explicit", "actvars"} /\ opt'.coreType \in {"core", "fix"}
          /\ opt'.who \in AcceptedWho(Core) /\ opt'.n \in {-1, 0, 1}
          /\ Suitable(opt') => CoreArguments(opt')
      BY <2>1, <3>1, <3>2, CoreDefaultsAre
    <3>4. /\ opt'.more = opt.more /\ opt'.file = opt.file /\ opt'.player = opt.player
          /\ opt'.strategyFile = opt.strategyFile
          /\ opt'.kmin = opt.kmin /\ opt'.kmax = opt.kmax
      BY <2>1, <3>1, <3>2, CoreDefaultsAre, UnsetFields
    <3>. QED  BY <1>1, <2>1, <3>3, <3>4 DEF OptionsInv
  <2>2. CASE cmd # Core
    <3>1. opt' = opt
      BY <2>2 DEF EndOfOptions
    <3>. QED  BY <1>1, <2>2, <3>1, OptionsSame
  <2>. QED  BY <2>1, <2>2
<1>4. Untouched'
  BY <1>1 DEF Untouched, streams
<1>5. PhaseInv'
  BY <1>1, <1>2, <1>3, CommandNames DEF PhaseInv, Selectors
<1>6. StreamsInv'
  BY <1>1, <1>2, <1>4, EarlyExit DEF StreamsInv
<1>7. WorkInv' /\ OutputRestored' /\ RefusedDoesNothing'
  BY <1>1, <1>2, <1>4, UnderWay DEF Untouched
<1>. QED  BY <1>3, <1>5, <1>6, <1>7

(* For a writer the output has been opened already.                        *)
LEMMA CheckStagesKeeps == ASSUME CommandInv, CheckStages PROVE CommandInv'
<1>. USE DEF CommandInv
<1>1. /\ pc = "stages" /\ res = "none" /\ work = {}
      /\ cmd \in AllCommands /\ cmd # "none" /\ cmd' = cmd /\ opt' = opt
      /\ UNCHANGED <<stages, defaultFile, streams, open, touched, work>>
      /\ cmd = Core => CoreArguments(opt)
      /\ IF cmd \in Writers
         THEN OutputChosen /\ open \subseteq {"output"} /\ strategyStream = "none"
         ELSE Untouched
  BY DEF CheckStages, PhaseInv, StreamsInv, setting
<1>2. \/ /\ Needed(cmd) \subseteq stages /\ res' = "none"
         /\ pc' = IF cmd \in Writers \cup {"check_property"} THEN "run" ELSE "output"
      \/ pc' = "cleanup" /\ res' = "error"
  BY <1>1 DEF CheckStages, Exit, GoOn
<1>3. OptionsInv'
  BY <1>1, OptionsSame
<1>4. PhaseInv'
  BY <1>1, <1>2, CommandNames DEF PhaseInv, Writers
<1>5. StreamsInv'
  <2>1. CASE cmd \in Writers
    <3>1. strategyStream' = "none" /\ ~opt'.strategyFile
      <4>1. ~opt.strategyFile
        BY <2>1, CommandNames DEF OptionsInv
      <4>. QED  BY <1>1, <2>1, <4>1 DEF streams
    <3>2. OutputChosen' /\ open' \subseteq {"output"}
      BY <1>1, <2>1 DEF OutputChosen, Wanted, Redirected, streams
    <3>3. pc' = "cleanup" => CleanUpInv'
      BY <1>1, <1>2, <2>1, <3>2, CommandNames DEF CleanUpInv
    <3>. QED  BY <1>1, <1>2, <2>1, <3>1, <3>2, <3>3 DEF StreamsInv, Writers
  <2>2. CASE cmd \notin Writers
    <3>1. Untouched'
      BY <1>1, <2>2 DEF Untouched, streams
    <3>2. pc' = "cleanup" => CleanUpInv'
      BY <1>1, <1>2, <2>2, EarlyExit
    <3>3. cmd = "check_property" => ~opt'.strategyFile
      BY <1>1, CommandNames DEF OptionsInv, Selectors
    <3>. QED  BY <1>1, <1>2, <2>2, <3>1, <3>2, <3>3 DEF StreamsInv, Untouched
  <2>. QED  BY <2>1, <2>2
<1>6. WorkInv' /\ OutputRestored' /\ RefusedDoesNothing'
  BY <1>1, <1>2, UnderWay DEF Untouched
<1>. QED  BY <1>3, <1>4, <1>5, <1>6

(* A phase after the output has been chosen.                               *)
LEMMA OutputStep ==
    ASSUME CommandInv, pc = "output", OptionsInv', OutputChosen', OutputReady,
           UNCHANGED <<setting, cmd, opt, strategyStream, work>>,
           open' \subseteq {"output"}, touched' \subseteq {"output"}
    PROVE  CommandInv'
<1>. USE DEF CommandInv
<1>1. /\ Untouched /\ res = "none" /\ work = {} /\ strategyStream = "none"
      /\ cmd \in AllCommands /\ cmd # "none" /\ cmd # "check_property"
      /\ cmd \notin Writers => Needed(cmd) \subseteq stages
      /\ cmd = Core => CoreArguments(opt)
      /\ cmd' = cmd /\ opt' = opt /\ stages' = stages
  BY DEF PhaseInv, StreamsInv, Untouched, setting
<1>2. /\ res' = "none" /\ work' = {} /\ strategyStream' = "none"
      /\ pc' = CASE cmd \in Writers                -> "stages"
                 [] cmd \in CheckSpecs \cup {SF07} -> "strategy"
                 [] OTHER                          -> "run"
  BY <1>1 DEF OutputReady, GoOn
<1>3. pc' = IF cmd \in Writers THEN "stages"
            ELSE IF cmd \in CheckSpecs \cup {SF07} THEN "strategy" ELSE "run"
  BY <1>2, CommandNames
<1>4. PhaseInv'
  BY <1>1, <1>2, <1>3, CommandNames DEF PhaseInv
<1>5. StreamsInv'
  <2>1. cmd \notin CheckSpecs \cup {SF07} => ~opt'.strategyFile
    BY <1>1 DEF OptionsInv
  <2>. QED  BY <1>1, <1>2, <1>3, <2>1 DEF StreamsInv
<1>6. WorkInv' /\ OutputRestored' /\ RefusedDoesNothing'
  BY <1>1, <1>2, <1>3, UnderWay
<1>. QED  BY <1>4, <1>5, <1>6

LEMMA KeepOutputKeeps == ASSUME CommandInv, KeepOutput PROVE CommandInv'
<1>. USE DEF CommandInv
<1>1. Untouched
  BY DEF KeepOutput, StreamsInv
<1>2. OptionsInv'
  BY OptionsSame DEF KeepOutput
<1>3. OutputChosen' /\ open' \subseteq {"output"} /\ touched' \subseteq {"output"}
  BY <1>1 DEF KeepOutput, Untouched, OutputChosen, Wanted, Redirected, setting
<1>. QED  BY <1>2, <1>3, OutputStep DEF KeepOutput

LEMMA OpenOutputKeeps == ASSUME CommandInv, OpenOutput PROVE CommandInv'
<1>. USE DEF CommandInv
<1>1. Untouched
  BY DEF OpenOutput, StreamsInv
<1>2. OptionsInv'
  BY OptionsSame DEF OpenOutput
<1>3. OutputChosen' /\ open' \subseteq {"output"} /\ touched' \subseteq {"output"}
  BY <1>1 DEF OpenOutput, Untouched, OutputChosen, Wanted, Redirected, setting
<1>. QED  BY <1>2, <1>3, OutputStep DEF OpenOutput

LEMMA OutputFailsKeeps == ASSUME CommandInv, OutputFails PROVE CommandInv'
<1>. USE DEF CommandInv
<1>1. /\ pc = "output" /\ Untouched /\ Wanted /\ work = {} /\ open = {} /\ touched = {}
      /\ cmd \in AllCommands /\ cmd # "none" /\ cmd' = cmd /\ opt' = opt
      /\ UNCHANGED <<stages, open, touched, work>>
      /\ pc' = "cleanup" /\ res' = "error"
      /\ cmd \notin CheckSpecs => UNCHANGED <<out, old>>
  BY DEF OutputFails, PhaseInv, StreamsInv, setting, Exit, Untouched
<1>2. OptionsInv'
  BY <1>1, OptionsSame
<1>3. PhaseInv'
  BY <1>1 DEF PhaseInv
<1>4. StreamsInv'
  BY <1>1 DEF StreamsInv, CleanUpInv
<1>5. WorkInv' /\ OutputRestored' /\ RefusedDoesNothing'
  BY <1>1, UnderWay
<1>. QED  BY <1>2, <1>3, <1>4, <1>5

LEMMA OpenStrategyKeeps == ASSUME CommandInv, OpenStrategy PROVE CommandInv'
<1>. USE DEF CommandInv
<1>1. /\ pc = "strategy" /\ OutputChosen /\ open \subseteq {"output"} /\ strategyStream = "none"
      /\ res = "none" /\ work = {}
      /\ cmd \in CheckSpecs \cup {SF07} /\ Needed(cmd) \subseteq stages
      /\ UNCHANGED <<stages, defaultFile, cmd, opt, out, old, work>>
  BY DEF OpenStrategy, PhaseInv, StreamsInv, setting
<1>2. cmd \in AllCommands \ Writers /\ cmd # "none" /\ cmd # "check_property" /\ cmd # Core
  BY <1>1, CommandNames DEF AllCommands, Selectors
<1>3. \/ /\ pc' = "run" /\ res' = "none"
         /\ open' \subseteq open \cup {"strategy"}
         /\ opt.strategyFile <=> strategyStream' = "opened"
         /\ "strategy" \in open' => strategyStream' = "opened"
      \/ pc' = "cleanup" /\ res' = "error" /\ open' = open
  BY <1>1 DEF OpenStrategy, Exit, GoOn
<1>4. OptionsInv'
  BY <1>1, OptionsSame
<1>5. PhaseInv'
  BY <1>1, <1>2, <1>3 DEF PhaseInv
<1>6. OutputChosen'
  BY <1>1, <1>3 DEF OutputChosen, Wanted, Redirected
<1>7. pc' = "cleanup" => CleanUpInv'
  <2>1. Wanted' <=> Redirected'
    BY <1>1, <1>2 DEF Wanted
  <2>. QED  BY <1>1, <1>2, <1>3, <1>6, <2>1 DEF CleanUpInv, OutputChosen, Redirected
<1>8. StreamsInv'
  BY <1>1, <1>2, <1>3, <1>6, <1>7 DEF StreamsInv
<1>9. WorkInv' /\ OutputRestored' /\ RefusedDoesNothing'
  BY <1>1, <1>2, <1>3, UnderWay
<1>. QED  BY <1>4, <1>5, <1>8, <1>9

(* Whatever a check does, the clean-up finds what it expects.              *)
LEMMA RunExit ==
    ASSUME CommandInv, pc = "run", pc' = "cleanup", res' \in {"ok", "usage", "error"},
           OptionsInv', UNCHANGED <<setting, cmd, streams, open, touched>>,
           opt'.more = opt.more, opt'.file = opt.file, cmd \notin Writers
    PROVE  PhaseInv' /\ StreamsInv'
<1>. USE DEF CommandInv
<1>1. /\ cmd \in AllCommands /\ cmd # "none" /\ cmd' = cmd
      /\ IF cmd = "check_property" THEN Untouched ELSE OutputChosen
      /\ open \subseteq {"output", "strategy"}
  BY DEF PhaseInv, StreamsInv
<1>2. Redirected' <=> Redirected
  BY DEF Redirected
<1>3. /\ "output" \in open => Redirected /\ old = "own"
      /\ Redirected /\ out = "own" => cmd = "check_property"
  BY <1>1 DEF Untouched, OutputChosen, Wanted
<1>4. "check_property" \notin CheckSpecs
  BY CommandNames DEF Selectors
<1>5. CleanUpInv'
  BY <1>1, <1>2, <1>3, <1>4 DEF CleanUpInv, streams
<1>. QED  BY <1>1, <1>5 DEF PhaseInv, StreamsInv

LEMMA RunChecksKeeps == ASSUME CommandInv, RunChecks PROVE CommandInv'
<1>. USE DEF CommandInv
<1>1. /\ pc = "run" /\ cmd \in CheckSpecs \cup {SF07, Core} /\ work = {}
      /\ Needed(cmd) \subseteq stages
      /\ opt' = Bounds(opt) /\ UNCHANGED <<setting, stages, cmd, streams, open, touched>>
      /\ cmd \notin Writers /\ cmd # "none"
  BY CommandNames DEF RunChecks, PhaseInv, setting, AllCommands
<1>2. /\ OptionsInv'
      /\ cmd # SF07 => opt' = opt
      /\ cmd = SF07 => opt'.kmin \in Nat /\ opt'.kmax \in Nat /\ opt'.who \in 1 .. 3
      /\ opt'.prop = opt.prop /\ opt'.more = opt.more /\ opt'.file = opt.file
  BY <1>1, BoundsAre
<1>3. pc' = "cleanup" /\ res' \in {"ok", "usage", "error"}
  BY DEF RunChecks, RunOn, Exit
<1>4. PhaseInv' /\ StreamsInv'
  BY <1>1, <1>2, <1>3, RunExit
<1>5. CASE opt'.kmax < opt'.kmin
  <2>1. work' = {} /\ res' = "usage"
    BY <1>1, <1>5 DEF RunChecks, Exit
  <2>2. cmd = SF07 /\ 0 <= opt'.kmax
    BY <1>2, <1>5 DEF OptionsInv
  <2>3. WorkInv' /\ OutputRestored' /\ RefusedDoesNothing'
    BY <1>1, <1>3, <1>5, <2>1, <2>2 DEF WorkInv, OutputRestored, RefusedDoesNothing
  <2>. QED  BY <1>2, <1>4, <2>3
<1>6. CASE ~(opt'.kmax < opt'.kmin)
  <2>1. \A k \in work' : Props[k].type = TypeChecked
    <3>1. CASE opt.prop # -1 /\ ~OfType(opt.prop)
      BY <1>1, <1>6, <3>1 DEF RunChecks
    <3>2. CASE ~(opt.prop # -1 /\ ~OfType(opt.prop))
      <4>1. \A k \in Todo : OfType(k)
        BY <3>2 DEF Todo
      <4>2. work' \subseteq Todo
        BY <1>6, <3>2 DEF RunChecks, RunOn
      <4>. QED  BY <4>1, <4>2 DEF OfType
    <3>. QED  BY <3>1, <3>2
  <2>2. res' # "usage"
    BY <1>6 DEF RunChecks, RunOn, Exit
  <2>3. TypeChecked' = TypeChecked
    BY <1>1 DEF TypeChecked
  <2>4. WorkInv'
    BY <1>1, <1>2, <1>6, <2>1, <2>3 DEF WorkInv
  <2>5. OutputRestored' /\ RefusedDoesNothing'
    BY <1>1, <1>3, <2>2 DEF OutputRestored, RefusedDoesNothing
  <2>. QED  BY <1>2, <1>4, <2>4, <2>5
<1>. QED  BY <1>5, <1>6

LEMMA CheckPropertyKeeps == ASSUME CommandInv, CheckProperty PROVE CommandInv'
<1>. USE DEF CommandInv
<1>1. /\ pc = "run" /\ cmd = "check_property" /\ work = {} /\ Needed(cmd) \subseteq stages
      /\ UNCHANGED <<setting, stages, cmd, opt, streams, open, touched>>
      /\ pc' = "cleanup" /\ res' \in {"ok", "error"}
  BY DEF CheckProperty, PhaseInv, setting, RunOn, Exit
<1>2. cmd \in Selectors /\ cmd \notin CheckSpecs \cup Writers \cup {SF07, Core} /\ cmd # "none"
  BY <1>1, CommandNames DEF Selectors, AllCommands
<1>3. OptionsInv'
  BY <1>1, OptionsSame
<1>4. PhaseInv' /\ StreamsInv'
  BY <1>1, <1>2, <1>3, RunExit
<1>5. WorkInv' /\ OutputRestored' /\ RefusedDoesNothing'
  BY <1>1, <1>2 DEF WorkInv, OutputRestored, RefusedDoesNothing
<1>. QED  BY <1>3, <1>4, <1>5

(* The error in the list leaves the output open.                           *)
LEMMA ShowPropertyKeeps == ASSUME CommandInv, ShowProperty PROVE CommandInv'
<1>. USE DEF CommandInv
<1>1. /\ pc = "run" /\ cmd = "show_property" /\ work = {} /\ Needed(cmd) \subseteq stages
      /\ UNCHANGED <<setting, stages, cmd, opt, streams, open, touched, work>>
  BY DEF ShowProperty, PhaseInv, setting
<1>2. cmd \in Selectors /\ cmd \notin CheckSpecs \cup Writers \cup {SF07, Core} /\ cmd # "none"
  BY <1>1, CommandNames DEF Selectors, AllCommands
<1>3. OptionsInv'
  BY <1>1, OptionsSame
<1>4. CASE pc' = "cleanup" /\ res' \in {"ok", "error"}
  <2>1. PhaseInv' /\ StreamsInv'
    BY <1>1, <1>2, <1>3, <1>4, RunExit
  <2>2. WorkInv' /\ OutputRestored' /\ RefusedDoesNothing'
    BY <1>1, <1>2, <1>4 DEF WorkInv, OutputRestored, RefusedDoesNothing
  <2>. QED  BY <1>3, <2>1, <2>2
<1>5. CASE pc' = "prompt" /\ res' = "error" /\ opt.prop = -1
  <2>1. open \subseteq {"output"}
    <3>1. strategyStream # "opened"
      BY <1>1, <1>2 DEF OptionsInv, StreamsInv
    <3>. QED  BY <1>1, <3>1 DEF StreamsInv
  <2>2. PhaseInv' /\ StreamsInv'
    BY <1>1, <1>2, <1>5 DEF PhaseInv, StreamsInv
  <2>3. WorkInv' /\ OutputRestored' /\ RefusedDoesNothing'
    BY <1>1, <1>2, <1>5, <2>1 DEF WorkInv, OutputRestored, RefusedDoesNothing
  <2>. QED  BY <1>3, <2>2, <2>3
<1>. QED  BY <1>4, <1>5 DEF ShowProperty, Exit

(* What a writer expects of its streams; the layer is one more.            *)
LEMMA WriterRuns ==
    ASSUME CommandInv, pc = "run", cmd \in Writers
    PROVE  /\ cmd \in AllCommands /\ cmd # "none" /\ cmd \notin CheckSpecs \cup {SF07, Core}
           /\ open \subseteq {"output"} /\ work = {} /\ Needed(cmd) \subseteq stages
<1>1. cmd \in AllCommands /\ cmd # "none" /\ cmd \notin CheckSpecs \cup {SF07, Core}
  BY CommandNames DEF AllCommands
<1>. QED  BY <1>1 DEF CommandInv, PhaseInv, StreamsInv

LEMMA WriteFlatModelKeeps == ASSUME CommandInv, WriteFlatModel PROVE CommandInv'
<1>. USE DEF CommandInv
<1>1. /\ pc = "run" /\ cmd = "write_flat_model" /\ cmd \in Writers
      /\ UNCHANGED <<stages, cmd, opt, streams, open, touched, work>>
      /\ \/ pc' = "cleanup" /\ res' \in {"error", "ok"}
         \/ pc' = "undefined" /\ res' = res
  BY DEF WriteFlatModel, SplitAndPrintSpec, Exit, GoOn, setting, Writers
<1>2. OptionsInv'
  BY <1>1, OptionsSame
<1>3. PhaseInv' /\ StreamsInv'
  BY <1>1, WriterRuns DEF PhaseInv, StreamsInv, CleanUpInv
<1>4. WorkInv' /\ OutputRestored' /\ RefusedDoesNothing'
  <2>1. res # "usage"
    BY <1>1 DEF PhaseInv
  <2>. QED  BY <1>1, <2>1, WriterRuns DEF WorkInv, OutputRestored, RefusedDoesNothing
<1>. QED  BY <1>2, <1>3, <1>4

LEMMA WriteBooleanModelKeeps == ASSUME CommandInv, WriteBooleanModel PROVE CommandInv'
<1>. USE DEF CommandInv
<1>1. /\ pc = "run" /\ cmd = "write_boolean_model" /\ cmd \in Writers
      /\ UNCHANGED <<stages, cmd, opt, streams, touched, work>>
      /\ pc' = "cleanup" /\ res' \in {"error", "ok"}
      /\ open' \subseteq open \cup {"layer"}
      /\ res' = "ok" => open' = open
  BY DEF WriteBooleanModel, SplitAndPrintSpec, Exit, setting, Writers
<1>2. OptionsInv'
  BY <1>1, OptionsSame
<1>3. PhaseInv' /\ StreamsInv'
  BY <1>1, WriterRuns DEF PhaseInv, StreamsInv, CleanUpInv
<1>4. WorkInv' /\ OutputRestored' /\ RefusedDoesNothing'
  BY <1>1, WriterRuns DEF WorkInv, OutputRestored, RefusedDoesNothing
<1>. QED  BY <1>2, <1>3, <1>4

(* Each of the three ways to clean up closes what its commands have        *)
(* opened, but for the cases that the property names.                      *)
LEMMA CleanUpKeeps == ASSUME CommandInv, CleanUp PROVE CommandInv'
<1>. USE DEF CommandInv
<1>1. /\ pc = "cleanup" /\ CleanUpInv /\ cmd \in AllCommands /\ cmd # "none"
      /\ UNCHANGED <<stages, cmd, opt, touched, work, res>>
  BY DEF CleanUp, PhaseInv, StreamsInv, setting
<1>2. /\ cmd \in CheckSpecs => CloseWanted
      /\ cmd \in Writers => CloseFile
      /\ cmd \notin CheckSpecs \cup Writers => CloseSaved
  BY CommandNames DEF CleanUp
<1>3. pc' \in {"prompt", "undefined"}
  BY <1>2 DEF CloseWanted, CloseFile, CloseSaved
<1>4. OptionsInv'
  BY <1>1, OptionsSame
<1>5. PhaseInv' /\ StreamsInv'
  BY <1>1, <1>3 DEF PhaseInv, StreamsInv
<1>6. WorkInv' /\ RefusedDoesNothing'
  BY <1>1 DEF WorkInv, RefusedDoesNothing, TypeChecked
<1>7. OutputRestored'
  <2>1. CASE cmd \in CheckSpecs
    <3>1. open' = {}
      BY <1>1, <1>2, <2>1 DEF CleanUpInv, CloseWanted
    <3>2. pc' = "undefined" => Redirected' /\ res' \in {"usage", "error"} /\ touched' = {}
      BY <1>1, <1>2, <2>1 DEF CleanUpInv, CloseWanted, Redirected
    <3>. QED  BY <1>1, <2>1, <3>1, <3>2 DEF OutputRestored
  <2>2. CASE cmd \in Writers
    <3>1. open' \subseteq {"layer"} /\ (open' # {} => cmd = "write_boolean_model" /\ res = "error")
      BY <1>1, <1>2, <2>2, CommandNames DEF CleanUpInv, CloseFile
    <3>2. pc' = "undefined" => cmd = "write_flat_model" /\ out' = "none"
      BY <1>2, <2>2 DEF CloseFile
    <3>. QED  BY <1>1, <2>2, <3>1, <3>2 DEF OutputRestored
  <2>3. CASE cmd \notin CheckSpecs \cup Writers
    <3>1. open' = {} /\ pc' = "prompt"
      BY <1>1, <1>2, <2>3 DEF CleanUpInv, CloseSaved
    <3>. QED  BY <3>1 DEF OutputRestored
  <2>. QED  BY <2>1, <2>2, <2>3
<1>. QED  BY <1>4, <1>5, <1>6, <1>7

LEMMA CommandInvStep == CommandInv /\ [Next]_vars => CommandInv'
<1>. SUFFICES ASSUME CommandInv, [Next]_vars PROVE CommandInv'
  OBVIOUS
<1>1. CASE \E c \in Commands : Type(c)
  BY <1>1, TypeKeeps
<1>2. CASE \E o \in OptionsOf(cmd) : TakeOption(o)
  BY <1>2, TakeOptionKeeps
<1>3. CASE \E operands \in BOOLEAN : EndOfOptions(operands)
  BY <1>3, EndOfOptionsKeeps
<1>4. CASE CheckStages
  BY <1>4, CheckStagesKeeps
<1>5. CASE KeepOutput
  BY <1>5, KeepOutputKeeps
<1>6. CASE OpenOutput
  BY <1>6, OpenOutputKeeps
<1>7. CASE OutputFails
  BY <1>7, OutputFailsKeeps
<1>8. CASE OpenStrategy
  BY <1>8, OpenStrategyKeeps
<1>9. CASE RunChecks
  BY <1>9, RunChecksKeeps
<1>10. CASE CheckProperty
  BY <1>10, CheckPropertyKeeps
<1>11. CASE ShowProperty
  BY <1>11, ShowPropertyKeeps
<1>12. CASE WriteFlatModel
  BY <1>12, WriteFlatModelKeeps
<1>13. CASE WriteBooleanModel
  BY <1>13, WriteBooleanModelKeeps
<1>14. CASE CleanUp
  BY <1>14, CleanUpKeeps
<1>15. CASE UNCHANGED vars
  BY <1>15 DEF vars, setting, streams, CommandInv, OptionsInv, PhaseInv, StreamsInv, CleanUpInv,
               WorkInv, OutputRestored, RefusedDoesNothing, Untouched, OutputChosen, Wanted,
               Redirected, TypeChecked
<1>. QED
  BY <1>1, <1>2, <1>3, <1>4, <1>5, <1>6, <1>7, <1>8, <1>9, <1>10, <1>11, <1>12, <1>13, <1>14,
     <1>15 DEF Next

LEMMA CommandInvariant == Spec => []CommandInv
  BY CommandInvInit, CommandInvStep, PTL DEF Spec

-----------------------------------------------------------------------------
(* The properties.                                                         *)

(* Every command closes what it has opened, on whichever of its exits,     *)
(* with the exceptions that the property names.                            *)
THEOREM StreamsRestored == Spec => []OutputRestored
  BY CommandInvariant, PTL DEF CommandInv

(* A command that is refused, or comes too early, has checked nothing and  *)
(* emptied no file, but for the files of the writers and of a bounded      *)
(* synthesis whose bounds are the wrong way round.                         *)
THEOREM RefusalsAreClean == Spec => []RefusedDoesNothing
  BY CommandInvariant, PTL DEF CommandInv

(* Whatever options are given in whatever order, how many and of whatever  *)
(* database, the arguments the options make are as the functions called    *)
(* assert them to be.                                                      *)
THEOREM ArgumentsAreRight == Spec => []ArgumentsMeetAssertions
<1>1. CommandInv => ArgumentsMeetAssertions
  BY DEF CommandInv, OptionsInv, PhaseInv, StreamsInv, WorkInv, ArgumentsMeetAssertions
<1>. QED  BY <1>1, CommandInvariant, PTL
==============================================================================
