---------------------------- MODULE GameSession ----------------------------
(***************************************************************************)
(* A session with NuGaT: reading models, switching between the mode of     *)
(* NuSMV and the game mode, building the stages of a model, checking its   *)
(* properties, resetting and quitting, from the prompt or in batch mode.   *)
(* A model is abstracted to what the commands tell apart, a finite state   *)
(* machine to the model it was built from and the partition method.  The   *)
(* building commands of NuSMV's own mode are not modelled.                 *)
(***************************************************************************)
EXTENDS CommandTable, Integers, SequencesExt

CONSTANTS
    Models,  \* the files that can be read
    Methods  \* partition methods of the transition relation

Quantifiers == {"N", "A", "E"}

(* The order in which the database is filled.                              *)
PropTypes == <<"reach", "atl", "avoid", "reachdeadlock", "avoiddeadlock", "buchi",
               "ltl", "gen">>

(* truth: whether the property holds, for each initial condition.          *)
DeclaredProp == [type     : ToSet(PropTypes),
                 player   : {1, 2},
                 illTyped : BOOLEAN,
                 truth    : [Quantifiers -> BOOLEAN]]

(* syntax: where the file has a syntax error, before or after its game;    *)
(* forbidden: what its game declares that a game may not.                  *)
ModelType == [name      : STRING,
              game      : BOOLEAN,
              rat       : BOOLEAN,
              syntax    : {"ok", "before", "after"},
              forbidden : {"none", "processes", "inputs"},
              determ    : BOOLEAN,
              props     : Seq(DeclaredProp)]

NoModel == [name |-> "none"]

NoFsm == [model |-> NoModel]

ASSUME SessionAssumption ==
    /\ Models \subseteq ModelType
    /\ {"read_model", "reset", "quit"} \subseteq Generic \ RatCommands
    /\ RatCommands = {"read_rat_file"}
    /\ {"flatten_hierarchy", "encode_variables", "build_flat_model", "build_model",
        "build_boolean_model", "check_property"} \subseteq Dependent
    /\ {"check_reach_target", "check_ltlgame_sf07"} \subseteq Specific

VARIABLES
    session,   \* mode, commands, db, hierarchy, env: what a change of mode changes
    parsed,    \* the parsed model
    flags,     \* the stages the model has passed
    layers,    \* layers of the symbol table
    nPlayers,  \* whether the number of players has been set
    initial,   \* the interpretation of the initial condition
    method,    \* the partition method
    phase,     \* what the program is doing
    task,      \* the properties a running command has yet to check
    rv,        \* what the last command returned
    script     \* the batch script: its next command, or "none" at the prompt

model == <<parsed, flags, layers, nPlayers>>

options == <<initial, method>>

vars == <<session, model, options, phase, task, rv, script>>

Stages == {"read", "flatten", "encode", "flat", "bool", "build"}

NoTask == [force |-> FALSE, asked |-> {}, todo |-> {}]

NoFsms == [sexp |-> NoModel, bool |-> NoModel, bdd |-> NoFsm]

EmptyDb(kind) == [kind |-> kind, props |-> << >>]

-----------------------------------------------------------------------------
(* Changes of mode, on records x like session; x.ok is whether the         *)
(* assertions held.                                                        *)

ModeEnter(x) ==
    LET c == SwitchToGameCmds(x.commands)
    IN  [x EXCEPT !.ok = @ /\ c.ok /\ ~x.mode,
                  !.mode = TRUE,
                  !.commands = c.commands,
                  !.db = EmptyDb("game"),
                  !.batchDb = "freed"]

(* Faulty variant: the finite state machines stay in the environment.      *)
KeepFsmsModeExit(x) ==
    LET c == SwitchFromGameCmds(x.commands)
    IN  [x EXCEPT !.ok = @ /\ c.ok /\ x.mode,
                  !.mode = FALSE,
                  !.commands = c.commands,
                  !.hierarchy = NoModel,
                  !.db = EmptyDb("core"),
                  !.batchDb = "freed"]

(* Faulty variant: the flattened game stays.                               *)
KeepHierarchyModeExit(x) ==
    LET c == SwitchFromGameCmds(x.commands)
    IN  [x EXCEPT !.ok = @ /\ c.ok /\ x.mode,
                  !.mode = FALSE,
                  !.commands = c.commands,
                  !.db = EmptyDb("core"),
                  !.env = NoFsms,
                  !.batchDb = "freed"]

ModeExit(x) ==
    LET c == SwitchFromGameCmds(x.commands)
    IN  [x EXCEPT !.ok = @ /\ c.ok /\ x.mode,
                  !.mode = FALSE,
                  !.commands = c.commands,
                  !.hierarchy = NoModel,
                  !.db = EmptyDb("core"),
                  !.env = NoFsms,
                  !.batchDb = "freed"]

LeaveMode(x) == IF x.mode THEN ModeExit(x) ELSE x

(* Quitting the package.                                                   *)
GameQuit(x) ==
    LET y == LeaveMode(x)
        c == QuitCommands(y.commands)
    IN  [y EXCEPT !.commands = c.commands,
                  !.ok = @ /\ c.ok /\ y.hierarchy = NoModel]

(* Starting it, in the environment NuSMV leaves after its own reset.       *)
GameInit(x) ==
    LET c == InitCommands(x.commands.table)
    IN  [x EXCEPT !.ok = @ /\ c.ok /\ x.hierarchy = NoModel
                           /\ x.commands.dependent = NotStored
                           /\ x.commands.specific = NotStored,
                  !.commands = c.commands,
                  !.db = EmptyDb("core")]

(* A command that returns code, or whose assertion fails.                  *)
Return(code) == phase' = "ready" /\ rv' = code

ReturnIf(ok, code) == IF ok THEN Return(code) ELSE phase' = "aborted" /\ rv' = "assert"

Implements(command, owner) == session.commands.table[command] = owner

-----------------------------------------------------------------------------
(* Reading.                                                                *)

(* Faulty variant: the game mode is left only when a game is read.         *)
StayingRead(m) ==
    /\ "read" \notin flags
    /\ m.syntax # "before"
    /\ ~m.rat
    /\ LET x == IF m.game THEN LeaveMode(session) ELSE session
           y == IF m.game THEN ModeEnter(x) ELSE x
       IN  /\ session' = y
           /\ IF m.syntax = "ok" THEN ReturnIf(y.ok, "ok") ELSE ReturnIf(y.ok, "error")
    /\ nPlayers' = (nPlayers \/ m.game)
    /\ IF m.syntax = "ok" THEN parsed' = m /\ flags' = flags \cup {"read"}
                          ELSE UNCHANGED <<parsed, flags>>
    /\ UNCHANGED <<layers, options, task>>

(* The grammar leaves the game mode before the first module is parsed and  *)
(* enters it after the body of the game.                                   *)
ReadModel(m) ==
    /\ "read" \notin flags
    /\ ~m.rat
    /\ LET x == LeaveMode(session)
           y == IF m.game /\ m.syntax # "before" THEN ModeEnter(x) ELSE x
       IN  /\ session' = y
           /\ IF m.syntax = "ok" THEN ReturnIf(y.ok, "ok") ELSE ReturnIf(y.ok, "error")
    /\ nPlayers' = (nPlayers \/ (m.game /\ m.syntax # "before"))
    /\ IF m.syntax = "ok" THEN parsed' = m /\ flags' = flags \cup {"read"}
                          ELSE UNCHANGED <<parsed, flags>>
    /\ UNCHANGED <<layers, options, task>>

(* A RATSY project is read as a game; the game mode may already be on.     *)
(* Before any game was read the number of players is still -1 and sizes an *)
(* array.                                                                  *)
ReadRatFile(m) ==
    /\ "read" \notin flags
    /\ m.rat
    /\ LET y == IF session.mode THEN session ELSE ModeEnter(session)
       IN  IF ~nPlayers
           THEN phase' = "undefined" /\ UNCHANGED <<session, parsed, flags, rv>>
           ELSE IF m.syntax # "ok"
           THEN Return("error") /\ UNCHANGED <<session, parsed, flags>>
           ELSE /\ session' = y
                /\ parsed' = m
                /\ flags' = flags \cup {"read"}
                /\ ReturnIf(y.ok, "ok")
    /\ UNCHANGED <<nPlayers, layers, options, task>>

-----------------------------------------------------------------------------
(* Building.                                                               *)

Place(p) == CHOOSE k \in DOMAIN PropTypes : PropTypes[k] = p.type

Before(m, i, j) ==
    LET a == Place(m.props[i])
        b == Place(m.props[j])
    IN  a < b \/ (a = b /\ i < j)

(* The properties in the order of the database.                            *)
Fill(m) ==
    [k \in DOMAIN m.props |->
        m.props[CHOOSE i \in DOMAIN m.props :
                   k = 1 + Cardinality({j \in DOMAIN m.props : Before(m, j, i)})]]

Unchecked(p) == [type |-> p.type, player |-> p.player, status |-> "Unchecked",
                 fsm |-> NoFsm, under |-> "none"]

(* Declarations a game may not have are met while it is flattened.         *)
FlatteningFails(m) == m.forbidden # "none"

IllTyped(m) == \E k \in DOMAIN m.props : m.props[k].illTyped

(* A layer with the name of an existing one is refused by an assertion.    *)
(* Input variables are reported with a variable that has no value yet.     *)
(* The error of an ill-typed property empties the database with the        *)
(* function of its base class, which also gives it NuSMV's methods: they   *)
(* know no property of a game.                                             *)
FlattenHierarchy ==
    /\ Implements("flatten_hierarchy", "game")
    /\ "read" \in flags /\ "flatten" \notin flags
    /\ IF "model" \in layers
       THEN ReturnIf(FALSE, "error") /\ UNCHANGED <<session, flags, layers>>
       ELSE IF FlatteningFails(parsed)
       THEN /\ layers' = layers \cup {"model"}
            /\ \/ Return("error")
               \/ parsed.forbidden = "inputs" /\ phase' = "undefined" /\ UNCHANGED rv
            /\ UNCHANGED <<session, flags>>
       ELSE IF session.db.kind = "core" /\ parsed.props # << >>
       THEN phase' = "undefined" /\ UNCHANGED <<session, flags, layers, rv>>
       ELSE IF IllTyped(parsed)
       THEN /\ flags' = flags \ {"read"}
            /\ session' = [session EXCEPT !.db = EmptyDb("core")]
            /\ Return("error")
            /\ UNCHANGED layers
       ELSE /\ layers' = layers \cup {"model"}
            /\ flags' = flags \cup {"flatten"}
            /\ session' = [session EXCEPT
                              !.hierarchy = parsed,
                              !.db.props = [k \in DOMAIN Fill(parsed) |->
                                               Unchecked(Fill(parsed)[k])]]
            /\ Return("ok")
    /\ UNCHANGED <<parsed, nPlayers, options, task>>

EncodeVariables ==
    /\ Implements("encode_variables", "game")
    /\ "flatten" \in flags /\ "encode" \notin flags
    /\ flags' = flags \cup {"encode"}
    /\ Return("ok")
    /\ UNCHANGED <<session, parsed, layers, nPlayers, options, task>>

(* Building a machine for the environment: the flat and the boolean one    *)
(* only when there is none, the one over BDDs always.                      *)
WithSexp(env) ==
    IF env.sexp = NoModel THEN [env EXCEPT !.sexp = session.hierarchy] ELSE env

WithBool(env) == IF env.bool = NoModel THEN [env EXCEPT !.bool = env.sexp] ELSE env

WithBdd(env, m) == [env EXCEPT !.bdd = [model |-> env.sexp, method |-> m]]

BuildFlatModel ==
    /\ Implements("build_flat_model", "game")
    /\ "flatten" \in flags /\ "flat" \notin flags
    /\ session' = [session EXCEPT !.env = WithSexp(@)]
    /\ flags' = flags \cup {"flat"}
    /\ Return("ok")
    /\ UNCHANGED <<parsed, layers, nPlayers, options, task>>

(* m is the argument of -m, "default" without one.  Building again with    *)
(* the method in use is refused.                                           *)
BuildModel(force, m) ==
    /\ Implements("build_model", "game")
    /\ "encode" \in flags
    /\ force \/ "build" \notin flags
    /\ ~(force /\ "build" \in flags /\ m = method)
    /\ method' = IF m = "default" THEN method ELSE m
    /\ session' = [session EXCEPT !.env = WithBdd(WithSexp(@), method')]
    /\ flags' = flags \cup {"flat", "build"}
    /\ Return("ok")
    /\ UNCHANGED <<parsed, layers, nPlayers, initial, task>>

(* The boolean model is in the environment before its determinization      *)
(* variables are looked at, and found there the next time.                 *)
BuildBooleanModel(force) ==
    /\ Implements("build_boolean_model", "game")
    /\ "encode" \in flags
    /\ force \/ "bool" \notin flags
    /\ session' = [session EXCEPT !.env = WithBool(WithSexp(@))]
    /\ IF session.env.bool = NoModel
       THEN /\ layers' = layers \cup {"determ"}
            /\ flags' = flags \cup IF session'.env.bool.determ THEN {"flat"}
                                                               ELSE {"flat", "bool"}
            /\ Return(IF session'.env.bool.determ THEN "error" ELSE "ok")
       ELSE /\ flags' = flags \cup {"flat", "bool"}
            /\ Return("ok")
            /\ UNCHANGED layers
    /\ UNCHANGED <<parsed, nPlayers, options, task>>

-----------------------------------------------------------------------------
(* Checking.                                                               *)

props == session.db.props

OfType(type) == {k \in DOMAIN props : props[k].type = type}

(* Start checking the properties S, unless their model is not built.       *)
StartChecking(S, force) ==
    /\ IF \E k \in S : props[k].type = "ltl" /\ "bool" \notin flags
       THEN Return("error") /\ UNCHANGED task
       ELSE /\ phase' = "checking"
            /\ task' = [force |-> force, asked |-> S, todo |-> S]
            /\ rv' = "ok"

(* check_property -n k, or the properties of a type and of a player; the   *)
(* option for the type has no letter for the ATL ones.                     *)
CheckPropertyNo(k) ==
    /\ Implements("check_property", "game")
    /\ k \in DOMAIN props
    /\ "build" \in flags
    /\ StartChecking({k}, FALSE)
    /\ UNCHANGED <<session, model, options>>

CheckProperties(type, player) ==
    /\ Implements("check_property", "game")
    /\ type # "atl"
    /\ "build" \in flags
    /\ StartChecking({k \in DOMAIN props : /\ type \in {"any", props[k].type}
                                           /\ player \in {0, props[k].player}},
                     FALSE)
    /\ UNCHANGED <<session, model, options>>

(* The command of one type of properties, for one of them or for all.      *)
OneOrAll(type, S) == S = OfType(type) \/ \E k \in OfType(type) : S = {k}

InvokeGameCommand(type, S) ==
    /\ Implements("check_reach_target", "game")
    /\ type # "ltl"
    /\ {"encode", "build"} \subseteq flags
    /\ OneOrAll(type, S)
    /\ StartChecking(S, TRUE)
    /\ UNCHANGED <<session, model, options>>

(* The command of LTL games warns of an initial condition it does not      *)
(* support, and goes on.                                                   *)
CheckLtlGameSpecSF07(S) ==
    /\ Implements("check_ltlgame_sf07", "game")
    /\ {"encode", "build", "bool"} \subseteq flags
    /\ OneOrAll("ltl", S)
    /\ StartChecking(S, TRUE)
    /\ UNCHANGED <<session, model, options>>

(* The verdict on property k in a finite state machine.                    *)
Verdict(fsm, k) ==
    IF Fill(fsm.model)[k].truth[initial] THEN "True" ELSE "False"

(* Faulty variant: a decided property may be checked again.                *)
LtlRestarts(p) == initial = "N"

(* The check of an LTL property, by itself, asserts that it is unchecked   *)
(* and the initial condition the normal one; it may remain undecided.      *)
LtlMayStart(p) == p.status = "Unchecked" /\ initial = "N"

(* Faulty variant: a verdict found before stops the check.                 *)
StopCheckNext ==
    /\ phase = "checking" /\ task.todo # {}
    /\ LET k == Min(task.todo)
           p == props[k]
           fsm == IF p.fsm = NoFsm THEN session.env.bdd ELSE p.fsm
       IN  IF p.status # "Unchecked"
           THEN task' = [task EXCEPT !.todo = {}] /\ UNCHANGED session
           ELSE /\ session' = [session EXCEPT !.db.props[k] =
                      [p EXCEPT !.fsm = fsm, !.status = Verdict(fsm, k), !.under = initial]]
                /\ task' = [task EXCEPT !.todo = @ \ {Min(@)}]
    /\ UNCHANGED <<model, options, phase, rv, script>>

(* Faulty variant: a property that was decided before is not passed over.  *)
StuckCheckNext ==
    /\ phase = "checking" /\ task.todo # {}
    /\ LET k == Min(task.todo)
           p == props[k]
           fsm == IF p.fsm = NoFsm THEN session.env.bdd ELSE p.fsm
       IN  IF p.status # "Unchecked"
           THEN UNCHANGED <<session, task>>
           ELSE /\ session' = [session EXCEPT !.db.props[k] =
                      [p EXCEPT !.fsm = fsm, !.status = Verdict(fsm, k), !.under = initial]]
                /\ task' = [task EXCEPT !.todo = @ \ {Min(@)}]
    /\ UNCHANGED <<model, options, phase, rv, script>>

(* One property: it takes copies of the finite state machines the first    *)
(* time, is checked with them, and keeps the verdict.                      *)
CheckNext ==
    /\ phase = "checking" /\ task.todo # {}
    /\ LET k == Min(task.todo)
           p == props[k]
           fsm == IF p.fsm = NoFsm THEN session.env.bdd ELSE p.fsm
           skip == ~task.force /\ p.status # "Unchecked"
           ok == /\ fsm # NoFsm
                 /\ p.type = "ltl" => LtlMayStart(p)
       IN  IF skip
           THEN UNCHANGED <<session, phase, rv>>
           ELSE IF ~ok
           THEN /\ phase' = "aborted" /\ rv' = IF fsm = NoFsm THEN "assert" ELSE "ltl"
                /\ UNCHANGED session
           ELSE /\ \E status \in {Verdict(fsm, k)} \cup
                                 (IF p.type = "ltl" THEN {"Unchecked"} ELSE {}) :
                      session' = [session EXCEPT !.db.props[k] =
                         [p EXCEPT !.fsm = fsm, !.status = status,
                                   !.under = IF status = "Unchecked" THEN "none" ELSE initial]]
                /\ UNCHANGED <<phase, rv>>
    /\ task' = [task EXCEPT !.todo = @ \ {Min(@)}]
    /\ UNCHANGED <<model, options, script>>

EndCheck ==
    /\ phase = "checking" /\ task.todo = {}
    /\ phase' = "ready"
    /\ task' = NoTask
    /\ UNCHANGED <<session, model, options, rv, script>>

-----------------------------------------------------------------------------
(* Resetting and quitting.                                                 *)

(* What NuSMV's own reset does: flags, layers, parsed model, properties.   *)
CoreReset ==
    /\ flags' = {} /\ layers' = {} /\ parsed' = NoModel

(* Faulty variant: the commands NuGaT adds for good are added again.       *)
ReinitOnlyReset ==
    /\ LET x == GameInit(LeaveMode(session))
       IN  session' = x /\ ReturnIf(x.ok, "ok")
    /\ CoreReset
    /\ UNCHANGED <<nPlayers, options, task>>

Reset ==
    /\ LET x == GameInit(GameQuit(session))
       IN  session' = x /\ ReturnIf(x.ok, "ok")
    /\ CoreReset
    /\ UNCHANGED <<nPlayers, options, task>>

SmgameEnd ==
    /\ LET x == GameQuit(session)
       IN  /\ session' = x
           /\ IF x.ok THEN phase' = "exited" /\ UNCHANGED rv
                      ELSE phase' = "aborted" /\ rv' = "assert"
    /\ CoreReset
    /\ UNCHANGED <<nPlayers, options, task>>

(* set game_game_initial_condition                                         *)
SetInitialCondition(q) ==
    /\ q # initial
    /\ initial' = q
    /\ Return("ok")
    /\ UNCHANGED <<session, model, method, task>>

-----------------------------------------------------------------------------
(* The prompt, and the script of batch mode.                               *)

(* The options of a script are flags and propNo, the property to check, 0  *)
(* for all of them.                                                        *)
NoScript == [step |-> "none"]

(* Commands that are refused change nothing and are left out.              *)
Command ==
    \/ \E m \in Models : ReadModel(m)
    \/ \E m \in Models : ReadRatFile(m)
    \/ FlattenHierarchy
    \/ EncodeVariables
    \/ BuildFlatModel
    \/ \E force \in BOOLEAN, m \in Methods \cup {"default"} : BuildModel(force, m)
    \/ \E force \in BOOLEAN : BuildBooleanModel(force)
    \/ \E k \in DOMAIN props : CheckPropertyNo(k)
    \/ \E type \in ToSet(PropTypes) \cup {"any"}, player \in 0 .. 2 :
          CheckProperties(type, player)
    \/ \E type \in ToSet(PropTypes), S \in SUBSET DOMAIN props : InvokeGameCommand(type, S)
    \/ \E S \in SUBSET DOMAIN props : CheckLtlGameSpecSF07(S)
    \/ \E q \in Quantifiers : SetInitialCondition(q)
    \/ Reset
    \/ SmgameEnd

Prompt == /\ phase = "ready" /\ script = NoScript
          /\ Command
          /\ UNCHANGED script

(* Where the script goes after a step.                                     *)
AfterBuilding(o) == IF o.checkFsm THEN "fail" ELSE IF o.propNo > 0 THEN "lookup" ELSE "all"

AfterEncoding(o) == IF o.dumpOrder THEN "stop" ELSE "flat"

AfterFlat(o) == IF o.coi THEN AfterBuilding(o) ELSE "build"

(* There are no statistics of reachable states for games.                  *)
AfterChecking(o) == IF o.reachable THEN "fail" ELSE "done"

Following(step, o) ==
    CASE step = "read"    -> "flatten"
      [] step = "flatten" -> IF o.list THEN "done" ELSE "encode"
      [] step = "encode"  -> AfterEncoding(o)
      [] step = "flat"    -> IF o.writeFlat THEN "writeFlat"
                             ELSE IF o.bool THEN "bool" ELSE AfterFlat(o)
      [] step = "bool"    -> IF o.writeBool THEN "writeBool" ELSE AfterFlat(o)
      [] step = "writeBool" -> AfterFlat(o)
      [] step = "build"   -> AfterBuilding(o)
      [] step = "lookup"  -> "check"
      [] step = "ltl"     -> "check"
      [] step = "allLtl"  -> "rest"
      [] OTHER            -> "done"

Goto(step) == script' = [script EXCEPT !.step = step]

(* The database was fetched before the model was read; reading a game      *)
(* frees it.  Looking into it crashes the program or finds anything.       *)
LookupProp ==
    /\ script.step = "lookup"
    /\ IF session.batchDb = "freed"
       THEN \/ phase' = "undefined" /\ UNCHANGED script
            \/ \E step \in {"check"} \cup (IF "bool" \in flags THEN {} ELSE {"ltl"}) :
                  Goto(step) /\ UNCHANGED phase
       ELSE /\ Goto(IF /\ script.options.propNo \in DOMAIN props
                       /\ props[script.options.propNo].type = "ltl"
                       /\ "bool" \notin flags
                    THEN "ltl" ELSE "check")
            /\ UNCHANGED phase
    /\ UNCHANGED <<session, model, options, task, rv>>

(* Without a machine, under -coi, nothing of a game can be verified.       *)
VerifyTypes(types) ==
    IF "build" \in flags
    THEN StartChecking({k \in DOMAIN props : props[k].type \in types}, FALSE)
    ELSE phase' = "undefined" /\ UNCHANGED <<task, rv>>

(* Verifying all properties of a freed database crashes or verifies none,  *)
(* or, when its memory is that of the new one, those of the game that was  *)
(* read: the boolean model is built before the LTL properties.             *)
VerifyAll ==
    /\ script.step = "all"
    /\ IF session.batchDb = "freed"
       THEN \/ phase' = "undefined" /\ UNCHANGED <<task, rv, script>>
            \/ Goto(AfterChecking(script.options)) /\ UNCHANGED <<phase, task, rv>>
            \/ /\ VerifyTypes(ToSet(PropTypes) \ {"ltl", "gen"})
               /\ Goto(IF OfType("ltl") # {} /\ "bool" \notin flags THEN "allLtl" ELSE "rest")
       ELSE StartChecking(DOMAIN props, FALSE) /\ Goto(AfterChecking(script.options))
    /\ UNCHANGED <<session, model, options>>

VerifyRest ==
    /\ script.step = "rest"
    /\ VerifyTypes({"ltl", "gen"})
    /\ Goto(AfterChecking(script.options))
    /\ UNCHANGED <<session, model, options>>

CheckOne ==
    /\ script.step = "check"
    /\ IF "build" \in flags /\ script.options.propNo \in DOMAIN props
       THEN CheckPropertyNo(script.options.propNo)
       ELSE Return("error") /\ UNCHANGED <<session, model, options, task>>
    /\ Goto(AfterChecking(script.options))

(* The file cannot be opened, or writing the flat model is undefined.      *)
WriteModel ==
    /\ \/ script.step = "writeFlat" /\ phase' = "undefined" /\ UNCHANGED rv
       \/ script.step = "writeFlat" /\ Return("error")
       \/ script.step = "writeBool" /\ \E code \in {"ok", "error"} : Return(code)
    /\ UNCHANGED <<session, model, options, task>>

(* A command of the script, by its step.                                   *)
ScriptedCommand ==
    /\ \/ script.step = "read" /\ \E m \in {m \in Models : m.game /\ ~m.rat} : ReadModel(m)
       \/ script.step = "flatten" /\ FlattenHierarchy
       \/ script.step = "encode" /\ EncodeVariables
       \/ script.step = "flat" /\ BuildFlatModel
       \/ script.step \in {"bool", "ltl", "allLtl"} /\ BuildBooleanModel(FALSE)
       \/ script.step = "build" /\ BuildModel(FALSE, "default")
       \/ WriteModel
    /\ Goto(Following(script.step, script.options))

BatchMain ==
    /\ phase = "ready" /\ script # NoScript
    /\ rv = "ok"
    /\ \/ ScriptedCommand
       \/ LookupProp
       \/ VerifyAll
       \/ VerifyRest
       \/ CheckOne
       \/ script.step = "done" /\ SmgameEnd /\ UNCHANGED script

(* A command that fails, or the check of machines, ends a batch run, and   *)
(* so does an order of variables that was asked for, without an error.     *)
BatchFails ==
    /\ phase = "ready" /\ script # NoScript
    /\ rv # "ok" \/ script.step \in {"fail", "stop"}
    /\ phase' = IF rv = "ok" /\ script.step = "stop" THEN "stopped" ELSE "failed"
    /\ UNCHANGED <<session, model, options, task, rv, script>>

Init ==
    /\ session = [ok |-> InitCommands(CoreTable).ok, mode |-> FALSE,
                  commands |-> NormalCommands, db |-> EmptyDb("core"),
                  hierarchy |-> NoModel, env |-> NoFsms, batchDb |-> "live"]
    /\ parsed = NoModel /\ flags = {} /\ layers = {}
    /\ nPlayers = FALSE
    /\ initial = "N" /\ method \in Methods
    /\ phase = "ready"
    /\ task = NoTask
    /\ rv = "ok"
    /\ script = NoScript

Next == Prompt \/ CheckNext \/ EndCheck \/ BatchMain \/ BatchFails

(* The program goes on by itself; nobody has to type a command.            *)
Spec == /\ Init /\ [][Next]_vars
        /\ WF_vars(CheckNext) /\ WF_vars(EndCheck)
        /\ WF_vars(BatchMain) /\ WF_vars(BatchFails)

-----------------------------------------------------------------------------
(* Properties.                                                             *)

(* Outside the game mode the command table and the database are those of   *)
(* NuSMV, in it those of the game, whatever the models read, the errors    *)
(* met and the resets, but for one error: where a file has an ill-typed    *)
(* property, the database may be NuSMV's in the game mode, and then it is  *)
(* empty.  Nothing is put aside but in the game mode, and quitting leaves  *)
(* NuSMV's own table.                                                      *)
TablesFollowMode ==
    /\ phase \in {"ready", "checking"} =>
          IF session.mode
          THEN /\ session.commands.table = GameTable
               /\ session.db.kind # "game" =>
                     /\ session.db = EmptyDb("core")
                     /\ \E m \in Models : IllTyped(m)
          ELSE session.db.kind = "core" /\ session.commands = NormalCommands
    /\ phase = "exited" =>
          /\ ~session.mode /\ session.hierarchy = NoModel /\ session.env = NoFsms
          /\ session.commands.table = CoreTable

(* None of the assertions on command tables, databases, hierarchies and    *)
(* finite state machines fails; a model is flattened again only after an   *)
(* error that left its layers.                                             *)
AssertionsHold ==
    phase = "aborted" /\ rv = "assert" => "model" \in layers /\ FlatteningFails(parsed)

(* The stages a model has passed are really there, for the model that was  *)
(* read last, and outside the game mode nothing of a game is left.         *)
StagesAreReal ==
    /\ {"flatten", "encode"} \cap flags # {} => session.hierarchy = parsed
    /\ "flat" \in flags => session.env.sexp = parsed
    /\ "bool" \in flags => session.env.bool = parsed
    /\ "build" \in flags => session.env.bdd.model = parsed
    /\ ~session.mode => session.hierarchy = NoModel /\ session.env = NoFsms

(* A property that is decided was decided in a finite state machine of the *)
(* model that is read, and its verdict is the truth for the interpretation *)
(* of initial conditions it was checked under.                             *)
StatusIsVerdict ==
    \A k \in DOMAIN props : props[k].status # "Unchecked" =>
        /\ props[k].fsm.model = parsed
        /\ (props[k].status = "True") <=> Fill(parsed)[k].truth[props[k].under]

(* A verdict is kept as long as its property is in the database, unless    *)
(* the interpretation of initial conditions is another one.                *)
VerdictKept ==
    [][\A k \in DOMAIN props :
          /\ props[k].status # "Unchecked"
          /\ k \in DOMAIN props'
          => \/ props'[k].status = props[k].status
             \/ initial # props[k].under
             \/ session'.db.kind # session.db.kind]_vars

(* When a command has gone through the properties it was asked to check,   *)
(* all but LTL ones are decided, and under the present interpretation of   *)
(* initial conditions when the command checks decided ones again.          *)
AskedAreDecided ==
    phase = "checking" /\ task.todo = {} =>
        \A k \in task.asked : props[k].type # "ltl" =>
            /\ props[k].status # "Unchecked"
            /\ task.force => props[k].under = initial

(* A check always comes to its end.                                        *)
ChecksEnd == phase = "checking" ~> phase # "checking"
=============================================================================
