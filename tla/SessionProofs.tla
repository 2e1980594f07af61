---------------------------- MODULE SessionProofs ----------------------------
(***************************************************************************)
(* Theorems about the session and the program around it, for every set of  *)
(* commands, models, partition methods and command lines: the command      *)
(* tables first, then the stages of the model with the verdicts found in   *)
(* them, then the assertions and the checks that were asked for.           *)
(***************************************************************************)
EXTENDS Program, WellFoundedInduction, TLAPS

-----------------------------------------------------------------------------
(* The command tables of both modes.                                       *)

NormalTable ==
    [n \in Names |-> IF n \in RatCommands THEN "game"
                     ELSE IF n \in Specific THEN "none"
                     ELSE "core"]

GameCommands ==
    [table     |-> GameTable,
     dependent |-> [n \in Dependent |-> "core"],
     specific  |-> [n \in OtherNames |-> "core"]]

(* Starting the package adds the commands of RATSY, and quitting it takes  *)
(* them away, without an assertion failing.                                *)
LEMMA StartingTheTable ==
    /\ InitCommands(CoreTable).commands = NormalCommands
    /\ InitCommands(CoreTable).ok = TRUE
    /\ NormalCommands = [table |-> NormalTable, dependent |-> NotStored,
                         specific |-> NotStored]
  BY CommandNamesAssumption
     DEF InitCommands, NormalCommands, NormalTable, CoreTable, AddCmds, Undefined, Names

LEMMA QuittingTheTable ==
    /\ QuitCommands(NormalCommands).commands.table = CoreTable
    /\ QuitCommands(NormalCommands).commands.dependent = NotStored
    /\ QuitCommands(NormalCommands).commands.specific = NotStored
    /\ QuitCommands(NormalCommands).ok = TRUE
<1>. DEFINE t == RemoveCmds([table |-> NormalTable, ok |-> TRUE], RatCommands)
<1>1. t.ok = TRUE /\ t.table = CoreTable
  BY CommandNamesAssumption DEF RemoveCmds, Defined, NormalTable, CoreTable, Names
<1>2. NormalCommands.table = NormalTable /\ NormalCommands.dependent = NotStored
      /\ NormalCommands.specific = NotStored
  BY StartingTheTable
<1>3. QuitCommands(NormalCommands).commands = [NormalCommands EXCEPT !.table = t.table]
  BY <1>2 DEF QuitCommands
<1>4. QuitCommands(NormalCommands).ok = t.ok
  BY <1>1, <1>2 DEF QuitCommands
<1>5. [NormalCommands EXCEPT !.table = t.table] =
          [table |-> t.table, dependent |-> NotStored, specific |-> NotStored]
  <2>. HIDE DEF t
  <2>. QED  BY StartingTheTable
<1>. HIDE DEF t
<1>. QED  BY <1>1, <1>3, <1>4, <1>5

(* Entering the game mode from the normal table overloads it as intended.  *)
LEMMA EnteringTheTable ==
    /\ SwitchToGameCmds(NormalCommands).commands = GameCommands
    /\ SwitchToGameCmds(NormalCommands).ok = TRUE
<1>. DEFINE c == NormalCommands
            others == NamesSpecific(c.table)
            t1 == RemoveCmds([table |-> c.table, ok |-> c.dependent = NotStored],
                             Dependent)
            t2 == AddCmds(t1, Dependent)
            t3 == RemoveCmds(t2, others)
            t4 == AddCmds(t3, Specific)
<1>0. c.table = NormalTable /\ c.dependent = NotStored /\ c.specific = NotStored
  BY StartingTheTable
<1>. HIDE DEF c
<1>1. others = OtherNames
  BY <1>0, CommandNamesAssumption DEF NamesSpecific, NormalTable, Names
<1>2. t1.ok = TRUE /\ t1.table = [n \in Names |-> IF n \in Dependent THEN "none"
                                                  ELSE NormalTable[n]]
  BY <1>0, CommandNamesAssumption DEF RemoveCmds, Defined, NormalTable, Names
<1>3. t2.ok = TRUE /\ t2.table = [n \in Names |-> IF n \in Dependent THEN "game"
                                                  ELSE NormalTable[n]]
  BY <1>2, CommandNamesAssumption DEF AddCmds, Undefined, NormalTable, Names
<1>4. t3.ok = TRUE /\ t3.table = [n \in Names |-> IF n \in OtherNames THEN "none"
                                                  ELSE t2.table[n]]
  BY <1>1, <1>3, CommandNamesAssumption DEF RemoveCmds, Defined, NormalTable, Names
<1>5. t4.ok = TRUE /\ t4.table = [n \in Names |-> IF n \in Specific THEN "game"
                                                  ELSE t3.table[n]]
  <2>. HIDE DEF t1, t2, t3
  <2>1. Undefined(t3.table, Specific)
    BY <1>3, <1>4, CommandNamesAssumption DEF Undefined, NormalTable, Names
  <2>. QED  BY <1>4, <2>1 DEF AddCmds
<1>6. t4.table = GameTable
  <2>. HIDE DEF t1, t2, t3, t4
  <2>1. ASSUME NEW n \in Names PROVE t4.table[n] = GameTable[n]
    <3>1. t4.table[n] = IF n \in Specific THEN "game" ELSE t3.table[n]
      BY <1>5
    <3>2. t3.table[n] = IF n \in OtherNames THEN "none" ELSE t2.table[n]
      BY <1>4
    <3>3. t2.table[n] = IF n \in Dependent THEN "game" ELSE NormalTable[n]
      BY <1>3
    <3>. QED
      BY <3>1, <3>2, <3>3, CommandNamesAssumption DEF NormalTable, GameTable, Names
  <2>. QED  BY <1>5, <2>1 DEF GameTable
<1>7. Taken(c.table, Dependent) = [n \in Dependent |-> "core"]
  BY <1>0, CommandNamesAssumption DEF Taken, NormalTable, Names
<1>8. Taken(t2.table, others) = [n \in OtherNames |-> "core"]
  BY <1>1, <1>3, CommandNamesAssumption DEF Taken, NormalTable, Names
<1>. QED
  <2>1. SwitchToGameCmds(c) =
            [commands |-> [table     |-> t4.table,
                           dependent |-> Taken(c.table, Dependent),
                           specific  |-> Taken(t2.table, others)],
             ok       |-> t4.ok /\ c.specific = NotStored]
    BY Zenon DEF SwitchToGameCmds
  <2>. HIDE DEF t1, t2, t3, t4, others
  <2>2. SwitchToGameCmds(c).commands = GameCommands
    BY <2>1, <1>6, <1>7, <1>8 DEF GameCommands
  <2>3. SwitchToGameCmds(c).ok = TRUE
    <3>1. SwitchToGameCmds(c).ok = (t4.ok /\ c.specific = NotStored)
      BY <2>1
    <3>. QED  BY <3>1, <1>0, <1>5, Zenon
  <2>. QED  BY <2>2, <2>3 DEF c

(* Leaving the game mode restores the normal table.                        *)
LEMMA LeavingTheTable ==
    /\ SwitchFromGameCmds(GameCommands).commands = NormalCommands
    /\ SwitchFromGameCmds(GameCommands).ok = TRUE
<1>. DEFINE stored == [n \in OtherNames |-> "core"]
            storedDependent == [n \in Dependent |-> "core"]
            t1 == RemoveCmds([table |-> GameTable, ok |-> TRUE], Specific)
            t2 == RestoreCmds(t1, stored)
            t3 == RemoveCmds(t2, Dependent)
            t4 == RestoreCmds(t3, storedDependent)
<1>1. stored # NotStored /\ storedDependent # NotStored
  <2>1. DOMAIN stored = OtherNames /\ DOMAIN storedDependent = Dependent
    OBVIOUS
  <2>2. DOMAIN NotStored = {"null"}
    BY DEF NotStored
  <2>3. "null" \notin OtherNames /\ "null" \notin Dependent
    BY CommandNamesAssumption DEF Names
  <2>. QED  BY <2>1, <2>2, <2>3
<1>2. t1.ok = TRUE /\ t1.table = [n \in Names |-> IF n \in Specific THEN "none"
                                                  ELSE GameTable[n]]
  BY CommandNamesAssumption DEF RemoveCmds, Defined, GameTable, Names
<1>3. t2.ok = TRUE /\ t2.table = [n \in Names |-> IF n \in OtherNames THEN "core"
                                                  ELSE t1.table[n]]
  <2>. HIDE DEF t1
  <2>1. Undefined(t1.table, OtherNames)
    BY <1>2, CommandNamesAssumption DEF Undefined, GameTable, Names
  <2>. QED  BY <1>1, <1>2, <2>1 DEF RestoreCmds
<1>4. t3.ok = TRUE /\ t3.table = [n \in Names |-> IF n \in Dependent THEN "none"
                                                  ELSE t2.table[n]]
  <2>. HIDE DEF t1, t2
  <2>1. Defined(t2.table, Dependent)
    BY <1>2, <1>3, CommandNamesAssumption DEF Defined, GameTable, Names
  <2>. QED  BY <1>3, <2>1 DEF RemoveCmds
<1>5. t4.ok = TRUE /\ t4.table = [n \in Names |-> IF n \in Dependent THEN "core"
                                                  ELSE t3.table[n]]
  <2>. HIDE DEF t1, t2, t3
  <2>1. Undefined(t3.table, Dependent)
    BY <1>4, CommandNamesAssumption DEF Undefined, Names
  <2>. QED  BY <1>1, <1>4, <2>1 DEF RestoreCmds
<1>6. t4.table = NormalTable
  <2>. HIDE DEF t1, t2, t3, t4
  <2>1. ASSUME NEW n \in Names PROVE t4.table[n] = NormalTable[n]
    <3>1. t4.table[n] = IF n \in Dependent THEN "core" ELSE t3.table[n]
      BY <1>5
    <3>2. t3.table[n] = IF n \in Dependent THEN "none" ELSE t2.table[n]
      BY <1>4
    <3>3. t2.table[n] = IF n \in OtherNames THEN "core" ELSE t1.table[n]
      BY <1>3
    <3>4. t1.table[n] = IF n \in Specific THEN "none" ELSE GameTable[n]
      BY <1>2
    <3>. QED
      BY <3>1, <3>2, <3>3, <3>4, CommandNamesAssumption DEF GameTable, NormalTable, Names
  <2>. QED  BY <1>5, <2>1 DEF NormalTable
<1>. QED
  BY <1>5, <1>6, StartingTheTable DEF SwitchFromGameCmds, GameCommands

-----------------------------------------------------------------------------
(* The session.                                                            *)

Shape(x) ==
    /\ DOMAIN x = {"ok", "mode", "commands", "db", "hierarchy", "env", "batchDb"}
    /\ DOMAIN x.db = {"kind", "props"}

NormalMode(x) ==
    /\ x.mode = FALSE
    /\ x.commands = NormalCommands
    /\ x.db.kind = "core"
    /\ x.hierarchy = NoModel
    /\ x.env = NoFsms

(* The database of the game mode is the game's, or the empty one the error *)
(* of an ill-typed property leaves.                                        *)
DbOfTheMode(db) ==
    \/ db.kind = "game"
    \/ db = EmptyDb("core") /\ \E m \in Models : IllTyped(m)

GameMode(x) ==
    /\ x.mode = TRUE
    /\ x.commands = GameCommands
    /\ DbOfTheMode(x.db)

(* A session between two steps of a command, and one that is over.         *)
Consistent(x) == Shape(x) /\ x.ok = TRUE /\ (NormalMode(x) \/ GameMode(x))

Over(x) ==
    /\ x.ok = TRUE
    /\ x.mode = FALSE
    /\ x.commands.table = CoreTable
    /\ x.hierarchy = NoModel
    /\ x.env = NoFsms

ModeInv == IF phase = "exited" THEN Over(session) ELSE Consistent(session)

(* What is read is one of the files.                                       *)
FromModels == "read" \in flags => parsed \in Models

SessionInv == FromModels /\ ModeInv

LEMMA EnteringTheMode ==
    ASSUME NEW x, Consistent(x), x.mode = FALSE
    PROVE  Consistent(ModeEnter(x)) /\ ModeEnter(x).mode = TRUE
<1>1. x.ok = TRUE /\ x.commands = NormalCommands /\ Shape(x)
  BY DEF Consistent, NormalMode, GameMode
<1>. DEFINE c == SwitchToGameCmds(x.commands)
<1>2. c.commands = GameCommands /\ c.ok = TRUE
  BY <1>1, EnteringTheTable
<1>3. ModeEnter(x) = [x EXCEPT !.ok = @ /\ c.ok /\ ~x.mode,
                               !.mode = TRUE,
                               !.commands = c.commands,
                               !.db = EmptyDb("game"),
                               !.batchDb = "freed"]
  BY Zenon DEF ModeEnter
<1>. HIDE DEF c
<1>4. /\ DOMAIN ModeEnter(x) = DOMAIN x
      /\ ModeEnter(x).ok = (x.ok /\ c.ok /\ ~x.mode)
      /\ ModeEnter(x).mode = TRUE
      /\ ModeEnter(x).commands = GameCommands
      /\ ModeEnter(x).db = EmptyDb("game")
  BY <1>1, <1>2, <1>3 DEF Shape
<1>5. ModeEnter(x).ok = TRUE
  BY <1>1, <1>2, <1>4, Zenon
<1>. QED  BY <1>1, <1>4, <1>5 DEF Consistent, GameMode, DbOfTheMode, Shape, EmptyDb

LEMMA LeavingTheMode ==
    ASSUME NEW x, Consistent(x)
    PROVE  Consistent(LeaveMode(x)) /\ NormalMode(LeaveMode(x))
<1>1. CASE x.mode = FALSE
  BY <1>1 DEF LeaveMode, Consistent, NormalMode, GameMode
<1>2. CASE x.mode = TRUE
  <2>1. x.ok = TRUE /\ x.commands = GameCommands /\ Shape(x)
    BY <1>2 DEF Consistent, NormalMode, GameMode
  <2>. DEFINE c == SwitchFromGameCmds(x.commands)
  <2>2. c.commands = NormalCommands /\ c.ok = TRUE
    BY <2>1, LeavingTheTable
  <2>3. ModeExit(x) = [x EXCEPT !.ok = @ /\ c.ok /\ x.mode,
                                !.mode = FALSE,
                                !.commands = c.commands,
                                !.hierarchy = NoModel,
                                !.db = EmptyDb("core"),
                                !.env = NoFsms,
                                !.batchDb = "freed"]
    BY Zenon DEF ModeExit
  <2>. HIDE DEF c
  <2>4. /\ DOMAIN ModeExit(x) = DOMAIN x
        /\ ModeExit(x).ok = (x.ok /\ c.ok /\ x.mode)
        /\ ModeExit(x).mode = FALSE
        /\ ModeExit(x).commands = NormalCommands
        /\ ModeExit(x).hierarchy = NoModel
        /\ ModeExit(x).db = EmptyDb("core")
        /\ ModeExit(x).env = NoFsms
    BY <2>1, <2>2, <2>3 DEF Shape
  <2>5. ModeExit(x).ok = TRUE
    BY <1>2, <2>1, <2>2, <2>4, Zenon
  <2>6. LeaveMode(x) = ModeExit(x)
    BY <1>2 DEF LeaveMode
  <2>. QED  BY <2>1, <2>4, <2>5, <2>6 DEF Consistent, NormalMode, Shape, EmptyDb
<1>. QED  BY <1>1, <1>2 DEF Consistent, NormalMode, GameMode

(* Quitting the package leaves the table of NuSMV, and starting it again   *)
(* makes a normal session.                                                 *)
LEMMA Quitting ==
    ASSUME NEW x, Consistent(x)
    PROVE  /\ Over(GameQuit(x))
           /\ Shape(GameQuit(x))
           /\ GameQuit(x).db.kind = "core"
           /\ GameQuit(x).commands.dependent = NotStored
           /\ GameQuit(x).commands.specific = NotStored
<1>. DEFINE y == LeaveMode(x)
            c == QuitCommands(y.commands)
<1>1. y.ok = TRUE /\ Shape(y) /\ NormalMode(y)
  BY LeavingTheMode DEF Consistent
<1>2. GameQuit(x) = [y EXCEPT !.commands = c.commands,
                              !.ok = @ /\ c.ok /\ y.hierarchy = NoModel]
  BY Zenon DEF GameQuit
<1>. HIDE DEF y
<1>3. y.commands = NormalCommands
  BY <1>1 DEF NormalMode
<1>4. /\ c.commands.table = CoreTable /\ c.ok = TRUE
      /\ c.commands.dependent = NotStored /\ c.commands.specific = NotStored
  BY <1>3, QuittingTheTable
<1>. HIDE DEF c
<1>5. /\ DOMAIN GameQuit(x) = DOMAIN y
      /\ GameQuit(x).ok = (y.ok /\ c.ok /\ y.hierarchy = NoModel)
      /\ GameQuit(x).commands = c.commands
      /\ GameQuit(x).mode = y.mode
      /\ GameQuit(x).hierarchy = y.hierarchy
      /\ GameQuit(x).env = y.env
      /\ GameQuit(x).db = y.db
  BY <1>1, <1>2 DEF Shape
<1>6. y.hierarchy = NoModel
  BY <1>1 DEF NormalMode
<1>7. GameQuit(x).ok = TRUE
  BY <1>1, <1>4, <1>5, <1>6, Zenon
<1>. QED  BY <1>1, <1>4, <1>5, <1>7 DEF Over, NormalMode, Shape

LEMMA Restarting ==
    ASSUME NEW x, Consistent(x)
    PROVE  Consistent(GameInit(GameQuit(x)))
<1>. DEFINE y == GameQuit(x)
            c == InitCommands(y.commands.table)
<1>1. /\ Shape(y) /\ y.ok = TRUE /\ y.mode = FALSE /\ y.commands.table = CoreTable
      /\ y.hierarchy = NoModel /\ y.env = NoFsms
      /\ y.commands.dependent = NotStored /\ y.commands.specific = NotStored
  BY Quitting DEF Over
<1>2. GameInit(y) = [y EXCEPT !.ok = @ /\ c.ok /\ y.hierarchy = NoModel
                                      /\ y.commands.dependent = NotStored
                                      /\ y.commands.specific = NotStored,
                              !.commands = c.commands,
                              !.db = EmptyDb("core")]
  BY Zenon DEF GameInit
<1>. HIDE DEF y
<1>3. c.commands = NormalCommands /\ c.ok = TRUE
  BY <1>1, StartingTheTable
<1>. HIDE DEF c
<1>4. /\ DOMAIN GameInit(y) = DOMAIN y
      /\ GameInit(y).ok = (y.ok /\ c.ok /\ y.hierarchy = NoModel
                                /\ y.commands.dependent = NotStored
                                /\ y.commands.specific = NotStored)
      /\ GameInit(y).commands = NormalCommands
      /\ GameInit(y).mode = y.mode
      /\ GameInit(y).hierarchy = y.hierarchy
      /\ GameInit(y).env = y.env
      /\ GameInit(y).db = EmptyDb("core")
  BY <1>1, <1>2, <1>3 DEF Shape
<1>5. GameInit(y).ok = TRUE
  BY <1>1, <1>3, <1>4, Zenon
<1>6. Consistent(GameInit(y))
  BY <1>1, <1>4, <1>5 DEF Consistent, NormalMode, Shape, EmptyDb
<1>. QED  BY <1>6 DEF y

(* Commands of the game mode are only in the table while it is on, so that *)
(* they change a session of the game mode, and no more of it than its      *)
(* properties, its hierarchy and its machines.                             *)
GameCommandsOfTable == Dependent \cup Specific

LEMMA GameCommandsNeedTheMode ==
    ASSUME Consistent(session), NEW command \in GameCommandsOfTable,
           Implements(command, "game")
    PROVE  GameMode(session)
<1>1. NormalTable[command] # "game"
  BY CommandNamesAssumption DEF GameCommandsOfTable, NormalTable, Names
<1>2. session.commands # NormalCommands
  BY <1>1, StartingTheTable DEF Implements
<1>. QED  BY <1>2 DEF Consistent, NormalMode

LEMMA ContentsOfTheMode ==
    ASSUME NEW x, NEW y, Consistent(x), GameMode(x), Shape(y),
           y.ok = x.ok, y.mode = x.mode, y.commands = x.commands,
           DbOfTheMode(y.db)
    PROVE  Consistent(y)
  BY DEF Consistent, GameMode

Keeps == phase' # "exited" /\ Consistent(session')

LEMMA ReturnStays ==
    ASSUME NEW code, NEW ok
    PROVE  /\ Return(code) => phase' # "exited"
           /\ ReturnIf(ok, code) => phase' # "exited"
  BY DEF Return, ReturnIf

LEMMA ReadKeeps ==
    ASSUME Consistent(session), NEW m, ReadModel(m)
    PROVE  Keeps
<1>. DEFINE x == LeaveMode(session)
            y == IF m.game /\ m.syntax # "before" THEN ModeEnter(x) ELSE x
<1>1. session' = y /\ phase' # "exited"
  BY ReturnStays DEF ReadModel
<1>2. Consistent(x) /\ x.mode = FALSE
  BY LeavingTheMode DEF NormalMode
<1>. HIDE DEF x
<1>3. Consistent(y)
  BY <1>2, EnteringTheMode
<1>. QED  BY <1>1, <1>3 DEF Keeps

LEMMA ReadRatKeeps ==
    ASSUME Consistent(session), NEW m, ReadRatFile(m)
    PROVE  Keeps
<1>. DEFINE y == IF session.mode THEN session ELSE ModeEnter(session)
<1>1. phase' # "exited" /\ session' \in {session, y}
  <2>1. CASE ~nPlayers
    BY <2>1 DEF ReadRatFile
  <2>2. CASE nPlayers /\ m.syntax # "ok"
    BY <2>2, ReturnStays DEF ReadRatFile
  <2>3. CASE nPlayers /\ m.syntax = "ok"
    BY <2>3, ReturnStays DEF ReadRatFile
  <2>. QED  BY <2>1, <2>2, <2>3
<1>2. Consistent(y)
  BY EnteringTheMode DEF Consistent, NormalMode, GameMode
<1>. QED  BY <1>1, <1>2 DEF Keeps

LEMMA BuildingKeeps ==
    ASSUME Consistent(session), FromModels,
           \/ FlattenHierarchy
           \/ EncodeVariables
           \/ BuildFlatModel
           \/ \E force \in BOOLEAN, m \in Methods \cup {"default"} : BuildModel(force, m)
           \/ \E force \in BOOLEAN : BuildBooleanModel(force)
    PROVE  Keeps
<1>0. Shape(session)
  BY DEF Consistent
<1>1. CASE FlattenHierarchy
  <2>1. GameMode(session)
    BY <1>1, SessionAssumption, GameCommandsNeedTheMode
       DEF FlattenHierarchy, GameCommandsOfTable
  <2>. DEFINE filled == [k \in DOMAIN Fill(parsed) |-> Unchecked(Fill(parsed)[k])]
  <2>2. /\ phase' # "exited" /\ "read" \in flags
        /\ \/ session' = session
           \/ session' = [session EXCEPT !.db = EmptyDb("core")] /\ IllTyped(parsed)
           \/ /\ session' = [session EXCEPT !.hierarchy = parsed, !.db.props = filled]
              /\ session.db.kind # "core" \/ parsed.props = << >>
    BY <1>1, ReturnStays DEF FlattenHierarchy
  <2>3. parsed.props = << >> => filled = << >>
    BY DEF Fill
  <2>. HIDE DEF filled
  <2>4. CASE session' = session
    BY <2>2, <2>4 DEF Keeps
  <2>5. CASE session' = [session EXCEPT !.db = EmptyDb("core")] /\ IllTyped(parsed)
    <3>1. Shape(session') /\ session'.ok = session.ok /\ session'.mode = session.mode
          /\ session'.commands = session.commands /\ session'.db = EmptyDb("core")
      BY <1>0, <2>5 DEF Shape, EmptyDb
    <3>2. DbOfTheMode(session'.db)
      BY <2>2, <2>5, <3>1 DEF DbOfTheMode, FromModels
    <3>. QED  BY <2>1, <2>2, <3>1, <3>2, ContentsOfTheMode DEF Keeps
  <2>6. CASE /\ session' = [session EXCEPT !.hierarchy = parsed, !.db.props = filled]
             /\ session.db.kind # "core" \/ parsed.props = << >>
    <3>1. Shape(session') /\ session'.ok = session.ok /\ session'.mode = session.mode
          /\ session'.commands = session.commands
          /\ session'.db = [session.db EXCEPT !.props = filled]
      BY <1>0, <2>6 DEF Shape
    <3>2. DbOfTheMode(session'.db)
      <4>1. CASE session.db.kind = "game"
        BY <1>0, <3>1, <4>1 DEF DbOfTheMode, Shape
      <4>2. CASE session.db = EmptyDb("core") /\ \E m \in Models : IllTyped(m)
        <5>1. filled = << >>
          BY <2>3, <2>6, <4>2 DEF EmptyDb
        <5>2. session'.db = EmptyDb("core")
          BY <3>1, <4>2, <5>1 DEF EmptyDb
        <5>. QED  BY <4>2, <5>2 DEF DbOfTheMode
      <4>. QED  BY <2>1, <4>1, <4>2 DEF GameMode, DbOfTheMode
    <3>. QED  BY <2>1, <2>2, <3>1, <3>2, ContentsOfTheMode DEF Keeps
  <2>. QED  BY <2>2, <2>4, <2>5, <2>6
<1>2. CASE EncodeVariables
  BY <1>2, ReturnStays DEF EncodeVariables, Keeps
<1>3. ASSUME NEW env, NEW command \in GameCommandsOfTable, Implements(command, "game"),
             session' = [session EXCEPT !.env = env], phase' # "exited"
      PROVE  Keeps
  <2>1. GameMode(session)
    BY <1>3, GameCommandsNeedTheMode
  <2>2. Shape(session') /\ session'.ok = session.ok /\ session'.mode = session.mode
        /\ session'.commands = session.commands /\ session'.db = session.db
    BY <1>0, <1>3 DEF Shape
  <2>. QED  BY <1>3, <2>1, <2>2, ContentsOfTheMode DEF Keeps, GameMode
<1>4. CASE BuildFlatModel
  <2>1. session' = [session EXCEPT !.env = WithSexp(session.env)]
    BY <1>4, <1>0 DEF BuildFlatModel, Shape
  <2>. QED  BY <1>3, <1>4, <2>1, SessionAssumption, ReturnStays
            DEF BuildFlatModel, GameCommandsOfTable
<1>5. ASSUME NEW force, NEW m, BuildModel(force, m) PROVE Keeps
  <2>1. session' = [session EXCEPT !.env = WithBdd(WithSexp(session.env), method')]
    BY <1>5, <1>0 DEF BuildModel, Shape
  <2>. QED  BY <1>3, <1>5, <2>1, SessionAssumption, ReturnStays
            DEF BuildModel, GameCommandsOfTable
<1>6. ASSUME NEW force, BuildBooleanModel(force) PROVE Keeps
  <2>1. session' = [session EXCEPT !.env = WithBool(WithSexp(session.env))]
    BY <1>6, <1>0 DEF BuildBooleanModel, Shape
  <2>2. phase' # "exited"
    BY <1>6, ReturnStays DEF BuildBooleanModel
  <2>3. Implements("build_boolean_model", "game")
    BY <1>6 DEF BuildBooleanModel
  <2>. QED  BY <1>3, <2>1, <2>2, <2>3, SessionAssumption DEF GameCommandsOfTable
<1>. QED  BY <1>1, <1>2, <1>4, <1>5, <1>6

(* Starting a check changes nothing of the session; a check is only        *)
(* running in the game mode, or it has nothing to do.                      *)
LEMMA CheckStartKeeps ==
    ASSUME Consistent(session), NEW S, NEW force, StartChecking(S, force),
           session' = session
    PROVE  Keeps
  BY ReturnStays DEF StartChecking, Keeps

LEMMA CheckNextKeeps ==
    ASSUME Consistent(session), CheckNext
    PROVE  Keeps
<1>0. Shape(session)
  BY DEF Consistent
<1>1. /\ phase' # "exited"
      /\ \/ session' = session
         \/ \E k, p : session' = [session EXCEPT !.db.props[k] = p]
  <2>. DEFINE k == Min(task.todo)
              p == props[k]
              fsm == IF p.fsm = NoFsm THEN session.env.bdd ELSE p.fsm
              skip == ~task.force /\ p.status # "Unchecked"
              ok == fsm # NoFsm /\ (p.type = "ltl" => LtlMayStart(p))
              decided(status) ==
                  [p EXCEPT !.fsm = fsm, !.status = status,
                            !.under = IF status = "Unchecked" THEN "none" ELSE initial]
  <2>1. phase = "checking"
    BY DEF CheckNext
  <2>2. CASE skip
    BY <2>1, <2>2 DEF CheckNext
  <2>3. CASE ~skip /\ ~ok
    BY <2>3 DEF CheckNext
  <2>4. CASE ~skip /\ ok
    <3>1. PICK status : session' = [session EXCEPT !.db.props[k] = decided(status)]
      BY <2>4 DEF CheckNext
    <3>2. phase' = phase
      BY <2>4 DEF CheckNext
    <3>. QED  BY <2>1, <3>1, <3>2
  <2>. QED  BY <2>2, <2>3, <2>4
<1>2. /\ Shape(session') /\ session'.ok = session.ok /\ session'.mode = session.mode
      /\ session'.commands = session.commands /\ session'.db.kind = session.db.kind
      /\ session'.hierarchy = session.hierarchy /\ session'.env = session.env
  BY <1>0, <1>1 DEF Shape
<1>3. DbOfTheMode(session.db) => DbOfTheMode(session'.db)
  <2>1. ASSUME NEW k, NEW p, session' = [session EXCEPT !.db.props[k] = p],
               session.db = EmptyDb("core")
        PROVE  session'.db = session.db
    <3>1. session'.db = [session.db EXCEPT !.props = [@ EXCEPT ![k] = p]]
      BY <1>0, <2>1 DEF Shape
    <3>2. [<< >> EXCEPT ![k] = p] = << >>
      OBVIOUS
    <3>. QED  BY <2>1, <3>1, <3>2 DEF EmptyDb
  <2>2. CASE session.db.kind = "game"
    BY <1>2, <2>2 DEF DbOfTheMode
  <2>3. CASE session.db = EmptyDb("core")
    <3>1. session'.db = session.db
      BY <1>1, <2>1, <2>3
    <3>. QED  BY <3>1
  <2>. QED  BY <2>2, <2>3 DEF DbOfTheMode
<1>. QED  BY <1>1, <1>2, <1>3 DEF Keeps, Consistent, NormalMode, GameMode

LEMMA ResetKeeps ==
    ASSUME Consistent(session), Reset
    PROVE  Keeps
  BY Restarting, ReturnStays DEF Reset, Keeps

LEMMA EndIsOver ==
    ASSUME Consistent(session), SmgameEnd
    PROVE  phase' = "exited" /\ Over(session')
<1>1. Over(GameQuit(session))
  BY Quitting
<1>. QED  BY <1>1 DEF SmgameEnd, Over

-----------------------------------------------------------------------------
(* The steps of the session and of the program.                            *)

LEMMA KeptIsInv ==
    ASSUME Keeps
    PROVE  ModeInv'
  BY DEF Keeps, ModeInv

LEMMA CheckingCommandKeeps ==
    ASSUME Consistent(session),
           \/ \E k : CheckPropertyNo(k)
           \/ \E type, player : CheckProperties(type, player)
           \/ \E type, S : InvokeGameCommand(type, S)
           \/ \E S : CheckLtlGameSpecSF07(S)
    PROVE  Keeps
<1>1. ASSUME NEW k, CheckPropertyNo(k) PROVE Keeps
  BY <1>1, CheckStartKeeps DEF CheckPropertyNo
<1>2. ASSUME NEW type, NEW player, CheckProperties(type, player) PROVE Keeps
  BY <1>2, CheckStartKeeps DEF CheckProperties
<1>3. ASSUME NEW type, NEW S, InvokeGameCommand(type, S) PROVE Keeps
  BY <1>3, CheckStartKeeps DEF InvokeGameCommand
<1>4. ASSUME NEW S, CheckLtlGameSpecSF07(S) PROVE Keeps
  BY <1>4, CheckStartKeeps DEF CheckLtlGameSpecSF07
<1>. QED  BY <1>1, <1>2, <1>3, <1>4

LEMMA CommandKeeps ==
    ASSUME SessionInv, phase = "ready", Command
    PROVE  ModeInv'
<1>0. Consistent(session) /\ FromModels
  BY DEF SessionInv, ModeInv
<1>1. CASE \E m \in Models : ReadModel(m) \/ ReadRatFile(m)
  BY <1>0, <1>1, ReadKeeps, ReadRatKeeps, KeptIsInv
<1>2. CASE \/ FlattenHierarchy \/ EncodeVariables \/ BuildFlatModel
           \/ \E force \in BOOLEAN, m \in Methods \cup {"default"} : BuildModel(force, m)
           \/ \E force \in BOOLEAN : BuildBooleanModel(force)
  BY <1>0, <1>2, BuildingKeeps, KeptIsInv
<1>3. CASE \/ \E k : CheckPropertyNo(k)
           \/ \E type, player : CheckProperties(type, player)
           \/ \E type, S : InvokeGameCommand(type, S)
           \/ \E S : CheckLtlGameSpecSF07(S)
  BY <1>0, <1>3, CheckingCommandKeeps, KeptIsInv
<1>4. CASE \E q \in Quantifiers : SetInitialCondition(q)
  BY <1>0, <1>4, ReturnStays, KeptIsInv DEF SetInitialCondition, Keeps
<1>5. CASE Reset
  BY <1>0, <1>5, ResetKeeps, KeptIsInv
<1>6. CASE SmgameEnd
  BY <1>0, <1>6, EndIsOver DEF ModeInv
<1>. QED  BY <1>1, <1>2, <1>3, <1>4, <1>5, <1>6, Zenon DEF Command

LEMMA BatchKeeps ==
    ASSUME SessionInv, BatchMain
    PROVE  ModeInv'
<1>0. Consistent(session) /\ FromModels /\ phase = "ready"
  BY DEF SessionInv, ModeInv, BatchMain
<1>1. CASE ScriptedCommand
  <2>1. CASE \E m : ReadModel(m)
    BY <1>0, <2>1, ReadKeeps, KeptIsInv
  <2>2. CASE FlattenHierarchy \/ EncodeVariables \/ BuildFlatModel
    BY <1>0, <2>2, BuildingKeeps, KeptIsInv
  <2>3. CASE BuildBooleanModel(FALSE) \/ BuildModel(FALSE, "default")
    BY <1>0, <2>3, BuildingKeeps, KeptIsInv
  <2>4. CASE WriteModel
    BY <1>0, <2>4, ReturnStays, KeptIsInv DEF WriteModel, Keeps
  <2>. QED  BY <1>1, <2>1, <2>2, <2>3, <2>4, Zenon DEF ScriptedCommand
<1>2. CASE LookupProp
  BY <1>0, <1>2, KeptIsInv DEF LookupProp, Keeps
<1>3. CASE VerifyAll \/ VerifyRest
  <2>1. session' = session
    BY <1>3 DEF VerifyAll, VerifyRest
  <2>2. phase' # "exited"
    BY <1>0, <1>3, <2>1, CheckStartKeeps DEF VerifyAll, VerifyRest, VerifyTypes, Keeps
  <2>. QED  BY <1>0, <2>1, <2>2, KeptIsInv DEF Keeps
<1>4. CASE CheckOne
  <2>1. CASE CheckPropertyNo(script.options.propNo)
    BY <1>0, <2>1, CheckingCommandKeeps, KeptIsInv
  <2>2. CASE Return("error") /\ session' = session
    BY <1>0, <2>2, ReturnStays, KeptIsInv DEF Keeps
  <2>. QED  BY <1>4, <2>1, <2>2 DEF CheckOne
<1>5. CASE SmgameEnd
  BY <1>0, <1>5, EndIsOver DEF ModeInv
<1>. QED  BY <1>1, <1>2, <1>3, <1>4, <1>5, Zenon DEF BatchMain

(* Reading takes one of the files, and nothing else makes it read.         *)
LEMMA FilesAreModels ==
    ASSUME FromModels, Next
    PROVE  FromModels'
<1>. DEFINE Same == parsed' = parsed /\ flags' \subseteq flags \cup (Stages \ {"read"})
            Done == Same \/ FromModels'
<1>. SUFFICES Done
  BY DEF FromModels, Stages
<1>1. ASSUME NEW m \in Models, ReadModel(m) \/ ReadRatFile(m) PROVE Done
  BY <1>1 DEF ReadModel, ReadRatFile, FromModels
<1>2. CASE FlattenHierarchy \/ EncodeVariables \/ BuildFlatModel
  BY <1>2 DEF FlattenHierarchy, EncodeVariables, BuildFlatModel, Stages
<1>3. ASSUME NEW force, NEW m, BuildModel(force, m) PROVE Done
  BY <1>3 DEF BuildModel, Stages
<1>4. ASSUME NEW force, BuildBooleanModel(force) PROVE Done
  BY <1>4 DEF BuildBooleanModel, Stages
<1>5. CASE \/ \E k : CheckPropertyNo(k)
           \/ \E type, player : CheckProperties(type, player)
           \/ \E type, S : InvokeGameCommand(type, S)
           \/ \E S : CheckLtlGameSpecSF07(S)
           \/ \E q : SetInitialCondition(q)
  BY <1>5 DEF CheckPropertyNo, CheckProperties, InvokeGameCommand, CheckLtlGameSpecSF07,
              SetInitialCondition, model
<1>6. CASE Reset \/ SmgameEnd
  BY <1>6 DEF Reset, SmgameEnd, CoreReset, FromModels
<1>7. CASE CheckNext \/ EndCheck \/ BatchFails
  BY <1>7 DEF CheckNext, EndCheck, BatchFails, model
<1>8. CASE Prompt
  <2>1. Command
    BY <1>8 DEF Prompt
  <2>. QED  BY <2>1, <1>1, <1>2, <1>3, <1>4, <1>5, <1>6, Zenon DEF Command
<1>9. CASE BatchMain
  <2>1. CASE ScriptedCommand
    <3>1. CASE WriteModel
      BY <3>1 DEF WriteModel, model
    <3>2. ASSUME NEW m \in {n \in Models : n.game /\ ~n.rat}, ReadModel(m) PROVE Done
      <4>1. m \in Models
        OBVIOUS
      <4>. QED  BY <1>1, <3>2, <4>1
    <3>. QED  BY <2>1, <3>1, <3>2, <1>2, <1>3, <1>4, Zenon DEF ScriptedCommand
  <2>2. CASE LookupProp \/ VerifyAll \/ VerifyRest \/ CheckOne
    BY <2>2 DEF LookupProp, VerifyAll, VerifyRest, CheckOne, CheckPropertyNo, model
  <2>. QED  BY <1>9, <2>1, <2>2, <1>6, Zenon DEF BatchMain
<1>. QED  BY <1>7, <1>8, <1>9 DEF Next

LEMMA StutterKeeps ==
    ASSUME SessionInv, session' = session, phase' = phase, parsed' = parsed, flags' = flags
    PROVE  SessionInv'
<1>1. FromModels'
  BY DEF SessionInv, FromModels
<1>2. ModeInv'
  BY DEF SessionInv, ModeInv, Consistent, Over, Shape, NormalMode, GameMode, DbOfTheMode
<1>. QED  BY <1>1, <1>2 DEF SessionInv

LEMMA NextKeeps ==
    ASSUME SessionInv, Next
    PROVE  SessionInv'
<1>. SUFFICES ModeInv'
  BY FilesAreModels DEF SessionInv
<1>1. CASE Prompt
  BY <1>1, CommandKeeps DEF Prompt
<1>2. CASE CheckNext
  BY <1>2, CheckNextKeeps DEF SessionInv, ModeInv, Keeps, CheckNext
<1>3. CASE EndCheck \/ BatchFails
  BY <1>3 DEF EndCheck, BatchFails, SessionInv, ModeInv
<1>4. CASE BatchMain
  BY <1>4, BatchKeeps
<1>. QED  BY <1>1, <1>2, <1>3, <1>4 DEF Next

LEMMA InitIsNormal ==
    ASSUME Init
    PROVE  SessionInv
  BY StartingTheTable
     DEF Init, SessionInv, FromModels, ModeInv, Consistent, NormalMode, Shape, EmptyDb

LEMMA TablesOfConsistent ==
    ASSUME SessionInv
    PROVE  TablesFollowMode
  BY DEF SessionInv, ModeInv, Consistent, Over, NormalMode, GameMode, DbOfTheMode,
         GameCommands, TablesFollowMode

(* Whatever is typed at the prompt or scripted, and whatever goes wrong,   *)
(* the command table is that of the mode, and so is the property database  *)
(* unless a file has an ill-typed property, whose error may leave that of  *)
(* NuSMV in the game mode, but empty; quitting restores NuSMV's own table. *)
THEOREM SessionTables == Spec => []TablesFollowMode
<1>1. SessionInv /\ [Next]_vars => SessionInv'
  BY NextKeeps, StutterKeeps DEF vars, model
<1>. QED  BY InitIsNormal, <1>1, TablesOfConsistent, PTL DEF Spec

(* No assertion of entering or leaving the game mode, of a reset or of     *)
(* quitting ever fails.                                                    *)
THEOREM SwitchesSucceed == Spec => [](session.ok = TRUE)
<1>1. SessionInv /\ [Next]_vars => SessionInv'
  BY NextKeeps, StutterKeeps DEF vars, model
<1>2. SessionInv => session.ok = TRUE
  BY DEF SessionInv, ModeInv, Consistent, Over
<1>. QED  BY InitIsNormal, <1>1, <1>2, PTL DEF Spec

(* The session waits for the command line to be read.                      *)
ProgramInv == SessionInv /\ (at # "running" => phase = "ready")

LEMMA LineStays ==
    ASSUME Line!LineNext
    PROVE  at = "line"
  BY DEF Line!LineNext, Line!SetFlags, Line!SetFile, Line!SetNumber, Line!SetName,
         Line!SetScript, Line!AddPreprocessor, Line!TakeOperand, Line!Usage,
         Line!EndOfLine, Line!Reads

LEMMA ProgramStep ==
    ASSUME ProgramInv, [ProgramNext]_<<vars, lineVars>>
    PROVE  ProgramInv'
<1>1. CASE ReadLine
  BY <1>1, LineStays, StutterKeeps DEF ReadLine, ProgramInv, vars, model
<1>2. CASE RunBatch \/ RunPrompt
  BY <1>2, StutterKeeps DEF RunBatch, RunPrompt, Run, ProgramInv, vars, model
<1>3. CASE NoScriptFile
  <2>1. Consistent(session) /\ at' = "running" /\ SmgameEnd
    BY <1>3 DEF NoScriptFile, Run, ProgramInv, SessionInv, ModeInv
  <2>. QED  BY <2>1, EndIsOver
            DEF ProgramInv, SessionInv, ModeInv, FromModels, SmgameEnd, CoreReset
<1>4. CASE Session
  BY <1>4, NextKeeps DEF Session, ProgramInv, lineVars
<1>5. CASE UNCHANGED <<vars, lineVars>>
  BY <1>5, StutterKeeps DEF ProgramInv, vars, model, lineVars
<1>. QED  BY <1>1, <1>2, <1>3, <1>4, <1>5 DEF ProgramNext

LEMMA ProgramStart ==
    ASSUME ProgramInit
    PROVE  ProgramInv
  BY InitIsNormal DEF ProgramInit, ProgramInv, Init

(* The same of the executable, whatever its command line says.             *)
THEOREM ProgramTables == ProgramSpec => []TablesFollowMode
<1>1. ProgramInv /\ [ProgramNext]_<<vars, lineVars>> => ProgramInv'
  BY ProgramStep
<1>2. ProgramInv => TablesFollowMode
  BY TablesOfConsistent DEF ProgramInv
<1>. QED  BY ProgramStart, <1>1, <1>2, PTL DEF ProgramSpec

-----------------------------------------------------------------------------
(* The stages of a model, the machines in the environment and the verdicts *)
(* in the property database.                                               *)

LaterStages == {"flatten", "encode", "flat", "bool", "build"}

FlagsInv ==
    /\ flags \cap LaterStages # {} => "flatten" \in flags
    /\ "flatten" \in flags => "read" \in flags

(* A machine that is there is one of the model that is read.               *)
Machines(env, m) ==
    /\ DOMAIN env = {"sexp", "bool", "bdd"}
    /\ env.sexp \in {NoModel, m}
    /\ env.bool \in {NoModel, m}
    /\ env.bdd = NoFsm \/ env.bdd.model = m

MachinesInv ==
    /\ Machines(session.env, parsed)
    /\ IF "flatten" \in flags THEN session.hierarchy = parsed ELSE session.env = NoFsms
    /\ "flat" \in flags => session.env.sexp = parsed
    /\ "bool" \in flags => session.env.bool = parsed
    /\ "build" \in flags => session.env.bdd # NoFsm

(* What the database may say of property k of model m.                     *)
Sound(p, k, m) ==
    /\ DOMAIN p = {"type", "player", "status", "fsm", "under"}
    /\ p.fsm = NoFsm \/ p.fsm.model = m
    /\ p.status \in {"Unchecked", "True", "False"}
    /\ p.status # "Unchecked" =>
          /\ p.fsm.model = m
          /\ (p.status = "True") <=> Fill(m)[k].truth[p.under]

PropsInv ==
    /\ \A k \in DOMAIN props : Sound(props[k], k, parsed)
    /\ "flatten" \notin flags \/ session.mode = FALSE => props = << >>

ModelInv == FlagsInv /\ MachinesInv /\ PropsInv

(* A session with no machine and no property.                              *)
Bare(x) == x.env = NoFsms /\ x.db.props = << >>

LEMMA NoMachines ==
    ASSUME NEW m
    PROVE  Machines(NoFsms, m)
  BY DEF Machines, NoFsms

LEMMA StutterKeepsModel ==
    ASSUME ModelInv, session' = session, parsed' = parsed, flags' = flags
    PROVE  ModelInv'
  BY DEF ModelInv, FlagsInv, MachinesInv, Machines, PropsInv, Sound, props

LEMMA BareKeepsModel ==
    ASSUME Bare(session'), flags' \cap LaterStages = {}
    PROVE  ModelInv'
<1>1. FlagsInv'
  BY DEF FlagsInv, LaterStages
<1>2. MachinesInv'
  BY NoMachines DEF MachinesInv, Bare, LaterStages
<1>3. PropsInv'
  BY DEF PropsInv, Bare, props
<1>. QED  BY <1>1, <1>2, <1>3 DEF ModelInv

LEMMA LeavingIsBare ==
    ASSUME NEW x, Consistent(x), x.mode = FALSE => x.db.props = << >>
    PROVE  Bare(LeaveMode(x))
<1>1. CASE x.mode = FALSE
  BY <1>1 DEF LeaveMode, Consistent, NormalMode, GameMode, Bare
<1>2. CASE x.mode = TRUE
  <2>1. ModeExit(x).env = NoFsms /\ ModeExit(x).db = EmptyDb("core")
    BY DEF ModeExit, Consistent, Shape
  <2>. QED  BY <1>2, <2>1 DEF LeaveMode, Bare, EmptyDb
<1>. QED  BY <1>1, <1>2 DEF Consistent, NormalMode, GameMode

LEMMA EnteringIsBare ==
    ASSUME NEW x, Consistent(x), x.env = NoFsms
    PROVE  Bare(ModeEnter(x))
<1>1. ModeEnter(x).env = x.env /\ ModeEnter(x).db = EmptyDb("game")
  BY DEF ModeEnter, Consistent, Shape
<1>. QED  BY <1>1 DEF Bare, EmptyDb

LEMMA QuittingIsBare ==
    ASSUME NEW x, Consistent(x), x.mode = FALSE => x.db.props = << >>
    PROVE  Bare(GameQuit(x)) /\ Bare(GameInit(GameQuit(x)))
<1>. DEFINE y == LeaveMode(x)
<1>1. Consistent(y) /\ Bare(y)
  BY LeavingTheMode, LeavingIsBare
<1>2. GameQuit(x).env = y.env /\ GameQuit(x).db = y.db
  <2>1. Shape(y)
    BY <1>1 DEF Consistent
  <2>2. GameQuit(x) = [y EXCEPT !.commands = QuitCommands(y.commands).commands,
                                !.ok = @ /\ QuitCommands(y.commands).ok
                                         /\ y.hierarchy = NoModel]
    BY Zenon DEF GameQuit
  <2>. HIDE DEF y
  <2>. QED  BY <2>1, <2>2 DEF Shape
<1>3. Bare(GameQuit(x))
  BY <1>1, <1>2 DEF Bare
<1>. DEFINE z == GameQuit(x)
<1>4. GameInit(z).env = z.env /\ GameInit(z).db = EmptyDb("core")
  <2>1. Shape(z)
    BY Quitting
  <2>. HIDE DEF z
  <2>. QED  BY <2>1 DEF Shape, GameInit
<1>. QED  BY <1>3, <1>4 DEF Bare, EmptyDb

-----------------------------------------------------------------------------
(* The commands, in a session that is not over.                            *)

LEMMA ReadsModel ==
    ASSUME Consistent(session), ModelInv, NEW m, ReadModel(m)
    PROVE  ModelInv'
<1>. DEFINE x == LeaveMode(session)
<1>1. Consistent(x) /\ Bare(x) /\ x.mode = FALSE
  BY LeavingTheMode, LeavingIsBare DEF ModelInv, PropsInv, props, NormalMode
<1>2. session' = IF m.game /\ m.syntax # "before" THEN ModeEnter(x) ELSE x
  BY DEF ReadModel
<1>. HIDE DEF x
<1>3. Bare(session')
  BY <1>1, <1>2, EnteringIsBare DEF Bare
<1>4. flags' \cap LaterStages = {}
  BY DEF ReadModel, ModelInv, FlagsInv, LaterStages
<1>. QED  BY <1>3, <1>4, BareKeepsModel

LEMMA ReadsRatFile ==
    ASSUME Consistent(session), ModelInv, NEW m, ReadRatFile(m)
    PROVE  ModelInv'
<1>1. Bare(session)
  BY DEF ReadRatFile, ModelInv, FlagsInv, MachinesInv, PropsInv, props, Bare
<1>2. Bare(session')
  <2>1. Bare(IF session.mode THEN session ELSE ModeEnter(session))
    BY <1>1, EnteringIsBare DEF Bare
  <2>. QED  BY <1>1, <2>1 DEF ReadRatFile
<1>3. flags' \cap LaterStages = {}
  <2>1. flags' = flags \/ flags' = flags \cup {"read"}
    BY DEF ReadRatFile
  <2>2. "read" \notin flags
    BY DEF ReadRatFile
  <2>. QED  BY <2>1, <2>2 DEF ModelInv, FlagsInv, LaterStages
<1>. QED  BY <1>2, <1>3, BareKeepsModel

LEMMA FlattensModel ==
    ASSUME Consistent(session), ModelInv, FlattenHierarchy
    PROVE  ModelInv'
<1>. DEFINE filled == [k \in DOMAIN Fill(parsed) |-> Unchecked(Fill(parsed)[k])]
<1>0. /\ "read" \in flags /\ flags \cap LaterStages = {} /\ parsed' = parsed
      /\ session.env = NoFsms /\ session.mode = TRUE
  <2>1. GameMode(session)
    BY SessionAssumption, GameCommandsNeedTheMode DEF FlattenHierarchy, GameCommandsOfTable
  <2>. QED  BY <2>1 DEF FlattenHierarchy, ModelInv, FlagsInv, MachinesInv, GameMode
<1>1. \/ session' = session /\ flags' = flags
      \/ session' = [session EXCEPT !.db = EmptyDb("core")] /\ flags' = flags \ {"read"}
      \/ /\ flags' = flags \cup {"flatten"}
         /\ session' = [session EXCEPT !.hierarchy = parsed, !.db.props = filled]
  BY DEF FlattenHierarchy
<1>. HIDE DEF filled
<1>2. CASE session' = session /\ flags' = flags
  BY <1>0, <1>2, StutterKeepsModel
<1>3. CASE session' = [session EXCEPT !.db = EmptyDb("core")] /\ flags' = flags \ {"read"}
  <2>1. Bare(session')
    BY <1>0, <1>3 DEF Consistent, Shape, Bare, EmptyDb
  <2>. QED  BY <1>0, <1>3, <2>1, BareKeepsModel
<1>4. CASE /\ flags' = flags \cup {"flatten"}
           /\ session' = [session EXCEPT !.hierarchy = parsed, !.db.props = filled]
  <2>1. /\ session'.hierarchy = parsed /\ session'.env = NoFsms
        /\ session'.db.props = filled /\ session'.mode = TRUE
    BY <1>0, <1>4 DEF Consistent, Shape
  <2>2. FlagsInv'
    BY <1>0, <1>4 DEF FlagsInv
  <2>3. MachinesInv'
    BY <1>0, <1>4, <2>1, NoMachines DEF MachinesInv, LaterStages
  <2>4. \A k \in DOMAIN filled : Sound(filled[k], k, parsed)
    BY DEF filled, Sound, Unchecked
  <2>5. PropsInv'
    BY <1>0, <1>4, <2>1, <2>4 DEF PropsInv, props
  <2>. QED  BY <2>2, <2>3, <2>5 DEF ModelInv
<1>. QED  BY <1>1, <1>2, <1>3, <1>4

(* A machine that is built is one of the flattened model.                  *)
LEMMA Building ==
    ASSUME ModelInv, "flatten" \in flags, parsed' = parsed, Shape(session),
           NEW env, session' = [session EXCEPT !.env = env],
           Machines(env, parsed),
           flags \subseteq flags', flags' \subseteq flags \cup LaterStages,
           "flat" \in flags' => env.sexp = parsed,
           "bool" \in flags' => env.bool = parsed,
           "build" \in flags' => env.bdd # NoFsm
    PROVE  ModelInv'
<1>1. /\ session'.env = env /\ session'.hierarchy = session.hierarchy
      /\ session'.db = session.db /\ session'.mode = session.mode
  BY DEF Shape
<1>2. FlagsInv'
  BY DEF ModelInv, FlagsInv, LaterStages
<1>3. MachinesInv'
  BY <1>1 DEF ModelInv, MachinesInv
<1>4. PropsInv'
  <2>1. props' = props
    BY <1>1 DEF props
  <2>2. session.mode = FALSE => props = << >>
    BY DEF ModelInv, PropsInv
  <2>3. \A k \in DOMAIN props : Sound(props[k], k, parsed)
    BY DEF ModelInv, PropsInv
  <2>. QED  BY <1>1, <2>1, <2>2, <2>3 DEF PropsInv
<1>. QED  BY <1>2, <1>3, <1>4 DEF ModelInv

LEMMA SexpOfModel ==
    ASSUME ModelInv, "flatten" \in flags
    PROVE  /\ Machines(WithSexp(session.env), parsed)
           /\ WithSexp(session.env).sexp = parsed
           /\ WithSexp(session.env).bool = session.env.bool
           /\ WithSexp(session.env).bdd = session.env.bdd
  BY DEF ModelInv, MachinesInv, Machines, WithSexp

LEMMA BuildsModel ==
    ASSUME Consistent(session), ModelInv,
           \/ EncodeVariables
           \/ BuildFlatModel
           \/ \E force, m : BuildModel(force, m)
           \/ \E force : BuildBooleanModel(force)
    PROVE  ModelInv'
<1>0. Shape(session)
  BY DEF Consistent
<1>. DEFINE e == WithSexp(session.env)
<1>1. CASE EncodeVariables
  <2>1. session' = session /\ parsed' = parsed /\ flags' = flags \cup {"encode"}
        /\ "flatten" \in flags
    BY <1>1 DEF EncodeVariables
  <2>. QED
    BY <2>1 DEF ModelInv, FlagsInv, MachinesInv, Machines, PropsInv, Sound, props, LaterStages
<1>2. CASE BuildFlatModel
  <2>1. /\ "flatten" \in flags /\ parsed' = parsed /\ flags' = flags \cup {"flat"}
        /\ session' = [session EXCEPT !.env = e]
    BY <1>0, <1>2 DEF BuildFlatModel, Shape
  <2>2. Machines(e, parsed) /\ e.sexp = parsed /\ e.bool = session.env.bool
        /\ e.bdd = session.env.bdd
    BY <2>1, SexpOfModel
  <2>. HIDE DEF e
  <2>. QED  BY <1>0, <2>1, <2>2, Building DEF ModelInv, MachinesInv, LaterStages
<1>3. ASSUME NEW force, NEW m, BuildModel(force, m) PROVE ModelInv'
  <2>. DEFINE b == WithBdd(e, method')
  <2>1. /\ "encode" \in flags /\ parsed' = parsed /\ flags' = flags \cup {"flat", "build"}
        /\ session' = [session EXCEPT !.env = b]
    BY <1>0, <1>3 DEF BuildModel, Shape
  <2>2. "flatten" \in flags
    BY <2>1 DEF ModelInv, FlagsInv, LaterStages
  <2>3. Machines(e, parsed) /\ e.sexp = parsed /\ e.bool = session.env.bool
    BY <2>2, SexpOfModel
  <2>. HIDE DEF e
  <2>4. Machines(b, parsed) /\ b.sexp = parsed /\ b.bool = session.env.bool
        /\ b.bdd # NoFsm
    BY <2>3 DEF Machines, WithBdd, NoFsm
  <2>. HIDE DEF b
  <2>. QED  BY <1>0, <2>1, <2>2, <2>4, Building DEF ModelInv, MachinesInv, LaterStages
<1>4. ASSUME NEW force, BuildBooleanModel(force) PROVE ModelInv'
  <2>. DEFINE b == WithBool(e)
  <2>1. /\ "encode" \in flags /\ parsed' = parsed
        /\ session' = [session EXCEPT !.env = b]
    BY <1>0, <1>4 DEF BuildBooleanModel, Shape
  <2>2. flags' = flags \cup {"flat"} \/ flags' = flags \cup {"flat", "bool"}
    BY <1>4 DEF BuildBooleanModel
  <2>3. "flatten" \in flags
    BY <2>1 DEF ModelInv, FlagsInv, LaterStages
  <2>4. Machines(e, parsed) /\ e.sexp = parsed /\ e.bdd = session.env.bdd
        /\ e.bool = session.env.bool
    BY <2>3, SexpOfModel
  <2>. HIDE DEF e
  <2>5. Machines(b, parsed) /\ b.sexp = parsed /\ b.bool = parsed
        /\ b.bdd = session.env.bdd
    BY <2>4 DEF Machines, WithBool
  <2>. HIDE DEF b
  <2>. QED  BY <1>0, <2>1, <2>2, <2>3, <2>5, Building DEF ModelInv, MachinesInv, LaterStages
<1>. QED  BY <1>1, <1>2, <1>3, <1>4

LEMMA ResetsModel ==
    ASSUME Consistent(session), ModelInv, Reset \/ SmgameEnd
    PROVE  ModelInv'
<1>1. Bare(GameQuit(session)) /\ Bare(GameInit(GameQuit(session)))
  BY QuittingIsBare DEF ModelInv, PropsInv, props
<1>2. Bare(session')
  BY <1>1 DEF Reset, SmgameEnd
<1>3. flags' = {}
  BY DEF Reset, SmgameEnd, CoreReset
<1>. QED  BY <1>2, <1>3, BareKeepsModel

(* A check only changes the property it is at, to the verdict of a machine *)
(* of the model that is read, or it leaves the database alone.             *)
Decides(k, p) ==
    /\ session' = [session EXCEPT !.db.props[k] = p]
    /\ k \in DOMAIN props => Sound(p, k, parsed)
    /\ k \in DOMAIN props =>
          \/ p.status = props[k].status
          \/ props[k].status = "Unchecked"
          \/ props[k].under # initial

LEMMA CheckDecides ==
    ASSUME Consistent(session), ModelInv, CheckNext
    PROVE  session' = session \/ \E k, p : Decides(k, p)
<1>. DEFINE k == Min(task.todo)
            p == props[k]
            fsm == IF p.fsm = NoFsm THEN session.env.bdd ELSE p.fsm
            skip == ~task.force /\ p.status # "Unchecked"
            ok == fsm # NoFsm /\ (p.type = "ltl" => LtlMayStart(p))
            decided(status) ==
                [p EXCEPT !.fsm = fsm, !.status = status,
                          !.under = IF status = "Unchecked" THEN "none" ELSE initial]
<1>1. CASE skip \/ ~ok
  BY <1>1 DEF CheckNext
<1>2. CASE ~skip /\ ok
  <2>1. PICK status \in {Verdict(fsm, k)} \cup (IF p.type = "ltl" THEN {"Unchecked"} ELSE {}) :
            session' = [session EXCEPT !.db.props[k] = decided(status)]
    BY <1>2 DEF CheckNext
  <2>2. ASSUME k \in DOMAIN props PROVE Sound(decided(status), k, parsed)
    <3>1. Sound(p, k, parsed)
      BY <2>2 DEF ModelInv, PropsInv
    <3>2. fsm.model = parsed
      BY <1>2, <3>1 DEF ModelInv, MachinesInv, Machines, Sound
    <3>3. /\ DOMAIN decided(status) = DOMAIN p
          /\ decided(status).fsm = fsm
          /\ decided(status).status = status
          /\ status # "Unchecked" => decided(status).under = initial
      <4>. HIDE DEF fsm
      <4>. QED  BY <3>1 DEF Sound
    <3>4. status = "Unchecked" \/ status = IF Fill(parsed)[k].truth[initial]
                                           THEN "True" ELSE "False"
      BY <2>1, <3>2 DEF Verdict
    <3>. HIDE DEF decided, fsm
    <3>. QED  BY <3>1, <3>2, <3>3, <3>4 DEF Sound
  <2>3. ASSUME k \in DOMAIN props, p.status # "Unchecked", p.under = initial
        PROVE  decided(status).status = p.status
    <3>1. Sound(p, k, parsed)
      BY <2>3 DEF ModelInv, PropsInv
    <3>2. fsm.model = parsed
      BY <1>2, <2>3, <3>1 DEF Sound, ModelInv, MachinesInv, Machines
    <3>3. p.type # "ltl"
      BY <1>2, <2>3 DEF LtlMayStart
    <3>4. status = IF Fill(parsed)[k].truth[initial] THEN "True" ELSE "False"
      BY <2>1, <3>2, <3>3 DEF Verdict
    <3>5. decided(status).status = status
      BY <3>1 DEF Sound
    <3>. QED  BY <2>3, <3>1, <3>4, <3>5 DEF Sound
  <2>. HIDE DEF decided, p, fsm, skip, ok
  <2>4. Decides(k, decided(status))
    BY <2>1, <2>2, <2>3 DEF Decides, p
  <2>. QED  BY <2>4
<1>. QED  BY <1>1, <1>2

LEMMA DecidingKeepsModel ==
    ASSUME Shape(session), ModelInv, parsed' = parsed, flags' = flags,
           NEW k, NEW p, Decides(k, p)
    PROVE  ModelInv'
<1>1. /\ session'.mode = session.mode /\ session'.env = session.env
      /\ session'.hierarchy = session.hierarchy
      /\ props' = [props EXCEPT ![k] = p]
  BY DEF Decides, Shape, props
<1>2. FlagsInv' /\ MachinesInv'
  BY <1>1 DEF ModelInv, FlagsInv, MachinesInv
<1>3. \A j \in DOMAIN props' : Sound(props'[j], j, parsed)
  BY <1>1 DEF Decides, ModelInv, PropsInv
<1>4. props = << >> => props' = << >>
  BY <1>1
<1>. QED  BY <1>1, <1>2, <1>3, <1>4 DEF ModelInv, PropsInv

-----------------------------------------------------------------------------
(* The steps of the session.                                               *)

LEMMA NextKeepsModel ==
    ASSUME SessionInv, ModelInv, Next
    PROVE  ModelInv'
<1>0. Consistent(session) /\ Shape(session)
  BY DEF SessionInv, ModeInv, Consistent, Next, Prompt, CheckNext, EndCheck, BatchMain, BatchFails
<1>1. ASSUME Command PROVE ModelInv'
  <2>1. CASE \E m \in Models : ReadModel(m) \/ ReadRatFile(m)
    BY <1>0, <2>1, ReadsModel, ReadsRatFile
  <2>2. CASE FlattenHierarchy
    BY <1>0, <2>2, FlattensModel
  <2>3. CASE \/ EncodeVariables
             \/ BuildFlatModel
             \/ \E force, m : BuildModel(force, m)
             \/ \E force : BuildBooleanModel(force)
    BY <1>0, <2>3, BuildsModel
  <2>4. CASE \/ \E k : CheckPropertyNo(k)
             \/ \E type, player : CheckProperties(type, player)
             \/ \E type, S : InvokeGameCommand(type, S)
             \/ \E S : CheckLtlGameSpecSF07(S)
             \/ \E q : SetInitialCondition(q)
    BY <2>4, StutterKeepsModel
       DEF CheckPropertyNo, CheckProperties, InvokeGameCommand, CheckLtlGameSpecSF07,
           SetInitialCondition, model
  <2>5. CASE Reset \/ SmgameEnd
    BY <1>0, <2>5, ResetsModel
  <2>. QED  BY <1>1, <2>1, <2>2, <2>3, <2>4, <2>5, Zenon DEF Command
<1>2. CASE Prompt
  BY <1>1, <1>2 DEF Prompt
<1>3. CASE CheckNext
  <2>1. parsed' = parsed /\ flags' = flags
    BY <1>3 DEF CheckNext, model
  <2>. QED  BY <1>0, <1>3, <2>1, CheckDecides, DecidingKeepsModel, StutterKeepsModel
<1>4. CASE EndCheck \/ BatchFails
  BY <1>4, StutterKeepsModel DEF EndCheck, BatchFails, model
<1>5. CASE BatchMain
  <2>1. CASE ScriptedCommand
    <3>1. CASE \E m : ReadModel(m)
      BY <1>0, <3>1, ReadsModel
    <3>2. CASE FlattenHierarchy
      BY <1>0, <3>2, FlattensModel
    <3>3. CASE \/ EncodeVariables
               \/ BuildFlatModel
               \/ BuildModel(FALSE, "default")
               \/ BuildBooleanModel(FALSE)
      BY <1>0, <3>3, BuildsModel
    <3>4. CASE WriteModel
      BY <3>4, StutterKeepsModel DEF WriteModel, model
    <3>. QED  BY <2>1, <3>1, <3>2, <3>3, <3>4, Zenon DEF ScriptedCommand
  <2>2. CASE LookupProp \/ VerifyAll \/ VerifyRest
    BY <2>2, StutterKeepsModel DEF LookupProp, VerifyAll, VerifyRest, model
  <2>3. CASE CheckOne
    <3>1. session' = session /\ parsed' = parsed /\ flags' = flags
      BY <2>3 DEF CheckOne, CheckPropertyNo, model
    <3>. QED  BY <3>1, StutterKeepsModel
  <2>4. CASE SmgameEnd
    BY <1>0, <2>4, ResetsModel
  <2>. QED  BY <1>5, <2>1, <2>2, <2>3, <2>4, Zenon DEF BatchMain
<1>. QED  BY <1>2, <1>3, <1>4, <1>5 DEF Next

LEMMA InitIsBare ==
    ASSUME Init
    PROVE  ModelInv
<1>1. session.env = NoFsms /\ session.db.props = << >> /\ flags = {}
  BY DEF Init, EmptyDb
<1>. QED
  BY <1>1, NoMachines DEF ModelInv, FlagsInv, MachinesInv, PropsInv, props

LEMMA StagesOfModel ==
    ASSUME SessionInv, ModelInv
    PROVE  StagesAreReal
<1>1. session.mode = FALSE => session.hierarchy = NoModel /\ session.env = NoFsms
  BY DEF SessionInv, ModeInv, Over, Consistent, NormalMode, GameMode
<1>2. session.mode \in BOOLEAN
  BY DEF SessionInv, ModeInv, Over, Consistent, NormalMode, GameMode
<1>. QED
  BY <1>1, <1>2
     DEF ModelInv, FlagsInv, MachinesInv, Machines, LaterStages, StagesAreReal

LEMMA StatusOfModel ==
    ASSUME ModelInv
    PROVE  StatusIsVerdict
  BY DEF ModelInv, PropsInv, Sound, StatusIsVerdict

(* No command works on a machine or a hierarchy of another model than the  *)
(* one that was read last, whatever errors and resets came before.         *)
THEOREM SessionStages == Spec => []StagesAreReal
<1>1. SessionInv /\ ModelInv /\ [Next]_vars => (SessionInv /\ ModelInv)'
  BY NextKeeps, StutterKeeps, NextKeepsModel, StutterKeepsModel DEF vars, model
<1>. QED
  BY InitIsNormal, InitIsBare, <1>1, StagesOfModel, PTL DEF Spec

(* Every verdict in the database is the truth about the model that is      *)
(* read, under the interpretation of initial conditions it was found for.  *)
THEOREM SessionVerdicts == Spec => []StatusIsVerdict
<1>1. SessionInv /\ ModelInv /\ [Next]_vars => (SessionInv /\ ModelInv)'
  BY NextKeeps, StutterKeeps, NextKeepsModel, StutterKeepsModel DEF vars, model
<1>. QED
  BY InitIsNormal, InitIsBare, <1>1, StatusOfModel, PTL DEF Spec

-----------------------------------------------------------------------------
(* What a step does to verdicts.                                           *)

Kept ==
    \A k \in DOMAIN props :
        /\ props[k].status # "Unchecked"
        /\ k \in DOMAIN props'
        => \/ props'[k].status = props[k].status
           \/ initial # props[k].under
           \/ session'.db.kind # session.db.kind

LEMMA UntouchedIsKept ==
    ASSUME props' = props \/ props = << >>
    PROVE  Kept
  BY DEF Kept

LEMMA BuildingIsKept ==
    ASSUME Shape(session),
           \/ EncodeVariables
           \/ BuildFlatModel
           \/ \E force, m : BuildModel(force, m)
           \/ \E force : BuildBooleanModel(force)
    PROVE  Kept
<1>1. session' = session \/ \E env : session' = [session EXCEPT !.env = env]
  <2>1. CASE EncodeVariables
    BY <2>1 DEF EncodeVariables
  <2>2. CASE BuildFlatModel
    BY <2>2 DEF BuildFlatModel
  <2>3. CASE \E force, m : BuildModel(force, m)
    BY <2>3 DEF BuildModel
  <2>4. CASE \E force : BuildBooleanModel(force)
    BY <2>4 DEF BuildBooleanModel
  <2>. QED  BY <2>1, <2>2, <2>3, <2>4
<1>2. props' = props
  BY <1>1 DEF props, Shape
<1>. QED  BY <1>2, UntouchedIsKept

(* A model is read and flattened when the database is empty; a reset and   *)
(* the end of the program replace that of a game.                          *)
LEMMA EmptyIsKept ==
    ASSUME ModelInv,
           \/ \E m : ReadModel(m) \/ ReadRatFile(m)
           \/ FlattenHierarchy
    PROVE  Kept
<1>1. "flatten" \notin flags
  BY DEF ReadModel, ReadRatFile, FlattenHierarchy, ModelInv, FlagsInv
<1>. QED  BY <1>1, UntouchedIsKept DEF ModelInv, PropsInv

LEMMA ResetIsKept ==
    ASSUME Consistent(session), ModelInv, Reset \/ SmgameEnd
    PROVE  Kept
<1>1. CASE session.mode = FALSE
  BY <1>1, UntouchedIsKept DEF ModelInv, PropsInv
<1>2. CASE session.mode = TRUE /\ props = << >>
  BY <1>2, UntouchedIsKept
<1>3. CASE session.mode = TRUE /\ props # << >>
  <2>1. session.db.kind = "game"
    BY <1>3 DEF Consistent, NormalMode, GameMode, DbOfTheMode, EmptyDb, props
  <2>2. CASE SmgameEnd
    <3>1. session'.db.kind = "core"
      BY <2>2, Quitting DEF SmgameEnd
    <3>. QED  BY <2>1, <3>1 DEF Kept
  <2>3. CASE Reset
    <3>1. GameInit(GameQuit(session)).db = EmptyDb("core")
      <4>. DEFINE z == GameQuit(session)
      <4>1. Shape(z)
        BY Quitting
      <4>. HIDE DEF z
      <4>2. GameInit(z).db = EmptyDb("core")
        BY <4>1 DEF Shape, GameInit
      <4>. QED  BY <4>2 DEF z
    <3>2. session'.db.kind = "core"
      BY <2>3, <3>1 DEF Reset, EmptyDb
    <3>. QED  BY <2>1, <3>2 DEF Kept
  <2>. QED  BY <2>2, <2>3
<1>. QED  BY <1>1, <1>2, <1>3 DEF Consistent, NormalMode, GameMode

LEMMA CheckIsKept ==
    ASSUME Consistent(session), ModelInv, CheckNext
    PROVE  Kept
<1>1. CASE session' = session
  BY <1>1, UntouchedIsKept DEF props
<1>2. ASSUME NEW k, NEW p, Decides(k, p) PROVE Kept
  <2>1. props' = [props EXCEPT ![k] = p]
    BY <1>2 DEF Decides, Consistent, Shape, props
  <2>2. k \in DOMAIN props =>
           \/ p.status = props[k].status
           \/ props[k].status = "Unchecked"
           \/ props[k].under # initial
    BY <1>2 DEF Decides
  <2>. QED  BY <2>1, <2>2 DEF Kept
<1>. QED  BY <1>1, <1>2, CheckDecides

LEMMA NextIsKept ==
    ASSUME SessionInv, ModelInv, Next
    PROVE  Kept
<1>0. Consistent(session) /\ Shape(session)
  BY DEF SessionInv, ModeInv, Consistent, Next, Prompt, CheckNext, EndCheck, BatchMain, BatchFails
<1>1. CASE session' = session
  BY <1>1, UntouchedIsKept DEF props
<1>2. CASE \/ \E m : ReadModel(m) \/ ReadRatFile(m)
           \/ FlattenHierarchy
  BY <1>2, EmptyIsKept
<1>3. CASE \/ EncodeVariables
           \/ BuildFlatModel
           \/ \E force, m : BuildModel(force, m)
           \/ \E force : BuildBooleanModel(force)
  BY <1>0, <1>3, BuildingIsKept
<1>4. CASE Reset \/ SmgameEnd
  BY <1>0, <1>4, ResetIsKept
<1>5. CASE CheckNext
  BY <1>0, <1>5, CheckIsKept
<1>6. CASE Prompt
  <2>1. CASE \/ \E k : CheckPropertyNo(k)
             \/ \E type, player : CheckProperties(type, player)
             \/ \E type, S : InvokeGameCommand(type, S)
             \/ \E S : CheckLtlGameSpecSF07(S)
             \/ \E q : SetInitialCondition(q)
    BY <1>1, <2>1
       DEF CheckPropertyNo, CheckProperties, InvokeGameCommand, CheckLtlGameSpecSF07,
           SetInitialCondition
  <2>2. Command
    BY <1>6 DEF Prompt
  <2>. QED  BY <2>2, <2>1, <1>2, <1>3, <1>4, Zenon DEF Command
<1>7. CASE EndCheck \/ BatchFails
  BY <1>1, <1>7 DEF EndCheck, BatchFails
<1>8. CASE BatchMain
  <2>1. CASE ScriptedCommand
    <3>1. CASE WriteModel
      BY <1>1, <3>1 DEF WriteModel
    <3>. QED  BY <2>1, <3>1, <1>2, <1>3, Zenon DEF ScriptedCommand
  <2>2. CASE LookupProp \/ VerifyAll \/ VerifyRest
    BY <1>1, <2>2 DEF LookupProp, VerifyAll, VerifyRest
  <2>3. CASE CheckOne
    BY <1>1, <2>3 DEF CheckOne, CheckPropertyNo
  <2>. QED  BY <1>8, <2>1, <2>2, <2>3, <1>4, Zenon DEF BatchMain
<1>. QED  BY <1>5, <1>6, <1>7, <1>8 DEF Next

(* A verdict stays as long as its property is in the database, unless the  *)
(* interpretation of initial conditions has changed since it was found.    *)
THEOREM VerdictsStay == Spec => VerdictKept
<1>1. SessionInv /\ ModelInv /\ [Next]_vars => (SessionInv /\ ModelInv)'
  BY NextKeeps, StutterKeeps, NextKeepsModel, StutterKeepsModel DEF vars, model
<1>2. SessionInv /\ ModelInv /\ [Next]_vars => [Kept]_vars
  BY NextIsKept
<1>. QED
  BY InitIsNormal, InitIsBare, <1>1, <1>2, PTL DEF Spec, VerdictKept, Kept

-----------------------------------------------------------------------------
(* The steps of the program, whose line is read before the session.        *)

LEMMA ProgramKeepsModel ==
    ASSUME ProgramInv, ModelInv, [ProgramNext]_<<vars, lineVars>>
    PROVE  ModelInv' /\ [Kept]_vars
<1>1. CASE vars' = vars
  BY <1>1, StutterKeepsModel DEF vars, model
<1>2. CASE ReadLine \/ RunPrompt
  BY <1>1, <1>2 DEF ReadLine, RunPrompt
<1>3. CASE RunBatch
  <2>1. session' = session /\ parsed' = parsed /\ flags' = flags
    BY <1>3 DEF RunBatch, model
  <2>. QED  BY <2>1, StutterKeepsModel, UntouchedIsKept DEF props
<1>4. CASE NoScriptFile
  <2>1. Consistent(session) /\ SmgameEnd
    BY <1>4 DEF NoScriptFile, Run, ProgramInv, SessionInv, ModeInv
  <2>. QED  BY <2>1, ResetsModel, ResetIsKept
<1>5. CASE Session
  BY <1>5, NextKeepsModel, NextIsKept DEF Session, ProgramInv
<1>. QED  BY <1>1, <1>2, <1>3, <1>4, <1>5 DEF ProgramNext, lineVars

(* The three of the executable, whatever its command line says.            *)
THEOREM ProgramVerdicts ==
    ProgramSpec => []StagesAreReal /\ []StatusIsVerdict /\ VerdictKept
<1>1. ProgramInit => ProgramInv /\ ModelInv
  BY ProgramStart, InitIsBare DEF ProgramInit
<1>2. ProgramInv /\ ModelInv /\ [ProgramNext]_<<vars, lineVars>>
          => (ProgramInv /\ ModelInv)' /\ [Kept]_vars
  BY ProgramStep, ProgramKeepsModel
<1>3. ProgramInv /\ ModelInv => StagesAreReal /\ StatusIsVerdict
  BY StagesOfModel, StatusOfModel DEF ProgramInv
<1>. QED
  BY <1>1, <1>2, <1>3, PTL DEF ProgramSpec, VerdictKept, Kept
-----------------------------------------------------------------------------
(* The assertions, and what a check of properties has done.                *)

(* A model that could not be flattened is read again after a reset only.   *)
ReadInv ==
    /\ "read" \in flags => parsed \in Models
    /\ "model" \in layers => "read" \in flags
    /\ "model" \in layers /\ "flatten" \notin flags => FlatteningFails(parsed)

(* The game mode has a database of its own.                                *)
DatabaseInv ==
    /\ DOMAIN props \subseteq Nat
    /\ session.mode => session.batchDb = "freed"

(* What a command that checks under q leaves of a property.                *)
Through(p, force, q) ==
    p.type # "ltl" =>
        /\ p.status # "Unchecked"
        /\ force => p.under = q

TaskInv ==
    phase = "checking" =>
        /\ DOMAIN task = {"force", "asked", "todo"}
        /\ task.todo \subseteq task.asked
        /\ task.asked \subseteq DOMAIN props
        /\ task.todo # {} => "build" \in flags
        /\ \A k \in task.asked \ task.todo : Through(props[k], task.force, initial)

CheckInv == ReadInv /\ DatabaseInv /\ TaskInv /\ AssertionsHold

LEMMA LeastExists ==
    ASSUME NEW S \in SUBSET Nat, S # {}
    PROVE  Min(S) \in S
<1>1. PICK x \in S : \A y \in S : ~(<<y, x>> \in OpToRel(<, Nat))
  BY NatLessThanWellFounded, WFMin
<1>2. \A y \in S : ~(y < x)
  BY <1>1 DEF OpToRel
<1>3. \A y \in S : x <= y
  BY <1>2
<1>. QED  BY <1>3 DEF Min

(* A step after which nothing is being checked, and no assertion failed.   *)
Idle == phase' # "checking" /\ ~(phase' = "aborted" /\ rv' = "assert")

LEMMA IdleIsThrough ==
    ASSUME Idle
    PROVE  TaskInv' /\ AssertionsHold'
  BY DEF Idle, TaskInv, AssertionsHold

LEMMA ReturningIsIdle ==
    ASSUME NEW code
    PROVE  /\ Return(code) => Idle
           /\ \A ok : ok = TRUE /\ ReturnIf(ok, code) => Idle
  BY DEF Return, ReturnIf, Idle

LEMMA StagesGoOn ==
    ASSUME ReadInv, parsed' = parsed, flags \subseteq flags',
           "read" \in flags' => "read" \in flags,
           "model" \in layers' => "model" \in layers
    PROVE  ReadInv'
  BY DEF ReadInv

LEMMA DatabaseStays ==
    ASSUME DatabaseInv, session'.db = session.db, session'.mode = session.mode,
           session'.batchDb = session.batchDb
    PROVE  DatabaseInv'
  BY DEF DatabaseInv, props

LEMMA EmptyDatabase ==
    ASSUME session'.db.props = << >>, session'.mode => session'.batchDb = "freed"
    PROVE  DatabaseInv'
  BY DEF DatabaseInv, props

-----------------------------------------------------------------------------
(* The commands again.                                                     *)

LEMMA EntersFreed ==
    ASSUME NEW x, Consistent(x)
    PROVE  ModeEnter(x).db.props = << >> /\ ModeEnter(x).batchDb = "freed"
  BY DEF ModeEnter, Consistent, Shape, EmptyDb

LEMMA ReadChecks ==
    ASSUME Consistent(session), ModelInv, CheckInv, NEW m \in Models, ReadModel(m)
    PROVE  CheckInv'
<1>. DEFINE x == LeaveMode(session)
            y == IF m.game /\ m.syntax # "before" THEN ModeEnter(x) ELSE x
<1>1. Consistent(x) /\ Bare(x) /\ x.mode = FALSE
  BY LeavingTheMode, LeavingIsBare DEF ModelInv, PropsInv, props, NormalMode
<1>2. session' = y /\ \E code : ReturnIf(y.ok, code)
  BY DEF ReadModel
<1>3. Consistent(y)
  <2>. HIDE DEF x
  <2>. QED  BY <1>1, EnteringTheMode
<1>4. y.db.props = << >> /\ (y.mode => y.batchDb = "freed")
  <2>. HIDE DEF x
  <2>. QED  BY <1>1, EntersFreed DEF Bare
<1>. HIDE DEF y
<1>5. Idle
  BY <1>2, <1>3, ReturningIsIdle DEF Consistent
<1>6. ReadInv'
  BY DEF ReadModel, CheckInv, ReadInv
<1>7. DatabaseInv'
  BY <1>2, <1>4, EmptyDatabase
<1>. QED  BY <1>5, <1>6, <1>7, IdleIsThrough DEF CheckInv

LEMMA ReadRatChecks ==
    ASSUME Consistent(session), ModelInv, CheckInv, NEW m \in Models, ReadRatFile(m)
    PROVE  CheckInv'
<1>. DEFINE y == IF session.mode THEN session ELSE ModeEnter(session)
<1>1. Consistent(y)
  BY EnteringTheMode DEF Consistent, NormalMode, GameMode
<1>2. y = session \/ (y.db.props = << >> /\ y.batchDb = "freed")
  BY EntersFreed
<1>3. /\ session' \in {session, y}
      /\ \/ phase' = "undefined"
         \/ \E code : Return(code)
         \/ \E code : ReturnIf(y.ok, code)
  <2>. HIDE DEF y
  <2>1. \/ phase' = "undefined" /\ session' = session
        \/ \E code : Return(code) /\ session' = session
        \/ \E code : ReturnIf(y.ok, code) /\ session' = y
    BY DEF ReadRatFile, y
  <2>. QED  BY <2>1
<1>. HIDE DEF y
<1>4. Idle
  BY <1>1, <1>3, ReturningIsIdle DEF Consistent, Idle
<1>5. ReadInv'
  BY DEF ReadRatFile, CheckInv, ReadInv
<1>6. DatabaseInv'
  BY <1>2, <1>3, EmptyDatabase DEF CheckInv, DatabaseInv, props
<1>. QED  BY <1>4, <1>5, <1>6, IdleIsThrough DEF CheckInv

LEMMA FillKeepsNumbers ==
    ASSUME NEW m \in Models
    PROVE  DOMAIN Fill(m) \subseteq Nat
<1>1. m.props \in Seq(DeclaredProp)
  BY SessionAssumption DEF ModelType
<1>. QED  BY <1>1 DEF Fill

LEMMA FlattenChecks ==
    ASSUME Consistent(session), ModelInv, CheckInv, FlattenHierarchy
    PROVE  CheckInv'
<1>. DEFINE filled == [k \in DOMAIN Fill(parsed) |-> Unchecked(Fill(parsed)[k])]
<1>0. Shape(session) /\ session.mode = TRUE /\ parsed' = parsed
      /\ "read" \in flags /\ "flatten" \notin flags
  BY SessionAssumption, GameCommandsNeedTheMode
     DEF FlattenHierarchy, GameCommandsOfTable, GameMode, Consistent
<1>1. session.batchDb = "freed" /\ parsed \in Models
  BY <1>0 DEF CheckInv, ReadInv, DatabaseInv
<1>2. CASE "model" \in layers
  <2>1. /\ session' = session /\ flags' = flags /\ layers' = layers
        /\ phase' = "aborted"
    BY <1>2 DEF FlattenHierarchy, ReturnIf
  <2>2. FlatteningFails(parsed)
    BY <1>0, <1>2 DEF CheckInv, ReadInv
  <2>3. TaskInv' /\ AssertionsHold'
    BY <1>0, <1>2, <2>1, <2>2 DEF TaskInv, AssertionsHold
  <2>4. ReadInv' /\ DatabaseInv'
    BY <1>0, <2>1, StagesGoOn, DatabaseStays DEF CheckInv
  <2>. QED  BY <2>3, <2>4 DEF CheckInv
<1>3. CASE "model" \notin layers
  <2>1. Idle
    BY <1>3, ReturningIsIdle DEF FlattenHierarchy, Idle
  <2>2. \/ /\ session' = session /\ flags' = flags
           /\ layers' = layers \/ FlatteningFails(parsed)
        \/ /\ session' = [session EXCEPT !.db = EmptyDb("core")]
           /\ flags' = flags \ {"read"} /\ layers' = layers
        \/ /\ session' = [session EXCEPT !.hierarchy = parsed, !.db.props = filled]
           /\ flags' = flags \cup {"flatten"}
    BY <1>3 DEF FlattenHierarchy
  <2>3. DOMAIN filled \subseteq Nat
    BY <1>1, FillKeepsNumbers
  <2>. HIDE DEF filled
  <2>4. session'.batchDb = "freed" /\ props' \in {props, << >>, filled}
    <3>1. CASE session' = session
      BY <1>1, <3>1 DEF props
    <3>2. CASE session' = [session EXCEPT !.db = EmptyDb("core")]
      <4>1. session'.db.props = << >> /\ session'.batchDb = session.batchDb
        BY <1>0, <3>2 DEF Shape, EmptyDb
      <4>. QED  BY <1>1, <4>1 DEF props
    <3>3. CASE session' = [session EXCEPT !.hierarchy = parsed, !.db.props = filled]
      <4>1. session'.db.props = filled /\ session'.batchDb = session.batchDb
        BY <1>0, <3>3 DEF Shape
      <4>. QED  BY <1>1, <4>1 DEF props
    <3>. QED  BY <2>2, <3>1, <3>2, <3>3
  <2>5. DOMAIN props \subseteq Nat /\ DOMAIN << >> \subseteq Nat
    BY DEF CheckInv, DatabaseInv
  <2>6. DOMAIN props' \subseteq Nat
    BY <2>3, <2>4, <2>5
  <2>7. ReadInv'
    BY <1>0, <1>1, <1>3, <2>2 DEF ReadInv
  <2>. QED  BY <2>1, <2>4, <2>6, <2>7, IdleIsThrough DEF CheckInv, DatabaseInv
<1>. QED  BY <1>2, <1>3

LEMMA BuildChecks ==
    ASSUME Consistent(session), CheckInv,
           \/ EncodeVariables
           \/ BuildFlatModel
           \/ \E force, m : BuildModel(force, m)
           \/ \E force : BuildBooleanModel(force)
    PROVE  CheckInv'
<1>1. session' = session \/ \E env : session' = [session EXCEPT !.env = env]
  BY DEF EncodeVariables, BuildFlatModel, BuildModel, BuildBooleanModel
<1>2. DatabaseInv'
  BY <1>1, DatabaseStays DEF CheckInv, Consistent, Shape
<1>. DEFINE Builds == /\ Idle /\ parsed' = parsed
                      /\ layers' \in {layers, layers \cup {"determ"}}
                      /\ flags' = flags \cup (flags' \ flags)
                      /\ flags' \ flags \subseteq LaterStages
<1>3. Builds
  <2>1. CASE EncodeVariables
    BY <2>1, ReturningIsIdle DEF EncodeVariables, LaterStages
  <2>2. CASE BuildFlatModel
    BY <2>2, ReturningIsIdle DEF BuildFlatModel, LaterStages
  <2>3. ASSUME NEW force, NEW m, BuildModel(force, m) PROVE Builds
    BY <2>3, ReturningIsIdle DEF BuildModel, LaterStages
  <2>4. ASSUME NEW force, BuildBooleanModel(force) PROVE Builds
    BY <2>4, ReturningIsIdle DEF BuildBooleanModel, LaterStages
  <2>. QED  BY <2>1, <2>2, <2>3, <2>4
<1>4. ReadInv'
  BY <1>3, StagesGoOn DEF CheckInv, LaterStages
<1>. QED  BY <1>2, <1>3, <1>4, IdleIsThrough DEF CheckInv

LEMMA OthersCheck ==
    ASSUME Consistent(session), ModelInv, CheckInv,
           Reset \/ SmgameEnd \/ \E q : SetInitialCondition(q)
    PROVE  CheckInv'
<1>1. CASE Reset \/ SmgameEnd
  <2>1. Bare(session')
    BY <1>1, QuittingIsBare DEF Reset, SmgameEnd, ModelInv, PropsInv, props
  <2>2. session'.mode = FALSE /\ Idle
    <3>1. CASE Reset
      <4>1. Consistent(session') /\ session'.ok = TRUE
        BY <3>1, Restarting DEF Reset, Consistent
      <4>2. GameInit(GameQuit(session)).mode = GameQuit(session).mode
        <5>. DEFINE z == GameQuit(session)
        <5>1. Shape(z)
          BY Quitting
        <5>. HIDE DEF z
        <5>2. GameInit(z).mode = z.mode
          BY <5>1 DEF Shape, GameInit
        <5>. QED  BY <5>2 DEF z
      <4>. QED  BY <3>1, <4>1, <4>2, Quitting, ReturningIsIdle DEF Reset, Over
    <3>2. CASE SmgameEnd
      BY <3>2, EndIsOver DEF Over, Idle
    <3>. QED  BY <1>1, <3>1, <3>2
  <2>3. ReadInv'
    BY <1>1 DEF Reset, SmgameEnd, CoreReset, ReadInv
  <2>4. DatabaseInv'
    BY <2>1, <2>2, EmptyDatabase DEF Bare
  <2>. QED  BY <2>2, <2>3, <2>4, IdleIsThrough DEF CheckInv
<1>2. CASE \E q : SetInitialCondition(q)
  <2>1. Idle /\ session' = session /\ parsed' = parsed /\ flags' = flags /\ layers' = layers
    BY <1>2, ReturningIsIdle DEF SetInitialCondition, model
  <2>. QED  BY <2>1, IdleIsThrough, StagesGoOn, DatabaseStays DEF CheckInv
<1>. QED  BY <1>1, <1>2

(* A step that leaves the session and the stages of the model alone.       *)
Rests == session' = session /\ parsed' = parsed /\ flags' = flags /\ layers' = layers

LEMMA StartChecks ==
    ASSUME CheckInv, Rests, NEW S \in SUBSET DOMAIN props, NEW force,
           S # {} => "build" \in flags, StartChecking(S, force)
    PROVE  CheckInv'
<1>1. ReadInv' /\ DatabaseInv'
  BY StagesGoOn, DatabaseStays DEF CheckInv, Rests
<1>2. CASE Return("error")
  BY <1>1, <1>2, IdleIsThrough, ReturningIsIdle DEF CheckInv
<1>3. CASE /\ phase' = "checking" /\ rv' = "ok"
           /\ task' = [force |-> force, asked |-> S, todo |-> S]
  <2>1. TaskInv'
    BY <1>3 DEF TaskInv, Rests, props
  <2>. QED  BY <1>1, <1>3, <2>1 DEF CheckInv, AssertionsHold
<1>. QED  BY <1>2, <1>3 DEF StartChecking

LEMMA CheckingCommandChecks ==
    ASSUME CheckInv,
           \/ \E k : CheckPropertyNo(k)
           \/ \E type, player : CheckProperties(type, player)
           \/ \E type, S : InvokeGameCommand(type, S)
           \/ \E S : CheckLtlGameSpecSF07(S)
    PROVE  CheckInv'
<1>1. Rests
  BY DEF CheckPropertyNo, CheckProperties, InvokeGameCommand, CheckLtlGameSpecSF07, Rests,
         model
<1>2. ASSUME NEW k, CheckPropertyNo(k) PROVE CheckInv'
  BY <1>1, <1>2, StartChecks DEF CheckPropertyNo
<1>3. ASSUME NEW type, NEW player, CheckProperties(type, player) PROVE CheckInv'
  BY <1>1, <1>3, StartChecks DEF CheckProperties
<1>4. ASSUME NEW type, NEW S, OneOrAll(type, S) PROVE S \subseteq DOMAIN props
  BY <1>4 DEF OneOrAll, OfType
<1>5. ASSUME NEW type, NEW S, InvokeGameCommand(type, S) PROVE CheckInv'
  BY <1>1, <1>4, <1>5, StartChecks DEF InvokeGameCommand
<1>6. ASSUME NEW S, CheckLtlGameSpecSF07(S) PROVE CheckInv'
  BY <1>1, <1>4, <1>6, StartChecks DEF CheckLtlGameSpecSF07
<1>. QED  BY <1>2, <1>3, <1>5, <1>6

(* The property that is checked is the least one that is left, and there   *)
(* is a machine to check it in.                                            *)
LEMMA CheckNextChecks ==
    ASSUME Consistent(session), ModelInv, CheckInv, CheckNext
    PROVE  CheckInv'
<1>. DEFINE k == Min(task.todo)
            p == props[k]
            fsm == IF p.fsm = NoFsm THEN session.env.bdd ELSE p.fsm
            skip == ~task.force /\ p.status # "Unchecked"
            ok == fsm # NoFsm /\ (p.type = "ltl" => LtlMayStart(p))
            decided(status) ==
                [p EXCEPT !.fsm = fsm, !.status = status,
                          !.under = IF status = "Unchecked" THEN "none" ELSE initial]
<1>0. /\ phase = "checking" /\ task.todo # {}
      /\ parsed' = parsed /\ flags' = flags /\ layers' = layers /\ initial' = initial
  BY DEF CheckNext, model, options
<1>1. k \in task.todo /\ k \in DOMAIN props /\ "build" \in flags
  <2>1. task.todo \subseteq DOMAIN props /\ DOMAIN props \subseteq Nat /\ "build" \in flags
    BY <1>0 DEF CheckInv, TaskInv, DatabaseInv
  <2>. QED  BY <1>0, <2>1, LeastExists
<1>2. fsm # NoFsm
  BY <1>1 DEF ModelInv, MachinesInv
<1>3. /\ DOMAIN task' = {"force", "asked", "todo"}
      /\ task'.force = task.force /\ task'.asked = task.asked
      /\ task'.todo = task.todo \ {k}
  <2>1. task' = [task EXCEPT !.todo = @ \ {Min(@)}]
    BY DEF CheckNext
  <2>2. DOMAIN task = {"force", "asked", "todo"}
    BY <1>0 DEF CheckInv, TaskInv
  <2>. QED  BY <2>1, <2>2
<1>4. ReadInv'
  BY <1>0, StagesGoOn DEF CheckInv
<1>5. ASSUME session'.mode = session.mode, session'.batchDb = session.batchDb,
             phase' = phase, DOMAIN props' = DOMAIN props,
             \A j \in DOMAIN props \ {k} : props'[j] = props[j],
             Through(props'[k], task'.force, initial')
      PROVE  CheckInv'
  <2>1. DatabaseInv'
    BY <1>5 DEF CheckInv, DatabaseInv
  <2>2. ASSUME NEW j \in task'.asked \ task'.todo PROVE Through(props'[j], task'.force, initial')
    <3>1. CASE j = k
      BY <1>5, <3>1
    <3>2. CASE j # k
      <4>1. j \in task.asked \ task.todo /\ j \in DOMAIN props
        BY <1>0, <1>3, <3>2 DEF CheckInv, TaskInv
      <4>2. Through(props[j], task.force, initial)
        BY <1>0, <4>1 DEF CheckInv, TaskInv
      <4>3. props'[j] = props[j]
        BY <1>5, <3>2, <4>1
      <4>. QED  BY <1>0, <1>3, <4>2, <4>3 DEF Through
    <3>. QED  BY <3>1, <3>2
  <2>3. TaskInv'
    <3>1. task.todo \subseteq task.asked /\ task.asked \subseteq DOMAIN props
      BY <1>0 DEF CheckInv, TaskInv
    <3>. HIDE DEF k
    <3>. QED  BY <1>0, <1>1, <1>3, <1>5, <2>2, <3>1 DEF TaskInv
  <2>. QED  BY <1>0, <1>4, <1>5, <2>1, <2>3 DEF CheckInv, AssertionsHold
<1>6. CASE skip
  <2>1. session' = session /\ phase' = phase
    BY <1>6 DEF CheckNext
  <2>2. props' = props
    BY <2>1 DEF props
  <2>3. Through(props'[k], task'.force, initial')
    BY <1>0, <1>3, <1>6, <2>2 DEF Through
  <2>. QED  BY <1>5, <2>1, <2>2, <2>3
<1>7. CASE ~skip /\ ~ok
  <2>1. session' = session /\ phase' = "aborted" /\ rv' = "ltl"
    BY <1>2, <1>7 DEF CheckNext
  <2>. QED  BY <1>4, <2>1, IdleIsThrough, DatabaseStays DEF Idle, CheckInv
<1>8. CASE ~skip /\ ok
  <2>1. PICK status \in {Verdict(fsm, k)} \cup (IF p.type = "ltl" THEN {"Unchecked"} ELSE {}) :
            session' = [session EXCEPT !.db.props[k] = decided(status)]
    BY <1>8 DEF CheckNext
  <2>2. phase' = phase
    BY <1>8 DEF CheckNext
  <2>3. /\ session'.mode = session.mode /\ session'.batchDb = session.batchDb
        /\ props' = [props EXCEPT ![k] = decided(status)]
    <3>. HIDE DEF k, decided
    <3>. QED  BY <2>1 DEF Consistent, Shape, props
  <2>4. p.type # "ltl" => status \in {"True", "False"}
    BY <2>1 DEF Verdict
  <2>5. /\ decided(status).type = p.type /\ decided(status).status = status
        /\ status # "Unchecked" => decided(status).under = initial
    <3>1. Sound(p, k, parsed)
      BY <1>1 DEF ModelInv, PropsInv
    <3>. HIDE DEF p, fsm
    <3>. QED  BY <3>1 DEF Sound
  <2>. HIDE DEF decided, k
  <2>6. DOMAIN props' = DOMAIN props /\ props'[k] = decided(status)
        /\ \A j \in DOMAIN props \ {k} : props'[j] = props[j]
    BY <1>1, <2>3
  <2>7. Through(props'[k], task'.force, initial')
    BY <1>0, <2>4, <2>5, <2>6 DEF Through
  <2>. QED  BY <1>5, <2>2, <2>3, <2>6, <2>7
<1>. QED  BY <1>6, <1>7, <1>8

LEMMA RestingChecks ==
    ASSUME CheckInv, Rests, Idle
    PROVE  CheckInv'
  BY StagesGoOn, DatabaseStays, IdleIsThrough DEF CheckInv, Rests

LEMMA StutterChecks ==
    ASSUME CheckInv, vars' = vars
    PROVE  CheckInv'
<1>1. /\ session' = session /\ parsed' = parsed /\ flags' = flags /\ layers' = layers
      /\ phase' = phase /\ rv' = rv /\ task' = task /\ initial' = initial
  BY DEF vars, model, options
<1>2. props' = props
  BY <1>1 DEF props
<1>3. TaskInv'
  BY <1>1, <1>2 DEF CheckInv, TaskInv
<1>. QED
  BY <1>1, <1>2, <1>3 DEF CheckInv, ReadInv, DatabaseInv, AssertionsHold

LEMMA CommandChecks ==
    ASSUME Consistent(session), ModelInv, CheckInv, Command
    PROVE  CheckInv'
<1>1. CASE \E m \in Models : ReadModel(m) \/ ReadRatFile(m)
  BY <1>1, ReadChecks, ReadRatChecks
<1>2. CASE FlattenHierarchy
  BY <1>2, FlattenChecks
<1>3. CASE \/ EncodeVariables
           \/ BuildFlatModel
           \/ \E force, m : BuildModel(force, m)
           \/ \E force : BuildBooleanModel(force)
  BY <1>3, BuildChecks
<1>4. CASE \/ \E k : CheckPropertyNo(k)
           \/ \E type, player : CheckProperties(type, player)
           \/ \E type, S : InvokeGameCommand(type, S)
           \/ \E S : CheckLtlGameSpecSF07(S)
  BY <1>4, CheckingCommandChecks
<1>5. CASE Reset \/ SmgameEnd \/ \E q : SetInitialCondition(q)
  BY <1>5, OthersCheck
<1>. QED  BY <1>1, <1>2, <1>3, <1>4, <1>5, Zenon DEF Command

LEMMA BatchChecks ==
    ASSUME Consistent(session), ModelInv, CheckInv, BatchMain
    PROVE  CheckInv'
<1>1. CASE ScriptedCommand
  <2>1. CASE \E m \in Models : ReadModel(m)
    BY <2>1, ReadChecks
  <2>2. CASE FlattenHierarchy
    BY <2>2, FlattenChecks
  <2>3. CASE \/ EncodeVariables
             \/ BuildFlatModel
             \/ BuildModel(FALSE, "default")
             \/ BuildBooleanModel(FALSE)
    BY <2>3, BuildChecks
  <2>4. CASE WriteModel
    BY <2>4, RestingChecks, ReturningIsIdle DEF WriteModel, Rests, Idle, model
  <2>5. (\E m \in {m \in Models : m.game /\ ~m.rat} : ReadModel(m))
           => \E m \in Models : ReadModel(m)
    OBVIOUS
  <2>. QED  BY <1>1, <2>1, <2>2, <2>3, <2>4, <2>5, Zenon DEF ScriptedCommand
<1>2. CASE LookupProp
  <2>1. Rests /\ Idle
    BY <1>2 DEF LookupProp, Rests, Idle, model, BatchMain
  <2>. QED  BY <2>1, RestingChecks
<1>3. ASSUME NEW types, VerifyTypes(types), Rests PROVE CheckInv'
  <2>. DEFINE S == {k \in DOMAIN props : props[k].type \in types}
  <2>1. CASE "build" \in flags
    <3>1. StartChecking(S, FALSE)
      BY <1>3, <2>1 DEF VerifyTypes
    <3>2. S \in SUBSET DOMAIN props
      OBVIOUS
    <3>. HIDE DEF S
    <3>. QED  BY <1>3, <2>1, <3>1, <3>2, StartChecks
  <2>2. CASE "build" \notin flags
    BY <1>3, <2>2, RestingChecks DEF VerifyTypes, Idle
  <2>. QED  BY <2>1, <2>2
<1>4. CASE VerifyAll
  <2>1. Rests
    BY <1>4 DEF VerifyAll, Rests, model
  <2>2. CASE session.batchDb = "freed"
    <3>1. Idle \/ \E types : VerifyTypes(types)
      BY <1>4, <2>2 DEF VerifyAll, Idle, BatchMain
    <3>. QED  BY <1>3, <2>1, <3>1, RestingChecks
  <2>3. CASE session.batchDb # "freed"
    <3>1. session.mode = FALSE
      BY <2>3 DEF CheckInv, DatabaseInv, Consistent, NormalMode, GameMode
    <3>2. DOMAIN props = {}
      BY <3>1 DEF ModelInv, PropsInv
    <3>3. StartChecking(DOMAIN props, FALSE)
      BY <1>4, <2>3 DEF VerifyAll
    <3>. QED  BY <2>1, <3>2, <3>3, StartChecks
  <2>. QED  BY <2>2, <2>3
<1>5. CASE VerifyRest
  BY <1>3, <1>5 DEF VerifyRest, Rests, model
<1>6. CASE CheckOne
  <2>1. CASE CheckPropertyNo(script.options.propNo)
    BY <2>1, CheckingCommandChecks
  <2>2. CASE Return("error") /\ Rests
    BY <2>2, RestingChecks, ReturningIsIdle
  <2>. QED  BY <1>6, <2>1, <2>2 DEF CheckOne, Rests, model
<1>7. CASE SmgameEnd
  BY <1>7, OthersCheck
<1>. QED  BY <1>1, <1>2, <1>4, <1>5, <1>6, <1>7, Zenon DEF BatchMain

LEMMA NextChecks ==
    ASSUME SessionInv, ModelInv, CheckInv, Next
    PROVE  CheckInv'
<1>0. Consistent(session)
  BY DEF SessionInv, ModeInv, Next, Prompt, CheckNext, EndCheck, BatchMain, BatchFails
<1>1. CASE Prompt
  BY <1>0, <1>1, CommandChecks DEF Prompt
<1>2. CASE CheckNext
  BY <1>0, <1>2, CheckNextChecks
<1>3. CASE EndCheck \/ BatchFails
  <2>1. Rests /\ Idle
    BY <1>3 DEF EndCheck, BatchFails, Rests, Idle, model
  <2>. QED  BY <2>1, RestingChecks
<1>4. CASE BatchMain
  BY <1>0, <1>4, BatchChecks
<1>. QED  BY <1>1, <1>2, <1>3, <1>4 DEF Next

LEMMA InitChecks ==
    ASSUME Init
    PROVE  CheckInv
<1>1. props = << >> /\ session.mode = FALSE
  BY DEF Init, EmptyDb, props
<1>. QED
  BY <1>1 DEF Init, CheckInv, ReadInv, DatabaseInv, TaskInv, AssertionsHold

LEMMA ThroughIsDecided ==
    ASSUME CheckInv
    PROVE  AskedAreDecided
  BY DEF CheckInv, TaskInv, Through, AskedAreDecided

(* No assertion fails in a session, whatever is typed or scripted, but the *)
(* one on a layer that an error of flattening has left; and a check that   *)
(* has come to its end has decided every property it was asked for except  *)
(* LTL ones, under the present interpretation of initial conditions when   *)
(* the command checks decided properties again.                            *)
THEOREM SessionChecks == Spec => []AssertionsHold /\ []AskedAreDecided
<1>. DEFINE I == SessionInv /\ ModelInv /\ CheckInv
<1>1. Init => I
  BY InitIsNormal, InitIsBare, InitChecks
<1>2. I /\ [Next]_vars => I'
  BY NextKeeps, StutterKeeps, NextKeepsModel, StutterKeepsModel, NextChecks, StutterChecks
     DEF vars, model
<1>3. I => AssertionsHold /\ AskedAreDecided
  BY ThroughIsDecided DEF CheckInv
<1>. QED  BY <1>1, <1>2, <1>3, PTL DEF Spec

LEMMA ProgramChecksStep ==
    ASSUME ProgramInv, ModelInv, CheckInv, [ProgramNext]_<<vars, lineVars>>
    PROVE  CheckInv'
<1>1. CASE vars' = vars
  BY <1>1, StutterChecks
<1>2. CASE ReadLine \/ RunPrompt
  BY <1>1, <1>2 DEF ReadLine, RunPrompt
<1>3. CASE RunBatch
  <2>1. Rests /\ phase' = phase /\ rv' = rv /\ phase = "ready"
    BY <1>3 DEF RunBatch, Rests, model, Run, ProgramInv
  <2>. QED  BY <2>1, RestingChecks DEF Idle
<1>4. CASE NoScriptFile
  <2>1. Consistent(session) /\ SmgameEnd
    BY <1>4 DEF NoScriptFile, Run, ProgramInv, SessionInv, ModeInv
  <2>. QED  BY <2>1, OthersCheck
<1>5. CASE Session
  BY <1>5, NextChecks DEF Session, ProgramInv
<1>. QED  BY <1>1, <1>2, <1>3, <1>4, <1>5 DEF ProgramNext, lineVars

(* Both of the executable, whatever its command line says.                 *)
THEOREM ProgramChecks == ProgramSpec => []AssertionsHold /\ []AskedAreDecided
<1>. DEFINE I == ProgramInv /\ ModelInv /\ CheckInv
<1>1. ProgramInit => I
  BY ProgramStart, InitIsBare, InitChecks DEF ProgramInit
<1>2. I /\ [ProgramNext]_<<vars, lineVars>> => I'
  BY ProgramStep, ProgramKeepsModel, ProgramChecksStep
<1>3. I => AssertionsHold /\ AskedAreDecided
  BY ThroughIsDecided DEF CheckInv
<1>. QED  BY <1>1, <1>2, <1>3, PTL DEF ProgramSpec
=============================================================================
