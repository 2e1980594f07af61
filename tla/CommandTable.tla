---------------------------- MODULE CommandTable ----------------------------
(***************************************************************************)
(* The command table of the shell and the way the game mode overloads it   *)
(* (gamePkg.c, gameCmd.c).  Generic commands are the same in both modes;   *)
(* dependent ones have an implementation per mode; the others of NuSMV are *)
(* put aside while the game mode is on, and the game's own ones added.     *)
(* There is one place to put commands aside, not a stack.                  *)
(***************************************************************************)

CONSTANTS
    Generic,       \* names of the generic commands
    RatCommands,   \* the generic commands NuGaT itself implements
    Dependent,     \* names of the dependent commands
    Specific,      \* names of the commands of the game mode only
    OtherNames     \* names of the other commands of NuSMV

Names == Generic \cup Dependent \cup Specific \cup OtherNames

NotStored == [null |-> TRUE]

(* NuSMV defines every command but the game's own before NuGaT starts.     *)
CoreTable == [n \in Names |-> IF n \in Specific \cup RatCommands THEN "none" ELSE "core"]

ASSUME CommandNamesAssumption ==
    /\ "null" \notin Names
    /\ RatCommands \subseteq Generic
    /\ Generic \cap (Dependent \cup Specific \cup OtherNames) = {}
    /\ Dependent \cap (Specific \cup OtherNames) = {}
    /\ Specific \cap OtherNames = {}

-----------------------------------------------------------------------------

Undefined(table, S) == \A n \in S : table[n] = "none"

Defined(table, S) == \A n \in S : table[n] # "none"

(* Adding and removing are guarded by assertions: Ok is whether they hold. *)
AddCmds(t, S) ==
    [table |-> [n \in Names |-> IF n \in S THEN "game" ELSE t.table[n]],
     ok    |-> t.ok /\ Undefined(t.table, S)]

RemoveCmds(t, S) ==
    [table |-> [n \in Names |-> IF n \in S THEN "none" ELSE t.table[n]],
     ok    |-> t.ok /\ Defined(t.table, S)]

RestoreCmds(t, stored) ==
    IF stored = NotStored
    THEN [t EXCEPT !.ok = FALSE]
    ELSE [table |-> [n \in Names |-> IF n \in DOMAIN stored THEN stored[n]
                                                            ELSE t.table[n]],
          ok    |-> t.ok /\ Undefined(t.table, DOMAIN stored)]

Taken(table, S) == [n \in S |-> table[n]]

(* What the table holds besides generic and dependent commands.            *)
NamesSpecific(table) == {n \in Names \ (Generic \cup Dependent) : table[n] # "none"}

(* Faulty variant: the game's own commands are added first, and put aside. *)
EagerSwitchTo(c) ==
    LET t1 == RemoveCmds([table |-> c.table, ok |-> c.dependent = NotStored], Dependent)
        t2 == AddCmds(AddCmds(t1, Dependent), Specific)
        others == NamesSpecific(t2.table)
        t3 == RemoveCmds(t2, others)
    IN  [commands |-> [table     |-> t3.table,
                       dependent |-> Taken(c.table, Dependent),
                       specific  |-> Taken(t2.table, others)],
         ok       |-> t3.ok /\ c.specific = NotStored]

(* Entering the game mode: the result, and whether every assertion held.   *)
SwitchToGameCmds(c) ==
    LET others == NamesSpecific(c.table)
        t1 == RemoveCmds([table |-> c.table, ok |-> c.dependent = NotStored], Dependent)
        t2 == AddCmds(t1, Dependent)
        t3 == RemoveCmds(t2, others)
        t4 == AddCmds(t3, Specific)
    IN  [commands |-> [table     |-> t4.table,
                       dependent |-> Taken(c.table, Dependent),
                       specific  |-> Taken(t2.table, others)],
         ok       |-> t4.ok /\ c.specific = NotStored]

(* Leaving it.                                                             *)
SwitchFromGameCmds(c) ==
    LET t1 == RemoveCmds([table |-> c.table, ok |-> TRUE], Specific)
        t2 == RestoreCmds(t1, c.specific)
        t3 == RemoveCmds(t2, Dependent)
        t4 == RestoreCmds(t3, c.dependent)
    IN  [commands |-> [table |-> t4.table, dependent |-> NotStored,
                       specific |-> NotStored],
         ok       |-> t4.ok]

(* Starting and quitting the package itself.                               *)
InitCommands(table) ==
    LET t == AddCmds([table |-> table, ok |-> TRUE], RatCommands)
    IN  [commands |-> [table |-> t.table, dependent |-> NotStored,
                       specific |-> NotStored],
         ok       |-> t.ok]

QuitCommands(c) ==
    LET t == RemoveCmds([table |-> c.table, ok |-> TRUE], RatCommands)
    IN  [commands |-> [c EXCEPT !.table = t.table],
         ok       |-> t.ok /\ c.dependent = NotStored /\ c.specific = NotStored]

NormalCommands == InitCommands(CoreTable).commands

(* The table of the game mode, as the classes of commands describe it.     *)
GameTable ==
    [n \in Names |-> IF n \in RatCommands \cup Dependent \cup Specific THEN "game"
                     ELSE IF n \in Generic THEN "core"
                     ELSE "none"]
=============================================================================
