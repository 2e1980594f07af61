------------------------------ MODULE Program ------------------------------
(***************************************************************************)
(* The executable: it reads its command line and goes on as a batch run or *)
(* as a session at the prompt (main).  Scripts and the initialization file *)
(* give the same commands as the prompt.                                   *)
(***************************************************************************)
EXTENDS GameSession

CONSTANT Lines

VARIABLES line, argv, argc, config, at

lineVars == <<line, argv, argc, config, at>>

Line == INSTANCE ProgramLine

Says(f) == f \in DOMAIN config

(* What the batch run looks at.  A missing file is the default, none.      *)
HasFile(f) == Says(f) /\ config[f] # "NULL"

Asked == [list      |-> Says("listProperties"),
          dumpOrder |-> HasFile("outputOrder") /\ ~Says("reorder"),
          writeFlat |-> HasFile("flatFile"),
          writeBool |-> HasFile("boolFile"),
          bool      |-> Says("printStrategy") \/ HasFile("boolFile"),
          coi       |-> Says("coi"),
          checkFsm  |-> Says("checkFsm"),
          reachable |-> Says("printReachable"),
          propNo    |-> IF Says("propNo") THEN config["propNo"] + 1 ELSE 0]

(* The line is not looked at again.                                        *)
Run ==
    /\ at = "ready" /\ at' = "running"
    /\ line' = << >> /\ argv' = 1 /\ argc' = 0 /\ config' = Line!NoSettings

RunBatch ==
    /\ Run
    /\ ~Says("batch")
    /\ script' = [step |-> "read", options |-> Asked]
    /\ UNCHANGED <<session, model, options, phase, task, rv>>

RunPrompt ==
    /\ Run
    /\ Says("batch")
    /\ UNCHANGED vars

(* A script that does not exist ends the program before its prompt.        *)
NoScriptFile ==
    /\ Run
    /\ Says("script")
    /\ SmgameEnd
    /\ UNCHANGED script

ReadLine == Line!LineNext /\ UNCHANGED vars

Session == at = "running" /\ Next /\ UNCHANGED lineVars

ProgramInit == Init /\ script = NoScript /\ Line!LineInit

ProgramNext == ReadLine \/ RunBatch \/ RunPrompt \/ NoScriptFile \/ Session

(* The program goes on by itself; nobody has to type a command.            *)
ProgramSpec == /\ ProgramInit /\ [][ProgramNext]_<<vars, lineVars>>
               /\ WF_vars(CheckNext) /\ WF_vars(EndCheck)
               /\ WF_vars(BatchMain) /\ WF_vars(BatchFails)

-----------------------------------------------------------------------------
LineIsUnderstood == Line!LineIsUnderstood
=============================================================================
