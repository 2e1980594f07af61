# Verification of NuGaT

NuGaT extends the NuSMV model checker with two-player games: it reads a game,
decides whether a player can enforce a specification (realizability), prints a
strategy for the winner, and explains why a game is (un)realizable. This
directory holds TLA+ models of the algorithms behind these commands and of the
session they are given in, TLC configurations that check them on small
instances, and proofs, checked by TLAPS, for instances of every size. Paths below
are relative to `src/src/addons/game/` unless they begin with `src/`.

## 1. The system

A *game* has two players; each owns some variables. A round has two half-moves:
player 1 chooses next values of its variables knowing the current state, then
player 2 chooses next values of its own knowing also what player 1 chose. A player without a
legal half-move loses. Who chooses the initial state is an option: `N` (player 1,
then player 2), `A` (the opponent of the named player, both parts), `E` (the
named player, both parts).

NuGaT is one sequential process. It has no threads, receives no messages and keeps nothing
between runs, so races, lost messages and recovery do not exist in it. What is hard:

* nested fixed points over BDDs that compare sets by identity, stop early, reuse
  values of previous passes and invert players;
* lists of intermediate values that are walked in step to cut a strategy out of them;
* chains of algorithms in which each stage starts from results of another;
* sessions: commands in any order, two modes that exchange the command table and the
  property database, machines kept under global names, errors between two steps;
* one program outside, Wring, that may fail or whose output may end anywhere.

| Component | State it keeps | Operations | Hard behaviour | What makes it correct | Models |
|---|---|---|---|---|---|
| Game FSM (`fsm/GameBddFsm.c`) | INIT, INVAR, TRANS of both players, cached successor sets | backward images, moves, initial check | dead ends of either player; one table of negations for both players and three options | image = "can force in one round"; the check = the quantifiers the options stand for | `GameFsm`, `GameMeaning` |
| Reachability and avoidance (`gameCheckReachAvoidSpec.c`) | reached set, list of layers, two flags | decide, hand moves to the strategy | plays avoidance for the opponent with dual options; leaves the loop early | right verdict; moves get closer to the target | `ReachAvoid`, `GameSpecs`, `Realizability` |
| Generalized reactivity and Buchi (`gameCheckGenReactivityBuchiSpec.c`) | Z, Y, X, their past values, jx | triple and double fixed point, early termination, approximations from outside | shortcuts between the loops; conditions dropped; bookkeeping of values | right verdict and winning states; loops end | `GenReactivity`, `BuchiGame`, `ReactivitySpecs` |
| Strategy (`GameStrategy.c`) | six BDDs: INIT and TRANS parts | construct, print as a module | cut to states computed as reachable; moves into dead ends taken out and put back | whoever follows the printed module wins | `GameStrategy`, `Play`, `StrategyPlay`, `ReactivityPlay`, `BuchiPlay` |
| Unrealizable cores (`gameUnrealCore.c`) | constraints substituted by TRUE one by one; winning states of earlier games | explicit minimisation | stale approximations; undo on a changed verdict; second player | verdict kept; core minimal | `CoreMinimization` |
| Bounded synthesis of LTL games (`gameCheckLTLSF07.c`) | bound, whose turn, automaton, monitor, product | loop over bounds for both players | who is tried first, for which bound; errors in the middle of an iteration | a decided answer is right; both players together decide; nothing is left behind | `CountingMonitor`, `LtlGames`, `BoundedSynthesis` |
| Wring interface (`gameCheckLTLSF07_gba.c`, `..._gba_wring.c`) | files, parse position, hash of states, automaton | write formula, run Wring, parse | names escaped and read back; output cut off; every exit has its clean-up | the automaton is that of the formula, or there is an error | `WringNames`, `Gba`, `WringTranslation` |
| Command session (`gameCmd.c`, `gameFlatten.c`, `gameVarEncoding.c`, `gameBuildModel.c`) | stages passed, layers, machines in the environment | read, flatten, encode, build, check, reset, quit | any order, errors in between | no command works on missing or stale data | `GameSession` |
| Mode and packages (`gamePkg.c`, `gameOpt.c`) | mode, commands put aside | enter, leave, reset, quit | one place to put commands aside, not a stack | leaving restores what entering replaced | `CommandTable`, `GameSession` |
| Property database (`PropGame.c`, `PropDbGame.c`, `gameGeneral.c`) | properties with status | fill, check one, check all | status against verdict, options changed in between | a status is the truth about the model that is read | `GameSession`, `GameSpecs` |
| Command line of a command (`gameCmd.c`) | options, streams | option loop, prerequisites, clean-up | goto-style exits that close what may not be open | streams as before, refused = nothing done | `CommandLine` |
| Executable (`src/src/smgame/`) | words left, settings | command line, batch run, prompt | pointer and count moved separately; batch script | the line means what was typed; batch = the same commands | `ProgramLine`, `Program` |
| Printing (`gameGeneral.c`, `gameCheckLTLSF07.c`, `gameWriteModel.c`) | names of layers in one buffer | print strategies and models | pointers to a buffer that is written again | all variables of the game are printed | `StrategyPrinting`, `CommandLine` |
| Hierarchy and flattening (`GameHierarchy.c`, `GamePlayer.c`, `gameFlatten.c`) | sections of both players | flatten, check player 1 | what player 1 may mention | player 1 never depends on next values of player 2 | the types of `GameFsm` |
| Requirements (`gameReqToGame.c`, `gameXmlReader.c`), type checking (`TypeCheckerGame.c`, `walkers/`) | | text in and out | | | not modelled |

`Program` composes `ProgramLine` and `GameSession`, `GameSession` stands on `CommandTable`. The
session does not repeat the algorithms: in it a model carries the truth of its properties, and what a check
command reports is right by the theorems about the algorithms. The plays compose algorithm,
strategy and game; the cores compose their loop with `GenReactivity`; the bounded synthesis composes
monitor, game and avoidance.

The hazards of this code, each at its line and with the properties meant to catch
it, are listed in `PROJECT.json`.

## 2. Abstraction

* A BDD over the current variables is a set of states `<<p1, p2>>`; one over p1, p2
  and next(p1) a set of pairs `<<state, q1>>`; one over everything a set of pairs
  of states. BDD equality is set equality, as BDDs are canonical. Reference counts
  and messages to the user are left out.
* A game is a record of INIT, INVAR and TRANS of both players. `GameType` says what
  `game_check_first_player` lets player 1 mention.
* One step of an algorithm is one pass of a loop; locals that are computed once are
  operators. One step of a command is a stretch between two points where it can fail.
* An error that C raises by `longjmp` or an assertion ends a command in a state of its own (`rv`, `pc`),
  with everything done so far left as it is.
* In a session, a machine is the model it was built from: what matters is whose it is.
* What Wring prints is a sequence of lines of tokens; names are sequences of characters only where their
  encoding is the subject.
* Undefined behaviour (an uninitialised read, a stream that is `NULL`, a dangling pointer) ends in a state of its own or in
  a choice over what may be read; section 6 lists the places.
* Operators named "Faulty variant" are never used by the models. Each is a
  plausible mistake in the definition after it; exchanging the two makes the
  property named in `PROJECT.json` fail, which shows that the property sees the code.

## 3. Modules

**The game.** `GameFsm` is the game and its operations, one operator per function:
`StrongBackwardImage` (627-753), `WeakForwardImage` (869-939), `Move1`, `Move2` for
`GameBddFsm_get_move`, `CanPlayerSatisfy` with the code's table of negations
(1037-1180). `GameMeaning` and `GameSpecs` state what these should mean, with
quantifiers over moves and states and without the tricks of the code, and
`Realizability` is the abstract component: one atomic, right answer.

**Deciding.** `ReachAvoid` is `Game_UseStrongReachabilityAlgorithm`: `Begin`, `Iterate`,
`ComputeStrategy`, `Return` are the stretches between the points where the loop
looks at its flags; `allReachStates`, `reachStateList`, `isTargetReached`,
`isFixedpointReached` are the locals of those names. `Implements` is the
refinement of `Realizability`. `GenReactivity` is `game_compute_gen_reactivity`: `pc` says which of
the loops on Z, the guarantees, Y and X the function is in, `Normalize` is the dropping of TRUE and
FALSE conditions, `Rho1`, `Rho2`, `Rho3` are the three families of moves, with rows
`<<jx, next(jx), move>>`. `BuchiGame` is `game_compute_buchi_game`. `ReactivitySpecs`
is the textbook meaning of such a specification: every set from scratch, all guarantees
against the same Z, all assumptions against the same Y.

**Following strategies.** `GameStrategy` is `GameStrategy_construct` with its three ways of making the
INIT parts, the loop on `reachable` (`Grow`) and the
cutting of the TRANS parts (`Finish`), and the sections that are printed.
`Play` is external to the code: a play of the game in which the owner obeys the
printed module and the opponent does anything legal. `StrategyPlay`,
`ReactivityPlay`, `BuchiPlay` compose an algorithm, the construction and a play, so that an
error in any of them shows as a lost play.

**Cores.** `CoreMinimization` is `game_compute_core_switching_constraints` and
`game_minimize_players_constraints`, composed with `GenReactivity`: `Launch` is a call of
`Game_ComputeGenReactivity` with its mode and approximations, after which the
actions of `GenReactivity` run until it returns.

**LTL.** `CountingMonitor` is the monitor as the code writes it, INIT and TRANS constraints on a counter per state
of the automaton. `LtlGames` says what an LTL game means, by fixed points without automata, counters or bounds; a fixed point is taken of a function on sets,
so that the prover can reason about it. `WringAutomata` are the automata of its operators, as Wring gives them.
`BoundedSynthesis` is `Game_CheckLtlGameSpecSF07`: `Start` (or starting again after an undecided answer), one action
for each stage of an iteration, each with the error that may end it, `NextIteration` with the change of
sides. `WringTranslation` is the way from formula to automaton: `Gba` the automaton under construction, `WringNames` the
encoding and decoding of names, the rest the parser with one action per kind of line and the faults of the outside world.

**The session.** `CommandTable` is the table of commands as a data structure. `GameSession` has one action per command and, for checks,
one per property; the batch run of the executable is a script of the same commands (`BatchMain`).
`ProgramLine` is `sm_ParseLineOptions`, `Program` the executable. `CommandLine` is what a command does between its
first word and its last close: the option loop reads one option per step.
`StrategyPrinting` is the collection of variables for printing.

`GameFamilies` and the modules `MC...` are the instances TLC is given. `MCReachPlays` and `MCConditionPlays` let
some games only be decided and in others follow the strategy as well, so that
one run asks about verdict, strategy and play. `...Proofs` hold the theorems.

## 4. What is checked

The program stops when it returns or quits: the configurations say `CHECK_DEADLOCK FALSE`.

| Run | Question | Result |
|---|---|---|
| `reach_plays` | Reachability and avoidance: is the one-step decision refined (`Implements`), are the early exits sound (`LoopInvariant`), do the moves win (`StrategyMovesWin`), does following the printed strategy win every play (`OwnerNeverLoses`, `PlayStaysReachable`, `ReachOwnerWins`)? | holds |
| `condition_plays` | Reactivity in each mode of termination, and Buchi: do the loops keep their bounds and every winning state (`YWithinZ`, `BuchiYWithinZ`, `XOnlyShrinks`, `WinnersStayInZ`) and end with the right answer (`AnswerIsRight`, `Terminates`); is the follower never stuck, and does it meet the conditions again and again (`FollowerSafe`, `ServesGuarantees`, `MeetsConditions`)? | holds |
| `core_minimization` | Does a core keep the verdict, is it minimal, are reused winning states still approximations, does it end (`CoreKeepsVerdict`, `CoreIsMinimal`, `ApproximationHolds`, `CoreEnds`)? | holds without INVARs of the opponent |
| `bounded_synthesis` | Is what is said borne out by the game itself, do both players together decide, does a larger bound only help, does the monitor leave moves alone (`VerdictIsRight`, `CompleteForBoth`, `BoundsOnlyHelp`, `MonitorNeverBlocks`); is nothing left or declared twice after errors (`AllReleased`, `NamesAreFresh`); does it end (`Terminates`)? | holds |
| `wring_translation` | Is an accepted automaton the one of the formula, wherever the output is cut (`TranslationIsFaithful`); do errors come from outside only (`ErrorsHaveCauses`); are files and tables released (`NothingLeft`)? | holds for names that survive, see below |
| `game_session` | Whatever is typed or scripted: do tables and databases follow the mode, but for the database after an ill-typed property (`TablesFollowMode`), are the stages those of the model read last (`StagesAreReal`), is a status the truth and is it kept (`StatusIsVerdict`, `VerdictKept`, `AskedAreDecided`, `ChecksEnd`), do assertions hold (`AssertionsHold`), is the line of the executable understood (`LineIsUnderstood`)? | holds, but for a second attempt to flatten a model with processes or input variables |
| `command_line` | Are streams closed again (`OutputRestored`), has a refused command done nothing (`RefusedDoesNothing`), are the arguments the options make as the functions called assert them to be (`ArgumentsMeetAssertions`)? | holds but for exits the properties name |
| `strategy_init_covers` | Does the INIT section cover each initial state under `A`? | fails, finding 1 |
| `reactivity_rows` | Does the assertion on the rows of the strategy hold? | fails, finding 2 |
| `reactivity_true_guarantee` | Is the follower never stuck when a guarantee is TRUE? | fails, finding 3 |
| `core_invar` | Does the assertion on the recomputed verdict hold when INVARs of the opponent are removed? | fails, finding 4 |
| `printed_variables` | Are the variables for printing those of the game? | fails, finding 5 |

**Fairness.** Functions run on by themselves: weak fairness of the whole next-state relation of an
algorithm (of `Iteration` in the bounded synthesis, of `CheckNext`, `EndCheck`,
`BatchMain`, `BatchFails` in a session) says no more than that. Nobody has to type a command. In plays the
same fairness says that players move when they can; nothing is assumed
about which moves they choose. `wring_translation` and `command_line` have safety properties only.

**Bounds.** In the games both players have one Boolean variable (`P1 = P2 = {0, 1}`): four states. In
a round each player has up to two choices, so all patterns of who can stop whom in one round occur; loops
need several passes because the families contain slow games (one way to the
target, through all states) and latches. The families include empty initial
conditions, initial conditions no state satisfies together with the other
player's, illegal states, dead ends of each player, all options and both players.
`reach_plays` decides all pairs of a family of relations that look at one coordinate and
all choices of initial states. Specifications have up to two assumptions and two guarantees
(`ConditionBound = 2`), enough for jx to wrap around and for values of X to be ordered by
assumption; TRUE and FALSE conditions are among them. The reference `WinRegion` enumerates sets of sets of
states, which is what keeps the games at four states; the proofs have no such bound.
In `core_minimization` each player has up to two constraints of a kind. In the states of a Buchi game in `condition_plays` the
variables of the other algorithm are such that `YWithinZ`, `WinnersStayInZ` and `XOnlyShrinks` say nothing of it; `BuchiYWithinZ` does.

`bounded_synthesis`: formulas F, G, GF, FG and their negations, of either player; pairs `<<kmin, kmax>>` = `<<0, 3>>` (above
`Enough`, where the games considered are decided) and `<<1, 1>>` (given up); two checks, so that the second starts after
errors of the first. `wring_translation`: four formulas with negations, Boolean and temporal connectives, arrays, bits and escaped characters, one of them with a name that does not survive and one with two fairness constraints; two calls, every
file that may be kept, every place where the output may end. `game_session`: nine models (two games, one with determinization variables, an ill-typed
property, processes, input variables, a syntax error before and after the game, a RATSY file, one that is no game) and two commands of each kind
in the table; sessions are not bounded in length. Lines have up to three options, right, wrong and option-like arguments among them.
`command_line`: up to four options (`MaxOptions`), enough for any two to be repeated or to contradict each other after the ones they need, and four
situations of stages.

**Findings** (details and quotations in `PROJECT.json`):

1. Under `A` (and for an avoider under `E`) the printed INIT section leaves out winning
   initial states: `init_moves` is false there (`GameStrategy.c:629`), the documentation says
   that each initial state is covered.
2. If a game is realizable only because no initial state is legal, and no state is won,
   asking for the strategy fails `nusmv_assert(r != Nil)`.
3. jx ranges over the guarantees as written, the moves over those left after TRUE and
   FALSE have been dropped. A play may start with a value of jx that has no move.
4. "If assumptions are removed, winning states can only decrease" is false for an INVAR of
   the opponent. The old winning states are then no over-approximation, the recomputation
   gives a wrong verdict and the tool aborts on `realizable == realizable2`.
5. The names of layers for printing are pointers to one buffer that has been written again when they are
   looked up (`gameGeneral.c:236-248`): the variables of the players are missing from what is printed.

Findings 2 to 4 are why `FollowerSafe` is stated for specifications without dropped guarantees,
why the aborted end counts as an end, and why `core_minimization` leaves out INVARs of the opponent.

**Deviations the models contain and no run is devoted to:**

* *Names for Wring.* An identifier that contains `ZR` is read back as another name, although the comments in
  `gameCheckLTLSF07_gba_wring.c` (662-705, 1944-1957, 2192-2205) promise an encoding that can be undone. `NamesSurvive` takes
  such formulas out of the two properties about content. A literal without a value in a label is an undefined read: the model lets
  the call fail or abort. A call that fails leaves its files and the automaton built so far.
* *Streams.* `write_flat_model -h` closes a stream that is `NULL`; past its stages it ends undefined or with an error, because
  `game_split_and_print_spec` takes its environment from an encoder that is `NULL` (`gameWriteModel.c:353`). A check that is refused after `-m` or
  `-o`, or with `-h`, closes the program's own stream. `show_property` and `write_boolean_model` leave things open after an
  error. `check_ltlgame_sf07` compares its bounds after it has opened its files.
* *Whose turn.* `GAME_WHO_BOTH` is 1, so that `w == 1` (`gameCheckLTLSF07.c:453`) is true of it as well. `-w 1` and `-w 2`, offered by the usages
  (`gameCmd.c:3345`, 3808), are refused, as `Game_Who_from_string` returns before its loop. In the core extraction `-w p` passes as player 2, as `GAME_WHO_PROTAGONIST` is 2.
* *Line of the executable.* A file option at the end of the line reads `NULL`, which is the default; `-n ""` is 0; the second test for `-s` is
  never reached. The build modelled has a preprocessor and no SAT solver.
* *Batch run.* `-o` ends the run after the order is written, `-r` ends it with an error, and the database fetched before the game is read has been destroyed
  when it is used (`src/src/smgame/smgameMisc.c:99`): using it crashes (the model ends there in a phase of its own), verifies nothing or, when its memory is that of the
  new database, verifies the properties of the game that was read, type by type.
* *Ill-typed property.* The error empties the database with the function of its base class (`gameFlatten.c:227`), not with the one of the game's database
  (`PropDbGame.c:152-158`), which sets the methods of `prop_db_game_init` again (530-538): the game mode stays on and the database is NuSMV's. `TablesFollowMode` states
  this as its one exception. The next SMV game gets a new database; a RATSY game read then keeps mode and database. Filling that one goes through NuSMV's
  method and type checker, which are no part of this repository: the model ends undefined there, unless the game has no properties.
* *Forbidden declarations.* Processes and input variables are met while a game is flattened. The layers made until then stay, so that a second attempt aborts on the name of a
  layer, the exception named in `AssertionsHold`. Input variables are reported with a variable that has no value yet (`gameFlatten.c:353`): an error or undefined.
* *Checks of LTL games.* The assertions on the status and the initial conditions (`gameCheckLTLSF07.c:413`, 424) depend on the session, not on options: `GameSession`
  has them as guards whose failure aborts, and they are no part of `ArgumentsMeetAssertions`.

## 5. What is proved

The assumptions are those of the modules: the types of the constants (games of `GameType` over arbitrary nonempty sets `P1`, `P2`
(`ValuationsAssumption`: a variable has at least one value), specifications of their types, disjoint sets of command names, any set of
models with any number of properties, bounds of natural numbers with a greatest `kmax`, sets of options). Nothing is finite unless said.
Five groups of theorems have a hypothesis of their own, named below.

* **`GameMeaningProofs`**: `ImageIsForce`, the image operator is "can force in one round";
  `ForceDuality`, one player forces S exactly when the other cannot force the complement (this is
  where the half-moves and both kinds of dead ends matter); `SatisfyIsStart`, the table of
  negations is right for all players and options; `StartDuality`, exchanging the
  player and the options A and E.
* **`ReachAvoidProofs`**, the algorithm: `Determinacy`, the avoider's states are exactly the legal states its
  opponent does not win (a least fixed point is the complement of the greatest one, by duality); `TypeCorrect`; `LoopCorrect`, the
  inductive invariant. `ReachSound` alone is
  inductive, but does not decide a lost game: `LoopInvariant` adds that the flags are up to date with
  the reached set and that a fixed point is closed, unless the loop was skipped. `VerdictCorrect` follows: a
  closed sound set is the region, by `Determinacy` it also answers the avoidance
  game, and `StartDuality` translates the initial check. `Refines` is the safety part of the
  refinement: every step is the abstract decision or a stutter.
* **`ReachAvoidProofs`**, what is played: `MovesWin` needs the shape of `reachStateList`: newest first, growing, each layer the image of
  the one before (`LayersInv`), the last one the target. `FollowerWins` and `FollowerStays` are about algorithm, construction and play composed. The
  invariant `PlaysInv` says which states a play may visit (all layers for a reacher, the closed set for an avoider) and that every move of the
  strategy leads there again; that is all the play needs, so the rest is proved once, in **`PlayProofs`**: for any moves that are good for a set, `ConstructSafe` carries the
  loop on `reachable`, the cutting of the TRANS parts and the parts printed as deadlock of the opponent, `PlaySafe` the
  play itself. There a move that is cut is one to a state the play cannot be in, which is why
  the owner keeps a printed move or the opponent has none.
* **`GenReactivityProofs`**, the algorithm: two layers. The comment "Y cannot be > Z" is not inductive; the invariant `IInv` adds that Z
  stays closed under the image (nothing outside Z can be forced into it), that the saved image and the start sets are within Z,
  and that X contains its next value. `YNeverLeavesZ` and `XShrinks` follow. The second layer, `WInv`, compares the loops with the textbook
  nested fixed point: `NormalizeKeeps` shows, along the list, that dropping TRUE and FALSE conditions changes no meaning;
  `WinningIsWon` that the reference is the greatest set W such that every guarantee can be served from W staying in W.
  `ZKeepsWinners` says that no such set is ever cut from Z, `ServedBefore` that the guarantees
  already passed are served inside the present Z, `YHolds` and `XHolds` that Y is served and that X is cut no further
  than what Y can use, `FlagsHold` and `Decided` that the flags tell which loops really are at a fixed point. From this
  `WinnersStay` (an early "no" is final) and `AnswersCorrect`: every verdict is right for every game, specification,
  player and option, whether or not the loops stop early, and the states returned are the winning ones if no initial condition is empty
  and the game is realizable or the loops went on to the fixed point. Hypothesis: `"CONJUNCT" \notin Terminations`; in that mode Z may grow.
  The invariant is that of a run from any approximations that are sound (`SoundOver`, `SoundUnder`), of which a run from all and no states is a case.
* **`GenReactivityProofs`**, what is played: the verdict says nothing of the lists of values of Y and X the loops leave behind, from which the rows are made.
  `RowsInv` says of every pass on Y that is recorded (`IsPass`) that it adds only what is in its sets for the assumptions, and that a state in one of these
  can be kept in it against its assumption, serves the guarantee from Z, goes down in Y, or is in a set before it. The passes were made
  with the Z of the beginning, so what they reach is related to the Z of the end: the last value but one of Y contains it (`PassesBefore`), even when a list was
  cut by its repeated last value, recorded twice, or emptied for a new pass on Z. `CellBelow` finds, by the least position of a state in the lists,
  a row for it; where none is needed player 2 is stuck. `RowsForce` and `ForcedIsGood` of `PlayProofs` then give `ReactivityFollowerNeverStuck` and
  `ReactivityFollowerStaysWinning`, for plays in which every guarantee counts, as `FollowerSafe` says; finding 2 is what happens otherwise. `AnswersStayRight`
  is `AnswersCorrect` for the composed specification. Hypothesis: as before, no mode CONJUNCT.
* **`GenReactivityProofs`**, the cores: sound means more than "contains the winning states". An over-approximation must be closed under
  the image and under keeping out of an assumption, an under-approximation must be a winning set the player can stay in; otherwise
  the loops on X and Y are not monotone. `HelpsOver` and `HelpsUnder` show that removing a constraint of the opponent makes the old under-approximation sound for
  the new game, removing one of the player itself the old over-approximation. `CoreInv` is kept by every action of the
  minimisation and of the algorithm it calls: `Explained` (with what is removed so far the verdict is the first one) and `Needed`
  (what was visited and kept would change the verdict of a game with at least as many constraints as the one left) of the constraints visited,
  `Remembered` of the states kept for later. `CoreIsFaithful`, `ReuseIsSound`, `CoreCannotShrink`. Hypothesis: no INVAR of the
  opponent is removed (`InvarsKept`); without it the assertion on the recomputed verdict fails, finding 4.
* **`BuchiGameProofs`**: the same for the Buchi algorithm, which forgets less and checks elsewhere. `ZHolds` keeps every winning
  set in Z, `PassHolds` and `MetBefore` say that each value of Y is met within a Z that is only replaced
  after the pass. `BuchiYStays`, `BuchiVerdictCorrect` (the states only for realizable games).
  Then the strategy and its plays: `LayersInv` says that the saved layers are the values of Y of the last pass, each inside the one before and forced from it or
  from the condition and Z, `StrategyInv` that the rows handed over are rho 1 and rho 2 of these layers; neither is inductive without the other, since
  the rows are computed after the last pass from layers saved during it. `RowsForce`: from every winning state and for every value of jx there is a row that
  forces the play into Z. With `ForcedIsGood` of `PlayProofs` (moves the owner can force are good moves) `PlaysInv` is kept, and
  `BuchiFollowerNeverStuck` and `BuchiFollowerStaysWinning` follow: the follower never loses a finite play and never leaves the winning states. Hypothesis: no assumption but TRUE (`OnlyTrue`), as a Buchi specification has none.
* **`SessionProofs`**: `SessionInv` is `FromModels` (what is parsed is no model or one of `Models`) and `ModeInv`: a session is `Consistent` (in NuSMV's mode or in the game mode, with
  everything put aside in the one place for it, and with the database `DbOfTheMode`: in the game mode the game's or the empty one an ill-typed property leaves) or `Over`. Each primitive of the command table is shown to lead from
  one to the other without its assertions failing; then each command keeps `Consistent`; `FromModels` is what makes an ill-typed file the only cause of the exception. `SessionTables`, `SwitchesSucceed`, and `ProgramTables` for
  the executable with any command line. `ModelInv` adds `FlagsInv` (which stages imply which), `MachinesInv` (a machine in the environment is of the model that
  is read or there is none) and `PropsInv` (a property only refers to such a machine). None of the three is inductive without the others: a stale
  machine makes a later check say the wrong thing. `SessionStages`, `SessionVerdicts`, `VerdictsStay`, `ProgramVerdicts`. `CheckInv` adds what a model that is read leaves
  (`ReadInv`, `DatabaseInv`) and what a running check still has to do (`TaskInv`: who was asked for is decided or still on the list, and the list belongs to this
  database). `SessionChecks` and `ProgramChecks` follow: `AssertionsHold` and `AskedAreDecided`.
* **`BoundedSynthesisProofs`**: `MonitorCounts`, the TRANS constraint of the monitor has exactly one solution, the greatest
  count of fair states on a run: a finite nonempty set of counts has a greatest element, and the constraint
  says "some predecessor gives it, none gives more". `MonitorStarts` is the same for INIT. Without this the monitor would take
  moves from player 2 or give it a choice. For the loop, `SynthesisInv` relates the number of the iteration to the layers that may be left from
  iterations that failed, of this check and of the one before: `LoopReleases` (an iteration never aborts, and only failed ones leave
  layers), `LoopNames` (no layer is declared twice), `LoopMonitor` (`MonitorNeverBlocks` in every iteration).
* **`BoundedSynthesisProofs`**, the answers. Four steps, all of them for finite games. First the avoidance game on the product of game and
  monitor is restated: a player avoids the bound exactly when there is a set of states with counters, none of them at the bound, that it can stay in
  and that the game begins in (`IsSafe`, `AvoidsIs`). `LoopBounds` maps such a set for one bound to one for a greater bound, and between 0 and 1.
  Second, `AvoidsWins`: along a play that stays in a safe set no run of the automaton is fair again and again, since every visit to a fair state counts; so the
  play does not satisfy what must be prevented, and were a state of the set outside the fixed point of the complementary formula, its complement would
  hold a play that does. `LoopVerdicts` follows by an invariant of the loop. Third, the way back, `WinsAvoid`: a least fixed point has ranks and
  with them a tactic (`TacticExists`), from a winning state no run along the tactic is fair again and again, and so the fair states still ahead of a state of
  tactic and automaton are finitely many and fewer after each of them (`WorthIs`). The states whose counters leave room for what is ahead are a safe set.
  Together, `LargeBoundIsExact`. Fourth, `LtlGamesAreDetermined`: what is left outside a fixed point is the dual one, and two winning tactics
  played against each other would give a play that satisfies neither a formula nor its negation. If both players have lost
  their avoidance games for a bound that is large enough, both have lost the game itself. The invariant `LostSoFar` says which games have been lost where, before and after the
  change of sides, and `LoopIsComplete` follows.
  Hypotheses: finitely many valuations and states of automata (`IsFinite`); that the automaton of an operator misses none of its words
  (`Recognizes`) or accepts only its words (`AcceptsOnly`), which is what Wring promises; for completeness, that `Enough` exceeds the states
  of the game times those of an automaton. `LoopWithWring` has only the first and the last: it is about the automata of `WringAutomata`, those of the run, and
  `OwnLanguage` shows that these accept exactly their words. The run finds 3 to be enough for its games; the theorem's bound (more than 12 there) is sufficient, not minimal.
* **`CommandLineProofs`**: `CommandInv` says for each place in a command what the options read so far have left open and which
  arguments they have set. `StreamsRestored`, `RefusalsAreClean`, `ArgumentsAreRight`, with the exits the properties name.

The theorems hold for every instance; the runs show the same properties on the small ones, and the definitions
the runs and the theorems use are the same. For this the models write some collections as sets where the code has a list
whose order does not matter, and `Fill` (`GameSpecs`) and the list of constraints (`CoreMinimization`) by rank instead of by recursion.

**Only model-checked**:

* Liveness (`Terminates`, `CoreEnds`, the liveness half of `Implements`, `ReachOwnerWins`, `ServesGuarantees`, `MeetsConditions`, `ChecksEnd`), which
  is out of the prover's reach. Termination also needs finite sets, which most theorems do not assume.
* `BuchiYWithinZ` as the run `condition_plays` states it, for the states of both algorithms together; `BuchiYStays` is the theorem about the algorithm.
  The verdict in mode CONJUNCT.
* `CompleteForBoth` for bounds as small as those of the run; the theorem needs greater ones.
* `LineIsUnderstood`: a line is read word by word, and what reading any line does would need induction over it; the settings are merged by
  operators of the module `TLC` the prover does not know.
* `TranslationIsFaithful`, `ErrorsHaveCauses`, `NothingLeft`: names are written and read back by recursive operators.

## 6. What is not modelled

* The n-player (ATL) twins: the second version of `Game_UseStrongReachabilityAlgorithm` (`gameCheckReachAvoidSpec.c:784-1181`),
  `AtlGameStrategy_construct`, the coalition images of `GameBddFsm.c`. The function has undefined behaviour from its start: the array of players is sized by the
  number of blanks in a string (817-831), a pointer is written through before it has a value (889-892), of the players only one element is
  exchanged. No state machine is faithful to it.
* The core algorithm with activation variables (`gameUnrealCore.c:1003-2460`). It takes its environment from a structure that is no
  environment object (1125, 1240, 1289, 1870), copies through an uninitialised array of names (1950) and asserts of its list of
  expressions what the code before has not made so (1973-1977).
* The explicit core algorithm fetches its environment the same way (847, 2519, 2930, 3080). There the environment is only
  used for lookups, and the model takes these as right: it describes the algorithm behind them. The check of
  the second player calls `game_is_opponent_constraint_minimal` through a pointer to a type without
  its first parameter (140-147, 2866, 3221): the model ends in the stage `crashed` there, and
  `GAME_WHO_BOTH` ends in a report only if no constraint of the second player can be removed.
* Variables that belong to no player, for which mode CONJUNCT keeps Z up to the values
  they have (`gameCheckGenReactivityBuchiSpec.c:779`): without them `player_satisfies_from` is a constant.
* Requirements and RATSY's XML: `gameXmlReader.c` takes its environment from the result of the parser (838, 948, 1305) and `gameReqToGame.c` from an
  expression (983), and indexes past single pointers (266-292): undefined at the first tag or requirement. `read_rat_file` is a command of
  `GameSession` that yields a model or an error.
* Building and type-checking expressions, accessors of `GameHierarchy.c` and `GamePlayer.c`, the Sexp and Boolean machines: one
  traversal each without a state of its own. The building commands of NuSMV's own mode belong to NuSMV.
* Formatting of anything; the banner; what scripts contain. Whether the functions of NuSMV that commands call take
  a `FILE *` or a stream object cannot be told from this repository.

## 7. What remains

Modelled in this order: `GameFsm`, `ReachAvoid` with its refinement; `GameStrategy` with plays; `GenReactivity`
and `BuchiGame`; `CoreMinimization`; `GameSession` with `CommandTable` and `Program`; the bounded synthesis; the Wring interface; `CommandLine`; `StrategyPrinting`.

Worth adding, by importance:

1. Games with variables outside the players, for mode CONJUNCT.
2. The ATL algorithms and activation variables, once their code is defined: for two players with
   one coalition the former should refine the two-player algorithm.
