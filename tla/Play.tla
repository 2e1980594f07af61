-------------------------------- MODULE Play --------------------------------
(***************************************************************************)
(* A play of the game in which one player follows the strategy module that *)
(* GameStrategy_print_module prints and the other one does anything legal. *)
(* It is the semantics of the game: what "the strategy has been found"     *)
(* promises to the user, who puts the module in parallel with the player.  *)
(*                                                                         *)
(* A strategy may have a variable jx of its own.  Its TRANS section ties   *)
(* jx and next(jx) to the move, its INIT section says nothing about jx.    *)
(***************************************************************************)
EXTENDS GameStrategy

VARIABLES
    target,    \* the states that end the play ...
    finisher,  \* ... and the player who wins it then
    modes,     \* the values of jx
    links,     \* links[<<k, l>>]: the moves allowed with jx = k, next(jx) = l
    turn,      \* "start1", "start2", "one", "two" or "over"
    pos,       \* the current state of the play, NoState before it starts
    half,      \* << >>, or <<q1>> for the half-move player 2 has to complete
    jx,        \* the variable of the strategy
    winner     \* 0 while nobody has won

playVars == <<turn, pos, half, jx, winner>>

NoState == << >>

NoHalf == << >>

owner == args.player

(* What the sections of the module leave to the owner; everybody else is   *)
(* free.                                                                   *)
MayStart1(p1) ==
    owner = 1 => \E p2 \in P2 : <<p1, p2>> \in InitSection

MayStart2(p1, p2) == owner = 2 => <<p1, p2>> \in InitSection

MayMove1(q1, k) ==
    IF owner # 1 THEN k = jx
    ELSE \/ <<pos, q1>> \in built.goal \cup built.opponent_deadlock
         \/ <<pos, q1>> \in built.moves \cap links[<<jx, k>>]

MayMove2(q2, k) ==
    IF owner # 2 THEN k = jx
    ELSE <<pos, <<half[1], q2>>>> \in TransSection \cap links[<<jx, k>>]

(* A completed state ends the play if it is in the target.                 *)
Arrive(s) ==
    /\ pos' = s
    /\ half' = NoHalf
    /\ IF s \in target
       THEN turn' = "over" /\ winner' = finisher
       ELSE turn' = "one" /\ winner' = 0

(* The player to move has nothing to do and loses.                         *)
Stuck(plr) ==
    /\ turn' = "over"
    /\ winner' = Opponent(plr)
    /\ UNCHANGED <<pos, half, jx>>

-----------------------------------------------------------------------------

(* Under "A" and "E" one of the players chooses the whole initial state.   *)
StartWhole ==
    /\ turn = "start1" /\ Role # "N"
    /\ LET chooser == IF Role = "E" THEN owner ELSE Opponent(owner)
           choices == IF Role = "E" THEN Inits \cap InitSection ELSE Inits
       IN  \/ \E s \in choices, k \in modes : Arrive(s) /\ jx' = k
           \/ choices = {} /\ Stuck(chooser)

Start1 ==
    /\ turn = "start1" /\ Role = "N"
    /\ LET choices == {p1 \in Init1(game) : MayStart1(p1)}
       IN  \/ /\ \E p1 \in choices : half' = <<p1>>
              /\ turn' = "start2"
              /\ UNCHANGED <<pos, jx, winner>>
           \/ choices = {} /\ Stuck(1)

Start2 ==
    /\ turn = "start2"
    /\ LET choices == {p2 \in Completions(half[1]) : MayStart2(half[1], p2)}
       IN  \/ \E p2 \in choices, k \in modes : Arrive(<<half[1], p2>>) /\ jx' = k
           \/ choices = {} /\ Stuck(2)

Play1 ==
    /\ turn = "one"
    /\ LET choices == {c \in Moves1(game, pos) \X modes : MayMove1(c[1], c[2])}
       IN  \/ /\ \E c \in choices : half' = <<c[1]>> /\ jx' = c[2]
              /\ turn' = "two"
              /\ UNCHANGED <<pos, winner>>
           \/ choices = {} /\ Stuck(1)

Play2 ==
    /\ turn = "two"
    /\ LET choices == {c \in Moves2(game, pos, half[1]) \X modes : MayMove2(c[1], c[2])}
       IN  \/ \E c \in choices : Arrive(<<half[1], c[1]>>) /\ jx' = c[2]
           \/ choices = {} /\ Stuck(2)

PlayInit == /\ turn = "start1"
            /\ pos = NoState
            /\ half = NoHalf
            /\ jx = 0
            /\ winner = 0

PlayNext == StartWhole \/ Start1 \/ Start2 \/ Play1 \/ Play2

=============================================================================
