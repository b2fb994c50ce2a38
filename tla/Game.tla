-------------------------------- MODULE Game --------------------------------
(***************************************************************************)
(* The Game as a state machine: its owner may call any command for either  *)
(* side at any time.                                                       *)
(***************************************************************************)
EXTENDS GameRules

CONSTANTS MaxPlies,  \* bound: no move is tried after this many plies
          Horizon    \* bound: the clock of the world stops here

ASSUME BoundAssumption == MaxPlies \in Nat /\ Horizon \in Nat

VARIABLES game,  \* the Game
          now    \* the time a caller would pass in

gameVars == <<game, now>>

Init ==
    /\ now = 0
    /\ game = NewGame(TimeControl, now)

Tick ==
    /\ now < Horizon
    /\ now' = now + 1
    /\ UNCHANGED game

Move(color, legal, position) ==
    /\ game.plies < MaxPlies
    /\ position \in PositionsAfter(game.plies + 1)
    /\ game' = AfterMove(game, color, legal, position, now)
    /\ UNCHANGED now

Abort ==
    /\ game' = AfterAbort(game, now)
    /\ UNCHANGED now

Resign(color) ==
    /\ game' = AfterForfeit(game, color, "resign", now)
    /\ UNCHANGED now

Disconnect(color) ==
    /\ game' = AfterForfeit(game, color, "disconnect", now)
    /\ UNCHANGED now

(* Result and State: both settle and then only read.                       *)
Observe ==
    /\ game' = Settle(game, now)
    /\ UNCHANGED now

Next ==
    \/ Tick
    \/ Abort
    \/ Observe
    \/ \E color \in Sides :
          \/ Resign(color)
          \/ Disconnect(color)
          \/ \E legal \in BOOLEAN, position \in PositionEndings \cup {Ongoing} :
                Move(color, legal, position)

Spec == Init /\ [][Next]_gameVars
-----------------------------------------------------------------------------
(* Every reachable Game has its type, no clock ever shows more than the    *)
(* time control or less than zero, and no move lies in the future.         *)
TypeOK ==
    /\ now \in Nat
    /\ game \in [plies : Nat, turn : Sides, timeLeft : [Sides -> 0..TimeControl],
                 lastMoveAt : 0..now, result : Results \cup {NoResult}]

(* A clock stands at zero exactly when the Game ended on time, and then it *)
(* is the clock of the side to move, and its opponent wins: no other       *)
(* command that runs after the flag fell (a mating move, a resignation, a  *)
(* disconnect) can decide the Game, because each settles before it acts.   *)
FlagMeansTimeout ==
    /\ (\E s \in Sides : game.timeLeft[s] = 0) <=> game.result.method = "timeout"
    /\ game.result.method = "timeout" =>
          /\ ClocksRunning(game)
          /\ game.timeLeft[game.turn] = 0
          /\ game.result.winner = Opponent(game.turn)

(* How a Game ended agrees with where it stood: an abort has no winner and *)
(* happens before both sides moved; a mate is won by the side that is no   *)
(* longer to move; exactly the draws and the aborts have no winner.        *)
ResultFitsGame ==
    /\ game.result.method = "aborted" => game.plies < 2
    /\ game.result.method = "checkmate" => game.result.winner = Opponent(game.turn)
    /\ Over(game) => (game.result.winner = NoColor
                        <=> game.result.method \in Draws \cup {"aborted"})

(* No time is invented: what the two clocks have lost together never       *)
(* exceeds the time that has passed (for a live Game, until its last       *)
(* move), so no interval is charged twice or to both sides.                *)
Spent == 2 * TimeControl - game.timeLeft[White] - game.timeLeft[Black]

NoTimeInvented == Spent <= IF Over(game) THEN now ELSE game.lastMoveAt

(* A finished Game never changes again, whatever command reaches it.       *)
ResultIsFinal == [][Over(game) => game' = game]_gameVars

(* A command takes time only from the side that was to move, whoever sent  *)
(* the command: a resignation by the waiting side costs the waiting side   *)
(* nothing.                                                                *)
OnlyTurnIsCharged ==
    [][\A s \in Sides :
          /\ game'.timeLeft[s] <= game.timeLeft[s]
          /\ game'.timeLeft[s] # game.timeLeft[s] => s = game.turn]_gameVars

(* The lazily settled Game is indistinguishable from a chess clock that    *)
(* runs by itself and stops the Game the instant time runs out.            *)
SettledNow == Settle(game, now)

Promise == INSTANCE ChessClock WITH
    plies   <- SettledNow.plies,
    toMove  <- SettledNow.turn,
    left    <- ShownClocks(SettledNow, now),
    wait    <- WaitLeft(SettledNow, now),
    outcome <- SettledNow.result

ClockPromise == Promise!Spec
=============================================================================
