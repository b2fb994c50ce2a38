------------------------------ MODULE GameRules ------------------------------
(***************************************************************************)
(* Package game: one chess Game, its turn, its two clocks and its Result.  *)
(*                                                                         *)
(* The code does no I/O and starts no timer: every command carries the     *)
(* time at which its caller runs it, and first *settles* the Game, ending  *)
(* it if time had run out before the command.  Between two commands the    *)
(* Game may therefore be over on the clock and still be recorded as live.  *)
(*                                                                         *)
(* Each command is an operator from a Game (a record) to the next Game.    *)
(* Module Game applies them in any order at any time; module Room applies  *)
(* them inside the steps of its loop.  The board is abstracted to the      *)
(* number of plies, the side to move, and a choice of what the chess       *)
(* library answers: is the move legal, is the position finished.           *)
(***************************************************************************)
EXTENDS ChessTypes

CONSTANTS TimeControl,      \* what each clock starts with
          FirstMoveWindow   \* firstMoveWindow, 30 s in the code

ASSUME TimeAssumption ==
    /\ TimeControl \in Nat \ {0}
    /\ FirstMoveWindow \in Nat \ {0}

NewGame(timeControl, t) ==
    [plies      |-> 0,
     turn       |-> White,
     timeLeft   |-> [s \in Sides |-> timeControl],
     lastMoveAt |-> t,
     result     |-> NoResult]

Over(g) == g.result # NoResult
ClocksRunning(g) == g.plies >= 2
Elapsed(g, t) == t - g.lastMoveAt

End(g, winner, method) ==
    [g EXCEPT !.result = [winner |-> winner, method |-> method]]

FirstMoveOverdue(g, t) == ~ClocksRunning(g) /\ Elapsed(g, t) >= FirstMoveWindow

(* Mutations of FlagFallen: flags are never checked; a clock may stand at  *)
(* exactly zero (< for <=).                                                *)
FlagIgnored(g, t) == FALSE
FlagLate(g, t) == ClocksRunning(g) /\ g.timeLeft[g.turn] - Elapsed(g, t) < 0

FlagFallen(g, t) == ClocksRunning(g) /\ g.timeLeft[g.turn] - Elapsed(g, t) <= 0

Settle(g, t) ==
    CASE ~Over(g) /\ FirstMoveOverdue(g, t) -> End(g, NoColor, "aborted")
      [] ~Over(g) /\ FlagFallen(g, t) ->
             End([g EXCEPT !.timeLeft[g.turn] = 0], Opponent(g.turn), "timeout")
      [] OTHER -> g

(* Mutation of Charge: the clocks run from the first move on.              *)
ChargeFromStart(g, side, t) == [g EXCEPT !.timeLeft[side] = @ - Elapsed(g, t)]

Charge(g, side, t) ==
    IF ClocksRunning(g) THEN [g EXCEPT !.timeLeft[side] = @ - Elapsed(g, t)] ELSE g

EndOnPosition(g, mover, position) ==
    CASE position = "checkmate" -> End(g, mover, position)
      [] position \in Draws -> End(g, NoColor, position)
      [] OTHER -> g

(* Why Move refuses, for a Game already settled: the tests of the code in  *)
(* their order.                                                            *)
MoveError(g, color, legal) ==
    CASE Over(g) -> "game_over"
      [] ~Over(g) /\ color # g.turn -> "not_your_turn"
      [] ~Over(g) /\ color = g.turn /\ ~legal -> "illegal_move"
      [] OTHER -> "ok"

(* Mutation of Played: the last-move time is not reset.                    *)
PlayedSameTime(g, color, t) ==
    [Charge(g, color, t) EXCEPT !.plies = @ + 1, !.turn = Opponent(@)]

Played(g, color, t) ==
    [Charge(g, color, t) EXCEPT !.plies = @ + 1, !.turn = Opponent(@), !.lastMoveAt = t]

AfterMove(g, color, legal, position, t) ==
    LET settled == Settle(g, t)
    IN  IF MoveError(settled, color, legal) = "ok"
        THEN EndOnPosition(Played(settled, color, t), color, position)
        ELSE settled

(* Mutation of AbortError: the test of clocksRunning is dropped.           *)
AbortErrorAlways(g) == IF Over(g) THEN "game_over" ELSE "ok"

AbortError(g) ==
    CASE Over(g) -> "game_over"
      [] ~Over(g) /\ ClocksRunning(g) -> "cannot_abort"
      [] OTHER -> "ok"

AfterAbort(g, t) ==
    LET settled == Settle(g, t)
    IN  IF AbortError(settled) = "ok" THEN End(settled, NoColor, "aborted") ELSE settled

(* Mutations of AfterForfeit: the side that gives up is charged instead of *)
(* the side to move; the test for a finished Game is dropped.              *)
ForfeitChargesSender(g, color, method, t) ==
    LET settled == Settle(g, t)
    IN  IF Over(settled) THEN settled
        ELSE End(Charge(settled, color, t), Opponent(color), method)

ForfeitUnchecked(g, color, method, t) ==
    End(Settle(g, t), Opponent(color), method)

(* Resign and Disconnect.                                                  *)
AfterForfeit(g, color, method, t) ==
    LET settled == Settle(g, t)
    IN  IF Over(settled) THEN settled
        ELSE End(Charge(settled, settled.turn, t), Opponent(color), method)

(* What clocks() reports for a settled Game: the running clock is shown    *)
(* with the time since the last move already taken off.                    *)
ShownClocks(g, t) ==
    [s \in Sides |->
        IF ClocksRunning(g) /\ ~Over(g) /\ s = g.turn
        THEN g.timeLeft[s] - Elapsed(g, t)
        ELSE g.timeLeft[s]]

(* What is left of the first-move window; 0 once it no longer counts.      *)
WaitLeft(g, t) ==
    IF Over(g) \/ ClocksRunning(g) THEN 0 ELSE FirstMoveWindow - Elapsed(g, t)
=============================================================================
