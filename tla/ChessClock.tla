----------------------------- MODULE ChessClock -----------------------------
(***************************************************************************)
(* What package game promises its callers: a chess clock on the wall.      *)
(*                                                                         *)
(* Here time acts by itself.  Every unit of time takes one off the running *)
(* clock, or off the first-move window while nothing runs, and the Game is *)
(* over in the very instant one of them reaches zero.  No command has to   *)
(* come for that, and none can be late.  Module Game implements this with  *)
(* a last-move time and a check at the start of each command.              *)
(***************************************************************************)
EXTENDS ChessTypes

CONSTANTS TimeControl, FirstMoveWindow

VARIABLES plies,    \* moves played
          toMove,   \* the side to move
          left,     \* what each clock shows
          wait,     \* time left for a first move; 0 once it no longer counts
          outcome   \* the Result, or NoResult

vars == <<plies, toMove, left, wait, outcome>>

Live == outcome = NoResult

Init ==
    /\ plies = 0
    /\ toMove = White
    /\ left = [s \in Sides |-> TimeControl]
    /\ wait = FirstMoveWindow
    /\ outcome = NoResult

(* One unit of time before both sides have moved.                          *)
Wait ==
    /\ Live /\ plies < 2
    /\ wait' = wait - 1
    /\ outcome' = IF wait = 1 THEN [winner |-> NoColor, method |-> "aborted"] ELSE outcome
    /\ UNCHANGED <<plies, toMove, left>>

(* One unit of time once the clocks run.                                   *)
Run ==
    /\ Live /\ plies >= 2
    /\ left' = [left EXCEPT ![toMove] = @ - 1]
    /\ outcome' = IF left[toMove] = 1
                  THEN [winner |-> Opponent(toMove), method |-> "timeout"]
                  ELSE outcome
    /\ UNCHANGED <<plies, toMove, wait>>

(* The side to move moves; the position it leaves may end the Game.        *)
Play ==
    /\ Live
    /\ plies' = plies + 1
    /\ toMove' = Opponent(toMove)
    /\ outcome' \in {NoResult, [winner |-> toMove, method |-> "checkmate"]}
                      \cup [winner : {NoColor}, method : Draws]
    /\ wait' = IF plies' < 2 /\ outcome' = NoResult THEN FirstMoveWindow ELSE 0
    /\ UNCHANGED left

CallOff ==
    /\ Live /\ plies < 2
    /\ outcome' = [winner |-> NoColor, method |-> "aborted"]
    /\ wait' = 0
    /\ UNCHANGED <<plies, toMove, left>>

GiveUp(side, method) ==
    /\ Live
    /\ outcome' = [winner |-> Opponent(side), method |-> method]
    /\ wait' = 0
    /\ UNCHANGED <<plies, toMove, left>>

Next ==
    \/ Wait
    \/ Run
    \/ Play
    \/ CallOff
    \/ \E side \in Sides, method \in {"resign", "disconnect"} : GiveUp(side, method)

Spec == Init /\ [][Next]_vars
=============================================================================
