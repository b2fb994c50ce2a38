----------------------------- MODULE ChessTypes -----------------------------
(***************************************************************************)
(* The vocabulary of package game that every other module shares: the      *)
(* sides, the ways a Game ends and the Result of a finished Game.          *)
(***************************************************************************)
EXTENDS Integers

White == "white"
Black == "black"
NoColor == ""
Sides == {White, Black}

Opponent(c) == IF c = White THEN Black ELSE White

(* The five endings of endOnPosition (ending the code reads off the board) *)
(* and the four that the players or the clocks cause.                      *)
Draws == {"stalemate", "insufficient_material", "threefold_repetition", "fifty_moves"}
PositionEndings == Draws \cup {"checkmate"}
Methods == PositionEndings \cup {"resign", "timeout", "disconnect", "aborted"}

NoResult == [winner |-> NoColor, method |-> "none"]
Results == [winner : Sides \cup {NoColor}, method : Methods]

(* No game of chess reaches one of these positions in fewer plies: fool's  *)
(* mate, two knights going out and back twice, Loyd's stalemate, the       *)
(* shortest known capture of everything, fifty moves of each side.         *)
EarliestPly ==
    [m \in PositionEndings |->
        CASE m = "checkmate" -> 4
          [] m = "threefold_repetition" -> 8
          [] m = "stalemate" -> 19
          [] m = "insufficient_material" -> 29
          [] m = "fifty_moves" -> 100]

Ongoing == "ongoing"

(* What the position after the n-th ply may be, as endOnPosition sees it.  *)
PositionsAfter(n) == {Ongoing} \cup {m \in PositionEndings : EarliestPly[m] <= n}
=============================================================================
