------------------------------- MODULE MCGame -------------------------------
(***************************************************************************)
(* Game on a small instance: a unit of time is 10 s, so the first-move     *)
(* window is 3 units; each clock has 4, enough for a clock to be charged   *)
(* in several pieces.  Nine plies reach a mate and a repetition.           *)
(***************************************************************************)
EXTENDS Game
=============================================================================
