------------------------------ MODULE RoomLife ------------------------------
(***************************************************************************)
(* What a Room promises the rest of the server, which does not see its     *)
(* loop, its sockets or its Game: it is found in the registry from its     *)
(* creation on; at some moment its Game ends, once; then each of the two   *)
(* players is dealt with once (the reset may fail); and only then does the *)
(* Room leave the registry.  Module Room implements this; module           *)
(* Matchmaking is built on it.                                             *)
(***************************************************************************)
EXTENDS ChessTypes

VARIABLES open,     \* the Room is in the registry
          outcome,  \* the Result of its Game, or NoResult
          freed     \* per side: is the player's reset still to do, done or failed

vars == <<open, outcome, freed>>

Init ==
    /\ open = TRUE
    /\ outcome = NoResult
    /\ freed = [s \in Sides |-> "todo"]

Finish ==
    /\ outcome = NoResult
    /\ outcome' \in Results
    /\ UNCHANGED <<open, freed>>

Free(side) ==
    /\ outcome # NoResult /\ freed[side] = "todo"
    /\ \E to \in {"done", "failed"} : freed' = [freed EXCEPT ![side] = to]
    /\ UNCHANGED <<open, outcome>>

Close ==
    /\ open /\ \A s \in Sides : freed[s] # "todo"
    /\ open' = FALSE
    /\ UNCHANGED <<outcome, freed>>

Next == Finish \/ Close \/ \E side \in Sides : Free(side)

Spec == Init /\ [][Next]_vars
=============================================================================
