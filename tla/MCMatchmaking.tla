--------------------------- MODULE MCMatchmaking ---------------------------
(***************************************************************************)
(* Matchmaking on small instances.  A request is a record of who asks for  *)
(* what; ann may have two searches under way (two tabs, or a search begun  *)
(* after a cancel while the first still waits).                            *)
(***************************************************************************)
EXTENDS Matchmaking

Request(n, player, mode) == [nr |-> n, by |-> player, mode |-> mode]

AnnBlitz == Request(1, "ann", "blitz")
BobBlitz == Request(2, "bob", "blitz")
AnnAgain == Request(3, "ann", "blitz")
CatRapid == Request(4, "cat", "rapid")

Pair == {AnnBlitz, BobBlitz}
TwoTabs == {AnnBlitz, AnnAgain, BobBlitz}
Crowd == {AnnBlitz, AnnAgain, BobBlitz, CatRapid}

AnnCancels == {Request(5, "ann", "")}

MCBy == [q \in Searches \cup Cancels |-> q.by]
MCMode == [q \in Searches |-> q.mode]
=============================================================================
