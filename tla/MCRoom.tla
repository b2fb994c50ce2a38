------------------------------- MODULE MCRoom -------------------------------
(***************************************************************************)
(* A Room on small instances: White connects twice (a page reload, or a    *)
(* second tab), Black once.                                                *)
(***************************************************************************)
EXTENDS Room, TLC

CONSTANTS w1, w2, b1

MCOwner == [k \in Conns |-> IF k = b1 THEN Black ELSE White]

(* White's two connections are interchangeable.                            *)
Reloads == Permutations({w1, w2})
=============================================================================
