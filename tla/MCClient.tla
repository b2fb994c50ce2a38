------------------------------ MODULE MCClient ------------------------------
(***************************************************************************)
(* The page on small instances: at the start of a game, or late enough in  *)
(* one for a promotion.                                                    *)
(***************************************************************************)
EXTENDS Client
=============================================================================
