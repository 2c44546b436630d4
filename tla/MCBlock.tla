------------------------------- MODULE MCBlock -------------------------------
(* Blocks of up to six transactions. *)
EXTENDS Block, TLC

CONSTANTS t1, t2, v1, v2

TwoSizes == (t1 :> 1) @@ (t2 :> 2) @@ (v1 :> 1) @@ (v2 :> 2)
=============================================================================
