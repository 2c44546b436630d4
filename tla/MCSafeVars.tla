---------------------------- MODULE MCSafeVars ----------------------------
EXTENDS SafeVars, TLC
CONSTANTS s1, s2, k1, k2
MCValues == 0..1
(* s1 and k1 are plain; s2 is a SafeAddress, k2 is inserted and erased.      *)
MCInitial == (s1 :> 0) @@ (s2 :> 1)
MCOps ==
  (k1 :> {"index", "at", "insert_or_assign"}) @@
  (k2 :> {"index", "at", "insert_or_assign", "insert", "erase"})
=============================================================================
