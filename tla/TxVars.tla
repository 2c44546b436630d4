------------------------------ MODULE TxVars ------------------------------
(* What the variables of a contract promise: a call sees its own writes; at  *)
(* its end they all become permanent or all disappear.                       *)
CONSTANTS Names, Initial
VARIABLES committed, working

Init == committed = Initial /\ working = Initial

Write(n, x) == working' = [working EXCEPT ![n] = x] /\ UNCHANGED committed
Commit == committed' = working /\ UNCHANGED working
Revert == working' = committed /\ UNCHANGED committed
=============================================================================
