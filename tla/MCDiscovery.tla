---------------------------- MODULE MCDiscovery ----------------------------
EXTENDS Discovery
CONSTANTS a, b, d
(* Every node has the one discovery node in its options.                     *)
OneSeed == [n \in Nodes |-> IF n \in Normal THEN {d} ELSE {}]
=============================================================================
