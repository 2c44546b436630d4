---------------------------- MODULE ChainStore ----------------------------
(* What Storage promises to the rest of the node: a chain that grows at its *)
(* end, is made durable as a whole when the node shuts down, and comes back *)
(* as the last durable chain after a crash.                                 *)
EXTENDS Naturals, Sequences

CONSTANTS Blocks, Genesis, Prev

VARIABLES
  log,      \* the chain as the node sees it, genesis first
  saved,    \* the chain the database would give back
  crashes   \* how often the process has died

vars == <<log, saved, crashes>>

Init == log = <<Genesis>> /\ saved = <<Genesis>> /\ crashes = 0

(* Storage::pushBack. *)
Extend(b) ==
  /\ Prev[b] = log[Len(log)]
  /\ log' = Append(log, b)
  /\ UNCHANGED <<saved, crashes>>

(* The shutdown becomes durable. *)
Save == saved' = log /\ UNCHANGED <<log, crashes>>

(* The node dies; only this loses blocks. *)
Crash == log' = saved /\ crashes' = crashes + 1 /\ UNCHANGED saved

Next == Save \/ Crash \/ \E b \in Blocks : Extend(b)

Spec == Init /\ [][Next]_vars

=============================================================================
