------------------------------- MODULE Gossip -------------------------------
(* How broadcasts spread (ManagerNormal): validator transactions and blocks  *)
(* flood over the sessions between nodes, which do not change here.  Every   *)
(* message is handled by a task of its own; tasks of a node run in parallel  *)
(* and share broadcastedMessages_ (under broadcastMutex), the mempool and    *)
(* the chain (under the state's mutex), and, for blocks,                     *)
(* blockBroadcastMutex.  There is one chain (module Consensus), so a block   *)
(* is its height.                                                            *)
EXTENDS Integers

CONSTANTS
  Nodes,
  Topologies,  \* the networks there may be: sets of pairs of nodes, in both directions
  Signer, Creator,  \* who signs the validator transaction of a height and creates its block
  Messages,    \* bound: the validator transactions and blocks there are
  Restarts     \* the nodes that may restart

Heights == {m.height : m \in Messages}
Sessions == UNION Topologies

ASSUME GossipAssumption ==
  /\ Sessions \subseteq Nodes \X Nodes /\ Sessions \intersect Nodes = {}
  /\ Messages \subseteq [kind : {"tx", "block"}, height : Nat \ {0}]
  /\ Creator \in [Heights -> Nodes]

(* A task is named by the session and the message it handles; the worker and *)
(* the Syncer of a node, which broadcast what the node made, by the node.    *)
Tasks == Sessions \X Messages
Threads == Tasks \union (Nodes \X Messages)

VARIABLES
  links,      \* the sessions there are
  height,     \* storage: the height of the latest block
  pool,       \* heights of the validator transactions in the mempool
  broadcasted,  \* broadcastedMessages_: the messages counted in it
  at,         \* where each thread is
  floods      \* how often a node has written a message to its sessions

vars == <<links, height, pool, broadcasted, at, floods>>

TypeOK ==
  /\ links \in Topologies
  /\ height \in [Nodes -> Nat]
  /\ pool \in [Nodes -> SUBSET Heights]
  /\ broadcasted \in [Nodes -> SUBSET Messages]
  /\ at \in [Threads -> {"none", "sent", "handle", "process", "broadcast", "flood",
                         "existed", "disconnected", "done"}]
  /\ floods \in [Nodes -> [Messages -> Nat]]

NodeOf(t) == IF t \in Tasks THEN t[1][2] ELSE t[1]
Message(t) == t[2]

Init ==
  /\ links \in Topologies
  /\ height = [n \in Nodes |-> 0]
  /\ pool = [n \in Nodes |-> {}]
  /\ broadcasted = [n \in Nodes |-> {}]
  /\ at = [t \in Threads |-> "none"]
  /\ floods = [n \in Nodes |-> [m \in Messages |-> 0]]

Goto(t, l) == at' = [at EXCEPT ![t] = l]

(* processNextBlock: the block enters the chain, the mempool is emptied.     *)
Process(n, h) ==
  /\ height' = [height EXCEPT ![n] = h]
  /\ pool' = [pool EXCEPT ![n] = {}]

(* addValidatorTx says whether the transaction is in the mempool now.        *)
Accepts(n, h) == h \in pool[n] \/ h = height[n] + 1

-----------------------------------------------------------------------------
(* What a node makes itself: doTxCreation, doValidatorBlock.  A block needs  *)
(* the transaction of its height, if there is one in Messages.               *)
MakeTx(n, h) ==
  LET m == [kind |-> "tx", height |-> h]  t == <<n, m>> IN
  /\ m \in Messages /\ Signer[h] = n /\ height[n] + 1 = h /\ at[t] = "none"
  /\ pool' = [pool EXCEPT ![n] = @ \union {h}]
  /\ Goto(t, "broadcast")
  /\ UNCHANGED <<height, broadcasted, floods>>

MakeBlock(n, h) ==
  LET m == [kind |-> "block", height |-> h]  t == <<n, m>> IN
  /\ m \in Messages /\ Creator[h] = n /\ height[n] + 1 = h /\ at[t] = "none"
  /\ [m EXCEPT !.kind = "tx"] \in Messages => h \in pool[n]
  /\ Process(n, h)
  /\ Goto(t, "broadcast")
  /\ UNCHANGED <<broadcasted, floods>>

-----------------------------------------------------------------------------
(* broadcastMessage, its first half: under broadcastMutex the message is     *)
(* looked up and counted.  Variants: it is counted without looking; a block  *)
(* is not counted.                                                           *)
BlockNotCounted(t) ==
  LET n == NodeOf(t) IN
  /\ Goto(t, IF Message(t) \in broadcasted[n] THEN "done" ELSE "flood")
  /\ broadcasted' = [broadcasted EXCEPT ![n] = @ \union {m \in {Message(t)} : m.kind = "tx"}]
CountOnly(t) ==
  LET n == NodeOf(t) IN
  /\ broadcasted' = [broadcasted EXCEPT ![n] = @ \union {Message(t)}]
  /\ Goto(t, "flood")
CountMessage(t) ==
  LET n == NodeOf(t) IN
  IF Message(t) \in broadcasted[n] THEN Goto(t, "done") /\ UNCHANGED broadcasted
  ELSE /\ broadcasted' = [broadcasted EXCEPT ![n] = @ \union {Message(t)}]
       /\ Goto(t, "flood")

BroadcastMessage(t) ==
  /\ at[t] = "broadcast"
  /\ CountMessage(t)
  /\ UNCHANGED <<height, pool, floods>>

(* The second half: it is written to every session.  For a block another     *)
(* call of broadcastMessage follows, which finds the message counted.        *)
Recipients(n) == {s \in links : s[1] = n}

Flood(t) ==
  LET n == NodeOf(t)  m == Message(t) IN
  /\ at[t] = "flood"
  /\ at' = [u \in Threads |-> IF u = t THEN "done"
                              ELSE IF u \in Recipients(n) \X {m} THEN "sent" ELSE at[u]]
  /\ floods' = [floods EXCEPT ![n][m] = @ + 1]
  /\ UNCHANGED <<height, pool, broadcasted>>

-----------------------------------------------------------------------------
(* handleBroadcast: a message that has been broadcast by this node is        *)
(* skipped, by a look under the shared lock.                                 *)
HandleBroadcast(t) ==
  /\ at[t] = "sent"
  /\ Goto(t, IF Message(t) \in broadcasted[NodeOf(t)] THEN "done" ELSE "handle")
  /\ UNCHANGED <<height, pool, broadcasted, floods>>

HandleTxValidatorBroadcast(t) ==
  LET n == NodeOf(t)  h == Message(t).height IN
  /\ at[t] = "handle" /\ Message(t).kind = "tx"
  /\ IF Accepts(n, h) THEN pool' = [pool EXCEPT ![n] = @ \union {h}] /\ Goto(t, "broadcast")
     ELSE Goto(t, "done") /\ UNCHANGED pool
  /\ UNCHANGED <<height, broadcasted, floods>>

(* blockBroadcastMutex, held from the look at the storage to the broadcast.  *)
(* Variant: it is not taken.                                                 *)
NoMutex(n) == TRUE
BlockMutexFree(n) ==
  \A t \in Tasks : NodeOf(t) = n /\ Message(t).kind = "block" => at[t] \notin {"process", "broadcast", "flood"}

(* handleBlockBroadcast: validateNextBlock says no to any but the next       *)
(* height; a block that exists is left alone ("existed").                    *)
HandleBlockBroadcast(t) ==
  LET n == NodeOf(t)  h == Message(t).height IN
  /\ at[t] = "handle" /\ Message(t).kind = "block" /\ BlockMutexFree(n)
  /\ Goto(t, IF h <= height[n] THEN "existed" ELSE IF h = height[n] + 1 THEN "process" ELSE "done")
  /\ UNCHANGED <<height, pool, broadcasted, floods>>

(* Variant: a block that was processed is not passed on.                     *)
ProcessBlockSilently(t) ==
  LET n == NodeOf(t)  h == Message(t).height IN
  /\ at[t] = "process"
  /\ IF h = height[n] + 1 THEN Process(n, h) /\ Goto(t, "done")
     ELSE Goto(t, "disconnected") /\ UNCHANGED <<height, pool>>
  /\ UNCHANGED <<broadcasted, floods>>

(* processNextBlock validates again and throws, for which the session is     *)
(* disconnected.                                                             *)
ProcessBlock(t) ==
  LET n == NodeOf(t)  h == Message(t).height IN
  /\ at[t] = "process"
  /\ IF h = height[n] + 1 THEN Process(n, h) /\ Goto(t, "broadcast")
     ELSE Goto(t, "disconnected") /\ UNCHANGED <<height, pool>>
  /\ UNCHANGED <<broadcasted, floods>>

(* A node stops and starts again: the chain is kept, what it had heard and   *)
(* what it was doing is not.                                                 *)
Restart(n) ==
  /\ n \in Restarts
  /\ broadcasted' = [broadcasted EXCEPT ![n] = {}]
  /\ pool' = [pool EXCEPT ![n] = {}]
  /\ at' = [t \in Threads |-> IF NodeOf(t) = n /\ at[t] # "none" THEN "done" ELSE at[t]]
  /\ UNCHANGED <<height, floods>>

Handle(t) ==
  \/ HandleBroadcast(t) \/ HandleTxValidatorBroadcast(t)
  \/ HandleBlockBroadcast(t) \/ ProcessBlock(t)

Step(t) ==
  \/ BroadcastMessage(t) \/ Flood(t)
  \/ t \in Tasks /\ Handle(t)

Next ==
  /\ \/ \E n \in Nodes, h \in Heights : MakeTx(n, h) \/ MakeBlock(n, h)
     \/ \E t \in Threads : Step(t)
     \/ \E n \in Nodes : Restart(n)
  /\ UNCHANGED links

Spec == Init /\ [][Next]_vars

(* A session delivers what is written to it and the pool runs every task.    *)
FairSpec == Spec /\ \A t \in Threads : WF_vars(Step(t) /\ UNCHANGED links)

-----------------------------------------------------------------------------
Steady == Nodes \ Restarts

(* A node that does not restart writes a message to its sessions at most     *)
(* once, however many copies it handles at the same time: a broadcast ends.  *)
FloodsOnce == \A n \in Steady : \A m \in Messages : floods[n][m] <= 1

(* A node that passes on a valid block is not disconnected for it, although  *)
(* several copies are validated at once: what blockBroadcastMutex is for.    *)
NoneDisconnected == \A t \in Tasks : at[t] # "disconnected"

(* handleBlockBroadcast returns at a block that exists without broadcasting  *)
(* it.  Nothing is lost by that while the node runs: it has broadcast the    *)
(* block before, or is about to.                                             *)
ExistingIsForwarded ==
  \A t \in Tasks : at[t] = "existed" /\ NodeOf(t) \in Steady =>
    \/ Message(t) \in broadcasted[NodeOf(t)]
    \/ \E u \in Threads : NodeOf(u) = NodeOf(t) /\ Message(u) = Message(t) /\ at[u] = "broadcast"

(* The nodes that have sessions, without those that restart.                 *)
Linked == {n \in Steady : \E s \in links : n \in {s[1], s[2]}}

(* A block is about to be broadcast by its creator, which has sessions and   *)
(* does not restart, and every other node has the blocks before it.          *)
OthersWait(h) ==
  /\ at[<<Creator[h], [kind |-> "block", height |-> h]>>] = "broadcast"
  /\ Creator[h] \in Linked
  /\ \A n \in Nodes \ {Creator[h]} : height[n] = h - 1

(* Such a block is accepted by every node that has sessions and does not     *)
(* restart, if those nodes are connected with each other: what they pass on  *)
(* reaches nodes the creator has no session with, and no early return and no *)
(* copy handled in parallel stops the flood.  (A block some node is not      *)
(* ready for can be dropped there and is not sent again, and one whose       *)
(* creator stops before it has sent it is lost.)                             *)
AwaitedBlockReachesAll ==
  \A h \in Heights : OthersWait(h) ~> (\A n \in Linked : height[n] >= h)
=============================================================================
