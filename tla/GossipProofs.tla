---------------------------- MODULE GossipProofs ----------------------------
(* For any nodes, sessions and messages: a node is not disconnected for      *)
(* passing on a block, restarts included; a node that does not restart       *)
(* floods a message at most once, and a block that exists when a copy of it  *)
(* arrives has been broadcast by the node or is about to be.  For any        *)
(* threads around a session, the answer to a request finds the request.  And *)
(* for any transactions of any lengths and any number of parser threads, the *)
(* bytes of a block give back the block.                                     *)
EXTENDS Gossip, Requests, Block, WellFoundedInduction, TLAPS

(* Where a thread runs and what it handles.                                  *)
LEMMA ThreadTypes ==
  ASSUME NEW t \in Threads
  PROVE  /\ NodeOf(t) \in Nodes /\ Message(t) \in Messages
         /\ Message(t).height \in Heights /\ Message(t).height \in Nat
BY Zenon, GossipAssumption DEF Threads, Tasks, NodeOf, Message, Heights

(* The thread that broadcasts what a node has made is not a task.            *)
LEMMA OwnThreads ==
  ASSUME NEW n \in Nodes, NEW m \in Messages
  PROVE  <<n, m>> \in Threads \ Tasks /\ NodeOf(<<n, m>>) = n /\ Message(<<n, m>>) = m
BY Zenon, GossipAssumption DEF Threads, Tasks, NodeOf, Message

(* Types, under every step.                                                  *)
LEMMA TypeInductive == TypeOK /\ [Next]_vars => TypeOK'
<1> SUFFICES ASSUME TypeOK, [Next]_vars PROVE TypeOK'
  OBVIOUS
<1>0. links' = links
  BY Zenon DEF Next, vars
<1> USE <1>0 DEF TypeOK
<1>1. ASSUME NEW n \in Nodes, NEW h \in Heights, MakeTx(n, h) PROVE TypeOK'
  BY Zenon, <1>1 DEF MakeTx, Goto
<1>2. ASSUME NEW n \in Nodes, NEW h \in Heights, MakeBlock(n, h) PROVE TypeOK'
  BY Zenon, <1>2, GossipAssumption DEF MakeBlock, Process, Goto, Heights
<1>3. ASSUME NEW t \in Threads, Step(t) PROVE TypeOK'
  <2> USE ThreadTypes
  <2>1. CASE BroadcastMessage(t)
    <3>1. \E l \in {"done", "flood"} : at' = [at EXCEPT ![t] = l]
      BY Zenon, <2>1 DEF BroadcastMessage, CountMessage, Goto
    <3>2. \/ broadcasted' = broadcasted
          \/ broadcasted' = [broadcasted EXCEPT ![NodeOf(t)] = @ \union {Message(t)}]
      BY Zenon, <2>1 DEF BroadcastMessage, CountMessage
    <3>3. broadcasted' \in [Nodes -> SUBSET Messages]
      BY <3>2
    <3> QED BY Zenon, <2>1, <3>1, <3>3 DEF BroadcastMessage
  <2>2. CASE Flood(t)
    <3>1. at' \in [Threads -> {"none", "sent", "handle", "process", "broadcast", "flood",
                               "existed", "disconnected", "done"}]
      BY Zenon, <2>2 DEF Flood
    <3>2. floods' \in [Nodes -> [Messages -> Nat]]
      BY <2>2 DEF Flood
    <3> QED BY Zenon, <2>2, <3>1, <3>2 DEF Flood
  <2>3. CASE HandleBroadcast(t)
    BY Zenon, <2>3 DEF HandleBroadcast, Goto
  <2>4. CASE HandleTxValidatorBroadcast(t)
    <3>1. \E l \in {"done", "broadcast"} : at' = [at EXCEPT ![t] = l]
      BY Zenon, <2>4 DEF HandleTxValidatorBroadcast, Goto
    <3>2. pool' = pool \/ pool' = [pool EXCEPT ![NodeOf(t)] = @ \union {Message(t).height}]
      BY Zenon, <2>4 DEF HandleTxValidatorBroadcast
    <3>3. pool' \in [Nodes -> SUBSET Heights]
      BY <3>2
    <3> QED BY Zenon, <2>4, <3>1, <3>3 DEF HandleTxValidatorBroadcast
  <2>5. CASE HandleBlockBroadcast(t)
    BY Zenon, <2>5 DEF HandleBlockBroadcast, Goto
  <2>6. CASE ProcessBlock(t)
    BY Zenon, <2>6 DEF ProcessBlock, Process, Goto
  <2> QED BY Zenon, <1>3, <2>1, <2>2, <2>3, <2>4, <2>5, <2>6 DEF Step, Handle
<1>4. ASSUME NEW n \in Nodes, Restart(n) PROVE TypeOK'
  BY Zenon, <1>4 DEF Restart
<1>5. CASE UNCHANGED vars
  BY Zenon, <1>5 DEF vars
<1> QED BY Zenon, <1>1, <1>2, <1>3, <1>4, <1>5 DEF Next

-----------------------------------------------------------------------------
InMutex(t) == t \in Tasks /\ Message(t).kind = "block" /\ at[t] \in {"process", "broadcast", "flood"}

(* A block travels only after its creator has it.                            *)
SentExists ==
  \A t \in Threads : Message(t).kind = "block" /\ at[t] # "none" =>
    height[Creator[Message(t).height]] >= Message(t).height

(* One task of a node at a time is between the look at the storage and the   *)
(* broadcast.                                                                *)
OneInMutex == \A t, u \in Tasks : InMutex(t) /\ InMutex(u) /\ NodeOf(t) = NodeOf(u) => t = u

(* What has been validated is still the next block when it is processed.     *)
StillNext ==
  \A t \in Threads : at[t] = "process" =>
    InMutex(t) /\ Message(t).height = height[NodeOf(t)] + 1

Undisturbed == \A t \in Threads : at[t] # "disconnected"

Inv == TypeOK /\ SentExists /\ OneInMutex /\ StillNext /\ Undisturbed

(* Only a task in the mutex and the creator of a block change the chain of a *)
(* node.  The creator of the block being processed here is another node: it  *)
(* already has the block.                                                    *)
LEMMA InvInductive == Inv /\ [Next]_vars => Inv'
<1> SUFFICES ASSUME Inv, [Next]_vars PROVE Inv'
  OBVIOUS
<1>0. TypeOK'
  BY Zenon, TypeInductive DEF Inv
<1> USE DEF Inv, TypeOK
<1>a. ASSUME NEW h \in Heights PROVE h \in Nat /\ Creator[h] \in Nodes
  BY GossipAssumption DEF Heights
<1>t. Tasks \subseteq Threads
  BY Zenon DEF Threads
(* A step of one thread that leaves the chains alone and does not enter.     *)
<1>1. ASSUME NEW t \in Threads, NEW l, at' = [at EXCEPT ![t] = l], height' = height,
             l \notin {"process", "disconnected"},
             l \in {"broadcast", "flood"} => InMutex(t) \/ t \notin Tasks \/ Message(t).kind = "tx",
             at[t] # "none" \/ Message(t).kind = "tx"
      PROVE  Inv'
  <2>1. \A u \in Threads : u # t => at'[u] = at[u]
    BY Zenon, <1>1
  <2>2. at'[t] = l
    BY Zenon, <1>1
  <2>3. SentExists'
    BY Zenon, <1>1, <2>1 DEF SentExists
  <2>4. \A u \in Tasks : InMutex(u)' => InMutex(u)
    BY Zenon, <1>1, <1>t, <2>1, <2>2 DEF InMutex
  <2>5. OneInMutex'
    BY Zenon, <2>4 DEF OneInMutex
  <2>6. StillNext'
    BY Zenon, <1>1, <2>1, <2>2 DEF StillNext, InMutex
  <2>7. Undisturbed'
    BY Zenon, <1>1, <2>1, <2>2 DEF Undisturbed
  <2> QED BY Zenon, <1>0, <2>3, <2>5, <2>6, <2>7
<1>2. ASSUME NEW n \in Nodes, NEW h \in Heights, MakeTx(n, h) PROVE Inv'
  <2> DEFINE m == [kind |-> "tx", height |-> h]
  <2>1. m \in Messages /\ at' = [at EXCEPT ![<<n, m>>] = "broadcast"] /\ height' = height
    BY Zenon, <1>2 DEF MakeTx, Goto
  <2>2. <<n, m>> \in Threads /\ Message(<<n, m>>).kind = "tx"
    BY <2>1, OwnThreads
  <2> HIDE DEF m
  <2> QED BY ZenonT(30), <1>1, <2>1, <2>2
<1>3. ASSUME NEW n \in Nodes, NEW h \in Heights, MakeBlock(n, h) PROVE Inv'
  <2> DEFINE m == [kind |-> "block", height |-> h]
             t == <<n, m>>
  <2>1. m \in Messages /\ Creator[h] = n /\ h = height[n] + 1
        /\ height' = [height EXCEPT ![n] = h] /\ at' = [at EXCEPT ![t] = "broadcast"]
    BY Zenon, <1>3, <1>a DEF MakeBlock, Process, Goto
  <2>2. t \in Threads /\ t \notin Tasks /\ NodeOf(t) = n /\ Message(t) = m
    BY Zenon, <2>1, OwnThreads
  <2>3. at'[t] = "broadcast" /\ \A u \in Threads : u # t => at'[u] = at[u]
    BY Zenon, <2>1, <2>2
  <2>4. \A k \in Nodes : height'[k] >= height[k]
    BY <2>1
  <2>5. ASSUME NEW u \in Threads, Message(u).kind = "block", at'[u] # "none"
        PROVE  height'[Creator[Message(u).height]] >= Message(u).height
    <3> DEFINE c == Creator[Message(u).height]
    <3>1. c \in Nodes /\ Message(u).height \in Nat
      BY Zenon, <1>a, ThreadTypes
    <3>2. CASE u = t
      BY SMTT(30), <2>1, <2>2, <3>2
    <3>3. CASE u # t
      <4>1. height[c] >= Message(u).height
        BY Zenon, <2>3, <2>5, <3>3 DEF SentExists
      <4>2. height'[c] >= height[c] /\ height[c] \in Nat /\ height'[c] \in Nat
        BY Zenon, <1>0, <2>4, <3>1
      <4> QED BY <3>1, <4>1, <4>2
    <3> QED BY Zenon, <3>2, <3>3
  <2>6. \A u \in Tasks : InMutex(u)' => InMutex(u)
    BY Zenon, <1>t, <2>2, <2>3 DEF InMutex
  <2>7. ASSUME NEW u \in Threads, at'[u] = "process"
        PROVE  InMutex(u)' /\ Message(u).height = height'[NodeOf(u)] + 1
    <3>1. u # t /\ at[u] = "process"
      BY Zenon, <2>3, <2>7
    <3>2. InMutex(u) /\ Message(u).height = height[NodeOf(u)] + 1
      BY Zenon, <3>1 DEF StillNext
    <3>3. InMutex(u)'
      BY Zenon, <2>7, <3>2 DEF InMutex
    <3>4. NodeOf(u) # n
      <4>1. SUFFICES ASSUME NodeOf(u) = n PROVE FALSE
        OBVIOUS
      <4>2. Message(u).height = h
        BY Zenon, <2>1, <3>2, <4>1
      <4>3. height[n] >= h
        BY Zenon, <2>1, <3>1, <3>2, <4>2 DEF SentExists, InMutex
      <4> QED BY <2>1, <4>3, <1>a
    <3> QED BY Zenon, <2>1, <3>2, <3>3, <3>4, ThreadTypes
  <2>8. Undisturbed'
    BY Zenon, <2>3 DEF Undisturbed
  <2>9. SentExists' /\ StillNext'
    BY Zenon, <2>5, <2>7 DEF SentExists, StillNext
  <2>10. OneInMutex'
    BY Zenon, <2>6 DEF OneInMutex
  <2> QED BY Zenon, <1>0, <2>8, <2>9, <2>10
<1>4. ASSUME NEW t \in Threads, BroadcastMessage(t) PROVE Inv'
  <2>1. \E l \in {"done", "flood"} : at' = [at EXCEPT ![t] = l]
    BY Zenon, <1>4 DEF BroadcastMessage, CountMessage, Goto
  <2>2. at[t] = "broadcast" /\ height' = height
    BY Zenon, <1>4 DEF BroadcastMessage
  <2>3. InMutex(t) \/ t \notin Tasks \/ Message(t).kind = "tx"
    BY Zenon, <2>2, ThreadTypes, GossipAssumption DEF InMutex
  <2> QED BY Zenon, <1>1, <2>1, <2>2, <2>3
<1>5. ASSUME NEW t \in Threads, Flood(t) PROVE Inv'
  <2> DEFINE m == Message(t)
  <2>1. at[t] = "flood" /\ height' = height
    BY Zenon, <1>5 DEF Flood
  <2>2. \A u \in Threads : at'[u] = at[u] \/ at'[u] = "done" \/ (at'[u] = "sent" /\ Message(u) = m)
    BY Zenon, <1>5 DEF Flood, Message
  <2>2a. \A u \in Threads : at'[u] # "none" => at[u] # "none" \/ Message(u) = m
    BY Zenon, <1>5 DEF Flood, Message
  <2>3. SentExists'
    BY Zenon, <2>1, <2>2a DEF SentExists
  <2>4. \A u \in Tasks : InMutex(u)' => InMutex(u)
    BY Zenon, <1>t, <2>2 DEF InMutex
  <2>5. OneInMutex'
    BY Zenon, <2>4 DEF OneInMutex
  <2>6. StillNext'
    BY Zenon, <2>1, <2>2 DEF StillNext, InMutex
  <2>7. Undisturbed'
    BY Zenon, <2>2 DEF Undisturbed
  <2> QED BY Zenon, <1>0, <2>3, <2>5, <2>6, <2>7
<1>6. ASSUME NEW t \in Threads, HandleBroadcast(t) PROVE Inv'
  <2>1. \E l \in {"done", "handle"} : at' = [at EXCEPT ![t] = l]
    BY Zenon, <1>6 DEF HandleBroadcast, Goto
  <2>2. at[t] = "sent" /\ height' = height
    BY Zenon, <1>6 DEF HandleBroadcast
  <2> QED BY Zenon, <1>1, <2>1, <2>2
<1>7. ASSUME NEW t \in Threads, HandleTxValidatorBroadcast(t) PROVE Inv'
  <2>1. \E l \in {"done", "broadcast"} : at' = [at EXCEPT ![t] = l]
    BY Zenon, <1>7 DEF HandleTxValidatorBroadcast, Goto
  <2>2. at[t] = "handle" /\ height' = height /\ Message(t).kind = "tx"
    BY Zenon, <1>7 DEF HandleTxValidatorBroadcast
  <2> QED BY Zenon, <1>1, <2>1, <2>2
<1>8. ASSUME NEW t \in Threads, HandleBlockBroadcast(t), t \in Tasks PROVE Inv'
  <2> DEFINE n == NodeOf(t)
             h == Message(t).height
  <2>1. at[t] = "handle" /\ height' = height /\ Message(t).kind = "block" /\ BlockMutexFree(n)
    BY Zenon, <1>8 DEF HandleBlockBroadcast
  <2>2. CASE h = height[n] + 1 /\ at' = [at EXCEPT ![t] = "process"]
    <3>1. at'[t] = "process" /\ \A u \in Threads : u # t => at'[u] = at[u]
      BY Zenon, <2>2
    <3>2. SentExists'
      BY Zenon, <2>1, <3>1 DEF SentExists
    <3>3. \A u \in Tasks : NodeOf(u) = n => ~InMutex(u)
      BY Zenon, <2>1 DEF BlockMutexFree, InMutex
    <3>4. \A u \in Tasks : InMutex(u)' => u = t \/ InMutex(u)
      BY Zenon, <1>t, <3>1 DEF InMutex
    <3>5. OneInMutex'
      BY Zenon, <3>3, <3>4 DEF OneInMutex
    <3>6. StillNext'
      BY Zenon, <1>8, <2>1, <2>2, <3>1 DEF StillNext, InMutex
    <3>7. Undisturbed'
      BY Zenon, <3>1 DEF Undisturbed
    <3> QED BY Zenon, <1>0, <3>2, <3>5, <3>6, <3>7
  <2>3. CASE \E l \in {"done", "existed"} : at' = [at EXCEPT ![t] = l]
    BY Zenon, <1>1, <2>1, <2>3
  <2> QED BY Zenon, <1>8, <2>2, <2>3 DEF HandleBlockBroadcast, Goto
<1>9. ASSUME NEW t \in Threads, ProcessBlock(t) PROVE Inv'
  <2> DEFINE n == NodeOf(t)
             h == Message(t).height
  <2>1. at[t] = "process" /\ InMutex(t) /\ h = height[n] + 1 /\ n \in Nodes
    BY Zenon, <1>9, ThreadTypes DEF ProcessBlock, StillNext
  <2>2. height' = [height EXCEPT ![n] = h] /\ at' = [at EXCEPT ![t] = "broadcast"]
    BY Zenon, <1>9, <2>1 DEF ProcessBlock, Process, Goto
  <2>3. at'[t] = "broadcast" /\ \A u \in Threads : u # t => at'[u] = at[u]
    BY Zenon, <2>2
  <2>4. \A k \in Nodes : height'[k] >= height[k]
    BY <2>1, <2>2
  <2>5. ASSUME NEW u \in Threads, Message(u).kind = "block", at'[u] # "none"
        PROVE  height'[Creator[Message(u).height]] >= Message(u).height
    <3> DEFINE c == Creator[Message(u).height]
    <3>1. c \in Nodes /\ Message(u).height \in Nat
      BY Zenon, <1>a, ThreadTypes
    <3>2. height[c] >= Message(u).height
      BY Zenon, <2>1, <2>3, <2>5 DEF SentExists
    <3>3. height'[c] >= height[c] /\ height[c] \in Nat /\ height'[c] \in Nat
      BY Zenon, <1>0, <2>4, <3>1
    <3> QED BY <3>1, <3>2, <3>3
  <2>6. \A u \in Tasks : InMutex(u)' => InMutex(u)
    BY Zenon, <1>t, <2>1, <2>3 DEF InMutex
  <2>7. ASSUME NEW u \in Threads, at'[u] = "process"
        PROVE  InMutex(u)' /\ Message(u).height = height'[NodeOf(u)] + 1
    <3>1. u # t /\ at[u] = "process"
      BY Zenon, <2>3, <2>7
    <3>2. InMutex(u) /\ Message(u).height = height[NodeOf(u)] + 1
      BY Zenon, <3>1 DEF StillNext
    <3>3. NodeOf(u) # n
      BY Zenon, <2>1, <3>1, <3>2 DEF OneInMutex, InMutex
    <3>4. InMutex(u)'
      BY Zenon, <2>7, <3>2 DEF InMutex
    <3> QED BY Zenon, <2>2, <3>2, <3>3, <3>4, ThreadTypes
  <2>8. Undisturbed'
    BY Zenon, <2>3 DEF Undisturbed
  <2>9. SentExists' /\ StillNext'
    BY Zenon, <2>5, <2>7 DEF SentExists, StillNext
  <2>10. OneInMutex'
    BY Zenon, <2>6 DEF OneInMutex
  <2> QED BY Zenon, <1>0, <2>8, <2>9, <2>10
<1>10. ASSUME NEW n \in Nodes, Restart(n) PROVE Inv'
  <2>1. height' = height
        /\ \A u \in Threads : at'[u] = at[u] \/ (at'[u] = "done" /\ at[u] # "none")
    BY Zenon, <1>10 DEF Restart
  <2>2. SentExists'
    BY Zenon, <2>1 DEF SentExists
  <2>3. \A u \in Tasks : InMutex(u)' => InMutex(u)
    BY Zenon, <1>t, <2>1 DEF InMutex
  <2>4. OneInMutex'
    BY Zenon, <2>3 DEF OneInMutex
  <2>5. StillNext'
    BY Zenon, <2>1 DEF StillNext, InMutex
  <2>6. Undisturbed'
    BY Zenon, <2>1 DEF Undisturbed
  <2> QED BY Zenon, <1>0, <2>2, <2>4, <2>5, <2>6
<1>11. CASE UNCHANGED vars
  BY Zenon, <1>11, <1>0 DEF vars, SentExists, OneInMutex, StillNext, Undisturbed, InMutex
<1> QED
  BY Zenon, <1>2, <1>3, <1>4, <1>5, <1>6, <1>7, <1>8, <1>9, <1>10, <1>11 DEF Next, Step, Handle

(* No peer is disconnected for a valid block it passes on, for any network,  *)
(* any number of tasks at once and any restarts (handleBlockBroadcast).      *)
THEOREM HonestStayConnected == Spec => []NoneDisconnected
<1>1. Init => Inv
  <2> SUFFICES ASSUME Init PROVE Inv
    OBVIOUS
  <2>1. TypeOK
    BY Zenon DEF Init, TypeOK
  <2>2. \A t \in Threads : at[t] = "none"
    BY Zenon DEF Init
  <2> QED BY Zenon, <2>1, <2>2 DEF Inv, SentExists, OneInMutex, StillNext, Undisturbed, InMutex, Threads
<1>2. Inv => NoneDisconnected
  BY Zenon DEF Inv, Undisturbed, NoneDisconnected, Threads
<1> QED BY <1>1, <1>2, InvInductive, PTL DEF Spec

-----------------------------------------------------------------------------
(* A message that a steady node has written, or is about to write, is        *)
(* counted, and is about to be written by one thread only.                   *)
CountedBeforeFlood ==
  /\ \A n \in Steady : \A m \in Messages : floods[n][m] # 0 => m \in broadcasted[n]
  /\ \A t \in Threads : at[t] = "flood" /\ NodeOf(t) \in Steady =>
       Message(t) \in broadcasted[NodeOf(t)] /\ floods[NodeOf(t)][Message(t)] = 0
  /\ \A t, u \in Threads :
       at[t] = "flood" /\ at[u] = "flood" /\ NodeOf(t) \in Steady
         /\ NodeOf(t) = NodeOf(u) /\ Message(t) = Message(u) => t = u

FloodInv == TypeOK /\ CountedBeforeFlood /\ FloodsOnce

(* A message is flooded by the one task that has put it in the set.          *)
LEMMA FloodInductive == FloodInv /\ [Next]_vars => FloodInv'
<1> SUFFICES ASSUME FloodInv, [Next]_vars PROVE FloodInv'
  OBVIOUS
<1>0. TypeOK'
  BY Zenon, TypeInductive DEF FloodInv
<1> USE DEF FloodInv, TypeOK
<1>s. Steady \subseteq Nodes
  BY Zenon DEF Steady
(* Steps at which no thread starts to flood.                                 *)
<1>1. ASSUME broadcasted' = broadcasted, floods' = floods,
             \A t \in Threads : at'[t] = "flood" => at[t] = "flood"
      PROVE  FloodInv'
  BY Zenon, <1>0, <1>1, <1>s DEF CountedBeforeFlood, FloodsOnce
<1>2. ASSUME NEW n \in Nodes, NEW h \in Heights, MakeTx(n, h) \/ MakeBlock(n, h) PROVE FloodInv'
  <2>1. broadcasted' = broadcasted /\ floods' = floods
    BY Zenon, <1>2 DEF MakeTx, MakeBlock
  <2>2. \A t \in Threads : at'[t] = "flood" => at[t] = "flood"
    BY Zenon, <1>2 DEF MakeTx, MakeBlock, Goto
  <2> QED BY Zenon, <1>1, <2>1, <2>2
<1>3. ASSUME NEW t \in Threads, Handle(t) PROVE FloodInv'
  <2>1. broadcasted' = broadcasted /\ floods' = floods
    BY Zenon, <1>3 DEF Handle, HandleBroadcast, HandleTxValidatorBroadcast, HandleBlockBroadcast, ProcessBlock
  <2>2. \E l \in {"done", "handle", "broadcast", "existed", "process", "disconnected"} :
          at' = [at EXCEPT ![t] = l]
    BY Zenon, <1>3 DEF Handle, HandleBroadcast, HandleTxValidatorBroadcast, HandleBlockBroadcast, ProcessBlock, Goto
  <2>3. \A u \in Threads : at'[u] = "flood" => at[u] = "flood"
    BY Zenon, <2>2
  <2> QED BY Zenon, <1>1, <2>1, <2>3
<1>4. ASSUME NEW t \in Threads, BroadcastMessage(t) PROVE FloodInv'
  <2> DEFINE n == NodeOf(t)
             m == Message(t)
  <2>1. floods' = floods /\ n \in Nodes /\ m \in Messages
    BY Zenon, <1>4, ThreadTypes DEF BroadcastMessage
  <2>2. CASE m \in broadcasted[n]
    <3>1. broadcasted' = broadcasted /\ at' = [at EXCEPT ![t] = "done"]
      BY Zenon, <1>4, <2>2 DEF BroadcastMessage, CountMessage, Goto
    <3>2. \A u \in Threads : at'[u] = "flood" => at[u] = "flood"
      BY Zenon, <3>1
    <3> QED BY Zenon, <1>1, <2>1, <3>1, <3>2
  <2>3. CASE m \notin broadcasted[n]
    <3>1. broadcasted' = [broadcasted EXCEPT ![n] = @ \union {m}] /\ at' = [at EXCEPT ![t] = "flood"]
      BY Zenon, <1>4, <2>3 DEF BroadcastMessage, CountMessage, Goto
    <3>2. m \in broadcasted'[n] /\ (\A k \in Nodes : broadcasted[k] \subseteq broadcasted'[k])
      BY Zenon, <2>1, <3>1
    <3>3. n \in Steady => floods[n][m] = 0
      BY Zenon, <2>1, <2>3 DEF CountedBeforeFlood
    <3>4. \A u \in Threads : u # t /\ at'[u] = "flood" => at[u] = "flood"
      BY Zenon, <3>1
    <3>5. n \in Steady => \A u \in Threads : at[u] = "flood" => NodeOf(u) # n \/ Message(u) # m
      BY Zenon, <2>3 DEF CountedBeforeFlood
    <3>6. \A k \in Steady : \A x \in Messages : floods'[k][x] # 0 => x \in broadcasted'[k]
      BY Zenon, <1>s, <2>1, <3>2 DEF CountedBeforeFlood
    <3>7. \A u \in Threads : at'[u] = "flood" /\ NodeOf(u) \in Steady =>
            Message(u) \in broadcasted'[NodeOf(u)] /\ floods'[NodeOf(u)][Message(u)] = 0
      BY Zenon, <2>1, <3>2, <3>3, <3>4, ThreadTypes DEF CountedBeforeFlood
    <3>8. \A u, v \in Threads :
            at'[u] = "flood" /\ at'[v] = "flood" /\ NodeOf(u) \in Steady
              /\ NodeOf(u) = NodeOf(v) /\ Message(u) = Message(v) => u = v
      BY Zenon, <3>4, <3>5 DEF CountedBeforeFlood
    <3>9. CountedBeforeFlood'
      BY Zenon, <3>6, <3>7, <3>8 DEF CountedBeforeFlood
    <3> QED BY Zenon, <1>0, <2>1, <3>9 DEF FloodsOnce
  <2> QED BY Zenon, <2>2, <2>3
<1>5. ASSUME NEW t \in Threads, Flood(t) PROVE FloodInv'
  <2> DEFINE n == NodeOf(t)
             m == Message(t)
  <2>1. /\ n \in Nodes /\ m \in Messages /\ at[t] = "flood"
        /\ n \in Steady => floods[n][m] = 0 /\ m \in broadcasted[n]
    BY Zenon, <1>5, ThreadTypes DEF Flood, CountedBeforeFlood
  <2>2. broadcasted' = broadcasted /\ floods' = [floods EXCEPT ![n][m] = @ + 1]
    BY Zenon, <1>5 DEF Flood
  <2>3. /\ n \in Steady => floods'[n][m] = 1
        /\ \A k \in Nodes : \A x \in Messages : floods'[k][x] = floods[k][x] \/ (k = n /\ x = m)
    BY <2>1, <2>2
  <2>4. \A u \in Threads : at'[u] = "flood" => at[u] = "flood" /\ u # t
    BY Zenon, <1>5 DEF Flood
  <2>5. n \in Steady => \A u \in Threads : at'[u] = "flood" => NodeOf(u) # n \/ Message(u) # m
    BY Zenon, <2>1, <2>4 DEF CountedBeforeFlood
  <2>6. CountedBeforeFlood'
    <3>1. \A k \in Steady : \A x \in Messages : floods'[k][x] # 0 => x \in broadcasted'[k]
      BY ZenonT(30), <1>s, <2>1, <2>2, <2>3 DEF CountedBeforeFlood
    <3>2. \A u \in Threads : at'[u] = "flood" /\ NodeOf(u) \in Steady =>
            Message(u) \in broadcasted'[NodeOf(u)] /\ floods'[NodeOf(u)][Message(u)] = 0
      BY Zenon, <2>2, <2>3, <2>4, <2>5, ThreadTypes DEF CountedBeforeFlood
    <3>3. \A u, v \in Threads :
            at'[u] = "flood" /\ at'[v] = "flood" /\ NodeOf(u) \in Steady
              /\ NodeOf(u) = NodeOf(v) /\ Message(u) = Message(v) => u = v
      BY Zenon, <2>4 DEF CountedBeforeFlood
    <3> QED BY Zenon, <3>1, <3>2, <3>3 DEF CountedBeforeFlood
  <2>7. FloodsOnce'
    BY <1>s, <2>3 DEF FloodsOnce
  <2> QED BY Zenon, <1>0, <2>6, <2>7
<1>6. ASSUME NEW n \in Nodes, Restart(n) PROVE FloodInv'
  <2>1. n \notin Steady /\ floods' = floods
    BY Zenon, <1>6 DEF Restart, Steady
  <2>2. \A k \in Steady : broadcasted'[k] = broadcasted[k]
    BY Zenon, <1>6, <1>s, <2>1 DEF Restart
  <2>3. \A u \in Threads : at'[u] = "flood" => at[u] = "flood"
    BY Zenon, <1>6 DEF Restart
  <2> QED BY Zenon, <1>0, <1>s, <2>1, <2>2, <2>3 DEF CountedBeforeFlood, FloodsOnce
<1>7. CASE UNCHANGED vars
  BY Zenon, <1>1, <1>7 DEF vars
<1> QED BY Zenon, <1>2, <1>3, <1>4, <1>5, <1>6, <1>7 DEF Next, Step

(* A node that does not restart writes a message to its sessions at most     *)
(* once, for any network, any restarts of other nodes and any number of      *)
(* copies handled at once (broadcastMessage).                                *)
THEOREM FloodsAtMostOnce == Spec => []FloodsOnce
<1>1. Init => FloodInv
  BY DEF Init, FloodInv, TypeOK, CountedBeforeFlood, FloodsOnce, Steady
<1>2. FloodInv /\ [Next]_vars => FloodInv'
  BY Zenon, FloodInductive
<1>3. FloodInv => FloodsOnce
  BY Zenon DEF FloodInv
<1> QED BY <1>1, <1>2, <1>3, PTL DEF Spec
-----------------------------------------------------------------------------
(* A thread that is about to count or to write a block its node has taken.   *)
Announces(t) == Message(t).kind = "block" /\ at[t] \in {"broadcast", "flood"}

(* A node announces a block once, when its chain gets it: the chain outlives *)
(* a restart.  So a task that handles a block is started once.               *)
AnnouncedOnce ==
  /\ \A t \in Threads : Announces(t) =>
       /\ floods[NodeOf(t)][Message(t)] = 0
       /\ Message(t).height <= height[NodeOf(t)]
  /\ \A t, u \in Threads :
       Announces(t) /\ Announces(u) /\ NodeOf(t) = NodeOf(u) /\ Message(t) = Message(u) => t = u
  /\ \A n \in Nodes : \A m \in Messages :
       m.kind = "block" /\ floods[n][m] # 0 => m.height <= height[n]
  /\ \A t \in Tasks :
       Message(t).kind = "block" /\ at[t] # "none" => floods[t[1][1]][Message(t)] # 0

(* A block of the chain of a steady node is counted or about to be.          *)
Counted(n, m) ==
  \/ m \in broadcasted[n]
  \/ \E u \in Threads : NodeOf(u) = n /\ Message(u) = m /\ at[u] = "broadcast"

ChainIsCounted ==
  \A n \in Steady : \A m \in Messages :
    m.kind = "block" /\ m.height <= height[n] => Counted(n, m)

ExistedExists ==
  \A t \in Tasks : at[t] = "existed" =>
    Message(t).kind = "block" /\ Message(t).height <= height[NodeOf(t)]

ForwardInv == Inv /\ AnnouncedOnce /\ ChainIsCounted /\ ExistedExists

(* Steps that move no thread to or from an announcement of a block, and      *)
(* lower no chain.                                                           *)
LEMMA ForwardFrame ==
  ASSUME ForwardInv, Inv', height' = height, floods' = floods,
         NEW t \in Threads, NEW l, at' = [at EXCEPT ![t] = l],
         Message(t).kind = "block" =>
           /\ at[t] \notin {"none", "broadcast"}
           /\ l \notin {"broadcast", "flood"}
           /\ l = "existed" => Message(t).height <= height[NodeOf(t)],
         Message(t).kind # "block" => l # "existed",
         broadcasted' = broadcasted
  PROVE  ForwardInv'
<1> USE DEF ForwardInv, Inv, TypeOK
<1>1. at'[t] = l /\ \A u \in Threads : u # t => at'[u] = at[u]
  OBVIOUS
<1>2. Tasks \subseteq Threads
  BY Zenon DEF Threads
<1>3. \A u \in Threads : Announces(u)' => Announces(u)
  BY Zenon, <1>1 DEF Announces
<1>4. AnnouncedOnce'
  BY Zenon, <1>1, <1>2, <1>3 DEF AnnouncedOnce
<1>5. ChainIsCounted'
  <2>1. ASSUME NEW n \in Steady, NEW m \in Messages, m.kind = "block", Counted(n, m)
        PROVE  Counted(n, m)'
    BY Zenon, <1>1, <2>1 DEF Counted
  <2> QED  BY Zenon, <2>1 DEF ChainIsCounted
<1>6. ExistedExists'
  BY Zenon, <1>1, <1>2 DEF ExistedExists
<1> QED  BY Zenon, <1>4, <1>5, <1>6

(* A node takes its next block and starts to announce it.                    *)
LEMMA ForwardTake ==
  ASSUME ForwardInv, Inv', NEW t \in Threads, NEW n \in Nodes, n = NodeOf(t),
         NEW h \in Nat, h = Message(t).height, Message(t).kind = "block", h = height[n] + 1,
         t \in Tasks => at[t] # "none", at[t] # "broadcast",
         height' = [height EXCEPT ![n] = h], at' = [at EXCEPT ![t] = "broadcast"],
         floods' = floods, broadcasted' = broadcasted
  PROVE  ForwardInv'
<1> DEFINE m == Message(t)
<1>0. /\ AnnouncedOnce /\ ChainIsCounted /\ ExistedExists
      /\ height \in [Nodes -> Nat] /\ DOMAIN at = Threads
  BY Zenon DEF ForwardInv, Inv, TypeOK
<1>1. at'[t] = "broadcast" /\ \A u \in Threads : u # t => at'[u] = at[u]
  BY Zenon, <1>0
<1>2. Tasks \subseteq Threads /\ m \in Messages
  BY Zenon, ThreadTypes DEF Threads
<1>3. \A k \in Nodes : height'[k] \in Nat /\ height[k] \in Nat /\ height[k] <= height'[k]
  BY <1>0
<1>4. height'[n] = h /\ ~(h <= height[n]) /\ \A k \in Nodes \ {n} : height'[k] = height[k]
  BY <1>0
<1>m. m \in Messages /\ m.height = h /\ m.kind = "block" /\ m = Message(t)
  BY Zenon, <1>2
<1> HIDE DEF m
<1>5. \A u \in Threads : Announces(u) => NodeOf(u) # n \/ Message(u) # m
  BY <1>0, <1>4, <1>m DEF AnnouncedOnce
<1>6. floods[n][m] = 0
  BY Zenon, <1>0, <1>4, <1>m DEF AnnouncedOnce
<1>7. \A u \in Threads : u # t => (Announces(u)' <=> Announces(u))
  BY Zenon, <1>1 DEF Announces
<1>8. AnnouncedOnce'
  <2>1. ASSUME NEW u \in Threads, Announces(u)'
        PROVE  floods[NodeOf(u)][Message(u)] = 0 /\ Message(u).height <= height'[NodeOf(u)]
    <3>1. CASE u = t
      BY SMTT(30), <1>3, <1>4, <1>6, <1>m, <3>1
    <3>2. CASE u # t
      <4>1. /\ floods[NodeOf(u)][Message(u)] = 0 /\ Message(u).height <= height[NodeOf(u)]
        BY Zenon, <1>0, <1>7, <2>1, <3>2 DEF AnnouncedOnce
      <4>2. NodeOf(u) \in Nodes /\ Message(u).height \in Nat
        BY Zenon, ThreadTypes
      <4> QED  BY <1>3, <4>1, <4>2
    <3> QED  BY Zenon, <3>1, <3>2
  <2>2. \A u, v \in Threads :
          Announces(u)' /\ Announces(v)' /\ NodeOf(u) = NodeOf(v) /\ Message(u) = Message(v) => u = v
    BY Zenon, <1>0, <1>5, <1>7, <1>m DEF AnnouncedOnce
  <2>3. ASSUME NEW k \in Nodes, NEW x \in Messages, x.kind = "block", floods[k][x] # 0
        PROVE  x.height <= height'[k]
    <3>1. x.height <= height[k] /\ x.height \in Nat
      BY Zenon, <1>0, <2>3, GossipAssumption DEF AnnouncedOnce
    <3> QED  BY <1>3, <3>1
  <2>4. \A u \in Tasks :
          Message(u).kind = "block" /\ at'[u] # "none" => floods[u[1][1]][Message(u)] # 0
    BY Zenon, <1>0, <1>1, <1>2 DEF AnnouncedOnce
  <2> QED  BY Zenon, <2>1, <2>2, <2>3, <2>4 DEF AnnouncedOnce
<1>9. ChainIsCounted'
  <2>1. ASSUME NEW k \in Steady, NEW x \in Messages, x.kind = "block", x.height <= height'[k]
        PROVE  Counted(k, x)'
    <3>0. k \in Nodes /\ x.height \in Nat
      BY Zenon, GossipAssumption DEF Steady
    <3>1. CASE x.height <= height[k]
      <4>1. Counted(k, x)
        BY Zenon, <1>0, <2>1, <3>1 DEF ChainIsCounted
      <4> QED  BY Zenon, <1>1, <4>1 DEF Counted
    <3>2. CASE ~(x.height <= height[k])
      <4>1. k = n /\ x.height = h
        BY SMTT(30), <1>0, <1>4, <2>1, <3>0, <3>2
      <4>2. x = m
        BY <1>m, <2>1, <4>1, GossipAssumption
      <4> QED  BY Zenon, <1>1, <1>m, <4>1, <4>2 DEF Counted
    <3> QED  BY Zenon, <3>1, <3>2
  <2> QED  BY Zenon, <2>1 DEF ChainIsCounted
<1>10. ExistedExists'
  <2>1. ASSUME NEW u \in Tasks, at'[u] = "existed"
        PROVE  Message(u).kind = "block" /\ Message(u).height <= height'[NodeOf(u)]
    <3>1. /\ Message(u).kind = "block" /\ Message(u).height <= height[NodeOf(u)]
      BY Zenon, <1>0, <1>1, <1>2, <2>1 DEF ExistedExists
    <3>2. NodeOf(u) \in Nodes /\ Message(u).height \in Nat
      BY Zenon, <1>2, ThreadTypes
    <3> QED  BY <1>3, <3>1, <3>2
  <2> QED  BY Zenon, <2>1 DEF ExistedExists
<1> QED  BY Zenon, <1>8, <1>9, <1>10 DEF ForwardInv

(* Every step keeps what is known of the blocks that have been forwarded.    *)
LEMMA ForwardInductive == ForwardInv /\ [Next]_vars => ForwardInv'
<1> SUFFICES ASSUME ForwardInv, [Next]_vars PROVE ForwardInv'
  OBVIOUS
<1>0. /\ Inv /\ AnnouncedOnce /\ ChainIsCounted /\ ExistedExists
      /\ height \in [Nodes -> Nat] /\ DOMAIN at = Threads
      /\ broadcasted \in [Nodes -> SUBSET Messages] /\ floods \in [Nodes -> [Messages -> Nat]]
  BY Zenon DEF ForwardInv, Inv, TypeOK
<1>i. Inv'
  BY Zenon, <1>0, InvInductive
<1>t. Tasks \subseteq Threads /\ Steady \subseteq Nodes
  BY Zenon DEF Threads, Steady
<1>1. ASSUME NEW n \in Nodes, NEW h \in Heights, MakeTx(n, h) PROVE ForwardInv'
  <2> DEFINE m == [kind |-> "tx", height |-> h]
             t == <<n, m>>
  <2>1. /\ m \in Messages /\ at' = [at EXCEPT ![t] = "broadcast"]
        /\ height' = height /\ floods' = floods /\ broadcasted' = broadcasted
    BY Zenon, <1>1 DEF MakeTx, Goto
  <2>2. t \in Threads /\ Message(t).kind = "tx"
    BY <2>1, OwnThreads
  <2> HIDE DEF t
  <2>3. Message(t).kind # "block"
    BY Zenon, <2>2
  <2> QED  BY Zenon, <1>i, <2>1, <2>2, <2>3, ForwardFrame
<1>2. ASSUME NEW n \in Nodes, NEW h \in Heights, MakeBlock(n, h) PROVE ForwardInv'
  <2> DEFINE m == [kind |-> "block", height |-> h]
             t == <<n, m>>
  <2>1. /\ m \in Messages /\ at[t] = "none" /\ at' = [at EXCEPT ![t] = "broadcast"]
        /\ h = height[n] + 1 /\ height' = [height EXCEPT ![n] = h]
        /\ floods' = floods /\ broadcasted' = broadcasted
    BY Zenon, <1>2 DEF MakeBlock, Process, Goto
  <2>2. t \in Threads /\ t \notin Tasks /\ NodeOf(t) = n /\ Message(t) = m
    BY Zenon, <2>1, OwnThreads
  <2>3. h \in Nat /\ Message(t).height = h /\ Message(t).kind = "block"
    BY <2>2, GossipAssumption DEF Heights
  <2> HIDE DEF t
  <2> QED  BY Zenon, <1>i, <2>1, <2>2, <2>3, ForwardTake
<1>3. ASSUME NEW t \in Threads, BroadcastMessage(t) PROVE ForwardInv'
  <2> DEFINE n == NodeOf(t)
             m == Message(t)
  <2>1. /\ at[t] = "broadcast" /\ height' = height /\ floods' = floods
        /\ n \in Nodes /\ m \in Messages
    BY Zenon, <1>3, ThreadTypes DEF BroadcastMessage
  <2>2. PICK l \in {"done", "flood"} : at' = [at EXCEPT ![t] = l]
    BY Zenon, <1>3 DEF BroadcastMessage, CountMessage, Goto
  <2>3. \/ broadcasted' = broadcasted /\ m \in broadcasted[n]
        \/ broadcasted' = [broadcasted EXCEPT ![n] = @ \union {m}]
    BY Zenon, <1>3 DEF BroadcastMessage, CountMessage
  <2>4. m \in broadcasted'[n] /\ \A k \in Nodes : broadcasted[k] \subseteq broadcasted'[k]
    BY Zenon, <1>0, <2>1, <2>3
  <2>5. at'[t] = l /\ \A u \in Threads : u # t => at'[u] = at[u]
    BY Zenon, <1>0, <2>2
  <2>6. \A u \in Threads : Announces(u)' => Announces(u)
    BY Zenon, <2>1, <2>5 DEF Announces
  <2>7. AnnouncedOnce'
    BY Zenon, <1>0, <1>t, <2>1, <2>5, <2>6 DEF AnnouncedOnce
  <2>8. ASSUME NEW k \in Steady, NEW x \in Messages, Counted(k, x) PROVE Counted(k, x)'
    <3>1. CASE k = n /\ x = m
      BY Zenon, <2>4, <3>1 DEF Counted
    <3>2. CASE ~(k = n /\ x = m)
      BY Zenon, <1>t, <2>4, <2>5, <2>8, <3>2 DEF Counted
    <3> QED  BY Zenon, <3>1, <3>2
  <2>9. ChainIsCounted'
    BY Zenon, <1>0, <2>1, <2>8 DEF ChainIsCounted
  <2>10. ExistedExists'
    BY Zenon, <1>0, <1>t, <2>1, <2>2, <2>5 DEF ExistedExists
  <2> QED  BY Zenon, <1>i, <2>7, <2>9, <2>10 DEF ForwardInv
<1>4. ASSUME NEW t \in Threads, Flood(t) PROVE ForwardInv'
  <2> DEFINE n == NodeOf(t)
             m == Message(t)
  <2>1. /\ at[t] = "flood" /\ height' = height /\ broadcasted' = broadcasted
        /\ floods' = [floods EXCEPT ![n][m] = @ + 1]
        /\ at' = [u \in Threads |-> IF u = t THEN "done"
                                    ELSE IF u \in Recipients(n) \X {m} THEN "sent" ELSE at[u]]
        /\ n \in Nodes /\ m \in Messages
    BY Zenon, <1>4, ThreadTypes DEF Flood
  <2>2. /\ floods'[n][m] = floods[n][m] + 1
        /\ \A k \in Nodes : \A x \in Messages : floods'[k][x] = floods[k][x] \/ (k = n /\ x = m)
    BY Zenon, <1>0, <2>1
  <2>3. floods'[n][m] # 0 /\ \A k \in Nodes : \A x \in Messages : floods[k][x] # 0 => floods'[k][x] # 0
    BY <1>0, <2>1, <2>2
  <2>4. m.kind = "block" => floods[n][m] = 0 /\ m.height <= height[n]
    BY Zenon, <1>0, <2>1 DEF AnnouncedOnce, Announces
  <2>5. \A u \in Threads : /\ u = t => at'[u] = "done"
                           /\ u # t /\ u \in Recipients(n) \X {m} => at'[u] = "sent"
                           /\ u # t /\ u \notin Recipients(n) \X {m} => at'[u] = at[u]
    BY Zenon, <2>1
  <2>6. \A u \in Recipients(n) \X {m} : u \in Tasks /\ u[1][1] = n /\ Message(u) = m
    <3>1. links \subseteq Sessions
      BY Zenon, <1>0 DEF Inv, TypeOK, Sessions
    <3> QED BY Zenon, <2>1, <3>1 DEF Recipients, Tasks, Message
  <2> HIDE DEF n, m
  <2>7. \A u \in Threads : Announces(u)' => Announces(u) /\ u # t
    BY Zenon, <2>5 DEF Announces
  <2>8. \A u \in Threads : Announces(u)' => NodeOf(u) # n \/ Message(u) # m
    BY Zenon, <1>0, <2>1, <2>7 DEF AnnouncedOnce, Announces, n, m
  <2>9. AnnouncedOnce'
    <3>1. ASSUME NEW u \in Threads, Announces(u)'
          PROVE  /\ floods'[NodeOf(u)][Message(u)] = 0 /\ Message(u).height <= height'[NodeOf(u)]
      <4>1. NodeOf(u) \in Nodes /\ Message(u) \in Messages
        BY Zenon, ThreadTypes
      <4>2. floods'[NodeOf(u)][Message(u)] = floods[NodeOf(u)][Message(u)]
        BY Zenon, <2>2, <2>8, <3>1, <4>1
      <4> QED  BY Zenon, <1>0, <2>1, <2>7, <3>1, <4>2 DEF AnnouncedOnce
    <3>2. \A u, v \in Threads :
            Announces(u)' /\ Announces(v)' /\ NodeOf(u) = NodeOf(v) /\ Message(u) = Message(v) => u = v
      BY Zenon, <1>0, <2>7 DEF AnnouncedOnce
    <3>3. \A k \in Nodes : \A x \in Messages :
            x.kind = "block" /\ floods'[k][x] # 0 => x.height <= height'[k]
      BY Zenon, <1>0, <2>1, <2>2, <2>4 DEF AnnouncedOnce
    <3>4. ASSUME NEW u \in Tasks, Message(u).kind = "block", at'[u] # "none"
          PROVE  floods'[u[1][1]][Message(u)] # 0
      <4>1. u[1][1] \in Nodes /\ Message(u) \in Messages
        BY Zenon, <1>t, GossipAssumption, ThreadTypes DEF Tasks
      <4>2. CASE u # t /\ u \in Recipients(n) \X {m}
        BY Zenon, <2>3, <2>6, <4>2
      <4>3. CASE u = t \/ u \notin Recipients(n) \X {m}
        <5>1. at[u] # "none"
          BY Zenon, <1>t, <2>1, <2>5, <3>4, <4>3
        <5> QED  BY Zenon, <1>0, <2>3, <3>4, <4>1, <5>1 DEF AnnouncedOnce
      <4> QED  BY Zenon, <4>2, <4>3
    <3> QED  BY Zenon, <3>1, <3>2, <3>3, <3>4 DEF AnnouncedOnce
  <2>10. ASSUME NEW k \in Steady, NEW x \in Messages, x.kind = "block", Counted(k, x)
         PROVE  Counted(k, x)'
    <3>1. ASSUME NEW u \in Threads, Message(u) = x, at[u] = "broadcast" PROVE at'[u] = "broadcast"
      <4>1. u # t
        BY Zenon, <2>1, <3>1
      <4>2. u \notin Recipients(n) \X {m}
        <5>1. SUFFICES ASSUME u \in Recipients(n) \X {m} PROVE FALSE
          OBVIOUS
        <5>2. floods[n][m] # 0 /\ m.kind = "block"
          BY Zenon, <1>0, <2>6, <2>10, <3>1, <5>1 DEF AnnouncedOnce
        <5> QED  BY Zenon, <2>4, <5>2
      <4> QED  BY Zenon, <2>5, <3>1, <4>1, <4>2
    <3> QED  BY Zenon, <2>1, <2>10, <3>1 DEF Counted
  <2>11. ChainIsCounted'
    BY Zenon, <1>0, <2>1, <2>10 DEF ChainIsCounted
  <2>12. ExistedExists'
    BY Zenon, <1>0, <1>t, <2>1, <2>5 DEF ExistedExists
  <2> QED  BY Zenon, <1>i, <2>9, <2>11, <2>12 DEF ForwardInv
<1>5. ASSUME NEW t \in Tasks, HandleBroadcast(t) PROVE ForwardInv'
  <2>1. PICK l \in {"done", "handle"} : at' = [at EXCEPT ![t] = l]
    BY Zenon, <1>5 DEF HandleBroadcast, Goto
  <2>2. at[t] = "sent" /\ height' = height /\ floods' = floods /\ broadcasted' = broadcasted
    BY Zenon, <1>5 DEF HandleBroadcast
  <2> QED  BY Zenon, <1>i, <1>t, <2>1, <2>2, ForwardFrame
<1>6. ASSUME NEW t \in Tasks, HandleTxValidatorBroadcast(t) PROVE ForwardInv'
  <2>1. PICK l \in {"done", "broadcast"} : at' = [at EXCEPT ![t] = l]
    BY Zenon, <1>6 DEF HandleTxValidatorBroadcast, Goto
  <2>2. /\ Message(t).kind # "block" /\ height' = height /\ floods' = floods
        /\ broadcasted' = broadcasted
    BY Zenon, <1>6 DEF HandleTxValidatorBroadcast
  <2> QED  BY Zenon, <1>i, <1>t, <2>1, <2>2, ForwardFrame
<1>7. ASSUME NEW t \in Tasks, HandleBlockBroadcast(t) PROVE ForwardInv'
  <2>1. /\ at[t] = "handle" /\ Message(t).kind = "block"
        /\ height' = height /\ floods' = floods /\ broadcasted' = broadcasted
    BY Zenon, <1>7 DEF HandleBlockBroadcast
  <2>2. \E l \in {"existed", "process", "done"} :
          /\ at' = [at EXCEPT ![t] = l]
          /\ l = "existed" => Message(t).height <= height[NodeOf(t)]
    BY Zenon, <1>7 DEF HandleBlockBroadcast, Goto
  <2>3. PICK l \in {"existed", "process", "done"} :
          /\ at' = [at EXCEPT ![t] = l]
          /\ l = "existed" => Message(t).height <= height[NodeOf(t)]
    BY Zenon, <2>2
  <2> QED  BY Zenon, <1>i, <1>t, <2>1, <2>3, ForwardFrame
<1>8. ASSUME NEW t \in Tasks, ProcessBlock(t) PROVE ForwardInv'
  <2>1. /\ at[t] = "process" /\ Message(t).kind = "block"
        /\ Message(t).height = height[NodeOf(t)] + 1
    BY Zenon, <1>0, <1>8, <1>t DEF ProcessBlock, Inv, StillNext, InMutex
  <2>2. /\ height' = [height EXCEPT ![NodeOf(t)] = Message(t).height]
        /\ at' = [at EXCEPT ![t] = "broadcast"] /\ floods' = floods /\ broadcasted' = broadcasted
    BY Zenon, <1>8, <2>1 DEF ProcessBlock, Process, Goto
  <2>3. NodeOf(t) \in Nodes /\ Message(t).height \in Nat
    BY Zenon, <1>t, ThreadTypes
  <2>4. at[t] # "none" /\ at[t] # "broadcast" /\ t \in Threads
    BY Zenon, <1>t, <2>1
  <2> QED  BY Zenon, <1>i, <2>1, <2>2, <2>3, <2>4, ForwardTake
<1>9. ASSUME NEW n \in Nodes, Restart(n) PROVE ForwardInv'
  <2>1. /\ height' = height /\ floods' = floods /\ n \notin Steady
        /\ broadcasted' = [broadcasted EXCEPT ![n] = {}]
        /\ \A u \in Threads : at'[u] = IF NodeOf(u) = n /\ at[u] # "none" THEN "done" ELSE at[u]
    BY Zenon, <1>9 DEF Restart, Steady
  <2>2. \A u \in Threads : Announces(u)' => Announces(u)
    BY Zenon, <2>1 DEF Announces
  <2>3. AnnouncedOnce'
    BY Zenon, <1>0, <1>t, <2>1, <2>2 DEF AnnouncedOnce
  <2>4. ASSUME NEW k \in Steady, NEW x \in Messages, Counted(k, x) PROVE Counted(k, x)'
    <3>1. k # n /\ broadcasted'[k] = broadcasted[k]
      BY Zenon, <1>0, <1>t, <2>1
    <3> QED  BY Zenon, <2>1, <2>4, <3>1 DEF Counted
  <2>5. ChainIsCounted'
    BY Zenon, <1>0, <2>1, <2>4 DEF ChainIsCounted
  <2>6. ExistedExists'
    BY ZenonT(30), <1>0, <1>t, <2>1 DEF ExistedExists
  <2> QED  BY Zenon, <1>i, <2>3, <2>5, <2>6 DEF ForwardInv
<1>10. CASE UNCHANGED vars
  BY <1>0, <1>i, <1>10
     DEF vars, ForwardInv, AnnouncedOnce, Announces, ChainIsCounted, Counted, ExistedExists
<1> QED
  BY Zenon, <1>1, <1>2, <1>3, <1>4, <1>5, <1>6, <1>7, <1>8, <1>9, <1>10 DEF Next, Step, Handle

(* handleBlockBroadcast may return at a block that exists without passing it *)
(* on: a node that does not restart has broadcast such a block or has a      *)
(* thread that is about to, for any network and any restarts of the others.  *)
THEOREM ExistingWasForwarded == Spec => []ExistingIsForwarded
<1>1. Init => ForwardInv
  <2> SUFFICES ASSUME Init PROVE ForwardInv
    OBVIOUS
  <2>1. TypeOK
    BY Zenon DEF Init, TypeOK
  <2>2. Tasks \subseteq Threads /\ Steady \subseteq Nodes
    BY Zenon DEF Threads, Steady
  <2>3. /\ \A t \in Threads : at[t] = "none"
        /\ \A n \in Nodes : height[n] = 0 /\ \A m \in Messages : floods[n][m] = 0
    BY Zenon DEF Init
  <2>4. \A m \in Messages : m.height \in Nat /\ ~(m.height <= 0)
    BY GossipAssumption
  <2>5. Inv
    BY Zenon, <2>1, <2>2, <2>3 DEF Inv, SentExists, OneInMutex, StillNext, Undisturbed, InMutex
  <2>6. AnnouncedOnce /\ ExistedExists
    BY Zenon, <2>2, <2>3 DEF AnnouncedOnce, Announces, ExistedExists
  <2>7. ChainIsCounted
    BY Zenon, <2>2, <2>3, <2>4 DEF ChainIsCounted
  <2> QED  BY Zenon, <2>5, <2>6, <2>7 DEF ForwardInv
<1>2. ForwardInv => ExistingIsForwarded
  <2> SUFFICES ASSUME ForwardInv, NEW t \in Tasks, at[t] = "existed", NodeOf(t) \in Steady
               PROVE  Counted(NodeOf(t), Message(t))
    BY Zenon DEF ExistingIsForwarded, Counted
  <2>1. Message(t) \in Messages
    BY Zenon, ThreadTypes DEF Threads
  <2> QED  BY Zenon, <2>1 DEF ForwardInv, ExistedExists, ChainIsCounted
<1> QED  BY <1>1, <1>2, ForwardInductive, PTL DEF Spec

-----------------------------------------------------------------------------
(* Requests.  A request enters the table before its message is written, and  *)
(* leaves it never; so whatever is under way (a message being written, a     *)
(* request the peer has read, an answer on the wire or with a task of the    *)
(* pool) is about a request in the table.                                    *)
RequestsInv ==
  /\ DOMAIN pc = Requesters \union PoolTasks /\ DOMAIN task = PoolTasks
  /\ \A r \in Requesters : pc[r] = "write" => r \in requests
  /\ \A r \in Requesters : r = writing \/ r \in asked \/ r \in inbox => r \in requests
  /\ \A t \in PoolTasks : task[t] \in Requesters => task[t] \in requests /\ pc[t] # "disconnect"
  /\ inbox \subseteq Requesters /\ asked \subseteq Requesters

(* Every step of a requester, a task, the I/O thread, the peer and stop()    *)
(* keeps this.                                                               *)
LEMMA RequestsInductive == RequestsInv /\ [RequestsNext]_requestsVars => RequestsInv'
<1> SUFFICES ASSUME RequestsInv, [RequestsNext]_requestsVars PROVE RequestsInv'
  OBVIOUS
<1> USE RequestsAssumption DEF RequestsInv, GoTo, locks, table
<1>1. ASSUME NEW r \in Requesters, Requester(r) PROVE RequestsInv'
  <2>1. CASE Send(r)  BY Zenon, <2>1 DEF Send
  <2>2. CASE FindSession(r)  BY <2>2 DEF FindSession
  <2>3. CASE LockRequests(r)  BY Zenon, <2>3 DEF LockRequests, EnterRequest
  <2>4. CASE Write(r)  BY Zenon, <2>4 DEF Write
  <2>5. CASE EndRequest(r)  BY Zenon, <2>5 DEF EndRequest
  <2> QED  BY Zenon, <1>1, <2>1, <2>2, <2>3, <2>4, <2>5 DEF Requester
<1>2. ASSUME NEW r \in Requesters, PeerAnswers(r) PROVE RequestsInv'
  BY Zenon, <1>2 DEF PeerAnswers
<1>3. ASSUME NEW t \in PoolTasks, OnRead(t) PROVE RequestsInv'
  BY <1>3 DEF OnRead
<1>4. ASSUME NEW t \in PoolTasks, Task(t) PROVE RequestsInv'
  <2>1. CASE Dispatch(t)  BY Zenon, <2>1 DEF Dispatch
  <2>2. CASE HandleRequest(t)  BY <2>2 DEF HandleRequest
  <2>3. CASE HandleAnswer(t)  BY <2>3 DEF HandleAnswer
  <2>4. CASE DisconnectSession(t)  BY Zenon, <2>4 DEF DisconnectSession
  <2>5. CASE Broadcast(t)  BY <2>5 DEF Broadcast
  <2> QED  BY Zenon, <1>4, <2>1, <2>2, <2>3, <2>4, <2>5 DEF Task
<1>5. CASE OnWrite  BY Zenon, <1>5 DEF OnWrite, Release
<1>6. CASE ConnectionFails  BY Zenon, <1>6 DEF ConnectionFails
<1>7. CASE Unregister  BY Zenon, <1>7 DEF Unregister
<1>8. CASE Stop  BY Zenon, <1>8 DEF Stop
<1>9. CASE UNCHANGED requestsVars  BY Zenon, <1>9 DEF requestsVars
<1> QED  BY Zenon, <1>1, <1>2, <1>3, <1>4, <1>5, <1>6, <1>7, <1>8, <1>9 DEF RequestsNext

(* The answer to a request this node has made, however late and whatever     *)
(* happened to the session, finds its request: handleRequestNodesAnswer and  *)
(* its siblings never disconnect the peer for it.                            *)
THEOREM AnswersAreRecognised == RequestsSpec => []AnswersFindRequests
<1>1. RequestsInit => RequestsInv
  BY Zenon, RequestsAssumption DEF RequestsInit, RequestsInv
<1>2. RequestsInv => AnswersFindRequests
  BY Zenon DEF RequestsInv, AnswersFindRequests
<1> QED  BY <1>1, <1>2, RequestsInductive, PTL DEF RequestsSpec

-----------------------------------------------------------------------------
(* A block and its bytes. *)

(* Natural numbers have a least one, which is what induction rests on.       *)
LEMMA LeastNat ==
  ASSUME NEW S \in SUBSET Nat, S # {}
  PROVE  \E m \in S : \A k \in S : m <= k
<1>1. PICK R : IsWellFoundedOn(R, Nat) /\ R = {p \in Nat \X Nat : p[1] < p[2]}
  BY Zenon, NatLessThanWellFounded DEF OpToRel
<1>2. PICK m \in S : \A k \in S : ~(<<k, m>> \in R)
  BY Zenon, <1>1, WFMin
<1>3. ASSUME NEW k \in S PROVE m <= k
  <2>1. ~(<<k, m>> \in {p \in Nat \X Nat : p[1] < p[2]})
    BY Zenon, <1>1, <1>2
  <2>2. <<k, m>> \in Nat \X Nat /\ <<k, m>>[1] = k /\ <<k, m>>[2] = m
    OBVIOUS
  <2>3. ~(k < m)
    BY Zenon, <2>1, <2>2
  <2> QED
    BY <2>3
<1> QED
  BY Zenon, <1>3

(* Induction up to len, for a set of natural numbers.                        *)
LEMMA InductionUpTo ==
  ASSUME NEW len \in Nat, NEW S, 0 \in S,
         \A k \in 1..len : k - 1 \in S => k \in S
  PROVE  \A k \in 0..len : k \in S
<1> DEFINE Rest == {k \in 0..len : k \notin S}
<1> SUFFICES ASSUME Rest # {} PROVE FALSE
  BY Zenon
<1>1. PICK m \in Rest : \A k \in Rest : m <= k
  <2>1. Rest \in SUBSET Nat
    OBVIOUS
  <2> QED
    BY Zenon, <2>1, LeastNat
<1>2. m \in 1..len
  <2>1. m # 0
    BY Zenon
  <2> QED
    BY <2>1
<1>3. m - 1 \in S
  <2>1. m - 1 \in 0..len /\ ~(m <= m - 1)
    BY <1>2
  <2> QED
    BY Zenon, <1>1, <2>1
<1> QED
  BY Zenon, <1>2, <1>3

Sent == Txs \cup Validators

CellSet == ({"length"} \X Nat) \cup (Sent \X Nat)

(* cells[n] are the cells of the first n transactions of a list.             *)
IsCells(cells, list, len) ==
  cells = [n \in 0..len |->
             IF n = 0 THEN <<>>
             ELSE cells[n - 1] \o <<<<"length", Size[list[n]]>>>> \o Payload(list[n])]

LEMMA CellsExist ==
  ASSUME NEW list, NEW len \in Nat
  PROVE  \E cells : IsCells(cells, list, len)
<1> DEFINE S == {k \in Nat : \E g : IsCells(g, list, k)}
           Next1(c, n) == c \o <<<<"length", Size[list[n]]>>>> \o Payload(list[n])
<1>1. 0 \in S
  <2> DEFINE g == [k \in 0..0 |-> <<>>]
  <2>1. IsCells(g, list, 0)
    BY DEF IsCells
  <2> QED
    BY <2>1
<1>2. ASSUME NEW k \in 1..len, k - 1 \in S PROVE k \in S
  <2>1. PICK g : IsCells(g, list, k - 1)
    BY Zenon, <1>2
  <2> DEFINE h == [j \in 0..k |-> IF j <= k - 1 THEN g[j] ELSE Next1(g[k - 1], k)]
  <2>2. ASSUME NEW j \in 0..k
        PROVE  h[j] = IF j = 0 THEN <<>> ELSE Next1(h[j - 1], j)
    <3>1. CASE j = 0
      <4>1. 0 \in 0..(k - 1) /\ 0 <= k - 1
        OBVIOUS
      <4>2. h[0] = g[0] /\ g[0] = <<>>
        BY Zenon, <2>1, <4>1, <3>1 DEF IsCells
      <4> QED
        BY Zenon, <3>1, <4>2
    <3>2. CASE j \in 1..(k - 1)
      <4>1. j - 1 \in 0..k /\ j \in 0..(k - 1) /\ j # 0 /\ j - 1 <= k - 1 /\ j <= k - 1
        BY <3>2
      <4> HIDE DEF Next1
      <4>2. h[j] = g[j] /\ h[j - 1] = g[j - 1]
        BY Zenon, <4>1
      <4>3. g[j] = Next1(g[j - 1], j)
        BY Zenon, <2>1, <4>1 DEF IsCells, Next1
      <4> QED
        BY Zenon, <4>1, <4>2, <4>3
    <3>3. CASE j = k
      <4>1. j # 0 /\ ~(j <= k - 1) /\ k - 1 \in 0..k /\ k - 1 <= k - 1
        BY <3>3
      <4> HIDE DEF Next1
      <4>2. h[j] = Next1(g[k - 1], k) /\ h[k - 1] = g[k - 1]
        BY Zenon, <4>1, <3>3
      <4> QED
        BY Zenon, <3>3, <4>1, <4>2
    <3> QED
      BY <3>1, <3>2, <3>3
  <2>3. IsCells(h, list, k)
    BY Zenon, <2>2 DEF IsCells
  <2>4. k \in Nat
    OBVIOUS
  <2> QED
    BY Zenon, <2>3, <2>4
<1> HIDE DEF S
<1>3. len \in S
  <2>1. \A k \in 0..len : k \in S
    BY Zenon, <1>1, <1>2, InductionUpTo
  <2> QED
    BY <2>1
<1> QED
  BY Zenon, <1>3 DEF S

LEMMA CellsAreLast ==
  ASSUME NEW list, Len(list) \in Nat
  PROVE  \E cells : IsCells(cells, list, Len(list)) /\ Cells(list) = cells[Len(list)]
<1>1. \E cells : IsCells(cells, list, Len(list))
  BY Zenon, CellsExist
<1> DEFINE f == CHOOSE cells : cells = [n \in 0..Len(list) |->
                  IF n = 0 THEN <<>>
                  ELSE cells[n - 1] \o <<<<"length", Size[list[n]]>>>> \o Payload(list[n])]
<1>2. IsCells(f, list, Len(list))
  BY Zenon, <1>1 DEF IsCells
<1>3. Cells(list) = f[Len(list)]
  BY ZenonT(30) DEF Cells
<1> QED
  BY Zenon, <1>2, <1>3

(* Where the transactions of a list are among the cells of a block: off[n]   *)
(* is the offset behind the first n of them.                                 *)
Laid(whole, list, off, len) ==
  /\ off \in [0..len -> Nat]
  /\ \A n \in 1..len :
       /\ off[n] = off[n - 1] + 1 + Size[list[n]]
       /\ off[n] <= Len(whole)
       /\ whole[off[n - 1] + 1] = <<"length", Size[list[n]]>>
       /\ \A i \in 1..Size[list[n]] : whole[off[n - 1] + 1 + i] = <<list[n], i>>

(* What one transaction adds to the cells before it.                         *)
LEMMA OneMore ==
  ASSUME NEW c \in Seq(CellSet), NEW t \in Sent
  PROVE  LET d == c \o <<<<"length", Size[t]>>>> \o Payload(t)
         IN  /\ d \in Seq(CellSet) /\ Len(d) = Len(c) + 1 + Size[t]
             /\ \A j \in 1..Len(c) : d[j] = c[j]
             /\ d[Len(c) + 1] = <<"length", Size[t]>>
             /\ \A i \in 1..Size[t] : d[Len(c) + 1 + i] = <<t, i>>
<1>1. Size[t] \in Nat
  BY Zenon, BlockAssumption DEF Sent
<1>2. Payload(t) \in Seq(CellSet) /\ Len(Payload(t)) = Size[t]
      /\ \A i \in 1..Size[t] : Payload(t)[i] = <<t, i>>
  BY SMTT(30), <1>1 DEF Payload, CellSet
<1>3. <<<<"length", Size[t]>>>> \in Seq(CellSet)
  BY <1>1 DEF CellSet
<1> DEFINE l == <<"length", Size[t]>>
           p == Payload(t)
<1>4. Len(<<l>>) = 1 /\ <<l>>[1] = l
  OBVIOUS
<1> HIDE DEF l, p
<1>5. <<l>> \in Seq(CellSet) /\ p \in Seq(CellSet) /\ Len(p) = Size[t]
      /\ \A i \in 1..Size[t] : p[i] = <<t, i>>
  BY Zenon, <1>2, <1>3 DEF l, p
<1> DEFINE e == c \o <<l>>
           d == e \o p
<1>6. e \in Seq(CellSet) /\ Len(e) = Len(c) + 1 /\ e[Len(c) + 1] = l
      /\ \A j \in 1..Len(c) : e[j] = c[j]
  BY <1>4, <1>5
<1> HIDE DEF e
<1>7. d \in Seq(CellSet) /\ Len(d) = Len(e) + Size[t]
      /\ \A j \in 1..Len(e) : d[j] = e[j]
      /\ \A i \in 1..Size[t] : d[Len(e) + i] = p[i]
  <2>1. Len(e) \in Nat /\ Len(p) \in Nat
    BY <1>5, <1>6
  <2>2. d \in Seq(CellSet) /\ Len(d) = Len(e) + Len(p)
    <3>1. e \in Seq(CellSet) /\ p \in Seq(CellSet)
      BY Zenon, <1>5, <1>6
    <3>2. d \in Seq(CellSet)
      BY <3>1
    <3>3. Len(d) = Len(e) + Len(p)
      BY <3>1
    <3> QED
      BY Zenon, <3>2, <3>3
  <2>3. \A j \in 1..(Len(e) + Len(p)) : d[j] = IF j <= Len(e) THEN e[j] ELSE p[j - Len(e)]
    <3> SUFFICES ASSUME NEW j \in 1..(Len(e) + Len(p))
                 PROVE  d[j] = IF j <= Len(e) THEN e[j] ELSE p[j - Len(e)]
      OBVIOUS
    <3> QED
      BY SMTT(30), <1>5, <1>6, <2>1
  <2> HIDE DEF d
  <2>4. ASSUME NEW j \in 1..Len(e) PROVE d[j] = e[j]
    BY <2>1, <2>3
  <2>5. ASSUME NEW i \in 1..Len(p) PROVE d[Len(e) + i] = p[i]
    <3>1. Len(e) + i \in 1..(Len(e) + Len(p)) /\ ~(Len(e) + i <= Len(e))
          /\ (Len(e) + i) - Len(e) = i
      BY <2>1
    <3> QED
      BY Zenon, <2>3, <3>1
  <2> QED
    BY Zenon, <1>5, <2>2, <2>4, <2>5
<1> HIDE DEF d
<1>8. /\ d \in Seq(CellSet) /\ Len(d) = Len(c) + 1 + Size[t]
      /\ \A j \in 1..Len(c) : d[j] = c[j]
      /\ d[Len(c) + 1] = l
      /\ \A i \in 1..Size[t] : d[Len(c) + 1 + i] = <<t, i>>
  <2>1. Len(c) \in Nat /\ Len(c) + 1 \in 1..Len(e) /\ \A j \in 1..Len(c) : j \in 1..Len(e)
    BY <1>6
  <2>2. /\ d \in Seq(CellSet) /\ Len(d) = Len(c) + 1 + Size[t]
        /\ \A i \in 1..Size[t] : d[Len(c) + 1 + i] = p[i]
    BY <1>6, <1>7
  <2> QED
    BY Zenon, <1>5, <1>6, <1>7, <2>1, <2>2
<1> QED
  BY Zenon, <1>8 DEF d, e, l, p

(* Cells lays out a list from the start.                                     *)
LEMMA CellsLaid ==
  ASSUME NEW list \in Seq(Sent)
  PROVE  /\ Cells(list) \in Seq(CellSet)
         /\ \E off : /\ Laid(Cells(list), list, off, Len(list))
                     /\ off[0] = 0 /\ off[Len(list)] = Len(Cells(list))
<1> DEFINE len == Len(list)
<1>1. len \in Nat /\ \A n \in 1..len : list[n] \in Sent
  OBVIOUS
<1>2. PICK cells : IsCells(cells, list, len) /\ Cells(list) = cells[len]
  BY Zenon, <1>1, CellsAreLast
<1> DEFINE off == [n \in 0..len |-> Len(cells[n])]
           Good(k) == cells[k] \in Seq(CellSet) /\ Laid(cells[k], list, [n \in 0..k |-> Len(cells[n])], k)
           S == {k \in 0..len : Good(k)}
<1>3. cells[0] = <<>>
  <2>1. 0 \in 0..len
    BY <1>1
  <2> QED
    BY Zenon, <1>2, <2>1 DEF IsCells
<1>4. 0 \in S
  <2> DEFINE o == [n \in 0..0 |-> Len(cells[n])]
  <2>1. 0 \in 0..len /\ cells[0] \in Seq(CellSet) /\ 1..0 = {}
    BY <1>1, <1>3
  <2>2. \A n \in 0..0 : Len(cells[n]) \in Nat
    BY <1>3
  <2>3. o \in [0..0 -> Nat]
    BY Zenon, <2>2
  <2>4. Laid(cells[0], list, o, 0)
    BY Zenon, <2>1, <2>3 DEF Laid
  <2> QED
    BY Zenon, <2>1, <2>4
<1>5. ASSUME NEW k \in 1..len, k - 1 \in S PROVE k \in S
  <2> DEFINE c == cells[k - 1]
             d == cells[k]
             t == list[k]
             o == [n \in 0..(k - 1) |-> Len(cells[n])]
             u == [n \in 0..k |-> Len(cells[n])]
  <2>1. k \in 0..len /\ k # 0 /\ t \in Sent
    BY <1>1
  <2>2. d = c \o <<<<"length", Size[t]>>>> \o Payload(t)
    BY Zenon, <1>2, <2>1 DEF IsCells
  <2>3. c \in Seq(CellSet) /\ Laid(c, list, o, k - 1)
    BY Zenon, <1>5
  <2> HIDE DEF c, d, t
  <2>4. /\ d \in Seq(CellSet) /\ Len(d) = Len(c) + 1 + Size[t]
        /\ \A j \in 1..Len(c) : d[j] = c[j]
        /\ d[Len(c) + 1] = <<"length", Size[t]>>
        /\ \A i \in 1..Size[t] : d[Len(c) + 1 + i] = <<t, i>>
    BY Zenon, <2>1, <2>2, <2>3, OneMore
  <2>5. Size[t] \in Nat
    BY Zenon, <2>1, BlockAssumption DEF Sent
  <2>6. o \in [0..(k - 1) -> Nat] /\ Len(c) \in Nat /\ Len(d) \in Nat
    <3>1. Len(c) \in Nat /\ Len(d) \in Nat
      BY <2>3, <2>4
    <3> QED
      BY Zenon, <3>1, <2>3 DEF Laid
  <2>7. /\ \A n \in 0..(k - 1) : u[n] = o[n] /\ u[n] \in Nat
        /\ u[k] = Len(d) /\ u[k - 1] = Len(c) /\ u \in [0..k -> Nat]
    <3>1. \A n \in 0..(k - 1) : n \in 0..k /\ u[n] = o[n] /\ o[n] \in Nat
      BY <2>6
    <3>2. u[k] = Len(d) /\ u[k - 1] = Len(c) /\ \A n \in 0..k : n = k \/ n \in 0..(k - 1)
      BY DEF c, d
    <3>3. \A n \in 0..k : u[n] \in Nat
      BY Zenon, <3>1, <3>2, <2>6
    <3> QED
      BY Zenon, <3>1, <3>2, <3>3
  <2> HIDE DEF o, u
  <2>8. ASSUME NEW n \in 1..k
        PROVE  /\ u[n] = u[n - 1] + 1 + Size[list[n]]
               /\ u[n] <= Len(d)
               /\ d[u[n - 1] + 1] = <<"length", Size[list[n]]>>
               /\ \A i \in 1..Size[list[n]] : d[u[n - 1] + 1 + i] = <<list[n], i>>
    <3>1. CASE n = k
      <4>1. u[n] = Len(d) /\ u[n - 1] = Len(c) /\ list[n] = t
        BY Zenon, <2>7, <3>1 DEF t
      <4>2. Len(d) <= Len(d)
        BY <2>6
      <4> QED
        BY Zenon, <2>4, <4>1, <4>2
    <3>2. CASE n \in 1..(k - 1)
      <4>1. n \in 0..(k - 1) /\ n - 1 \in 0..(k - 1) /\ n \in 1..len
        BY <3>2, <1>1
      <4>2. u[n] = o[n] /\ u[n - 1] = o[n - 1] /\ o[n] \in Nat /\ o[n - 1] \in Nat
        BY Zenon, <4>1, <2>7
      <4>3. Size[list[n]] \in Nat
        BY Zenon, <1>1, <4>1, BlockAssumption DEF Sent
      <4>4. /\ o[n] = o[n - 1] + 1 + Size[list[n]]
            /\ o[n] <= Len(c)
            /\ c[o[n - 1] + 1] = <<"length", Size[list[n]]>>
            /\ \A i \in 1..Size[list[n]] : c[o[n - 1] + 1 + i] = <<list[n], i>>
        BY Zenon, <2>3, <3>2 DEF Laid
      <4>5. o[n] <= Len(d) /\ o[n - 1] + 1 \in 1..Len(c)
            /\ \A i \in 1..Size[list[n]] : o[n - 1] + 1 + i \in 1..Len(c)
        <5> DEFINE size == Size[list[n]]
                   a == o[n - 1]
                   b == o[n]
                   lc == Len(c)
                   ld == Len(d)
                   st == Size[t]
        <5>1. /\ size \in Nat /\ a \in Nat /\ b \in Nat /\ lc \in Nat /\ ld \in Nat /\ st \in Nat
              /\ b = a + 1 + size /\ b <= lc /\ ld = lc + 1 + st
          BY Zenon, <2>4, <2>5, <2>6, <4>2, <4>3, <4>4
        <5> HIDE DEF size, a, b, lc, ld, st
        <5>2. b <= ld /\ a + 1 \in 1..lc /\ \A i \in 1..size : a + 1 + i \in 1..lc
          BY <5>1
        <5> QED
          BY Zenon, <5>2 DEF size, a, b, lc, ld
      <4> QED
        BY ZenonT(30), <2>4, <4>2, <4>4, <4>5
    <3>3. n = k \/ n \in 1..(k - 1)
      OBVIOUS
    <3> QED
      BY Zenon, <3>1, <3>2, <3>3
  <2>9. Laid(d, list, u, k)
    BY Zenon, <2>7, <2>8 DEF Laid
  <2> QED
    BY Zenon, <2>1, <2>4, <2>9 DEF d, u
<1> HIDE DEF S
<1>6. len \in S
  <2>1. \A k \in 0..len : k \in S
    BY Zenon, <1>1, <1>4, <1>5, InductionUpTo
  <2> QED
    BY <2>1, <1>1
<1>7. cells[len] \in Seq(CellSet) /\ Laid(cells[len], list, off, len)
  BY Zenon, <1>6 DEF S
<1>8. off[0] = 0 /\ off[len] = Len(cells[len])
  BY <1>1, <1>3
<1> HIDE DEF off
<1> QED
  BY Zenon, <1>2, <1>7, <1>8

(* Offsets that count from base.                                             *)
Moved(off, base, len) == [n \in 0..len |-> base + off[n]]

(* Cells that hold others from some offset on lay out what those lay out.    *)
LEMMA LaidInside ==
  ASSUME NEW list \in Seq(Sent), NEW part \in Seq(CellSet), NEW whole \in Seq(CellSet),
         NEW off, Laid(part, list, off, Len(list)),
         NEW base \in Nat, base + Len(part) <= Len(whole),
         \A j \in 1..Len(part) : whole[base + j] = part[j]
  PROVE  Laid(whole, list, Moved(off, base, Len(list)), Len(list))
<1> DEFINE len == Len(list)
           moved == Moved(off, base, len)
<1>1. len \in Nat /\ Len(part) \in Nat /\ Len(whole) \in Nat /\ off \in [0..len -> Nat]
      /\ \A n \in 1..len : list[n] \in Sent
  BY DEF Laid
<1>2. ASSUME NEW n \in 0..len
      PROVE  off[n] \in Nat /\ moved[n] = base + off[n] /\ moved[n] \in Nat
  <2>1. off[n] \in Nat /\ moved[n] = base + off[n]
    BY Zenon, <1>1 DEF Moved
  <2> QED
    BY <2>1
<1>3. moved \in [0..len -> Nat]
  BY Zenon, <1>2 DEF Moved
<1> HIDE DEF moved, len
<1>4. ASSUME NEW n \in 1..len
      PROVE  /\ moved[n] = moved[n - 1] + 1 + Size[list[n]]
             /\ moved[n] <= Len(whole)
             /\ whole[moved[n - 1] + 1] = <<"length", Size[list[n]]>>
             /\ \A i \in 1..Size[list[n]] : whole[moved[n - 1] + 1 + i] = <<list[n], i>>
  <2> DEFINE size == Size[list[n]]
             a == off[n - 1]
             b == off[n]
             lp == Len(part)
             lw == Len(whole)
  <2>1. n \in 0..len /\ n - 1 \in 0..len
    BY <1>1
  <2>2. /\ b = a + 1 + size /\ b <= lp
        /\ part[a + 1] = <<"length", size>>
        /\ \A i \in 1..size : part[a + 1 + i] = <<list[n], i>>
    BY Zenon DEF Laid, len
  <2>3. size \in Nat
    BY Zenon, <1>1, BlockAssumption DEF Sent
  <2>4. a \in Nat /\ b \in Nat /\ moved[n] = base + b /\ moved[n - 1] = base + a
        /\ lp \in Nat /\ lw \in Nat /\ base + lp <= lw
    BY Zenon, <1>1, <1>2, <2>1
  <2>5. \A j \in 1..lp : whole[base + j] = part[j]
    BY Zenon
  <2> HIDE DEF a, b, size, lp, lw
  <2>6. /\ base + b = (base + a) + 1 + size /\ base + b <= lw
        /\ a + 1 \in 1..lp /\ base + (a + 1) = base + a + 1
    BY <2>2, <2>3, <2>4
  <2>7. ASSUME NEW i \in 1..size PROVE whole[base + a + 1 + i] = <<list[n], i>>
    <3>1. a \in Nat /\ lp \in Nat /\ a + 1 + size <= lp
      BY Zenon, <2>2, <2>4
    <3>2. a + 1 + i \in 1..lp /\ base + (a + 1 + i) = base + a + 1 + i
      BY <2>3, <3>1
    <3> QED
      BY Zenon, <2>2, <2>5, <3>2
  <2>8. whole[base + a + 1] = <<"length", size>>
    BY Zenon, <2>2, <2>5, <2>6
  <2> QED
    BY Zenon, <2>4, <2>6, <2>7, <2>8 DEF a, b, size, lw
<1> QED
  BY Zenon, <1>3, <1>4 DEF Laid, moved, len

(* Offsets grow from one transaction to the next, since none is empty.       *)
LEMMA OffsetsGrow ==
  ASSUME NEW list \in Seq(Sent), NEW whole, NEW off, Laid(whole, list, off, Len(list))
  PROVE  \A b \in 0..Len(list) : b <= off[b] /\ \A a \in 0..(b - 1) : off[a] < off[b]
<1> DEFINE len == Len(list)
           S == {b \in 0..len : b <= off[b] /\ \A a \in 0..(b - 1) : off[a] < off[b]}
<1>1. len \in Nat /\ \A n \in 1..len : list[n] \in Sent
  OBVIOUS
<1>2. \A n \in 0..len : off[n] \in Nat
  BY DEF Laid
<1>3. 0 \in S
  BY <1>1, <1>2
<1>4. ASSUME NEW k \in 1..len, k - 1 \in S PROVE k \in S
  <2>1. k \in 0..len /\ k - 1 \in 0..len
    BY <1>1
  <2> DEFINE size == Size[list[k]]
             x == off[k - 1]
             y == off[k]
  <2>2. size \in Nat
    BY Zenon, <1>1, BlockAssumption DEF Sent
  <2>3. y = x + 1 + size /\ x \in Nat /\ y \in Nat
    BY Zenon, <1>2, <2>1 DEF Laid
  <2>4. k - 1 <= x /\ \A a \in 0..(k - 1 - 1) : off[a] < x
    BY Zenon, <1>4
  <2>5. \A a \in 0..(k - 1 - 1) : off[a] \in Nat
    BY <1>1, <1>2
  <2> HIDE DEF size, x
  <2> HIDE DEF y
  <2>6. ASSUME NEW a \in 0..(k - 1) PROVE off[a] < y
    <3>1. CASE a = k - 1
      <4>1. x < y
        BY <2>2, <2>3
      <4> QED
        BY Zenon, <3>1, <4>1 DEF x
    <3>2. CASE a \in 0..(k - 1 - 1)
      <4>1. off[a] < x /\ off[a] \in Nat
        BY Zenon, <2>4, <2>5, <3>2
      <4> QED
        BY <2>2, <2>3, <4>1
    <3> QED
      BY <3>1, <3>2
  <2>7. k <= y
    BY <2>2, <2>3, <2>4
  <2> QED
    BY Zenon, <2>1, <2>6, <2>7 DEF y
<1> HIDE DEF S
<1>5. \A k \in 0..len : k \in S
  BY Zenon, <1>1, <1>3, <1>4, InductionUpTo
<1> QED
  BY Zenon, <1>5 DEF S

(* The loops that skip transactions land on the offsets.                     *)
LEMMA SkipLands ==
  ASSUME NEW list \in Seq(Sent), NEW whole, NEW off, Laid(whole, list, off, Len(list)),
         NEW m \in Nat, NEW n \in Nat, m + n <= Len(list)
  PROVE  Skip(whole, off[m], n) = off[m + n]
<1> DEFINE len == Len(list)
           IsSkip(f) == f = [k \in 0..n |-> IF k = 0 THEN off[m]
                               ELSE f[k - 1] + 1 + whole[f[k - 1] + 1][2]]
<1>1. len \in Nat /\ \A k \in 0..n : m + k \in 0..len
  OBVIOUS
<1>2. ASSUME NEW k \in 1..n
      PROVE  off[m + k] = off[m + (k - 1)] + 1 + whole[off[m + (k - 1)] + 1][2]
  <2>1. m + k \in 1..len /\ (m + k) - 1 = m + (k - 1)
    BY <1>1
  <2>2. /\ off[m + k] = off[m + (k - 1)] + 1 + Size[list[m + k]]
        /\ whole[off[m + (k - 1)] + 1] = <<"length", Size[list[m + k]]>>
    BY Zenon, <2>1 DEF Laid
  <2>3. <<"length", Size[list[m + k]]>>[2] = Size[list[m + k]]
    OBVIOUS
  <2> QED
    BY Zenon, <2>2, <2>3
<1>3. \E f : IsSkip(f)
  <2> DEFINE g == [k \in 0..n |-> off[m + k]]
  <2>1. ASSUME NEW k \in 0..n
        PROVE  g[k] = IF k = 0 THEN off[m] ELSE g[k - 1] + 1 + whole[g[k - 1] + 1][2]
    <3>1. CASE k = 0
      <4>1. m + 0 = m
        OBVIOUS
      <4> QED
        BY Zenon, <3>1, <4>1
    <3>2. CASE k \in 1..n
      <4>1. k - 1 \in 0..n /\ k # 0
        BY <3>2
      <4>2. g[k] = off[m + k] /\ g[k - 1] = off[m + (k - 1)]
        BY Zenon, <4>1
      <4> QED
        BY Zenon, <1>2, <3>2, <4>1, <4>2
    <3> QED
      BY <3>1, <3>2
  <2>2. IsSkip(g)
    BY Zenon, <2>1
  <2> QED
    BY ZenonT(30), <2>2
<1> DEFINE f == CHOOSE f : IsSkip(f)
<1>4. IsSkip(f)
  BY Zenon, <1>3
<1>5. Skip(whole, off[m], n) = f[n]
  BY ZenonT(30) DEF Skip
<1> HIDE DEF f
<1>6. /\ f[0] = off[m]
      /\ \A k \in 1..n : f[k] = f[k - 1] + 1 + whole[f[k - 1] + 1][2]
  <2>1. 0 \in 0..n /\ \A k \in 1..n : k \in 0..n /\ k # 0
    OBVIOUS
  <2> QED
    BY Zenon, <1>4, <2>1
<1> HIDE DEF IsSkip
<1> DEFINE S == {k \in 0..n : f[k] = off[m + k]}
<1>7. 0 \in S
  <2>1. 0 \in 0..n /\ m + 0 = m
    OBVIOUS
  <2> QED
    BY Zenon, <1>6, <2>1
<1>8. ASSUME NEW k \in 1..n, k - 1 \in S PROVE k \in S
  <2>1. f[k - 1] = off[m + (k - 1)]
    BY Zenon, <1>8
  <2>2. k \in 0..n
    OBVIOUS
  <2> QED
    BY Zenon, <1>2, <1>6, <2>1, <2>2
<1> HIDE DEF S
<1>9. \A k \in 0..n : k \in S
  BY Zenon, <1>7, <1>8, InductionUpTo
<1>10. n \in 0..n
  OBVIOUS
<1> QED
  BY Zenon, <1>5, <1>9, <1>10 DEF S

(* Counting finds as many transactions as were laid out.                     *)
LEMMA CountIsLength ==
  ASSUME NEW list \in Seq(Sent), NEW whole \in Seq(CellSet), NEW off,
         Laid(whole, list, off, Len(list)), off[0] \in Nat, off[Len(list)] <= Len(whole)
  PROVE  Count(whole, off[0], off[Len(list)]) = Len(list)
<1> DEFINE len == Len(list)
           end == off[len]
           Is(n) == /\ Skip(whole, off[0], n) >= end
                    /\ \A k \in 0..(n - 1) : Skip(whole, off[0], k) < end
<1>1. len \in Nat /\ Len(whole) \in Nat
  OBVIOUS
<1>2. \A k \in 0..len : Skip(whole, off[0], k) = off[k] /\ off[k] \in Nat
  <2> SUFFICES ASSUME NEW k \in 0..len PROVE Skip(whole, off[0], k) = off[k] /\ off[k] \in Nat
    OBVIOUS
  <2> DEFINE z == 0
  <2>1. z \in Nat /\ k \in Nat /\ z + k <= Len(list)
    BY <1>1
  <2>2. off[k] \in Nat
    BY Zenon DEF Laid
  <2>3. z + k = k
    OBVIOUS
  <2> HIDE DEF z
  <2>4. Skip(whole, off[z], k) = off[z + k]
    BY SMT, <2>1, SkipLands
  <2> QED
    BY Zenon, <2>2, <2>3, <2>4 DEF z
<1>3. \A b \in 0..len : b <= off[b] /\ \A a \in 0..(b - 1) : off[a] < off[b]
  BY Zenon, OffsetsGrow
<1>4. len \in 0..len /\ \A k \in 0..(len - 1) : k \in 0..len
  BY <1>1
<1>5. end \in Nat /\ len <= end /\ \A a \in 0..(len - 1) : off[a] < end
  BY Zenon, <1>2, <1>3, <1>4
<1>6. len \in 0..Len(whole)
  BY <1>1, <1>5
<1>7. Is(len)
  <2>1. end >= end
    BY <1>5
  <2> QED
    BY Zenon, <1>2, <1>4, <1>5, <2>1
<1>8. ASSUME NEW n \in 0..Len(whole), Is(n) PROVE n = len
  <2>1. CASE n < len
    <3>1. n \in 0..(len - 1) /\ n \in 0..len
      BY <1>1, <2>1
    <3>2. off[n] < end /\ off[n] >= end /\ off[n] \in Nat
      BY Zenon, <1>2, <1>5, <1>8, <3>1
    <3> QED
      BY <1>5, <3>2
  <2>2. CASE len < n
    <3>1. len \in 0..(n - 1)
      BY <1>1, <2>2
    <3>2. end < end
      BY Zenon, <1>2, <1>4, <1>8, <3>1
    <3> QED
      BY <1>5, <3>2
  <2> QED
    BY <1>1, <2>1, <2>2
<1> HIDE DEF Is
<1>9. (CHOOSE n \in 0..Len(whole) : Is(n)) = len
  BY Zenon, <1>6, <1>7, <1>8
<1> QED
  BY Zenon, <1>9 DEF Count, Is

(* The constructor of a transaction finds the one whose bytes it gets.       *)
LEMMA PayloadIsRead ==
  ASSUME NEW t \in Sent
  PROVE  TxOf(Payload(t)) = t
<1>1. ASSUME NEW u \in Sent, Payload(u) = Payload(t) PROVE u = t
  <2>1. 1 \in 1..Size[t] /\ 1 \in 1..Size[u]
    <3>1. Size[t] \in Nat \ {0} /\ Size[u] \in Nat \ {0}
      BY Zenon, BlockAssumption DEF Sent
    <3> QED
      BY <3>1
  <2>2. Payload(t)[1] = <<t, 1>> /\ Payload(u)[1] = <<u, 1>>
    BY Zenon, <2>1 DEF Payload
  <2>3. <<u, 1>> = <<t, 1>>
    BY Zenon, <1>1, <2>2
  <2> QED
    BY <2>3
<1>2. \E u \in Sent : Payload(u) = Payload(t)
  OBVIOUS
<1>3. (CHOOSE u \in Sent : Payload(u) = Payload(t)) = t
  BY Zenon, <1>1, <1>2
<1> QED
  BY Zenon, <1>2, <1>3 DEF TxOf, Sent

(* n transactions of a list behind the first m.                              *)
Part(list, m, n) == [k \in 1..n |-> list[m + k]]

LEMMA SubSeqIsPart ==
  ASSUME NEW S, NEW list \in Seq(S), NEW m \in Nat, NEW n \in Nat, m + n <= Len(list)
  PROVE  SubSeq(list, m + 1, m + n) = Part(list, m, n)
<1> DEFINE s == SubSeq(list, m + 1, m + n)
           p == Part(list, m, n)
<1>1. s \in Seq(S)
  OBVIOUS
<1>2. Len(s) = n
  OBVIOUS
<1>3. ASSUME NEW k \in 1..n PROVE s[k] = list[m + k]
  <2>1. m + 1 \in Nat /\ k \in 1..((m + n) - (m + 1) + 1) /\ (m + 1) + k - 1 = m + k
    OBVIOUS
  <2>2. s[k] = list[(m + 1) + k - 1]
    BY <2>1
  <2> QED
    BY Zenon, <2>1, <2>2
<1>4. p \in Seq(S) /\ Len(p) = n /\ \A k \in 1..n : p[k] = list[m + k]
  BY DEF Part
<1> HIDE DEF s, p
<1>5. s = p
  BY SMTT(30), <1>1, <1>2, <1>3, <1>4
<1> QED
  BY Zenon, <1>5 DEF s, p

(* The loop of a thread reads the transactions laid out from its start.      *)
LEMMA DeserializeReads ==
  ASSUME NEW list \in Seq(Sent), NEW whole \in Seq(CellSet), NEW off,
         Laid(whole, list, off, Len(list)),
         NEW m \in Nat, NEW n \in Nat, m + n <= Len(list)
  PROVE  Deserialize(whole, off[m], n) = Part(list, m, n)
<1> DEFINE len == Len(list)
           Read(p) == TxOf(SubSeq(whole, p + 2, p + 1 + whole[p + 1][2]))
<1>1. ASSUME NEW k \in 1..n
      PROVE  Read(Skip(whole, off[m], k - 1)) = list[m + k]
  <2> DEFINE t == list[m + k]
             here == off[m + (k - 1)]
  <2>1. m + k \in 1..len /\ (m + k) - 1 = m + (k - 1) /\ m + (k - 1) \in 0..len
        /\ k - 1 \in Nat /\ m + (k - 1) <= len
    OBVIOUS
  <2>2. Skip(whole, off[m], k - 1) = here
    <3>1. k - 1 \in Nat /\ m + (k - 1) <= Len(list)
      BY Zenon, <2>1
    <3> QED
      BY SMT, <3>1, SkipLands
  <2>3. t \in Sent
    BY <2>1
  <2>4. Size[t] \in Nat
    BY Zenon, <2>3, BlockAssumption DEF Sent
  <2>5. /\ off[m + k] = here + 1 + Size[t] /\ off[m + k] <= Len(whole)
        /\ whole[here + 1] = <<"length", Size[t]>>
        /\ \A i \in 1..Size[t] : whole[here + 1 + i] = <<t, i>>
    BY Zenon, <2>1 DEF Laid
  <2>6. here \in Nat /\ Len(whole) \in Nat
    <3>1. here \in Nat
      BY Zenon, <2>1 DEF Laid
    <3> QED
      BY <3>1
  <2>7. whole[here + 1][2] = Size[t]
    <3>1. <<"length", Size[t]>>[2] = Size[t]
      OBVIOUS
    <3> QED
      BY Zenon, <2>5, <3>1
  <2> HIDE DEF t, here
  <2>8. SubSeq(whole, here + 2, here + 1 + Size[t]) = Payload(t)
    <3> DEFINE from == here + 1
    <3>1. from \in Nat /\ from + Size[t] <= Len(whole) /\ here + 2 = from + 1
      BY <2>4, <2>5, <2>6
    <3>2. \A i \in 1..Size[t] : whole[from + i] = <<t, i>>
      BY Zenon, <2>5
    <3> HIDE DEF from
    <3>3. SubSeq(whole, from + 1, from + Size[t]) = Part(whole, from, Size[t])
      BY Zenon, <2>4, <3>1, SubSeqIsPart
    <3>4. Part(whole, from, Size[t]) = Payload(t)
      BY Zenon, <3>2 DEF Part, Payload
    <3> QED
      BY Zenon, <3>1, <3>3, <3>4 DEF from
  <2> QED
    BY Zenon, <2>2, <2>3, <2>7, <2>8, PayloadIsRead DEF t, here
<1>2. Deserialize(whole, off[m], n) = [k \in 1..n |-> Read(Skip(whole, off[m], k - 1))]
  BY Zenon DEF Deserialize
<1> HIDE DEF Read
<1> QED
  BY Zenon, <1>1, <1>2 DEF Part

(* The shares of the threads add up, remainder included.                     *)
LEMMA SharesAddUp ==
  ASSUME NEW count \in Nat, NEW threads \in Nat \ {0}, NEW i \in 1..threads
  PROVE  LET share == count \div threads
             to == IF i = threads THEN count ELSE i * share
         IN  /\ share \in Nat /\ (i - 1) * share \in Nat /\ to \in Nat
             /\ TxsPerThr(count, threads, i) \in Nat
             /\ (i - 1) * share + TxsPerThr(count, threads, i) = to
             /\ to <= count
<1> DEFINE q == count \div threads
           r == count % threads
<1>1. q \in Nat /\ r \in Nat /\ count = threads * q + r
  OBVIOUS
<1>2. TxsPerThr(count, threads, i) = IF i = threads THEN q + r ELSE q
  BY Zenon DEF TxsPerThr
<1> HIDE DEF q, r
<1>3. (i - 1) * q \in Nat /\ i * q \in Nat /\ (i - 1) * q + q = i * q /\ i * q <= threads * q
  BY SMTT(30), <1>1
<1>4. CASE i = threads
  BY SMTT(30), <1>1, <1>2, <1>3, <1>4 DEF q
<1>5. CASE i # threads
  BY <1>1, <1>2, <1>3, <1>5 DEF q
<1> QED
  BY <1>4, <1>5

LEMMA PartsJoin ==
  ASSUME NEW S, NEW list \in Seq(S), NEW a \in Nat, NEW n \in Nat, a + n <= Len(list)
  PROVE  Part(list, 0, a) \o Part(list, a, n) = Part(list, 0, a + n)
<1> DEFINE x == Part(list, 0, a)
           y == Part(list, a, n)
           z == Part(list, 0, a + n)
<1>1. x \in Seq(S) /\ Len(x) = a /\ \A k \in 1..a : x[k] = list[k]
  BY DEF Part
<1>2. y \in Seq(S) /\ Len(y) = n /\ \A k \in 1..n : y[k] = list[a + k]
  BY DEF Part
<1>3. z \in Seq(S) /\ Len(z) = a + n /\ \A k \in 1..(a + n) : z[k] = list[k]
  BY DEF Part
<1> HIDE DEF x, y, z
<1>4. x \in Seq(S) /\ y \in Seq(S)
  BY Zenon, <1>1, <1>2
<1>5. x \o y \in Seq(S) /\ Len(x \o y) = a + n
  <2>1. x \o y \in Seq(S)
    BY <1>4
  <2>2. Len(x \o y) = Len(x) + Len(y)
    BY <1>4
  <2> QED
    BY Zenon, <1>1, <1>2, <2>1, <2>2
<1>6. ASSUME NEW k \in 1..(a + n) PROVE (x \o y)[k] = z[k]
  <2>1. Len(x) \in Nat /\ Len(y) \in Nat /\ k \in 1..(Len(x) + Len(y))
    BY Zenon, <1>1, <1>2
  <2>2. (x \o y)[k] = IF k <= Len(x) THEN x[k] ELSE y[k - Len(x)]
    BY <1>4, <2>1
  <2>3. CASE k <= a
    <3>1. k \in 1..a
      BY <2>3
    <3> QED
      BY Zenon, <1>1, <1>3, <2>2, <3>1, <2>3
  <2>4. CASE ~(k <= a)
    <3>1. k - a \in 1..n /\ a + (k - a) = k
      BY <2>4
    <3> QED
      BY Zenon, <1>1, <1>2, <1>3, <2>2, <2>4, <3>1
  <2> QED
    BY Zenon, <2>3, <2>4
<1> DEFINE xy == x \o y
<1> HIDE DEF xy
<1>7. xy \in Seq(S) /\ Len(xy) = Len(z) /\ \A k \in 1..Len(z) : xy[k] = z[k]
  BY Zenon, <1>3, <1>5, <1>6 DEF xy
<1>8. xy = z
  BY <1>3, <1>7
<1> QED
  BY Zenon, <1>8 DEF x, y, z, xy

LEMMA WholePart ==
  ASSUME NEW S, NEW list \in Seq(S)
  PROVE  Part(list, 0, Len(list)) = list
<1>1. \A k \in 1..Len(list) : 0 + k = k
  OBVIOUS
<1>2. Part(list, 0, Len(list)) = [k \in 1..Len(list) |-> list[k]]
  BY Zenon, <1>1 DEF Part
<1>3. list = [k \in 1..Len(list) |-> list[k]]
  OBVIOUS
<1> QED
  BY Zenon, <1>2, <1>3

(* Every thread starts behind the transactions of those before it.           *)
LEMMA OffsetsFollowShares ==
  ASSUME NEW list \in Seq(Sent), NEW whole \in Seq(CellSet), NEW off,
         Laid(whole, list, off, Len(list)), off[0] = 0,
         NEW threads \in Nat \ {0}, NEW j \in 1..threads
  PROVE  ThrOff(whole, Len(list), threads)[j - 1] = off[(j - 1) * (Len(list) \div threads)]
<1> DEFINE len == Len(list)
           q == len \div threads
           last == threads - 1
           IsOff(f) == f = [i \in 0..last |-> IF i = 0 THEN 0
                              ELSE Skip(whole, f[i - 1], TxsPerThr(len, threads, i))]
<1>1. len \in Nat /\ q \in Nat /\ last \in Nat
  BY SMTT(30)
<1>2. ASSUME NEW i \in 1..last
      PROVE  Skip(whole, off[(i - 1) * q], TxsPerThr(len, threads, i)) = off[i * q]
  <2> DEFINE from == (i - 1) * q
             n == TxsPerThr(len, threads, i)
  <2>1. i \in 1..threads /\ i # threads
    OBVIOUS
  <2>2. from \in Nat /\ n \in Nat /\ from + n = i * q /\ i * q <= len
    BY Zenon, <1>1, <2>1, SharesAddUp
  <2> HIDE DEF from, n, q
  <2>3. from + n <= Len(list)
    BY Zenon, <2>2
  <2>4. Skip(whole, off[from], n) = off[from + n]
    BY SMTT(30), <2>2, <2>3, SkipLands
  <2> QED
    BY Zenon, <2>2, <2>4 DEF from, n
<1>3. off[0 * q] = 0
  <2>1. 0 * q = 0
    BY <1>1
  <2> QED
    BY Zenon, <2>1
<1> HIDE DEF q
<1>4. \E f : IsOff(f)
  <2> DEFINE g == [i \in 0..last |-> off[i * q]]
  <2>1. ASSUME NEW i \in 0..last
        PROVE  g[i] = IF i = 0 THEN 0 ELSE Skip(whole, g[i - 1], TxsPerThr(len, threads, i))
    <3>1. CASE i = 0
      BY Zenon, <1>3, <3>1
    <3>2. CASE i \in 1..last
      <4>1. i - 1 \in 0..last /\ i # 0
        BY <3>2
      <4> QED
        BY Zenon, <1>2, <3>2, <4>1
    <3>3. i = 0 \/ i \in 1..last
      OBVIOUS
    <3> QED
      BY Zenon, <3>1, <3>2, <3>3
  <2>2. IsOff(g)
    BY Zenon, <2>1
  <2> QED
    BY Zenon, <2>2
<1> DEFINE f == CHOOSE f : IsOff(f)
<1>5. IsOff(f)
  BY Zenon, <1>4
<1>6. ThrOff(whole, len, threads) = f
  BY Zenon DEF ThrOff
<1> HIDE DEF f
<1>7. /\ f[0] = 0
      /\ \A i \in 1..last : f[i] = Skip(whole, f[i - 1], TxsPerThr(len, threads, i))
  <2>1. 0 \in 0..last /\ \A i \in 1..last : i \in 0..last /\ i # 0
    BY <1>1
  <2> QED
    BY Zenon, <1>5, <2>1
<1> HIDE DEF IsOff
<1> DEFINE S == {i \in 0..last : f[i] = off[i * q]}
<1>8. 0 \in S
  <2>1. 0 \in 0..last
    BY <1>1
  <2> QED
    BY Zenon, <1>3, <1>7, <2>1
<1>9. ASSUME NEW i \in 1..last, i - 1 \in S PROVE i \in S
  <2>1. i \in 0..last
    OBVIOUS
  <2> QED
    BY Zenon, <1>2, <1>7, <1>9, <2>1
<1> HIDE DEF S
<1>10. \A i \in 0..last : i \in S
  BY Zenon, <1>1, <1>8, <1>9, InductionUpTo
<1>11. j - 1 \in 0..last
  OBVIOUS
<1> QED
  BY Zenon, <1>6, <1>10, <1>11 DEF S, q

(* Whatever the number of threads, what they read is joined to the list.     *)
LEMMA ThreadsRead ==
  ASSUME NEW list \in Seq(Sent), NEW whole \in Seq(CellSet), NEW off,
         Laid(whole, list, off, Len(list)), off[0] = 0,
         NEW threads \in Nat \ {0}
  PROVE  InThreads(whole, Len(list), threads) = list
<1> DEFINE len == Len(list)
           q == len \div threads
           To(i) == IF i = threads THEN len ELSE i * q
           Prefix(n) == Part(list, 0, n)
           Mine(i) == Deserialize(whole, ThrOff(whole, len, threads)[i - 1],
                                  TxsPerThr(len, threads, i))
           IsJoined(f) == f = [i \in 0..threads |-> IF i = 0 THEN <<>> ELSE f[i - 1] \o Mine(i)]
<1>1. len \in Nat /\ q \in Nat
  BY SMTT(30)
<1>2. ASSUME NEW i \in 1..threads
      PROVE  Prefix(To(i - 1)) \o Mine(i) = Prefix(To(i))
  <2> DEFINE from == (i - 1) * q
             n == TxsPerThr(len, threads, i)
  <2>1. from \in Nat /\ To(i) \in Nat /\ n \in Nat /\ from + n = To(i) /\ To(i) <= len
    BY Zenon, <1>1, SharesAddUp
  <2>2. To(i - 1) = from
    <3>1. i - 1 # threads
      OBVIOUS
    <3> QED
      BY Zenon, <3>1
  <2> HIDE DEF from, n, To, q
  <2>3. 0 + from <= Len(list) /\ from + n <= Len(list) /\ 0 \in Nat /\ 0 + from = from
    BY <1>1, <2>1
  <2>4. ThrOff(whole, len, threads)[i - 1] = off[from]
    BY Zenon, OffsetsFollowShares DEF from, q
  <2>5. Deserialize(whole, off[from], n) = Part(list, from, n)
    BY SMT, <2>1, <2>3, DeserializeReads
  <2>6. Mine(i) = Part(list, from, n)
    BY Zenon, <2>4, <2>5 DEF from, n
  <2>7. Prefix(from) \o Part(list, from, n) = Prefix(from + n)
    BY Zenon, <2>1, <2>3, PartsJoin
  <2> HIDE DEF Mine, Prefix
  <2> QED
    BY Zenon, <2>1, <2>2, <2>6, <2>7
<1>3. Prefix(To(0)) = <<>>
  <2>1. To(0) = 0
    <3>1. 0 # threads /\ 0 * q = 0
      BY <1>1
    <3> QED
      BY Zenon, <3>1
  <2>2. Prefix(0) = <<>>
    BY DEF Part
  <2> HIDE DEF To, Prefix
  <2> QED
    BY Zenon, <2>1, <2>2
<1>4. Prefix(To(threads)) = list
  <2>1. To(threads) = len
    BY Zenon
  <2>2. Prefix(len) = list
    BY Zenon, WholePart
  <2> HIDE DEF To, Prefix
  <2> QED
    BY Zenon, <2>1, <2>2
<1> HIDE DEF To, Prefix, Mine
<1>5. \E f : IsJoined(f)
  <2> DEFINE g == [i \in 0..threads |-> Prefix(To(i))]
  <2>1. ASSUME NEW i \in 0..threads
        PROVE  g[i] = IF i = 0 THEN <<>> ELSE g[i - 1] \o Mine(i)
    <3>1. CASE i = 0
      BY Zenon, <1>3, <3>1
    <3>2. CASE i \in 1..threads
      <4>1. i - 1 \in 0..threads /\ i # 0
        BY <3>2
      <4> QED
        BY Zenon, <1>2, <3>2, <4>1
    <3>3. i = 0 \/ i \in 1..threads
      OBVIOUS
    <3> QED
      BY Zenon, <3>1, <3>2, <3>3
  <2>2. IsJoined(g)
    BY Zenon, <2>1
  <2> QED
    BY Zenon, <2>2
<1> DEFINE f == CHOOSE f : IsJoined(f)
<1>6. IsJoined(f)
  BY Zenon, <1>5
<1>7. InThreads(whole, len, threads) = f[threads]
  BY ZenonT(30) DEF InThreads, Mine
<1> HIDE DEF f
<1>8. /\ f[0] = <<>>
      /\ \A i \in 1..threads : f[i] = f[i - 1] \o Mine(i)
  <2>1. 0 \in 0..threads /\ \A i \in 1..threads : i \in 0..threads /\ i # 0
    OBVIOUS
  <2> QED
    BY Zenon, <1>6, <2>1
<1> HIDE DEF IsJoined
<1> DEFINE S == {i \in 0..threads : f[i] = Prefix(To(i))}
<1>9. 0 \in S
  <2>1. 0 \in 0..threads
    OBVIOUS
  <2> QED
    BY Zenon, <1>3, <1>8, <2>1
<1>10. ASSUME NEW i \in 1..threads, i - 1 \in S PROVE i \in S
  <2>1. i \in 0..threads
    OBVIOUS
  <2>2. f[i - 1] = Prefix(To(i - 1))
    BY Zenon, <1>10
  <2> QED
    BY Zenon, <1>2, <1>8, <2>1, <2>2
<1> HIDE DEF S
<1>11. threads \in Nat /\ threads \in 0..threads
  OBVIOUS
<1>12. \A i \in 0..threads : i \in S
  BY Zenon, <1>9, <1>10, <1>11, InductionUpTo
<1> QED
  BY Zenon, <1>4, <1>7, <1>11, <1>12 DEF S

(* The fields of a block, and what finalize makes of them.                   *)
HasFields(b) ==
  b = [txs |-> b.txs, txValidators |-> b.txValidators, timestamp |-> b.timestamp,
       txMerkleRoot |-> b.txMerkleRoot, validatorMerkleRoot |-> b.validatorMerkleRoot,
       finalized |-> b.finalized]

IsBlock(b) ==
  /\ HasFields(b)
  /\ b.txs \in Seq(Txs) /\ b.txValidators \in Seq(Validators) /\ b.finalized \in BOOLEAN
  /\ b.finalized => /\ b.txMerkleRoot = GetRoot(Tree(b.txs))
                    /\ b.validatorMerkleRoot = GetRoot(Tree(b.txValidators))

Finalized(b, t, r, v) ==
  [b EXCEPT !.timestamp = t, !.txMerkleRoot = r, !.validatorMerkleRoot = v, !.finalized = TRUE]

LEMMA FinalizedFields ==
  ASSUME NEW b, HasFields(b), NEW t, NEW r, NEW v
  PROVE  /\ HasFields(Finalized(b, t, r, v))
         /\ Finalized(b, t, r, v).txs = b.txs
         /\ Finalized(b, t, r, v).txValidators = b.txValidators
         /\ Finalized(b, t, r, v).txMerkleRoot = r
         /\ Finalized(b, t, r, v).validatorMerkleRoot = v
         /\ Finalized(b, t, r, v).finalized \in BOOLEAN
<1> DEFINE c == Finalized(b, t, r, v)
           names == {"txs", "txValidators", "timestamp", "txMerkleRoot",
                     "validatorMerkleRoot", "finalized"}
<1>1. DOMAIN b = names
  BY DEF HasFields
<1>2. /\ c.txs = b.txs /\ c.txValidators = b.txValidators
      /\ c.txMerkleRoot = r /\ c.validatorMerkleRoot = v
      /\ c.finalized = TRUE
  <2>1. "txs" \in DOMAIN b /\ "txValidators" \in DOMAIN b /\ "txMerkleRoot" \in DOMAIN b
        /\ "validatorMerkleRoot" \in DOMAIN b /\ "finalized" \in DOMAIN b
    BY Zenon, <1>1
  <2> QED
    BY SMTT(30), <2>1 DEF Finalized
<1>3. HasFields(c)
  <2>1. c = [f \in names |-> c[f]]
    BY Zenon, <1>1 DEF Finalized
  <2> HIDE DEF Finalized
  <2> QED
    BY <2>1 DEF HasFields
<1> QED
  BY Zenon, <1>2, <1>3

(* Block::Block on the bytes of serializeBlock, for any list of transactions,*)
(* any lengths and any number of threads: the block comes back.              *)
THEOREM ParseUndoesSerialize ==
  ASSUME NEW b, IsBlock(b), b.finalized, NEW threads \in Nat \ {0}
  PROVE  Parse(SerializeBlock(b), threads) = b
<1> DEFINE txs == b.txs
           vals == b.txValidators
           c == Cells(txs)
           d == Cells(vals)
           whole == c \o d
           data == SerializeBlock(b)
<1>0. HasFields(b)
  BY Zenon DEF IsBlock
<1>1. txs \in Seq(Sent) /\ vals \in Seq(Sent) /\ Len(txs) \in Nat
  <2>1. txs \in Seq(Txs) /\ vals \in Seq(Validators)
    BY Zenon DEF IsBlock
  <2> QED
    BY <2>1 DEF Sent
<1>2. c \in Seq(CellSet) /\ d \in Seq(CellSet)
  BY Zenon, <1>1, CellsLaid
<1>3. PICK o : Laid(c, txs, o, Len(txs)) /\ o[0] = 0 /\ o[Len(txs)] = Len(c)
  BY Zenon, <1>1, CellsLaid
<1>4. PICK u : Laid(d, vals, u, Len(vals)) /\ u[0] = 0 /\ u[Len(vals)] = Len(d)
  BY Zenon, <1>1, CellsLaid
<1> HIDE DEF txs, vals, c, d
<1>5. whole \in Seq(CellSet)
  BY <1>2
<1>6. Len(whole) = Len(c) + Len(d) /\ Len(c) \in Nat /\ Len(d) \in Nat
  BY <1>2
<1>7. ASSUME NEW j \in 1..Len(c) PROVE whole[j] = c[j]
  BY SMTT(30), <1>2, <1>6
<1>8. ASSUME NEW j \in 1..Len(d) PROVE whole[Len(c) + j] = d[j]
  BY <1>2, <1>6
<1> HIDE DEF whole
<1> DEFINE p == Moved(o, 0, Len(txs))
           w == Moved(u, Len(c), Len(vals))
<1>9. Laid(whole, txs, p, Len(txs)) /\ p[0] = 0 /\ p[Len(txs)] = Len(c)
  <2>1. 0 \in Nat /\ 0 + Len(c) <= Len(whole) /\ \A j \in 1..Len(c) : 0 + j = j
    BY <1>6
  <2>2. \A j \in 1..Len(c) : whole[0 + j] = c[j]
    BY Zenon, <1>7, <2>1
  <2>3. Laid(whole, txs, p, Len(txs))
    BY ZenonT(30), <1>1, <1>2, <1>3, <1>5, <2>1, <2>2, LaidInside
  <2>4. p[0] = 0 /\ p[Len(txs)] = Len(c)
    BY <1>1, <1>3, <1>6 DEF Moved
  <2> QED
    BY Zenon, <2>3, <2>4
<1>10. Laid(whole, vals, w, Len(vals)) /\ w[0] = Len(c) /\ w[Len(vals)] = Len(whole)
  <2>1. Len(c) + Len(d) <= Len(whole)
    BY <1>6
  <2>2. Laid(whole, vals, w, Len(vals))
    BY ZenonT(30), <1>1, <1>2, <1>4, <1>5, <1>6, <1>8, <2>1, LaidInside
  <2>3. w[0] = Len(c) /\ w[Len(vals)] = Len(whole)
    BY SMTT(30), <1>1, <1>4, <1>6 DEF Moved
  <2> QED
    BY Zenon, <2>2, <2>3
<1> HIDE DEF p, w
<1>11. Count(whole, 0, Len(c)) = Len(txs)
  <2>1. p[0] \in Nat /\ p[Len(txs)] <= Len(whole)
    BY <1>6, <1>9
  <2>2. Count(whole, p[0], p[Len(txs)]) = Len(txs)
    BY Zenon, <1>1, <1>5, <1>9, <2>1, CountIsLength
  <2> QED
    BY Zenon, <1>9, <2>2
<1>12. Count(whole, Len(c), Len(whole)) = Len(vals)
  <2>1. w[0] \in Nat /\ w[Len(vals)] <= Len(whole)
    BY <1>6, <1>10
  <2>2. Count(whole, w[0], w[Len(vals)]) = Len(vals)
    BY Zenon, <1>1, <1>5, <1>10, <2>1, CountIsLength
  <2> QED
    BY Zenon, <1>10, <2>2
<1>13. \A s \in Seq(Sent) : Len(s) \in Nat /\ 0 + Len(s) <= Len(s)
  OBVIOUS
<1>14. Deserialize(whole, 0, Len(txs)) = txs
  <2>1. Deserialize(whole, p[0], Len(txs)) = Part(txs, 0, Len(txs))
    BY SMTT(30), <1>1, <1>5, <1>9, <1>13, DeserializeReads
  <2> QED
    BY Zenon, <1>1, <1>9, <2>1, WholePart
<1>15. Deserialize(whole, Len(c), Len(vals)) = vals
  <2>1. Deserialize(whole, w[0], Len(vals)) = Part(vals, 0, Len(vals))
    BY SMTT(30), <1>1, <1>5, <1>10, <1>13, DeserializeReads
  <2> QED
    BY Zenon, <1>1, <1>10, <2>1, WholePart
<1>16. InThreads(whole, Len(txs), threads) = txs
  BY Zenon, <1>1, <1>5, <1>9, ThreadsRead
<1> DEFINE h == data.header
<1>17. /\ h.txMerkleRoot = b.txMerkleRoot /\ h.validatorMerkleRoot = b.validatorMerkleRoot
       /\ h.timestamp = b.timestamp
       /\ data.txValidatorStart = Len(c) /\ data.cells = whole
  BY DEF SerializeBlock, SerializeHeader, c, d, txs, vals, whole
<1>18. h.txMerkleRoot = GetRoot(Tree(txs)) /\ h.validatorMerkleRoot = GetRoot(Tree(vals))
  BY Zenon, <1>17 DEF IsBlock, txs, vals
<1> HIDE DEF data
<1>19. Parse(data, threads)
         = [txs |-> txs, txValidators |-> vals, timestamp |-> h.timestamp,
            txMerkleRoot |-> h.txMerkleRoot, validatorMerkleRoot |-> h.validatorMerkleRoot,
            finalized |-> TRUE]
  BY Zenon, <1>11, <1>12, <1>14, <1>15, <1>16, <1>17, <1>18 DEF Parse
<1>20. b = [txs |-> txs, txValidators |-> vals, timestamp |-> h.timestamp,
            txMerkleRoot |-> h.txMerkleRoot, validatorMerkleRoot |-> h.validatorMerkleRoot,
            finalized |-> TRUE]
  <2>1. b.finalized = TRUE
    BY Zenon DEF IsBlock
  <2> QED
    BY Zenon, <1>0, <1>17, <2>1 DEF HasFields, txs, vals
<1> QED
  BY Zenon, <1>19, <1>20 DEF data

(* What a node has of a block: the bytes are those of the finalized block,   *)
(* which does not change any more, and everything received is that block.    *)
BlockInv ==
  /\ IsBlock(block)
  /\ bytes # {} => block.finalized /\ bytes = {SerializeBlock(block)}
  /\ received # {} => bytes # {}
  /\ RoundTrip

(* For any transactions of any lengths, any blocks, any threshold and any    *)
(* number of threads, a peer that parses the bytes of a block gets the block *)
(* (Block::Block, serializeBlock, finalize, appendTx).                       *)
THEOREM BlocksRoundTrip == BlockSpec => []RoundTrip
<1>1. BlockInit => BlockInv
  <2> SUFFICES ASSUME BlockInit PROVE BlockInv
    OBVIOUS
  <2>1. IsBlock(block)
    BY DEF BlockInit, IsBlock, HasFields
  <2> QED
    BY Zenon, <2>1 DEF BlockInit, BlockInv, RoundTrip
<1>2. BlockInv /\ [BlockNext]_blockVars => BlockInv'
  <2> SUFFICES ASSUME BlockInv, [BlockNext]_blockVars PROVE BlockInv'
    OBVIOUS
  <2>1. ASSUME ~block.finalized, UNCHANGED <<bytes, received>>, IsBlock(block)'
        PROVE  BlockInv'
    <3>1. bytes = {} /\ received = {}
      BY Zenon, <2>1 DEF BlockInv
    <3>2. bytes' = {} /\ received' = {}
      BY Zenon, <2>1, <3>1
    <3> QED
      BY Zenon, <2>1, <3>2 DEF BlockInv, RoundTrip
  <2>2. ASSUME NEW t \in Txs, AppendTx(t) PROVE BlockInv'
    <3> DEFINE list == Append(block.txs, t)
    <3>1. IsBlock(block)'
      <4>1. list \in Seq(Txs)
        <5>1. block.txs \in Seq(Txs)
          BY Zenon DEF BlockInv, IsBlock
        <5> QED
          BY <5>1
      <4>2. block' = [block EXCEPT !.txs = list] /\ ~block.finalized
        BY Zenon, <2>2 DEF AppendTx
      <4> HIDE DEF list
      <4>3. /\ HasFields(block')
            /\ block'.txs = list /\ block'.txValidators = block.txValidators
            /\ block'.finalized = block.finalized
        <5>1. HasFields(block)
          BY Zenon DEF BlockInv, IsBlock
        <5> QED
          BY <4>2, <5>1 DEF HasFields
      <4> QED
        BY Zenon, <4>1, <4>2, <4>3 DEF BlockInv, IsBlock
    <3> QED
      BY Zenon, <2>1, <2>2, <3>1 DEF AppendTx
  <2>3. ASSUME NEW t \in Validators, AppendTxValidator(t) PROVE BlockInv'
    <3> DEFINE list == Append(block.txValidators, t)
    <3>1. IsBlock(block)'
      <4>1. list \in Seq(Validators)
        <5>1. block.txValidators \in Seq(Validators)
          BY Zenon DEF BlockInv, IsBlock
        <5> QED
          BY <5>1
      <4>2. block' = [block EXCEPT !.txValidators = list] /\ ~block.finalized
        BY Zenon, <2>3 DEF AppendTxValidator
      <4> HIDE DEF list
      <4>3. /\ HasFields(block')
            /\ block'.txValidators = list /\ block'.txs = block.txs
            /\ block'.finalized = block.finalized
        <5>1. HasFields(block)
          BY Zenon DEF BlockInv, IsBlock
        <5> QED
          BY <4>2, <5>1 DEF HasFields
      <4> QED
        BY Zenon, <4>1, <4>2, <4>3 DEF BlockInv, IsBlock
    <3> QED
      BY Zenon, <2>1, <2>3, <3>1 DEF AppendTxValidator
  <2>4. ASSUME NEW t \in Times, Finalize(t) PROVE BlockInv'
    <3>1. IsBlock(block)'
      <4> DEFINE r == GetRoot(Tree(block.txs))
                 v == GetRoot(Tree(block.txValidators))
      <4>1. block' = Finalized(block, t, r, v)
        BY Zenon, <2>4 DEF Finalize, Finalized
      <4>2. HasFields(block)
        BY Zenon DEF BlockInv, IsBlock
      <4> HIDE DEF r, v
      <4>3. /\ HasFields(block')
            /\ block'.txs = block.txs /\ block'.txValidators = block.txValidators
            /\ block'.txMerkleRoot = r /\ block'.validatorMerkleRoot = v
            /\ block'.finalized \in BOOLEAN
        <5> DEFINE c == Finalized(block, t, r, v)
        <5>1. HasFields(c) /\ c.txs = block.txs /\ c.txValidators = block.txValidators
              /\ c.txMerkleRoot = r /\ c.validatorMerkleRoot = v /\ c.finalized \in BOOLEAN
          BY SMTT(30), <4>2, FinalizedFields
        <5> HIDE DEF c
        <5>2. block' = c
          BY Zenon, <4>1 DEF c
        <5> QED
          BY Zenon, <5>1, <5>2
      <4> QED
        BY Zenon, <4>3 DEF BlockInv, IsBlock, r, v
    <3> QED
      BY Zenon, <2>1, <2>4, <3>1 DEF Finalize
  <2>5. CASE Serialize
    BY Zenon, <2>5 DEF BlockInv, Serialize, RoundTrip
  <2>6. ASSUME NEW n \in Concurrency, Receive(n) PROVE BlockInv'
    <3>1. PICK b \in bytes : received' = received \cup {Parse(b, n)} /\ UNCHANGED <<block, bytes>>
      BY Zenon, <2>6 DEF Receive
    <3>2. b = SerializeBlock(block) /\ block.finalized /\ IsBlock(block)
      BY Zenon, <3>1 DEF BlockInv
    <3>3. n \in Nat \ {0}
      BY Zenon, BlockAssumption
    <3>4. Parse(b, n) = block
      BY Zenon, <3>2, <3>3, ParseUndoesSerialize
    <3>5. \A c \in received' : c = block'
      BY Zenon, <3>1, <3>4 DEF BlockInv, RoundTrip
    <3>6. IsBlock(block)' /\ bytes' = bytes /\ block' = block
      BY Zenon, <3>1, <3>2
    <3> QED
      BY Zenon, <3>1, <3>5, <3>6 DEF BlockInv, RoundTrip
  <2>7. CASE UNCHANGED blockVars
    BY Zenon, <2>7 DEF blockVars, BlockInv, RoundTrip
  <2> QED
    BY Zenon, <2>2, <2>3, <2>4, <2>5, <2>6, <2>7 DEF BlockNext
<1>3. BlockInv => RoundTrip
  BY Zenon DEF BlockInv
<1> QED
  BY <1>1, <1>2, <1>3, PTL DEF BlockSpec
=============================================================================
