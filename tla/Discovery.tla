----------------------------- MODULE Discovery -----------------------------
(* How nodes find each other: the DiscoveryWorker of every node, and the     *)
(* start of syncerLoop, which connects a normal node to the discovery nodes  *)
(* in its options.  The two ends of a connection register on their own, and  *)
(* an end that is refused closes the connection.  The discovery nodes run    *)
(* before the others start, and a connection fails for no other reason       *)
(* (module Sessions is about the others).                                    *)
EXTENDS Naturals, FiniteSets

CONSTANTS
  Normal, Discoverers,  \* the nodes, by type
  Seeds,           \* Seeds[n]: the discovery nodes in the options of n
  MinConnections, MaxConnections,
  Workers,         \* bound: the nodes whose worker is followed
  Lossy,           \* bound: the nodes one answer of which may be lost or late ...
  MaxLost          \* ... and how many of them lose one

Nodes == Normal \union Discoverers

VARIABLES
  up,          \* nodes that run
  sessions,    \* the ends that are registered and read
  connecting,  \* the ends that are not registered yet
  pass,        \* discoveryPass
  requested,   \* requestedNodes: asked in the last 60 seconds
  toAsk,       \* what is left of the list a worker is going through
  lost         \* the nodes an answer of which was lost

vars == <<up, sessions, connecting, pass, requested, toAsk, lost>>

(* An end of a connection: <<the node it is at, the client, the server>>.    *)
Ends == {e \in Nodes \X Nodes \X Nodes : e[2] # e[3] /\ e[1] \in {e[2], e[3]}}
HostNodeId(e) == IF e[1] = e[2] THEN e[3] ELSE e[2]
OtherEnd(e) == <<HostNodeId(e), e[2], e[3]>>

(* The keys of sessions_ of node n, and clientSessionsCount.  An end reads   *)
(* as long as it is registered: there is never a second one with that peer.  *)
Peers(n) == {HostNodeId(e) : e \in {f \in sessions : f[1] = n}}
ClientSessionsCount(n) == Cardinality({e \in sessions : e[1] = n /\ e[2] = n})

Init ==
  /\ up = Discoverers
  /\ sessions = {} /\ connecting = {} /\ lost = {}
  /\ pass = [n \in Nodes |-> FALSE]
  /\ requested = [n \in Nodes |-> {}]
  /\ toAsk = [n \in Nodes |-> {}]

ConnectToServers(n, nodes) ==
  connecting' = connecting \union
    (IF ClientSessionsCount(n) < MaxConnections
     THEN {e \in Ends : e[2] = n /\ e[3] \in nodes} ELSE {})

(* syncerLoop: the seeds are connected to and the worker is started.         *)
Start(n) ==
  /\ n \notin up
  /\ up' = up \union {n}
  /\ ConnectToServers(n, Seeds[n])
  /\ UNCHANGED <<sessions, pass, requested, toAsk, lost>>

(* The handshake is over at one end: registerSession refuses a second        *)
(* session with a peer, and the end is dropped.                              *)
RegisterSession(e) ==
  /\ e \in connecting
  /\ connecting' = connecting \ {e}
  /\ sessions' = IF HostNodeId(e) \in Peers(e[1]) THEN sessions ELSE sessions \union {e}
  /\ UNCHANGED <<up, pass, requested, toAsk, lost>>

(* on_read gets an error, since the other end was dropped; handleError and   *)
(* unregisterSession.                                                        *)
HandleError(e) ==
  /\ e \in sessions /\ OtherEnd(e) \notin connecting \union sessions
  /\ sessions' = sessions \ {e}
  /\ UNCHANGED <<up, connecting, pass, requested, toAsk, lost>>

(* The test of the limits at the beginning of a round: a worker that has     *)
(* enough sessions sleeps and goes on, or sleeps and starts again.           *)
GoesOn(n) ==
  LET size == Cardinality(Peers(n)) IN size >= MinConnections \/ size < MaxConnections

ListConnectedNodes(n) ==
  (Peers(n) \ requested[n]) \intersect (IF pass[n] THEN Normal ELSE Discoverers)

(* A round of discoverLoop: the first asks discovery nodes, if there are     *)
(* any, the others normal nodes.                                             *)
Round(n) ==
  /\ n \in up \intersect Workers /\ toAsk[n] = {} /\ GoesOn(n)
  /\ toAsk' = [toAsk EXCEPT ![n] = ListConnectedNodes(n)]
  /\ pass' = [pass EXCEPT ![n] = TRUE]
  /\ UNCHANGED <<up, sessions, connecting, requested, lost>>

(* connectToNode for every node of the answer.                               *)
ConnectToNodes(n, nodes) == ConnectToServers(n, (nodes \intersect Normal) \ (Peers(n) \union {n}))

(* The answer of handleRequestNodesRequest.                                  *)
Listed(m) == Peers(m)

(* requestNodes and what follows; without an answer the list is empty.       *)
Ask(n, m) ==
  /\ m \in toAsk[n]
  /\ \/ ConnectToNodes(n, Listed(m)) /\ UNCHANGED lost
     \/ /\ m \in Lossy \ lost /\ Cardinality(lost) < MaxLost
        /\ lost' = lost \union {m} /\ UNCHANGED connecting
  /\ toAsk' = [toAsk EXCEPT ![n] = @ \ {m}]
  /\ requested' = [requested EXCEPT ![n] = @ \union {m}]
  /\ UNCHANGED <<up, sessions, pass>>

(* refreshRequestedNodes: 60 seconds have passed.  An entry matters only     *)
(* when a round begins, so that it can be erased before; one of a discovery  *)
(* node does not matter after the only round that asks it.                   *)
RefreshRequestedNodes(n, m) ==
  /\ m \in requested[n]
  /\ requested' = [requested EXCEPT ![n] = @ \ {m}]
  /\ UNCHANGED <<up, sessions, connecting, pass, toAsk, lost>>

Asks(n) == \E m \in Nodes : Ask(n, m)

Next ==
  \/ \E n \in Nodes : Start(n) \/ Round(n) \/ Asks(n)
  \/ \E n \in Nodes, m \in Normal : RefreshRequestedNodes(n, m)
  \/ \E e \in Ends : RegisterSession(e) \/ HandleError(e)

Spec == Init /\ [][Next]_vars

(* The nodes are started, every end comes to register or to see that the     *)
(* other is gone, workers loop and time passes.                              *)
FairSpec ==
  /\ Spec
  /\ WF_vars(\E n \in Nodes : Start(n))
  /\ \A e \in Ends : WF_vars(RegisterSession(e)) /\ WF_vars(HandleError(e))
  /\ \A n \in Nodes : WF_vars(Round(n)) /\ WF_vars(Asks(n))
  /\ \A n \in Nodes : \A m \in Normal \ {n} : WF_vars(RefreshRequestedNodes(n, m))

-----------------------------------------------------------------------------
(* "Wait until all peers are connected to the discovery node": no worker     *)
(* begins before every normal node is connected with those in its options.   *)
SeedsConnectedFirst ==
  \A n \in Workers : pass[n] =>
    \A k \in Normal : \A s \in Seeds[k] : s \in Peers(k) /\ k \in Peers(s)

(* In the end every normal node is connected with every other and stays so,  *)
(* if the workers start late enough and no answer is lost: "After a while,   *)
(* the discovery thread should have found all the nodes and connected        *)
(* between each other" (tests/net/p2p/p2p.cpp:360).                          *)
(* Refuted by TLC: connections that nodes open to each other at the same     *)
(* time can each be refused by one end, and discovery nodes are asked once.  *)
NodesMeet ==
  [](SeedsConnectedFirst /\ lost = {})
    => <>[](\A n, m \in Normal : n # m => m \in Peers(n))
=============================================================================
