------------------------------ MODULE Sessions ------------------------------
(* The sessions of a P2P manager (ManagerBase, ClientSession,               *)
(* ServerSession): how they are opened by this node or by a peer, enter and  *)
(* leave the map sessions_, which is keyed by the id of the peer, and what   *)
(* clientSessionsCount counts.  Each action holds sessionsMutex, or runs on  *)
(* the strand of its session, from beginning to end.                         *)
EXTENDS Integers, FiniteSets

CONSTANTS
  Peers,           \* ids of the other nodes
  NoId,            \* the zero hash, hostNodeId_ of a session without a valid one
  Slots,           \* session objects that can exist at the same time
  MaxConnections,  \* maxConnections_
  None

VARIABLES
  closed,    \* closed_ of the manager
  sessions,  \* sessions_: id -> session or None
  count,     \* clientSessionsCount; below zero the unsigned counter has wrapped
  objs,      \* session objects
  wrong      \* history: failed connects that lowered the counter

vars == <<closed, sessions, count, objs, wrong>>

Ids == Peers \union {NoId}

(* "connecting": until the handshake of a client is over.  "opening": a      *)
(* server session that reads the upgrade request.  "accepting": it has read  *)
(* it.  "registering": in registerSession.  "reading": registered, with a    *)
(* read pending.  "ended": registered, and reads no more.  peer:             *)
(* hostNodeId_.  closed: closed_ of the session.                             *)
Objects == [at : {"connecting", "opening", "accepting", "registering", "reading", "ended"},
            type : {"CLIENT", "SERVER"}, peer : Ids, closed : BOOLEAN]

SessionsAssumption == IsFiniteSet(Slots) /\ None \notin Slots /\ None \notin Objects

TypeOK ==
  /\ closed \in BOOLEAN
  /\ sessions \in [Ids -> Slots \union {None}]
  /\ count \in Int
  /\ objs \in [Slots -> Objects \union {None}]
  /\ wrong \in Nat

Init ==
  /\ closed = TRUE
  /\ sessions = [p \in Ids |-> None]
  /\ count = 0
  /\ objs = [s \in Slots |-> None]
  /\ wrong = 0

IsAt(s, ats) == objs[s] # None /\ objs[s].at \in ats
Listed(s) == \E p \in Ids : sessions[p] = s

Opened(s, at, type) ==
  objs' = [objs EXCEPT ![s] = [at |-> at, type |-> type, peer |-> NoId, closed |-> FALSE]]

(* A session without a pending operation that the map does not hold is       *)
(* destroyed.                                                                *)
Gone(s) == objs' = [objs EXCEPT ![s] = None]

StartServer ==
  /\ closed
  /\ closed' = FALSE
  /\ UNCHANGED <<sessions, count, objs, wrong>>

ConnectToServer(s) ==
  /\ ~closed /\ 0 <= count /\ count < MaxConnections
  /\ objs[s] = None
  /\ Opened(s, "connecting", "CLIENT")
  /\ UNCHANGED <<closed, sessions, count, wrong>>

(* listener::on_accept and on_run.                                           *)
Accept(s) ==
  /\ ~closed
  /\ objs[s] = None
  /\ Opened(s, "opening", "SERVER")
  /\ UNCHANGED <<closed, sessions, count, wrong>>

(* accept: the headers of the upgrade request.  An X-Node-Id that is not a   *)
(* hash leaves hostNodeId_ as it is, and the session goes on ...             *)
ReadRequest(s, p) ==
  /\ IsAt(s, {"opening"})
  /\ objs' = [objs EXCEPT ![s].at = "accepting", ![s].peer = p]
  /\ UNCHANGED <<closed, sessions, count, wrong>>

(* ... a type or a port that is not a number ends it, without unregistering. *)
BadHeaders(s) ==
  /\ IsAt(s, {"opening", "connecting"})
  /\ Gone(s)
  /\ UNCHANGED <<closed, sessions, count, wrong>>

(* The handshake of a client, with the headers of the response.              *)
(* registerSession looks at closed_ before it takes sessionsMutex ...        *)
Handshake(s, p) ==
  /\ IsAt(s, {"connecting"})
  /\ IF closed THEN Gone(s)
     ELSE objs' = [objs EXCEPT ![s].at = "registering", ![s].peer = p]
  /\ UNCHANGED <<closed, sessions, count, wrong>>

OnAccept(s) ==
  /\ IsAt(s, {"accepting"})
  /\ IF closed THEN Gone(s) ELSE objs' = [objs EXCEPT ![s].at = "registering"]
  /\ UNCHANGED <<closed, sessions, count, wrong>>

(* ... and the session starts to read, or is dropped.                        *)
RegisterSession(s) ==
  /\ IsAt(s, {"registering"})
  /\ LET p == objs[s].peer IN
     \/ /\ sessions[p] = None
        /\ sessions' = [sessions EXCEPT ![p] = s]
        /\ count' = IF objs[s].type = "CLIENT" THEN count + 1 ELSE count
        /\ objs' = [objs EXCEPT ![s].at = "reading"]
     \/ /\ sessions[p] # None
        /\ Gone(s) /\ UNCHANGED <<sessions, count>>
  /\ UNCHANGED <<closed, wrong>>

(* on_read, with a message, when the manager is closed: it returns without a *)
(* new read and without unregistering.  Otherwise it reads on.               *)
OnReadClosed(s) ==
  /\ closed
  /\ IsAt(s, {"reading"})
  /\ IF Listed(s) THEN objs' = [objs EXCEPT ![s].at = "ended"] ELSE Gone(s)
  /\ UNCHANGED <<closed, sessions, count, wrong>>

(* A session that reads no more, once the map does not hold it.              *)
Destroyed(s) ==
  /\ IsAt(s, {"ended"}) /\ ~Listed(s)
  /\ Gone(s)
  /\ UNCHANGED <<closed, sessions, count, wrong>>

(* unregisterSession, whichever session the entry of the id holds.           *)
UnregisterSession(s) ==
  LET p == objs[s].peer IN
  IF sessions[p] = None THEN UNCHANGED <<sessions, count>>
  ELSE /\ sessions' = [sessions EXCEPT ![p] = None]
       /\ count' = IF objs[s].type = "CLIENT" THEN count - 1 ELSE count

(* handleError, wherever an operation of the session gets an error.  Before  *)
(* the headers are read the id of the session is the zero hash: a connect    *)
(* that fails unregisters the peer that gave no valid id, if there is one.   *)
HandleError(s) ==
  /\ IsAt(s, {"connecting", "opening", "accepting", "reading", "ended"})
  /\ IF objs[s].closed THEN UNCHANGED <<sessions, count>> ELSE UnregisterSession(s)
  /\ wrong' = IF objs[s].at = "connecting" /\ sessions[objs[s].peer] # None THEN wrong + 1 ELSE wrong
  /\ Gone(s)
  /\ UNCHANGED closed

(* disconnectSession: after a message that cannot be parsed or is invalid.   *)
DisconnectSession(p) ==
  /\ sessions[p] # None
  /\ objs' = [objs EXCEPT ![sessions[p]].closed = TRUE]
  /\ sessions' = [sessions EXCEPT ![p] = None]
  /\ UNCHANGED <<closed, count, wrong>>

(* Setting closed_ and closing the sessions is one step: what another thread *)
(* does in between it can do before or after.  A session that reads no more  *)
(* is gone with its entry, before stop could close it.                       *)
Stop ==
  /\ ~closed
  /\ closed' = TRUE
  /\ objs' = [s \in Slots |->
       IF Listed(s) /\ IsAt(s, {"reading"}) THEN [objs[s] EXCEPT !.closed = TRUE] ELSE objs[s]]
  /\ sessions' = [p \in Ids |-> None]
  /\ UNCHANGED <<count, wrong>>

Next ==
  \/ \E s \in Slots, p \in Ids : ReadRequest(s, p) \/ Handshake(s, p)
  \/ \E s \in Slots :
       \/ ConnectToServer(s) \/ Accept(s) \/ BadHeaders(s) \/ OnAccept(s) \/ RegisterSession(s)
       \/ OnReadClosed(s) \/ Destroyed(s) \/ HandleError(s)
  \/ \E p \in Ids : DisconnectSession(p)
  \/ StartServer
  \/ Stop

Spec == Init /\ [][Next]_vars

-----------------------------------------------------------------------------
Open(s) == IsAt(s, {"reading", "ended"}) /\ ~objs[s].closed
OpenClients == {s \in Slots : Open(s) /\ objs[s].type = "CLIENT"}

(* What the map holds under an id is a session with that id that exists, was *)
(* registered and has not been closed: nobody writes to a session that is    *)
(* gone, although errors of one session remove the entries of others.        *)
EntriesAreOpen ==
  \A p \in Ids : sessions[p] # None => Open(sessions[p]) /\ objs[sessions[p]].peer = p

(* The counter that limits connections falls behind the client sessions that *)
(* are open, in the map or not, only by the connects that failed while the   *)
(* map had a session without a valid id.                                     *)
CountCoversClients == count + wrong >= Cardinality(OpenClients)

(* Refuted by TLC (README, Disagreements): the counter never falls behind,   *)
(* and so never below zero.                                                  *)
CountNeverBehind == count >= Cardinality(OpenClients)

(* Refuted by TLC (README, Disagreements): the counter is the number of      *)
(* client sessions.                                                          *)
CountIsExact == count = Cardinality(OpenClients)

(* Refuted by TLC (README, Disagreements): there are no two open sessions    *)
(* with one node.                                                            *)
OneSessionPerNode ==
  \A s, t \in Slots :
    Open(s) /\ Open(t) /\ objs[s].peer = objs[t].peer /\ objs[s].peer # NoId => s = t

(* Refuted by TLC (README, Disagreements): a stopped manager has no          *)
(* sessions.                                                                 *)
StoppedIsEmpty == closed => \A p \in Ids : sessions[p] = None

(* Refuted by TLC (README, Disagreements): the number of connections stays   *)
(* within the limit.                                                         *)
ConnectionsAreLimited == Cardinality({p \in Ids : sessions[p] # None}) <= MaxConnections
=============================================================================
