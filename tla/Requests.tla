------------------------------ MODULE Requests ------------------------------
(* The threads of a P2P manager around one client session: callers of        *)
(* sendMessageTo that wait for an answer, tasks of the thread pool that      *)
(* handle messages, the I/O thread of the session, and stop().  They share   *)
(* sessionsMutex, requestsMutex and the writeLock_ of the session, which a   *)
(* writer takes and the I/O thread releases in on_write.  An action ends     *)
(* where a thread needs a lock that another one may hold.                    *)
EXTENDS FiniteSets

CONSTANTS
  Requesters,  \* threads that make one request each, whose id they stand for
  PoolTasks,   \* tasks of the pool, one message each
  Kinds,       \* what the peer sends beside answers: "request", "nodes" (requestNodes),
               \* "broadcast", "invalid", "stray" (an answer nobody asked for)
  Faults,      \* whether the connection may fail
  Stops,       \* whether stop() is called
  None

ASSUME RequestsAssumption ==
  /\ Kinds \subseteq {"request", "nodes", "broadcast", "invalid", "stray"}
  /\ Requesters \intersect PoolTasks = {}
  /\ Requesters \intersect {"request", "nodes", "broadcast", "invalid", "stray", None} = {}

VARIABLES
  closed,    \* closed_ of the manager
  session,   \* "open", "failed" (not in sessions_ any more), "closed" (by this node)
  writer,    \* the holder of sessionsMutex
  readers,   \* the shared holders of sessionsMutex
  reqLock,   \* the holder of requestsMutex
  writing,   \* the request or task whose message is being written: writeLock_ is held
  requests,  \* the keys of requests_
  answered,  \* the requests whose promise is set
  inbox,     \* requests the peer has answered and the I/O thread has not read
  asked,     \* requests that have reached the peer
  io,        \* the I/O thread: "run", "unregister"
  pc,        \* requesters and tasks
  task,      \* the message of a task
  stopping   \* the caller of stop(): "no", "lock", "wait", "done"

requestsVars == <<closed, session, writer, readers, reqLock, writing, requests, answered,
                  inbox, asked, io, pc, task, stopping>>
locks == <<writer, readers, reqLock, writing>>
table == <<requests, answered, inbox, asked>>

RequestsInit ==
  /\ closed = FALSE /\ session = "open"
  /\ writer = None /\ readers = {} /\ reqLock = None /\ writing = None
  /\ requests = {} /\ answered = {} /\ inbox = {} /\ asked = {}
  /\ io = "run" /\ stopping = "no"
  /\ pc = [t \in Requesters \union PoolTasks |-> "idle"]
  /\ task = [t \in PoolTasks |-> None]

GoTo(t, l) == pc' = [pc EXCEPT ![t] = l]
Exclusive == writer = None /\ readers = {}

-----------------------------------------------------------------------------
(* sendMessageTo and the wait of requestNodes, requestNodeInfo and           *)
(* requestValidatorTxs.                                                      *)
Send(r) ==
  /\ pc[r] = "idle"
  /\ GoTo(r, IF closed THEN "done" ELSE "sessions")
  /\ UNCHANGED <<closed, session, locks, table, io, task, stopping>>

FindSession(r) ==
  /\ pc[r] = "sessions" /\ writer = None
  /\ IF session = "open" THEN GoTo(r, "requests") /\ readers' = readers \union {r}
     ELSE GoTo(r, "done") /\ UNCHANGED readers
  /\ UNCHANGED <<closed, session, writer, reqLock, writing, table, io, task, stopping>>

(* Variant: the request is not in the table when it is sent.                 *)
NotEntered(r) == UNCHANGED requests
EnterRequest(r) == requests' = requests \union {r}

LockRequests(r) ==
  /\ pc[r] = "requests" /\ reqLock = None
  /\ reqLock' = r /\ EnterRequest(r) /\ GoTo(r, "write")
  /\ UNCHANGED <<closed, session, writer, readers, writing, answered, inbox, asked, io, task, stopping>>

Write(r) ==
  /\ pc[r] = "write" /\ writing = None
  /\ writing' = r /\ reqLock' = None /\ readers' = readers \ {r}
  /\ GoTo(r, "wait")
  /\ UNCHANGED <<closed, session, writer, table, io, task, stopping>>

(* The answer, or two seconds without it.                                    *)
EndRequest(r) ==
  /\ pc[r] = "wait"
  /\ GoTo(r, IF r \in answered THEN "answered" ELSE "done")
  /\ UNCHANGED <<closed, session, locks, table, io, task, stopping>>

-----------------------------------------------------------------------------
(* The I/O thread of the session: on_write, on_read, handleError.  A failed  *)
(* write ends with the lock released as well.                                *)
NotReleased == UNCHANGED writing
Release == writing' = None

OnWrite ==
  /\ io = "run" /\ writing # None
  /\ Release
  /\ asked' = IF session = "open" THEN asked \union ({writing} \intersect Requesters) ELSE asked
  /\ UNCHANGED <<closed, session, writer, readers, reqLock, requests, answered, inbox, io, pc, task, stopping>>

PeerAnswers(r) ==
  /\ r \in asked
  /\ asked' = asked \ {r} /\ inbox' = inbox \union {r}
  /\ UNCHANGED <<closed, session, locks, requests, answered, io, pc, task, stopping>>

(* on_read: the message goes to the thread pool.                             *)
OnRead(t) ==
  /\ io = "run" /\ session = "open" /\ ~closed /\ pc[t] = "idle"
  /\ \/ \E r \in inbox : task' = [task EXCEPT ![t] = r] /\ inbox' = inbox \ {r}
     \/ \E k \in Kinds : task' = [task EXCEPT ![t] = k] /\ UNCHANGED inbox
  /\ GoTo(t, "start")
  /\ UNCHANGED <<closed, session, locks, requests, answered, asked, io, stopping>>

ConnectionFails ==
  /\ Faults /\ io = "run" /\ session = "open"
  /\ io' = "unregister"
  /\ UNCHANGED <<closed, session, locks, table, pc, task, stopping>>

(* handleError: unregisterSession takes sessionsMutex; if the session has    *)
(* been closed meanwhile it finds nothing.                                   *)
Unregister ==
  /\ io = "unregister" /\ Exclusive
  /\ session' = IF session = "open" THEN "failed" ELSE session
  /\ io' = "run"
  /\ UNCHANGED <<closed, locks, table, pc, task, stopping>>

-----------------------------------------------------------------------------
(* handleMessage on the thread pool.                                         *)
Dispatch(t) ==
  /\ pc[t] = "start"
  /\ GoTo(t, CASE closed -> "done"
               [] ~closed /\ task[t] = "request" -> "respond"
               [] ~closed /\ task[t] = "nodes" -> "list"
               [] ~closed /\ task[t] = "broadcast" -> "broadcast"
               [] ~closed /\ task[t] = "invalid" -> "disconnect"
               [] OTHER -> "answer")
  /\ UNCHANGED <<closed, session, locks, table, io, task, stopping>>

(* The handlers of requests; requestNodes lists the sessions first.          *)
(* answerSession writes to the session the request came from, whether it is  *)
(* in sessions_ or not.                                                      *)
HandleRequest(t) ==
  /\ \/ /\ pc[t] = "list" /\ writer = None
        /\ GoTo(t, "respond") /\ UNCHANGED writing
     \/ /\ pc[t] = "respond" /\ closed
        /\ GoTo(t, "done") /\ UNCHANGED writing
     \/ /\ pc[t] = "respond" /\ writing = None
        /\ writing' = t /\ GoTo(t, "done")
  /\ UNCHANGED <<closed, session, writer, readers, reqLock, table, io, task, stopping>>

(* handlePingAnswer, handleInfoAnswer and the like: an unknown request       *)
(* disconnects the session while requestsMutex is held.                      *)
HandleAnswer(t) ==
  /\ pc[t] = "answer" /\ reqLock = None
  /\ \/ /\ task[t] \in requests
        /\ answered' = answered \union {task[t]}
        /\ GoTo(t, "done") /\ UNCHANGED reqLock
     \/ /\ task[t] \notin requests
        /\ reqLock' = t /\ GoTo(t, "disconnect") /\ UNCHANGED answered
  /\ UNCHANGED <<closed, session, writer, readers, writing, requests, inbox, asked, io, task, stopping>>

DisconnectSession(t) ==
  /\ pc[t] = "disconnect" /\ Exclusive
  /\ session' = IF session = "open" THEN "closed" ELSE session
  /\ reqLock' = IF reqLock = t THEN None ELSE reqLock
  /\ GoTo(t, "done")
  /\ UNCHANGED <<closed, writer, readers, writing, table, io, task, stopping>>

(* broadcastMessage: the sessions are locked while it writes.                *)
Broadcast(t) ==
  /\ \/ /\ pc[t] = "broadcast" /\ writer = None
        /\ IF session = "open" THEN GoTo(t, "forward") /\ readers' = readers \union {t}
           ELSE GoTo(t, "done") /\ UNCHANGED readers
        /\ UNCHANGED writing
     \/ /\ pc[t] = "forward" /\ writing = None
        /\ writing' = t /\ readers' = readers \ {t}
        /\ GoTo(t, "done")
  /\ UNCHANGED <<closed, session, writer, reqLock, table, io, task, stopping>>

-----------------------------------------------------------------------------
(* stop(): it waits for the tasks of the pool with sessionsMutex held.       *)
Stop ==
  /\ \/ /\ Stops /\ stopping = "no"
        /\ closed' = TRUE /\ stopping' = "lock"
        /\ UNCHANGED <<session, writer>>
     \/ /\ stopping = "lock" /\ Exclusive
        /\ writer' = "stop" /\ session' = "closed" /\ stopping' = "wait"
        /\ UNCHANGED closed
     \/ /\ stopping = "wait" /\ \A t \in PoolTasks : pc[t] \in {"idle", "done"}
        /\ writer' = None /\ stopping' = "done"
        /\ UNCHANGED <<closed, session>>
  /\ UNCHANGED <<readers, reqLock, writing, table, io, pc, task>>

Requester(r) == Send(r) \/ FindSession(r) \/ LockRequests(r) \/ Write(r) \/ EndRequest(r)
Task(t) == Dispatch(t) \/ HandleRequest(t) \/ HandleAnswer(t) \/ DisconnectSession(t) \/ Broadcast(t)

RequestsNext ==
  \/ \E r \in Requesters : Requester(r) \/ PeerAnswers(r)
  \/ \E t \in PoolTasks : OnRead(t) \/ Task(t)
  \/ OnWrite \/ ConnectionFails \/ Unregister
  \/ Stop

RequestsSpec == RequestsInit /\ [][RequestsNext]_requestsVars

(* Every thread that can go on does, and the operating system completes a    *)
(* write; that a peer answers or a connection fails is not assumed.          *)
Fairness ==
  /\ \A r \in Requesters : WF_requestsVars(Requester(r))
  /\ \A t \in PoolTasks : WF_requestsVars(Task(t))
  /\ WF_requestsVars(OnWrite) /\ WF_requestsVars(Unregister)
  /\ WF_requestsVars(stopping # "no" /\ Stop)

FairRequests == RequestsSpec /\ Fairness

-----------------------------------------------------------------------------
(* The answer to a request this node has made is recognised, however late it *)
(* is and whatever else happens to the session: the peer is not disconnected *)
(* for it.                                                                   *)
AnswersFindRequests == \A t \in PoolTasks : task[t] \in Requesters => pc[t] # "disconnect"

(* The connection fails, stop() is called, or the peer sends an answer that  *)
(* nobody asked for.                                                         *)
Disturbed ==
  \/ io = "unregister" \/ session = "failed" \/ stopping # "no"
  \/ \E t \in PoolTasks : task[t] = "stray"

(* A request comes to an end, with an answer or without, unless one of these *)
(* comes in between; the peer may send requests, broadcasts and messages for *)
(* which it is disconnected.  (In each of the three cases threads can wait   *)
(* for each other's locks for ever.)                                         *)
UndisturbedRequestsEnd ==
  \A r \in Requesters : pc[r] = "sessions" ~> (pc[r] \in {"answered", "done"} \/ Disturbed)
=============================================================================
