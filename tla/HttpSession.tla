---------------------------- MODULE HttpSession ----------------------------
(***************************************************************************)
(* One HTTP connection of the node: HTTPSession and its HTTPQueue.         *)
(* Requests are pipelined: the session reads on while responses wait in    *)
(* the queue, which starts one write at a time. Handlers of a connection   *)
(* run on its strand, so each of them is one step; reads and writes are    *)
(* pending operations that complete between any two of them.               *)
(***************************************************************************)
EXTENDS Naturals, Sequences

CONSTANTS
  Limit,         \* HTTPQueue::limit, 8 in the code
  MaxRequests,   \* bound: requests the client sends on the connection
  Closing,       \* requests whose response needs the end of the stream
  HalfCloses,    \* may the client end its side after its last request
  Breaks         \* may the connection fail or time out

\* The constructor of HTTPQueue asserts a positive limit.
HttpAssumption ==
  /\ Limit \in Nat \ {0}
  /\ MaxRequests \in Nat
  /\ Closing \subseteq 1..MaxRequests
  /\ HalfCloses \in BOOLEAN
  /\ Breaks \in BOOLEAN

VARIABLES
  sent,       \* number of requests the client has sent; request n is the nth
  ended,      \* the client has ended its side
  handled,    \* number of requests given to handle_request
  reads,      \* pending async_read operations
  items,      \* HTTPQueue::items, the requests answered by the responses
  writes,     \* pending async_write operations
  flushed,    \* the pending write is done, its handler has not run
  answered,   \* responses the client has received
  conn        \* "new", "open", "shut" by do_close, or "broken"

httpVars == <<sent, ended, handled, reads, items, writes, flushed, answered, conn>>

client == <<sent, ended>>

HttpInit ==
  /\ sent = 0
  /\ ended = FALSE
  /\ handled = 0
  /\ reads = 0
  /\ items = <<>>
  /\ writes = 0
  /\ flushed = FALSE
  /\ answered = <<>>
  /\ conn = "new"

-----------------------------------------------------------------------------
(* The client and the network. *)

Send ==
  /\ ~ended /\ sent < MaxRequests
  /\ sent' = sent + 1
  /\ UNCHANGED <<ended, handled, reads, items, writes, flushed, answered, conn>>

HalfClose ==
  /\ HalfCloses /\ ~ended
  /\ ended' = TRUE
  /\ UNCHANGED <<sent, handled, reads, items, writes, flushed, answered, conn>>

\* An error of the socket, or the 30 seconds of expires_after have passed:
\* every pending operation now completes with an error.
Break ==
  /\ Breaks /\ conn \in {"open", "shut"}
  /\ conn' = "broken"
  /\ UNCHANGED <<client, handled, reads, items, writes, flushed, answered>>

\* The response at the front of the queue reaches the client.
AsyncWrite ==
  /\ writes > 0 /\ ~flushed /\ conn = "open"
  /\ flushed' = TRUE
  /\ answered' = Append(answered, Head(items))
  /\ UNCHANGED <<client, handled, reads, items, writes, conn>>

-----------------------------------------------------------------------------
(* The session. *)

\* start, and the first do_read.
Start ==
  /\ conn = "new"
  /\ conn' = "open"
  /\ reads' = reads + 1
  /\ UNCHANGED <<client, handled, items, writes, flushed, answered>>

Full(queue) == Len(queue) >= Limit

\* on_read with a request: handle_request gives the response to the queue,
\* which starts the write if there is no other; then the next read, unless the
\* queue is full.
OnRead ==
  /\ reads > 0 /\ conn \in {"open", "shut"} /\ handled < sent
  /\ handled' = handled + 1
  /\ items' = Append(items, handled + 1)
  /\ writes' = IF Len(items') = 1 THEN writes + 1 ELSE writes
  /\ reads' = IF Full(items') THEN reads - 1 ELSE reads
  /\ UNCHANGED <<client, flushed, answered, conn>>

\* on_read with end_of_stream: do_close.
OnReadEnd ==
  /\ reads > 0 /\ conn \in {"open", "shut"} /\ ended /\ handled = sent
  /\ reads' = reads - 1
  /\ conn' = "shut"
  /\ UNCHANGED <<client, handled, items, writes, flushed, answered>>

\* on_read with another error.
OnReadError ==
  /\ reads > 0 /\ conn = "broken"
  /\ reads' = reads - 1
  /\ UNCHANGED <<client, handled, items, writes, flushed, answered, conn>>

\* HTTPQueue::on_write: the response written is removed and the write of the
\* next one starts; the session reads again if the queue was full.
QueueOnWrite ==
  /\ items' = Tail(items)
  /\ writes' = IF items' # <<>> THEN writes ELSE writes - 1
  /\ reads' = IF Full(items) THEN reads + 1 ELSE reads

\* on_write after success: do_close if the response needs the end of the
\* stream, which leaves the response in the queue.
OnWrite ==
  /\ writes > 0 /\ flushed
  /\ flushed' = FALSE
  /\ IF Head(items) \in Closing
       THEN /\ conn' = IF conn = "open" THEN "shut" ELSE conn
            /\ writes' = writes - 1
            /\ UNCHANGED <<items, reads>>
       ELSE /\ QueueOnWrite
            /\ UNCHANGED conn
  /\ UNCHANGED <<client, handled, answered>>

\* on_write with an error, which a write started after do_close has too.
OnWriteError ==
  /\ writes > 0 /\ ~flushed /\ conn \in {"shut", "broken"}
  /\ writes' = writes - 1
  /\ UNCHANGED <<client, handled, reads, items, flushed, answered, conn>>

HttpNext ==
  \/ Send \/ HalfClose \/ Break \/ AsyncWrite
  \/ Start \/ OnRead \/ OnReadEnd \/ OnReadError
  \/ OnWrite \/ OnWriteError

HttpSpec == HttpInit /\ [][HttpNext]_httpVars

-----------------------------------------------------------------------------
(* Properties. *)

\* Every variable has its type (the fields of HTTPSession and HTTPQueue).
HttpTypeOK ==
  /\ sent \in 0..MaxRequests
  /\ ended \in BOOLEAN
  /\ handled \in 0..sent
  /\ reads \in Nat
  /\ items \in Seq(1..MaxRequests)
  /\ writes \in Nat
  /\ flushed \in BOOLEAN
  /\ answered \in Seq(1..MaxRequests)
  /\ conn \in {"new", "open", "shut", "broken"}

\* on_read and on_write both start operations, and the parser, the buffer and
\* the stream are shared: two reads or two writes are never pending at once,
\* and the queue never holds more than its limit, nor is anything read for it
\* while it is full.
OneOfEach ==
  /\ reads <= 1
  /\ writes <= 1
  /\ Len(items) <= Limit
  /\ Len(items) = Limit => reads = 0

\* HTTP pipelining answers in the order of the requests, however reads and
\* writes interleave: the client gets response n as the nth.
AnsweredInOrder == \A n \in 1..Len(answered) : answered[n] = n

=============================================================================
