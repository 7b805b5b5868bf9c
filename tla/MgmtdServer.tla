---------------------------- MODULE MgmtdServer ----------------------------
(***************************************************************************)
(* is_mgmtd as a server: the socket thread that opens and closes           *)
(* connections and queues what they send, the request loop of              *)
(* silc_mgmtd_daemon.c, and one worker thread per request.  A connection   *)
(* counts the messages that refer to it (msg_use_counter), because a       *)
(* message may outlive its connection.  Every action that holds conn_lock  *)
(* in the code is one step.                                                *)
(***************************************************************************)
EXTENDS Naturals, Sequences, FiniteSets

CONSTANTS Conns,    \* the connections clients may open, each used once
          Msgs,     \* the requests clients may send, each sent once
          NoMsg,    \* no message
          Faults    \* what clients and the system do that makes things hard

\* close   a client goes away at any moment
\* giveUp  a client stops waiting (after 10 s) and sends its next request
\* noNode  a wildcard request names a node that is not there
\* slow    a request takes longer than the 60 s the loop allows
FaultKinds == {"close", "giveUp", "noNode", "slow"}

ASSUME ServerAssumption ==
  /\ IsFiniteSet(Msgs) /\ NoMsg \notin Msgs
  /\ Faults \subseteq FaultKinds

VARIABLES
  conn,       \* each connection: "none", "open", "closed" or "freed"
  uses,       \* msg_use_counter of each connection
  from,       \* conn_entry of each message
  queue,      \* msg_recv_list
  requests,   \* request_list of the loop
  late,       \* req_tmo_list of the loop
  running,    \* messages whose worker has not finished
  at, cur,    \* where the loop is, and the message it handles
  fate        \* history: what became of each message

socket == <<conn, uses, from, queue>>
loop == <<at, cur>>
vars == <<conn, uses, from, queue, requests, late, running, at, cur, fate>>

Fates == {"unsent", "pending", "answered", "failed", "dropped"}

Queued == {queue[i] : i \in DOMAIN queue}
Live == Queued \cup requests \cup late \cup ({cur} \ {NoMsg})
Of(c) == {m \in Live : from[m] = c}

TypeOK ==
  /\ conn \in [Conns -> {"none", "open", "closed", "freed"}]
  /\ uses \in [Conns -> Nat]
  /\ from \in [Msgs -> Conns]
  /\ queue \in Seq(Msgs)
  /\ requests \subseteq Msgs /\ late \subseteq Msgs /\ running \subseteq Msgs
  /\ at \in {"idle", "do", "send", "free"}
  /\ cur \in Msgs \cup {NoMsg}
  /\ fate \in [Msgs -> Fates]

Init ==
  /\ conn = [c \in Conns |-> "none"]
  /\ uses = [c \in Conns |-> 0]
  /\ from \in [Msgs -> Conns]
  /\ queue = <<>>
  /\ requests = {} /\ late = {} /\ running = {}
  /\ at = "idle" /\ cur = NoMsg
  /\ fate = [m \in Msgs |-> "unsent"]

-----------------------------------------------------------------------------
(* The socket thread                                                       *)

ConnNew(c) ==
  /\ conn[c] = "none"
  /\ conn' = [conn EXCEPT ![c] = "open"]
  /\ UNCHANGED <<uses, from, queue, requests, late, running, loop, fate>>

\* A client sends a request; one that waits for its answers has no other.
ConnRecv(m) ==
  /\ conn[from[m]] = "open" /\ fate[m] = "unsent"
  /\ \/ "giveUp" \in Faults
     \/ \A k \in Msgs : from[k] = from[m] => fate[k] # "pending"
  /\ queue' = Append(queue, m)
  /\ uses' = [uses EXCEPT ![from[m]] = @ + 1]
  /\ fate' = [fate EXCEPT ![m] = "pending"]
  /\ UNCHANGED <<conn, from, requests, late, running, loop>>

QueuedOf(c) == {m \in Queued : from[m] = c}

\* Mutant: the connection is freed at once.
ConnCloseFrees(c) ==
  /\ "close" \in Faults /\ conn[c] = "open"
  /\ queue' = <<>>
  /\ uses' = [d \in Conns |-> uses[d] - Cardinality(QueuedOf(d))]
  /\ fate' = [m \in Msgs |-> IF m \in Queued THEN "dropped" ELSE fate[m]]
  /\ conn' = [conn EXCEPT ![c] = "freed"]
  /\ UNCHANGED <<from, requests, late, running, loop>>

\* The whole receive queue is freed, whatever connection its messages are
\* from; the connection itself only when no message refers to it any more.
ConnClose(c) ==
  /\ "close" \in Faults /\ conn[c] = "open"
  /\ queue' = <<>>
  /\ uses' = [d \in Conns |-> uses[d] - Cardinality(QueuedOf(d))]
  /\ fate' = [m \in Msgs |-> IF m \in Queued THEN "dropped" ELSE fate[m]]
  /\ conn' = [conn EXCEPT ![c] = IF uses'[c] > 0 THEN "closed" ELSE "freed"]
  /\ UNCHANGED <<from, requests, late, running, loop>>

-----------------------------------------------------------------------------
(* The request loop: silc_mgmtd_daemon_request_loop                        *)

Goto(where, m) == at' = where /\ cur' = m

Pop ==
  /\ at = "idle" /\ queue # <<>>
  /\ Goto("do", Head(queue))
  /\ queue' = Tail(queue)
  /\ UNCHANGED <<conn, uses, from, requests, late, running, fate>>

\* silc_mgmtd_op_do: expanding the wildcards fails, and nobody is told.
OpDoFails ==
  /\ at = "do" /\ "noNode" \in Faults
  /\ Goto("free", cur)
  /\ fate' = [fate EXCEPT ![cur] = "failed"]
  /\ UNCHANGED <<socket, requests, late, running>>

\* Mutant: a denied request is forgotten.
OpDoDeniedLost ==
  /\ at = "do"
  /\ Goto("idle", NoMsg)
  /\ UNCHANGED <<socket, requests, late, running, fate>>

\* The privilege check answers the request by an error at once.
OpDoDenied ==
  /\ at = "do"
  /\ requests' = requests \cup {cur}
  /\ Goto("idle", NoMsg)
  /\ UNCHANGED <<socket, late, running, fate>>

OpDoRuns ==
  /\ at = "do"
  /\ requests' = requests \cup {cur}
  /\ running' = running \cup {cur}
  /\ Goto("idle", NoMsg)
  /\ UNCHANGED <<socket, late, fate>>

TakeFinished(m) ==
  /\ at = "idle" /\ m \in requests \ running
  /\ requests' = requests \ {m}
  /\ Goto("send", m)
  /\ UNCHANGED <<socket, late, running, fate>>

TakeTimedOut(m) ==
  /\ at = "idle" /\ m \in requests \cap running /\ "slow" \in Faults
  /\ requests' = requests \ {m}
  /\ late' = late \cup {m}
  /\ UNCHANGED <<socket, running, loop, fate>>

\* silc_mgmtd_if_server_send_msg: there is nobody to send to any more when
\* the connection was closed.
Send ==
  /\ at = "send"
  /\ fate' = [fate EXCEPT ![cur] =
                IF conn[from[cur]] = "open" THEN "answered" ELSE "dropped"]
  /\ Goto("free", cur)
  /\ UNCHANGED <<socket, requests, late, running>>

\* Mutant: the counter is not decremented.
FreeKeepsCount ==
  /\ at = "free"
  /\ Goto("idle", NoMsg)
  /\ UNCHANGED <<socket, requests, late, running, fate>>

\* silc_mgmtd_net_msg_free: the test of the counter is inverted, a closed
\* connection is freed while another message still refers to it.
Free ==
  /\ at = "free"
  /\ LET c == from[cur] IN
       /\ uses' = [uses EXCEPT ![c] = @ - 1]
       /\ conn' = IF uses'[c] # 0 /\ conn[c] = "closed"
                  THEN [conn EXCEPT ![c] = "freed"] ELSE conn
  /\ Goto("idle", NoMsg)
  /\ UNCHANGED <<from, queue, requests, late, running, fate>>

-----------------------------------------------------------------------------
\* A worker, silc_mgmtd_op_handle_entry, finishes its request.
WorkerDone(m) ==
  /\ m \in running
  /\ running' = running \ {m}
  /\ UNCHANGED <<socket, requests, late, loop, fate>>

LoopStep ==
  \/ Pop \/ OpDoFails \/ OpDoDenied \/ OpDoRuns \/ Send \/ Free
  \/ \E m \in Msgs : TakeFinished(m) \/ TakeTimedOut(m)

Next ==
  \/ \E c \in Conns : ConnNew(c) \/ ConnClose(c)
  \/ \E m \in Msgs : ConnRecv(m) \/ WorkerDone(m)
  \/ LoopStep

Spec == Init /\ [][Next]_vars

\* The loop runs for ever and looks at every request on each pass; a worker
\* that is not slow comes to its end.
Fairness ==
  /\ WF_vars(Pop) /\ WF_vars(OpDoFails \/ OpDoDenied \/ OpDoRuns)
  /\ WF_vars(Send) /\ WF_vars(Free)
  /\ \A m \in Msgs : WF_vars(TakeFinished(m)) /\ WF_vars(WorkerDone(m))

FairSpec == Spec /\ Fairness

-----------------------------------------------------------------------------
(* Properties                                                              *)

\* msg_use_counter is exactly the number of messages that refer to the
\* connection, wherever they are: queue, lists of the loop, loop itself.
UsesExact ==
  \A c \in Conns : conn[c] # "freed" => uses[c] = Cardinality(Of(c))

\* What waits in the queue is from a connection that is still open.
QueueOfOpenConns == \A m \in Queued : conn[from[m]] = "open"

\* No message refers to a connection that was freed ("We still have message
\* referencing this conn, save the conn in a temp list first").
ConnAliveWhileUsed == \A m \in Live : conn[from[m]] # "freed"

\* Every request comes to an end in the server: it is answered, its node was
\* not there, it took too long, or some connection was closed while it waited.
EveryRequestEnds ==
  \A m \in Msgs : fate[m] = "pending" ~>
    \/ fate[m] \in {"answered", "failed"} \/ m \in late
    \/ fate[m] = "dropped" /\ \E c \in Conns : conn[c] \in {"closed", "freed"}
=============================================================================
