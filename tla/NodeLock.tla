------------------------------ MODULE NodeLock ------------------------------
(***************************************************************************)
(* The lock of a node of the configuration tree, and the worker threads of *)
(* is_mgmtd that take it, one per request.  A node gets its mutex from the *)
(* first thread that needs it.  A query is a reader: it holds the mutex    *)
(* only to count itself in and out.  An add (of a child), a modify and a   *)
(* delete are writers: they hold the mutex while they work, once they have *)
(* seen no reader.  Each read and each write of p_lock is a step, because  *)
(* nothing orders them: two threads may both make the mutex of a node, and *)
(* a node may be freed while another thread has found it.                  *)
(***************************************************************************)
EXTENDS Integers, FiniteSets

CONSTANTS Nodes,      \* the nodes below /config
          Parent,     \* the parent of each, NoNode for a module
          Under,      \* the nodes of the subtree of each, itself included
          Initial,    \* the nodes of the configuration that was loaded
          Dynamic,    \* the nodes that may be added and deleted
          NoNode,
          Threads,    \* the worker threads, one request each
          Requests,   \* what they may be asked for: of each, the request
                      \* and the node it names
          Nobody, NoLock, Boot

ASSUME TreeAssumption ==
  /\ Parent \in [Nodes -> Nodes \cup {NoNode}] /\ NoNode \notin Nodes
  /\ Under \in [Nodes -> SUBSET Nodes]
  /\ \A n \in Nodes : n \in Under[n]
  /\ \A n \in Nodes : \A m \in Under[n] : Under[m] \subseteq Under[n]
  /\ \A n \in Nodes : Parent[n] # NoNode => n \in Under[Parent[n]]
  /\ Initial \subseteq Nodes /\ Dynamic \subseteq Nodes
  /\ \A n \in Initial : Parent[n] # NoNode => Parent[n] \in Initial

Ops == {"query", "modify", "add", "delete"}

ASSUME ThreadAssumption ==
  /\ IsFiniteSet(Threads)
  /\ Nobody \notin Threads /\ NoLock \notin Threads \cup {Boot}
  /\ Boot \notin Threads
  /\ Requests \subseteq [Threads -> Ops \X Nodes]

VARIABLES
  alive,      \* the nodes that are in the tree
  p_lock,     \* of each node: NoLock, or the thread that made its mutex
  holder,     \* of each mutex, named by its node and its maker
  rlocked_cnt,
  pc, op,     \* of each thread: where it is, and its request
  at, child,  \* the node it found, and the one it adds
  remade      \* history: the nodes whose mutex was made a second time

vars == <<alive, p_lock, holder, rlocked_cnt, pc, op, at, child, remade>>
request == <<op, at, child>>

Makers == Threads \cup {Boot}
Mutexes == Nodes \X Makers
Places == {"new", "find", "make", "lock", "count", "peek", "work", "apply",
           "uncount", "report", "done", "refused", "dangling"}

\* Between finding its node and giving it up.
Busy == {"find", "make", "lock", "count", "peek", "work", "apply", "uncount",
         "report"}
Active(t) == pc[t] \in Busy
Reader(t) == op[t] = "query"

TypeOK ==
  /\ alive \subseteq Nodes
  /\ p_lock \in [Nodes -> Makers \cup {NoLock}]
  /\ holder \in [Mutexes -> Threads \cup {Nobody}]
  /\ rlocked_cnt \in [Nodes -> Int]
  /\ pc \in [Threads -> Places]
  /\ op \in [Threads -> Ops]
  /\ at \in [Threads -> Nodes] /\ child \in [Threads -> Nodes]
  /\ remade \subseteq Nodes

\* The nodes of the loaded configuration were used before, or never.
Init ==
  /\ alive = Initial
  /\ p_lock \in {[n \in Nodes |-> IF n \in S THEN Boot ELSE NoLock] :
                   S \in SUBSET Initial}
  /\ holder = [m \in Mutexes |-> Nobody]
  /\ rlocked_cnt = [n \in Nodes |-> 0]
  /\ pc = [t \in Threads |-> "new"]
  /\ \E r \in Requests : /\ op = [t \in Threads |-> r[t][1]]
                        /\ at = [t \in Threads |-> r[t][2]]
  /\ child = at
  /\ remade = {}

-----------------------------------------------------------------------------
(* Finding the node, and its lock                                          *)

\* A worker starts and finds its node: for an add, the parent.
Find(t) ==
  /\ pc[t] = "new"
  /\ LET n == IF op[t] = "add" THEN Parent[child[t]] ELSE at[t] IN
       /\ op[t] = "add" => child[t] \in Dynamic
       /\ n \in alive
       /\ at' = [at EXCEPT ![t] = n]
  /\ pc' = [pc EXCEPT ![t] = "find"]
  /\ UNCHANGED <<alive, p_lock, holder, rlocked_cnt, op, child, remade>>

\* There is no such node: the request is answered by an error.
FindNothing(t) ==
  /\ pc[t] = "new"
  /\ (IF op[t] = "add" THEN Parent[child[t]] ELSE at[t]) \notin alive
  /\ pc' = [pc EXCEPT ![t] = "refused"]
  /\ UNCHANGED <<alive, p_lock, holder, rlocked_cnt, request, remade>>

\* silc_mgmtd_memdb_find_config_module_node: test p_lock, then make one.
TestLock(t) ==
  /\ pc[t] = "find"
  /\ pc' = [pc EXCEPT ![t] = IF p_lock[at[t]] = NoLock THEN "make" ELSE "lock"]
  /\ UNCHANGED <<alive, p_lock, holder, rlocked_cnt, request, remade>>

MakeLock(t) ==
  /\ pc[t] = "make"
  /\ p_lock' = [p_lock EXCEPT ![at[t]] = t]
  /\ remade' = IF p_lock[at[t]] = NoLock THEN remade ELSE remade \cup {at[t]}
  /\ pc' = [pc EXCEPT ![t] = "lock"]
  /\ UNCHANGED <<alive, holder, rlocked_cnt, request>>

-----------------------------------------------------------------------------
(* Readers and writers                                                     *)

\* The mutex that p_lock of the node of t points to now.
Mutex(t) == <<at[t], p_lock[at[t]]>>
Free(t) == holder[Mutex(t)] = Nobody

Take(t) == Free(t) /\ holder' = [holder EXCEPT ![Mutex(t)] = t]
Release(t) == holder' = [holder EXCEPT ![Mutex(t)] = Nobody]
Go(t, where) == pc' = [pc EXCEPT ![t] = where]

\* silc_mgmtd_memdb_node_r_lock
TryLock(t) ==
  /\ pc[t] = "lock" /\ Reader(t)
  /\ Take(t) /\ Go(t, "count")
  /\ UNCHANGED <<alive, p_lock, rlocked_cnt, request, remade>>

TryLockFails(t) ==
  /\ pc[t] = "lock" /\ Reader(t)
  /\ ~Free(t) /\ Go(t, "refused")
  /\ UNCHANGED <<alive, p_lock, holder, rlocked_cnt, request, remade>>

\* The count of the node of t is set to c.  Nothing makes ++ and -- one step:
\* when another thread counts there too, one of the changes may be lost.
CountsTo(t, c) ==
  \/ rlocked_cnt' = [rlocked_cnt EXCEPT ![at[t]] = c]
  \/ /\ \E u \in Threads \ {t} : at[u] = at[t] /\ pc[u] \in {"count", "uncount"}
     /\ UNCHANGED rlocked_cnt

CountIn(t) ==
  /\ pc[t] = "count"
  /\ CountsTo(t, rlocked_cnt[at[t]] + 1)
  /\ Release(t) /\ Go(t, "work")
  /\ UNCHANGED <<alive, p_lock, request, remade>>

\* Mutant: r_unlock tries the mutex as r_lock does, and leaves without it.
TryToLeave(t) ==
  /\ pc[t] = "work" /\ Reader(t)
  /\ IF Free(t) THEN Take(t) /\ Go(t, "uncount")
                ELSE UNCHANGED holder /\ Go(t, "done")
  /\ UNCHANGED <<alive, p_lock, rlocked_cnt, request, remade>>

\* silc_mgmtd_memdb_node_r_unlock
LockToLeave(t) ==
  /\ pc[t] = "work" /\ Reader(t)
  /\ Take(t) /\ Go(t, "uncount")
  /\ UNCHANGED <<alive, p_lock, rlocked_cnt, request, remade>>

\* Mutant: the mutex is not unlocked.
CountOutKeeps(t) ==
  /\ pc[t] = "uncount"
  /\ CountsTo(t, rlocked_cnt[at[t]] - 1)
  /\ Go(t, "done")
  /\ UNCHANGED <<alive, p_lock, holder, request, remade>>

\* The request is over, or it failed with the number of an error.
CountOut(t) ==
  /\ pc[t] = "uncount"
  /\ CountsTo(t, rlocked_cnt[at[t]] - 1)
  /\ Release(t) /\ (Go(t, "done") \/ Go(t, "report"))
  /\ UNCHANGED <<alive, p_lock, request, remade>>

\* silc_mgmtd_memdb_node_w_lock: take the mutex, look for readers.
WriteLock(t) ==
  /\ pc[t] = "lock" /\ ~Reader(t)
  /\ Take(t) /\ Go(t, "peek")
  /\ UNCHANGED <<alive, p_lock, rlocked_cnt, request, remade>>

NoReaders(t) ==
  /\ pc[t] = "peek" /\ rlocked_cnt[at[t]] = 0
  /\ Go(t, "work")
  /\ UNCHANGED <<alive, p_lock, holder, rlocked_cnt, request, remade>>

\* Mutant: readers are not waited for.
PollGoesOn(t) ==
  /\ pc[t] = "peek" /\ rlocked_cnt[at[t]] # 0
  /\ Go(t, "work")
  /\ UNCHANGED <<alive, p_lock, holder, rlocked_cnt, request, remade>>

\* There are readers: unlock, sleep 10 ms, and try again.
Poll(t) ==
  /\ pc[t] = "peek" /\ rlocked_cnt[at[t]] # 0
  /\ Release(t) /\ Go(t, "lock")
  /\ UNCHANGED <<alive, p_lock, rlocked_cnt, request, remade>>

-----------------------------------------------------------------------------
(* The work of a writer, and its end                                       *)

\* The clone of the template is inserted before the callback runs.
AddNode(t) ==
  /\ pc[t] = "work" /\ op[t] = "add" /\ child[t] \notin alive
  /\ alive' = alive \cup {child[t]}
  /\ Go(t, "apply")
  /\ UNCHANGED <<p_lock, holder, rlocked_cnt, request, remade>>

\* silc_mgmtd_memdb_node_w_unlock, after what was done or what failed: an
\* add is refused before it inserts anything when there is no template, when
\* the child is there, or by CHECK_ADD; nothing undoes an insertion.
WriteUnlock(t) ==
  /\ pc[t] = "apply" \/ (pc[t] = "work" /\ ~Reader(t))
  /\ Release(t) /\ (Go(t, "done") \/ Go(t, "report"))
  /\ UNCHANGED <<alive, p_lock, rlocked_cnt, request, remade>>

\* The text of the error is looked up in the node, which is unlocked by now.
Report(t) ==
  /\ pc[t] = "report" /\ Go(t, "done")
  /\ UNCHANGED <<alive, p_lock, holder, rlocked_cnt, request, remade>>

\* Mutant: only the node is freed, what is below it stays in the tree.
DeleteNodeOnly(t) ==
  /\ pc[t] = "work" /\ op[t] = "delete" /\ at[t] \in Dynamic
  /\ alive' = alive \ {at[t]}
  /\ Go(t, "done")
  /\ UNCHANGED <<p_lock, holder, rlocked_cnt, request, remade>>

\* The node, its lock and all below it are freed.  A thread that had found
\* one of these nodes is left with a pointer to freed memory: what it does
\* from now on is not followed, and nothing is claimed any more.
DeleteNode(t) ==
  /\ pc[t] = "work" /\ op[t] = "delete" /\ at[t] \in Dynamic
  /\ LET gone == Under[at[t]] IN
       /\ alive' = alive \ gone
       /\ p_lock' = [n \in Nodes |-> IF n \in gone THEN NoLock ELSE p_lock[n]]
       /\ rlocked_cnt' = [n \in Nodes |-> IF n \in gone THEN 0
                                          ELSE rlocked_cnt[n]]
       /\ holder' = [m \in Mutexes |-> IF m[1] \in gone THEN Nobody
                                       ELSE holder[m]]
       /\ pc' = [u \in Threads |->
                   IF u = t THEN "done"
                   ELSE IF Active(u) /\ at[u] \in gone THEN "dangling"
                   ELSE pc[u]]
       /\ remade' = remade \ gone
  /\ UNCHANGED request

-----------------------------------------------------------------------------
Step(t) ==
  \/ Find(t) \/ FindNothing(t) \/ TestLock(t) \/ MakeLock(t)
  \/ TryLock(t) \/ TryLockFails(t) \/ CountIn(t)
  \/ LockToLeave(t) \/ CountOut(t)
  \/ WriteLock(t) \/ NoReaders(t) \/ Poll(t)
  \/ AddNode(t) \/ WriteUnlock(t) \/ Report(t) \/ DeleteNode(t)

Next == \E t \in Threads : Step(t)

Spec == Init /\ [][Next]_vars

\* Threads run on.  One that waits in pthread_mutex_lock is woken when the
\* mutex is unlocked, and a writer that polls sleeps before it locks again:
\* who can take a mutex again and again gets it once.
Fairness == \A t \in Threads : SF_vars(Step(t))

FairSpec == Spec /\ Fairness

-----------------------------------------------------------------------------
(* Properties                                                              *)

ReadersOf(n) == {t \in Threads : Reader(t) /\ at[t] = n
                                  /\ pc[t] \in {"work", "uncount"}}
WritersOf(n) == {t \in Threads : ~Reader(t) /\ at[t] = n
                                  /\ pc[t] \in {"work", "apply"}}

\* No thread was left with a freed node.
Intact == \A t \in Threads : pc[t] # "dangling"

\* The nodes whose lock may be relied on.
Kept == {n \in Nodes : Intact /\ n \notin remade}

\* A thread that writes a node is alone on it: r_lock and w_lock exclude
\* each other although readers do not hold the mutex.
Exclusion ==
  \A n \in Kept : \A t \in WritersOf(n) :
    WritersOf(n) = {t} /\ ReadersOf(n) = {}

\* rlocked_cnt is the number of threads that read the node, although it is
\* changed without an atomic operation: no reader is forgotten in it, and none
\* that left keeps the writers polling.
CountExact == \A n \in Kept : rlocked_cnt[n] = Cardinality(ReadersOf(n))

\* A node of the tree has its ancestors in the tree: a delete takes all that
\* is below its node, what another thread just added included.
TreeIsClosed ==
  Intact => \A n \in alive : Parent[n] # NoNode => Parent[n] \in alive

\* Every request that found its node comes to an end: readers, polling
\* writers and deletes do not block each other for ever.  Given up are the
\* nodes whose lock was made twice, and all once a freed node is in use.
RequestsEnd ==
  \A t \in Threads :
    pc[t] = "find" ~> pc[t] \in {"done", "refused"} \/ at[t] \notin Kept
=============================================================================
