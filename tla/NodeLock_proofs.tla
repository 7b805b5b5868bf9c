-------------------------- MODULE NodeLock_proofs --------------------------
(***************************************************************************)
(* Proofs about NodeLock, for any tree, any number of threads and any      *)
(* requests, the ones that make a lock twice or free a node under another  *)
(* thread included: what they break is excepted by Kept and Intact.        *)
(***************************************************************************)
EXTENDS NodeLock, FiniteSetTheorems, TLAPS

-----------------------------------------------------------------------------
(* Threads and the nodes they have found                                   *)

\* Which requests are where, and what they know of the lock of their node.
Shape ==
  \A t \in Threads :
    /\ pc[t] \in {"count", "uncount"} => Reader(t)
    /\ pc[t] \in {"peek", "apply"} => ~Reader(t)
    /\ pc[t] \in Busy \ {"find", "make"} => p_lock[at[t]] # NoLock

FoundInv == TypeOK /\ Shape

\* Steps that only move one thread, and perhaps the mutex and the count of
\* its node.
Quiet(t) ==
  \/ TryLock(t) \/ TryLockFails(t) \/ LockToLeave(t) \/ WriteLock(t)
  \/ NoReaders(t) \/ Poll(t) \/ WriteUnlock(t) \/ Report(t)
  \/ CountIn(t) \/ CountOut(t)

LEMMA FoundInit == Init => FoundInv
<1> SUFFICES ASSUME Init PROVE FoundInv
  OBVIOUS
<1>1. PICK r \in Requests : /\ op = [t \in Threads |-> r[t][1]]
                           /\ at = [t \in Threads |-> r[t][2]]
  BY DEF Init
<1>2. r \in [Threads -> Ops \X Nodes]
  BY ThreadAssumption
<1>3. op \in [Threads -> Ops] /\ at \in [Threads -> Nodes]
  BY <1>1, <1>2
<1> QED
  BY <1>3, TreeAssumption
     DEF Init, FoundInv, TypeOK, Shape, Places, Makers, Busy

LEMMA QuietMoves ==
  ASSUME FoundInv, NEW t \in Threads, Quiet(t)
  PROVE  /\ UNCHANGED <<alive, p_lock, request, remade>>
         /\ \E p \in {"count", "peek", "work", "uncount", "report", "lock",
                      "done", "refused"} :
              /\ pc' = [pc EXCEPT ![t] = p]
              /\ p \in {"count", "uncount"} => Reader(t)
              /\ p = "peek" => ~Reader(t)
         /\ pc[t] \in Busy \ {"find", "make"}
<1>1. CASE TryLock(t) \/ TryLockFails(t) \/ LockToLeave(t) \/ WriteLock(t)
  BY <1>1 DEF TryLock, TryLockFails, LockToLeave, WriteLock, Go, Busy, request
<1>2. CASE NoReaders(t) \/ Poll(t) \/ Report(t) \/ CountIn(t)
  BY <1>2 DEF NoReaders, Poll, Report, CountIn, Go, Busy, request
<1>3. CASE WriteUnlock(t) \/ CountOut(t)
  BY <1>3 DEF WriteUnlock, CountOut, Go, Busy, request
<1> QED
  BY <1>1, <1>2, <1>3 DEF Quiet

LEMMA CountTyped ==
  ASSUME TypeOK, NEW t \in Threads, NEW c \in Int, CountsTo(t, c)
  PROVE  rlocked_cnt' \in [Nodes -> Int]
BY DEF TypeOK, CountsTo

LEMMA QuietTyped ==
  ASSUME FoundInv, NEW t \in Threads, Quiet(t)
  PROVE  TypeOK'
<1>1. TypeOK /\ rlocked_cnt[at[t]] \in Int
  BY DEF FoundInv, TypeOK
<1>2. holder' \in [Mutexes -> Threads \cup {Nobody}]
  BY <1>1 DEF Quiet, TryLock, TryLockFails, LockToLeave, WriteLock, NoReaders,
              Poll, WriteUnlock, Report, CountIn, CountOut, Take, Release, TypeOK
<1>3. rlocked_cnt' \in [Nodes -> Int]
  <2>1. CASE CountIn(t)
    <3>1. CountsTo(t, rlocked_cnt[at[t]] + 1) /\ rlocked_cnt[at[t]] + 1 \in Int
      BY <1>1, <2>1 DEF CountIn
    <3> QED
      BY <1>1, <3>1, CountTyped
  <2>2. CASE CountOut(t)
    <3>1. CountsTo(t, rlocked_cnt[at[t]] - 1) /\ rlocked_cnt[at[t]] - 1 \in Int
      BY <1>1, <2>2 DEF CountOut
    <3> QED
      BY <1>1, <3>1, CountTyped
  <2>3. CASE ~CountIn(t) /\ ~CountOut(t)
    BY <1>1, <2>3 DEF Quiet, TryLock, TryLockFails, LockToLeave, WriteLock,
                      NoReaders, Poll, WriteUnlock, Report, TypeOK
  <2> QED
    BY <2>1, <2>2, <2>3
<1> QED
  BY <1>1, <1>2, <1>3, QuietMoves DEF TypeOK, Places, request

LEMMA FoundStep ==
  ASSUME FoundInv, NEW t \in Threads, Step(t)
  PROVE  FoundInv'
<1> USE DEF FoundInv
<1>1. CASE Find(t)
  <2>1. TypeOK'
    BY <1>1, TreeAssumption DEF Find, TypeOK, Places
  <2>2. Shape'
    BY <1>1, <2>1 DEF Find, Shape, TypeOK, Reader, Busy
  <2> QED
    BY <2>1, <2>2
<1>2. CASE FindNothing(t) \/ TestLock(t)
  <2>1. /\ UNCHANGED <<alive, p_lock, holder, rlocked_cnt, op, at, child, remade>>
        /\ \E p \in {"refused", "make", "lock"} : pc' = [pc EXCEPT ![t] = p]
    BY <1>2 DEF FindNothing, TestLock, request
  <2>2. TypeOK'
    BY <2>1 DEF TypeOK, Places
  <2>3. Shape'
    BY <1>2, <2>1 DEF FindNothing, TestLock, TypeOK, Shape, Busy, Reader
  <2> QED
    BY <2>2, <2>3
<1>3. CASE MakeLock(t)
  <2>1. at[t] \in Nodes
    BY DEF TypeOK
  <2>2. TypeOK'
    BY <1>3, <2>1 DEF MakeLock, request, TypeOK, Places, Makers
  <2>3. Shape'
    BY <1>3, ThreadAssumption DEF MakeLock, request, TypeOK, Shape, Busy, Reader
  <2> QED
    BY <2>2, <2>3
<1>4. CASE Quiet(t)
  <2>1. Shape'
    BY <1>4, QuietMoves DEF Shape, TypeOK, Reader, request, Busy
  <2> QED
    BY <1>4, <2>1, QuietTyped
<1>5. CASE AddNode(t)
  BY <1>5 DEF AddNode, Go, request, TypeOK, Shape, Places, Busy, Reader
<1>6. CASE DeleteNode(t)
  <2> DEFINE gone == Under[at[t]]
  <2>1. TypeOK'
    BY <1>6 DEF DeleteNode, request, TypeOK, Places
  <2>2. /\ UNCHANGED request
        /\ \A n \in Nodes : n \notin gone => p_lock'[n] = p_lock[n]
        /\ \A u \in Threads :
             \/ pc'[u] \in {"done", "dangling"}
             \/ pc'[u] = pc[u] /\ ~(Active(u) /\ at[u] \in gone)
    BY <1>6 DEF DeleteNode
  <2> HIDE DEF gone
  <2>3. Shape'
    BY <2>2 DEF request, TypeOK, Shape, Active, Busy, Reader
  <2> QED
    BY <2>1, <2>3
<1> QED
  BY <1>1, <1>2, <1>3, <1>4, <1>5, <1>6 DEF Step, Quiet

-----------------------------------------------------------------------------
(* Who holds the mutex of a node                                           *)

Holding(t) ==
  \/ pc[t] \in {"count", "peek", "uncount", "apply"}
  \/ pc[t] = "work" /\ ~Reader(t)

Owned ==
  \A t \in Threads :
    Holding(t) /\ at[t] \notin remade => holder[Mutex(t)] = t

OwnedInv == FoundInv /\ Owned

LEMMA OwnedInit == Init => OwnedInv
BY FoundInit DEF Init, OwnedInv, Owned, Holding

LEMMA MutexTyped ==
  ASSUME FoundInv, NEW t \in Threads, pc[t] \in Busy \ {"find", "make"}
  PROVE  Mutex(t) \in Mutexes /\ at[t] \in Nodes
BY DEF FoundInv, TypeOK, Shape, Mutex, Mutexes

\* Two threads that hold the mutex of one node are the same thread.
LEMMA HoldersEqual ==
  ASSUME OwnedInv, NEW t \in Threads, NEW u \in Threads,
         Holding(t), Holding(u), at[t] = at[u], at[t] \notin remade
  PROVE  t = u
BY DEF OwnedInv, Owned, Mutex

LEMMA OwnedStep ==
  ASSUME OwnedInv, NEW t \in Threads, Step(t)
  PROVE  OwnedInv'
<1>1. FoundInv /\ FoundInv' /\ Owned
  BY FoundStep DEF OwnedInv
<1>2. TypeOK /\ TypeOK'
  BY <1>1 DEF FoundInv
<1> SUFFICES ASSUME NEW u \in Threads, Holding(u)', (at[u] \notin remade)'
             PROVE  holder'[Mutex(u)'] = u
  BY <1>1 DEF OwnedInv, Owned
<1>3. CASE FindNothing(t) \/ TestLock(t) \/ Find(t)
  <2>1. u # t /\ Holding(u) /\ Mutex(u)' = Mutex(u) /\ holder' = holder
    BY <1>2, <1>3
       DEF FindNothing, TestLock, Find, request, TypeOK, Holding, Reader, Mutex
  <2>2. at[u] \notin remade
    BY <1>2, <1>3, <2>1 DEF FindNothing, TestLock, Find, request, TypeOK
  <2> QED
    BY <1>1, <2>1, <2>2 DEF Owned
<1>4. CASE MakeLock(t)
  <2>1. /\ u # t /\ Holding(u) /\ holder' = holder /\ at' = at
        /\ at[u] \notin remade
    BY <1>2, <1>4 DEF MakeLock, request, TypeOK, Holding, Reader
  <2>2. p_lock[at[u]] # NoLock
    BY <1>1, <2>1 DEF FoundInv, Shape, Busy, Holding
  <2>3. at[u] # at[t]
    BY <1>4, <2>1, <2>2 DEF MakeLock
  <2>4. Mutex(u)' = Mutex(u)
    BY <1>2, <1>4, <2>3 DEF MakeLock, request, TypeOK, Mutex
  <2> QED
    BY <1>1, <2>1, <2>4 DEF Owned
<1>5. CASE TryLock(t) \/ LockToLeave(t) \/ WriteLock(t)
  <2>1. /\ holder[Mutex(t)] = Nobody /\ holder' = [holder EXCEPT ![Mutex(t)] = t]
        /\ UNCHANGED <<p_lock, request, remade>> /\ pc[t] \in {"lock", "work"}
        /\ \E p \in Places : pc' = [pc EXCEPT ![t] = p]
    BY <1>5 DEF TryLock, LockToLeave, WriteLock, Take, Free, Go, Places
  <2>2. Mutex(t) \in Mutexes /\ Mutex(u)' = Mutex(u)
    BY <1>1, <2>1, MutexTyped DEF Busy, Mutex, request
  <2>3. CASE u = t
    BY <1>2, <2>1, <2>2, <2>3 DEF TypeOK
  <2>4. CASE u # t
    <3>1. Holding(u) /\ at[u] \notin remade
      BY <1>2, <2>1, <2>4 DEF Holding, TypeOK, Reader, request
    <3>2. holder[Mutex(u)] = u /\ u # Nobody
      BY <1>1, <3>1, ThreadAssumption DEF Owned
    <3> QED
      BY <1>2, <2>1, <2>2, <3>2 DEF TypeOK
  <2> QED
    BY <2>3, <2>4
<1>6. CASE CountIn(t) \/ CountOut(t) \/ Poll(t) \/ WriteUnlock(t)
  <2>1. /\ Holding(t) /\ holder' = [holder EXCEPT ![Mutex(t)] = Nobody]
        /\ UNCHANGED <<p_lock, request, remade>>
        /\ \/ Go(t, "done") \/ Go(t, "lock") \/ Go(t, "report")
           \/ Go(t, "work") /\ Reader(t)
    <3>1. CASE CountIn(t)
      BY <1>1, <3>1 DEF CountIn, Release, Go, Holding, Reader, FoundInv,
                        Shape
    <3>2. CASE CountOut(t) \/ Poll(t)
      BY <3>2 DEF CountOut, Poll, Release, Go, Holding, Reader
    <3>3. CASE WriteUnlock(t)
      BY <3>3 DEF WriteUnlock, Release, Go, Holding, Reader
    <3> QED
      BY <1>6, <3>1, <3>2, <3>3
  <2>2. Mutex(u)' = Mutex(u)
    BY <2>1 DEF Mutex, request
  <2>3. u # t /\ Holding(u) /\ at[u] \notin remade
    BY <1>2, <2>1 DEF Holding, TypeOK, Reader, request, Go
  <2>4. at[t] = at[u] => FALSE
    BY <1>1, <2>1, <2>3, HoldersEqual DEF OwnedInv
  <2>5. holder[Mutex(u)] = u
    BY <1>1, <2>3 DEF Owned
  <2>6. Mutex(u) \in Mutexes /\ Mutex(u) # Mutex(t)
    BY <1>1, <2>3, <2>4, MutexTyped DEF Holding, Busy, Mutex
  <2> QED
    BY <1>2, <2>1, <2>2, <2>5, <2>6 DEF TypeOK
<1>7. CASE TryLockFails(t) \/ NoReaders(t) \/ AddNode(t) \/ Report(t)
  <2>1. /\ Holding(u) /\ Mutex(u)' = Mutex(u) /\ holder' = holder
        /\ at[u] \notin remade
    BY <1>2, <1>7
       DEF TryLockFails, NoReaders, AddNode, Report, Go, request, TypeOK,
           Holding, Reader, Mutex
  <2> QED
    BY <1>1, <2>1 DEF Owned
<1>8. CASE DeleteNode(t)
  <2>1. /\ UNCHANGED request /\ remade' = remade \ Under[at[t]]
        /\ pc'[u] = pc[u] /\ (Active(u) => at[u] \notin Under[at[t]])
    BY <1>8 DEF DeleteNode, Holding
  <2>2. Holding(u) /\ Active(u)
    BY <2>1 DEF Holding, Reader, Active, Busy, request
  <2>3. at[u] \notin Under[at[t]] /\ at[u] \notin remade
    BY <2>1, <2>2 DEF request
  <2>4. Mutex(u) \in Mutexes /\ at[u] \in Nodes
    BY <1>1, <2>2, MutexTyped DEF Holding, Busy
  <2>5. Mutex(u)' = Mutex(u) /\ Mutex(u)[1] = at[u]
    BY <1>8, <2>1, <2>3, <2>4 DEF DeleteNode, Mutex, request
  <2>6. holder'[Mutex(u)] = holder[Mutex(u)]
    BY <1>8, <2>3, <2>4, <2>5 DEF DeleteNode
  <2> QED
    BY <1>1, <2>2, <2>3, <2>5, <2>6 DEF Owned
<1> QED
  BY <1>3, <1>4, <1>5, <1>6, <1>7, <1>8 DEF Step

-----------------------------------------------------------------------------
(* Readers and their count                                                 *)

Counted ==
  \A n \in Nodes : n \notin remade => rlocked_cnt[n] = Cardinality(ReadersOf(n))

\* A writer that works has seen no reader, and none came since.
NoneRead ==
  \A t \in Threads :
    /\ ~Reader(t) /\ pc[t] \in {"work", "apply"}
    /\ at[t] \notin remade
    => rlocked_cnt[at[t]] = 0

CountInv == OwnedInv /\ Counted /\ NoneRead

LEMMA ReadersFinite ==
  ASSUME NEW n \in Nodes
  PROVE  IsFiniteSet(ReadersOf(n)) /\ Cardinality(ReadersOf(n)) \in Nat
BY FS_Subset, FS_CardinalityType, ThreadAssumption DEF ReadersOf

LEMMA CountInit == Init => CountInv
<1> SUFFICES ASSUME Init PROVE CountInv
  OBVIOUS
<1>1. \A n \in Nodes : ReadersOf(n) = {} /\ rlocked_cnt[n] = 0
  BY DEF Init, ReadersOf
<1> QED
  BY <1>1, OwnedInit, FS_EmptySet DEF CountInv, Counted, NoneRead, Init

\* Only counting in, counting out and deleting change who reads a node.
LEMMA ReadersKept ==
  ASSUME CountInv, NEW t \in Threads, Step(t),
         ~CountIn(t), ~CountOut(t), ~DeleteNode(t)
  PROVE  /\ \A n \in Nodes : ReadersOf(n)' = ReadersOf(n)
         /\ UNCHANGED rlocked_cnt /\ remade \subseteq remade'
         /\ NoneRead'
<1>1. TypeOK /\ TypeOK' /\ Shape
  BY FoundStep DEF CountInv, OwnedInv, FoundInv
<1>2. UNCHANGED <<rlocked_cnt, op>> /\ remade \subseteq remade'
  BY DEF Step, Find, FindNothing, TestLock, MakeLock, TryLock, TryLockFails,
         LockToLeave, WriteLock, NoReaders, Poll, AddNode, WriteUnlock, Report,
         request
<1>3. CASE Find(t) \/ FindNothing(t) \/ TestLock(t) \/ MakeLock(t)
  <2>1. /\ pc[t] \in {"new", "find", "make"}
        /\ \E p \in {"find", "make", "lock", "refused"} : pc' = [pc EXCEPT ![t] = p]
        /\ \A u \in Threads : u # t => at'[u] = at[u]
    BY <1>1, <1>3 DEF Find, FindNothing, TestLock, MakeLock, request, TypeOK
  <2>2. \A n \in Nodes : ReadersOf(n)' = ReadersOf(n)
    BY <1>1, <1>2, <2>1 DEF ReadersOf, TypeOK, Reader
  <2>3. NoneRead'
    BY <1>1, <1>2, <2>1 DEF NoneRead, CountInv, TypeOK, Reader
  <2> QED
    BY <1>2, <2>2, <2>3
<1>4. CASE \/ TryLock(t) \/ TryLockFails(t) \/ LockToLeave(t) \/ WriteLock(t)
           \/ NoReaders(t) \/ Poll(t) \/ AddNode(t) \/ WriteUnlock(t) \/ Report(t)
  <2>1. /\ at' = at
        /\ \/ Reader(t) /\ pc[t] = "lock" /\ pc' = [pc EXCEPT ![t] = "count"]
           \/ Reader(t) /\ pc[t] = "lock" /\ pc' = [pc EXCEPT ![t] = "refused"]
           \/ Reader(t) /\ pc[t] = "work" /\ pc' = [pc EXCEPT ![t] = "uncount"]
           \/ pc[t] = "report" /\ pc' = [pc EXCEPT ![t] = "done"]
           \/ ~Reader(t) /\ pc' = [pc EXCEPT ![t] = "peek"]
           \/ ~Reader(t) /\ pc' = [pc EXCEPT ![t] = "lock"]
           \/ ~Reader(t) /\ pc' = [pc EXCEPT ![t] = "done"]
           \/ ~Reader(t) /\ pc' = [pc EXCEPT ![t] = "report"]
           \/ /\ ~Reader(t) /\ pc[t] = "peek" /\ rlocked_cnt[at[t]] = 0
              /\ pc' = [pc EXCEPT ![t] = "work"]
           \/ /\ ~Reader(t) /\ pc[t] = "work"
              /\ pc' = [pc EXCEPT ![t] = "apply"]
    BY <1>1, <1>4
       DEF TryLock, TryLockFails, LockToLeave, WriteLock, NoReaders, Poll,
           AddNode, WriteUnlock, Report, Go, request, Shape, Reader
  <2>2. \A n \in Nodes : ReadersOf(n)' = ReadersOf(n)
    BY <1>1, <1>2, <2>1 DEF ReadersOf, TypeOK, Reader
  <2>3. NoneRead'
    BY <1>1, <1>2, <2>1 DEF NoneRead, CountInv, TypeOK, Reader
  <2> QED
    BY <1>2, <2>2, <2>3
<1> QED
  BY <1>3, <1>4 DEF Step

LEMMA CountStep ==
  ASSUME CountInv, NEW t \in Threads, Step(t)
  PROVE  CountInv'
<1>1. OwnedInv /\ OwnedInv' /\ TypeOK /\ TypeOK' /\ Shape
  BY OwnedStep DEF CountInv, OwnedInv, FoundInv
<1>2. CASE CountIn(t) \/ CountOut(t)
  <2> DEFINE n == at[t]
  <2>1. /\ UNCHANGED <<at, op, remade>> /\ n \in Nodes /\ Holding(t) /\ Reader(t)
        /\ \A k \in Nodes : k # n => rlocked_cnt'[k] = rlocked_cnt[k]
        /\ \E p \in Places : pc' = [pc EXCEPT ![t] = p]
    BY <1>1, <1>2
       DEF CountIn, CountOut, CountsTo, Go, request, TypeOK, Holding, Shape,
           Reader, Places
  <2>2. \A k \in Nodes : k # n => ReadersOf(k)' = ReadersOf(k)
    BY <1>1, <2>1 DEF ReadersOf, TypeOK, Reader
  \* Nobody else counts there, so that no change is lost.
  <2>3. ASSUME n \notin remade, NEW c, CountsTo(t, c)
        PROVE  rlocked_cnt' = [rlocked_cnt EXCEPT ![n] = c]
    <3>1. \A u \in Threads : at[u] = n /\ Holding(u) => u = t
      BY <1>1, <2>1, <2>3, HoldersEqual
    <3> QED
      BY <2>3, <3>1 DEF CountsTo, Holding
  <2>4. ASSUME n \notin remade
        PROVE  rlocked_cnt'[n] = Cardinality(ReadersOf(n)')
    <3>1. CASE CountIn(t)
      <4>1. pc[t] = "count" /\ pc' = [pc EXCEPT ![t] = "work"]
        BY <3>1 DEF CountIn, Go
      <4>2. ReadersOf(n)' = ReadersOf(n) \cup {t} /\ t \notin ReadersOf(n)
        BY <1>1, <2>1, <4>1 DEF ReadersOf, TypeOK, Reader
      <4>3. /\ Cardinality(ReadersOf(n) \cup {t}) = Cardinality(ReadersOf(n)) + 1
            /\ rlocked_cnt[n] = Cardinality(ReadersOf(n))
        BY <2>1, <2>4, <4>2, ReadersFinite, FS_AddElement DEF CountInv, Counted
      <4>4. CountsTo(t, rlocked_cnt[n] + 1)
        BY <3>1 DEF CountIn
      <4>5. rlocked_cnt'[n] = rlocked_cnt[n] + 1
        BY <1>1, <2>1, <2>3, <2>4, <4>4 DEF TypeOK
      <4> QED
        BY <4>2, <4>3, <4>5
    <3>2. CASE CountOut(t)
      <4>1. pc[t] = "uncount" /\ \E p \in {"done", "report"} : pc' = [pc EXCEPT ![t] = p]
        BY <3>2 DEF CountOut, Go
      <4>2. ReadersOf(n)' = ReadersOf(n) \ {t} /\ t \in ReadersOf(n)
        BY <1>1, <2>1, <4>1 DEF ReadersOf, TypeOK, Reader
      <4>3. /\ Cardinality(ReadersOf(n) \ {t}) = Cardinality(ReadersOf(n)) - 1
            /\ rlocked_cnt[n] = Cardinality(ReadersOf(n))
        BY <2>1, <2>4, <4>2, ReadersFinite, FS_RemoveElement DEF CountInv, Counted
      <4>4. CountsTo(t, rlocked_cnt[n] - 1)
        BY <3>2 DEF CountOut
      <4>5. rlocked_cnt'[n] = rlocked_cnt[n] - 1
        BY <1>1, <2>1, <2>3, <2>4, <4>4 DEF TypeOK
      <4> QED
        BY <4>2, <4>3, <4>5
    <3> QED
      BY <1>2, <3>1, <3>2
  <2>5. Counted'
    BY <2>1, <2>2, <2>4 DEF CountInv, Counted
  <2>6. NoneRead'
    <3> SUFFICES ASSUME NEW u \in Threads, ~Reader(u)', 
                        pc'[u] \in {"work", "apply"}, at[u] \notin remade
                 PROVE  rlocked_cnt'[at'[u]] = 0
      BY <2>1 DEF NoneRead
    <3>1. u # t /\ ~Reader(u) /\ pc[u] \in {"work", "apply"} /\ Holding(u)
      BY <1>1, <2>1 DEF Reader, TypeOK, Holding
    <3>2. at[u] # n /\ at[u] \in Nodes
      BY <1>1, <2>1, <3>1, HoldersEqual DEF TypeOK
    <3> QED
      BY <2>1, <3>1, <3>2 DEF CountInv, NoneRead
  <2> QED
    BY <1>1, <2>5, <2>6 DEF CountInv
<1>3. CASE DeleteNode(t)
  <2> DEFINE gone == Under[at[t]]
  <2>1. /\ UNCHANGED <<at, op>> /\ remade' = remade \ gone
        /\ \A k \in Nodes : rlocked_cnt'[k] = IF k \in gone THEN 0 ELSE rlocked_cnt[k]
        /\ \A u \in Threads :
             \/ u = t /\ pc'[u] = "done"
             \/ pc'[u] = "dangling" /\ at[u] \in gone
             \/ pc'[u] = pc[u] /\ ~(Active(u) /\ at[u] \in gone)
    BY <1>3 DEF DeleteNode, request
  <2>2. ~Reader(t) /\ at[t] \in gone
    BY <1>1, <1>3, TreeAssumption DEF DeleteNode, Reader, TypeOK
  <2> HIDE DEF gone
  <2>3. \A k \in Nodes : k \notin gone => ReadersOf(k)' = ReadersOf(k)
    BY <1>1, <2>1, <2>2 DEF ReadersOf, TypeOK, Reader
  <2>4. \A k \in Nodes : k \in gone => ReadersOf(k)' = {}
    BY <1>1, <2>1 DEF ReadersOf, Active, Busy
  <2>5. Counted'
    BY <2>1, <2>3, <2>4, FS_EmptySet DEF CountInv, Counted
  <2>6. NoneRead'
    BY <1>1, <2>1, <2>2 DEF CountInv, NoneRead, TypeOK, Reader, Active, Busy
  <2> QED
    BY <1>1, <2>5, <2>6 DEF CountInv
<1>4. CASE ~CountIn(t) /\ ~CountOut(t) /\ ~DeleteNode(t)
  BY <1>1, <1>4, ReadersKept DEF CountInv, Counted
<1> QED
  BY <1>2, <1>3, <1>4

-----------------------------------------------------------------------------
(* Theorems                                                                *)

LEMMA CountAlways == Spec => []CountInv
<1>1. CountInv /\ [Next]_vars => CountInv'
  <2> SUFFICES ASSUME CountInv, [Next]_vars PROVE CountInv'
    OBVIOUS
  <2>1. CASE Next
    BY <2>1, CountStep DEF Next
  <2>2. CASE UNCHANGED vars
    <3>1. TypeOK' /\ Shape'
      BY <2>2 DEF vars, CountInv, OwnedInv, FoundInv, TypeOK, Shape, Reader
    <3>2. Owned'
      BY <2>2 DEF vars, CountInv, OwnedInv, Owned, Holding, Reader, Mutex
    <3>3. Counted' /\ NoneRead'
      BY <2>2 DEF vars, CountInv, Counted, NoneRead, ReadersOf, Reader
    <3> QED
      BY <3>1, <3>2, <3>3 DEF CountInv, OwnedInv, FoundInv
  <2> QED
    BY <2>1, <2>2
<1> QED
  BY <1>1, CountInit, PTL DEF Spec

\* The state is well typed, whatever the requests do to each other.
THEOREM TypeCorrect == Spec => []TypeOK
<1>1. CountInv => TypeOK
  BY DEF CountInv, OwnedInv, FoundInv
<1> QED
  BY <1>1, CountAlways, PTL

\* rlocked_cnt is exact, whatever order readers come and go in, at every node
\* whose lock was made once: no two threads change it at the same time.
THEOREM CountIsExact == Spec => []CountExact
<1>1. CountInv => CountExact
  BY DEF CountInv, Counted, CountExact, Kept
<1> QED
  BY <1>1, CountAlways, PTL

LEMMA WriterAlone ==
  ASSUME CountInv, NEW n \in Nodes, n \notin remade, NEW t \in WritersOf(n)
  PROVE  WritersOf(n) = {t} /\ ReadersOf(n) = {}
<1>1. t \in Threads /\ Holding(t) /\ at[t] = n /\ rlocked_cnt[n] = 0
  BY DEF WritersOf, Holding, CountInv, NoneRead
<1>2. ASSUME NEW u \in WritersOf(n) PROVE u = t
  <2>1. u \in Threads /\ Holding(u) /\ at[u] = n
    BY DEF WritersOf, Holding
  <2> QED
    BY <1>1, <2>1, HoldersEqual DEF CountInv
<1>3. ReadersOf(n) = {}
  BY <1>1, ReadersFinite, FS_EmptySet DEF CountInv, Counted
<1> QED
  BY <1>2, <1>3

\* A thread that writes a node is alone on it, unless two threads made the
\* lock of this very node, or a freed node is in use.
THEOREM WriterExcludes == Spec => []Exclusion
<1>1. CountInv => Exclusion
  BY WriterAlone DEF Exclusion, Kept
<1> QED
  BY <1>1, CountAlways, PTL

\* The tree a thread that adds a node relies on.
TreeInv ==
  /\ \A n \in alive : Parent[n] # NoNode => Parent[n] \in alive
  /\ \A t \in Threads : Active(t) =>
       at[t] \in alive /\ (op[t] = "add" => Parent[child[t]] = at[t])

LEMMA TreeStep ==
  ASSUME FoundInv, TreeInv, NEW t \in Threads, Step(t)
  PROVE  TreeInv'
<1>1. TypeOK /\ TypeOK'
  BY FoundStep DEF FoundInv
<1>2. CASE Find(t)
  BY <1>1, <1>2 DEF Find, TreeInv, TypeOK, Active, Busy
<1>3. CASE FindNothing(t) \/ TestLock(t) \/ MakeLock(t) \/ Quiet(t)
  <2>1. /\ UNCHANGED <<alive, request>>
        /\ \E p \in Places : pc' = [pc EXCEPT ![t] = p] /\ (p \in Busy => Active(t))
    <3>1. CASE Quiet(t)
      BY <3>1, QuietMoves DEF Places, Busy, Active
    <3>2. CASE FindNothing(t) \/ TestLock(t) \/ MakeLock(t)
      BY <3>2 DEF FindNothing, TestLock, MakeLock, Places, Busy, Active
    <3> QED
      BY <1>3, <3>1, <3>2
  <2> QED
    BY <1>1, <2>1 DEF TreeInv, TypeOK, Active, request
<1>4. CASE AddNode(t)
  <2>1. Active(t) /\ alive' = alive \cup {child[t]} /\ UNCHANGED request
        /\ \A u \in Threads : Active(u)' => Active(u)
    BY <1>1, <1>4 DEF AddNode, Go, Active, Busy, TypeOK
  <2>2. Parent[child[t]] \in alive
    BY <1>4, <2>1 DEF AddNode, TreeInv
  <2> QED
    BY <1>1, <2>1, <2>2 DEF TreeInv, TypeOK, request
<1>5. CASE DeleteNode(t)
  <2> DEFINE gone == Under[at[t]]
  <2>1. /\ alive' = alive \ gone /\ UNCHANGED request
        /\ \A u \in Threads : Active(u)' => Active(u) /\ at[u] \notin gone
    BY <1>1, <1>5 DEF DeleteNode, Active, Busy
  <2>2. ASSUME NEW n \in alive, Parent[n] \in gone, Parent[n] # NoNode
        PROVE  n \in gone
    BY <1>1, <2>2, TreeAssumption DEF TypeOK
  <2> HIDE DEF gone
  <2>3. \A n \in alive' : Parent[n] # NoNode => Parent[n] \in alive'
    BY <2>1, <2>2 DEF TreeInv
  <2> QED
    BY <1>1, <2>1, <2>3 DEF TreeInv, TypeOK, request
<1> QED
  BY <1>2, <1>3, <1>4, <1>5 DEF Step, Quiet

\* No node is left in the tree below one that is gone: what a delete frees
\* and what adds insert fit together, as long as no freed node is in use.
THEOREM TreeStaysClosed == Spec => []TreeIsClosed
<1>1. Init => TreeInv
  BY TreeAssumption DEF Init, TreeInv, Active, Busy
<1>2. CountInv /\ TreeInv /\ [Next]_vars => TreeInv'
  <2> SUFFICES ASSUME CountInv, TreeInv, [Next]_vars PROVE TreeInv'
    OBVIOUS
  <2>1. CASE Next
    BY <2>1, TreeStep DEF Next, CountInv, OwnedInv
  <2>2. CASE UNCHANGED vars
    BY <2>2 DEF vars, TreeInv, Active
  <2> QED
    BY <2>1, <2>2
<1>3. TreeInv => TreeIsClosed
  BY DEF TreeInv, TreeIsClosed
<1> QED
  BY <1>1, <1>2, <1>3, CountAlways, PTL DEF Spec
=============================================================================
