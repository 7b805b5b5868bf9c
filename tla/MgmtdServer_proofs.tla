------------------------- MODULE MgmtdServer_proofs -------------------------
(***************************************************************************)
(* Proofs about MgmtdServer, for any number of connections and requests.   *)
(***************************************************************************)
EXTENDS MgmtdServer, FiniteSetTheorems, TLAPS

-----------------------------------------------------------------------------
(* The queue as a set                                                      *)

Elems(q) == {q[i] : i \in DOMAIN q}
NoDup(q) == \A i, j \in DOMAIN q : q[i] = q[j] => i = j

\* Appending a new message adds it to the elements of the queue.
LEMMA AppendElems ==
  ASSUME NEW S, NEW q \in Seq(S), NEW e \in S
  PROVE  /\ Elems(Append(q, e)) = Elems(q) \cup {e}
         /\ NoDup(q) /\ e \notin Elems(q) => NoDup(Append(q, e))
<1> DEFINE r == Append(q, e)
<1>1. /\ Len(r) = Len(q) + 1 /\ DOMAIN r = 1 .. Len(q) + 1
      /\ DOMAIN q = 1 .. Len(q) /\ Len(q) \in Nat
      /\ \A i \in 1 .. Len(q) : r[i] = q[i]
      /\ r[Len(q) + 1] = e
  OBVIOUS
<1> HIDE DEF r
<1>2. Elems(r) \subseteq Elems(q) \cup {e}
  <2> SUFFICES ASSUME NEW i \in 1 .. Len(q) + 1
               PROVE  r[i] \in Elems(q) \cup {e}
    BY <1>1 DEF Elems
  <2>1. CASE i \in 1 .. Len(q)
    BY <1>1, <2>1 DEF Elems
  <2>2. CASE i = Len(q) + 1
    BY <1>1, <2>2
  <2> QED
    BY <1>1, <2>1, <2>2
<1>3. Elems(q) \cup {e} \subseteq Elems(r)
  <2>1. Len(q) + 1 \in DOMAIN r /\ \A i \in DOMAIN q : i \in DOMAIN r
    BY <1>1
  <2> QED
    BY <1>1, <2>1 DEF Elems
<1>4. ASSUME NoDup(q), e \notin Elems(q) PROVE NoDup(r)
  BY <1>1, <1>4 DEF NoDup, Elems
<1> QED
  BY <1>2, <1>3, <1>4 DEF r

\* Taking the head leaves the other elements.
LEMMA TailElems ==
  ASSUME NEW S, NEW q \in Seq(S), q # << >>, NoDup(q)
  PROVE  /\ Head(q) \in S /\ Tail(q) \in Seq(S)
         /\ Elems(q) = Elems(Tail(q)) \cup {Head(q)}
         /\ Head(q) \notin Elems(Tail(q))
         /\ NoDup(Tail(q))
<1> DEFINE t == Tail(q)
<1>1. /\ Len(q) \in Nat \ {0} /\ DOMAIN q = 1 .. Len(q)
      /\ Len(t) = Len(q) - 1 /\ DOMAIN t = 1 .. Len(q) - 1
      /\ \A i \in 1 .. Len(q) - 1 : t[i] = q[i + 1]
      /\ Head(q) = q[1] /\ Head(q) \in S /\ t \in Seq(S)
  OBVIOUS
<1> HIDE DEF t
<1>2. ASSUME NEW i \in DOMAIN q PROVE q[i] \in Elems(t) \cup {q[1]}
  <2>1. CASE i = 1
    BY <2>1
  <2>2. CASE i # 1
    <3>1. i - 1 \in DOMAIN t /\ q[i] = t[i - 1]
      BY <1>1, <2>2
    <3> QED
      BY <3>1 DEF Elems
  <2> QED
    BY <2>1, <2>2
<1>3. ASSUME NEW i \in DOMAIN t
      PROVE  i + 1 \in DOMAIN q /\ t[i] = q[i + 1] /\ i + 1 # 1
  BY <1>1
<1>4. Elems(q) = Elems(t) \cup {q[1]}
  <2>1. 1 \in DOMAIN q
    BY <1>1
  <2> QED
    BY <1>2, <1>3, <2>1 DEF Elems
<1>5. q[1] \notin Elems(t)
  <2>1. 1 \in DOMAIN q
    BY <1>1
  <2> QED
    BY <1>3, <2>1 DEF Elems, NoDup
<1>6. NoDup(t)
  BY <1>1, <1>3 DEF NoDup
<1> QED
  BY <1>1, <1>4, <1>5, <1>6 DEF t

-----------------------------------------------------------------------------
(* Every message is in one place, and the counters count them              *)

Taken == requests \cup late \cup ({cur} \ {NoMsg})

\* A message is in one of the queue, the two lists and the hands of the loop.
Places ==
  /\ NoDup(queue)
  /\ Queued \cap Taken = {}
  /\ cur \notin requests \cup late
  /\ requests \cap late = {}
  /\ running \subseteq requests \cup late
  /\ at = "idle" <=> cur = NoMsg
  /\ \A m \in Live : fate[m] # "unsent"

Typing ==
  /\ conn \in [Conns -> {"none", "open", "closed", "freed"}]
  /\ uses \in [Conns -> Int]
  /\ from \in [Msgs -> Conns]
  /\ queue \in Seq(Msgs)
  /\ requests \subseteq Msgs /\ late \subseteq Msgs /\ running \subseteq Msgs
  /\ at \in {"idle", "do", "send", "free"}
  /\ cur \in Msgs \cup {NoMsg}
  /\ fate \in [Msgs -> Fates]

Counts == \A c \in Conns : uses[c] = Cardinality(Of(c))

CountInv == Typing /\ Places /\ QueueOfOpenConns /\ Counts

LEMMA QueuedElems == Queued = Elems(queue) /\ Live = Queued \cup Taken
BY DEF Queued, Elems, Live, Taken

LEMMA OfFinite ==
  ASSUME Typing, NEW c \in Conns
  PROVE  IsFiniteSet(Of(c)) /\ Cardinality(Of(c)) \in Nat /\ Of(c) \subseteq Msgs
<1>1. Queued \subseteq Msgs
  BY DEF Typing, Queued
<1>2. Of(c) \subseteq Msgs
  BY <1>1 DEF Typing, Of, Live
<1> QED
  BY <1>2, FS_Subset, FS_CardinalityType, ServerAssumption

LEMMA CountInit == Init => CountInv
<1> SUFFICES ASSUME Init PROVE CountInv
  OBVIOUS
<1>1. Queued = {} /\ Live = {} /\ Taken = {}
  BY DEF Init, Queued, Live, Taken
<1>2. Typing
  BY ServerAssumption DEF Init, Typing, Fates
<1>3. Places
  BY <1>1 DEF Init, Places, NoDup
<1>4. Counts
  <2>1. \A c \in Conns : Of(c) = {}
    BY <1>1 DEF Of
  <2> QED
    BY <2>1, FS_EmptySet DEF Init, Counts
<1> QED
  BY <1>1, <1>2, <1>3, <1>4 DEF CountInv, QueueOfOpenConns

\* The counters are right after a step that keeps the live messages.
LEMMA SameLive ==
  ASSUME Counts, Live' = Live, UNCHANGED <<uses, from>>
  PROVE  Counts'
BY DEF Counts, Of

LEMMA TypingStep ==
  ASSUME CountInv, [Next]_vars PROVE Typing'
<1> USE ServerAssumption
<1> USE DEF CountInv, Typing, Fates, socket, loop, Goto
<1>1. ASSUME NEW c \in Conns, ConnNew(c) PROVE Typing'
  BY <1>1 DEF ConnNew
<1>2. ASSUME NEW c \in Conns, ConnClose(c) PROVE Typing'
  <2>1. \A d \in Conns : Cardinality(QueuedOf(d)) \in Nat
    <3>1. \A d \in Conns : QueuedOf(d) \subseteq Msgs
      BY DEF QueuedOf, Queued
    <3> QED
      BY <3>1, FS_Subset, FS_CardinalityType
  <2> QED
    BY <1>2, <2>1 DEF ConnClose
<1>3. ASSUME NEW m \in Msgs, ConnRecv(m) PROVE Typing'
  BY <1>3 DEF ConnRecv
<1>4. ASSUME NEW m \in Msgs, WorkerDone(m) PROVE Typing'
  BY <1>4 DEF WorkerDone
<1>5. CASE Pop
  BY <1>5, TailElems DEF Pop, Places
<1>6. CASE OpDoFails
  BY <1>6 DEF OpDoFails
<1>7. CASE OpDoDenied
  BY <1>7 DEF OpDoDenied, Places
<1>8. CASE OpDoRuns
  BY <1>8 DEF OpDoRuns, Places
<1>9. CASE Send
  BY <1>9 DEF Send
<1>10. CASE Free
  BY <1>10 DEF Free, Places
<1>11. ASSUME NEW m \in Msgs, TakeFinished(m) PROVE Typing'
  BY <1>11 DEF TakeFinished
<1>12. ASSUME NEW m \in Msgs, TakeTimedOut(m) PROVE Typing'
  BY <1>12 DEF TakeTimedOut
<1>13. CASE UNCHANGED vars
  BY <1>13 DEF vars
<1> QED
  BY <1>1, <1>2, <1>3, <1>4, <1>5, <1>6, <1>7, <1>8, <1>9, <1>10, <1>11,
     <1>12, <1>13 DEF Next, LoopStep

LEMMA CountStep ==
  ASSUME CountInv, [Next]_vars PROVE CountInv'
<1> USE ServerAssumption
<1>0. Typing'
  BY TypingStep
<1> USE DEF CountInv, QueueOfOpenConns, socket, loop, Goto
<1>1. ASSUME NEW c \in Conns, ConnNew(c) PROVE CountInv'
  <2>1. Queued' = Queued /\ Live' = Live /\ Taken' = Taken
    BY <1>1 DEF ConnNew, Queued, Live, Taken
  <2>2. Places' /\ Counts'
    BY <1>1, <2>1, SameLive DEF ConnNew, Places
  <2>3. QueueOfOpenConns'
    <3>1. Queued \subseteq Msgs
      BY DEF Queued, Typing
    <3> QED
      BY <1>1, <2>1, <3>1 DEF ConnNew, Typing
  <2> QED
    BY <1>0, <2>2, <2>3
<1>2. ASSUME NEW c \in Conns, ConnClose(c) PROVE CountInv'
  <2>1. Queued' = {} /\ Taken' = Taken /\ Live' = Live \ Queued
    BY <1>2 DEF ConnClose, Queued, Live, Taken, Places
  <2>2. Places'
    BY <1>2, <2>1 DEF ConnClose, Places, NoDup, Live, Taken, Typing
  <2>3. ASSUME NEW d \in Conns PROVE uses'[d] = Cardinality(Of(d)')
    <3>1. Of(d)' = Of(d) \ QueuedOf(d) /\ QueuedOf(d) = Of(d) \cap QueuedOf(d)
      BY <1>2, <2>1 DEF ConnClose, Of, QueuedOf, Live
    <3>2. Cardinality(Of(d)') = Cardinality(Of(d)) - Cardinality(QueuedOf(d))
      BY <3>1, OfFinite, FS_Difference
    <3> QED
      BY <1>2, <3>2 DEF ConnClose, Counts
  <2> QED
    BY <1>0, <2>1, <2>2, <2>3 DEF Counts
<1>3. ASSUME NEW m \in Msgs, ConnRecv(m) PROVE CountInv'
  <2>1. m \notin Live
    BY <1>3 DEF ConnRecv, Places
  <2>2. /\ Queued' = Queued \cup {m} /\ Taken' = Taken
        /\ Live' = Live \cup {m} /\ NoDup(queue')
    <3>1. /\ Queued = Elems(queue) /\ Queued' = Elems(queue')
          /\ Live = Queued \cup Taken /\ Live' = Queued' \cup Taken'
      BY DEF Queued, Elems, Live, Taken
    <3>2. queue' = Append(queue, m) /\ queue \in Seq(Msgs) /\ Taken' = Taken
      BY <1>3 DEF ConnRecv, Typing, Taken
    <3>3. m \notin Elems(queue) /\ NoDup(queue)
      BY <2>1, <3>1 DEF Places
    <3> QED
      BY <3>1, <3>2, <3>3, AppendElems
  <2>3. Places'
    BY <1>3, <2>1, <2>2 DEF ConnRecv, Places, Live, Taken, Typing
  <2>4. ASSUME NEW d \in Conns PROVE uses'[d] = Cardinality(Of(d)')
    <3>1. CASE d = from[m]
      <4>1. Of(d)' = Of(d) \cup {m} /\ m \notin Of(d)
        BY <1>3, <2>1, <2>2, <3>1 DEF ConnRecv, Of
      <4>2. Cardinality(Of(d)') = Cardinality(Of(d)) + 1
        BY <4>1, OfFinite, FS_AddElement
      <4> QED
        BY <1>3, <3>1, <4>2 DEF ConnRecv, Counts, Typing
    <3>2. CASE d # from[m]
      <4>1. Of(d)' = Of(d)
        BY <1>3, <2>2, <3>2 DEF ConnRecv, Of
      <4> QED
        BY <1>3, <3>2, <4>1 DEF ConnRecv, Counts, Typing
    <3> QED
      BY <3>1, <3>2
  <2> QED
    BY <1>0, <1>3, <2>2, <2>3, <2>4 DEF ConnRecv, Counts
<1>4. ASSUME NEW m \in Msgs, WorkerDone(m) PROVE CountInv'
  <2>1. Queued' = Queued /\ Live' = Live /\ Taken' = Taken
    BY <1>4 DEF WorkerDone, Queued, Live, Taken
  <2>2. Places' /\ Counts'
    BY <1>4, <2>1, SameLive DEF WorkerDone, Places
  <2> QED
    BY <1>0, <1>4, <2>1, <2>2 DEF WorkerDone
<1>5. CASE Pop
  <2>1. /\ Queued = Queued' \cup {cur'} /\ cur' \notin Queued'
        /\ NoDup(queue') /\ cur' \in Msgs
    <3>1. Queued = Elems(queue) /\ Queued' = Elems(queue')
      BY DEF Queued, Elems
    <3>2. /\ queue \in Seq(Msgs) /\ queue # << >> /\ NoDup(queue)
          /\ queue' = Tail(queue) /\ cur' = Head(queue)
      BY <1>5 DEF Pop, Typing, Places
    <3> QED
      BY <3>1, <3>2, TailElems
  <2>2. Live' = Live /\ Taken' = Taken \cup {cur'}
    BY <1>5, <2>1 DEF Pop, Live, Taken, Places
  <2>3. Places'
    BY <1>5, <2>1, <2>2 DEF Pop, Places, Taken, Live
  <2>4. Counts'
    BY <1>5, <2>2, SameLive DEF Pop
  <2> QED
    BY <1>0, <1>5, <2>1, <2>3, <2>4 DEF Pop
<1>6. CASE OpDoFails \/ Send
  <2>1. Queued' = Queued /\ Live' = Live /\ Taken' = Taken
    BY <1>6 DEF OpDoFails, Send, Queued, Live, Taken
  <2>2. \A m \in Live : fate'[m] # "unsent"
    <3>1. Live \subseteq Msgs
      BY DEF Live, Queued, Typing
    <3> QED
      BY <1>6, <3>1 DEF OpDoFails, Send, Typing, Places
  <2>3. Places' /\ Counts'
    <3>1. UNCHANGED <<queue, requests, late, running, cur>>
      BY <1>6 DEF OpDoFails, Send
    <3>2. at # "idle" /\ at' # "idle"
      BY <1>6 DEF OpDoFails, Send
    <3>3. UNCHANGED <<uses, from>>
      BY <1>6 DEF OpDoFails, Send
    <3> QED
      BY <2>1, <2>2, <3>1, <3>2, <3>3, SameLive DEF Places
  <2> QED
    BY <1>0, <1>6, <2>1, <2>3 DEF OpDoFails, Send
<1>7. CASE OpDoDenied \/ OpDoRuns
  <2>1. Queued' = Queued /\ Live' = Live /\ Taken' = Taken
    BY <1>7 DEF OpDoDenied, OpDoRuns, Queued, Live, Taken, Places
  <2>2. Places' /\ Counts'
    BY <1>7, <2>1, SameLive DEF OpDoDenied, OpDoRuns, Places, Typing
  <2> QED
    BY <1>0, <1>7, <2>1, <2>2 DEF OpDoDenied, OpDoRuns
<1>8. CASE Free
  <2>1. /\ Queued' = Queued /\ Taken' = Taken \ {cur}
        /\ Live' = Live \ {cur} /\ cur \in Live /\ cur \in Msgs
    BY <1>8 DEF Free, Queued, Live, Taken, Places, Typing
  <2>2. Places'
    BY <1>8, <2>1 DEF Free, Places, Typing
  <2>3. ASSUME NEW d \in Conns PROVE uses'[d] = Cardinality(Of(d)')
    <3>1. CASE d = from[cur]
      <4>1. Of(d)' = Of(d) \ {cur} /\ cur \in Of(d)
        BY <1>8, <2>1, <3>1 DEF Free, Of
      <4>2. Cardinality(Of(d)') = Cardinality(Of(d)) - 1
        BY <4>1, OfFinite, FS_RemoveElement
      <4> QED
        BY <1>8, <3>1, <4>2 DEF Free, Counts, Typing
    <3>2. CASE d # from[cur]
      <4>1. Of(d)' = Of(d)
        BY <1>8, <2>1, <3>2 DEF Free, Of
      <4> QED
        BY <1>8, <3>2, <4>1 DEF Free, Counts, Typing
    <3> QED
      BY <3>1, <3>2
  <2>4. QueueOfOpenConns'
    BY <1>8, <2>1 DEF Free, Typing
  <2> QED
    BY <1>0, <2>2, <2>3, <2>4 DEF Counts
<1>9. ASSUME NEW m \in Msgs, TakeFinished(m) \/ TakeTimedOut(m)
      PROVE  CountInv'
  <2>1. Queued' = Queued /\ Live' = Live /\ Taken' = Taken
    BY <1>9 DEF TakeFinished, TakeTimedOut, Queued, Live, Taken, Places
  <2>2. Places' /\ Counts'
    BY <1>9, <2>1, SameLive DEF TakeFinished, TakeTimedOut, Places
  <2> QED
    BY <1>0, <1>9, <2>1, <2>2 DEF TakeFinished, TakeTimedOut
<1>10. CASE UNCHANGED vars
  <2>1. Queued' = Queued /\ Live' = Live /\ Taken' = Taken
    BY <1>10 DEF vars, Queued, Live, Taken
  <2>2. Places' /\ Counts'
    BY <1>10, <2>1, SameLive DEF vars, Places
  <2> QED
    BY <1>0, <1>10, <2>1, <2>2 DEF vars
<1> QED
  BY <1>1, <1>2, <1>3, <1>4, <1>5, <1>6, <1>7, <1>8, <1>9, <1>10
     DEF Next, LoopStep

THEOREM CountInvariant == Spec => []CountInv
BY CountInit, CountStep, PTL DEF Spec

\* The variables keep their types; in particular no counter is ever negative.
THEOREM TypeCorrect == Spec => []TypeOK
<1>1. CountInv => TypeOK
  <2> SUFFICES ASSUME CountInv PROVE TypeOK
    OBVIOUS
  <2>1. \A c \in Conns : uses[c] \in Nat
    BY OfFinite DEF CountInv, Counts
  <2> QED
    BY <2>1 DEF CountInv, Typing, TypeOK
<1> QED
  BY <1>1, CountInvariant, PTL

\* msg_use_counter counts the messages that refer to a connection, for any
\* interleaving of the socket thread, the loop and the workers.
THEOREM CountersAreExact == Spec => []UsesExact
<1>1. CountInv => UsesExact
  BY DEF CountInv, Counts, UsesExact
<1> QED
  BY <1>1, CountInvariant, PTL

\* Only open connections have messages waiting in the receive queue.
THEOREM QueueIsOfOpenConns == Spec => []QueueOfOpenConns
<1>1. CountInv => QueueOfOpenConns
  BY DEF CountInv
<1> QED
  BY <1>1, CountInvariant, PTL

-----------------------------------------------------------------------------
(***************************************************************************)
(* Clients that wait for each answer hide the inverted test of the         *)
(* counter: at most one message of a connection has left the queue, so     *)
(* the counter of a closed connection goes from one to zero.               *)
(***************************************************************************)
Pending ==
  /\ \A m \in Queued \cup requests \cup late : fate[m] = "pending"
  /\ at \in {"do", "send"} => fate[cur] = "pending"

OnePending ==
  \A m, k \in Msgs :
    from[m] = from[k] /\ fate[m] = "pending" /\ fate[k] = "pending" => m = k

OneTaken == \A m, k \in Taken : from[m] = from[k] => m = k

AliveInv == CountInv /\ Pending /\ OnePending /\ OneTaken /\ ConnAliveWhileUsed

LEMMA AliveInit == Init => AliveInv
<1>1. Init => CountInv
  BY CountInit
<1>2. Init => Queued = {} /\ Taken = {} /\ Live = {}
  BY DEF Init, Queued, Taken, Live
<1> QED
  BY <1>1, <1>2 DEF Init, AliveInv, Pending, OnePending, OneTaken,
                    ConnAliveWhileUsed

LEMMA AliveStep ==
  ASSUME "giveUp" \notin Faults, AliveInv, [Next]_vars
  PROVE  AliveInv'
<1> USE ServerAssumption
<1>0. CountInv /\ CountInv'
  BY CountStep DEF AliveInv
<1>a. Live = Queued \cup Taken /\ Live' = Queued' \cup Taken'
  BY DEF Live, Taken
<1>b. Typing /\ Typing' /\ Live \subseteq Msgs /\ Live' \subseteq Msgs
  BY <1>0, SMTT(30) DEF CountInv, Typing, Live, Queued
<1> USE DEF AliveInv, Pending, OnePending, OneTaken, ConnAliveWhileUsed,
            socket, loop, Goto
<1>1. ASSUME NEW c \in Conns, ConnNew(c) PROVE AliveInv'
  <2>1. Queued' = Queued /\ Live' = Live /\ Taken' = Taken
    BY <1>1 DEF ConnNew, Queued, Live, Taken
  <2>2. ConnAliveWhileUsed'
    BY <1>1, <1>b, <2>1 DEF ConnNew, Typing
  <2> QED
    BY <1>0, <1>1, <2>1, <2>2 DEF ConnNew
<1>2. ASSUME NEW c \in Conns, ConnClose(c) PROVE AliveInv'
  <2>1. Queued' = {} /\ Taken' = Taken /\ Live' = Taken
    BY <1>2 DEF ConnClose, Queued, Live, Taken
  <2>2. \A m \in Taken : m \in Msgs /\ m \notin Queued
    BY <1>0, <1>a, <1>b DEF CountInv, Places
  <2>3. ConnAliveWhileUsed'
    <3> SUFFICES ASSUME NEW m \in Taken, conn'[from[m]] = "freed" PROVE FALSE
      BY <1>2, <2>1 DEF ConnClose
    <3>1. conn[from[m]] # "freed"
      BY <1>a
    <3>2. from[m] = c /\ ~(uses'[c] > 0)
      BY <1>2, <1>b, <2>2, <3>1 DEF ConnClose, Typing
    <3>3. m \in Of(c)'
      BY <1>2, <2>1, <3>2 DEF ConnClose, Of
    <3>4. IsFiniteSet(Of(c)') /\ Of(c)' \subseteq Msgs
      BY <1>b, FS_Subset DEF Of
    <3>5. Cardinality(Of(c)') \in Nat /\ Cardinality(Of(c)') # 0
      BY <3>3, <3>4, FS_EmptySet, FS_CardinalityType
    <3>6. uses'[c] = Cardinality(Of(c)')
      BY <1>0 DEF CountInv, Counts
    <3> QED
      BY <3>2, <3>5, <3>6
  <2>4. \A m \in Msgs : fate'[m] = IF m \in Queued THEN "dropped" ELSE fate[m]
    BY <1>2 DEF ConnClose
  <2>5. UNCHANGED <<from, requests, late, at, cur>>
    BY <1>2 DEF ConnClose
  <2>6. OnePending' /\ OneTaken'
    BY <2>1, <2>4, <2>5
  <2>7. Pending'
    <3>1. at \in {"do", "send"} => cur \in Taken
      BY <1>0, <1>b DEF Taken, CountInv, Places
    <3>2. requests \cup late \subseteq Taken
      BY DEF Taken
    <3> QED
      BY <2>1, <2>2, <2>4, <2>5, <3>1, <3>2
  <2> QED
    BY <1>0, <2>3, <2>6, <2>7
<1>3. ASSUME NEW m \in Msgs, ConnRecv(m) PROVE AliveInv'
  <2>1. m \notin Live
    BY <1>0, <1>3 DEF ConnRecv, CountInv, Places
  <2>2. Queued' \subseteq Queued \cup {m} /\ Taken' = Taken
    <3>1. Queued = Elems(queue) /\ Queued' = Elems(queue')
      BY DEF Queued, Elems
    <3>2. queue' = Append(queue, m) /\ queue \in Seq(Msgs)
      BY <1>3, <1>b DEF ConnRecv, Typing
    <3>3. Elems(queue') = Elems(queue) \cup {m}
      BY <3>2, AppendElems
    <3> QED
      BY <1>3, <3>1, <3>3 DEF ConnRecv, Taken
  <2>3. ConnAliveWhileUsed'
    BY <1>3, <1>a, <2>2 DEF ConnRecv
  <2>4. Pending' /\ OnePending' /\ OneTaken'
    BY <1>3, <1>a, <1>b, <2>1, <2>2 DEF ConnRecv, Typing, Taken
  <2> QED
    BY <1>0, <2>3, <2>4
<1>4. ASSUME NEW m \in Msgs, WorkerDone(m) PROVE AliveInv'
  <2>1. Queued' = Queued /\ Live' = Live /\ Taken' = Taken
    BY <1>4 DEF WorkerDone, Queued, Live, Taken
  <2> QED
    BY <1>0, <1>4, <2>1 DEF WorkerDone
<1>5. CASE Pop
  <2>1. Queued = Queued' \cup {cur'}
    <3>1. Queued = Elems(queue) /\ Queued' = Elems(queue')
      BY DEF Queued, Elems
    <3>2. /\ queue \in Seq(Msgs) /\ queue # << >> /\ NoDup(queue)
          /\ queue' = Tail(queue) /\ cur' = Head(queue)
      BY <1>0, <1>5 DEF Pop, CountInv, Typing, Places
    <3> QED
      BY <3>1, <3>2, TailElems
  <2>2. Taken = requests \cup late /\ Taken' \subseteq Taken \cup {cur'}
    BY <1>0, <1>5 DEF Pop, Taken, CountInv, Places
  <2>3. OneTaken'
    <3>1. \A m \in Taken \cup {cur'} : fate[m] = "pending" /\ m \in Msgs
      BY <1>a, <1>b, <2>1, <2>2
    <3> QED
      BY <1>5, <2>2, <3>1 DEF Pop
  <2>4. ConnAliveWhileUsed'
    BY <1>5, <1>a, <2>1, <2>2 DEF Pop
  <2>5. Pending' /\ OnePending'
    BY <1>5, <2>1 DEF Pop
  <2> QED
    BY <1>0, <2>3, <2>4, <2>5
<1>6. CASE OpDoFails \/ Send
  <2>1. /\ Queued' = Queued /\ Live' = Live /\ Taken' = Taken
        /\ UNCHANGED <<conn, from, requests, late>>
        /\ \A m \in Msgs : m # cur => fate'[m] = fate[m]
        /\ fate'[cur] # "pending" /\ at' = "free"
    BY <1>0, <1>6, <1>b
       DEF OpDoFails, Send, Queued, Live, Taken, Typing, CountInv, Places
  <2>2. \A m \in Queued \cup requests \cup late : m # cur /\ m \in Msgs
    BY <1>0, <1>6, <1>a, <1>b DEF OpDoFails, Send, CountInv, Places, Taken
  <2>3. Pending' /\ OnePending'
    BY <2>1, <2>2
  <2>4. OneTaken' /\ ConnAliveWhileUsed'
    BY <2>1
  <2> QED
    BY <1>0, <2>3, <2>4
<1>7. CASE OpDoDenied \/ OpDoRuns
  <2>1. Queued' = Queued /\ Live' = Live /\ Taken' = Taken
    BY <1>0, <1>7
       DEF OpDoDenied, OpDoRuns, Queued, Live, Taken, CountInv, Places
  <2> QED
    BY <1>0, <1>7, <2>1 DEF OpDoDenied, OpDoRuns
<1>8. CASE Free
  <2>1. /\ Queued' = Queued /\ Taken' = Taken \ {cur}
        /\ Live' = Live \ {cur} /\ cur \in Live /\ cur \in Msgs
        /\ cur \in Taken
    BY <1>0, <1>8 DEF Free, Queued, Live, Taken, CountInv, Places, Typing
  <2>2. conn' = conn
    <3>1. from[cur] \in Conns
      BY <1>b, <2>1 DEF Typing
    <3> SUFFICES ASSUME NEW c \in Conns, c = from[cur], uses'[c] # 0,
                        conn[c] = "closed"
                 PROVE  FALSE
      BY <1>8, <3>1 DEF Free
    <3>2. uses'[c] = Cardinality(Of(c)')
      BY <1>0 DEF CountInv, Counts
    <3>3. Of(c)' # {}
      BY <3>2, FS_EmptySet
    <3>4. PICK k \in Live : k # cur /\ from[k] = c
      BY <1>8, <2>1, <3>3 DEF Free, Of
    <3>5. CASE k \in Queued
      BY <1>0, <3>4, <3>5 DEF CountInv, QueueOfOpenConns
    <3>6. CASE k \in Taken
      BY <2>1, <3>4, <3>6
    <3> QED
      BY <1>a, <3>4, <3>5, <3>6
  <2> QED
    BY <1>0, <1>8, <2>1, <2>2 DEF Free
<1>9. ASSUME NEW m \in Msgs, TakeFinished(m) \/ TakeTimedOut(m)
      PROVE  AliveInv'
  <2>1. Queued' = Queued /\ Live' = Live /\ Taken' = Taken
    BY <1>0, <1>9
       DEF TakeFinished, TakeTimedOut, Queued, Live, Taken, CountInv, Places
  <2> QED
    BY <1>0, <1>9, <2>1 DEF TakeFinished, TakeTimedOut
<1>10. CASE UNCHANGED vars
  <2>1. Queued' = Queued /\ Live' = Live /\ Taken' = Taken
    BY <1>10 DEF vars, Queued, Live, Taken
  <2> QED
    BY <1>0, <1>10, <2>1 DEF vars
<1> QED
  BY <1>1, <1>2, <1>3, <1>4, <1>5, <1>6, <1>7, <1>8, <1>9, <1>10
     DEF Next, LoopStep

\* When every client waits for its answer, no message ever refers to a
\* connection that was freed, for any interleaving of closing, loop and
\* workers.
THEOREM NoUseAfterFree ==
  ASSUME "giveUp" \notin Faults
  PROVE  Spec => []ConnAliveWhileUsed
<1>1. AliveInv /\ [Next]_vars => AliveInv'
  BY AliveStep
<1>2. AliveInv => ConnAliveWhileUsed
  BY DEF AliveInv
<1> QED
  BY <1>1, <1>2, AliveInit, PTL DEF Spec
=============================================================================
