--------------------------- MODULE SelLog_proofs ---------------------------
(***************************************************************************)
(* Proofs about SelLog, for any size of the log and any number of events   *)
(* and threads.  Power may be cut at any step.  When events and clears do  *)
(* not overlap (OneAtATime), SelInv is about the file alone and ListInv    *)
(* adds how the driver's list follows it, up to what the host reads.       *)
(* RaceInv is for threads that record events at once (RaceOnly).           *)
(***************************************************************************)
EXTENDS SelLog, SequenceTheorems, FiniteSetTheorems, TLAPS

OneAtATime == Faults = {}

AnyRec == [id : Nat, ev : Nat]

-----------------------------------------------------------------------------
(* The inductive invariant                                                 *)

Typing ==
  /\ file \in Seq(AnyRec) /\ pos \in Nat /\ record_id \in Nat /\ seen \in Nat
  /\ pc \in [Threads -> Pcs]
  /\ msg \in [Threads -> AnyRec]
  /\ sh \in [Threads -> [last : Nat, cur : Nat, cnt : Nat, rec : AnyRec]]
  /\ rd \in [off : Nat, id : Nat]
  /\ handler \in [on : Threads \cup {None}, at : {None, "file", "list", "id"}]

\* At most one thread is busy, and none is while the handler runs.
Serial ==
  /\ \A t, u \in Threads : pc[t] # "idle" /\ pc[u] # "idle" => t = u
  /\ handler.on # None => \A t \in Threads : pc[t] = "idle"
  /\ handler.at # None => handler.on # None

\* The file holds records 1, 2, ... in order, none later than the last event.
Numbered(n) == \A i \in 1 .. n : file[i].id = i
Ordered ==
  /\ \A i \in 1 .. Len(file) : file[i].ev <= seen
  /\ \A i, j \in 1 .. Len(file) :
       i < j /\ file[j] # Zero => file[i].ev <= file[j].ev

\* The file is at its end and the next id is the next place.
Settled == pos = Len(file) /\ record_id = Len(file) + 1 /\ Numbered(Len(file))

Full(t) == /\ Len(file) = MaxNum /\ Numbered(MaxNum)
           /\ record_id = MaxNum + 1 /\ msg[t].id = MaxNum + 1

\* What a busy thread relies on.
Busy(t) ==
  /\ pc[t] \in {"check", "sleep", "gen", "lock", "inc", "add"} => Settled
  /\ pc[t] \in {"lock", "inc"} => msg[t].id = record_id
  /\ pc[t] \in Pcs \ {"init", "read", "setid", "idle"} => msg[t].ev = seen
  /\ pc[t] = "rewind" => Full(t)
  /\ pc[t] = "shiftread" =>
       /\ Full(t)
       /\ sh[t].cur \in 1 .. MaxNum - 1
       /\ sh[t].last = sh[t].cur - 1 /\ sh[t].cnt = sh[t].last
  /\ pc[t] = "shiftwrite" =>
       /\ Full(t)
       /\ sh[t].cur \in 2 .. MaxNum
       /\ sh[t].last = sh[t].cur - 2 /\ sh[t].cnt = sh[t].last
       /\ sh[t].rec = file[sh[t].cur]
  /\ pc[t] = "append" =>
       \/ Full(t) /\ pos = MaxNum - 1
       \/ /\ Len(file) < MaxNum /\ Numbered(Len(file)) /\ pos = Len(file)
          /\ msg[t].id = Len(file) + 1 /\ record_id = Len(file) + 2

\* What the start-up knows of the part of the file it has read.
Reading ==
  /\ pc[Main] = "read" => /\ pos <= Len(file) /\ Numbered(pos)
                          /\ rd.off = pos /\ rd.id = pos
  /\ pc[Main] = "setid" => /\ Numbered(Len(file))
                           /\ pos = Len(file) /\ rd.id = pos

\* What the handler has cleared.
Clearing ==
  /\ handler.at = "file" => Numbered(Len(file))
  /\ handler.at \in {"list", "id"} => file = <<>> /\ pos = 0

SelInv ==
  /\ Typing /\ Serial /\ Reading /\ Clearing
  /\ Len(file) <= MaxNum
  /\ \A i \in 1 .. Len(file) : Place(file, i)
  /\ Ordered
  /\ \A t \in Threads : Busy(t)
  /\ Quiet => Settled

-----------------------------------------------------------------------------
(* Writing one record                                                      *)

\* A write inside a file replaces one record.
LEMMA PutInside ==
  ASSUME NEW f \in Seq(AnyRec), NEW p \in Nat, p < Len(f), NEW r \in AnyRec
  PROVE  /\ Put(f, p, r) \in Seq(AnyRec) /\ Len(Put(f, p, r)) = Len(f)
         /\ Put(f, p, r)[p + 1] = r
         /\ \A i \in 1 .. Len(f) : i # p + 1 => Put(f, p, r)[i] = f[i]
<1>1. p + 1 \in 1 .. Len(f) /\ DOMAIN f = 1 .. Len(f)
  OBVIOUS
<1>2. Put(f, p, r) = [f EXCEPT ![p + 1] = r]
  BY DEF Put
<1> QED
  BY <1>1, <1>2, ExceptSeq

\* A write at the end of a file appends the record.
LEMMA PutEnd ==
  ASSUME NEW f \in Seq(AnyRec), NEW r \in AnyRec
  PROVE  Put(f, Len(f), r) = Append(f, r)
<1>1. Len(f) \in Nat /\ Len(f) - Len(f) = 0
  OBVIOUS
<1> DEFINE hole == [i \in 1 .. (Len(f) - Len(f)) |-> Zero]
<1>2. hole = <<>>
  BY <1>1, EmptySeq
<1>3. Put(f, Len(f), r) = f \o hole \o <<r>>
  BY <1>1 DEF Put
<1>4. f \o hole = f
  BY <1>2, ConcatEmptySeq
<1> QED
  BY <1>3, <1>4, AppendIsConcat

\* The records of a file are records of numbers.
LEMMA FileRecords ==
  ASSUME Typing
  PROVE  /\ Len(file) \in Nat /\ DOMAIN file = 1 .. Len(file)
         /\ \A i \in 1 .. Len(file) :
              file[i] \in AnyRec /\ file[i].ev \in Nat /\ file[i].id \in Nat
<1>1. \A i \in 1 .. Len(file) : file[i] \in AnyRec
  BY ElementOfSeq DEF Typing
<1> QED
  BY <1>1, SMTT(30) DEF Typing, AnyRec

\* A full log, and the places of the thread that shifts it.
LEMMA FullRecords ==
  ASSUME Typing, NEW t \in Threads, Full(t)
  PROVE  /\ Len(file) = MaxNum /\ MaxNum \in Nat /\ MaxNum >= 2
         /\ \A i \in 1 .. MaxNum : /\ file[i] \in AnyRec /\ file[i].id = i
                                   /\ file[i].ev \in Nat
         /\ sh[t].last \in Nat /\ sh[t].cnt \in Nat /\ sh[t].cur \in Nat
         /\ sh \in [Threads -> [last : Nat, cur : Nat, cnt : Nat, rec : AnyRec]]
<1>1. Len(file) = MaxNum /\ \A i \in 1 .. MaxNum : file[i].id = i
  BY DEF Full, Numbered
<1>2. MaxNum \in Nat /\ MaxNum >= 2
  BY SelAssumption
<1>3. \A i \in 1 .. MaxNum : file[i] \in AnyRec /\ file[i].ev \in Nat
  BY <1>1, FileRecords
<1>4. sh \in [Threads -> [last : Nat, cur : Nat, cnt : Nat, rec : AnyRec]]
  BY DEF Typing
<1>5. sh[t].last \in Nat /\ sh[t].cnt \in Nat /\ sh[t].cur \in Nat
  <2>1. sh[t] \in [last : Nat, cur : Nat, cnt : Nat, rec : AnyRec]
    BY <1>4
  <2> QED
    BY <2>1
<1> QED
  BY <1>1, <1>2, <1>3, <1>4, <1>5

\* The counter does not wrap before it has passed the limit.
LEMMA IncSmall ==
  ASSUME NEW n \in Nat, n <= MaxNum + 1
  PROVE  Inc(n) = n + 1 /\ NextId(n) = IF n + 1 > MaxNum THEN MaxNum + 1 ELSE n + 1
<1>1. n # Wrap
  BY SelAssumption DEF Wrap
<1> QED
  BY <1>1 DEF Inc, NextId

-----------------------------------------------------------------------------
(* The two steps that write records                                        *)

\* The step of a shift moves one record one place down.
ShiftWritten(t) ==
  LET c == sh[t].cur
      r == [file[c] EXCEPT !.id = c - 1]
  IN  /\ Len(file) = MaxNum /\ c \in 2 .. MaxNum /\ sh[t].cnt = c - 2
      /\ r \in AnyRec /\ r.id = c - 1
      /\ file' \in Seq(AnyRec) /\ Len(file') = MaxNum /\ file'[c - 1] = r
      /\ \A i \in 1 .. MaxNum : i # c - 1 => file'[i] = file[i]
      /\ pos' = c - 1
      /\ sh' = [sh EXCEPT ![t] = [sh[t] EXCEPT !.last = c - 1, !.cnt = c - 1]]
      /\ pc' = [pc EXCEPT ![t] = IF c = MaxNum THEN "append" ELSE "shiftread"]

LEMMA ShiftWriteIs ==
  ASSUME SelInv, NEW t \in Threads, ShiftWrite(t)
  PROVE  ShiftWritten(t)
<1> USE SelAssumption
<1>1. Typing /\ Busy(t) /\ Full(t)
  BY DEF SelInv, ShiftWrite, At, Busy
<1>2. /\ Len(file) = MaxNum /\ MaxNum \in Nat /\ MaxNum >= 2
      /\ \A i \in 1 .. MaxNum : /\ file[i] \in AnyRec /\ file[i].id = i
                                /\ file[i].ev \in Nat
      /\ sh \in [Threads -> [last : Nat, cur : Nat, cnt : Nat, rec : AnyRec]]
  BY <1>1, FullRecords
<1>3. /\ sh[t].cur \in 2 .. MaxNum /\ sh[t].rec = file[sh[t].cur]
      /\ sh[t].last = sh[t].cur - 2 /\ sh[t].cnt = sh[t].last
  BY <1>1 DEF ShiftWrite, At, Busy
<1> DEFINE c == sh[t].cur
           r == [file[c] EXCEPT !.id = c - 1]
           s == [sh[t] EXCEPT !.last = c - 1, !.cnt = c - 1]
<1>4. Dec(sh[t].rec.id) = c - 1
  BY <1>2, <1>3 DEF Dec
<1>5. r \in AnyRec /\ r.id = c - 1
  <2>1. file[c] \in AnyRec /\ c - 1 \in Nat
    BY <1>2, <1>3
  <2> QED
    BY <2>1 DEF AnyRec
<1>6. file' = Put(file, c - 2, r) /\ pos' = c - 1
  <2>1. r = [sh[t].rec EXCEPT !.id = Dec(@)]
    BY <1>3, <1>4
  <2> QED
    BY <1>3, <2>1 DEF ShiftWrite
<1>7. sh' = [sh EXCEPT ![t] = s]
  <2>1. sh' = [sh EXCEPT ![t] = [sh[t] EXCEPT !.last = @ + 1, !.cnt = @ + 1]]
    BY <1>2 DEF ShiftWrite
  <2>2. sh[t].last + 1 = c - 1 /\ sh[t].cnt + 1 = c - 1
    BY <1>3
  <2> QED
    BY <2>1, <2>2
<1>8. pc' = [pc EXCEPT ![t] = IF c = MaxNum THEN "append" ELSE "shiftread"]
  <2>1. ShiftEnds(sh[t]) <=> c = MaxNum
    BY <1>2, <1>3, <1>4 DEF ShiftEnds
  <2> QED
    BY <2>1 DEF ShiftWrite, Goto
<1>9. /\ file' \in Seq(AnyRec) /\ Len(file') = MaxNum /\ file'[c - 1] = r
      /\ \A i \in 1 .. MaxNum : i # c - 1 => file'[i] = file[i]
  <2> DEFINE q == c - 2
             g == Put(file, q, r)
  <2>1. file \in Seq(AnyRec) /\ q \in Nat /\ q < Len(file) /\ q + 1 = c - 1
    BY <1>1, <1>2, <1>3 DEF Typing
  <2>2. file' = g
    BY <1>6
  <2> HIDE DEF q, r
  <2>3. /\ g \in Seq(AnyRec) /\ Len(g) = Len(file)
        /\ g[q + 1] = r
        /\ \A i \in 1 .. Len(file) : i # q + 1 => g[i] = file[i]
    BY <1>5, <2>1, PutInside
  <2> HIDE DEF g
  <2> QED
    BY <1>2, <2>1, <2>2, <2>3
<1> QED
  BY <1>2, <1>3, <1>5, <1>6, <1>7, <1>8, <1>9 DEF ShiftWritten

\* The new record takes the last place of a full log or the next one.
MsgWritten(t) ==
  LET r == [msg[t] EXCEPT !.id = FileId(@)]
      n == pos + 1
  IN  /\ \/ Full(t) /\ n = MaxNum
         \/ /\ Len(file) < MaxNum /\ Numbered(Len(file)) /\ pos = Len(file)
            /\ msg[t].id = n /\ record_id = n + 1
      /\ r \in AnyRec /\ r.id = n /\ r.ev = seen
      /\ file' \in Seq(AnyRec) /\ Len(file') = n /\ file'[n] = r
      /\ \A i \in 1 .. n - 1 : file'[i] = file[i]

LEMMA AddMsgIs ==
  ASSUME SelInv, NEW t \in Threads, AddMsg(t)
  PROVE  MsgWritten(t)
<1> USE SelAssumption
<1>1. /\ Typing /\ Serial /\ Ordered /\ Busy(t)
      /\ Len(file) <= MaxNum
  BY DEF SelInv
<1>2. msg[t].ev = seen
  BY <1>1 DEF AddMsg, At, Busy, Pcs
<1>3. /\ MaxNum \in Nat /\ MaxNum >= 2 /\ Len(file) \in Nat /\ seen \in Nat
      /\ file \in Seq(AnyRec) /\ msg[t] \in AnyRec
      /\ \A i \in 1 .. Len(file) : file[i].ev \in Nat /\ file[i].ev <= seen
  BY <1>1, FileRecords, SMTT(30) DEF Typing, Ordered
<1>4. \/ Full(t) /\ pos = MaxNum - 1
      \/ /\ Len(file) < MaxNum /\ Numbered(Len(file)) /\ pos = Len(file)
         /\ msg[t].id = Len(file) + 1 /\ record_id = Len(file) + 2
  BY <1>1 DEF AddMsg, At, Busy
<1> DEFINE r == [msg[t] EXCEPT !.id = FileId(@)]
           n == pos + 1
<1>5. /\ n \in 1 .. MaxNum /\ pos = n - 1 /\ record_id = n + 1
      /\ Len(file) \in {n - 1, n} /\ \A i \in 1 .. n - 1 : file[i].id = i
  BY <1>3, <1>4 DEF Full, Numbered
<1>6. r \in AnyRec /\ r.id = n /\ r.ev = seen
  <2>1. FileId(msg[t].id) = n
    BY <1>3, <1>4 DEF Full, FileId
  <2>2. n \in Nat
    BY <1>5, <1>3
  <2> QED
    BY <1>2, <1>3, <2>1, <2>2 DEF AnyRec
<1>7. file' = Put(file, pos, r)
  BY DEF AddMsg
<1> HIDE DEF n, r
<1>8. /\ file' \in Seq(AnyRec) /\ Len(file') = n /\ file'[n] = r
      /\ \A i \in 1 .. n - 1 : file'[i] = file[i]
  <2>1. CASE Len(file) = n
    <3>1. pos \in Nat /\ pos < Len(file) /\ pos + 1 = n
      BY <1>3, <1>5, <2>1
    <3> DEFINE g == Put(file, pos, r)
    <3>0. file \in Seq(AnyRec) /\ pos \in Nat /\ pos < Len(file) /\ r \in AnyRec
      BY <1>3, <1>6, <3>1
    <3>2. /\ g \in Seq(AnyRec) /\ Len(g) = Len(file) /\ g[pos + 1] = r
          /\ \A i \in 1 .. Len(file) : i # pos + 1 => g[i] = file[i]
      BY ONLY <3>0, PutInside
    <3> HIDE DEF g
    <3>3. file' = g
      BY <1>7 DEF g
    <3> QED
      BY <1>3, <1>5, <2>1, <3>1, <3>2, <3>3
  <2>2. CASE Len(file) = n - 1
    <3>1. file' = Append(file, r)
      BY <1>3, <1>5, <1>6, <1>7, <2>2, PutEnd
    <3> QED
      BY <1>3, <1>5, <1>6, <2>2, <3>1
  <2> QED
    BY <1>5, <2>1, <2>2
<1> QED
  BY <1>3, <1>4, <1>5, <1>6, <1>8 DEF MsgWritten, n, r

-----------------------------------------------------------------------------
(* Every step preserves the invariant                                      *)

\* A thread whose event is in the list is idle again.
LEMMA RecordedOne ==
  ASSUME Typing, NEW t \in Threads, Recorded({t})
  PROVE  /\ pc' = [pc EXCEPT ![t] = "idle"]
         /\ msg' = [msg EXCEPT ![t] = Zero] /\ sh' = [sh EXCEPT ![t] = NoShift]
<1>1. pc' = [pc EXCEPT ![t] = "idle"]
  BY DEF Recorded, Typing
<1>2. msg' = [msg EXCEPT ![t] = Zero]
  BY DEF Recorded, Typing
<1>3. sh' = [sh EXCEPT ![t] = NoShift]
  BY DEF Recorded, Typing
<1> QED
  BY <1>1, <1>2, <1>3

\* Two threads are not in the driver together if one event is recorded at a time.
LEMMA NoOverlap ==
  ASSUME SelInv, NEW t \in Threads, NEW u \in Threads, AddsOverlap(t, u)
  PROVE  FALSE
BY DEF SelInv, Serial, AddsOverlap, At

LEMMA InvInit == Init => SelInv
BY SelAssumption
   DEF Init, SelInv, Typing, Serial, Reading, Clearing, Ordered, Busy, Quiet,
       AnyRec, Zero, NoShift, Pcs, None

\* Start-up: every record read is in its place.
LEMMA StartUpStep ==
  ASSUME OneAtATime, SelInv, StartUp
  PROVE  SelInv'
<1> USE SelAssumption DEF SelInv
<1>0. /\ pc[Main] \in {"init", "read", "setid"}
      /\ handler.on = None /\ handler.at = None
      /\ \A t \in Threads : t # Main => pc[t] = "idle"
      /\ UNCHANGED <<msg, sh, handler, seen>>
      /\ \E p \in {"read", "setid", "idle"} : pc' = [pc EXCEPT ![Main] = p]
  BY DEF StartUp, InitSel, ReadRecord, ReadZero, ReadEnd, SetId, At, Goto, Free,
         Typing, Serial
<1>1. /\ pc' \in [Threads -> Pcs] /\ Serial' /\ Clearing'
      /\ \A t \in Threads : Busy(t)'
  BY <1>0, SMTT(30) DEF Typing, Serial, Clearing, Busy, Pcs, None
<1>2. CASE InitSel
  <2>1. /\ UNCHANGED file /\ pos' = 0 /\ rd' = [off |-> 0, id |-> 0]
        /\ record_id' = 1 /\ pc' = [pc EXCEPT ![Main] = "read"]
    BY <1>2 DEF InitSel, Goto
  <2>2. Typing'
    BY <1>0, <1>1, <2>1 DEF Typing
  <2>3. Reading' /\ ~Quiet'
    BY <2>1 DEF Typing, Reading, Quiet, Numbered
  <2> QED
    BY <1>0, <1>1, <2>1, <2>2, <2>3 DEF Ordered, Place
<1>3. CASE ReadRecord
  <2>1. pos + 1 \in 1 .. Len(file) /\ file[pos + 1].id = pos + 1
    BY <1>3, SMTT(30) DEF ReadRecord, At, Typing, Place, Zero
  <2>2. /\ UNCHANGED <<file, pc, record_id>>
        /\ pos' = pos + 1 /\ rd' = [off |-> pos + 1, id |-> pos + 1]
        /\ pc[Main] = "read" /\ Numbered(pos)
    BY <1>3, <2>1 DEF ReadRecord, At, Reading
  <2>3. Typing' /\ Reading'
    BY <1>0, <2>1, <2>2, SMTT(30) DEF Typing, Reading, Numbered
  <2> QED
    BY <1>0, <1>1, <2>2, <2>3 DEF Quiet, Ordered, Place
<1>4. CASE ReadZero
  <2>1. /\ file' = SubSeq(file, 1, pos) /\ pos' = pos /\ pos \in 0 .. Len(file)
        /\ UNCHANGED <<rd, record_id>> /\ rd.id = pos /\ Numbered(pos)
        /\ pc' = [pc EXCEPT ![Main] = "setid"]
    BY <1>4 DEF ReadZero, At, Goto, Reading, Typing
  <2>2. /\ file' \in Seq(AnyRec) /\ Len(file') = pos
        /\ \A i \in 1 .. pos : file'[i] = file[i]
    <3>1. pos \in Int /\ \A i \in 1 .. pos : file[i] \in AnyRec
      BY <1>0, <2>1, FileRecords
    <3>2. /\ SubSeq(file, 1, pos) \in Seq(AnyRec)
          /\ Len(SubSeq(file, 1, pos)) = IF 1 <= pos THEN pos - 1 + 1 ELSE 0
          /\ \A i \in 1 .. pos - 1 + 1 : SubSeq(file, 1, pos)[i] = file[1 + i - 1]
      BY ONLY <3>1, SubSeqProperties
    <3>3. pos - 1 + 1 = pos /\ pos >= 0 /\ \A i \in 1 .. pos : 1 + i - 1 = i
      BY <2>1, FileRecords
    <3> QED
      BY <2>1, <3>2, <3>3
  <2>3. Typing'
    BY <1>0, <1>1, <2>1, <2>2 DEF Typing
  <2>4. Reading' /\ ~Quiet'
    BY <2>1, <2>2 DEF Reading, Numbered, Quiet, Typing
  <2>5. \A i \in 1 .. Len(file') : Place(file, i)'
    BY <2>1, <2>2 DEF Place, Numbered, Typing
  <2>6. Ordered'
    <3>1. Len(file) \in Nat /\ 1 .. pos \subseteq 1 .. Len(file)
      BY <2>1, FileRecords
    <3> QED
      BY <1>0, <2>1, <2>2, <3>1 DEF Ordered
  <2> QED
    BY <1>1, <2>1, <2>2, <2>3, <2>4, <2>5, <2>6
<1>5. CASE ReadEnd
  <2>1. /\ UNCHANGED <<file, pos, rd, record_id>> /\ pos = Len(file)
        /\ pc' = [pc EXCEPT ![Main] = "setid"] /\ Numbered(pos) /\ rd.id = pos
    BY <1>5 DEF ReadEnd, At, Goto, Reading, Typing
  <2> QED
    BY <1>0, <1>1, <2>1 DEF Typing, Reading, Quiet, Ordered, Place, Numbered
<1>6. CASE SetId
  <2>0. /\ UNCHANGED <<file, pos, rd>> /\ record_id' = Inc(pos)
        /\ Numbered(Len(file)) /\ pos = Len(file)
        /\ pc' = [pc EXCEPT ![Main] = "idle"]
    BY <1>6 DEF SetId, At, Goto, Reading, Typing
  <2>1. /\ UNCHANGED <<file, pos, rd>> /\ record_id' = pos + 1
        /\ Numbered(Len(file)) /\ pos = Len(file)
        /\ pc' = [pc EXCEPT ![Main] = "idle"]
    BY <2>0, FileRecords, IncSmall
  <2>2. Typing' /\ Settled' /\ pc'[Main] = "idle"
    BY <1>0, <1>1, <2>1 DEF Typing, Settled, Numbered
  <2>3. Reading'
    BY <2>2 DEF Reading
  <2> QED
    BY <1>0, <1>1, <2>1, <2>2, <2>3 DEF Ordered, Place
<1> QED
  BY <1>2, <1>3, <1>4, <1>5, <1>6 DEF StartUp

\* The steps before the file is written leave the file as it is.
LEMMA PrepareStep ==
  ASSUME OneAtATime, SelInv, NEW t \in Threads,
         \/ Begin(t) \/ CheckUp(t) \/ CheckDown(t) \/ Wake(t)
         \/ GenEvent(t) \/ Lock(t) \/ IncUnlock(t)
  PROVE  SelInv'
<1> USE SelAssumption
<1>1. /\ Typing /\ Serial /\ Ordered /\ Busy(t)
      /\ Len(file) <= MaxNum
      /\ \A i \in 1 .. Len(file) : Place(file, i)
      /\ Quiet => Settled
  BY DEF SelInv
<1>2. /\ UNCHANGED <<file, pos, sh, rd, handler>>
      /\ handler.on = None /\ handler.at = None
      /\ \A u \in Threads : u # t => pc[u] = "idle"
      /\ Settled
  BY <1>1 DEF Begin, CheckUp, CheckDown, Wake, GenEvent, Lock, IncUnlock, At,
              Free, Busy, Serial, Typing, MayBegin, OneAtATime, Quiet
<1>3. \E p \in {"check", "sleep", "gen", "lock", "inc", "append", "rewind"} :
        pc' = [pc EXCEPT ![t] = p]
  BY DEF Begin, CheckUp, CheckDown, Wake, GenEvent, Lock, IncUnlock, Goto
<1>4. msg[t] \in AnyRec /\ msg[t].ev \in Nat /\ msg \in [Threads -> AnyRec]
      /\ seen \in Nat /\ record_id \in Nat /\ Len(file) \in Nat
  BY <1>1, FileRecords DEF Typing, AnyRec
<1> DEFINE Good == /\ msg' \in [Threads -> AnyRec] /\ seen' \in Nat
                   /\ record_id' \in Nat /\ Ordered' /\ Busy(t)'
<1>5. ASSUME Begin(t) PROVE Good
  <2>1. /\ seen' = seen + 1 /\ record_id' = record_id
        /\ msg' = [msg EXCEPT ![t] = [id |-> 0, ev |-> seen + 1]]
        /\ pc' = [pc EXCEPT ![t] = "check"]
    BY <1>5 DEF Begin, Goto
  <2>2. [id |-> 0, ev |-> seen + 1] \in AnyRec
    BY <1>4 DEF AnyRec
  <2>3. msg' \in [Threads -> AnyRec] /\ seen' \in Nat /\ record_id' \in Nat
    BY <1>4, <2>1, <2>2
  <2>4. Busy(t)'
    BY <1>1, <1>2, <1>4, <2>1 DEF Busy, Settled, Numbered, Typing
  <2>5. Ordered'
    <3>1. /\ \A i \in 1 .. Len(file) : file[i].ev \in Nat /\ file[i].ev <= seen
          /\ seen' = seen + 1
      BY <1>1, <2>1, FileRecords DEF Ordered
    <3>2. \A i \in 1 .. Len(file) : file[i].ev <= seen'
      BY <1>4, <3>1
    <3> QED
      BY <1>1, <1>2, <3>2 DEF Ordered
  <2> QED
    BY <2>3, <2>4, <2>5
<1>6. ASSUME CheckUp(t) \/ CheckDown(t) \/ Wake(t) PROVE Good
  <2>1. /\ UNCHANGED <<seen, record_id, msg>>
        /\ pc' = [pc EXCEPT ![t] = "gen"] \/ pc' = [pc EXCEPT ![t] = "sleep"]
        /\ pc[t] \in {"check", "sleep"}
    BY <1>6 DEF CheckUp, CheckDown, Wake, Goto, At
  <2>2. Busy(t)'
    BY <1>1, <1>2, <2>1 DEF Busy, Settled, Numbered, Typing, Pcs
  <2> QED
    BY <1>1, <1>2, <1>4, <2>1, <2>2 DEF Ordered
<1>7. ASSUME GenEvent(t) \/ Lock(t) PROVE Good
  <2>1. /\ UNCHANGED <<seen, record_id>>
        /\ \/ /\ pc' = [pc EXCEPT ![t] = "lock"] /\ pc[t] = "gen"
              /\ msg' = [msg EXCEPT ![t].id = record_id]
           \/ /\ pc' = [pc EXCEPT ![t] = "inc"] /\ pc[t] = "lock"
              /\ UNCHANGED msg
    BY <1>7 DEF GenEvent, Lock, Goto, At
  <2>2. msg' \in [Threads -> AnyRec] /\ msg'[t].ev = msg[t].ev
    <3>1. /\ [msg[t] EXCEPT !.id = record_id] \in AnyRec
          /\ [msg[t] EXCEPT !.id = record_id].ev = msg[t].ev
      BY <1>4 DEF AnyRec
    <3>2. \/ UNCHANGED msg
          \/ msg' = [msg EXCEPT ![t] = [msg[t] EXCEPT !.id = record_id]]
      BY <2>1
    <3> QED
      BY <1>4, <3>1, <3>2
  <2>3. msg'[t].id = record_id
    BY <1>1, <1>4, <2>1 DEF Busy, AnyRec
  <2>4. Busy(t)'
    BY <1>1, <1>2, <2>1, <2>2, <2>3, SMTT(30) DEF Busy, Settled, Numbered, Typing, Pcs
  <2> QED
    BY <1>1, <1>2, <1>4, <2>1, <2>2, <2>4 DEF Ordered
<1>8. ASSUME IncUnlock(t) PROVE Good
  <2>1. /\ msg[t].id = Len(file) + 1 /\ record_id = Len(file) + 1
        /\ msg[t].ev = seen /\ Numbered(Len(file)) /\ pos = Len(file)
        /\ UNCHANGED <<msg, seen>>
    BY <1>1, <1>2, <1>8 DEF IncUnlock, At, Busy, Settled, Pcs
  <2>2. /\ pc' = [pc EXCEPT ![t] = IF msg[t].id <= MaxNum THEN "append" ELSE "rewind"]
        /\ record_id' = IF record_id + 1 > MaxNum THEN MaxNum + 1 ELSE record_id + 1
    <3>1. record_id <= MaxNum + 1
      BY <1>1, <1>4, <2>1
    <3>2. NextId(record_id) = IF record_id + 1 > MaxNum THEN MaxNum + 1 ELSE record_id + 1
      BY <1>4, <3>1, IncSmall
    <3> QED
      BY <1>8, <3>2 DEF IncUnlock, Goto
  <2>3. record_id' \in Nat
    BY <1>4, <2>2
  <2>4. Busy(t)'
    <3>1. CASE Len(file) = MaxNum
      BY <1>1, <1>2, <1>4, <2>1, <2>2, <3>1 DEF Busy, Full, Numbered, Typing
    <3>2. CASE Len(file) < MaxNum
      BY <1>1, <1>2, <1>4, <2>1, <2>2, <3>2 DEF Busy, Full, Numbered, Typing
    <3> QED
      BY <1>1, <1>4, <3>1, <3>2
  <2> QED
    BY <1>1, <1>2, <1>4, <2>1, <2>3, <2>4 DEF Ordered
<1>9. Good
  BY <1>5, <1>6, <1>7, <1>8
<1>10. Typing'
  BY <1>1, <1>2, <1>3, <1>9, ZenonT(40) DEF Typing, Pcs
<1>11. Serial' /\ ~Quiet'
  BY <1>1, <1>2, <1>3, SMTT(30) DEF Typing, Serial, Quiet
<1>12. Clearing' /\ Reading'
  BY <1>1, <1>2, <1>3 DEF Typing, Clearing, Reading, None
<1>13. \A u \in Threads : u # t => Busy(u)'
  BY <1>1, <1>2, <1>3, SMTT(30) DEF Busy, Typing, Pcs
<1> QED
  BY <1>1, <1>2, <1>9, <1>10, <1>11, <1>12, <1>13 DEF SelInv, Place

\* A step of the shift leaves every id at its place and the events in order.
LEMMA ShiftStep ==
  ASSUME OneAtATime, SelInv, NEW t \in Threads,
         Rewind(t) \/ ShiftRead(t) \/ ShiftEof(t) \/ ShiftWrite(t)
  PROVE  SelInv'
<1> USE SelAssumption
<1>1. /\ Typing /\ Serial /\ Ordered /\ Busy(t)
      /\ Len(file) <= MaxNum
      /\ \A i \in 1 .. Len(file) : Place(file, i)
  BY DEF SelInv
<1>2. /\ UNCHANGED <<record_id, msg, seen, rd, handler>>
      /\ handler.on = None /\ handler.at = None
      /\ \A u \in Threads : u # t => pc[u] = "idle"
      /\ Full(t) /\ msg[t].ev = seen
  BY <1>1 DEF Rewind, ShiftRead, ShiftEof, ShiftWrite, At, Free, Busy, Serial,
              Typing, Pcs
<1>3. \E p \in {"shiftread", "shiftwrite", "append"} : pc' = [pc EXCEPT ![t] = p]
  BY DEF Rewind, ShiftRead, ShiftEof, ShiftWrite, Goto
<1>4. /\ Len(file) = MaxNum /\ MaxNum \in Nat /\ MaxNum >= 2
      /\ \A i \in 1 .. MaxNum : /\ file[i] \in AnyRec /\ file[i].id = i
                                /\ file[i].ev \in Nat
      /\ sh[t].last \in Nat /\ sh[t].cnt \in Nat /\ sh[t].cur \in Nat
      /\ sh \in [Threads -> [last : Nat, cur : Nat, cnt : Nat, rec : AnyRec]]
  BY <1>1, <1>2, FullRecords
<1> DEFINE Good == /\ file' \in Seq(AnyRec) /\ pos' \in Nat /\ Len(file') = MaxNum
                   /\ sh' \in [Threads -> [last : Nat, cur : Nat, cnt : Nat, rec : AnyRec]]
                   /\ \A i \in 1 .. MaxNum : file'[i].id = i
                   /\ Ordered' /\ Busy(t)'
<1>5. ASSUME Rewind(t) PROVE Good
  <2>1. /\ UNCHANGED file /\ pos' = 1
        /\ sh' = [sh EXCEPT ![t] = [last |-> 0, cur |-> 1, cnt |-> 0, rec |-> Zero]]
        /\ pc' = [pc EXCEPT ![t] = "shiftread"]
    <3>1. file # <<>>
      BY <1>4
    <3>2. pos' = 1
      BY <1>5, <3>1 DEF Rewind
    <3>3. [NoShift EXCEPT !.cur = 1] = [last |-> 0, cur |-> 1, cnt |-> 0, rec |-> Zero]
      BY DEF NoShift
    <3> QED
      BY <1>5, <3>2, <3>3 DEF Rewind, Goto
  <2>2. [last |-> 0, cur |-> 1, cnt |-> 0, rec |-> Zero]
          \in [last : Nat, cur : Nat, cnt : Nat, rec : AnyRec]
    BY DEF Zero, AnyRec
  <2>3. Busy(t)'
    BY <1>1, <1>2, <1>4, <2>1 DEF Busy, Full, Numbered, Typing
  <2> QED
    BY <1>1, <1>2, <1>4, <2>1, <2>2, <2>3 DEF Typing, Ordered
<1>6. ASSUME ShiftRead(t) PROVE Good
  <2>1. /\ UNCHANGED file /\ pos' = sh[t].cur + 1
        /\ sh' = [sh EXCEPT ![t] = [sh[t] EXCEPT !.rec = file[sh[t].cur + 1],
                                               !.cur = sh[t].cur + 1]]
        /\ pc' = [pc EXCEPT ![t] = "shiftwrite"] /\ pc[t] = "shiftread"
    BY <1>4, <1>6 DEF ShiftRead, Goto, At
  <2>2. /\ sh[t].cur \in 1 .. MaxNum - 1
        /\ sh[t].last = sh[t].cur - 1 /\ sh[t].cnt = sh[t].last
    BY <1>1, <2>1 DEF Busy
  <2> DEFINE s == [sh[t] EXCEPT !.rec = file[sh[t].cur + 1], !.cur = sh[t].cur + 1]
  <2>3. /\ s \in [last : Nat, cur : Nat, cnt : Nat, rec : AnyRec]
        /\ s.last = sh[t].last /\ s.cnt = sh[t].cnt /\ s.cur = sh[t].cur + 1
        /\ s.rec = file[sh[t].cur + 1]
    <3>1. sh[t] \in [last : Nat, cur : Nat, cnt : Nat, rec : AnyRec]
      BY <1>4
    <3>2. file[sh[t].cur + 1] \in AnyRec /\ sh[t].cur + 1 \in Nat
      BY <1>4, <2>2
    <3> QED
      BY <3>1, <3>2
  <2>4. sh' = [sh EXCEPT ![t] = s]
    BY <2>1
  <2> HIDE DEF s
  <2>5. sh'[t] = s /\ pc'[t] = "shiftwrite"
    BY <1>1, <1>4, <2>1, <2>4 DEF Typing
  <2>6. Busy(t)'
    BY <1>2, <1>4, <2>1, <2>2, <2>3, <2>5 DEF Busy, Full, Numbered
  <2> QED
    BY <1>1, <1>2, <1>4, <2>1, <2>2, <2>3, <2>4, <2>6, SMTT(30) DEF Typing, Ordered
<1>7. ASSUME ShiftEof(t) PROVE Good
  BY <1>1, <1>4, <1>7 DEF ShiftEof, At, Busy
<1>8. ASSUME ShiftWrite(t) PROVE Good
  <2> DEFINE c == sh[t].cur
             r == [file[c] EXCEPT !.id = c - 1]
             s == [sh[t] EXCEPT !.last = c - 1, !.cnt = c - 1]
  <2>1. ShiftWritten(t)
    BY <1>8, ShiftWriteIs
  <2>2. /\ c \in 2 .. MaxNum /\ r \in AnyRec /\ r.id = c - 1 /\ r.ev = file[c].ev
        /\ s \in [last : Nat, cur : Nat, cnt : Nat, rec : AnyRec]
        /\ s.last = c - 1 /\ s.cnt = c - 1 /\ s.cur = c
    <3>1. c \in 2 .. MaxNum /\ c - 1 \in Nat /\ r \in AnyRec /\ r.id = c - 1
      BY <1>4, <2>1 DEF ShiftWritten
    <3>2. file[c] \in AnyRec /\ r.ev = file[c].ev
      <4>1. c \in 1 .. MaxNum
        BY <1>4, <3>1
      <4>2. file[c] \in AnyRec
        BY <1>4, <4>1
      <4> QED
        BY <4>2 DEF AnyRec
    <3>3. sh[t] \in [last : Nat, cur : Nat, cnt : Nat, rec : AnyRec]
      BY <1>4
    <3> QED
      BY <3>1, <3>2, <3>3
  <2>3. /\ pos' = c - 1 /\ sh' = [sh EXCEPT ![t] = s]
        /\ pc' = [pc EXCEPT ![t] = IF c = MaxNum THEN "append" ELSE "shiftread"]
    BY <2>1 DEF ShiftWritten
  <2>4. /\ file' \in Seq(AnyRec) /\ Len(file') = MaxNum /\ file'[c - 1] = r
        /\ \A i \in 1 .. MaxNum : i # c - 1 => file'[i] = file[i]
    BY <2>1 DEF ShiftWritten
  <2> HIDE DEF c, r, s
  <2>5. \A i \in 1 .. MaxNum : file'[i].id = i
    BY <1>4, <2>2, <2>4
  <2>6. Ordered'
    <3>1. \A i, j \in 1 .. MaxNum : i <= j => file[i].ev <= file[j].ev
      BY <1>1, <1>4 DEF Ordered, Zero
    <3>2. /\ c - 1 \in 1 .. MaxNum /\ c \in 1 .. MaxNum /\ file'[c - 1].ev = file[c].ev
          /\ \A i \in 1 .. MaxNum : i # c - 1 => file'[i].ev = file[i].ev
      <4>1. c - 1 \in 1 .. MaxNum /\ c \in 1 .. MaxNum
        BY <1>4, <2>2
      <4>2. file'[c - 1].ev = file[c].ev
        BY <2>2, <2>4
      <4> QED
        BY <2>4, <4>1, <4>2
    <3>3. \A i \in 1 .. MaxNum : file[i].ev <= seen
      BY <1>1, <1>4 DEF Ordered
    <3>4. \A i, j \in 1 .. MaxNum : i < j => file'[i].ev <= file'[j].ev
      <4> SUFFICES ASSUME NEW i \in 1 .. MaxNum, NEW j \in 1 .. MaxNum, i < j
                   PROVE  file'[i].ev <= file'[j].ev
        OBVIOUS
      <4>1. CASE i = c - 1
        BY <1>4, <2>2, <3>1, <3>2, <4>1
      <4>2. CASE j = c - 1
        BY <1>4, <2>2, <3>1, <3>2, <4>2
      <4>3. CASE i # c - 1 /\ j # c - 1
        BY <1>4, <3>1, <3>2, <4>3
      <4> QED
        BY <4>1, <4>2, <4>3
    <3>5. \A i \in 1 .. MaxNum : file'[i].ev <= seen
      BY <3>2, <3>3
    <3> QED
      BY <1>2, <2>4, <3>4, <3>5 DEF Ordered
  <2>7. sh'[t] = s
    BY <1>4, <2>3
  <2>8. Busy(t)'
    <3>1. CASE c = MaxNum
      <4>1. pc'[t] = "append" /\ pos' = MaxNum - 1
        BY <1>1, <2>3, <3>1 DEF Typing
      <4> QED
        BY <1>2, <1>4, <2>4, <2>5, <4>1 DEF Busy, Full, Numbered
    <3>2. CASE c # MaxNum
      <4>1. pc'[t] = "shiftread"
        BY <1>1, <2>3, <3>2 DEF Typing
      <4>2. c \in 1 .. MaxNum - 1
        BY <1>4, <2>2, <3>2
      <4> QED
        BY <1>2, <1>4, <2>2, <2>4, <2>5, <2>7, <4>1, <4>2 DEF Busy, Full, Numbered
    <3> QED
      BY <3>1, <3>2
  <2>9. pos' \in Nat
    BY <1>4, <2>2, <2>3
  <2> QED
    BY <1>4, <2>2, <2>3, <2>4, <2>5, <2>6, <2>8, <2>9
<1>9. Good
  BY <1>5, <1>6, <1>7, <1>8
<1>10. Typing'
  BY <1>1, <1>2, <1>3, <1>9 DEF Typing, Pcs
<1>11. Serial' /\ ~Quiet'
  BY <1>1, <1>2, <1>3, SMTT(30) DEF Typing, Serial, Quiet
<1>12. Clearing' /\ Reading'
  BY <1>1, <1>2, <1>3 DEF Typing, Clearing, Reading, None
<1>13. \A u \in Threads : u # t => Busy(u)'
  BY <1>1, <1>2, <1>3, SMTT(30) DEF Busy, Typing, Pcs
<1>14. \A i \in 1 .. Len(file') : Place(file, i)'
  BY <1>4, <1>9 DEF Place
<1> QED
  BY <1>4, <1>9, <1>10, <1>11, <1>12, <1>13, <1>14 DEF SelInv

\* The new record takes the last place, of a full log or after its end.
LEMMA AddMsgStep ==
  ASSUME OneAtATime, SelInv, NEW t \in Threads, AddMsg(t)
  PROVE  SelInv'
<1> USE SelAssumption
<1>1. /\ Typing /\ Serial /\ Ordered /\ Busy(t)
      /\ Len(file) <= MaxNum
  BY DEF SelInv
<1>2. /\ UNCHANGED <<record_id, msg, seen, rd, sh, handler>>
      /\ handler.on = None /\ handler.at = None
      /\ \A u \in Threads : u # t => pc[u] = "idle"
      /\ msg[t].ev = seen
      /\ pc' = [pc EXCEPT ![t] = "add"] /\ pos' = pos + 1
  BY <1>1 DEF AddMsg, At, Goto, Free, Busy, Serial, Typing, Pcs
<1>3. /\ MaxNum \in Nat /\ MaxNum >= 2 /\ Len(file) \in Nat /\ seen \in Nat
      /\ file \in Seq(AnyRec) /\ msg[t] \in AnyRec
      /\ \A i \in 1 .. Len(file) : file[i].ev \in Nat /\ file[i].ev <= seen
  BY <1>1, FileRecords, SMTT(30) DEF Typing, Ordered
<1> DEFINE r == [msg[t] EXCEPT !.id = FileId(@)]
           n == pos + 1
<1>4. MsgWritten(t)
  BY AddMsgIs
<1>5. /\ n \in 1 .. MaxNum /\ pos = n - 1 /\ record_id = n + 1
      /\ Len(file) \in {n - 1, n} /\ \A i \in 1 .. n - 1 : file[i].id = i
  <2>1. pos \in Nat
    BY <1>1 DEF Typing
  <2> QED
    BY <1>3, <1>4, <2>1 DEF MsgWritten, Full, Numbered
<1>6. r \in AnyRec /\ r.id = n /\ r.ev = seen
  BY <1>4 DEF MsgWritten
<1>8. /\ file' \in Seq(AnyRec) /\ Len(file') = n /\ file'[n] = r
      /\ \A i \in 1 .. n - 1 : file'[i] = file[i]
  BY <1>4 DEF MsgWritten
<1> HIDE DEF n, r
<1>9. \A i \in 1 .. n : file'[i].id = i
  BY <1>5, <1>6, <1>8
<1>10. Ordered'
  <2>1. \A i \in 1 .. n - 1 : i \in 1 .. Len(file)
    BY <1>3, <1>5
  <2>2. \A i \in 1 .. n : file'[i].ev \in Nat /\ file'[i].ev <= seen
    BY <1>3, <1>5, <1>6, <1>8, <2>1
  <2>3. ASSUME NEW i \in 1 .. n, NEW j \in 1 .. n, i < j
        PROVE  file'[i].ev <= file'[j].ev
    <3>1. CASE j = n
      BY <1>6, <1>8, <2>2, <3>1
    <3>2. CASE j # n
      <4>1. i \in 1 .. n - 1 /\ j \in 1 .. n - 1 /\ file[j].id = j /\ j # 0
        BY <1>5, <2>3, <3>2
      <4>2. file[j] # Zero
        BY <4>1 DEF Zero
      <4>3. file[i].ev <= file[j].ev
        BY <1>1, <2>1, <2>3, <4>1, <4>2 DEF Ordered
      <4> QED
        BY <1>8, <4>1, <4>3
    <3> QED
      BY <3>1, <3>2
  <2> QED
    BY <1>2, <1>8, <2>2, <2>3 DEF Ordered
<1>11. Settled' /\ pos' = n
  BY <1>2, <1>5, <1>8, <1>9 DEF Settled, Numbered, n
<1>12. pos' \in Nat
  BY <1>5, <1>11
<1>13. Typing' /\ Serial' /\ ~Quiet'
  BY <1>1, <1>2, <1>8, <1>12, SMTT(30) DEF Typing, Serial, Quiet, Pcs
<1>14. Clearing' /\ Reading'
  BY <1>1, <1>2 DEF Typing, Clearing, Reading, None
<1>15. \A u \in Threads : Busy(u)'
  BY <1>1, <1>2, <1>11, SMTT(30) DEF Busy, Typing, Pcs
<1> QED
  BY <1>5, <1>8, <1>9, <1>10, <1>13, <1>14, <1>15 DEF SelInv, Place

\* The driver's list is not part of the invariant.
LEMMA AddNodeStep ==
  ASSUME OneAtATime, SelInv, NEW t \in Threads, AddNode(t)
  PROVE  SelInv'
<1> USE SelAssumption
<1>1. Typing /\ Serial /\ Busy(t)
  BY DEF SelInv
<1>2. /\ UNCHANGED <<file, pos, record_id, seen, rd, handler>>
      /\ handler.on = None /\ handler.at = None
      /\ \A u \in Threads : u # t => pc[u] = "idle"
      /\ pc' = [pc EXCEPT ![t] = "idle"] /\ Settled
      /\ msg' = [msg EXCEPT ![t] = Zero] /\ sh' = [sh EXCEPT ![t] = NoShift]
  BY <1>1, RecordedOne DEF AddNode, Recorded, At, Free, Busy, Serial
<1>3. Zero \in AnyRec /\ NoShift \in [last : Nat, cur : Nat, cnt : Nat, rec : AnyRec]
  BY DEF Zero, NoShift, AnyRec
<1>4. Typing' /\ Serial' /\ Settled'
  BY <1>1, <1>2, <1>3 DEF Typing, Serial, Settled, Numbered, Pcs
<1>5. Clearing' /\ Reading' /\ \A u \in Threads : pc'[u] = "idle"
  BY <1>1, <1>2 DEF Typing, Clearing, Reading, None
<1>6. \A u \in Threads : Busy(u)'
  BY <1>5 DEF Busy, Pcs
<1> QED
  BY <1>2, <1>4, <1>5, <1>6 DEF SelInv, Ordered, Place

\* The handler clears the file and sets the next id to its first place.
LEMMA ClearStep ==
  ASSUME OneAtATime, SelInv,
         \/ \E t \in Threads : Signal(t)
         \/ ClearFile \/ ClearList \/ ClearId
  PROVE  SelInv'
<1> USE SelAssumption
<1>1. Typing /\ Serial /\ Clearing /\ (Quiet => Settled)
  BY DEF SelInv
<1>2. /\ UNCHANGED <<seen, rd, pc, msg, sh>>
      /\ \A t \in Threads : pc[t] = "idle"
  BY <1>1 DEF Signal, ClearFile, ClearList, ClearId, MayClear, OneAtATime, Quiet,
              Serial, None
<1>3. Reading' /\ \A t \in Threads : Busy(t)'
  BY <1>2 DEF Reading, Busy, Pcs
<1>4. CASE \E t \in Threads : Signal(t)
  <2>1. /\ UNCHANGED <<file, pos, record_id>> /\ handler'.on # None
        /\ handler' \in [on : Threads \cup {None}, at : {None, "file", "list", "id"}]
        /\ handler'.at = "file" /\ Settled
    BY <1>1, <1>4 DEF Signal, MayClear, OneAtATime, None
  <2>2. Typing' /\ Serial' /\ Clearing' /\ ~Quiet'
    BY <1>1, <1>2, <2>1 DEF Typing, Serial, Clearing, Quiet, Settled, Numbered, None
  <2> QED
    BY <1>2, <1>3, <2>1, <2>2 DEF SelInv, Ordered, Place
<1>5. CASE ClearFile
  <2>1. /\ file' = <<>> /\ pos' = 0 /\ UNCHANGED record_id
        /\ handler' = [handler EXCEPT !.at = "list"] /\ handler.on # None
    BY <1>1, <1>5 DEF ClearFile, Serial, None
  <2>2. /\ handler'.on = handler.on /\ handler'.at = "list"
        /\ handler' \in [on : Threads \cup {None}, at : {None, "file", "list", "id"}]
        /\ file' \in Seq(AnyRec) /\ Len(file') = 0
    <3>1. handler \in [on : Threads \cup {None}, at : {None, "file", "list", "id"}]
      BY <1>1 DEF Typing
    <3>2. <<>> \in Seq(AnyRec) /\ Len(<<>>) = 0
      BY EmptySeq
    <3>3. file' = <<>>
      BY <2>1
    <3> QED
      BY <2>1, <3>1, <3>2, <3>3
  <2>3. Typing' /\ Serial'
    BY <1>1, <1>2, <2>1, <2>2 DEF Typing, Serial
  <2>4. Clearing' /\ ~Quiet'
    BY <2>1, <2>2 DEF Clearing, Quiet
  <2> QED
    BY <1>2, <1>3, <2>2, <2>3, <2>4 DEF SelInv, Ordered
<1>6. CASE ClearList
  <2>1. /\ UNCHANGED <<file, pos, record_id>> /\ file = <<>> /\ pos = 0
        /\ handler' = [handler EXCEPT !.at = "id"] /\ handler.on # None
    BY <1>1, <1>6 DEF ClearList, Serial, Clearing, None
  <2>2. Typing' /\ Serial' /\ Clearing' /\ ~Quiet'
    BY <1>1, <1>2, <2>1 DEF Typing, Serial, Clearing, Quiet
  <2> QED
    BY <1>2, <1>3, <2>1, <2>2 DEF SelInv, Ordered
<1>7. CASE ClearId
  <2>1. /\ UNCHANGED <<file, pos>> /\ file = <<>> /\ pos = 0 /\ record_id' = 1
        /\ handler' = [on |-> None, at |-> None]
    BY <1>1, <1>7 DEF ClearId, Clearing
  <2>2. Typing' /\ Serial' /\ Clearing' /\ Settled'
    BY <1>1, <1>2, <2>1 DEF Typing, Serial, Clearing, Settled, Numbered, None
  <2> QED
    BY <1>2, <1>3, <2>1, <2>2 DEF SelInv, Ordered
<1> QED
  BY <1>4, <1>5, <1>6, <1>7

\* A power cut leaves the file as it was, or its last record as zeros.
LEMMA PowerCutStep ==
  ASSUME SelInv, PowerCut
  PROVE  SelInv'
<1> USE SelAssumption
<1>1. /\ Typing /\ Ordered /\ Len(file) <= MaxNum
      /\ \A i \in 1 .. Len(file) : Place(file, i)
  BY DEF SelInv
<1>2. /\ pos' = 0 /\ record_id' = 0 /\ seen' = seen
      /\ pc' = [t \in Threads |-> IF t = Main THEN "init" ELSE "idle"]
      /\ msg' = [t \in Threads |-> Zero] /\ sh' = [t \in Threads |-> NoShift]
      /\ rd' = [off |-> 0, id |-> 0] /\ handler' = [on |-> None, at |-> None]
  BY DEF PowerCut
<1>3. Zero \in AnyRec /\ NoShift \in [last : Nat, cur : Nat, cnt : Nat, rec : AnyRec]
      /\ Zero.ev = 0
  BY DEF Zero, NoShift, AnyRec
<1>4. \/ UNCHANGED file
      \/ /\ file # <<>> /\ file' = [file EXCEPT ![Len(file)] = Zero]
  BY DEF PowerCut
<1>5. /\ file' \in Seq(AnyRec) /\ Len(file') = Len(file)
      /\ \A i \in 1 .. Len(file) : \/ file'[i] = file[i]
                                   \/ i = Len(file) /\ file'[i] = Zero
  <2>1. CASE UNCHANGED file
    BY <1>1, <2>1 DEF Typing
  <2>2. CASE file # <<>> /\ file' = [file EXCEPT ![Len(file)] = Zero]
    <3>1. file \in Seq(AnyRec) /\ Len(file) \in 1 .. Len(file)
      BY <1>1, <2>2 DEF Typing
    <3> QED
      BY <1>3, <2>2, <3>1, ExceptSeq
  <2> QED
    BY <1>4, <2>1, <2>2
<1>6. \A i \in 1 .. Len(file') : Place(file, i)'
  BY <1>1, <1>5 DEF Place
<1>7. Ordered'
  <2>1. /\ Len(file) \in Nat /\ seen \in Nat
        /\ \A i \in 1 .. Len(file) : file[i].ev \in Nat /\ file[i].ev <= seen
    BY <1>1, FileRecords DEF Ordered, Typing
  <2>2. \A i \in 1 .. Len(file) : file'[i].ev <= seen
    BY <1>3, <1>5, <2>1
  <2>3. ASSUME NEW i \in 1 .. Len(file), NEW j \in 1 .. Len(file),
               i < j, file'[j] # Zero
        PROVE  file'[i].ev <= file'[j].ev
    <3>1. file'[i] = file[i] /\ file'[j] = file[j]
      BY <1>5, <2>1, <2>3
    <3> QED
      BY <1>1, <2>3, <3>1 DEF Ordered
  <2> QED
    BY <1>2, <1>5, <2>2, <2>3 DEF Ordered
<1>8. Typing' /\ Serial' /\ Clearing' /\ Reading' /\ ~Quiet'
  BY <1>1, <1>2, <1>3, <1>5
     DEF Typing, Serial, Clearing, Reading, Quiet, Pcs, None
<1>9. \A t \in Threads : Busy(t)'
  BY <1>2 DEF Busy, Pcs
<1> QED
  BY <1>1, <1>5, <1>6, <1>7, <1>8, <1>9 DEF SelInv

LEMMA InvStep ==
  ASSUME OneAtATime, SelInv, [Next]_vars
  PROVE  SelInv'
<1>1. CASE StartUp
  BY <1>1, StartUpStep
<1>2. CASE PollTimeout \/ PollEdge \/ HostChanges \/ UNCHANGED vars
  <2>1. UNCHANGED <<file, pos, record_id, pc, msg, sh, rd, handler, seen>>
    BY <1>2 DEF PollTimeout, PollEdge, HostChanges, vars
  <2> QED
    BY <2>1 DEF SelInv, Typing, Serial, Reading, Clearing, Ordered, Busy, Quiet,
                Settled, Full, Numbered, Place
<1>3. CASE Clear \/ \E t \in Threads : Signal(t)
  BY <1>3, ClearStep DEF Clear
<1>4. CASE \E t \in Threads : Begin(t) \/ Handle(t)
  BY <1>4, PrepareStep, ShiftStep, AddMsgStep, AddNodeStep DEF Handle
<1>5. CASE PowerCut
  BY <1>5, PowerCutStep
<1>6. CASE \E t, u \in Threads : AddsOverlap(t, u)
  BY <1>6, NoOverlap
<1> QED
  BY <1>1, <1>2, <1>3, <1>4, <1>5, <1>6 DEF Next

LEMMA AlwaysInv == ASSUME OneAtATime PROVE Spec => []SelInv
BY InvInit, InvStep, PTL DEF Spec

-----------------------------------------------------------------------------
(* What follows                                                            *)

\* The ids of the file are its places and its events are in order, at every
\* step of a shift and after a power cut between any two steps.
THEOREM FileStaysALog == ASSUME OneAtATime PROVE Spec => []FileIsLog
<1>1. SelInv => FileIsLog
  BY FileRecords DEF SelInv, FileIsLog, Ordered
<1> QED
  BY <1>1, AlwaysInv, PTL

\* The file never holds more than SEL_ENTRY_MAXNUM records.
THEOREM FileStaysBounded == ASSUME OneAtATime PROVE Spec => []FileBounded
<1>1. SelInv => FileBounded
  BY DEF SelInv, FileBounded
<1> QED
  BY <1>1, AlwaysInv, PTL

\* Between events record_id is the id of the next record of the file: also
\* when it has been read back after a power cut, and when the log is full.
THEOREM IdFollowsFile == ASSUME OneAtATime PROVE Spec => []NextIdFollows
<1>1. SelInv => NextIdFollows
  BY DEF SelInv, NextIdFollows, Settled
<1> QED
  BY <1>1, AlwaysInv, PTL

-----------------------------------------------------------------------------
(* The driver's list: a second layer of the invariant                      *)

\* The records of the list are numbered by their places.
Listed ==
  /\ list \in Seq(AnyRec) /\ Len(list) <= MaxNum
  /\ \A i \in 1 .. Len(list) : /\ list[i].id = i
                               /\ 1 <= list[i].ev /\ list[i].ev <= seen

\* What TypeOK says beyond Typing, and that only a cut leaves a record of
\* event 0.
Bounded ==
  /\ mutex \in Threads \cup {None} /\ state \in BOOLEAN /\ host \in Host
  /\ seen <= MaxEvents /\ record_id <= MaxNum + 1 /\ rd.id <= MaxNum
  /\ \A t \in Threads : msg[t].id <= MaxNum + 1 /\ sh[t].rec.id <= MaxNum
  /\ \A i \in 1 .. Len(file) : file[i] # Zero => 1 <= file[i].ev

\* The first n records of the file have moved one place down.
Shifted(n) ==
  /\ Len(list) = MaxNum /\ Len(file) = MaxNum
  /\ \A i \in 1 .. MaxNum :
       file[i] = IF i <= n THEN [id |-> i, ev |-> list[i + 1].ev] ELSE list[i]

\* How far the list is behind the file while a thread is busy.
Behind(t) ==
  /\ pc[t] = "init" => list = <<>>
  /\ pc[t] = "read" => Len(list) = pos /\ \A i \in 1 .. pos : list[i] = file[i]
  /\ pc[t] \in {"setid", "check", "sleep", "gen", "lock", "inc", "rewind"} =>
       list = file
  /\ pc[t] \in {"shiftread", "shiftwrite"} => Shifted(sh[t].cnt)
  /\ pc[t] = "append" => IF Len(file) = MaxNum THEN Shifted(MaxNum - 1)
                                               ELSE list = file
  /\ pc[t] = "add" => /\ file = AddSelNode(list, msg[t])
                      /\ msg[t].id = Len(list) + 1
  /\ pc[t] \in Pcs \ {"init", "read", "setid", "idle"} =>
       0 < seen /\ \A i \in 1 .. Len(list) : list[i].ev < seen

\* The driver's list is linked as it should be.
Linked == ring = "whole" /\ noisy \in BOOLEAN

ListInv ==
  /\ Listed /\ Bounded
  /\ \A t \in Threads : Behind(t)
  /\ handler.at = "file" => list = file
  /\ handler.at = "id" => list = <<>>
  /\ Quiet => list = file

-----------------------------------------------------------------------------
(* Adding a node                                                           *)

\* What is left of a list without its first node.
LEMMA KeepTail ==
  ASSUME NEW l \in Seq(AnyRec), NEW n \in Nat, Len(l) = n, n >= 1
  PROVE  /\ Keep(l, 2 .. n) \in Seq(AnyRec) /\ Len(Keep(l, 2 .. n)) = n - 1
         /\ \A i \in 1 .. n - 1 : Keep(l, 2 .. n)[i] = l[i + 1]
<1> DEFINE K == 2 .. n
           k == Keep(l, K)
<1>1. Cardinality(K) = n - 1
  BY FS_Interval
<1>2. \A i \in 1 .. n - 1 : Nth(K, i) = i + 1
  <2>1. \A i \in K : {j \in K : j <= i} = 2 .. i
    OBVIOUS
  <2>2. \A i \in K : Cardinality({j \in K : j <= i}) = i - 1
    <3> SUFFICES ASSUME NEW i \in K PROVE Cardinality({j \in K : j <= i}) = i - 1
      OBVIOUS
    <3>1. Cardinality(2 .. i) = i - 1
      BY FS_Interval
    <3> QED
      BY <2>1, <3>1
  <2> SUFFICES ASSUME NEW i \in 1 .. n - 1 PROVE Nth(K, i) = i + 1
    OBVIOUS
  <2> HIDE DEF K
  <2>3. i + 1 \in K /\ Cardinality({j \in K : j <= i + 1}) = i
    BY <2>2 DEF K
  <2>4. ASSUME NEW m \in K, Cardinality({j \in K : j <= m}) = i
        PROVE  m = i + 1
    <3>1. Cardinality({j \in K : j <= m}) = m - 1
      BY <2>2
    <3>2. m - 1 = i /\ m \in Nat
      BY <2>4, <3>1 DEF K
    <3> QED
      BY <3>2
  <2> QED
    BY <2>3, <2>4 DEF Nth
<1>3. k = [i \in 1 .. n - 1 |-> l[Nth(K, i)]]
  BY <1>1 DEF Keep
<1> HIDE DEF K, k
<1>4. \A i \in 1 .. n - 1 : l[Nth(K, i)] = l[i + 1] /\ l[i + 1] \in AnyRec
  BY <1>2, ElementOfSeq
<1>5. k = [i \in 1 .. n - 1 |-> l[i + 1]]
  BY <1>3, <1>4
<1>6. k \in Seq(AnyRec) /\ Len(k) = n - 1 /\ \A i \in 1 .. n - 1 : k[i] = l[i + 1]
  BY <1>4, <1>5
<1> QED
  BY <1>6 DEF k, K

\* The driver's answer to a record of the next place: while there is room it
\* goes to the end, else every node moves up and the first one leaves.
LEMMA AddSelNodeIs ==
  ASSUME NEW l \in Seq(AnyRec), Len(l) <= MaxNum,
         \A i \in 1 .. Len(l) : l[i].id = i,
         NEW r \in AnyRec, r.id = Len(l) + 1
  PROVE  /\ Len(l) < MaxNum => AddSelNode(l, r) = Append(l, r)
         /\ Len(l) = MaxNum =>
              /\ AddSelNode(l, r) \in Seq(AnyRec) /\ Len(AddSelNode(l, r)) = MaxNum
              /\ \A i \in 1 .. MaxNum - 1 :
                   AddSelNode(l, r)[i] = [id |-> i, ev |-> l[i + 1].ev]
              /\ AddSelNode(l, r)[MaxNum] = [id |-> MaxNum, ev |-> r.ev]
<1> USE SelAssumption
<1>1. CASE Len(l) < MaxNum
  BY <1>1 DEF AddSelNode
<1>2. CASE Len(l) = MaxNum
  <2> DEFINE d == [i \in DOMAIN l |-> [l[i] EXCEPT !.id = Dec(@)]]
             K == {i \in DOMAIN l : d[i].id # 0 \/ i = Len(l)}
             k == Keep(d, K)
             e == [r EXCEPT !.id = MaxNum]
  <2>1. AddSelNode(l, r) = Append(k, e)
    BY <1>2 DEF AddSelNode, DelThenAdd, Renumber
  <2>2. /\ DOMAIN l = 1 .. MaxNum
        /\ \A i \in 1 .. MaxNum : l[i] \in AnyRec /\ l[i].id = i /\ l[i].ev \in Nat
    <3>1. \A i \in 1 .. MaxNum : l[i] \in AnyRec
      BY <1>2, ElementOfSeq
    <3> QED
      BY <1>2, <3>1 DEF AnyRec
  <2>3. \A i \in 1 .. MaxNum : [l[i] EXCEPT !.id = Dec(@)] = [id |-> i - 1, ev |-> l[i].ev]
    <3> SUFFICES ASSUME NEW i \in 1 .. MaxNum
                 PROVE  [l[i] EXCEPT !.id = Dec(@)] = [id |-> i - 1, ev |-> l[i].ev]
      OBVIOUS
    <3>1. Dec(l[i].id) = i - 1
      BY <2>2 DEF Dec
    <3> QED
      BY <2>2, <3>1 DEF AnyRec
  <2>4. d = [i \in 1 .. MaxNum |-> [id |-> i - 1, ev |-> l[i].ev]]
    BY <2>2, <2>3
  <2> HIDE DEF d
  <2>5. /\ d \in Seq(AnyRec) /\ Len(d) = MaxNum
        /\ \A i \in 1 .. MaxNum : d[i] = [id |-> i - 1, ev |-> l[i].ev]
    <3>1. \A i \in 1 .. MaxNum : [id |-> i - 1, ev |-> l[i].ev] \in AnyRec
      BY <2>2 DEF AnyRec
    <3> QED
      BY <2>4, <3>1
  <2>6. K = 2 .. MaxNum
    <3>1. \A i \in 1 .. MaxNum : d[i].id = i - 1
      BY <2>5
    <3> QED
      BY <1>2, <2>2, <3>1
  <2>7. /\ k \in Seq(AnyRec) /\ Len(k) = MaxNum - 1
        /\ \A i \in 1 .. MaxNum - 1 : k[i] = d[i + 1]
    <3> DEFINE m == MaxNum
    <3>1. d \in Seq(AnyRec) /\ m \in Nat /\ Len(d) = m /\ m >= 1
      BY <2>5
    <3> HIDE DEF m
    <3>2. /\ Keep(d, 2 .. m) \in Seq(AnyRec) /\ Len(Keep(d, 2 .. m)) = m - 1
          /\ \A i \in 1 .. m - 1 : Keep(d, 2 .. m)[i] = d[i + 1]
      BY ONLY <3>1, KeepTail
    <3> QED
      BY <2>6, <3>2 DEF m
  <2>8. e \in AnyRec /\ e = [id |-> MaxNum, ev |-> r.ev]
    <3>1. MaxNum \in Nat
      OBVIOUS
    <3>2. r.ev \in Nat /\ r = [id |-> r.id, ev |-> r.ev]
      BY ONLY r \in AnyRec DEF AnyRec
    <3>3. [r EXCEPT !.id = MaxNum] = [id |-> MaxNum, ev |-> r.ev]
      BY ONLY <3>2
    <3>4. [id |-> MaxNum, ev |-> r.ev] \in [id : Nat, ev : Nat]
      BY ONLY <3>1, <3>2
    <3> QED
      BY ONLY <3>3, <3>4 DEF AnyRec
  <2> HIDE DEF k, e
  <2>9. /\ Append(k, e) \in Seq(AnyRec) /\ Len(Append(k, e)) = MaxNum
        /\ \A i \in 1 .. MaxNum - 1 : Append(k, e)[i] = k[i]
        /\ Append(k, e)[MaxNum] = e
    BY <2>7, <2>8
  <2>10. \A i \in 1 .. MaxNum - 1 : k[i] = [id |-> i, ev |-> l[i + 1].ev]
    <3>1. \A i \in 1 .. MaxNum - 1 : i + 1 \in 1 .. MaxNum /\ (i + 1) - 1 = i
      OBVIOUS
    <3> QED
      BY <2>5, <2>7, <3>1
  <2> QED
    BY <1>2, <2>1, <2>8, <2>9, <2>10
<1> QED
  BY <1>1, <1>2

-----------------------------------------------------------------------------
(* Every step keeps the list behind the file by what is not yet done       *)

\* The records of the list are records of numbers.
LEMMA ListRecords ==
  ASSUME Listed
  PROVE  /\ Len(list) \in Nat /\ DOMAIN list = 1 .. Len(list)
         /\ \A i \in 1 .. Len(list) :
              list[i] \in AnyRec /\ list[i].ev \in Nat /\ list[i].id = i
<1>1. \A i \in 1 .. Len(list) : list[i] \in AnyRec
  BY ElementOfSeq DEF Listed
<1> QED
  BY <1>1 DEF Listed, AnyRec

\* A thread that is idle has nothing to catch up.
LEMMA OthersIdle ==
  ASSUME NEW t \in Threads, \A u \in Threads : u # t => pc'[u] = "idle", Behind(t)'
  PROVE  \A u \in Threads : Behind(u)'
<1> SUFFICES ASSUME NEW u \in Threads, u # t PROVE Behind(u)'
  OBVIOUS
<1> QED
  BY DEF Behind, Pcs

LEMMA ListInit == Init => ListInv
<1> SUFFICES ASSUME Init PROVE ListInv
  OBVIOUS
<1> USE SelAssumption DEF Init
<1>1. Listed
  <2>1. <<>> \in Seq(AnyRec) /\ Len(<<>>) = 0
    BY EmptySeq
  <2> QED
    BY <2>1 DEF Listed
<1>2. Bounded
  <2>1. /\ mutex = None /\ state = FALSE /\ host \in Host /\ seen = 0
        /\ record_id = 0 /\ rd.id = 0 /\ Len(file) = 0
        /\ MaxNum \in Nat /\ MaxEvents \in Nat
    OBVIOUS
  <2>2. \A t \in Threads : msg[t].id = 0 /\ sh[t].rec.id = 0
    BY DEF Zero, NoShift
  <2>3. \A i \in 1 .. Len(file) : FALSE
    BY <2>1
  <2>4. state \in BOOLEAN /\ mutex \in Threads \cup {None}
    BY <2>1
  <2> HIDE DEF Init
  <2> QED
    BY <2>1, <2>2, <2>3, <2>4 DEF Bounded
<1>3. \A t \in Threads : Behind(t)
  BY DEF Behind, Pcs
<1> QED
  BY <1>1, <1>2, <1>3 DEF ListInv, None

\* Start-up: the records that have been read are the list.
LEMMA ListStartUp ==
  ASSUME OneAtATime, SelInv, SelInv', ListInv, StartUp
  PROVE  ListInv'
<1> USE SelAssumption
<1>0. Typing /\ Serial /\ Reading /\ Listed /\ Bounded /\ Behind(Main)
      /\ Len(file) <= MaxNum /\ Ordered
  BY DEF SelInv, ListInv
<1>1. /\ pc[Main] \in {"init", "read", "setid"}
      /\ handler.on = None /\ handler.at = None
      /\ \A u \in Threads : u # Main => pc[u] = "idle"
      /\ UNCHANGED <<msg, sh, handler, seen, mutex, host>>
      /\ \E p \in {"read", "setid", "idle"} : pc' = [pc EXCEPT ![Main] = p]
  BY <1>0 DEF StartUp, InitSel, ReadRecord, ReadZero, ReadEnd, SetId, At, Goto,
              Free, Typing, Serial
<1>2. /\ \A u \in Threads : u # Main => pc'[u] = "idle"
      /\ handler'.at = None
      /\ \A u \in Threads : u = Main => pc'[u] \in {"read", "setid", "idle"}
  BY <1>0, <1>1 DEF Typing
<1>3. /\ MaxNum \in Nat /\ MaxNum >= 2 /\ pos \in Nat /\ Len(file) \in Nat
      /\ file \in Seq(AnyRec) /\ list \in Seq(AnyRec) /\ Len(list) \in Nat
  <2>1. Len(file) \in Nat
    BY ONLY <1>0, FileRecords
  <2>2. Len(list) \in Nat
    BY ONLY <1>0, ListRecords
  <2>3. pos \in Nat /\ file \in Seq(AnyRec) /\ list \in Seq(AnyRec)
    BY ONLY <1>0 DEF Typing, Listed
  <2> QED
    BY <2>1, <2>2, <2>3
<1> DEFINE Good == Listed' /\ Bounded' /\ Behind(Main)' /\ (Quiet' => list' = file')
<1>4. ASSUME InitSel PROVE Good
  <2>1. /\ list' = <<>> /\ pos' = 0 /\ record_id' = 1 /\ state' = TRUE
        /\ UNCHANGED file /\ rd' = [off |-> 0, id |-> 0]
        /\ pc' = [pc EXCEPT ![Main] = "read"]
    BY <1>4 DEF InitSel, Goto
  <2>2. <<>> \in Seq(AnyRec) /\ Len(<<>>) = 0
    BY EmptySeq
  <2>3. Listed'
    BY <2>1, <2>2 DEF Listed
  <2>4. Bounded'
    BY <1>0, <1>1, <1>3, <2>1 DEF Bounded
  <2>5. pc'[Main] = "read"
    BY <1>0, <2>1 DEF Typing
  <2>6. Behind(Main)' /\ ~Quiet'
    BY <2>1, <2>2, <2>5 DEF Behind, Quiet, Pcs
  <2> QED
    BY <2>3, <2>4, <2>6
<1>5. ASSUME ReadRecord PROVE Good
  <2> DEFINE r == file[pos + 1]
             n == pos + 1
  <2>1. /\ pc[Main] = "read" /\ pos < Len(file) /\ r.id > 0
        /\ list' = AddSelNode(list, r) /\ pos' = n /\ rd'.id = r.id
        /\ UNCHANGED <<file, pc, record_id, state>>
    BY <1>5 DEF ReadRecord, At
  <2>2. /\ n \in 1 .. Len(file) /\ r \in AnyRec /\ r.id = n /\ r # Zero
        /\ r.ev \in Nat /\ r.ev <= seen
    <3>1. n \in 1 .. Len(file)
      BY <1>3, <2>1
    <3>2. r \in AnyRec /\ r.ev \in Nat /\ r.ev <= seen
      BY <1>0, <3>1, FileRecords DEF Ordered
    <3>3. r # Zero
      BY <2>1 DEF Zero
    <3>4. r.id = n
      BY <3>1, <3>3 DEF SelInv, Place
    <3> QED
      BY <3>1, <3>2, <3>3, <3>4
  <2>3. Len(list) = pos /\ \A i \in 1 .. pos : list[i] = file[i]
    BY <1>0, <2>1 DEF Behind
  <2>4. list' = Append(list, r)
    <3>1. /\ Len(list) <= MaxNum /\ Len(list) < MaxNum /\ r.id = Len(list) + 1
          /\ \A i \in 1 .. Len(list) : list[i].id = i
      BY <1>0, <1>3, <2>1, <2>2, <2>3 DEF Listed
    <3>2. list \in Seq(AnyRec) /\ r \in AnyRec
      BY <1>3, <2>2
    <3>3. AddSelNode(list, r) = Append(list, r)
      <4> HIDE DEF r
      <4> QED
        BY <3>1, <3>2, AddSelNodeIs
    <3> QED
      BY <2>1, <3>3
  <2> HIDE DEF r
  <2>5. /\ list' \in Seq(AnyRec) /\ Len(list') = n /\ list'[n] = r
        /\ \A i \in 1 .. pos : list'[i] = list[i]
    BY <1>3, <2>2, <2>3, <2>4
  <2>6. \A i \in 1 .. n : list'[i] = file[i]
    BY <1>3, <2>3, <2>5 DEF r
  <2>7. 1 <= r.ev
    BY <1>0, <2>2 DEF Bounded, r
  <2>8. Listed'
    <3>1. \A i \in 1 .. n : /\ list'[i].id = i
                            /\ 1 <= list'[i].ev /\ list'[i].ev <= seen
      <4> SUFFICES ASSUME NEW i \in 1 .. n
                   PROVE  /\ list'[i].id = i
                          /\ 1 <= list'[i].ev /\ list'[i].ev <= seen
        OBVIOUS
      <4>1. CASE i = n
        BY <2>2, <2>5, <2>7, <4>1
      <4>2. CASE i # n
        <5>1. i \in 1 .. Len(list) /\ list'[i] = list[i]
          BY <1>3, <2>3, <2>5, <4>2
        <5> QED
          BY <1>0, <5>1 DEF Listed
      <4> QED
        BY <4>1, <4>2
    <3>2. n <= MaxNum /\ seen' = seen
      BY <1>0, <1>1, <1>3, <2>1
    <3> QED
      BY <2>5, <3>1, <3>2 DEF Listed
  <2>9. Bounded'
    <3>1. r.id <= MaxNum
      BY <1>0, <1>3, <2>2
    <3> QED
      BY <1>0, <1>1, <2>1, <3>1 DEF Bounded
  <2>10. Behind(Main)' /\ ~Quiet'
    <3>1. pc'[Main] = "read"
      BY <2>1
    <3> QED
      BY <2>1, <2>5, <2>6, <3>1 DEF Behind, Quiet, Pcs
  <2> QED
    BY <2>8, <2>9, <2>10
<1>6. ASSUME ReadZero \/ ReadEnd PROVE Good
  <2>1. /\ pc[Main] = "read" /\ UNCHANGED <<list, record_id, state, rd>>
        /\ pc' = [pc EXCEPT ![Main] = "setid"]
        /\ \/ file' = SubSeq(file, 1, pos) /\ pos < Len(file)
           \/ file' = file /\ pos >= Len(file)
    BY <1>0, <1>6 DEF ReadZero, ReadEnd, At, Goto, Reading
  <2>2. /\ Len(list) = pos /\ pos <= Len(file)
        /\ \A i \in 1 .. pos : list[i] = file[i] /\ file[i] \in AnyRec
    <3>1. Len(list) = pos /\ pos <= Len(file) /\ \A i \in 1 .. pos : list[i] = file[i]
      BY <1>0, <2>1 DEF Behind, Reading
    <3>2. \A i \in 1 .. pos : i \in 1 .. Len(file)
      BY <1>3, <3>1
    <3> QED
      BY <1>0, <3>1, <3>2, FileRecords
  <2>3. /\ file' \in Seq(AnyRec) /\ Len(file') = pos
        /\ \A i \in 1 .. pos : file'[i] = file[i]
    <3>1. CASE file' = SubSeq(file, 1, pos) /\ pos < Len(file)
      BY <1>3, <2>2, <3>1, SubSeqProperties
    <3>2. CASE file' = file /\ pos >= Len(file)
      BY <1>3, <2>2, <3>2
    <3> QED
      BY <2>1, <3>1, <3>2
  <2>4. list' = file'
    <3>1. Len(list) = Len(file') /\ \A i \in 1 .. Len(list) : list[i] = file'[i]
      BY <2>2, <2>3
    <3> QED
      BY <1>3, <2>1, <2>3, <3>1, SeqEqual
  <2>5. Listed'
    BY <1>0, <1>1, <2>1 DEF Listed
  <2>6. Bounded'
    <3>1. \A i \in 1 .. pos : i \in 1 .. Len(file)
      BY <1>3, <2>2
    <3>2. \A i \in 1 .. Len(file') : file'[i] # Zero => 1 <= file'[i].ev
      BY <1>0, <2>3, <3>1 DEF Bounded
    <3> QED
      BY <1>0, <1>1, <2>1, <3>2 DEF Bounded
  <2>7. pc'[Main] = "setid"
    BY <1>0, <2>1 DEF Typing
  <2>8. Behind(Main)' /\ ~Quiet'
    BY <2>4, <2>7 DEF Behind, Quiet, Pcs
  <2> QED
    BY <2>5, <2>6, <2>8
<1>7. ASSUME SetId PROVE Good
  <2>1. /\ pc[Main] = "setid" /\ UNCHANGED <<list, file, state, rd>>
        /\ record_id' = Inc(rd.id) /\ rd.id \in Nat
        /\ pc' = [pc EXCEPT ![Main] = "idle"]
    BY <1>0, <1>7 DEF SetId, At, Goto, Typing
  <2>2. list' = file'
    BY <1>0, <2>1 DEF Behind
  <2>3. Listed'
    BY <1>0, <1>1, <2>1 DEF Listed
  <2>4. Bounded'
    <3>1. rd.id <= MaxNum /\ rd.id + 1 <= MaxNum + 1 /\ Inc(rd.id) = rd.id + 1
      BY <1>0, <1>3, <2>1, IncSmall DEF Bounded
    <3> QED
      BY <1>0, <1>1, <2>1, <3>1 DEF Bounded
  <2>5. pc'[Main] = "idle"
    BY <1>0, <2>1 DEF Typing
  <2>6. Behind(Main)'
    BY <2>5 DEF Behind, Pcs
  <2> QED
    BY <2>2, <2>3, <2>4, <2>6
<1>8. Good
  BY <1>4, <1>5, <1>6, <1>7 DEF StartUp
<1>9. \A u \in Threads : Behind(u)'
  BY <1>2, <1>8, OthersIdle
<1> QED
  BY <1>2, <1>8, <1>9 DEF ListInv, None

\* Before the file is written the list is the file.
LEMMA ListPrepare ==
  ASSUME OneAtATime, SelInv, SelInv', ListInv, NEW t \in Threads,
         \/ Begin(t) \/ CheckUp(t) \/ CheckDown(t) \/ Wake(t)
         \/ GenEvent(t) \/ Lock(t) \/ IncUnlock(t)
  PROVE  ListInv'
<1> USE SelAssumption
<1>1. /\ Typing /\ Serial /\ Busy(t) /\ Listed /\ Bounded /\ Behind(t)
      /\ (Quiet => Settled) /\ (Quiet => list = file) /\ Len(file) <= MaxNum
      /\ Ordered
  BY DEF SelInv, ListInv
<1>2. /\ UNCHANGED <<file, list, pos, sh, rd, handler, host>>
      /\ handler.on = None /\ handler.at = None
      /\ \A u \in Threads : u # t => pc[u] = "idle"
      /\ Settled /\ list = file
  BY <1>1 DEF Begin, CheckUp, CheckDown, Wake, GenEvent, Lock, IncUnlock, At,
              Free, Busy, Serial, Typing, MayBegin, OneAtATime, Quiet, Behind
<1>3. /\ msg \in [Threads -> AnyRec] /\ msg[t].id \in Nat /\ seen \in Nat
      /\ record_id \in Nat /\ MaxNum \in Nat /\ Len(file) \in Nat /\ MaxEvents \in Nat
      /\ record_id = Len(file) + 1
  BY <1>1, <1>2, FileRecords DEF Typing, AnyRec, Settled
<1>4. \E p \in {"check", "sleep", "gen", "lock", "inc", "append", "rewind"} :
        /\ pc' = [pc EXCEPT ![t] = p]
        /\ p = "append" => msg[t].id <= MaxNum /\ pc[t] = "inc"
  BY DEF Begin, CheckUp, CheckDown, Wake, GenEvent, Lock, IncUnlock, Goto, At
<1>5. /\ \A u \in Threads : u # t => pc'[u] = "idle"
      /\ pc'[t] \in {"check", "sleep", "gen", "lock", "inc", "append", "rewind"}
      /\ pc'[t] = "append" => msg[t].id <= MaxNum /\ pc[t] = "inc"
  BY <1>1, <1>2, <1>4 DEF Typing
<1>6. pc'[t] = "append" => Len(file) < MaxNum
  <2>1. pc[t] = "inc" => msg[t].id = record_id
    BY <1>1 DEF Busy
  <2> QED
    BY <1>3, <1>5, <2>1
<1>7. /\ seen' \in Nat /\ seen <= seen' /\ seen' <= MaxEvents
      /\ Begin(t) => seen' = seen + 1
      /\ ~Begin(t) => seen' = seen /\ pc[t] \in Pcs \ {"init", "read", "setid", "idle"}
  BY <1>1, <1>3 DEF Begin, CheckUp, CheckDown, Wake, GenEvent, Lock, IncUnlock,
                    Bounded, At, Pcs
<1>8. /\ \A u \in Threads : msg'[u].id <= MaxNum + 1
      /\ record_id' <= MaxNum + 1
      /\ mutex' \in Threads \cup {None} /\ state' \in BOOLEAN
  <2>1. CASE Begin(t)
    <3>1. /\ msg' = [msg EXCEPT ![t] = [id |-> 0, ev |-> seen + 1]]
          /\ UNCHANGED <<record_id, mutex, state>>
      BY <2>1 DEF Begin
    <3>2. \A u \in Threads : msg'[u].id = msg[u].id \/ msg'[u].id = 0
      BY <1>3, <3>1
    <3> QED
      BY <1>1, <1>3, <3>1, <3>2 DEF Bounded
  <2>2. CASE GenEvent(t)
    <3>1. msg' = [msg EXCEPT ![t].id = record_id] /\ UNCHANGED <<record_id, mutex, state>>
      BY <2>2 DEF GenEvent
    <3>2. \A u \in Threads : msg'[u].id = msg[u].id \/ msg'[u].id = record_id
      BY <1>3, <3>1 DEF AnyRec
    <3> QED
      BY <1>1, <1>3, <3>1, <3>2 DEF Bounded
  <2>3. CASE CheckUp(t) \/ CheckDown(t) \/ Wake(t) \/ Lock(t)
    BY <1>1, <2>3 DEF Bounded, CheckUp, CheckDown, Wake, Lock
  <2>4. CASE IncUnlock(t)
    <3>1. /\ record_id' = NextId(record_id) /\ mutex' = None
          /\ UNCHANGED <<msg, state>>
      BY <2>4 DEF IncUnlock
    <3>2. NextId(record_id) <= MaxNum + 1
      <4>1. record_id <= MaxNum + 1
        BY <1>1, <1>3
      <4> QED
        BY <1>3, <4>1, IncSmall
    <3> QED
      BY <1>1, <3>1, <3>2 DEF Bounded
  <2> QED
    BY <2>1, <2>2, <2>3, <2>4
<1>9. Bounded'
  BY <1>1, <1>2, <1>7, <1>8 DEF Bounded
<1>10. Listed'
  <2>1. \A i \in 1 .. Len(list) : list[i].ev <= seen'
    BY <1>1, <1>3, <1>7, ListRecords DEF Listed
  <2> QED
    BY <1>1, <1>2, <2>1 DEF Listed
<1>11. 0 < seen' /\ \A i \in 1 .. Len(list) : list[i].ev < seen'
  <2>1. CASE Begin(t)
    BY <1>1, <1>3, <1>7, <2>1, ListRecords DEF Listed
  <2>2. CASE ~Begin(t)
    BY <1>1, <1>7, <2>2 DEF Behind
  <2> QED
    BY <2>1, <2>2
<1>12. Behind(t)'
  <2>1. pc'[t] # "append" =>
          pc'[t] \in {"setid", "check", "sleep", "gen", "lock", "inc", "rewind"}
    BY <1>5
  <2>2. pc'[t] = "append" => Len(file') < MaxNum
    BY <1>2, <1>6
  <2> QED
    BY <1>2, <1>3, <1>5, <1>11, <2>1, <2>2, SMTT(30) DEF Behind, Pcs
<1>13. \A u \in Threads : Behind(u)'
  BY <1>5, <1>12, OthersIdle
<1>14. ~Quiet'
  BY <1>5 DEF Quiet
<1> QED
  BY <1>2, <1>9, <1>10, <1>13, <1>14 DEF ListInv, None

\* The shift starts with the list as the file and takes it one record further.
LEMMA ListShift ==
  ASSUME OneAtATime, SelInv, SelInv', ListInv, NEW t \in Threads,
         Rewind(t) \/ ShiftRead(t) \/ ShiftEof(t) \/ ShiftWrite(t)
  PROVE  ListInv'
<1> USE SelAssumption
<1>1. /\ Typing /\ Serial /\ Busy(t) /\ Listed /\ Bounded /\ Behind(t)
  BY DEF SelInv, ListInv
<1>2. /\ UNCHANGED <<list, record_id, msg, seen, rd, handler, host, mutex, state>>
      /\ handler.on = None /\ handler.at = None
      /\ \A u \in Threads : u # t => pc[u] = "idle"
      /\ Full(t) /\ pc[t] \in {"rewind", "shiftread", "shiftwrite"}
  BY <1>1 DEF Rewind, ShiftRead, ShiftEof, ShiftWrite, At, Free, Busy, Serial,
              Typing, Pcs
<1>3. /\ Len(file) = MaxNum /\ MaxNum \in Nat /\ MaxNum >= 2
      /\ \A i \in 1 .. MaxNum : /\ file[i] \in AnyRec /\ file[i].id = i
                                /\ file[i].ev \in Nat
      /\ sh \in [Threads -> [last : Nat, cur : Nat, cnt : Nat, rec : AnyRec]]
  BY <1>1, <1>2, FullRecords
<1>4. \E p \in {"shiftread", "shiftwrite", "append"} : pc' = [pc EXCEPT ![t] = p]
  BY DEF Rewind, ShiftRead, ShiftEof, ShiftWrite, Goto
<1>5. /\ \A u \in Threads : u # t => pc'[u] = "idle"
      /\ pc'[t] \in {"shiftread", "shiftwrite", "append"}
  BY <1>1, <1>2, <1>4 DEF Typing
<1>6. 0 < seen /\ \A i \in 1 .. Len(list) : list[i].ev < seen
  BY <1>1, <1>2 DEF Behind, Pcs
<1> DEFINE Good == /\ \A u \in Threads : sh'[u].rec.id <= MaxNum
                   /\ \A i \in 1 .. Len(file') : file'[i] # Zero => 1 <= file'[i].ev
                   /\ Behind(t)'
<1>7. ASSUME Rewind(t) PROVE Good
  <2>1. UNCHANGED file /\ pc' = [pc EXCEPT ![t] = "shiftread"] /\ pc[t] = "rewind"
    BY <1>7 DEF Rewind, Goto, At
  <2>2. /\ sh'[t].cnt = 0 /\ sh'[t].rec = Zero
        /\ \A u \in Threads : u # t => sh'[u] = sh[u]
    BY <1>3, <1>7 DEF Rewind, NoShift
  <2>3. pc'[t] = "shiftread" /\ list = file
    BY <1>1, <2>1 DEF Typing, Behind
  <2>4. Shifted(0)
    BY <1>3, <2>3 DEF Shifted
  <2>5. Behind(t)'
    BY <1>2, <1>6, <2>1, <2>2, <2>3, <2>4 DEF Behind, Shifted, Pcs
  <2>6. \A u \in Threads : sh'[u].rec.id <= MaxNum
    <3>1. Zero.id <= MaxNum
      BY <1>3 DEF Zero
    <3>2. \A u \in Threads : sh[u].rec.id <= MaxNum
      BY <1>1 DEF Bounded
    <3> QED
      BY <2>2, <3>1, <3>2
  <2> QED
    BY <1>1, <2>1, <2>5, <2>6 DEF Bounded
<1>8. ASSUME ShiftRead(t) PROVE Good
  <2>1. /\ UNCHANGED file /\ pc' = [pc EXCEPT ![t] = "shiftwrite"]
        /\ pc[t] = "shiftread" /\ sh[t].cur < Len(file)
        /\ sh' = [sh EXCEPT ![t].rec = file[sh[t].cur + 1], ![t].cur = @ + 1]
    BY <1>8 DEF ShiftRead, Goto, At
  <2>2. /\ sh'[t].cnt = sh[t].cnt /\ sh'[t].rec = file[sh[t].cur + 1]
        /\ \A u \in Threads : u # t => sh'[u] = sh[u]
    BY <1>3, <2>1
  <2>3. pc'[t] = "shiftwrite" /\ Shifted(sh[t].cnt)
    BY <1>1, <2>1 DEF Typing, Behind
  <2>4. Behind(t)'
    BY <1>2, <1>6, <2>1, <2>2, <2>3 DEF Behind, Shifted, Pcs
  <2>5. sh[t].cur + 1 \in 1 .. MaxNum
    BY <1>3, <2>1
  <2>6. sh'[t].rec.id <= MaxNum
    BY <1>3, <2>2, <2>5
  <2> QED
    BY <1>1, <2>1, <2>2, <2>4, <2>6 DEF Bounded
<1>9. ASSUME ShiftEof(t) PROVE Good
  BY <1>1, <1>3, <1>9 DEF ShiftEof, At, Busy
<1>10. ASSUME ShiftWrite(t) PROVE Good
  <2> DEFINE c == sh[t].cur
             r == [file[c] EXCEPT !.id = c - 1]
             s == [sh[t] EXCEPT !.last = c - 1, !.cnt = c - 1]
  <2>1. /\ c \in 2 .. MaxNum /\ sh[t].cnt = c - 2
        /\ r \in AnyRec /\ r.id = c - 1
        /\ file' \in Seq(AnyRec) /\ Len(file') = MaxNum /\ file'[c - 1] = r
        /\ \A i \in 1 .. MaxNum : i # c - 1 => file'[i] = file[i]
        /\ sh' = [sh EXCEPT ![t] = s]
        /\ pc' = [pc EXCEPT ![t] = IF c = MaxNum THEN "append" ELSE "shiftread"]
    BY <1>10, ShiftWriteIs DEF ShiftWritten
  <2>2. /\ sh'[t].cnt = c - 1 /\ sh'[t].rec = sh[t].rec
        /\ \A u \in Threads : u # t => sh'[u] = sh[u]
    <3>1. s.cnt = c - 1 /\ s.rec = sh[t].rec
      BY <1>3
    <3> QED
      BY <1>3, <2>1, <3>1
  <2>3. /\ pc'[t] = "append" => c = MaxNum
        /\ pc'[t] # "append" => pc'[t] = "shiftread"
    BY <1>1, <2>1 DEF Typing
  <2>4. Shifted(c - 2)
    BY <1>1, <1>10, <2>1 DEF Behind, ShiftWrite, At
  <2> HIDE DEF c, s
  <2>5. r = [id |-> c - 1, ev |-> list[c].ev]
    <3>1. file[c] = list[c] /\ file[c] \in AnyRec
      BY <1>3, <2>1, <2>4 DEF Shifted
    <3> QED
      BY <2>1, <3>1 DEF AnyRec
  <2> HIDE DEF r
  <2>6. \A i \in 1 .. MaxNum :
          file'[i] = IF i <= c - 1 THEN [id |-> i, ev |-> list[i + 1].ev] ELSE list[i]
    <3> SUFFICES ASSUME NEW i \in 1 .. MaxNum
                 PROVE  file'[i] = IF i <= c - 1 THEN [id |-> i, ev |-> list[i + 1].ev]
                                                 ELSE list[i]
      OBVIOUS
    <3>1. CASE i = c - 1
      BY <1>3, <2>1, <2>5, <3>1
    <3>2. CASE i # c - 1
      <4>1. file'[i] = file[i] /\ (i <= c - 1 <=> i <= c - 2)
        BY <1>3, <2>1, <3>2
      <4> QED
        BY <2>4, <4>1 DEF Shifted
    <3> QED
      BY <3>1, <3>2
  <2>8. Behind(t)'
    <3>1. CASE pc'[t] = "append"
      <4>1. c = MaxNum
        BY <2>3, <3>1
      <4>2. Shifted(MaxNum - 1)'
        BY <1>2, <2>1, <2>4, <2>6, <4>1 DEF Shifted
      <4> QED
        BY <1>2, <1>6, <2>1, <3>1, <4>2 DEF Behind, Pcs
    <3>2. CASE pc'[t] = "shiftread"
      <4>1. Shifted(sh[t].cnt)'
        BY <1>2, <2>1, <2>2, <2>4, <2>6 DEF Shifted
      <4> QED
        BY <1>2, <1>6, <3>2, <4>1 DEF Behind, Pcs
    <3> QED
      BY <2>3, <3>1, <3>2
  <2>9. \A i \in 1 .. Len(file') : 1 <= file'[i].ev
    <3> SUFFICES ASSUME NEW i \in 1 .. MaxNum PROVE 1 <= file'[i].ev
      BY <2>1
    <3>1. \A j \in 1 .. MaxNum : 1 <= list[j].ev
      BY <1>1, <2>4 DEF Listed, Shifted
    <3>2. CASE i <= c - 1
      <4>1. i + 1 \in 1 .. MaxNum /\ file'[i].ev = list[i + 1].ev
        BY <1>3, <2>1, <2>6, <3>2
      <4> QED
        BY <3>1, <4>1
    <3>3. CASE ~(i <= c - 1)
      BY <2>6, <3>1, <3>3
    <3> QED
      BY <3>2, <3>3
  <2> QED
    BY <1>1, <2>2, <2>8, <2>9 DEF Bounded
<1>11. Good
  BY <1>7, <1>8, <1>9, <1>10
<1>12. Listed' /\ Bounded'
  BY <1>1, <1>2, <1>11 DEF Listed, Bounded
<1>13. \A u \in Threads : Behind(u)'
  BY <1>5, <1>11, OthersIdle
<1>14. ~Quiet'
  BY <1>5 DEF Quiet
<1> QED
  BY <1>2, <1>12, <1>13, <1>14 DEF ListInv, None

\* The new record is in the file before it is in the list: the file is what
\* the driver will make of the list.
LEMMA ListAddMsg ==
  ASSUME OneAtATime, SelInv, SelInv', ListInv, NEW t \in Threads, AddMsg(t)
  PROVE  ListInv'
<1> USE SelAssumption
<1>1. /\ Typing /\ Serial /\ Busy(t) /\ Listed /\ Bounded /\ Behind(t)
      /\ Len(file) <= MaxNum
  BY DEF SelInv, ListInv
<1>2. /\ UNCHANGED <<list, record_id, msg, seen, rd, sh, handler, host, mutex, state>>
      /\ handler.on = None /\ handler.at = None
      /\ \A u \in Threads : u # t => pc[u] = "idle"
      /\ pc[t] = "append" /\ pc' = [pc EXCEPT ![t] = "add"]
      /\ msg[t].ev = seen
  BY <1>1 DEF AddMsg, At, Goto, Free, Busy, Serial, Typing, Pcs
<1>3. /\ \A u \in Threads : u # t => pc'[u] = "idle"
      /\ pc'[t] = "add"
  BY <1>1, <1>2 DEF Typing
<1>4. /\ MaxNum \in Nat /\ MaxNum >= 2 /\ Len(file) \in Nat /\ Len(list) \in Nat
      /\ file \in Seq(AnyRec) /\ list \in Seq(AnyRec) /\ msg[t] \in AnyRec
      /\ pos \in Nat /\ seen \in Nat /\ msg[t].id \in Nat
      /\ msg[t] = [id |-> msg[t].id, ev |-> seen]
  <2>1. msg[t] \in AnyRec /\ file \in Seq(AnyRec) /\ pos \in Nat /\ seen \in Nat
    BY <1>1 DEF Typing
  <2>2. msg[t].id \in Nat /\ msg[t] = [id |-> msg[t].id, ev |-> seen]
    BY <1>2, <2>1 DEF AnyRec
  <2>3. Len(file) \in Nat /\ Len(list) \in Nat /\ list \in Seq(AnyRec)
    BY <1>1, FileRecords, ListRecords DEF Listed
  <2> QED
    BY <2>1, <2>2, <2>3
<1> DEFINE r == [msg[t] EXCEPT !.id = FileId(@)]
           n == pos + 1
<1>5. /\ \/ Full(t) /\ n = MaxNum
         \/ /\ Len(file) < MaxNum /\ Numbered(Len(file)) /\ pos = Len(file)
            /\ msg[t].id = n /\ record_id = n + 1
      /\ r \in AnyRec /\ r.id = n /\ r.ev = seen
      /\ file' \in Seq(AnyRec) /\ Len(file') = n /\ file'[n] = r
      /\ \A i \in 1 .. n - 1 : file'[i] = file[i]
  BY AddMsgIs DEF MsgWritten
<1>6. r = [id |-> n, ev |-> seen]
  BY <1>5 DEF AnyRec
<1> HIDE DEF r, n
<1>7. /\ file' = AddSelNode(list, msg[t])
      /\ msg[t].id = Len(list) + 1
  <2>1. CASE Full(t) /\ n = MaxNum
    <3>1. Len(file) = MaxNum /\ msg[t].id = MaxNum + 1 /\ Shifted(MaxNum - 1)
      BY <1>1, <1>2, <2>1 DEF Full, Behind
    <3>2. /\ Len(list) = MaxNum /\ msg[t].id = Len(list) + 1
          /\ \A i \in 1 .. MaxNum - 1 : file[i] = [id |-> i, ev |-> list[i + 1].ev]
      BY <1>4, <3>1 DEF Shifted
    <3> DEFINE m == AddSelNode(list, msg[t])
    <3>3. /\ m \in Seq(AnyRec) /\ Len(m) = MaxNum
          /\ \A i \in 1 .. MaxNum - 1 : m[i] = [id |-> i, ev |-> list[i + 1].ev]
          /\ m[MaxNum] = [id |-> MaxNum, ev |-> msg[t].ev]
      <4>1. /\ list \in Seq(AnyRec) /\ Len(list) <= MaxNum /\ msg[t] \in AnyRec
            /\ \A i \in 1 .. Len(list) : list[i].id = i
        BY <1>1, <1>4 DEF Listed
      <4> QED
        BY <3>2, <4>1, AddSelNodeIs
    <3> HIDE DEF m
    <3>4. \A i \in 1 .. MaxNum : file'[i] = m[i]
      <4> SUFFICES ASSUME NEW i \in 1 .. MaxNum PROVE file'[i] = m[i]
        OBVIOUS
      <4>1. CASE i = MaxNum
        BY <1>2, <1>5, <1>6, <2>1, <3>3, <4>1
      <4>2. CASE i # MaxNum
        <5>1. i \in 1 .. MaxNum - 1
          BY <1>4, <4>2
        <5> QED
          BY <1>5, <2>1, <3>2, <3>3, <5>1
      <4> QED
        BY <4>1, <4>2
    <3>5. file' = m
      BY <1>5, <2>1, <3>3, <3>4, SeqEqual
    <3> QED
      BY <3>2, <3>5 DEF m
  <2>2. CASE /\ Len(file) < MaxNum /\ Numbered(Len(file)) /\ pos = Len(file)
             /\ msg[t].id = n /\ record_id = n + 1
    <3>1. list = file /\ n = Len(list) + 1
      BY <1>1, <1>2, <1>4, <2>2 DEF Behind, n
    <3>2. r = msg[t]
      BY <1>4, <1>6, <2>2
    <3>3. AddSelNode(list, msg[t]) = Append(list, msg[t])
      <4>1. /\ Len(list) <= MaxNum /\ Len(list) < MaxNum
            /\ msg[t].id = Len(list) + 1
            /\ \A i \in 1 .. Len(list) : list[i].id = i
        BY <1>1, <2>2, <3>1 DEF Listed
      <4> QED
        BY <1>4, <4>1, AddSelNodeIs
    <3> DEFINE a == Append(list, msg[t])
    <3>4. /\ a \in Seq(AnyRec) /\ Len(a) = n /\ a[n] = msg[t]
          /\ \A i \in 1 .. n - 1 : a[i] = list[i]
      BY <1>4, <3>1
    <3> HIDE DEF a
    <3>5. \A i \in 1 .. n : file'[i] = a[i]
      <4> SUFFICES ASSUME NEW i \in 1 .. n PROVE file'[i] = a[i]
        OBVIOUS
      <4>1. CASE i = n
        BY <1>5, <3>2, <3>4, <4>1
      <4>2. CASE i # n
        <5>1. i \in 1 .. n - 1
          BY <1>4, <3>1, <4>2
        <5> QED
          BY <1>5, <3>1, <3>4, <5>1
      <4> QED
        BY <4>1, <4>2
    <3>6. file' = a
      BY <1>5, <3>4, <3>5, SeqEqual
    <3> QED
      BY <2>2, <3>1, <3>3, <3>6 DEF a
  <2> QED
    BY <1>5, <2>1, <2>2
<1>8. 0 < seen /\ \A i \in 1 .. Len(list) : list[i].ev < seen
  BY <1>1, <1>2 DEF Behind, Pcs
<1>9. Behind(t)'
  BY <1>2, <1>3, <1>7, <1>8 DEF Behind, Pcs
<1>10. Listed' /\ (Bounded' <=> \A i \in 1 .. Len(file') : file'[i] # Zero => 1 <= file'[i].ev)
  BY <1>1, <1>2 DEF Listed, Bounded
<1>11. \A i \in 1 .. Len(file') : file'[i] # Zero => 1 <= file'[i].ev
  <2> SUFFICES ASSUME NEW i \in 1 .. n, file'[i] # Zero PROVE 1 <= file'[i].ev
    BY <1>5
  <2>1. CASE i = n
    <3>1. 1 <= seen
      BY <1>4, <1>8
    <3> QED
      BY <1>5, <2>1, <3>1
  <2>2. CASE i # n
    <3>1. n - 1 <= Len(file)
      BY <1>4, <1>5 DEF Full, n
    <3>2. i \in 1 .. n - 1 /\ i \in 1 .. Len(file)
      BY <1>4, <2>2, <3>1 DEF n
    <3> QED
      BY <1>1, <1>5, <3>2 DEF Bounded
  <2> QED
    BY <2>1, <2>2
<1>12. \A u \in Threads : Behind(u)'
  BY <1>3, <1>9, OthersIdle
<1>13. ~Quiet'
  BY <1>3 DEF Quiet
<1> QED
  BY <1>2, <1>10, <1>11, <1>12, <1>13 DEF ListInv, None

\* The driver makes the list the file again.
LEMMA ListAddNode ==
  ASSUME OneAtATime, SelInv, SelInv', ListInv, Linked, NEW t \in Threads, AddNode(t)
  PROVE  ListInv'
<1> USE SelAssumption
<1>1. /\ Typing /\ Serial /\ Ordered /\ Busy(t) /\ Listed /\ Bounded /\ Behind(t)
      /\ Len(file) <= MaxNum
  BY DEF SelInv, ListInv
<1>2. /\ UNCHANGED <<file, record_id, seen, rd, handler, host, mutex, state>>
      /\ handler.on = None /\ handler.at = None
      /\ \A u \in Threads : u # t => pc[u] = "idle"
      /\ pc[t] = "add" /\ pc' = [pc EXCEPT ![t] = "idle"]
      /\ list' = AddSelNode(list, msg[t])
      /\ msg' = [msg EXCEPT ![t] = Zero] /\ sh' = [sh EXCEPT ![t] = NoShift]
  BY <1>1, RecordedOne DEF AddNode, Added, Linked, Recorded, At, Free, Busy, Serial
<1>3. list' = file' /\ Numbered(Len(file))
  BY <1>1, <1>2 DEF Behind, Busy, Settled
<1>4. /\ file \in Seq(AnyRec) /\ Len(file) \in Nat
      /\ \A i \in 1 .. Len(file) : /\ file[i].id = i /\ file[i] # Zero
                                   /\ file[i].ev <= seen
  <2>1. \A i \in 1 .. Len(file) : file[i].id = i /\ file[i].ev <= seen
    BY <1>1, <1>3 DEF Numbered, Ordered
  <2>2. \A i \in 1 .. Len(file) : file[i] # Zero
    BY <1>1, <2>1, FileRecords DEF Zero
  <2> QED
    BY <1>1, <2>1, <2>2, FileRecords DEF Typing
<1>5. Listed'
  BY <1>1, <1>2, <1>3, <1>4 DEF Listed, Bounded
<1>6. Bounded'
  <2>1. \A u \in Threads : /\ msg'[u] = msg[u] \/ msg'[u] = Zero
                           /\ sh'[u] = sh[u] \/ sh'[u] = NoShift
    BY <1>1, <1>2 DEF Typing
  <2>2. \A u \in Threads : msg'[u].id <= MaxNum + 1 /\ sh'[u].rec.id <= MaxNum
    BY <1>1, <2>1 DEF Zero, NoShift, Bounded
  <2> QED
    BY <1>1, <1>2, <2>2 DEF Bounded
<1>7. \A u \in Threads : pc'[u] = "idle"
  BY <1>1, <1>2 DEF Typing
<1>8. \A u \in Threads : Behind(u)'
  BY <1>7 DEF Behind, Pcs
<1> QED
  BY <1>2, <1>3, <1>5, <1>6, <1>8 DEF ListInv, None

\* The handler clears the list after the file.
LEMMA ListClear ==
  ASSUME OneAtATime, SelInv, SelInv', ListInv,
         \/ \E t \in Threads : Signal(t)
         \/ ClearFile \/ ClearList \/ ClearId
  PROVE  ListInv'
<1> USE SelAssumption
<1>1. /\ Typing /\ Serial /\ Clearing /\ Listed /\ Bounded
      /\ (Quiet => list = file) /\ (handler.at = "id" => list = <<>>)
  BY DEF SelInv, ListInv
<1>2. /\ UNCHANGED <<seen, rd, pc, msg, sh, mutex, state, host>>
      /\ \A t \in Threads : pc[t] = "idle"
  BY <1>1 DEF Signal, ClearFile, ClearList, ClearId, MayClear, OneAtATime, Quiet,
              Serial, None
<1>3. \A t \in Threads : Behind(t)'
  BY <1>2 DEF Behind, Pcs
<1>4. CASE \E t \in Threads : Signal(t)
  <2>1. /\ UNCHANGED <<file, list, record_id>> /\ handler'.at = "file"
        /\ handler'.on # None /\ list = file
    BY <1>1, <1>4 DEF Signal, MayClear, OneAtATime, None
  <2>2. Listed' /\ Bounded' /\ ~Quiet'
    BY <1>1, <1>2, <2>1 DEF Listed, Bounded, Quiet
  <2> QED
    BY <1>3, <2>1, <2>2 DEF ListInv
<1>5. CASE ClearFile
  <2>1. /\ UNCHANGED <<list, record_id>> /\ file' = <<>> /\ handler.on # None
        /\ handler' = [handler EXCEPT !.at = "list"]
    BY <1>1, <1>5 DEF ClearFile, Serial, None
  <2>2. handler'.at = "list" /\ handler'.on # None
    BY <1>1, <2>1 DEF Typing
  <2>3. \A i \in 1 .. Len(file') : FALSE
    BY <2>1, EmptySeq
  <2>4. Listed' /\ Bounded' /\ ~Quiet'
    BY <1>1, <1>2, <2>1, <2>2, <2>3 DEF Listed, Bounded, Quiet
  <2> QED
    BY <1>3, <2>2, <2>4 DEF ListInv
<1>6. CASE ClearList
  <2>1. /\ UNCHANGED <<file, record_id>> /\ list' = <<>> /\ handler.on # None
        /\ handler' = [handler EXCEPT !.at = "id"]
    BY <1>1, <1>6 DEF ClearList, Serial, None
  <2>2. handler'.at = "id" /\ handler'.on # None
    BY <1>1, <2>1 DEF Typing
  <2>3. list' \in Seq(AnyRec) /\ Len(list') = 0
    BY <2>1, EmptySeq
  <2>4. Listed' /\ Bounded' /\ ~Quiet'
    BY <1>1, <1>2, <2>1, <2>2, <2>3 DEF Listed, Bounded, Quiet
  <2> QED
    BY <1>3, <2>1, <2>2, <2>4 DEF ListInv
<1>7. CASE ClearId
  <2>1. /\ UNCHANGED <<file, list>> /\ record_id' = 1 /\ handler'.at = None
        /\ list = file
    BY <1>1, <1>7 DEF ClearId, Clearing
  <2>2. Listed' /\ Bounded'
    BY <1>1, <1>2, <2>1 DEF Listed, Bounded
  <2> QED
    BY <1>3, <2>1, <2>2 DEF ListInv, None
<1> QED
  BY <1>4, <1>5, <1>6, <1>7

\* A power cut empties the list.
LEMMA ListPowerCut ==
  ASSUME SelInv, SelInv', ListInv, PowerCut
  PROVE  ListInv'
<1> USE SelAssumption
<1>1. Typing /\ Listed /\ Bounded
  BY DEF SelInv, ListInv
<1>2. /\ list' = <<>> /\ record_id' = 0 /\ mutex' = None /\ state' = FALSE
      /\ UNCHANGED <<host, seen>> /\ rd'.id = 0 /\ handler'.at = None
      /\ pc' = [t \in Threads |-> IF t = Main THEN "init" ELSE "idle"]
      /\ msg' = [t \in Threads |-> Zero] /\ sh' = [t \in Threads |-> NoShift]
  BY DEF PowerCut
<1>3. Len(list') = 0 /\ list' \in Seq(AnyRec)
  BY <1>2, EmptySeq
<1>4. Listed'
  BY <1>2, <1>3 DEF Listed
<1>5. \A i \in 1 .. Len(file') : file'[i] # Zero => 1 <= file'[i].ev
  <2>1. \A i \in 1 .. Len(file) : file[i] # Zero => 1 <= file[i].ev
    BY <1>1 DEF Bounded
  <2>2. CASE UNCHANGED file
    BY <2>1, <2>2
  <2>3. CASE file # <<>> /\ file' = [file EXCEPT ![Len(file)] = Zero]
    <3>1. file \in Seq(AnyRec) /\ Len(file) \in 1 .. Len(file) /\ Zero \in AnyRec
      BY <1>1, <2>3 DEF Typing, Zero, AnyRec
    <3>2. /\ Len(file') = Len(file)
          /\ \A i \in 1 .. Len(file) : file'[i] = Zero \/ file'[i] = file[i]
      BY <2>3, <3>1, ExceptSeq
    <3> QED
      BY <2>1, <3>2
  <2> QED
    BY <2>2, <2>3 DEF PowerCut
<1>6. \A t \in Threads : msg'[t].id <= MaxNum + 1 /\ sh'[t].rec.id <= MaxNum
  BY <1>2 DEF Zero, NoShift
<1>7. Bounded'
  <2>1. state' \in BOOLEAN /\ mutex' \in Threads \cup {None}
    BY <1>2
  <2> QED
    BY <1>1, <1>2, <1>5, <1>6, <2>1 DEF Bounded
<1>8. (\A t \in Threads : Behind(t)') /\ ~Quiet'
  BY <1>2 DEF Behind, Quiet, Pcs
<1> QED
  BY <1>2, <1>4, <1>7, <1>8 DEF ListInv, None

LEMMA ListStep ==
  ASSUME OneAtATime, SelInv, SelInv', ListInv, Linked, [Next]_vars
  PROVE  ListInv'
<1>1. CASE StartUp
  BY <1>1, ListStartUp
<1>2. CASE PollTimeout \/ PollEdge \/ HostChanges \/ UNCHANGED vars
  <2>1. UNCHANGED <<file, list, pos, record_id, mutex, pc, msg, sh, rd, handler, seen>>
    BY <1>2 DEF PollTimeout, PollEdge, HostChanges, vars
  <2>2. state' \in BOOLEAN /\ host' \in Host
    BY <1>2 DEF PollTimeout, PollEdge, HostChanges, vars, ListInv, Bounded
  <2>3. Listed' /\ Bounded'
    BY <2>1, <2>2 DEF ListInv, Listed, Bounded
  <2>4. \A t \in Threads : Behind(t)'
    BY <2>1 DEF ListInv, Behind, Shifted
  <2> QED
    BY <2>1, <2>3, <2>4 DEF ListInv, Quiet
<1>3. CASE Clear \/ \E t \in Threads : Signal(t)
  BY <1>3, ListClear DEF Clear
<1>4. CASE \E t \in Threads : Begin(t) \/ Handle(t)
  BY <1>4, ListPrepare, ListShift, ListAddMsg, ListAddNode DEF Handle
<1>5. CASE PowerCut
  BY <1>5, ListPowerCut
<1>6. CASE \E t, u \in Threads : AddsOverlap(t, u)
  BY <1>6, NoOverlap
<1> QED
  BY <1>1, <1>2, <1>3, <1>4, <1>5, <1>6 DEF Next

\* Only two threads in the driver together leave the list linked otherwise.
LEMMA LinkedStep ==
  ASSUME SelInv, Linked, [Next]_vars
  PROVE  Linked'
<1>1. CASE StartUp
  BY <1>1 DEF StartUp, InitSel, ReadRecord, ReadZero, ReadEnd, SetId, Linked, aside
<1>2. CASE PollTimeout \/ PollEdge \/ HostChanges \/ UNCHANGED vars
  BY <1>2 DEF PollTimeout, PollEdge, HostChanges, vars, Linked, aside
<1>3. CASE Clear \/ \E t \in Threads : Signal(t)
  BY <1>3 DEF Clear, ClearFile, ClearList, ClearId, Signal, Linked, aside
<1>4. ASSUME NEW t \in Threads, Begin(t) \/ Handle(t) PROVE Linked'
  BY <1>4 DEF Begin, Handle, CheckUp, CheckDown, Wake, GenEvent, Lock, IncUnlock,
              Rewind, ShiftRead, ShiftEof, ShiftWrite, AddMsg, AddNode, Recorded,
              Linked, aside
<1>5. CASE PowerCut
  BY <1>5 DEF PowerCut, Linked
<1>6. CASE \E t, u \in Threads : AddsOverlap(t, u)
  BY <1>6, NoOverlap
<1> QED
  BY <1>1, <1>2, <1>3, <1>4, <1>5, <1>6 DEF Next

LEMMA AlwaysListInv == ASSUME OneAtATime PROVE Spec => [](SelInv /\ ListInv /\ Linked)
<1>1. Init => SelInv /\ ListInv /\ Linked
  BY InvInit, ListInit DEF Init, Linked
<1>2. SelInv /\ ListInv /\ Linked /\ [Next]_vars => (SelInv /\ ListInv /\ Linked)'
  BY InvStep, ListStep, LinkedStep
<1> QED
  BY <1>1, <1>2, PTL DEF Spec

-----------------------------------------------------------------------------
(* What follows for the list and for the host                              *)

\* Ids stay within the limit and within two bytes.
THEOREM TypeCorrect == ASSUME OneAtATime PROVE Spec => []TypeOK
<1>1. SelInv /\ ListInv /\ Linked => TypeOK
  <2> SUFFICES ASSUME SelInv, ListInv, Linked PROVE TypeOK
    OBVIOUS
  <2> USE SelAssumption
  <2>1. Typing /\ Listed /\ Bounded /\ Len(file) <= MaxNum
    BY DEF SelInv, ListInv
  <2>2. MaxNum \in Nat /\ MaxNum < Wrap /\ Wrap \in Nat
    BY DEF Wrap
  <2>3. file \in Seq(Rec)
    <3>1. \A i \in 1 .. Len(file) : file[i] \in Rec
      <4> SUFFICES ASSUME NEW i \in 1 .. Len(file) PROVE file[i] \in Rec
        OBVIOUS
      <4>1. file[i] \in AnyRec /\ Len(file) \in Nat
        BY <2>1, FileRecords
      <4>2. file[i].id = i \/ file[i].id = 0
        BY DEF SelInv, Place, Zero
      <4>3. file[i].id <= Wrap
        BY <2>1, <2>2, <4>1, <4>2
      <4> QED
        BY <2>2, <4>1, <4>3 DEF AnyRec, Rec, Ids
    <3>2. file \in Seq(AnyRec)
      BY <2>1 DEF Typing
    <3> QED
      BY <3>1, <3>2
  <2>4. list \in Seq(Rec)
    <3>1. \A i \in 1 .. Len(list) : list[i] \in Rec
      <4> SUFFICES ASSUME NEW i \in 1 .. Len(list) PROVE list[i] \in Rec
        OBVIOUS
      <4>1. list[i] \in AnyRec /\ Len(list) \in Nat /\ list[i].id = i
        BY <2>1, ListRecords
      <4>2. list[i].id <= Wrap
        BY <2>1, <2>2, <4>1 DEF Listed
      <4> QED
        BY <2>2, <4>1, <4>2 DEF AnyRec, Rec, Ids
    <3>2. list \in Seq(AnyRec)
      BY <2>1 DEF Listed
    <3> QED
      BY <3>1, <3>2
  <2>5. msg \in [Threads -> [id : 0 .. MaxNum + 1, ev : Nat]]
    <3>1. \A t \in Threads : msg[t] \in [id : 0 .. MaxNum + 1, ev : Nat]
      <4> SUFFICES ASSUME NEW t \in Threads
                   PROVE  msg[t] \in [id : 0 .. MaxNum + 1, ev : Nat]
        OBVIOUS
      <4>1. msg[t] \in [id : Nat, ev : Nat] /\ msg[t].id <= MaxNum + 1
        BY <2>1 DEF Typing, Bounded, AnyRec
      <4> QED
        BY <2>2, <4>1
    <3> QED
      BY <2>1, <3>1 DEF Typing
  <2>6. sh \in [Threads -> [last : Nat, cur : Nat, cnt : Nat, rec : Rec]]
    <3>1. \A t \in Threads : sh[t] \in [last : Nat, cur : Nat, cnt : Nat, rec : Rec]
      <4> SUFFICES ASSUME NEW t \in Threads
                   PROVE  sh[t] \in [last : Nat, cur : Nat, cnt : Nat, rec : Rec]
        OBVIOUS
      <4>1. /\ sh[t] \in [last : Nat, cur : Nat, cnt : Nat, rec : AnyRec]
            /\ sh[t].rec.id <= MaxNum
        BY <2>1 DEF Typing, Bounded
      <4>2. sh[t].rec \in [id : Nat, ev : Nat]
        BY <4>1 DEF AnyRec
      <4>3. sh[t].rec \in Rec
        BY <2>2, <4>1, <4>2 DEF Rec, Ids
      <4> QED
        BY <4>1, <4>3
    <3> QED
      BY <2>1, <3>1 DEF Typing
  <2>7. rd \in [off : Nat, id : Ids]
    <3>1. rd \in [off : Nat, id : Nat] /\ rd.id <= MaxNum
      BY <2>1 DEF Typing, Bounded
    <3> QED
      BY <2>2, <3>1 DEF Ids
  <2>8. record_id \in 0 .. MaxNum + 1 /\ seen \in 0 .. MaxEvents
    BY <2>1, <2>2 DEF Typing, Bounded
  <2> QED
    BY <2>1, <2>3, <2>4, <2>5, <2>6, <2>7, <2>8 DEF Typing, Bounded, Linked, TypeOK
<1> QED
  BY <1>1, AlwaysListInv, PTL

\* Between events the list that the host reads is the file, whatever mix of
\* appends, shifts, clears and power cuts came before.
THEOREM ListFollowsFile == ASSUME OneAtATime PROVE Spec => []ListIsFile
<1>1. SelInv /\ ListInv => ListIsFile
  BY DEF ListInv, ListIsFile
<1> QED
  BY <1>1, AlwaysListInv, PTL

\* The answer to a request for a record that is in the list once.
LEMMA EntryFound ==
  ASSUME NEW l, NEW asked, NEW i,
         (IF asked = 0 THEN 1 ELSE asked) = i,
         {k \in DOMAIN l : l[k].id = i} = {i},
         (CHOOSE k \in {i} : \A o \in {i} : k <= o) = i
  PROVE  GetSelEntry(l, asked)
           = [ev |-> l[i].ev, next |-> IF i = Len(l) THEN None ELSE i + 1]
  BY DEF GetSelEntry

\* A host that follows the ids of the answers reads the whole list in order,
\* also in the middle of an event, of a clear or of the start-up.
THEOREM HostReads == ASSUME OneAtATime PROVE Spec => []HostReadsLog
<1>1. SelInv /\ ListInv => HostReadsLog
  <2> SUFFICES ASSUME SelInv, ListInv, NEW i \in DOMAIN list
               PROVE  GetSelEntry(list, IF i = 1 THEN 0 ELSE i)
                        = [ev |-> list[i].ev,
                           next |-> IF i = Len(list) THEN None ELSE i + 1]
    BY DEF HostReadsLog
  <2>1. /\ Len(list) \in Nat /\ DOMAIN list = 1 .. Len(list)
        /\ \A k \in 1 .. Len(list) : list[k].id = k
    BY ListRecords DEF ListInv
  <2> DEFINE asked == IF i = 1 THEN 0 ELSE i
             found == {k \in DOMAIN list : list[k].id = i}
  <2>2. (IF asked = 0 THEN 1 ELSE asked) = i
    BY <2>1
  <2>3. found = {i}
    BY <2>1
  <2>4. (CHOOSE k \in {i} : \A o \in {i} : k <= o) = i
    BY <2>1
  <2> HIDE DEF asked
  <2>5. GetSelEntry(list, asked)
          = [ev |-> list[i].ev, next |-> IF i = Len(list) THEN None ELSE i + 1]
    BY <2>2, <2>3, <2>4, EntryFound
  <2> QED
    BY <2>5 DEF asked
<1> QED
  BY <1>1, AlwaysListInv, PTL

-----------------------------------------------------------------------------
(* The log the host reads implements EventLog                              *)

Log == [i \in DOMAIN list |-> list[i].ev]

\* The events of the list, and what a record more does to them.
LEMMA LogRecords ==
  ASSUME Listed
  PROVE  /\ Log \in Seq(Nat) /\ Len(Log) = Len(list)
         /\ \A i \in 1 .. Len(list) : Log[i] = list[i].ev
<1>1. /\ Len(list) \in Nat /\ DOMAIN list = 1 .. Len(list)
      /\ \A i \in 1 .. Len(list) : list[i].ev \in Nat
  BY ListRecords
<1>2. Log = [i \in 1 .. Len(list) |-> list[i].ev]
  BY <1>1 DEF Log
<1> QED
  BY <1>1, <1>2

LEMMA LogAppends ==
  ASSUME Listed, NEW r \in AnyRec, list' = Append(list, r)
  PROVE  Log' = Append(Log, r.ev)
<1>1. /\ Len(list) \in Nat /\ list \in Seq(AnyRec) /\ r.ev \in Nat
      /\ Log \in Seq(Nat) /\ Len(Log) = Len(list)
      /\ \A i \in 1 .. Len(list) : Log[i] = list[i].ev
  BY ListRecords, LogRecords DEF Listed, AnyRec
<1> DEFINE n == Len(list) + 1
<1>2. /\ DOMAIN list' = 1 .. n /\ list'[n] = r
      /\ \A i \in 1 .. Len(list) : list'[i] = list[i]
  BY <1>1
<1>3. Log' = [i \in 1 .. n |-> list'[i].ev]
  BY <1>2 DEF Log
<1> DEFINE a == Append(Log, r.ev)
<1>4. /\ a = [i \in 1 .. n |-> a[i]] /\ a[n] = r.ev
      /\ \A i \in 1 .. Len(list) : a[i] = Log[i]
  BY <1>1
<1> HIDE DEF a
<1>5. \A i \in 1 .. n : list'[i].ev = a[i]
  <2> SUFFICES ASSUME NEW i \in 1 .. n PROVE list'[i].ev = a[i]
    OBVIOUS
  <2>1. CASE i = n
    BY <1>2, <1>4, <2>1
  <2>2. CASE i # n
    <3>1. i \in 1 .. Len(list)
      BY <1>1, <2>2
    <3> QED
      BY <1>1, <1>2, <1>4, <3>1
  <2> QED
    BY <2>1, <2>2
<1>6. [i \in 1 .. n |-> list'[i].ev] = [i \in 1 .. n |-> a[i]]
  BY <1>5
<1> QED
  BY <1>3, <1>4, <1>6 DEF a

LEMMA LogMovesUp ==
  ASSUME Listed, Len(list) = MaxNum, list' \in Seq(AnyRec), Len(list') = MaxNum,
         NEW e \in Nat, list'[MaxNum].ev = e,
         \A i \in 1 .. MaxNum - 1 : list'[i].ev = list[i + 1].ev
  PROVE  Log' = Append(Tail(Log), e)
<1> USE SelAssumption
<1>1. /\ MaxNum \in Nat /\ MaxNum >= 2
      /\ Log \in Seq(Nat) /\ Len(Log) = MaxNum
      /\ \A i \in 1 .. MaxNum : Log[i] = list[i].ev
  BY LogRecords
<1>2. Log' = [i \in 1 .. MaxNum |-> list'[i].ev]
  BY DEF Log
<1> DEFINE b == Tail(Log)
           a == Append(b, e)
<1>3. b \in Seq(Nat) /\ Len(b) = MaxNum - 1 /\ \A i \in 1 .. MaxNum - 1 : b[i] = Log[i + 1]
  BY <1>1
<1> HIDE DEF b
<1>4. /\ a = [i \in 1 .. MaxNum |-> a[i]] /\ a[MaxNum] = e
      /\ \A i \in 1 .. MaxNum - 1 : a[i] = b[i]
  <2>1. Len(b) \in Nat /\ Len(b) + 1 = MaxNum
    BY <1>1, <1>3
  <2>2. /\ DOMAIN a = 1 .. Len(b) + 1 /\ a = [i \in 1 .. Len(b) + 1 |-> a[i]]
        /\ a[Len(b) + 1] = e /\ \A i \in 1 .. Len(b) : a[i] = b[i]
    <3>1. b \in Seq(Nat) /\ Len(b) \in Nat /\ e \in Nat
      BY <1>3, <2>1
    <3>2. /\ a \in Seq(Nat) /\ Len(a) = Len(b) + 1
          /\ a[Len(b) + 1] = e /\ \A i \in 1 .. Len(b) : a[i] = b[i]
      BY <3>1, AppendProperties
    <3> HIDE DEF a
    <3>3. a \in [1 .. Len(b) + 1 -> Nat]
      BY <3>2, LenProperties
    <3> QED
      BY <3>2, <3>3
  <2> QED
    BY <1>3, <2>1, <2>2
<1> HIDE DEF a
<1>5. \A i \in 1 .. MaxNum : list'[i].ev = a[i]
  <2> SUFFICES ASSUME NEW i \in 1 .. MaxNum PROVE list'[i].ev = a[i]
    OBVIOUS
  <2>1. CASE i = MaxNum
    BY <1>4, <2>1
  <2>2. CASE i # MaxNum
    <3>1. i \in 1 .. MaxNum - 1 /\ i + 1 \in 1 .. MaxNum
      BY <1>1, <2>2
    <3> QED
      BY <1>1, <1>3, <1>4, <3>1
  <2> QED
    BY <2>1, <2>2
<1>6. [i \in 1 .. MaxNum |-> list'[i].ev] = [i \in 1 .. MaxNum |-> a[i]]
  BY <1>5
<1> QED
  BY <1>2, <1>4, <1>6 DEF a, b

\* The last step of an event records it.
LEMMA RecordStep ==
  ASSUME OneAtATime, SelInv, ListInv, Linked, NEW t \in Threads, AddNode(t)
  PROVE  EL!Next
<1> USE SelAssumption
<1>1. Typing /\ Serial /\ Busy(t) /\ Listed /\ Bounded /\ Behind(t)
  BY DEF SelInv, ListInv
<1>2. /\ pc[t] = "add" /\ pc' = [pc EXCEPT ![t] = "idle"]
      /\ list' = AddSelNode(list, msg[t]) /\ msg[t].id = Len(list) + 1
      /\ msg[t].ev = seen /\ msg[t] \in AnyRec
      /\ 0 < seen /\ \A i \in 1 .. Len(list) : list[i].ev < seen
  BY <1>1, RecordedOne DEF AddNode, Added, Linked, At, Behind, Busy, Typing, Pcs
<1>3. ~Starting /\ ~Starting'
  <2>1. pc[Main] \in {"add", "idle"}
    BY <1>1, <1>2 DEF Serial
  <2>2. pc'[Main] \in {"add", "idle"}
    BY <1>1, <1>2, <2>1 DEF Typing
  <2> QED
    BY <2>1, <2>2 DEF Starting
<1>4. /\ list \in Seq(AnyRec) /\ Len(list) \in Nat /\ Len(list) <= MaxNum
      /\ \A i \in 1 .. Len(list) : list[i].id = i
      /\ seen \in Nat /\ seen \in 1 .. MaxEvents /\ MaxNum \in Nat /\ MaxNum >= 2
  <2>1. seen \in Nat /\ seen <= MaxEvents /\ MaxEvents \in Nat
    BY <1>1 DEF Bounded, Typing
  <2>2. seen \in 1 .. MaxEvents
    BY <1>2, <2>1
  <2> QED
    BY <1>1, <2>1, <2>2, ListRecords DEF Listed
<1>5. Log' = Append(IF Len(Log) = MaxNum THEN Tail(Log) ELSE Log, seen)
  <2>1. Len(Log) = Len(list)
    BY <1>1, LogRecords
  <2>2. CASE Len(list) < MaxNum
    <3>1. list' = Append(list, msg[t])
      BY <1>2, <1>4, <2>2, AddSelNodeIs
    <3>2. Log' = Append(Log, msg[t].ev)
      BY <1>1, <1>2, <3>1, LogAppends
    <3> QED
      BY <1>2, <1>4, <2>1, <2>2, <3>2
  <2>3. CASE Len(list) = MaxNum
    <3>1. /\ list' \in Seq(AnyRec) /\ Len(list') = MaxNum
          /\ \A i \in 1 .. MaxNum - 1 : list'[i] = [id |-> i, ev |-> list[i + 1].ev]
          /\ list'[MaxNum] = [id |-> MaxNum, ev |-> msg[t].ev]
      <4> DEFINE r == msg[t]
                 g == AddSelNode(list, r)
      <4>1. /\ list \in Seq(AnyRec) /\ Len(list) = MaxNum
            /\ \A i \in 1 .. Len(list) : list[i].id = i
            /\ r \in AnyRec /\ r.id = Len(list) + 1 /\ list' = g
        BY <1>2, <1>4, <2>3
      <4> HIDE DEF r
      <4>2. /\ g \in Seq(AnyRec) /\ Len(g) = MaxNum
            /\ \A i \in 1 .. MaxNum - 1 : g[i] = [id |-> i, ev |-> list[i + 1].ev]
            /\ g[MaxNum] = [id |-> MaxNum, ev |-> r.ev]
        BY <4>1, AddSelNodeIs
      <4> HIDE DEF g
      <4> QED
        BY <4>1, <4>2 DEF r
    <3>2. list'[MaxNum].ev = seen
      BY <1>2, <3>1
    <3>3. ASSUME NEW i \in 1 .. MaxNum - 1 PROVE list'[i].ev = list[i + 1].ev
      <4>1. list'[i] = [id |-> i, ev |-> list[i + 1].ev]
        BY <3>1, <3>3
      <4> QED
        BY <4>1
    <3>4. Log' = Append(Tail(Log), seen)
      BY <1>1, <1>4, <2>3, <3>1, <3>2, <3>3, LogMovesUp
    <3> QED
      BY <2>1, <2>3, <3>4
  <2> QED
    BY <1>4, <2>2, <2>3
<1>6. \A i \in DOMAIN Log : Log[i] < seen
  <2>1. Log \in Seq(Nat) /\ Len(Log) = Len(list) /\ Len(list) \in Nat
    BY <1>1, LogRecords, ListRecords
  <2>2. \A i \in 1 .. Len(list) : Log[i] = list[i].ev /\ list[i].ev < seen
    BY <1>1, <1>2, LogRecords
  <2> QED
    BY <2>1, <2>2
<1>7. UNCHANGED Starting
  BY <1>3 DEF Starting
<1>8. EL!Record
  BY <1>3, <1>4, <1>5, <1>6, <1>7 DEF EL!Record, EL!Oldest, Log
<1> QED
  BY <1>8 DEF EL!Next

\* A record that start-up reads back is restored.
LEMMA RestoreStep ==
  ASSUME OneAtATime, SelInv, ListInv, ReadRecord
  PROVE  EL!Next
<1> USE SelAssumption
<1>1. /\ Typing /\ Reading /\ Ordered /\ Listed /\ Bounded /\ Behind(Main)
      /\ Len(file) <= MaxNum
  BY DEF SelInv, ListInv
<1> DEFINE n == pos + 1
           r == file[pos + 1]
<1>2. /\ pc[Main] = "read" /\ pos < Len(file) /\ r.id > 0 /\ UNCHANGED pc
      /\ list' = AddSelNode(list, r)
      /\ Len(list) = pos /\ \A i \in 1 .. pos : list[i] = file[i]
  BY <1>1 DEF ReadRecord, At, Behind
<1>3. /\ pos \in Nat /\ Len(file) \in Nat /\ MaxNum \in Nat /\ list \in Seq(AnyRec)
      /\ n \in 1 .. Len(file) /\ r \in AnyRec /\ r.ev \in Nat /\ r # Zero
      /\ seen \in Nat /\ seen <= MaxEvents /\ MaxEvents \in Nat
  <2>1. pos \in Nat /\ Len(file) \in Nat /\ seen \in Nat /\ list \in Seq(AnyRec)
    BY <1>1, FileRecords DEF Typing, Listed
  <2>2. n \in 1 .. Len(file)
    BY <1>2, <2>1
  <2>3. r \in AnyRec /\ r.ev \in Nat
    BY <1>1, <2>2, FileRecords
  <2>4. r # Zero
    BY <1>2 DEF Zero
  <2> QED
    BY <1>1, <2>1, <2>2, <2>3, <2>4 DEF Bounded
<1>4. r.id = n /\ 1 <= r.ev /\ r.ev <= seen
  BY <1>1, <1>3 DEF SelInv, Place, Ordered, Bounded
<1>5. Log' = Append(Log, r.ev)
  <2>1. /\ Len(list) <= MaxNum /\ Len(list) < MaxNum /\ r.id = Len(list) + 1
        /\ \A i \in 1 .. Len(list) : list[i].id = i
    BY <1>1, <1>2, <1>3, <1>4 DEF Listed
  <2>2. list' = Append(list, r)
    BY <1>2, <1>3, <2>1, AddSelNodeIs
  <2> HIDE DEF r
  <2> QED
    BY <1>1, <1>3, <2>2, LogAppends
<1>6. /\ r.ev \in 1 .. MaxEvents /\ Len(Log) < MaxNum
      /\ \A i \in DOMAIN Log : Log[i] <= r.ev
  <2>1. Log \in Seq(Nat) /\ Len(Log) = pos /\ \A i \in 1 .. pos : Log[i] = list[i].ev
    BY <1>1, <1>2, LogRecords
  <2>2. \A i \in 1 .. pos : file[i].ev <= r.ev
    <3>1. \A i \in 1 .. pos : i \in 1 .. Len(file) /\ i < n
      BY <1>3
    <3> QED
      BY <1>1, <1>3, <3>1 DEF Ordered
  <2>3. \A i \in 1 .. pos : Log[i] <= r.ev
    BY <1>2, <2>1, <2>2
  <2>4. r.ev \in 1 .. MaxEvents /\ pos < MaxNum
    BY <1>1, <1>2, <1>3, <1>4
  <2> QED
    BY <2>1, <2>3, <2>4
<1>7. Starting /\ Starting'
  BY <1>2 DEF Starting
<1> HIDE DEF r
<1> QED
  BY <1>5, <1>6, <1>7 DEF EL!Next, EL!Restore, Log

\* What can be read and whether it is being restored stay the same.
LEMMA LogStays == ASSUME UNCHANGED <<list, pc[Main]>> PROVE UNCHANGED <<Log, Starting>>
BY DEF Log, Starting

LEMMA RefinementStep ==
  ASSUME OneAtATime, SelInv, ListInv, Linked, [Next]_vars
  PROVE  EL!Next \/ UNCHANGED <<Log, Starting>>
<1> USE SelAssumption
<1>1. Typing /\ Serial /\ Listed /\ \A t \in Threads : Behind(t)
  BY DEF SelInv, ListInv
<1>2. CASE StartUp
  <2>1. CASE InitSel
    <3>1. /\ pc[Main] = "init" /\ list = <<>> /\ list' = <<>>
          /\ pc' = [pc EXCEPT ![Main] = "read"]
      BY <1>1, <2>1 DEF InitSel, At, Goto, Behind
    <3>2. Starting /\ Starting'
      BY <1>1, <3>1 DEF Starting, Typing
    <3>3. UNCHANGED Log
      BY <3>1 DEF Log
    <3> QED
      BY <3>2, <3>3 DEF Starting
  <2>2. CASE ReadRecord
    BY <2>2, RestoreStep
  <2>3. CASE ReadZero \/ ReadEnd
    <3>1. /\ pc[Main] = "read" /\ UNCHANGED list
          /\ pc' = [pc EXCEPT ![Main] = "setid"]
      BY <2>3 DEF ReadZero, ReadEnd, At, Goto
    <3>2. Starting /\ Starting'
      BY <1>1, <3>1 DEF Starting, Typing
    <3>3. UNCHANGED Log
      BY <3>1 DEF Log
    <3> QED
      BY <3>2, <3>3 DEF Starting
  <2>4. CASE SetId
    <3>1. /\ pc[Main] = "setid" /\ UNCHANGED list
          /\ pc' = [pc EXCEPT ![Main] = "idle"]
      BY <2>4 DEF SetId, At, Goto
    <3>2. Starting /\ Starting' = FALSE
      BY <1>1, <3>1 DEF Starting, Typing
    <3> QED
      BY <3>1, <3>2 DEF EL!Next, EL!Restored
  <2> QED
    BY <1>2, <2>1, <2>2, <2>3, <2>4 DEF StartUp
<1>3. CASE PollTimeout \/ PollEdge \/ HostChanges \/ UNCHANGED vars
  BY <1>3, LogStays DEF PollTimeout, PollEdge, HostChanges, vars
<1>4. CASE ClearFile \/ ClearId \/ \E t \in Threads : Signal(t)
  BY <1>4, LogStays DEF ClearFile, ClearId, Signal
<1>5. CASE ClearList
  <2>1. list' = <<>> /\ UNCHANGED pc /\ pc[Main] = "idle"
    BY <1>1, <1>5 DEF ClearList, Serial, None
  <2>2. ~Starting /\ UNCHANGED Starting
    BY <2>1 DEF Starting
  <2>3. Log' = <<>>
    BY <2>1 DEF Log
  <2> QED
    BY <2>2, <2>3 DEF EL!Next, EL!Clear, Log
<1>6. ASSUME NEW t \in Threads, Begin(t) \/ Handle(t)
      PROVE  EL!Next \/ UNCHANGED <<Log, Starting>>
  <2>1. CASE AddNode(t)
    BY <2>1, RecordStep
  <2>2. CASE ~AddNode(t)
    <3>1. /\ UNCHANGED list /\ pc[t] \in Pcs \ {"init", "read", "setid"}
          /\ \E p \in Pcs \ {"init", "read", "setid"} : pc' = [pc EXCEPT ![t] = p]
      BY <1>6, <2>2 DEF Begin, Handle, CheckUp, CheckDown, Wake, GenEvent, Lock,
                        IncUnlock, Rewind, ShiftRead, ShiftEof, ShiftWrite,
                        AddMsg, At, Goto, Pcs
    <3>2. Starting' = Starting
      BY <1>1, <3>1 DEF Starting, Typing, Pcs
    <3>3. UNCHANGED Log
      BY <3>1 DEF Log
    <3> QED
      BY <3>2, <3>3
  <2> QED
    BY <2>1, <2>2
<1>7. CASE PowerCut
  <2>1. /\ list' = <<>>
        /\ pc' = [t \in Threads |-> IF t = Main THEN "init" ELSE "idle"]
    BY <1>7 DEF PowerCut
  <2>2. Starting' = TRUE
    BY <2>1 DEF Starting
  <2>3. Log' = <<>>
    BY <2>1 DEF Log
  <2> QED
    BY <2>2, <2>3 DEF EL!Next, EL!Lose, Log
<1>8. CASE \E t, u \in Threads : AddsOverlap(t, u)
  BY <1>8, NoOverlap
<1> QED
  BY <1>2, <1>3, <1>4, <1>5, <1>6, <1>7, <1>8 DEF Next, Clear

\* What the host can read is a bounded log of events: every step of the code
\* is a step of EventLog or leaves the log as it is.
THEOREM ReadsAnEventLog == ASSUME OneAtATime PROVE Spec => ImplementsEventLog
<1>1. Init => EL!Init
  <2> SUFFICES ASSUME Init PROVE EL!Init
    OBVIOUS
  <2>1. list = <<>> /\ pc[Main] = "init"
    BY SelAssumption DEF Init
  <2>2. Log = <<>>
    BY <2>1 DEF Log
  <2>3. Starting = TRUE
    BY <2>1 DEF Starting
  <2> QED
    BY <2>2, <2>3 DEF EL!Init, Log
<1>2. SelInv /\ ListInv /\ Linked /\ [Next]_vars => [EL!Next]_<<Log, Starting>>
  BY RefinementStep
<1> QED
  BY <1>1, <1>2, AlwaysListInv, PTL DEF Spec, EL!Spec, ImplementsEventLog, Log
-----------------------------------------------------------------------------
(* Events that race: a third invariant                                     *)

RaceOnly == Faults \subseteq {"race"}

Handling == Pcs \ {"init", "read", "setid", "idle"}

\* A thread that has its id, and one whose id is beyond the limit.
Holds(t) == pc[t] \in Handling \ {"check", "sleep", "gen"}
Big(t)   == Holds(t) /\ msg[t].id > MaxNum

\* Neither the start-up nor the handler runs beside an event.
Apart ==
  /\ \A t \in Threads : pc[t] \in {"init", "read", "setid"} => t = Main
  /\ Starting => handler.on = None /\ \A t \in Threads : t # Main => pc[t] = "idle"
  /\ handler.on # None => \A t \in Threads : pc[t] = "idle"
  /\ handler.at # None => handler.on # None

\* No two threads record the same event.
Own ==
  \A t \in Threads : pc[t] \in Handling =>
    /\ msg[t].ev <= seen
    /\ \A u \in Threads : pc[u] \in Handling /\ msg[u].ev = msg[t].ev => t = u

\* Only an id beyond the limit shifts the file; while the counter is within
\* the limit such an id is the one from before the counter wrapped.
IdsHeld ==
  /\ \A t \in Threads :
       pc[t] \in {"rewind", "shiftread", "shiftwrite"} => msg[t].id > MaxNum
  /\ record_id <= MaxNum => \A t \in Threads : Big(t) => msg[t].id = Wrap
  /\ record_id = Wrap => \A t \in Threads : Holds(t) => msg[t].id = Wrap

\* A file whose ids are within the limit is read back as it is.
IdsWithin(n) == \A i \in 1 .. n : file[i].id <= MaxNum
Restoring ==
  /\ pc[Main] = "read" =>
       /\ pos <= Len(file) /\ rd.off = pos
       /\ IdsWithin(pos) => /\ list \in Seq(AnyRec) /\ Len(list) = pos
                            /\ \A i \in 1 .. pos : list[i] = file[i]
  /\ pc[Main] = "setid" => /\ pos = Len(file)
                           /\ IdsWithin(Len(file)) => list = file
  /\ handler.at \in {"list", "id"} => file = <<>> /\ pos = 0
  /\ handler.at = "id" => list = <<>>

\* How often an event is in a log, and on its way from the file to the list.
Tally(f, e) == Cardinality({i \in DOMAIN f : f[i].ev = e})
Pending(e)  == IF \E t \in Threads : pc[t] = "add" /\ msg[t].ev = e THEN 1 ELSE 0

\* The list does not run ahead of the file, nor behind it unless it may have
\* lost a node.
Level(e) ==
  /\ Tally(list, e) + Pending(e) <= Tally(file, e)
  /\ ring = "whole" => Tally(file, e) = Tally(list, e) + Pending(e)

\* While the counter is within the limit every record is appended to both; or
\* an id from before the counter wrapped is on its way, or is in the file.
Same ==
  /\ pos = Len(file) /\ list \in Seq(AnyRec)
  /\ \A t \in Threads : ~Big(t)
  /\ \A e \in 1 .. MaxEvents : Level(e)
Shifting == \E t \in Threads : Big(t) /\ pc[t] # "add"
Marked   == \E i \in 1 .. Len(file) : i <= pos /\ file[i].id > MaxNum
Outcome  == record_id <= MaxNum /\ ~Starting /\ handler.at # "list" =>
              Same \/ Shifting \/ Marked

RaceInv == Typing /\ Apart /\ Own /\ IdsHeld /\ Restoring /\ Outcome

-----------------------------------------------------------------------------
(* Files and tallies                                                       *)

\* A write at any position keeps the other records.
LEMMA PutAny ==
  ASSUME NEW f \in Seq(AnyRec), NEW p \in Nat, NEW r \in AnyRec
  PROVE  /\ Put(f, p, r) \in Seq(AnyRec)
         /\ Len(Put(f, p, r)) >= p + 1 /\ Put(f, p, r)[p + 1] = r
         /\ \A i \in 1 .. Len(f) : i <= p => Put(f, p, r)[i] = f[i]
<1>0. Len(f) \in Nat
  OBVIOUS
<1>1. CASE p < Len(f)
  <2>1. /\ Put(f, p, r) \in Seq(AnyRec) /\ Len(Put(f, p, r)) = Len(f)
        /\ Put(f, p, r)[p + 1] = r
        /\ \A i \in 1 .. Len(f) : i # p + 1 => Put(f, p, r)[i] = f[i]
    BY <1>1, PutInside
  <2> QED
    BY <1>0, <1>1, <2>1
<1>2. CASE p >= Len(f)
  <2> DEFINE m == p - Len(f)
             hole == [i \in 1 .. m |-> Zero]
             g == f \o hole
             h == Append(g, r)
  <2>1. m \in Nat /\ Zero \in AnyRec
    BY <1>0, <1>2 DEF Zero, AnyRec
  <2>2. hole \in Seq(AnyRec) /\ Len(hole) = m
    <3> HIDE DEF m
    <3> QED
      BY <2>1
  <2> HIDE DEF hole
  <2>3. /\ g \in Seq(AnyRec) /\ Len(g) = p
        /\ \A i \in 1 .. Len(f) : g[i] = f[i]
    <3>1. /\ g \in Seq(AnyRec) /\ Len(g) = Len(f) + Len(hole)
          /\ \A i \in 1 .. Len(f) + Len(hole) :
               g[i] = IF i <= Len(f) THEN f[i] ELSE hole[i - Len(f)]
      BY <2>2, ConcatProperties
    <3> HIDE DEF g
    <3>2. Len(f) + Len(hole) = p
      BY <1>0, <1>2, <2>2
    <3>3. \A i \in 1 .. Len(f) : i \in 1 .. Len(f) + Len(hole) /\ i <= Len(f)
      BY <1>0, <1>2, <3>2
    <3> QED
      BY <3>1, <3>2, <3>3
  <2>4. Put(f, p, r) = h
    <3>1. Put(f, p, r) = g \o <<r>>
      BY <1>0, <1>2 DEF Put, hole
    <3> HIDE DEF g
    <3> QED
      BY <2>3, <3>1, AppendIsConcat
  <2> HIDE DEF g
  <2>5. /\ h \in Seq(AnyRec) /\ Len(h) = p + 1 /\ h[p + 1] = r
        /\ \A i \in 1 .. p : h[i] = g[i]
    BY <2>3
  <2> HIDE DEF h
  <2>6. \A i \in 1 .. Len(f) : h[i] = f[i]
    BY <1>0, <1>2, <2>3, <2>5
  <2> QED
    BY <2>4, <2>5, <2>6
<1> QED
  BY <1>0, <1>1, <1>2

\* A record more counts for its own event.
LEMMA TallyAppend ==
  ASSUME NEW f \in Seq(AnyRec), NEW r \in AnyRec, NEW e \in Nat
  PROVE  /\ Tally(f, e) \in Nat
         /\ Tally(Append(f, r), e) = Tally(f, e) + IF r.ev = e THEN 1 ELSE 0
<1> DEFINE n == Len(f)
           a == Append(f, r)
           S == {i \in DOMAIN f : f[i].ev = e}
           T == {i \in DOMAIN a : a[i].ev = e}
<1>1. n \in Nat /\ DOMAIN f = 1 .. n
  OBVIOUS
<1>2. /\ DOMAIN a = 1 .. n + 1 /\ a[n + 1] = r
      /\ \A i \in 1 .. n : a[i] = f[i]
  BY <1>1
<1> HIDE DEF a
<1>3. IsFiniteSet(S) /\ Cardinality(S) \in Nat /\ n + 1 \notin S
  <2>1. IsFiniteSet(1 .. n) /\ S \subseteq 1 .. n
    BY <1>1, FS_Interval
  <2>2. IsFiniteSet(S)
    BY <2>1, FS_Subset
  <2> QED
    BY <1>1, <2>1, <2>2, FS_CardinalityType
<1>4. Tally(f, e) = Cardinality(S) /\ Tally(a, e) = Cardinality(T)
  BY DEF Tally
<1>5. CASE r.ev = e
  <2>1. T = S \cup {n + 1}
    <3>1. \A i \in 1 .. n + 1 : i \in 1 .. n \/ i = n + 1
      BY <1>1
    <3> QED
      BY <1>1, <1>2, <1>5, <3>1
  <2> HIDE DEF S, T
  <2>2. Cardinality(T) = Cardinality(S) + 1
    BY <1>3, <2>1, FS_AddElement
  <2> QED
    BY <1>3, <1>5, <1>4, <2>2 DEF a
<1>6. CASE r.ev # e
  <2>1. T = S
    <3>1. \A i \in 1 .. n + 1 : i \in 1 .. n \/ i = n + 1
      BY <1>1
    <3> QED
      BY <1>1, <1>2, <1>6, <3>1
  <2> HIDE DEF S, T
  <2> QED
    BY <1>3, <1>6, <1>4, <2>1 DEF a
<1> QED
  BY <1>5, <1>6

-----------------------------------------------------------------------------
(* Every step preserves RaceInv                                            *)

LEMMA PendingNat == ASSUME NEW e PROVE Pending(e) \in Nat
BY DEF Pending

LEMMA RaceInit == Init => RaceInv
<1> SUFFICES ASSUME Init PROVE RaceInv
  OBVIOUS
<1> USE SelAssumption DEF Init
<1>1. Typing
  BY DEF Typing, AnyRec, Zero, NoShift, Pcs, None
<1>2. Apart /\ Own /\ IdsHeld
  BY DEF Apart, Own, IdsHeld, Holds, Big, Handling, Starting, Pcs, None, Wrap
<1>3. Restoring
  BY DEF Restoring, None
<1>4. Outcome
  BY DEF Outcome, Starting
<1> QED
  BY <1>1, <1>2, <1>3, <1>4 DEF RaceInv

\* A thread that records an event runs beside neither start-up nor handler.
LEMMA EventFrame ==
  ASSUME RaceOnly, RaceInv, NEW t \in Threads, Begin(t) \/ Handle(t)
  PROVE  /\ UNCHANGED <<rd, handler>> /\ handler.on = None /\ handler.at = None
         /\ \E p \in Handling \cup {"idle"} : pc' = [pc EXCEPT ![t] = p]
         /\ \A u \in Threads : u # t => pc'[u] = pc[u]
         /\ pc[t] \in Handling \cup {"idle"} /\ pc'[t] \in Handling \cup {"idle"}
         /\ pc' \in [Threads -> Pcs]
         /\ ~Starting /\ ~Starting' /\ Apart' /\ Restoring'
<1> USE SelAssumption
<1>1. Typing /\ Apart
  BY DEF RaceInv
<1>2. /\ UNCHANGED <<rd, handler>> /\ pc[t] \in Handling \cup {"idle"}
      /\ pc[t] = "idle" => Begin(t)
      /\ \E p \in Handling \cup {"idle"} : pc' = [pc EXCEPT ![t] = p]
  <2>1. CASE AddNode(t)
    <3>1. pc[t] = "add" /\ Recorded({t}) /\ UNCHANGED <<rd, handler>>
      BY <2>1 DEF AddNode, At, Recorded
    <3>2. pc' = [pc EXCEPT ![t] = "idle"]
      BY <1>1, <3>1, RecordedOne
    <3> QED
      BY <3>1, <3>2 DEF Handling, Pcs
  <2>2. CASE ~AddNode(t)
    BY <2>2 DEF Begin, Handle, CheckUp, CheckDown, Wake, GenEvent, Lock, IncUnlock,
                Rewind, ShiftRead, ShiftEof, ShiftWrite, AddMsg, At, Goto,
                Handling, Pcs
  <2> QED
    BY <2>1, <2>2
<1>3. handler.on = None /\ ~Starting
  <2>1. CASE Begin(t)
    <3>1. Quiet \/ (~Starting /\ handler.on = None)
      BY <2>1 DEF RaceOnly, Begin, MayBegin
    <3> QED
      BY <3>1 DEF Quiet, Starting
  <2>2. CASE ~Begin(t)
    <3>1. pc[t] \in Handling
      BY <1>2, <2>2
    <3> QED
      BY <1>1, <3>1 DEF Apart, Handling, Starting, Pcs
  <2> QED
    BY <2>1, <2>2
<1>4. handler.at = None
  BY <1>1, <1>3 DEF Apart
<1>5. /\ \A u \in Threads : u # t => pc'[u] = pc[u]
      /\ pc'[t] \in Handling \cup {"idle"} /\ pc' \in [Threads -> Pcs]
  BY <1>1, <1>2 DEF Typing, Handling, Pcs
<1>6. ~Starting'
  BY <1>2, <1>3, <1>5 DEF Starting, Handling, Pcs
<1>7. Apart'
  BY <1>1, <1>2, <1>3, <1>4, <1>5, <1>6 DEF Apart, Handling, Pcs
<1>8. Restoring'
  BY <1>2, <1>4, <1>6 DEF Restoring, Starting, None
<1> QED
  BY <1>2, <1>3, <1>4, <1>5, <1>6, <1>7, <1>8

\* Before the counter moves nothing is written.
LEMMA RacePrepare ==
  ASSUME RaceOnly, RaceInv, NEW t \in Threads,
         \/ Begin(t) \/ CheckUp(t) \/ CheckDown(t) \/ Wake(t)
         \/ GenEvent(t) \/ Lock(t)
  PROVE  RaceInv'
<1> USE SelAssumption
<1>1. Typing /\ Own /\ IdsHeld /\ Outcome
  BY DEF RaceInv
<1>2. /\ UNCHANGED <<rd, handler>> /\ handler.on = None /\ handler.at = None
      /\ \A u \in Threads : u # t => pc'[u] = pc[u]
      /\ pc' \in [Threads -> Pcs]
      /\ ~Starting /\ ~Starting' /\ Apart' /\ Restoring'
  BY EventFrame DEF Handle
<1>3. /\ UNCHANGED <<file, list, pos, record_id, sh, ring>>
      /\ pc[t] \in {"idle", "check", "sleep", "gen", "lock"}
      /\ \E p \in {"check", "sleep", "gen", "lock", "inc"} : pc' = [pc EXCEPT ![t] = p]
  BY DEF Begin, CheckUp, CheckDown, Wake, GenEvent, Lock, At, Goto, aside
<1>4. pc'[t] \in {"check", "sleep", "gen", "lock", "inc"}
  BY <1>1, <1>3 DEF Typing
<1>5. /\ msg \in [Threads -> AnyRec] /\ seen \in Nat /\ record_id \in Nat
      /\ \A u \in Threads : msg[u].ev \in Nat /\ msg[u].id \in Nat
  BY <1>1 DEF Typing, AnyRec
<1>6. /\ msg' \in [Threads -> AnyRec] /\ seen' \in Nat
      /\ \A u \in Threads : u # t => msg'[u] = msg[u]
      /\ \/ Begin(t) /\ seen' = seen + 1 /\ msg'[t].ev = seen + 1 /\ pc'[t] = "check"
         \/ pc[t] \in Handling /\ seen' = seen /\ msg'[t].ev = msg[t].ev
      /\ \/ pc'[t] \in {"check", "sleep", "gen"}
         \/ pc'[t] = "lock" /\ msg'[t].id = record_id
         \/ pc'[t] = "inc" /\ pc[t] = "lock" /\ msg'[t] = msg[t]
  <2>1. CASE Begin(t)
    <3>1. /\ seen' = seen + 1 /\ pc' = [pc EXCEPT ![t] = "check"]
          /\ msg' = [msg EXCEPT ![t] = [id |-> 0, ev |-> seen + 1]]
      BY <2>1 DEF Begin, Goto
    <3>2. [id |-> 0, ev |-> seen + 1] \in AnyRec
      BY <1>5 DEF AnyRec
    <3>3. msg' \in [Threads -> AnyRec] /\ msg'[t].ev = seen + 1
      BY <1>5, <3>1, <3>2
    <3> QED
      BY <1>1, <1>5, <2>1, <3>1, <3>3 DEF Typing
  <2>2. CASE GenEvent(t)
    <3> DEFINE m == [msg[t] EXCEPT !.id = record_id]
    <3>1. /\ seen' = seen /\ pc' = [pc EXCEPT ![t] = "lock"] /\ pc[t] = "gen"
          /\ msg' = [msg EXCEPT ![t] = m]
      BY <2>2 DEF GenEvent, Goto, At
    <3>2. m \in AnyRec /\ m.id = record_id /\ m.ev = msg[t].ev
      BY <1>5 DEF AnyRec
    <3> HIDE DEF m
    <3>3. msg' \in [Threads -> AnyRec] /\ msg'[t] = m
      BY <1>5, <3>1, <3>2
    <3> QED
      BY <1>1, <1>5, <3>1, <3>2, <3>3 DEF Typing, Handling, Pcs
  <2>3. CASE CheckUp(t) \/ CheckDown(t) \/ Wake(t) \/ Lock(t)
    <3>1. /\ UNCHANGED <<msg, seen>> /\ pc[t] \in Handling
          /\ \/ pc' = [pc EXCEPT ![t] = "sleep"] \/ pc' = [pc EXCEPT ![t] = "gen"]
             \/ pc' = [pc EXCEPT ![t] = "inc"] /\ pc[t] = "lock"
      BY <2>3 DEF CheckUp, CheckDown, Wake, Lock, Goto, At, Handling, Pcs
    <3> QED
      BY <1>1, <1>5, <3>1 DEF Typing
  <2> QED
    BY <2>1, <2>2, <2>3
<1>7. Typing'
  BY <1>1, <1>2, <1>3, <1>6 DEF Typing
<1>8. Own'
  <2> SUFFICES ASSUME NEW u \in Threads, pc'[u] \in Handling
               PROVE  /\ msg'[u].ev <= seen'
                      /\ \A v \in Threads :
                           pc'[v] \in Handling /\ msg'[v].ev = msg'[u].ev => u = v
    BY DEF Own
  <2>1. \A v \in Threads : v # t => pc'[v] = pc[v] /\ msg'[v].ev = msg[v].ev
    BY <1>2, <1>6
  <2>2. CASE Begin(t) /\ seen' = seen + 1 /\ msg'[t].ev = seen + 1
    <3>1. \A v \in Threads : v # t /\ pc'[v] \in Handling => msg'[v].ev <= seen
      BY <1>1, <2>1 DEF Own
    <3>2. \A v \in Threads : v # t /\ pc'[v] \in Handling => msg'[v].ev # seen + 1
      BY <1>5, <2>1, <3>1
    <3>3. msg'[u].ev <= seen'
      BY <1>5, <2>1, <2>2, <3>1
    <3> QED
      BY <1>1, <2>1, <2>2, <3>2, <3>3 DEF Own
  <2>3. CASE pc[t] \in Handling /\ seen' = seen /\ msg'[t].ev = msg[t].ev
    BY <1>1, <2>1, <2>3 DEF Own
  <2> QED
    BY <1>6, <2>2, <2>3
<1>9. \A u \in Threads : /\ Holds(u)' /\ u # t => Holds(u) /\ msg'[u] = msg[u]
                         /\ Holds(t)' => \/ msg'[t].id = record_id
                                         \/ Holds(t) /\ msg'[t] = msg[t]
  BY <1>2, <1>4, <1>6 DEF Holds, Handling, Pcs
<1>10. IdsHeld'
  <2>1. \A u \in Threads : pc'[u] \in {"rewind", "shiftread", "shiftwrite"} =>
                             u # t /\ pc'[u] = pc[u] /\ msg'[u] = msg[u]
    BY <1>2, <1>4, <1>6
  <2>2. record_id <= MaxNum =>
          \A u \in Threads : Big(u)' => Big(u) /\ msg'[u] = msg[u]
    BY <1>5, <1>9 DEF Big
  <2> QED
    BY <1>1, <1>3, <1>9, <2>1, <2>2 DEF IdsHeld
<1>11. Outcome'
  <2> SUFFICES ASSUME record_id <= MaxNum PROVE (Same \/ Shifting \/ Marked)'
    BY <1>3 DEF Outcome
  <2>1. Same \/ Shifting \/ Marked
    BY <1>1, <1>2 DEF Outcome, None
  <2>2. CASE Same
    <3>1. \A u \in Threads : ~Big(u)'
      BY <1>5, <1>9, <2>2 DEF Same, Big
    <3>2. \A u \in Threads : /\ (pc'[u] = "add") <=> (pc[u] = "add")
                             /\ pc[u] = "add" => msg'[u] = msg[u]
      BY <1>2, <1>3, <1>4, <1>6
    <3>3. \A e \in 1 .. MaxEvents : Pending(e)' = Pending(e)
      BY <3>2 DEF Pending
    <3> QED
      BY <1>3, <2>2, <3>1, <3>3 DEF Same, Level, Tally
  <2>3. CASE Shifting
    <3>1. PICK u \in Threads : Big(u) /\ pc[u] # "add"
      BY <2>3 DEF Shifting
    <3>2. Big(u)' /\ pc'[u] # "add"
      <4>1. CASE u # t
        BY <1>2, <1>6, <3>1, <4>1 DEF Big, Holds
      <4>2. CASE u = t
        <5>1. pc[t] = "lock" /\ pc'[t] = "inc" /\ msg'[t] = msg[t]
          <6>1. pc[t] = "lock"
            BY <1>3, <3>1, <4>2 DEF Big, Holds, Handling, Pcs
          <6>2. Lock(t)
            BY <6>1 DEF Begin, CheckUp, CheckDown, Wake, GenEvent, At
          <6> QED
            BY <1>1, <6>1, <6>2 DEF Lock, Goto, Typing
        <5> QED
          BY <3>1, <4>2, <5>1 DEF Big, Holds, Handling, Pcs
      <4> QED
        BY <4>1, <4>2
    <3> QED
      BY <3>2 DEF Shifting
  <2>4. CASE Marked
    BY <1>3, <2>4 DEF Marked
  <2> QED
    BY <2>1, <2>2, <2>3, <2>4
<1> QED
  BY <1>2, <1>7, <1>8, <1>10, <1>11 DEF RaceInv

\* The counter takes a step, or stays beyond the limit, or wraps.
LEMMA RaceInc ==
  ASSUME RaceOnly, RaceInv, NEW t \in Threads, IncUnlock(t)
  PROVE  RaceInv'
<1> USE SelAssumption
<1>1. Typing /\ Own /\ IdsHeld /\ Outcome
  BY DEF RaceInv
<1>2. /\ UNCHANGED <<rd, handler>> /\ handler.on = None /\ handler.at = None
      /\ \A u \in Threads : u # t => pc'[u] = pc[u]
      /\ pc' \in [Threads -> Pcs]
      /\ ~Starting /\ ~Starting' /\ Apart' /\ Restoring'
  BY EventFrame DEF Handle
<1>3. /\ UNCHANGED <<file, list, pos, sh, msg, seen, ring>> /\ pc[t] = "inc"
      /\ record_id' = NextId(record_id)
      /\ pc' = [pc EXCEPT ![t] = IF msg[t].id <= MaxNum THEN "append" ELSE "rewind"]
  BY DEF IncUnlock, At, Goto, aside
<1>4. pc'[t] = IF msg[t].id <= MaxNum THEN "append" ELSE "rewind"
  BY <1>1, <1>3 DEF Typing
<1>5. /\ record_id \in Nat /\ record_id' \in Nat /\ record_id' # Wrap
      /\ record_id' <= MaxNum => record_id <= MaxNum \/ record_id = Wrap
      /\ MaxNum \in Nat /\ \A u \in Threads : msg[u].id \in Nat
  <2>1. record_id \in Nat /\ \A u \in Threads : msg[u].id \in Nat
    BY <1>1 DEF Typing, AnyRec
  <2> QED
    BY <1>3, <2>1 DEF NextId, Inc, Wrap
<1>6. Holds(t) /\ Holds(t)' /\ \A u \in Threads : Holds(u)' = Holds(u)
  BY <1>2, <1>3, <1>4 DEF Holds, Handling, Pcs
<1>7. \A u \in Threads : Big(u)' <=> Big(u)
  BY <1>3, <1>6 DEF Big
<1>8. Typing'
  BY <1>1, <1>2, <1>3, <1>5 DEF Typing
<1>9. Own'
  <2>1. \A u \in Threads : (pc'[u] \in Handling) <=> (pc[u] \in Handling)
    BY <1>2, <1>3, <1>4 DEF Handling, Pcs
  <2> QED
    BY <1>1, <1>3, <2>1 DEF Own
<1>10. IdsHeld'
  <2>1. \A u \in Threads :
          pc'[u] \in {"rewind", "shiftread", "shiftwrite"} => msg'[u].id > MaxNum
    BY <1>1, <1>2, <1>3, <1>4, <1>5 DEF IdsHeld
  <2>2. record_id' <= MaxNum => \A u \in Threads : Big(u)' => msg'[u].id = Wrap
    BY <1>1, <1>3, <1>5, <1>7 DEF IdsHeld, Big
  <2> QED
    BY <1>5, <2>1, <2>2 DEF IdsHeld
<1>11. Outcome'
  <2> SUFFICES ASSUME record_id' <= MaxNum PROVE (Same \/ Shifting \/ Marked)'
    BY DEF Outcome
  <2>1. CASE record_id = Wrap
    <3>1. msg[t].id = Wrap /\ Wrap > MaxNum /\ Wrap \in Nat
      BY <1>1, <1>6, <2>1 DEF IdsHeld, Wrap
    <3>2. Big(t)' /\ pc'[t] # "add"
      BY <1>3, <1>4, <1>5, <1>6, <3>1 DEF Big
    <3> QED
      BY <3>2 DEF Shifting
  <2>2. CASE record_id <= MaxNum
    <3>1. Same \/ Shifting \/ Marked
      BY <1>1, <1>2, <2>2 DEF Outcome, None
    <3>2. \A u \in Threads : (pc'[u] = "add") <=> (pc[u] = "add")
      BY <1>2, <1>3, <1>4
    <3>3. CASE Same
      <4>1. \A e \in 1 .. MaxEvents : Pending(e)' = Pending(e)
        BY <1>3, <3>2 DEF Pending
      <4> QED
        BY <1>3, <1>7, <3>3, <4>1 DEF Same, Level, Tally
    <3>4. CASE Shifting
      BY <1>7, <3>2, <3>4 DEF Shifting
    <3>5. CASE Marked
      BY <1>3, <3>5 DEF Marked
    <3> QED
      BY <3>1, <3>3, <3>4, <3>5
  <2> QED
    BY <1>5, <2>1, <2>2
<1> QED
  BY <1>2, <1>8, <1>9, <1>10, <1>11 DEF RaceInv

\* The file may be shifted by several threads at once: each of them has an id
\* beyond the limit.
LEMMA RaceShift ==
  ASSUME RaceOnly, RaceInv, NEW t \in Threads,
         Rewind(t) \/ ShiftRead(t) \/ ShiftEof(t) \/ ShiftWrite(t)
  PROVE  RaceInv'
<1> USE SelAssumption
<1>1. Typing /\ Own /\ IdsHeld
  BY DEF RaceInv
<1>2. /\ UNCHANGED <<rd, handler>>
      /\ \A u \in Threads : u # t => pc'[u] = pc[u]
      /\ pc' \in [Threads -> Pcs]
      /\ Apart' /\ Restoring'
  BY EventFrame DEF Handle
<1>3. /\ UNCHANGED <<list, record_id, msg, seen>>
      /\ pc[t] \in {"rewind", "shiftread", "shiftwrite"}
      /\ \E p \in {"shiftread", "shiftwrite", "append"} : pc' = [pc EXCEPT ![t] = p]
  BY DEF Rewind, ShiftRead, ShiftEof, ShiftWrite, At, Goto
<1>4. pc'[t] \in {"shiftread", "shiftwrite", "append"}
  BY <1>1, <1>3 DEF Typing
<1> DEFINE Shifts == [last : Nat, cur : Nat, cnt : Nat, rec : AnyRec]
<1>5. /\ file \in Seq(AnyRec) /\ Len(file) \in Nat /\ sh \in [Threads -> Shifts]
      /\ sh[t].last \in Nat /\ sh[t].cur \in Nat /\ sh[t].cnt \in Nat
      /\ sh[t].rec \in AnyRec /\ sh[t].rec.id \in Nat /\ sh[t] \in Shifts
  <2>1. file \in Seq(AnyRec) /\ sh \in [Threads -> Shifts]
    BY <1>1 DEF Typing
  <2>2. sh[t] \in Shifts
    <3> HIDE DEF Shifts
    <3> QED
      BY <2>1
  <2>3. /\ sh[t].last \in Nat /\ sh[t].cur \in Nat /\ sh[t].cnt \in Nat
        /\ sh[t].rec \in AnyRec
    BY <2>2
  <2>4. sh[t].rec.id \in Nat
    BY <2>3 DEF AnyRec
  <2> QED
    BY <2>1, <2>2, <2>3, <2>4
<1>6. file' \in Seq(AnyRec) /\ pos' \in Nat /\ sh' \in [Threads -> Shifts]
  <2>1. CASE Rewind(t)
    <3>1. [NoShift EXCEPT !.cur = pos'] = [last |-> 0, cur |-> pos', cnt |-> 0, rec |-> Zero]
      BY DEF NoShift
    <3>2. pos' \in Nat /\ UNCHANGED file
      BY <2>1 DEF Rewind
    <3>3. [NoShift EXCEPT !.cur = pos'] \in Shifts
      BY <3>1, <3>2 DEF Zero, AnyRec
    <3>4. sh' = [sh EXCEPT ![t] = [NoShift EXCEPT !.cur = pos']]
      BY <2>1 DEF Rewind
    <3> HIDE DEF Shifts
    <3> QED
      BY <1>5, <3>2, <3>3, <3>4
  <2>2. CASE ShiftRead(t)
    <3> DEFINE s == [sh[t] EXCEPT !.rec = file[sh[t].cur + 1], !.cur = sh[t].cur + 1]
    <3>1. /\ sh[t].cur < Len(file) /\ pos' = sh[t].cur + 1 /\ UNCHANGED file
          /\ sh' = [sh EXCEPT ![t] = s]
      BY <1>5, <2>2 DEF ShiftRead
    <3>2. sh[t].cur + 1 \in 1 .. Len(file)
      BY <1>5, <3>1
    <3>3. file[sh[t].cur + 1] \in AnyRec
      BY <1>5, <3>2, ElementOfSeq
    <3>4. s \in Shifts
      <4>1. sh[t].cur + 1 \in Nat /\ sh[t] \in Shifts
        BY <1>5
      <4> QED
        BY <3>3, <4>1
    <3> HIDE DEF s, Shifts
    <3> QED
      BY <1>5, <3>1, <3>4
  <2>3. CASE ShiftEof(t)
    BY <1>5, <2>3 DEF ShiftEof
  <2>4. CASE ShiftWrite(t)
    <3> DEFINE r == [sh[t].rec EXCEPT !.id = Dec(@)]
               s == [sh[t] EXCEPT !.last = sh[t].last + 1, !.cnt = sh[t].cnt + 1]
    <3>1. /\ file' = Put(file, sh[t].last, r) /\ pos' = sh[t].last + 1
          /\ sh' = [sh EXCEPT ![t] = s]
      BY <1>5, <2>4 DEF ShiftWrite
    <3>2. Dec(sh[t].rec.id) \in Nat
      BY <1>5 DEF Dec, Wrap
    <3>3. r \in AnyRec
      BY <1>5, <3>2 DEF AnyRec
    <3>4. s \in Shifts
      <4>1. sh[t].last + 1 \in Nat /\ sh[t].cnt + 1 \in Nat /\ sh[t] \in Shifts
        BY <1>5
      <4> QED
        BY <4>1
    <3> HIDE DEF r, s, Shifts
    <3>5. file' \in Seq(AnyRec)
      BY <1>5, <3>1, <3>3, PutAny
    <3> QED
      BY <1>5, <3>1, <3>4, <3>5
  <2> QED
    BY <2>1, <2>2, <2>3, <2>4
<1>7. Typing'
  BY <1>1, <1>2, <1>3, <1>6 DEF Typing
<1>8. \A u \in Threads : /\ Holds(u)' <=> Holds(u)
                         /\ (pc'[u] \in Handling) <=> (pc[u] \in Handling)
  BY <1>2, <1>3, <1>4 DEF Holds, Handling, Pcs
<1>9. Own'
  BY <1>1, <1>3, <1>8 DEF Own
<1>10. msg[t].id > MaxNum
  BY <1>1, <1>3 DEF IdsHeld
<1>11. IdsHeld'
  <2>1. \A u \in Threads :
          pc'[u] \in {"rewind", "shiftread", "shiftwrite"} => msg'[u].id > MaxNum
    BY <1>1, <1>2, <1>3, <1>10 DEF IdsHeld
  <2>2. \A u \in Threads : Big(u)' <=> Big(u)
    BY <1>3, <1>8 DEF Big
  <2> QED
    BY <1>1, <1>3, <1>8, <2>1, <2>2 DEF IdsHeld
<1>12. Shifting'
  BY <1>3, <1>4, <1>10 DEF Shifting, Big, Holds, Handling, Pcs
<1> QED
  BY <1>2, <1>7, <1>9, <1>11, <1>12 DEF RaceInv, Outcome

\* A record within the limit is appended; one from before the counter wrapped
\* leaves its id in the file.
LEMMA RaceAddMsg ==
  ASSUME RaceOnly, RaceInv, NEW t \in Threads, AddMsg(t)
  PROVE  RaceInv'
<1> USE SelAssumption
<1>1. Typing /\ Own /\ IdsHeld /\ Outcome
  BY DEF RaceInv
<1>2. /\ UNCHANGED <<rd, handler>> /\ handler.at = None
      /\ \A u \in Threads : u # t => pc'[u] = pc[u]
      /\ pc' \in [Threads -> Pcs]
      /\ ~Starting /\ Apart' /\ Restoring'
  BY EventFrame DEF Handle
<1> DEFINE r == [msg[t] EXCEPT !.id = FileId(@)]
<1>3. /\ UNCHANGED <<list, record_id, msg, sh, seen, ring>> /\ pc[t] = "append"
      /\ file' = Put(file, pos, r) /\ pos' = pos + 1
      /\ pc' = [pc EXCEPT ![t] = "add"]
  BY DEF AddMsg, At, Goto, aside
<1>4. pc'[t] = "add"
  BY <1>1, <1>3 DEF Typing
<1>5. /\ file \in Seq(AnyRec) /\ pos \in Nat /\ Len(file) \in Nat /\ MaxNum \in Nat
      /\ msg[t] \in AnyRec /\ msg[t].id \in Nat /\ msg[t].ev \in Nat
  <2>1. file \in Seq(AnyRec) /\ pos \in Nat /\ msg[t] \in AnyRec
    BY <1>1 DEF Typing
  <2>2. msg[t].id \in Nat /\ msg[t].ev \in Nat
    BY <2>1 DEF AnyRec
  <2> QED
    BY <2>1, <2>2
<1>6. r \in AnyRec /\ r.id = FileId(msg[t].id) /\ r.ev = msg[t].ev
  <2>1. FileId(msg[t].id) \in Nat
    BY <1>5 DEF FileId
  <2> QED
    BY <1>5, <2>1 DEF AnyRec
<1>7. msg[t].id <= MaxNum => r = msg[t]
  BY <1>5 DEF FileId, AnyRec
<1> HIDE DEF r
<1>8. /\ file' \in Seq(AnyRec) /\ pos' \in Nat
      /\ Len(file') >= pos + 1 /\ Len(file') \in Nat /\ file'[pos + 1] = r
      /\ \A i \in 1 .. Len(file) : i <= pos => file'[i] = file[i]
  <2>1. file \in Seq(AnyRec) /\ pos \in Nat /\ r \in AnyRec
    BY <1>5, <1>6
  <2>2. /\ file' \in Seq(AnyRec) /\ Len(file') >= pos + 1 /\ file'[pos + 1] = r
        /\ \A i \in 1 .. Len(file) : i <= pos => file'[i] = file[i]
    <3>1. /\ Put(file, pos, r) \in Seq(AnyRec)
          /\ Len(Put(file, pos, r)) >= pos + 1 /\ Put(file, pos, r)[pos + 1] = r
          /\ \A i \in 1 .. Len(file) : i <= pos => Put(file, pos, r)[i] = file[i]
      BY <2>1, PutAny
    <3>2. file' = Put(file, pos, r)
      BY <1>3
    <3> QED
      BY <3>1, <3>2
  <2> QED
    BY <1>3, <1>5, <2>2
<1>9. Typing'
  BY <1>1, <1>2, <1>3, <1>8 DEF Typing
<1>10. \A u \in Threads : /\ Holds(u)' <=> Holds(u)
                          /\ (pc'[u] \in Handling) <=> (pc[u] \in Handling)
  BY <1>2, <1>3, <1>4 DEF Holds, Handling, Pcs
<1>11. Own'
  BY <1>1, <1>3, <1>10 DEF Own
<1>12. \A u \in Threads : Big(u)' <=> Big(u)
  BY <1>3, <1>10 DEF Big
<1>13. IdsHeld'
  <2>1. \A u \in Threads :
          pc'[u] \in {"rewind", "shiftread", "shiftwrite"} => msg'[u].id > MaxNum
    BY <1>1, <1>2, <1>3, <1>4 DEF IdsHeld
  <2> QED
    BY <1>1, <1>3, <1>10, <1>12, <2>1 DEF IdsHeld
<1>14. Outcome'
  <2> SUFFICES ASSUME record_id <= MaxNum PROVE (Same \/ Shifting \/ Marked)'
    BY <1>3 DEF Outcome
  <2>1. Same \/ Shifting \/ Marked
    BY <1>1, <1>2 DEF Outcome, None
  <2>2. Holds(t)
    BY <1>3 DEF Holds, Handling, Pcs
  <2>3. CASE msg[t].id > MaxNum
    <3>1. msg[t].id = Wrap
      BY <1>1, <2>2, <2>3 DEF IdsHeld, Big
    <3>2. r.id > MaxNum
      BY <1>5, <1>6, <3>1 DEF FileId, Wrap
    <3>3. pos + 1 \in 1 .. Len(file') /\ pos + 1 <= pos'
      BY <1>3, <1>5, <1>8
    <3> QED
      BY <1>8, <3>2, <3>3 DEF Marked
  <2>4. CASE msg[t].id <= MaxNum
    <3>1. ~Big(t)
      BY <1>5, <2>4 DEF Big
    <3>2. CASE Shifting
      <4>1. PICK u \in Threads : Big(u) /\ pc[u] # "add"
        BY <3>2 DEF Shifting
      <4>2. Big(u)' /\ pc'[u] # "add"
        BY <1>2, <1>12, <3>1, <4>1
      <4> QED
        BY <4>2 DEF Shifting
    <3>3. CASE Marked
      <4>1. PICK i \in 1 .. Len(file) : i <= pos /\ file[i].id > MaxNum
        BY <3>3 DEF Marked
      <4>2. i \in 1 .. Len(file') /\ i <= pos' /\ file'[i].id > MaxNum
        BY <1>3, <1>5, <1>8, <4>1
      <4> QED
        BY <4>2 DEF Marked
    <3>4. CASE Same
      <4>1. file' = Append(file, msg[t]) /\ pos = Len(file)
        BY <1>3, <1>5, <1>6, <1>7, <2>4, <3>4, PutEnd DEF Same
      <4>2. pos' = Len(file')
        BY <1>3, <1>5, <4>1
      <4>3. ASSUME NEW e \in 1 .. MaxEvents
            PROVE  Level(e)'
        <5>1. /\ Tally(file', e) = Tally(file, e) + IF msg[t].ev = e THEN 1 ELSE 0
              /\ Tally(file, e) \in Nat
          <6>1. e \in Nat /\ file \in Seq(AnyRec) /\ msg[t] \in AnyRec
            BY <1>5
          <6> QED
            BY <4>1, <6>1, TallyAppend
        <5>2. Level(e)
          BY <3>4 DEF Same
        <5>3. Tally(list, e) \in Nat
          <6>1. e \in Nat /\ list \in Seq(AnyRec) /\ msg[t] \in AnyRec
            BY <1>5, <3>4 DEF Same
          <6> QED
            BY <6>1, TallyAppend
        <5>4. CASE msg[t].ev = e
          <6>1. Pending(e)' = 1
            BY <1>3, <1>4, <5>4 DEF Pending
          <6>2. Pending(e) = 0
            <7>1. ASSUME NEW u \in Threads, pc[u] = "add", msg[u].ev = e PROVE FALSE
              BY <1>1, <1>3, <5>4, <7>1 DEF Own, Handling, Pcs
            <7> QED
              BY <7>1 DEF Pending
          <6> QED
            BY <1>3, <5>1, <5>2, <5>3, <5>4, <6>1, <6>2 DEF Level, Tally
        <5>5. CASE msg[t].ev # e
          <6>1. \A u \in Threads : (pc'[u] = "add" /\ msg'[u].ev = e)
                                     <=> (pc[u] = "add" /\ msg[u].ev = e)
            BY <1>2, <1>3, <5>5
          <6>2. Pending(e)' = Pending(e)
            BY <6>1 DEF Pending
          <6> QED
            BY <1>3, <5>1, <5>2, <5>3, <5>5, <6>2, PendingNat DEF Level, Tally
        <5> QED
          BY <5>4, <5>5
      <4> QED
        BY <1>3, <1>12, <3>4, <4>2, <4>3 DEF Same
    <3> QED
      BY <2>1, <3>2, <3>3, <3>4
  <2> QED
    BY <1>5, <2>3, <2>4
<1> QED
  BY <1>2, <1>9, <1>11, <1>13, <1>14 DEF RaceInv

\* A node that is added, or lost, adds one event to the list, or none.
LEMMA AddedTally ==
  ASSUME NEW l \in Seq(AnyRec), NEW r \in AnyRec, r.id <= MaxNum, NEW e \in Nat
  PROVE  /\ Unlinked(l, r) = l /\ Added(l, r) \in Seq(AnyRec)
         /\ Tally(l, e) \in Nat /\ Tally(Added(l, r), e) \in Nat
         /\ Tally(Added(l, r), e) <= Tally(l, e) + IF r.ev = e THEN 1 ELSE 0
         /\ ring # "cut" =>
              Tally(Added(l, r), e) = Tally(l, e) + IF r.ev = e THEN 1 ELSE 0
<1>1. r.id \in Nat /\ MaxNum \in Nat
  BY SelAssumption DEF AnyRec
<1>2. Unlinked(l, r) = l
  BY <1>1 DEF Unlinked
<1>3. Added(l, r) = IF ring = "cut" THEN l ELSE Append(l, r)
  BY <1>1, <1>2 DEF Added, AddSelNode
<1>4. Append(l, r) \in Seq(AnyRec)
  OBVIOUS
<1>5. /\ Tally(l, e) \in Nat /\ Tally(Append(l, r), e) \in Nat
      /\ Tally(Append(l, r), e) = Tally(l, e) + IF r.ev = e THEN 1 ELSE 0
  BY <1>4, TallyAppend
<1>6. CASE ring = "cut"
  BY <1>2, <1>3, <1>5, <1>6
<1>7. CASE ring # "cut"
  BY <1>2, <1>3, <1>4, <1>5, <1>7
<1> QED
  BY <1>6, <1>7

\* Threads leave the driver: what is left to show is how the list is then.
LEMMA RaceRecorded ==
  ASSUME RaceOnly, RaceInv, NEW S \in SUBSET Threads, S # {}, Recorded(S),
         \A t \in S : pc[t] = "add",
         ASSUME Same
         PROVE  list' \in Seq(AnyRec) /\ \A e \in 1 .. MaxEvents : Level(e)'
  PROVE  RaceInv'
<1> USE SelAssumption
<1>1. Typing /\ Apart /\ Own /\ IdsHeld /\ Outcome
  BY DEF RaceInv
<1>2. /\ UNCHANGED <<file, pos, record_id, seen, rd, handler>>
      /\ pc' = [t \in Threads |-> IF t \in S THEN "idle" ELSE pc[t]]
      /\ msg' = [t \in Threads |-> IF t \in S THEN Zero ELSE msg[t]]
      /\ sh' = [t \in Threads |-> IF t \in S THEN NoShift ELSE sh[t]]
  BY DEF Recorded
<1>3. /\ \A u \in Threads : u \in S => pc'[u] = "idle" /\ msg'[u] = Zero
      /\ \A u \in Threads : u \notin S => pc'[u] = pc[u] /\ msg'[u] = msg[u]
      /\ pc' \in [Threads -> Pcs]
  BY <1>1, <1>2 DEF Typing, Pcs
<1>4. handler.on = None /\ handler.at = None /\ ~Starting /\ ~Starting'
  <2>1. PICK t \in S : pc[t] = "add" /\ t \in Threads
    OBVIOUS
  <2>2. handler.on = None /\ handler.at = None
    BY <1>1, <2>1 DEF Apart
  <2>3. ~Starting
    BY <1>1, <2>1 DEF Apart, Starting
  <2> QED
    BY <1>3, <2>2, <2>3 DEF Starting
<1>5. Apart'
  BY <1>1, <1>2, <1>3, <1>4 DEF Apart
<1>6. Restoring'
  BY <1>2, <1>4 DEF Restoring, Starting, None
<1>7. Typing'
  <2>1. Zero \in AnyRec /\ NoShift \in [last : Nat, cur : Nat, cnt : Nat, rec : AnyRec]
    BY DEF Zero, NoShift, AnyRec
  <2>2. msg' \in [Threads -> AnyRec]
    BY <1>1, <1>2, <2>1 DEF Typing
  <2>3. sh' \in [Threads -> [last : Nat, cur : Nat, cnt : Nat, rec : AnyRec]]
    <3> DEFINE Shifts == [last : Nat, cur : Nat, cnt : Nat, rec : AnyRec]
    <3>1. sh \in [Threads -> Shifts] /\ NoShift \in Shifts
      BY <1>1, <2>1 DEF Typing
    <3> HIDE DEF Shifts
    <3>2. sh' \in [Threads -> Shifts]
      BY <1>2, <3>1
    <3> QED
      BY <3>2 DEF Shifts
  <2> QED
    BY <1>1, <1>2, <1>3, <2>2, <2>3 DEF Typing
<1>8. \A u \in Threads : /\ Holds(u)' => Holds(u) /\ u \notin S
                         /\ pc'[u] \in Handling => pc[u] \in Handling /\ u \notin S
  BY <1>3 DEF Holds, Handling, Pcs
<1>9. Own'
  BY <1>1, <1>2, <1>3, <1>8 DEF Own
<1>10. \A u \in Threads : Big(u)' => Big(u) /\ u \notin S
  BY <1>3, <1>8 DEF Big
<1>11. IdsHeld'
  <2>1. \A u \in Threads :
          pc'[u] \in {"rewind", "shiftread", "shiftwrite"} => msg'[u].id > MaxNum
    BY <1>1, <1>3 DEF IdsHeld
  <2> QED
    BY <1>1, <1>2, <1>3, <1>8, <1>10, <2>1 DEF IdsHeld
<1>12. Outcome'
  <2> SUFFICES ASSUME record_id <= MaxNum PROVE (Same \/ Shifting \/ Marked)'
    BY <1>2 DEF Outcome
  <2>1. CASE Shifting
    <3>1. PICK u \in Threads : Big(u) /\ pc[u] # "add"
      BY <2>1 DEF Shifting
    <3>2. u \notin S /\ pc'[u] = pc[u] /\ msg'[u] = msg[u]
      BY <1>3, <3>1
    <3>3. Big(u)' /\ pc'[u] # "add"
      BY <3>1, <3>2 DEF Big, Holds
    <3> QED
      BY <3>3 DEF Shifting
  <2>2. CASE Marked
    BY <1>2, <2>2 DEF Marked
  <2>3. CASE Same
    BY <1>2, <1>10, <2>3 DEF Same
  <2> QED
    BY <1>1, <1>4, <2>1, <2>2, <2>3 DEF Outcome, None
<1> QED
  BY <1>5, <1>6, <1>7, <1>9, <1>11, <1>12 DEF RaceInv

\* A thread in the driver holds an id within the limit, if all is well.
LEMMA SameRecord ==
  ASSUME Typing, Same, NEW t \in Threads, pc[t] = "add"
  PROVE  msg[t] \in AnyRec /\ msg[t].id \in Nat /\ msg[t].id <= MaxNum
<1>1. msg[t] \in AnyRec /\ msg[t].id \in Nat /\ MaxNum \in Nat
  BY SelAssumption DEF Typing, AnyRec
<1>2. ~Big(t) /\ Holds(t)
  BY DEF Same, Holds, Handling, Pcs
<1> QED
  BY <1>1, <1>2 DEF Big

\* What is on its way when some of the threads in the driver have left it.
LEMMA PendingLeft ==
  ASSUME Typing, Own, NEW S \in SUBSET Threads, Recorded(S),
         \A t \in S : pc[t] = "add", NEW e
  PROVE  IF \E t \in S : msg[t].ev = e THEN Pending(e) = 1 /\ Pending(e)' = 0
                                      ELSE Pending(e)' = Pending(e)
<1>1. /\ \A u \in Threads : u \in S => pc'[u] = "idle"
      /\ \A u \in Threads : u \notin S => pc'[u] = pc[u] /\ msg'[u] = msg[u]
  BY DEF Recorded
<1>2. CASE \E t \in S : msg[t].ev = e
  <2>1. PICK t \in S : msg[t].ev = e /\ pc[t] = "add" /\ t \in Threads
    BY <1>2
  <2>2. Pending(e) = 1
    BY <2>1 DEF Pending
  <2>3. ASSUME NEW u \in Threads, pc'[u] = "add", msg'[u].ev = e PROVE FALSE
    <3>1. u \notin S
      BY <1>1, <2>3
    <3>2. pc[u] = "add" /\ msg[u].ev = e
      BY <1>1, <2>3, <3>1
    <3> QED
      BY <2>1, <3>1, <3>2 DEF Own, Handling, Pcs
  <2>4. Pending(e)' = 0
    BY <2>3 DEF Pending
  <2> QED
    BY <1>2, <2>2, <2>4
<1>3. CASE ~\E t \in S : msg[t].ev = e
  <2>1. \A u \in Threads : (pc'[u] = "add" /\ msg'[u].ev = e)
                             <=> (pc[u] = "add" /\ msg[u].ev = e)
    BY <1>1, <1>3
  <2>2. Pending(e)' = Pending(e)
    BY <2>1 DEF Pending
  <2> QED
    BY <1>3, <2>2
<1> QED
  BY <1>2, <1>3

\* The list catches up by the event that was on its way.
LEMMA RaceAddNode ==
  ASSUME RaceOnly, RaceInv, NEW t \in Threads, AddNode(t)
  PROVE  RaceInv'
<1>1. Typing /\ Own
  BY DEF RaceInv
<1>2. /\ pc[t] = "add" /\ Recorded({t}) /\ UNCHANGED <<file, ring>>
      /\ list' = Added(list, msg[t])
  BY DEF AddNode, At, Recorded
<1>3. ASSUME Same
      PROVE  list' \in Seq(AnyRec) /\ \A e \in 1 .. MaxEvents : Level(e)'
  <2> DEFINE r == msg[t]
  <2>1. r \in AnyRec /\ r.id <= MaxNum /\ list \in Seq(AnyRec)
    BY <1>1, <1>2, <1>3, SameRecord DEF Same
  <2> HIDE DEF r
  <2>2. ASSUME NEW e \in 1 .. MaxEvents PROVE list' \in Seq(AnyRec) /\ Level(e)'
    <3> DEFINE one == IF r.ev = e THEN 1 ELSE 0
    <3>1. e \in Nat
      BY SelAssumption
    <3>2. /\ Added(list, r) \in Seq(AnyRec)
          /\ Tally(list, e) \in Nat /\ Tally(Added(list, r), e) \in Nat
          /\ Tally(Added(list, r), e) <= Tally(list, e) + one
          /\ ring # "cut" => Tally(Added(list, r), e) = Tally(list, e) + one
      BY <2>1, <3>1, AddedTally
    <3>3. /\ Tally(list', e) = Tally(Added(list, r), e) /\ Tally(file', e) = Tally(file, e)
          /\ list' = Added(list, r)
      BY <1>2 DEF r
    <3>4. Level(e) /\ Tally(file, e) \in Nat
      <4>1. file \in Seq(AnyRec)
        BY <1>1 DEF Typing
      <4> QED
        BY <1>3, <2>1, <3>1, <4>1, TallyAppend DEF Same
    <3>5. Pending(e) = Pending(e)' + one /\ Pending(e)' \in Nat
      <4>1. IF r.ev = e THEN Pending(e) = 1 /\ Pending(e)' = 0
                        ELSE Pending(e)' = Pending(e)
        BY <1>1, <1>2, PendingLeft DEF r
      <4>2. Pending(e) \in Nat
        BY PendingNat
      <4> QED
        BY <4>1, <4>2
    <3> HIDE DEF one
    <3>6. one \in Nat
      BY DEF one
    <3>7. ring' = ring
      BY <1>2
    <3>8. /\ Tally(list', e) + Pending(e)' <= Tally(file', e)
          /\ ring' = "whole" => Tally(file', e) = Tally(list', e) + Pending(e)'
      BY <3>2, <3>3, <3>4, <3>5, <3>6, <3>7 DEF Level
    <3> QED
      BY <3>2, <3>3, <3>8 DEF Level, Tally
  <2>3. list' \in Seq(AnyRec)
    <3>1. Added(list, r) \in Seq(AnyRec)
      BY <2>1, AddedTally
    <3> QED
      BY <1>2, <3>1 DEF r
  <2> QED
    BY <2>2, <2>3
<1> QED
  BY <1>2, <1>3, RaceRecorded

\* Two threads that are in the driver together may lose a node, which leaves
\* the list behind the file.
LEMMA RaceAddsOverlap ==
  ASSUME RaceOnly, RaceInv, NEW t \in Threads, NEW u \in Threads, AddsOverlap(t, u)
  PROVE  RaceInv'
<1>1. Typing /\ Own
  BY DEF RaceInv
<1>2. /\ pc[t] = "add" /\ pc[u] = "add" /\ t # u /\ Recorded({t, u})
      /\ UNCHANGED file /\ ring' # "whole"
      /\ \/ list' = Added(Added(list, msg[t]), msg[u])
         \/ list' = Added(Unlinked(list, msg[t]), msg[u])
  BY DEF AddsOverlap, At, Recorded
<1>3. ASSUME Same
      PROVE  list' \in Seq(AnyRec) /\ \A e \in 1 .. MaxEvents : Level(e)'
  <2> DEFINE r == msg[t]
             q == msg[u]
             m == Added(list, r)
  <2>1. /\ r \in AnyRec /\ r.id <= MaxNum /\ list \in Seq(AnyRec)
        /\ q \in AnyRec /\ q.id <= MaxNum
    BY <1>1, <1>2, <1>3, SameRecord DEF Same
  <2>2. list' = Added(m, q) \/ list' = Added(Unlinked(list, r), q)
    BY <1>2
  <2>3. r.ev # q.ev
    BY <1>1, <1>2 DEF Own, Handling, Pcs
  <2>4. ASSUME NEW e \in 1 .. MaxEvents
        PROVE  IF r.ev = e \/ q.ev = e THEN Pending(e) = 1 /\ Pending(e)' = 0
                                       ELSE Pending(e)' = Pending(e)
    <3>1. IF \E v \in {t, u} : msg[v].ev = e THEN Pending(e) = 1 /\ Pending(e)' = 0
                                             ELSE Pending(e)' = Pending(e)
      BY <1>1, <1>2, PendingLeft
    <3> QED
      BY <3>1
  <2> HIDE DEF r, q
  <2>5. m \in Seq(AnyRec) /\ Unlinked(list, r) = list
    BY <2>1, AddedTally
  <2>6. ASSUME NEW e \in Nat
        PROVE  /\ list' \in Seq(AnyRec)
               /\ Tally(list, e) \in Nat /\ Tally(list', e) \in Nat
               /\ Tally(list', e) <= Tally(list, e) + (IF r.ev = e THEN 1 ELSE 0)
                                                    + (IF q.ev = e THEN 1 ELSE 0)
    <3>1. /\ Tally(list, e) \in Nat /\ Tally(m, e) \in Nat
          /\ Tally(m, e) <= Tally(list, e) + IF r.ev = e THEN 1 ELSE 0
      BY <2>1, AddedTally
    <3> HIDE DEF m
    <3>2. CASE list' = Added(m, q)
      <4>1. /\ Added(m, q) \in Seq(AnyRec) /\ Tally(Added(m, q), e) \in Nat
            /\ Tally(Added(m, q), e) <= Tally(m, e) + IF q.ev = e THEN 1 ELSE 0
        BY <2>1, <2>5, AddedTally
      <4>2. /\ list' \in Seq(AnyRec) /\ Tally(list', e) \in Nat
            /\ Tally(list', e) <= Tally(m, e) + IF q.ev = e THEN 1 ELSE 0
        BY <3>2, <4>1
      <4> QED
        BY <3>1, <4>2
    <3>3. CASE list' = Added(Unlinked(list, r), q)
      <4>1. /\ Added(list, q) \in Seq(AnyRec) /\ Tally(Added(list, q), e) \in Nat
            /\ Tally(Added(list, q), e) <= Tally(list, e) + IF q.ev = e THEN 1 ELSE 0
        BY <2>1, AddedTally
      <4>2. /\ list' \in Seq(AnyRec) /\ Tally(list', e) \in Nat
            /\ Tally(list', e) <= Tally(list, e) + IF q.ev = e THEN 1 ELSE 0
        BY <2>5, <3>3, <4>1
      <4> QED
        BY <3>1, <4>2
    <3> QED
      BY <2>2, <3>2, <3>3
  <2>7. ASSUME NEW e \in 1 .. MaxEvents PROVE Level(e)'
    <3>1. /\ Tally(list, e) \in Nat /\ Tally(list', e) \in Nat
          /\ Tally(list', e) <= Tally(list, e) + (IF r.ev = e THEN 1 ELSE 0)
                                               + (IF q.ev = e THEN 1 ELSE 0)
      <4>1. e \in Nat
        BY SelAssumption
      <4> QED
        BY <2>6, <4>1
    <3>2. Tally(file, e) \in Nat /\ Tally(list, e) + Pending(e) <= Tally(file, e)
      <4>1. file \in Seq(AnyRec) /\ e \in Nat
        BY <1>1, SelAssumption DEF Typing
      <4> QED
        BY <1>3, <2>1, <4>1, TallyAppend DEF Same, Level
    <3>3. IF r.ev = e \/ q.ev = e THEN Pending(e) = 1 /\ Pending(e)' = 0
                                  ELSE Pending(e)' = Pending(e)
      BY <2>4
    <3>4. Pending(e) \in Nat
      BY PendingNat
    <3>5. Tally(list', e) + Pending(e)' <= Tally(file, e)
      BY <2>3, <3>1, <3>2, <3>3, <3>4
    <3>6. Tally(file', e) = Tally(file, e)
      BY <1>2
    <3>7. Tally(list', e) + Pending(e)' <= Tally(file', e)
      BY <3>5, <3>6
    <3> QED
      BY <1>2, <3>7 DEF Level, Tally
  <2>8. list' \in Seq(AnyRec)
    BY <2>6
  <2> QED
    BY <2>7, <2>8
<1> QED
  <2> DEFINE S == {t, u}
  <2>1. S \in SUBSET Threads /\ S # {} /\ Recorded(S) /\ \A v \in S : pc[v] = "add"
    BY <1>2
  <2> HIDE DEF S
  <2> QED
    BY <1>3, <2>1, RaceRecorded

\* What the start-up reads back is the file, unless an id is beyond the limit.
LEMMA RaceStartUp ==
  ASSUME RaceOnly, RaceInv, StartUp
  PROVE  RaceInv'
<1> USE SelAssumption
<1>1. Typing /\ Apart /\ Restoring
  BY DEF RaceInv
<1>2. /\ pc[Main] \in {"init", "read", "setid"}
      /\ UNCHANGED <<msg, sh, handler, seen>>
      /\ \E p \in {"read", "setid", "idle"} : pc' = [pc EXCEPT ![Main] = p]
  BY <1>1 DEF StartUp, InitSel, ReadRecord, ReadZero, ReadEnd, SetId, At, Goto,
              Typing
<1>3. /\ handler.on = None /\ handler.at = None
      /\ \A u \in Threads : u # Main => pc[u] = "idle"
  BY <1>1, <1>2 DEF Apart, Starting
<1>4. /\ pc' \in [Threads -> Pcs] /\ pc'[Main] \in {"read", "setid", "idle"}
      /\ \A u \in Threads : u # Main => pc'[u] = "idle"
  BY <1>1, <1>2, <1>3 DEF Typing, Pcs
<1>5. \A u \in Threads : pc'[u] \notin Handling
  BY <1>4 DEF Handling, Pcs
<1>6. Apart'
  BY <1>2, <1>3, <1>4 DEF Apart, Starting
<1>7. Own' /\ \A u \in Threads : ~Holds(u)' /\ ~Big(u)'
  BY <1>5 DEF Own, Holds, Big
<1>8. IdsHeld'
  BY <1>5, <1>7 DEF IdsHeld, Handling, Pcs
<1>9. /\ MaxNum \in Nat /\ pos \in Nat /\ file \in Seq(AnyRec) /\ Len(file) \in Nat
      /\ rd.off \in Nat /\ rd.id \in Nat
  BY <1>1 DEF Typing
<1> DEFINE Good == Typing' /\ Restoring' /\ Outcome'
<1>10. ASSUME InitSel PROVE Good
  <2>1. /\ list' = <<>> /\ pos' = 0 /\ record_id' = 1 /\ UNCHANGED file
        /\ rd' = [off |-> 0, id |-> 0] /\ pc' = [pc EXCEPT ![Main] = "read"]
    BY <1>10 DEF InitSel, Goto
  <2>2. pc'[Main] = "read"
    BY <1>1, <2>1 DEF Typing
  <2>3. <<>> \in Seq(AnyRec) /\ Len(<<>>) = 0
    BY EmptySeq
  <2>4. Typing'
    BY <1>1, <1>2, <1>4, <2>1 DEF Typing
  <2>5. Restoring'
    BY <1>2, <1>3, <1>9, <2>1, <2>2, <2>3 DEF Restoring, None
  <2>6. Outcome'
    BY <2>2 DEF Outcome, Starting
  <2> QED
    BY <2>4, <2>5, <2>6
<1>11. ASSUME ReadRecord PROVE Good
  <2> DEFINE r == file[pos + 1]
             n == pos + 1
  <2>1. /\ pc[Main] = "read" /\ pos < Len(file)
        /\ list' = AddSelNode(list, r) /\ pos' = n /\ rd' = [off |-> n, id |-> r.id]
        /\ UNCHANGED <<file, pc, record_id>>
    BY <1>11 DEF ReadRecord, At
  <2>2. n \in 1 .. Len(file) /\ n \in Nat
    BY <1>9, <2>1
  <2>3. r \in AnyRec
    BY <1>9, <2>2, ElementOfSeq
  <2>4. r.id \in Nat
    BY <2>3 DEF AnyRec
  <2>5. Typing'
    BY <1>1, <1>2, <2>1, <2>2, <2>4 DEF Typing
  <2>6. ASSUME IdsWithin(n)
        PROVE  /\ list' \in Seq(AnyRec) /\ Len(list') = n
               /\ \A i \in 1 .. n : list'[i] = file[i]
    <3>1. /\ \A i \in 1 .. n : file[i].id <= MaxNum
          /\ \A i \in 1 .. pos : i \in 1 .. n
      BY <1>9, <2>2, <2>6 DEF IdsWithin
    <3>2. IdsWithin(pos) /\ r.id <= MaxNum
      BY <2>2, <3>1 DEF IdsWithin
    <3>3. /\ list \in Seq(AnyRec) /\ Len(list) = pos
          /\ \A i \in 1 .. pos : list[i] = file[i]
      BY <1>1, <2>1, <3>2 DEF Restoring
    <3>4. list' = Append(list, r)
      BY <1>9, <2>1, <2>4, <3>2 DEF AddSelNode
    <3> HIDE DEF r
    <3>5. /\ list' \in Seq(AnyRec) /\ Len(list') = n /\ list'[n] = r
          /\ \A i \in 1 .. pos : list'[i] = list[i]
      BY <1>9, <2>3, <3>3, <3>4
    <3> QED
      BY <1>9, <3>3, <3>5 DEF r
  <2> HIDE DEF r
  <2>7. Restoring'
    <3>1. pos' <= Len(file') /\ rd'.off = pos' /\ pos' = n /\ file' = file
      BY <1>9, <2>1
    <3>2. IdsWithin(n)' => IdsWithin(n)
      BY <2>1 DEF IdsWithin
    <3>3. IdsWithin(pos)' => IdsWithin(n)
      BY <3>1, <3>2 DEF IdsWithin
    <3>4. pc'[Main] = "read" /\ handler'.at = None
      BY <1>2, <1>3, <2>1
    <3> QED
      BY <2>6, <3>1, <3>3, <3>4 DEF Restoring, None
  <2>8. Outcome'
    BY <2>1 DEF Outcome, Starting
  <2> QED
    BY <2>5, <2>7, <2>8
<1>12. ASSUME ReadZero \/ ReadEnd PROVE Good
  <2>1. /\ pc[Main] = "read" /\ UNCHANGED <<list, record_id, rd>>
        /\ pc' = [pc EXCEPT ![Main] = "setid"]
        /\ \/ file' = SubSeq(file, 1, rd.off) /\ pos' = rd.off
           \/ file' = file /\ pos' = pos /\ pos >= Len(file)
    BY <1>12 DEF ReadZero, ReadEnd, At, Goto
  <2>2. /\ pos <= Len(file) /\ rd.off = pos
        /\ IdsWithin(pos) => /\ list \in Seq(AnyRec) /\ Len(list) = pos
                             /\ \A i \in 1 .. pos : list[i] = file[i]
    BY <1>1, <2>1 DEF Restoring
  <2>3. /\ file' \in Seq(AnyRec) /\ Len(file') = pos /\ pos' = pos
        /\ \A i \in 1 .. pos : file'[i] = file[i]
    <3>1. CASE file' = SubSeq(file, 1, rd.off) /\ pos' = rd.off
      <4>1. \A i \in 1 .. pos : i \in 1 .. Len(file)
        BY <1>9, <2>2
      <4> QED
        BY <1>9, <2>2, <3>1, <4>1, SubSeqProperties
    <3>2. CASE file' = file /\ pos' = pos /\ pos >= Len(file)
      BY <1>9, <2>2, <3>2
    <3> QED
      BY <2>1, <3>1, <3>2
  <2>4. pc'[Main] = "setid"
    BY <1>1, <2>1 DEF Typing
  <2>5. Typing'
    BY <1>1, <1>2, <1>4, <2>1, <2>3 DEF Typing
  <2>6. ASSUME \A i \in 1 .. Len(file') : file'[i].id <= MaxNum
        PROVE  list' = file'
    <3>1. IdsWithin(pos)
      BY <2>3, <2>6 DEF IdsWithin
    <3>2. /\ list \in Seq(AnyRec) /\ Len(list) = Len(file')
          /\ \A i \in 1 .. Len(list) : list[i] = file'[i]
      BY <2>2, <2>3, <3>1
    <3> QED
      BY <2>1, <2>3, <3>2, SeqEqual
  <2>7. Restoring'
    <3>1. IdsWithin(Len(file))' => list' = file'
      BY <2>6 DEF IdsWithin
    <3> QED
      BY <1>2, <1>3, <2>3, <2>4, <3>1 DEF Restoring, None
  <2>8. Outcome'
    BY <2>4 DEF Outcome, Starting
  <2> QED
    BY <2>5, <2>7, <2>8
<1>13. ASSUME SetId PROVE Good
  <2>1. /\ pc[Main] = "setid" /\ UNCHANGED <<list, file, pos, rd>>
        /\ record_id' = Inc(rd.id) /\ pc' = [pc EXCEPT ![Main] = "idle"]
    BY <1>13 DEF SetId, At, Goto
  <2>2. pc'[Main] = "idle"
    BY <1>1, <2>1 DEF Typing
  <2>3. Inc(rd.id) \in Nat
    BY <1>9 DEF Inc
  <2>4. Typing'
    BY <1>1, <1>2, <1>4, <2>1, <2>3 DEF Typing
  <2>5. Restoring'
    BY <1>2, <1>3, <2>2 DEF Restoring, None
  <2>6. pos = Len(file) /\ (IdsWithin(Len(file)) => list = file)
    BY <1>1, <2>1 DEF Restoring
  <2>7. CASE IdsWithin(Len(file))
    <3>1. list' = file' /\ pos' = Len(file') /\ list' \in Seq(AnyRec)
      BY <1>9, <2>1, <2>6, <2>7
    <3>2. ASSUME NEW e \in 1 .. MaxEvents
          PROVE  Level(e)'
      <4>1. Pending(e)' = 0
        BY <1>5 DEF Pending, Handling, Pcs
      <4>2. e \in Nat /\ list' \in Seq(AnyRec) /\ Zero \in AnyRec
        BY <3>1 DEF Zero, AnyRec
      <4>3. Tally(list', e) \in Nat
        BY <4>2, TallyAppend
      <4> QED
        BY <3>1, <4>1, <4>3 DEF Level, Tally
    <3>3. Same'
      BY <1>7, <3>1, <3>2 DEF Same
    <3> QED
      BY <2>4, <2>5, <3>3 DEF Outcome
  <2>8. CASE ~IdsWithin(Len(file))
    <3>1. PICK i \in 1 .. Len(file) : ~(file[i].id <= MaxNum)
      BY <2>8 DEF IdsWithin
    <3>2. file[i] \in AnyRec
      BY <1>9, ElementOfSeq
    <3>3. file[i].id \in Nat
      BY <3>2 DEF AnyRec
    <3>4. file[i].id > MaxNum /\ i <= pos
      BY <1>9, <2>6, <3>1, <3>3
    <3>5. Marked'
      BY <2>1, <3>4 DEF Marked
    <3> QED
      BY <2>4, <2>5, <3>5 DEF Outcome
  <2> QED
    BY <2>7, <2>8
<1>14. Good
  BY <1>10, <1>11, <1>12, <1>13 DEF StartUp
<1> QED
  BY <1>6, <1>7, <1>8, <1>14 DEF RaceInv

\* SIGUSR1 arrives between events and leaves an empty file and an empty list.
LEMMA RaceClear ==
  ASSUME RaceOnly, RaceInv,
         \/ \E t \in Threads : Signal(t)
         \/ ClearFile \/ ClearList \/ ClearId
  PROVE  RaceInv'
<1> USE SelAssumption
<1>1. Typing /\ Apart /\ Restoring /\ Outcome
  BY DEF RaceInv
<1>2. /\ UNCHANGED <<seen, rd, pc, msg, sh>>
      /\ \A t \in Threads : pc[t] = "idle"
  BY <1>1 DEF Signal, ClearFile, ClearList, ClearId, MayClear, RaceOnly, Quiet,
              Apart, None
<1>3. /\ \A t \in Threads : pc'[t] = "idle" /\ pc'[t] \notin Handling
      /\ ~Starting /\ ~Starting'
  BY <1>2 DEF Handling, Pcs, Starting
<1>4. /\ Own'
      /\ \A t \in Threads : /\ ~Holds(t) /\ ~Holds(t)'
                            /\ ~Big(t) /\ ~Big(t)'
  BY <1>2, <1>3 DEF Own, Holds, Big, Handling, Pcs
<1>5. IdsHeld'
  BY <1>3, <1>4 DEF IdsHeld
<1>6. \A e \in 1 .. MaxEvents : Pending(e) = 0 /\ Pending(e)' = 0
  BY <1>2, <1>3 DEF Pending
<1> DEFINE Good == Typing' /\ Apart' /\ Restoring' /\ Outcome'
           H == [on : Threads \cup {None}, at : {None, "file", "list", "id"}]
<1>7. handler \in H
  BY <1>1 DEF Typing
<1>8. ASSUME file' = <<>>, list' = <<>>, pos' = 0
      PROVE  Same'
  <2>1. /\ <<>> \in Seq(AnyRec) /\ Len(<<>>) = 0 /\ Zero \in AnyRec
    BY EmptySeq DEF Zero, AnyRec
  <2>2. ASSUME NEW e \in 1 .. MaxEvents
        PROVE  Level(e)'
    <3>1. e \in Nat
      OBVIOUS
    <3>2. Tally(<<>>, e) \in Nat
      BY <2>1, <3>1, TallyAppend
    <3>3. Tally(file', e) = Tally(<<>>, e) /\ Tally(list', e) = Tally(<<>>, e)
      BY <1>8
    <3>4. Tally(file', e) = Tally(list', e) + 0 /\ Tally(file', e) \in Nat
      BY <3>2, <3>3
    <3> QED
      BY <1>6, <3>4 DEF Level, Tally
  <2> QED
    BY <1>4, <1>8, <2>1, <2>2 DEF Same
<1>9. ASSUME \E t \in Threads : Signal(t) PROVE Good
  <2>1. PICK t \in Threads : Signal(t)
    BY <1>9
  <2>2. /\ UNCHANGED <<file, list, pos, record_id, ring>>
        /\ handler' = [on |-> t, at |-> "file"] /\ handler.on = None
    BY <2>1 DEF Signal, aside
  <2>3. handler' \in H /\ handler'.at = "file" /\ handler.at = None
    BY <1>1, <2>2 DEF Apart
  <2>4. Typing' /\ Restoring' /\ Apart'
    BY <1>1, <1>2, <1>3, <2>2, <2>3 DEF Typing, Restoring, Apart, None
  <2>5. Outcome'
    <3> SUFFICES ASSUME record_id <= MaxNum PROVE (Same \/ Shifting \/ Marked)'
      BY <2>2 DEF Outcome
    <3>1. Same \/ Shifting \/ Marked
      BY <1>1, <1>3, <2>3 DEF Outcome, None
    <3>2. Same => Same'
      BY <1>2, <1>4, <1>6, <2>2 DEF Same, Level, Tally
    <3>3. Marked => Marked'
      BY <2>2 DEF Marked
    <3> QED
      BY <1>4, <3>1, <3>2, <3>3 DEF Shifting
  <2> QED
    BY <2>4, <2>5
<1>10. ASSUME ClearFile PROVE Good
  <2>1. /\ file' = <<>> /\ pos' = 0 /\ UNCHANGED <<list, record_id>>
        /\ handler' = [handler EXCEPT !.at = "list"]
    BY <1>10 DEF ClearFile
  <2>2. handler' \in H /\ handler'.at = "list" /\ handler'.on = handler.on
    BY <1>7, <2>1
  <2>3. handler'.on # None
    BY <1>1, <1>10, <2>2 DEF Apart, ClearFile, None
  <2>4. file' \in Seq(AnyRec)
    BY <2>1, EmptySeq
  <2>5. Typing' /\ Restoring' /\ Apart'
    BY <1>1, <1>2, <1>3, <2>1, <2>2, <2>3, <2>4 DEF Typing, Restoring, Apart, None
  <2> QED
    BY <2>2, <2>5 DEF Outcome
<1>11. ASSUME ClearList PROVE Good
  <2>1. /\ UNCHANGED <<file, pos, record_id>> /\ list' = <<>>
        /\ handler' = [handler EXCEPT !.at = "id"] /\ handler.at = "list"
    BY <1>11 DEF ClearList
  <2>2. handler' \in H /\ handler'.at = "id" /\ handler'.on = handler.on
    BY <1>7, <2>1
  <2>3. handler'.on # None /\ file = <<>> /\ pos = 0
    BY <1>1, <2>1, <2>2 DEF Apart, Restoring, None
  <2>4. Typing' /\ Restoring' /\ Apart'
    BY <1>1, <1>2, <1>3, <2>1, <2>2, <2>3 DEF Typing, Restoring, Apart, None
  <2>5. Same'
    BY <1>8, <2>1, <2>3
  <2> QED
    BY <2>4, <2>5 DEF Outcome
<1>12. ASSUME ClearId PROVE Good
  <2>1. /\ UNCHANGED <<file, list, pos>> /\ record_id' = 1
        /\ handler' = [on |-> None, at |-> None] /\ handler.at = "id"
    BY <1>12 DEF ClearId
  <2>2. handler' \in H /\ handler'.at = None /\ handler'.on = None
    BY <2>1
  <2>3. file = <<>> /\ list = <<>> /\ pos = 0
    BY <1>1, <2>1 DEF Restoring
  <2>4. Typing' /\ Restoring' /\ Apart'
    BY <1>1, <1>2, <1>3, <2>1, <2>2, <2>3 DEF Typing, Restoring, Apart, None
  <2>5. Same'
    BY <1>8, <2>1, <2>3
  <2> QED
    BY <2>4, <2>5 DEF Outcome
<1>13. Good
  BY <1>9, <1>10, <1>11, <1>12
<1> QED
  BY <1>4, <1>5, <1>13 DEF RaceInv

\* After a power cut nothing is on its way.
LEMMA RacePowerCut ==
  ASSUME RaceInv, PowerCut
  PROVE  RaceInv'
<1> USE SelAssumption
<1>1. Typing
  BY DEF RaceInv
<1>2. /\ pos' = 0 /\ record_id' = 0 /\ seen' = seen
      /\ pc' = [t \in Threads |-> IF t = Main THEN "init" ELSE "idle"]
      /\ msg' = [t \in Threads |-> Zero] /\ sh' = [t \in Threads |-> NoShift]
      /\ rd' = [off |-> 0, id |-> 0] /\ handler' = [on |-> None, at |-> None]
  BY DEF PowerCut
<1>3. Zero \in AnyRec /\ NoShift \in [last : Nat, cur : Nat, cnt : Nat, rec : AnyRec]
  BY DEF Zero, NoShift, AnyRec
<1>4. file' \in Seq(AnyRec)
  <2>1. CASE UNCHANGED file
    BY <1>1, <2>1 DEF Typing
  <2>2. CASE file # <<>> /\ file' = [file EXCEPT ![Len(file)] = Zero]
    <3>1. file \in Seq(AnyRec) /\ Len(file) \in 1 .. Len(file)
      BY <1>1, <2>2 DEF Typing
    <3> QED
      BY <1>3, <2>2, <3>1, ExceptSeq
  <2> QED
    BY <2>1, <2>2 DEF PowerCut
<1>5. Typing'
  BY <1>1, <1>2, <1>3, <1>4 DEF Typing, Pcs, None
<1>6. \A t \in Threads : /\ pc'[t] = "idle" \/ (t = Main /\ pc'[t] = "init")
                         /\ pc'[t] \notin Handling
  BY <1>2 DEF Handling, Pcs
<1>7. pc'[Main] = "init" /\ Starting'
  BY <1>2 DEF Starting
<1>8. Apart' /\ Restoring' /\ Outcome'
  BY <1>2, <1>6, <1>7 DEF Apart, Restoring, Outcome, None
<1>9. Own' /\ \A t \in Threads : ~Holds(t)' /\ ~Big(t)'
  BY <1>6 DEF Own, Holds, Big
<1>10. IdsHeld'
  BY <1>6, <1>9 DEF IdsHeld, Handling, Pcs
<1> QED
  BY <1>5, <1>8, <1>9, <1>10 DEF RaceInv

LEMMA RaceStep ==
  ASSUME RaceOnly, RaceInv, [Next]_vars
  PROVE  RaceInv'
<1>1. CASE StartUp
  BY <1>1, RaceStartUp
<1>2. CASE PollTimeout \/ PollEdge \/ HostChanges \/ UNCHANGED vars
  <2>1. UNCHANGED <<file, list, pos, record_id, pc, msg, sh, rd, handler, seen,
                   ring>>
    BY <1>2 DEF PollTimeout, PollEdge, HostChanges, vars, aside
  <2>2. (Typing /\ Apart /\ Own)'
    BY <2>1 DEF RaceInv, Typing, Apart, Own, Starting
  <2>3. (IdsHeld /\ Restoring)'
    BY <2>1 DEF RaceInv, IdsHeld, Big, Holds, Restoring, IdsWithin
  <2>4. Outcome'
    BY <2>1 DEF RaceInv, Outcome, Starting, Same, Shifting, Marked, Big, Holds,
                Level, Tally, Pending
  <2> QED
    BY <2>2, <2>3, <2>4 DEF RaceInv
<1>3. CASE Clear \/ \E t \in Threads : Signal(t)
  BY <1>3, RaceClear DEF Clear
<1>4. CASE \E t \in Threads : Begin(t) \/ Handle(t)
  BY <1>4, RacePrepare, RaceInc, RaceShift, RaceAddMsg, RaceAddNode DEF Handle
<1>5. CASE PowerCut
  BY <1>5, RacePowerCut
<1>6. CASE \E t, u \in Threads : AddsOverlap(t, u)
  BY <1>6, RaceAddsOverlap
<1> QED
  BY <1>1, <1>2, <1>3, <1>4, <1>5, <1>6 DEF Next

LEMMA AlwaysRaceInv == ASSUME RaceOnly PROVE Spec => []RaceInv
BY RaceInit, RaceStep, PTL DEF Spec

\* Threads that record events at once, with a power cut at any step, lose none
\* in the file while the log is not full and no id has wrapped.  Between events
\* the list holds no event oftener than the file, and the same ones as often if
\* no two threads have been in the driver together.
THEOREM RacersLoseNone == ASSUME RaceOnly PROVE Spec => []SameEvents
<1>1. RaceInv => SameEvents
  <2> SUFFICES ASSUME RaceInv, Quiet, record_id <= MaxNum,
                      \A i \in DOMAIN file : file[i].id <= MaxNum
               PROVE  /\ \A e \in 1 .. MaxEvents : Events(list)[e] <= Events(file)[e]
                      /\ ring = "whole" => Events(file) = Events(list)
    BY DEF SameEvents
  <2> USE SelAssumption
  <2>1. Typing /\ Apart /\ Outcome
    BY DEF RaceInv
  <2>2. /\ \A t \in Threads : pc[t] = "idle"
        /\ ~Starting /\ handler.at = None
    BY <2>1 DEF Quiet, Apart, Starting
  <2>3. Same \/ Shifting \/ Marked
    BY <2>1, <2>2 DEF Outcome, None
  <2>4. ~Shifting
    BY <2>2 DEF Shifting, Big, Holds, Handling, Pcs
  <2>5. ~Marked
    <3>1. ASSUME NEW i \in 1 .. Len(file) PROVE ~(file[i].id > MaxNum)
      <4>1. file \in Seq(AnyRec) /\ MaxNum \in Nat
        BY <2>1 DEF Typing
      <4>2. file[i] \in AnyRec /\ i \in DOMAIN file
        BY <4>1, ElementOfSeq
      <4>3. file[i].id \in Nat /\ file[i].id <= MaxNum
        BY <4>2 DEF AnyRec
      <4> QED
        BY <4>1, <4>3
    <3> QED
      BY <3>1 DEF Marked
  <2>6. ASSUME NEW e \in 1 .. MaxEvents
        PROVE  /\ Tally(list, e) <= Tally(file, e)
               /\ ring = "whole" => Tally(file, e) = Tally(list, e)
    <3>1. Level(e) /\ list \in Seq(AnyRec)
      BY <2>3, <2>4, <2>5 DEF Same
    <3>2. Pending(e) = 0
      BY <2>2 DEF Pending
    <3>3. e \in Nat /\ Zero \in AnyRec
      BY DEF Zero, AnyRec
    <3>4. Tally(list, e) \in Nat
      BY <3>1, <3>3, TallyAppend
    <3> QED
      BY <3>1, <3>2, <3>4 DEF Level
  <2> QED
    BY <2>6 DEF Events, Tally
<1> QED
  BY <1>1, AlwaysRaceInv, PTL
=============================================================================
