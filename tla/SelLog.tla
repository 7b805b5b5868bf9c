------------------------------- MODULE SelLog -------------------------------
(***************************************************************************)
(* The system event log of is_ubmc_ipmi.  Every event is written to the    *)
(* file /var/log/sel and then added to the driver's list, from which the   *)
(* kernel answers the host's Get SEL Entry.  A record's id is its place in *)
(* the log.  When the log is full the file is shifted in place, one record *)
(* at a time, and the driver renumbers its list.  At start-up the list is  *)
(* rebuilt from the file, which a power cut may have left half shifted or  *)
(* with a record of zeros at its end.                                      *)
(*                                                                         *)
(* The sensor thread and the main thread (which polls the GPIOs) both      *)
(* record events; SIGUSR1 clears the log from a signal handler.  Nothing   *)
(* but the counter record_id is under a mutex, so which of them may        *)
(* overlap is the parameter Faults.                                        *)
(*                                                                         *)
(* A file is a sequence of records and a position counts records.  fseek   *)
(* followed by fread or fwrite is one step; the bytes of a record, its     *)
(* byte order and I/O errors are left out.                                 *)
(***************************************************************************)
EXTENDS Naturals, FiniteSets, Sequences

CONSTANTS Threads,      \* the threads that record events
          Main,         \* the one that starts up and polls the GPIOs
          MaxNum,       \* SEL_ENTRY_MAXNUM
          MaxEvents,    \* bound: the events of one behaviour
          Faults        \* which overlaps happen: see below

(***************************************************************************)
(* A record's id is an unsigned short and SEL_ENTRY_MAXNUM is 200.         *)
(*                                                                         *)
(* "race": an event begins while another one is being recorded.  "early":  *)
(* an event begins while the file is still being read at start-up.         *)
(* "clear": SIGUSR1 arrives during an event or the start-up, or an event   *)
(* begins while the handler runs on the other thread.                      *)
(***************************************************************************)
Wrap == 65535
ASSUME SelAssumption == /\ Main \in Threads /\ "none" \notin Threads
                        /\ MaxNum \in Nat \ {0, 1} /\ MaxNum < Wrap - 1
                        /\ MaxEvents \in Nat
                        /\ Faults \subseteq {"race", "early", "clear"}

VARIABLES
  file,         \* /var/log/sel: a sequence of records
  pos,          \* the position of sel_msg_fd, shared by all
  list,         \* the driver's list of records
  record_id,    \* ubmc_ipmi_sel.record_id
  mutex,        \* record_mutex: a thread or None
  state,        \* ubmc_ipmi_sel.state > 0: events are recorded
  host,         \* what the host's S45, S3 and PLTRST pins say
  pc,           \* where each thread is
  msg,          \* the event each thread is recording
  sh,           \* the places of the shift: the record written, read, counted
  rd,           \* start-up: records read back and the id of the last of them
  handler,      \* where the signal handler is and the thread it interrupts
  seen,         \* events so far; the next event is seen + 1
  ring,         \* how the driver's list is linked: see Added
  noisy         \* the pins change more often than every two seconds

aside == <<ring, noisy>>
vars == <<file, pos, list, record_id, mutex, state, host, pc, msg, sh, rd,
          handler, seen, aside>>

-----------------------------------------------------------------------------
None == "none"
Dec(n) == IF n = 0 THEN Wrap ELSE n - 1
Inc(n) == IF n = Wrap THEN 0 ELSE n + 1

Ids     == 0 .. Wrap
Rec     == [id : Ids, ev : Nat]
Zero    == [id |-> 0, ev |-> 0]
Host    == {"on", "s45", "s3", "reset"}
Pcs     == {"init", "read", "setid", "idle", "check", "sleep", "gen", "lock",
            "inc", "rewind", "shiftread", "shiftwrite", "append", "add"}
NoShift == [last |-> 0, cur |-> 0, cnt |-> 0, rec |-> Zero]

\* fwrite of one record at position p: past the end it leaves a hole of zeros.
Put(f, p, r) ==
  IF p < Len(f) THEN [f EXCEPT ![p + 1] = r]
                ELSE f \o [i \in 1 .. (p - Len(f)) |-> Zero] \o <<r>>

\* Mutant: the node that reaches 0 stays.
DelThenAddKeeps(l, r) ==
  Append([i \in DOMAIN l |-> [l[i] EXCEPT !.id = Dec(@)]], [r EXCEPT !.id = MaxNum])

\* Mutant: the first node goes and the others keep their ids.
DelThenAddSame(l, r) == Append(IF l = <<>> THEN l ELSE Tail(l), [r EXCEPT !.id = MaxNum])

\* What is left of a list when only the places K of it stay.
Nth(K, n)  == CHOOSE i \in K : Cardinality({j \in K : j <= i}) = n
Keep(l, K) == [n \in 1 .. Cardinality(K) |-> l[Nth(K, n)]]

\* The driver: an id beyond the limit takes the last place, every other node
\* moves up one and the node that reaches 0 leaves, unless it is the last.
Renumber(l) ==
  LET renumbered == [i \in DOMAIN l |-> [l[i] EXCEPT !.id = Dec(@)]]
  IN  Keep(renumbered, {i \in DOMAIN l : renumbered[i].id # 0 \/ i = Len(l)})
DelThenAdd(l, r) == Append(Renumber(l), [r EXCEPT !.id = MaxNum])

\* Mutant: the driver does not look at the id.
AddSelNodeAppends(l, r) == Append(l, r)

AddSelNode(l, r) == IF r.id > MaxNum THEN DelThenAdd(l, r) ELSE Append(l, r)

\* What is left if the new node is not linked in.
Unlinked(l, r) == IF r.id > MaxNum THEN Renumber(l) ELSE l

\* "lapped": two threads have been in list_add_tail together; "cut": the head's
\* prev has been left at a node nobody reaches, where all later ones go, until
\* the list is made anew.
Added(l, r) == IF ring = "cut" THEN Unlinked(l, r) ELSE AddSelNode(l, r)

\* Get SEL Entry: the first node with the id asked for, 0 asking for record 1,
\* and the id to ask for next; None if there is no such node.
GetSelEntry(l, asked) ==
  LET id == IF asked = 0 THEN 1 ELSE asked
      found == {i \in DOMAIN l : l[i].id = id}
      i == CHOOSE k \in found : \A o \in found : k <= o
  IN  IF found = {} THEN [ev |-> 0, next |-> None]
      ELSE [ev |-> l[i].ev, next |-> IF i = Len(l) THEN None ELSE id + 1]

Free(t)  == handler.on # t                       \* not under the handler
Starting == pc[Main] \in {"init", "read", "setid"}
Quiet    == /\ \A t \in Threads : pc[t] = "idle"
            /\ handler.on = None
MayBegin == \/ Quiet
            \/ "race" \in Faults /\ ~Starting /\ handler.on = None
            \/ "early" \in Faults /\ Starting
            \/ "clear" \in Faults /\ handler.on # None
MayClear == "clear" \in Faults \/ Quiet

Goto(t, where) == pc' = [pc EXCEPT ![t] = where]
At(t, where)   == pc[t] = where /\ Free(t)

Init == /\ file = <<>> /\ pos = 0 /\ list = <<>>
        /\ record_id = 0 /\ mutex = None /\ state = FALSE
        /\ host \in Host
        /\ pc = [t \in Threads |-> IF t = Main THEN "init" ELSE "idle"]
        /\ msg = [t \in Threads |-> Zero]
        /\ sh = [t \in Threads |-> NoShift]
        /\ rd = [off |-> 0, id |-> 0]
        /\ handler = [on |-> None, at |-> None]
        /\ seen = 0
        /\ ring = "whole" /\ noisy = FALSE

-----------------------------------------------------------------------------
(* Start-up, on the main thread. *)

\* Events are enabled and the ids start at 1 before the file has been read.
InitSel ==
  /\ At(Main, "init")
  /\ record_id' = 1 /\ list' = <<>> /\ state' = TRUE /\ pos' = 0
  /\ rd' = [off |-> 0, id |-> 0] /\ ring' = "whole"
  /\ Goto(Main, "read")
  /\ UNCHANGED <<file, mutex, host, msg, sh, handler, seen, noisy>>

\* The next record goes to the driver.
ReadRecord ==
  /\ At(Main, "read") /\ pos < Len(file) /\ file[pos + 1].id > 0
  /\ list' = AddSelNode(list, file[pos + 1])
  /\ pos' = pos + 1
  /\ rd' = [off |-> pos + 1, id |-> file[pos + 1].id]
  /\ UNCHANGED <<file, record_id, mutex, state, host, pc, msg, sh, handler,
                 seen, aside>>

\* A record of zeros ends the log: the file is cut before it.
ReadZero ==
  /\ At(Main, "read") /\ pos < Len(file) /\ file[pos + 1].id = 0
  /\ file' = SubSeq(file, 1, rd.off)
  /\ pos' = rd.off
  /\ Goto(Main, "setid")
  /\ UNCHANGED <<list, record_id, mutex, state, host, msg, sh, rd, handler,
                 seen, aside>>

ReadEnd ==
  /\ At(Main, "read") /\ pos >= Len(file)
  /\ Goto(Main, "setid")
  /\ UNCHANGED <<file, pos, list, record_id, mutex, state, host, msg, sh, rd,
                 handler, seen, aside>>

SetId ==
  /\ At(Main, "setid") /\ mutex = None
  /\ record_id' = Inc(rd.id)
  /\ Goto(Main, "idle")
  /\ UNCHANGED <<file, pos, list, mutex, state, host, msg, sh, rd, handler,
                 seen, aside>>

-----------------------------------------------------------------------------
(* One event, on the thread that saw it. *)

Begin(t) ==
  /\ At(t, "idle") /\ state /\ MayBegin /\ seen < MaxEvents
  /\ seen' = seen + 1
  /\ msg' = [msg EXCEPT ![t] = [id |-> 0, ev |-> seen + 1]]
  /\ Goto(t, "check")
  /\ UNCHANGED <<file, pos, list, record_id, mutex, state, host, sh, rd,
                 handler, aside>>

\* The host is up: the event stands.
CheckUp(t) ==
  /\ At(t, "check") /\ host = "on"
  /\ Goto(t, "gen")
  /\ UNCHANGED <<file, pos, list, record_id, mutex, state, host, msg, sh, rd,
                 handler, seen, aside>>

\* The host went down: its event takes the place of this one and is the last
\* until the host is back.  After a reset the thread first sleeps.
CheckDown(t) ==
  /\ At(t, "check") /\ host # "on"
  /\ state' = FALSE
  /\ Goto(t, IF host = "reset" THEN "sleep" ELSE "gen")
  /\ UNCHANGED <<file, pos, list, record_id, mutex, host, msg, sh, rd, handler,
                 seen, aside>>

Wake(t) ==
  /\ At(t, "sleep")
  /\ state' = FALSE
  /\ Goto(t, "gen")
  /\ UNCHANGED <<file, pos, list, record_id, mutex, host, msg, sh, rd, handler,
                 seen, aside>>

\* The id is read before the mutex is taken.
GenEvent(t) ==
  /\ At(t, "gen")
  /\ msg' = [msg EXCEPT ![t].id = record_id]
  /\ Goto(t, "lock")
  /\ UNCHANGED <<file, pos, list, record_id, mutex, state, host, sh, rd,
                 handler, seen, aside>>

Lock(t) ==
  /\ At(t, "lock") /\ mutex = None
  /\ mutex' = t
  /\ Goto(t, "inc")
  /\ UNCHANGED <<file, pos, list, record_id, state, host, msg, sh, rd, handler,
                 seen, aside>>

\* Mutant: the counter goes on beyond the limit.
NextIdUnbounded(n) == Inc(n)

NextId(n) == IF Inc(n) > MaxNum THEN MaxNum + 1 ELSE Inc(n)

\* Mutant: the mutex is not given back.
IncKeepsMutex(t) ==
  /\ At(t, "inc")
  /\ record_id' = NextId(record_id)
  /\ Goto(t, IF msg[t].id <= MaxNum THEN "append" ELSE "rewind")
  /\ UNCHANGED <<file, pos, list, mutex, state, host, msg, sh, rd, handler,
                 seen, aside>>

IncUnlock(t) ==
  /\ At(t, "inc")
  /\ record_id' = NextId(record_id)
  /\ mutex' = None
  /\ Goto(t, IF msg[t].id <= MaxNum THEN "append" ELSE "rewind")
  /\ UNCHANGED <<file, pos, list, state, host, msg, sh, rd, handler, seen,
                 aside>>

\* The log is full.  The first record is skipped: it is the one to drop.
Rewind(t) ==
  /\ At(t, "rewind")
  /\ pos' = IF file = <<>> THEN 0 ELSE 1
  /\ sh' = [sh EXCEPT ![t] = [NoShift EXCEPT !.cur = pos']]
  /\ Goto(t, "shiftread")
  /\ UNCHANGED <<file, list, record_id, mutex, state, host, msg, rd, handler,
                 seen, aside>>

ShiftRead(t) ==
  /\ At(t, "shiftread") /\ sh[t].cur < Len(file)
  /\ pos' = sh[t].cur + 1
  /\ sh' = [sh EXCEPT ![t].rec = file[sh[t].cur + 1], ![t].cur = @ + 1]
  /\ Goto(t, "shiftwrite")
  /\ UNCHANGED <<file, list, record_id, mutex, state, host, msg, rd, handler,
                 seen, aside>>

\* The end of the file: what follows is written where the read stopped.
ShiftEof(t) ==
  /\ At(t, "shiftread") /\ sh[t].cur >= Len(file)
  /\ pos' = sh[t].cur
  /\ Goto(t, "append")
  /\ UNCHANGED <<file, list, record_id, mutex, state, host, msg, sh, rd,
                 handler, seen, aside>>

\* Mutant: the shift does not stop at the last place.
ShiftNeverEnds(s) == FALSE

\* The record goes one place down with its id one less; the shift ends at the
\* record of the last place or when it has moved MaxNum of them.
ShiftEnds(s) == Dec(s.rec.id) >= MaxNum - 1 \/ s.cnt + 1 > MaxNum - 1

ShiftWrite(t) ==
  /\ At(t, "shiftwrite")
  /\ file' = Put(file, sh[t].last, [sh[t].rec EXCEPT !.id = Dec(@)])
  /\ pos' = sh[t].last + 1
  /\ sh' = [sh EXCEPT ![t].last = @ + 1, ![t].cnt = @ + 1]
  /\ Goto(t, IF ShiftEnds(sh[t]) THEN "append" ELSE "shiftread")
  /\ UNCHANGED <<list, record_id, mutex, state, host, msg, rd, handler, seen,
                 aside>>

\* Mutant: the new record of a full log keeps the id it was given.
FileIdKept(n) == n

FileId(n) == IF n <= MaxNum THEN n ELSE n - 1

\* Mutant: the record is written at the place of its id.
AddMsgAtId(t) ==
  /\ At(t, "append")
  /\ file' = Put(file, FileId(msg[t].id) - 1, [msg[t] EXCEPT !.id = FileId(@)])
  /\ pos' = pos + 1
  /\ Goto(t, "add")
  /\ UNCHANGED <<list, record_id, mutex, state, host, msg, sh, rd, handler,
                 seen, aside>>

AddMsg(t) ==
  /\ At(t, "append")
  /\ file' = Put(file, pos, [msg[t] EXCEPT !.id = FileId(@)])
  /\ pos' = pos + 1
  /\ Goto(t, "add")
  /\ UNCHANGED <<list, record_id, mutex, state, host, msg, sh, rd, handler,
                 seen, aside>>

Recorded(S) ==
  /\ pc' = [t \in Threads |-> IF t \in S THEN "idle" ELSE pc[t]]
  /\ msg' = [t \in Threads |-> IF t \in S THEN Zero ELSE msg[t]]
  /\ sh' = [t \in Threads |-> IF t \in S THEN NoShift ELSE sh[t]]
  /\ UNCHANGED <<file, pos, record_id, mutex, state, host, rd, handler, seen,
                 noisy>>

AddNode(t) ==
  /\ At(t, "add") /\ Recorded({t})
  /\ list' = Added(list, msg[t])
  /\ UNCHANGED ring

\* The ioctl takes no lock and may be preempted: when two threads are in
\* list_add_tail together one node may be lost, and the head may keep it as
\* its last.  Renumbering by two at once is taken to be one after the other.
AddsOverlap(t, u) ==
  /\ t # u /\ At(t, "add") /\ At(u, "add") /\ Recorded({t, u})
  /\ \/ /\ list' = Added(Added(list, msg[t]), msg[u])
        /\ ring' = IF ring = "cut" THEN "cut" ELSE "lapped"
     \/ /\ list' = Added(Unlinked(list, msg[t]), msg[u])
        /\ ring' \in IF ring = "cut" THEN {"cut"} ELSE {"lapped", "cut"}

-----------------------------------------------------------------------------
\* Mutant: a host in S3 does not count as up.
PollTimeoutOn ==
  /\ At(Main, "idle") /\ ~state /\ ~noisy
  /\ host = "on"
  /\ state' = TRUE
  /\ UNCHANGED <<file, pos, list, record_id, mutex, host, pc, msg, sh, rd,
                 handler, seen, aside>>

\* Two seconds without an edge: events are enabled again if the host is up.
PollTimeout ==
  /\ At(Main, "idle") /\ ~state /\ ~noisy
  /\ host \in {"on", "s3"}
  /\ state' = TRUE
  /\ UNCHANGED <<file, pos, list, record_id, mutex, host, pc, msg, sh, rd,
                 handler, seen, aside>>

\* An edge of any pin ends the poll, and the two seconds start again.  While
\* events are disabled nothing else comes of it.
PollEdge ==
  /\ At(Main, "idle") /\ ~state /\ noisy' \in BOOLEAN
  /\ UNCHANGED <<file, pos, list, record_id, mutex, state, host, pc, msg, sh, rd,
                 handler, seen, ring>>

(* SIGUSR1: the handler runs on one of the threads and suspends it. *)
Signal(t) ==
  /\ handler.on = None /\ MayClear
  /\ handler' = [on |-> t, at |-> "file"]
  /\ UNCHANGED <<file, pos, list, record_id, mutex, state, host, pc, msg, sh,
                 rd, seen, aside>>

ClearFile ==
  /\ handler.at = "file"
  /\ file' = <<>> /\ pos' = 0
  /\ handler' = [handler EXCEPT !.at = "list"]
  /\ UNCHANGED <<list, record_id, mutex, state, host, pc, msg, sh, rd, seen,
                 aside>>

ClearList ==
  /\ handler.at = "list"
  /\ list' = <<>> /\ ring' = "whole"
  /\ handler' = [handler EXCEPT !.at = "id"]
  /\ UNCHANGED <<file, pos, record_id, mutex, state, host, pc, msg, sh, rd,
                 seen, noisy>>

ClearId ==
  /\ handler.at = "id" /\ mutex = None
  /\ record_id' = 1
  /\ handler' = [on |-> None, at |-> None]
  /\ UNCHANGED <<file, pos, list, mutex, state, host, pc, msg, sh, rd, seen,
                 aside>>

(* The environment. *)
HostChanges ==
  /\ host' \in Host \ {host}
  /\ UNCHANGED <<file, pos, list, record_id, mutex, state, pc, msg, sh, rd,
                 handler, seen, aside>>

\* The writes reach the flash in order, but the record appended last may come
\* back as zeros.
PowerCut ==
  /\ pc[Main] # "init"
  /\ \/ UNCHANGED file
     \/ /\ \E t \in Threads : pc[t] = "add"
        /\ file # <<>>
        /\ file' = [file EXCEPT ![Len(file)] = Zero]
  /\ pos' = 0 /\ list' = <<>> /\ record_id' = 0 /\ mutex' = None /\ state' = FALSE
  /\ pc' = [t \in Threads |-> IF t = Main THEN "init" ELSE "idle"]
  /\ msg' = [t \in Threads |-> Zero]
  /\ sh' = [t \in Threads |-> NoShift]
  /\ rd' = [off |-> 0, id |-> 0]
  /\ handler' = [on |-> None, at |-> None]
  /\ ring' = "whole" /\ noisy' = FALSE
  /\ UNCHANGED <<host, seen>>

Handle(t) == \/ CheckUp(t) \/ CheckDown(t) \/ Wake(t) \/ GenEvent(t) \/ Lock(t)
             \/ IncUnlock(t) \/ Rewind(t) \/ ShiftRead(t) \/ ShiftEof(t)
             \/ ShiftWrite(t) \/ AddMsg(t) \/ AddNode(t)
StartUp == InitSel \/ ReadRecord \/ ReadZero \/ ReadEnd \/ SetId
Clear   == ClearFile \/ ClearList \/ ClearId

Next == \/ StartUp \/ PollTimeout \/ PollEdge \/ Clear
        \/ \E t \in Threads : Begin(t) \/ Handle(t) \/ Signal(t)
        \/ \E t, u \in Threads : AddsOverlap(t, u)
        \/ HostChanges \/ PowerCut

Spec == Init /\ [][Next]_vars

\* Threads and the handler get on with their work and poll times out.  No
\* fairness of the host, of SIGUSR1, of events and of the power.
FairSpec == /\ Spec
            /\ WF_vars(StartUp) /\ WF_vars(Clear) /\ WF_vars(PollTimeout)
            /\ \A t \in Threads : WF_vars(Handle(t))
-----------------------------------------------------------------------------
(* Properties                                                              *)

TypeOK ==
  /\ file \in Seq(Rec) /\ list \in Seq(Rec)
  /\ pos \in Nat /\ record_id \in 0 .. MaxNum + 1
  /\ mutex \in Threads \union {None} /\ state \in BOOLEAN /\ host \in Host
  /\ pc \in [Threads -> Pcs]
  /\ msg \in [Threads -> [id : 0 .. MaxNum + 1, ev : Nat]]
  /\ sh \in [Threads -> [last : Nat, cur : Nat, cnt : Nat, rec : Rec]]
  /\ rd \in [off : Nat, id : Ids]
  /\ handler \in [on : Threads \union {None}, at : {None, "file", "list", "id"}]
  /\ seen \in 0 .. MaxEvents
  /\ ring \in {"whole", "lapped", "cut"} /\ noisy \in BOOLEAN

\* The ids of the file are its places and its events are in order, at every
\* step of a shift and after a power cut between any two of them, but for a
\* record of zeros at the end that has not been cut off yet.
Place(f, i) == f[i].id = i \/ (i = Len(f) /\ f[i] = Zero)
FileIsLog ==
  /\ \A i \in DOMAIN file : Place(file, i)
  /\ \A i, j \in DOMAIN file :
       i < j /\ file[j] # Zero => file[i].ev <= file[j].ev

\* When the number of records would exceed SEL_ENTRY_MAXNUM the oldest entry
\* is deleted: the file holds no more than SEL_ENTRY_MAXNUM records.
FileBounded == Len(file) <= MaxNum

\* Between events the driver's list, which the host reads, is the file, and
\* record_id is the id of the next record.
ListIsFile == Quiet => list = file
NextIdFollows == Quiet => record_id = Len(file) + 1

\* A host that asks for record 0 and then for the id each answer names reads
\* the whole list in order and stops at its end.
HostReadsLog ==
  \A i \in DOMAIN list :
    GetSelEntry(list, IF i = 1 THEN 0 ELSE i)
      = [ev |-> list[i].ev, next |-> IF i = Len(list) THEN None ELSE i + 1]

\* Two threads that record events at once lose none before the log is full:
\* what one appends to the file the other does not overwrite, and the list has
\* no event that the file has not.  It has them all, unless the two have been
\* in the driver together.  Threads that race may give records the same id, and
\* in a full log such an id may wrap; when power is cut then, the list may lack
\* events of the file.
Events(f) == [e \in 1 .. MaxEvents |-> Cardinality({i \in DOMAIN f : f[i].ev = e})]
SameEvents ==
  Quiet /\ record_id <= MaxNum /\ (\A i \in DOMAIN file : file[i].id <= MaxNum)
    => /\ \A e \in 1 .. MaxEvents : Events(list)[e] <= Events(file)[e]
       /\ ring = "whole" => Events(file) = Events(list)

\* What the host can read is a log that loses its oldest event and no other,
\* only when it is full, and gains the events in their order.
EL == INSTANCE EventLog
        WITH Event <- 1 .. MaxEvents,
             log <- [i \in DOMAIN list |-> list[i].ev],
             restoring <- Starting
ImplementsEventLog == EL!Spec

\* An event that is being recorded does not hang, nor does the start-up: it
\* ends unless the power is cut.
EventsEnd ==
  \A t \in Threads : pc[t] # "idle" ~> pc[t] = "idle" \/ pc[Main] = "init"

\* While the host stays up events do not stay disabled, unless SIGUSR1 keeps
\* interrupting the poll or the pins do not rest for two seconds.
EnabledAgain ==
  []<>(state \/ host \notin {"on", "s3"} \/ handler.on = Main \/ noisy)
=============================================================================
