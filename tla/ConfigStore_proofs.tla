------------------------ MODULE ConfigStore_proofs ------------------------
(***************************************************************************)
(* Proofs about ConfigStore.                                               *)
(*                                                                         *)
(* The inductive invariant IInv says, for each phase of the start and each *)
(* rest of a line of commands that Main may still have to execute in it,   *)
(* what is in the files and what is owed to the user (MainRest); which     *)
(* rests a worker may have (Lines) and that only one of them holds         *)
(* write_lock (Locked); and what a line that nothing disturbed has done so *)
(* far (Undisturbed).  The hard part is the promise: a configuration that  *)
(* is owed is in the files (Sure), or it is, or was, one with which        *)
(* is_mgmtd may not start and then the backup is intact (Falls), or it is  *)
(* written right now and a power cut would break it, so that it owes       *)
(* nothing any more (Broken).                                              *)
(***************************************************************************)
EXTENDS ConfigStore, TLAPS, FiniteSetTheorems, SequenceTheorems

-----------------------------------------------------------------------------
(* The inductive invariant.                                                *)

\* What is left of the lines of commands.
Save3(c, promise) == <<Write("conf", c), Sum("conf"), Sync(promise)>>
Save2(promise) == <<Sum("conf"), Sync(promise)>>
Synced(promise) == <<Sync(promise)>>

Default4 == <<Remove("backup"), Remove("backupSum"), Remove("sum"), Sync(Default)>>
Default3 == <<Remove("backupSum"), Remove("sum"), Sync(Default)>>
Default2 == <<Remove("sum"), Sync(Default)>>

Backup2 == <<Sum("backup"), Sync(Any)>>

Unback2 == <<Remove("backup"), Remove("backupSum")>>
Unback1 == <<Remove("backupSum")>>

Drop1 == <<Remove("sum")>>
Swap5 == <<Remove("conf"), Remove("sum"), Rename("backup", "conf"),
           Remove("backupSum"), Sum("conf")>>
Swap4 == <<Remove("sum"), Rename("backup", "conf"), Remove("backupSum"), Sum("conf")>>
Swap2 == <<Remove("backupSum"), Sum("conf")>>
Swap1 == <<Sum("conf")>>

Fall4 == <<Rename("backup", "conf"), Remove("backupSum"), Sum("conf"), Sync(Any)>>
Fall3 == <<Remove("backupSum"), Sum("conf"), Sync(Any)>>
Lose3 == <<Remove("conf"), Remove("sum"), Sync(Any)>>
Lose2 == <<Remove("sum"), Sync(Any)>>

\* The files.
Gone(f) == file[f] = Absent

Quiet == past = {file} /\ fresh = {}

ConfSummed == file["sum"] \in {Absent, file["conf"]}

BackupSummed == Gone("backup") \/ file["backupSum"] \in {Absent, file["backup"]}

Settled == Quiet \/ Gone("backup")

\* The backup is the configuration of the last good start.
BackupIs == \/ /\ file["backup"] = lastGood
               /\ file["backupSum"] \in {Absent, file["backup"]}
            \/ Gone("backup") /\ lastGood = Default

\* A power cut may change the configuration or its checksum.
Broken == \/ {"conf", "sum"} \cap fresh # {}
          \/ \E s \in past : s["conf"] # file["conf"] \/ s["sum"] # file["sum"]

\* The next start finds configuration c.
Holds(c) == \/ file["conf"] = c /\ file["sum"] \in {c, Absent}
            \/ c = Default /\ Gone("conf")

\* ... and it will run it, or owes its user nothing.
Sure(c) == Holds(c) /\ (c \in Good \/ lastGood = Partial)

\* ... or will fall back to the backup.
Falls(c) == /\ Quiet /\ BackupIs /\ lastGood # Partial
            /\ \/ Holds(c)
               \/ c = lastGood /\ file["conf"] \in Known \ Good /\ ConfSummed

Nothing == owed = Any
Certain == Nothing \/ Sure(owed)
Promised == Certain \/ Falls(owed)

Typing ==
  /\ file \in [Files -> Contents]
  /\ past \subseteq [Files -> Contents] /\ file \in past
  /\ fresh \subseteq Files
  /\ DOMAIN shell = Procs
  /\ phase \in {"checkBackup", "checkConf", "begin", "load", "backing", "up", "reboot"}
  /\ mem \in Known \cup {Partial} /\ unsaved \in BOOLEAN
  /\ worker \in [Workers -> {"idle", "save", "saved", "load"}]
  /\ mishaps \in 0..MaxMishaps /\ requests \in 0..MaxRequests
  /\ owed \in Known \cup {Any}
  /\ lastGood \in Good \cup {Partial}
  /\ spoilt \in BOOLEAN

\* The save that is waited for has write_lock, and no other.
Locked == /\ lock \in Procs
          /\ \A w \in Workers : (worker[w] = "save") <=> (lock = w)

SaveRest(r, c) == r \in {SaveLine(c, c), Save3(c, c), Save2(c), Synced(c)}

DefaultRest(r) == r \in {DefaultLine, Default4, Default3, Default2, Synced(Default)}

WorkerRest(r) == \/ r = <<>>
                 \/ \E c \in Known \cup {Partial} : SaveRest(r, c)
                 \/ DefaultRest(r)

\* Before the start is over, only Main is at work.
Alone == \A w \in Workers : shell[w] = <<>> /\ worker[w] = "idle"

Starting == phase \notin {"up", "reboot"} => Alone /\ lock = Main

Lines == \A w \in Workers : WorkerRest(shell[w])

AtCheckBackup == shell[Main] = <<>> /\ Quiet /\ Promised

AtCheckConf ==
  \/ shell[Main] = <<>> /\ BackupSummed /\ Settled /\ Promised
  \/ shell[Main] = Unback2 /\ Certain
  \/ shell[Main] = Unback1 /\ Gone("backup") /\ Certain

AtBegin ==
  /\ BackupSummed
  /\ \/ shell[Main] = <<>> /\ Settled /\ Promised
        /\ (Gone("conf") \/ ConfSummed)
     \/ shell[Main] = DropLine /\ Gone("backup") /\ Nothing
     \/ /\ shell[Main] = Drop1 /\ Nothing
        /\ Gone("backup") /\ Gone("conf")
     \/ shell[Main] = Swap5 /\ ~ Gone("backup") /\ Nothing
     \/ shell[Main] = Swap4 /\ ~ Gone("backup") /\ Nothing
     \/ shell[Main] = RestoreLine /\ ~ Gone("backup") /\ Nothing
     \/ /\ shell[Main] = Swap2 /\ Nothing
        /\ Gone("backup") /\ ~ Gone("conf")
     \/ /\ shell[Main] = Swap1 /\ Nothing
        /\ Gone("backup") /\ ~ Gone("conf")

AtLoad ==
  /\ BackupSummed
  /\ \/ shell[Main] = <<>> /\ Settled /\ Promised
        /\ ~ Gone("conf") /\ ConfSummed
     \/ /\ shell[Main] = SaveLine(Default, Any)
        /\ Gone("conf") /\ owed \in {Any, Default}
     \/ /\ shell[Main] = Save3(Default, Any)
        /\ Gone("conf") /\ owed \in {Any, Default}
     \/ /\ shell[Main] = Save2(Any) /\ file["conf"] = Default
        /\ "conf" \in fresh /\ owed \in {Any, Default}
     \/ /\ shell[Main] = Synced(Any) /\ file["conf"] = Default
        /\ file["sum"] = Default /\ owed \in {Any, Default}

BackingUp ==
  /\ Certain
  /\ \/ shell[Main] = BackupLine
     \/ shell[Main] = Backup2
     \/ shell[Main] = Synced(Any)

AtBacking ==
  /\ file["conf"] = lastGood /\ ConfSummed
  /\ \/ shell[Main] = <<>> /\ Quiet /\ BackupIs /\ Promised
     \/ shell[Main] = BackupLine /\ Certain
     \/ shell[Main] = Backup2 /\ Certain /\ file["backup"] = lastGood
     \/ /\ shell[Main] = Synced(Any) /\ Certain
        /\ file["backup"] = lastGood /\ file["backupSum"] = lastGood

AtUp ==
  \/ shell[Main] = <<>> /\ Promised
  \/ BackingUp /\ spoilt

Unstable == Certain \/ Broken

\* The backup has taken the place of the configuration.
Fallen == owed \in Good /\ file["conf"] = owed /\ Broken

Falling ==
  /\ Alone
  /\ \/ shell[Main] = Fall4 /\ Nothing
     \/ /\ shell[Main] = Fall4 /\ Falls(owed)
        /\ file["backup"] = owed /\ file["conf"] # owed
     \/ shell[Main] = Fall3 /\ (Nothing \/ Fallen)
     \/ shell[Main] = Save2(Any) /\ (Nothing \/ Fallen)
     \/ shell[Main] = Lose3 /\ Nothing
     \/ shell[Main] = Lose3 /\ owed = Default /\ Falls(owed)
     \/ shell[Main] = Lose2 /\ Certain
     \/ shell[Main] = Synced(Any) /\ Certain

AtReboot ==
  \/ shell[Main] = <<>> /\ Promised
  \/ BackingUp /\ spoilt
  \/ shell[Main] = DefaultLine /\ Promised
  \/ shell[Main] = Default4 /\ Unstable /\ (spoilt \/ Gone("conf"))
  \/ /\ shell[Main] \in {Default3, Default2} /\ Unstable
     /\ (spoilt \/ (Gone("conf") /\ Gone("backup")))
  \/ /\ shell[Main] = Synced(Default) /\ Unstable
     /\ (spoilt \/ (Gone("conf") /\ Gone("sum") /\ Gone("backup")))
  \/ Falling

MainRest ==
  /\ phase = "checkBackup" => AtCheckBackup
  /\ phase = "checkConf" => AtCheckConf
  /\ phase = "begin" => AtBegin
  /\ phase = "load" => AtLoad
  /\ phase = "backing" => AtBacking
  /\ phase = "up" => AtUp
  /\ phase = "reboot" => AtReboot

Usable == \A s \in past : s["backup"] \in Good \cup {Absent, Partial}

\* What a line that nothing disturbs has done so far.
Done(p) ==
  \/ shell[p] = <<>>
  \/ \E c \in Known \cup {Partial} :
       \/ shell[p] \in {SaveLine(c, c), Save3(c, c)}
       \/ shell[p] = Save2(c) /\ file["conf"] = c
       \/ shell[p] = Synced(c) /\ file["conf"] = c /\ file["sum"] = c
  \/ shell[p] = DefaultLine
  \/ shell[p] = Default4 /\ Gone("conf")
  \/ shell[p] \in {Default3, Default2} /\ Gone("conf") /\ Gone("backup")
  \/ shell[p] = Synced(Default) /\ Gone("conf") /\ Gone("backup") /\ Gone("sum")

Removing(p) == /\ shell[p] \in {Default3, Default2, Synced(Default)}
               /\ Gone("conf") /\ Gone("backup")

BackupKept ==
  \/ lastGood = Partial \/ BackupIs
  \/ \E w \in Workers : Removing(w)
  \/ phase = "reboot" /\ \A w \in Workers : shell[w] = <<>>

Served == phase \in {"up", "reboot"} =>
  /\ \A w \in Workers : Done(w)
  /\ BackupKept
  /\ phase = "up" /\ Busy = {} => ConfSummed

Undisturbed == ~ spoilt => Usable /\ Served

IInv == Typing /\ Locked /\ Starting /\ Lines /\ MainRest /\ Undisturbed

-----------------------------------------------------------------------------
(* The values of files, the commands and the lines.                        *)

\* No value of a file is a configuration and a mark at the same time.
LEMMA Marks ==
  /\ Partial # Absent /\ Partial # Any /\ Absent # Any
  /\ Partial \notin Known /\ Absent \notin Known /\ Any \notin Known
  /\ Default \in Good /\ Good \subseteq Known /\ Inner \subseteq Known
  /\ Main \notin Workers
<1>1. ASSUME NEW a, NEW b PROVE Cardinality({a, b}) \in Nat /\ Cardinality({a, b}) <= 2
  <2>1. IsFiniteSet({a}) /\ Cardinality({a}) = 1
    BY FS_Singleton
  <2>2. {a} \cup {b} = {a, b}
    OBVIOUS
  <2> QED
    BY <2>1, <2>2, FS_AddElement
<1>2. Cardinality({Partial, Absent, Any}) = 3
  BY StoreAssumption DEF StoreAssumption
<1>3. Partial # Absent
  <2> SUFFICES ASSUME Partial = Absent PROVE FALSE
    OBVIOUS
  <2>1. {Partial, Absent, Any} = {Absent, Any}
    OBVIOUS
  <2>2. Cardinality({Absent, Any}) = 3
    BY <2>1, <1>2, Zenon
  <2>3. Cardinality({Absent, Any}) <= 2
    BY <1>1, Zenon
  <2> QED
    BY <2>2, <2>3
<1>4. Partial # Any
  <2> SUFFICES ASSUME Partial = Any PROVE FALSE
    OBVIOUS
  <2>1. {Partial, Absent, Any} = {Absent, Any}
    OBVIOUS
  <2>2. Cardinality({Absent, Any}) = 3
    BY <2>1, <1>2, Zenon
  <2>3. Cardinality({Absent, Any}) <= 2
    BY <1>1, Zenon
  <2> QED
    BY <2>2, <2>3
<1>5. Absent # Any
  <2> SUFFICES ASSUME Absent = Any PROVE FALSE
    OBVIOUS
  <2>1. {Partial, Absent, Any} = {Partial, Any}
    OBVIOUS
  <2>2. Cardinality({Partial, Any}) = 3
    BY <2>1, <1>2, Zenon
  <2>3. Cardinality({Partial, Any}) <= 2
    BY <1>1, Zenon
  <2> QED
    BY <2>2, <2>3
<1> QED
  BY <1>3, <1>4, <1>5, StoreAssumption DEF StoreAssumption

\* What is left of a line after its first command.
LEMMA SaveTails ==
  ASSUME NEW c, NEW d
  PROVE  /\ Head(SaveLine(c, d)) = Remove("conf") /\ Tail(SaveLine(c, d)) = Save3(c, d)
         /\ Head(Save3(c, d)) = Write("conf", c) /\ Tail(Save3(c, d)) = Save2(d)
         /\ Head(Save2(d)) = Sum("conf") /\ Tail(Save2(d)) = Synced(d)
         /\ Head(Synced(d)) = Sync(d) /\ Tail(Synced(d)) = <<>>
BY DEF SaveLine, Save3, Save2, Synced

LEMMA DefaultTails ==
  /\ Head(DefaultLine) = Remove("conf") /\ Tail(DefaultLine) = Default4
  /\ Head(Default4) = Remove("backup") /\ Tail(Default4) = Default3
  /\ Head(Default3) = Remove("backupSum") /\ Tail(Default3) = Default2
  /\ Head(Default2) = Remove("sum") /\ Tail(Default2) = Synced(Default)
BY DEF DefaultLine, Default4, Default3, Default2, Synced

LEMMA BackupTails ==
  /\ Head(BackupLine) = Copy("conf", "backup") /\ Tail(BackupLine) = Backup2
  /\ Head(Backup2) = Sum("backup") /\ Tail(Backup2) = Synced(Any)
  /\ Head(Unback2) = Remove("backup") /\ Tail(Unback2) = Unback1
  /\ Head(Unback1) = Remove("backupSum") /\ Tail(Unback1) = <<>>
BY DEF BackupLine, Backup2, Synced, Unback2, Unback1

LEMMA DropTails ==
  /\ Head(DropLine) = Remove("conf") /\ Tail(DropLine) = Drop1
  /\ Head(Drop1) = Remove("sum") /\ Tail(Drop1) = <<>>
  /\ Head(Lose3) = Remove("conf") /\ Tail(Lose3) = Lose2
  /\ Head(Lose2) = Remove("sum") /\ Tail(Lose2) = Synced(Any)
BY DEF DropLine, Drop1, Lose3, Lose2, Synced

LEMMA SwapTails ==
  /\ Head(Swap5) = Remove("conf") /\ Tail(Swap5) = Swap4
  /\ Head(Swap4) = Remove("sum") /\ Tail(Swap4) = RestoreLine
  /\ Head(RestoreLine) = Rename("backup", "conf") /\ Tail(RestoreLine) = Swap2
  /\ Head(Swap2) = Remove("backupSum") /\ Tail(Swap2) = Swap1
  /\ Head(Swap1) = Sum("conf") /\ Tail(Swap1) = <<>>
BY DEF Swap5, Swap4, RestoreLine, Swap2, Swap1

LEMMA FallTails ==
  /\ Head(Fall4) = Rename("backup", "conf") /\ Tail(Fall4) = Fall3
  /\ Head(Fall3) = Remove("backupSum") /\ Tail(Fall3) = Save2(Any)
BY DEF Fall4, Fall3, Save2

\* Two sequences put together, element by element.
LEMMA Join ==
  ASSUME NEW S, NEW x \in Seq(S), NEW y \in Seq(S), NEW z \in Seq(S),
         Len(z) = Len(x) + Len(y),
         \A i \in 1..Len(x) : z[i] = x[i],
         \A i \in 1..Len(y) : z[Len(x) + i] = y[i]
  PROVE  x \o y = z
<1>1. x \o y \in Seq(S) /\ Len(x \o y) = Len(z)
  BY ConcatProperties
<1>2. ASSUME NEW i \in 1..Len(x \o y) PROVE (x \o y)[i] = z[i]
  <2>0. Len(x) \in Nat /\ Len(y) \in Nat
    BY LenProperties
  <2>1. (x \o y)[i] = IF i <= Len(x) THEN x[i] ELSE y[i - Len(x)]
    BY <1>1, ConcatProperties
  <2>2. CASE i <= Len(x)
    BY <2>0, <2>1, <2>2, <1>1
  <2>3. CASE ~ (i <= Len(x))
    <3>1. i - Len(x) \in 1..Len(y) /\ Len(x) + (i - Len(x)) = i
      BY <2>0, <2>3, <1>1
    <3> QED
      BY <3>1, <2>1, <2>3
  <2> QED
    BY <2>2, <2>3
<1> QED
  BY <1>1, <1>2, SeqEqual

LEMMA JoinThree ==
  ASSUME NEW a, NEW b, NEW c
  PROVE  <<a, b>> \o <<c>> = <<a, b, c>>
<1>1. /\ <<a, b>> \in Seq({a, b, c}) /\ <<c>> \in Seq({a, b, c})
      /\ <<a, b, c>> \in Seq({a, b, c})
      /\ Len(<<a, b, c>>) = Len(<<a, b>>) + Len(<<c>>)
      /\ \A i \in 1..Len(<<a, b>>) : <<a, b, c>>[i] = <<a, b>>[i]
      /\ \A i \in 1..Len(<<c>>) : <<a, b, c>>[Len(<<a, b>>) + i] = <<c>>[i]
  OBVIOUS
<1> QED
  BY <1>1, Join, Zenon

LEMMA JoinFive ==
  ASSUME NEW a, NEW b, NEW c, NEW d, NEW e
  PROVE  <<a, b>> \o <<c, d, e>> = <<a, b, c, d, e>>
<1>1. /\ <<a, b>> \in Seq({a, b, c, d, e}) /\ <<c, d, e>> \in Seq({a, b, c, d, e})
      /\ <<a, b, c, d, e>> \in Seq({a, b, c, d, e})
      /\ Len(<<a, b, c, d, e>>) = Len(<<a, b>>) + Len(<<c, d, e>>)
      /\ \A i \in 1..Len(<<a, b>>) : <<a, b, c, d, e>>[i] = <<a, b>>[i]
      /\ \A i \in 1..Len(<<c, d, e>>) : <<a, b, c, d, e>>[Len(<<a, b>>) + i] = <<c, d, e>>[i]
  OBVIOUS
<1> QED
  BY <1>1, Join, Zenon

LEMMA JoinFour ==
  ASSUME NEW a, NEW b, NEW c, NEW d
  PROVE  <<a, b, c>> \o <<d>> = <<a, b, c, d>>
<1>1. /\ <<a, b, c>> \in Seq({a, b, c, d}) /\ <<d>> \in Seq({a, b, c, d})
      /\ <<a, b, c, d>> \in Seq({a, b, c, d})
      /\ Len(<<a, b, c, d>>) = Len(<<a, b, c>>) + Len(<<d>>)
      /\ \A i \in 1..Len(<<a, b, c>>) : <<a, b, c, d>>[i] = <<a, b, c>>[i]
      /\ \A i \in 1..Len(<<d>>) : <<a, b, c, d>>[Len(<<a, b, c>>) + i] = <<d>>[i]
  OBVIOUS
<1> QED
  BY <1>1, Join, Zenon

LEMMA JoinNothing == ASSUME NEW a, NEW b PROVE <<a, b>> \o <<>> = <<a, b>>
<1>1. <<a, b>> \in Seq({a, b})
  OBVIOUS
<1> QED
  BY <1>1, ConcatEmptySeq

\* The lines that are put together of two.
LEMMA Joined ==
  /\ DropLine \o RestoreLine = Swap5
  /\ DropLine \o <<>> = DropLine
  /\ RestoreLine \o <<Sync(Any)>> = Fall4
  /\ DropLine \o <<Sync(Any)>> = Lose3
<1>1. DropLine \o RestoreLine = Swap5
  BY JoinFive, Zenon DEF DropLine, RestoreLine, Swap5
<1>2. DropLine \o <<>> = DropLine
  BY JoinNothing, Zenon DEF DropLine
<1>3. RestoreLine \o <<Sync(Any)>> = Fall4
  BY JoinFour, Zenon DEF RestoreLine, Fall4
<1>4. DropLine \o <<Sync(Any)>> = Lose3
  BY JoinThree, Zenon DEF DropLine, Lose3
<1> QED
  BY <1>1, <1>2, <1>3, <1>4

\* A line that is not finished.
LEMMA NotEmpty ==
  ASSUME NEW c, NEW d
  PROVE  /\ SaveLine(c, d) # <<>> /\ Save3(c, d) # <<>> /\ Save2(d) # <<>>
         /\ Synced(d) # <<>> /\ DefaultLine # <<>> /\ Default4 # <<>>
         /\ Default3 # <<>> /\ Default2 # <<>> /\ BackupLine # <<>>
         /\ Backup2 # <<>> /\ Unback2 # <<>> /\ Unback1 # <<>>
         /\ DropLine # <<>> /\ Drop1 # <<>> /\ Lose3 # <<>> /\ Lose2 # <<>>
         /\ Swap5 # <<>> /\ Swap4 # <<>> /\ RestoreLine # <<>> /\ Swap2 # <<>>
         /\ Swap1 # <<>> /\ Fall4 # <<>> /\ Fall3 # <<>>
BY DEF SaveLine, Save3, Save2, Synced, DefaultLine, Default4, Default3, Default2,
       BackupLine, Backup2, Unback2, Unback1, DropLine, Drop1, Lose3, Lose2,
       Swap5, Swap4, RestoreLine, Swap2, Swap1, Fall4, Fall3

-----------------------------------------------------------------------------
(* One command of a line.                                                  *)

\* What a command that is not sync leaves: files g, of which W are written.
Wrote(p, g, W) ==
  /\ file' = g /\ past' = past \cup {g} /\ fresh' = fresh \cup W
  /\ owed' = IF p \in Workers THEN Any ELSE owed
  /\ lastGood' = lastGood

\* What sync leaves.
Flushed(p, c) ==
  /\ file' = file /\ past' = {file} /\ fresh' = {}
  /\ owed' = IF c = Any THEN owed ELSE IF Disturbed(p) THEN Any ELSE Owing(c)
  /\ lastGood' = IF c = Default /\ Gone("conf") THEN Default ELSE lastGood

\* What every command leaves.
Moved(p) ==
  /\ shell' = [shell EXCEPT ![p] = Tail(shell[p])]
  /\ spoilt' = Disturbed(p)
  /\ UNCHANGED <<phase, mem, unsaved, worker, lock, mishaps, requests>>

LEMMA RunMoves == ASSUME NEW p, Run(p) PROVE Moved(p) /\ shell[p] # <<>>
BY DEF Run, Moved

LEMMA RunRemove ==
  ASSUME NEW p, NEW f, Run(p), Head(shell[p]) = Remove(f)
  PROVE  Wrote(p, [file EXCEPT ![f] = Absent], {})
<1>1. Effect(Remove(f)) = [file EXCEPT ![f] = Absent]
  BY DEF Effect, Remove
<1>2. Writes(Remove(f)) = {} /\ Remove(f).op # "sync"
  BY DEF Writes, Remove
<1> QED
  BY <1>1, <1>2, Zenon DEF Run, Wrote

LEMMA RunWrite ==
  ASSUME NEW p, NEW f, NEW c, Run(p), Head(shell[p]) = Write(f, c)
  PROVE  Wrote(p, [file EXCEPT ![f] = c], {f})
<1>1. Effect(Write(f, c)) = [file EXCEPT ![f] = c]
  BY DEF Effect, Write
<1>2. Writes(Write(f, c)) = {f} /\ Write(f, c).op # "sync"
  BY DEF Writes, Write
<1> QED
  BY <1>1, <1>2, Zenon DEF Run, Wrote

LEMMA RunCopy ==
  ASSUME NEW p, NEW f, NEW g, Run(p), Head(shell[p]) = Copy(f, g)
  PROVE  Wrote(p, [file EXCEPT ![g] = file[f]], {g})
<1>1. Effect(Copy(f, g)) = [file EXCEPT ![g] = file[f]]
  BY DEF Effect, Copy
<1>2. Writes(Copy(f, g)) = {g} /\ Copy(f, g).op # "sync"
  BY DEF Writes, Copy
<1> QED
  BY <1>1, <1>2, Zenon DEF Run, Wrote

LEMMA RunRename ==
  ASSUME NEW p, NEW f, NEW g, Run(p), Head(shell[p]) = Rename(f, g)
  PROVE  Wrote(p, [file EXCEPT ![g] = file[f], ![f] = Absent], {})
<1>1. Effect(Rename(f, g)) = [file EXCEPT ![g] = file[f], ![f] = Absent]
  BY DEF Effect, Rename
<1>2. Writes(Rename(f, g)) = {} /\ Rename(f, g).op # "sync"
  BY DEF Writes, Rename
<1> QED
  BY <1>1, <1>2, Zenon DEF Run, Wrote

LEMMA RunSum ==
  ASSUME NEW p, NEW f, Run(p), Head(shell[p]) = Sum(f)
  PROVE  Wrote(p, [file EXCEPT ![SumOf(f)] = IF Gone(f) THEN Partial ELSE file[f]], {SumOf(f)})
<1>1. Effect(Sum(f)) = [file EXCEPT ![SumOf(f)] = IF Gone(f) THEN Partial ELSE file[f]]
  BY DEF Effect, Sum, Gone
<1>2. Writes(Sum(f)) = {SumOf(f)} /\ Sum(f).op # "sync"
  BY DEF Writes, Sum
<1> QED
  BY <1>1, <1>2, Zenon DEF Run, Wrote

LEMMA RunSync ==
  ASSUME NEW p, NEW c, Run(p), Head(shell[p]) = Sync(c)
  PROVE  Flushed(p, c)
<1>1. Sync(c).op = "sync" /\ Sync(c).what = c
  BY DEF Sync
<1>2. Effect(Sync(c)) = file
  BY DEF Effect, Sync
<1> QED
  BY <1>1, <1>2 DEF Run, Flushed, Gone

LEMMA WroteTyping ==
  ASSUME NEW p \in Procs, NEW g \in [Files -> Contents], NEW W \in SUBSET Files,
         Typing, Moved(p), Wrote(p, g, W)
  PROVE  Typing'
BY DEF Typing, Moved, Wrote, Disturbed

LEMMA SyncTyping ==
  ASSUME NEW p \in Procs, NEW c, Typing, Moved(p), Flushed(p, c)
  PROVE  Typing'
BY Marks DEF Typing, Moved, Flushed, Disturbed, Owing, Known

\* What is certain stays so while the configuration and its checksum stay.
LEMMA CertainKept ==
  ASSUME Certain, owed' \in {owed, Any}, lastGood' = lastGood,
         file'["conf"] = file["conf"], file'["sum"] = file["sum"]
  PROVE  Certain'
BY DEF Certain, Nothing, Sure, Holds, Gone

LEMMA BrokenKept ==
  ASSUME NEW p, NEW g, NEW W, Typing, Wrote(p, g, W),
         \/ Broken
         \/ g["conf"] # file["conf"] \/ g["sum"] # file["sum"]
         \/ "conf" \in W \/ "sum" \in W
  PROVE  Broken'
<1>1. file \in past /\ file' = g /\ past' = past \cup {g} /\ fresh' = fresh \cup W
  BY DEF Typing, Wrote
<1>2. CASE {"conf", "sum"} \cap fresh # {} \/ "conf" \in W \/ "sum" \in W
  BY <1>1, <1>2 DEF Broken
<1>3. CASE g["conf"] # file["conf"] \/ g["sum"] # file["sum"]
  BY <1>1, <1>3 DEF Broken
<1>4. ASSUME NEW s \in past, s["conf"] # file["conf"] \/ s["sum"] # file["sum"],
             g["conf"] = file["conf"], g["sum"] = file["sum"]
      PROVE  Broken'
  BY <1>1, <1>4 DEF Broken
<1> QED
  BY <1>2, <1>3, <1>4 DEF Broken

\* Only one line is at work if it runs undisturbed.
LEMMA Sole ==
  ASSUME NEW p \in Procs, Typing, Locked, Moved(p), ~ spoilt'
  PROVE  /\ ~ spoilt /\ ~ Disturbed(p)
         /\ \A q \in Procs : q # p => shell[q] = <<>> /\ shell'[q] = <<>>
<1>1. ~ spoilt /\ ~ Disturbed(p)
  BY DEF Moved, Disturbed, Typing
<1>2. ASSUME NEW q \in Procs, q # p PROVE shell[q] = <<>>
  <2> SUFFICES ASSUME shell[q] # <<>> PROVE FALSE
    OBVIOUS
  <2>1. Saves(p) /\ Saves(q)
    BY <1>1, <1>2 DEF Disturbed, Busy
  <2> QED
    BY <2>1, <1>2 DEF Saves, Locked
<1> QED
  BY <1>1, <1>2 DEF Moved, Typing

-----------------------------------------------------------------------------
(* Main executes a command: what holds at each phase.                      *)

LEMMA MainMoves ==
  ASSUME Typing, Run(Main)
  PROVE  /\ Main \in Procs /\ Main \notin Workers /\ Moved(Main) /\ shell[Main] # <<>>
         /\ shell'[Main] = Tail(shell[Main]) /\ file \in [Files -> Contents]
<1>1. Main \in Procs /\ Main \notin Workers
  BY Marks DEF Procs
<1>2. Moved(Main) /\ shell[Main] # <<>>
  BY RunMoves
<1>3. shell'[Main] = Tail(shell[Main]) /\ file \in [Files -> Contents]
  BY <1>1, <1>2 DEF Moved, Typing
<1> QED
  BY <1>1, <1>2, <1>3

LEMMA MainChecksConf ==
  ASSUME Typing, Run(Main), AtCheckConf
  PROVE  AtCheckConf'
<1>0. /\ Main \in Procs /\ Main \notin Workers /\ Moved(Main) /\ shell[Main] # <<>>
      /\ shell'[Main] = Tail(shell[Main]) /\ file \in [Files -> Contents]
  BY MainMoves
<1>1. CASE shell[Main] = Unback2 /\ Certain
  <2>1. shell'[Main] = Unback1 /\ Wrote(Main, [file EXCEPT !["backup"] = Absent], {})
    BY <1>0, <1>1, BackupTails, RunRemove
  <2> QED
    BY <1>0, <1>1, <2>1 DEF AtCheckConf, Wrote, Files, Gone, Certain, Nothing, Sure, Holds
<1>2. CASE shell[Main] = Unback1 /\ Gone("backup") /\ Certain
  <2>1. shell'[Main] = <<>> /\ Wrote(Main, [file EXCEPT !["backupSum"] = Absent], {})
    BY <1>0, <1>2, BackupTails, RunRemove
  <2> QED
    BY <1>0, <1>2, <2>1 DEF AtCheckConf, BackupSummed, Settled, Promised, Wrote, Files, Gone, Certain, Nothing, Sure, Holds
<1> QED
  BY <1>0, <1>1, <1>2 DEF AtCheckConf

LEMMA MainBegins ==
  ASSUME Typing, Run(Main), AtBegin
  PROVE  AtBegin'
<1>0. /\ Main \in Procs /\ Main \notin Workers /\ Moved(Main) /\ shell[Main] # <<>>
      /\ shell'[Main] = Tail(shell[Main]) /\ file \in [Files -> Contents]
  BY MainMoves
<1>1. CASE shell[Main] = DropLine /\ Gone("backup") /\ Nothing
  <2>1. shell'[Main] = Drop1 /\ Wrote(Main, [file EXCEPT !["conf"] = Absent], {})
    BY <1>0, <1>1, DropTails, RunRemove
  <2> QED
    BY <1>0, <1>1, <2>1 DEF Wrote, Files, Gone, AtBegin, BackupSummed, Nothing
<1>2. CASE shell[Main] = Drop1 /\ Nothing /\ Gone("backup") /\ Gone("conf")
  <2>1. shell'[Main] = <<>> /\ Wrote(Main, [file EXCEPT !["sum"] = Absent], {})
    BY <1>0, <1>2, DropTails, RunRemove
  <2> QED
    BY <1>0, <1>2, <2>1 DEF Wrote, Files, Gone, AtBegin, BackupSummed, Nothing, Settled, Promised, Certain
<1>3. CASE shell[Main] = Swap5 /\ ~ Gone("backup") /\ Nothing
  <2>1. shell'[Main] = Swap4 /\ Wrote(Main, [file EXCEPT !["conf"] = Absent], {})
    BY <1>0, <1>3, SwapTails, RunRemove
  <2> QED
    BY <1>0, <1>3, <2>1 DEF Wrote, Files, Gone, AtBegin, BackupSummed, Nothing
<1>4. CASE shell[Main] = Swap4 /\ ~ Gone("backup") /\ Nothing
  <2>1. shell'[Main] = RestoreLine /\ Wrote(Main, [file EXCEPT !["sum"] = Absent], {})
    BY <1>0, <1>4, SwapTails, RunRemove
  <2> QED
    BY <1>0, <1>4, <2>1 DEF Wrote, Files, Gone, AtBegin, BackupSummed, Nothing
<1>5. CASE shell[Main] = RestoreLine /\ ~ Gone("backup") /\ Nothing
  <2>1. shell'[Main] = Swap2 /\ Wrote(Main, [file EXCEPT !["conf"] = file["backup"], !["backup"] = Absent], {})
    BY <1>0, <1>5, SwapTails, RunRename
  <2> QED
    BY <1>0, <1>5, <2>1 DEF Wrote, Files, Gone, AtBegin, BackupSummed, Nothing
<1>6. CASE shell[Main] = Swap2 /\ Nothing /\ Gone("backup") /\ ~ Gone("conf")
  <2>1. shell'[Main] = Swap1 /\ Wrote(Main, [file EXCEPT !["backupSum"] = Absent], {})
    BY <1>0, <1>6, SwapTails, RunRemove
  <2> QED
    BY <1>0, <1>6, <2>1 DEF Wrote, Files, Gone, AtBegin, BackupSummed, Nothing
<1>7. CASE shell[Main] = Swap1 /\ Nothing /\ Gone("backup") /\ ~ Gone("conf")
  <2>1. shell'[Main] = <<>> /\ Wrote(Main, [file EXCEPT !["sum"] = IF Gone("conf") THEN Partial ELSE file["conf"]], {"sum"})
    BY <1>0, <1>7, SwapTails, RunSum DEF SumOf
  <2> QED
    BY <1>0, <1>7, <2>1 DEF Wrote, Files, Gone, AtBegin, BackupSummed, Nothing, Settled, Promised, Certain, ConfSummed
<1> QED
  BY <1>0, <1>1, <1>2, <1>3, <1>4, <1>5, <1>6, <1>7 DEF AtBegin

LEMMA MainLoads ==
  ASSUME Typing, Run(Main), AtLoad
  PROVE  AtLoad'
<1>0. /\ Main \in Procs /\ Main \notin Workers /\ Moved(Main) /\ shell[Main] # <<>>
      /\ shell'[Main] = Tail(shell[Main]) /\ file \in [Files -> Contents]
  BY MainMoves
<1>1. CASE shell[Main] = SaveLine(Default, Any) /\ Gone("conf") /\ owed \in {Any, Default}
  <2>1. shell'[Main] = Save3(Default, Any) /\ Wrote(Main, [file EXCEPT !["conf"] = Absent], {})
    BY <1>0, <1>1, SaveTails, RunRemove
  <2> QED
    BY <1>0, <1>1, <2>1 DEF Wrote, Files, Gone, AtLoad, BackupSummed
<1>2. CASE shell[Main] = Save3(Default, Any) /\ Gone("conf") /\ owed \in {Any, Default}
  <2>1. shell'[Main] = Save2(Any) /\ Wrote(Main, [file EXCEPT !["conf"] = Default], {"conf"})
    BY <1>0, <1>2, SaveTails, RunWrite
  <2> QED
    BY <1>0, <1>2, <2>1 DEF Wrote, Files, Gone, AtLoad, BackupSummed
<1>3. CASE shell[Main] = Save2(Any) /\ file["conf"] = Default /\ "conf" \in fresh /\ owed \in {Any, Default}
  <2>1. shell'[Main] = Synced(Any) /\ Wrote(Main, [file EXCEPT !["sum"] = IF Gone("conf") THEN Partial ELSE file["conf"]], {"sum"})
    BY <1>0, <1>3, SaveTails, RunSum DEF SumOf
  <2> QED
    BY <1>0, <1>3, <2>1, Marks DEF Wrote, Files, Gone, AtLoad, BackupSummed
<1>4. CASE shell[Main] = Synced(Any) /\ file["conf"] = Default /\ file["sum"] = Default /\ owed \in {Any, Default}
  <2>1. shell'[Main] = <<>> /\ Flushed(Main, Any)
    BY <1>0, <1>4, SaveTails, RunSync
  <2> QED
    BY <1>0, <1>4, <2>1, Marks DEF Flushed, AtLoad, BackupSummed, Settled, Quiet, Promised, Certain, Nothing, Sure, Holds, ConfSummed, Gone
<1> QED
  BY <1>0, <1>1, <1>2, <1>3, <1>4 DEF AtLoad

LEMMA MainBacks ==
  ASSUME Typing, Run(Main), AtBacking
  PROVE  AtBacking'
<1>0. /\ Main \in Procs /\ Main \notin Workers /\ Moved(Main) /\ shell[Main] # <<>>
      /\ shell'[Main] = Tail(shell[Main]) /\ file \in [Files -> Contents]
  BY MainMoves
<1>1. CASE shell[Main] = BackupLine /\ Certain
  <2>1. shell'[Main] = Backup2 /\ Wrote(Main, [file EXCEPT !["backup"] = file["conf"]], {"backup"})
    BY <1>0, <1>1, BackupTails, RunCopy
  <2> QED
    BY <1>0, <1>1, <2>1, CertainKept DEF Wrote, Files, Gone, AtBacking, ConfSummed
<1>2. CASE shell[Main] = Backup2 /\ Certain /\ file["backup"] = lastGood
  <2>1. shell'[Main] = Synced(Any) /\ Wrote(Main, [file EXCEPT !["backupSum"] = IF Gone("backup") THEN Partial ELSE file["backup"]], {"backupSum"})
    BY <1>0, <1>2, BackupTails, RunSum DEF SumOf
  <2> QED
    BY <1>0, <1>2, <2>1, CertainKept, Marks DEF Wrote, Files, Gone, AtBacking, ConfSummed, Typing
<1>3. CASE shell[Main] = Synced(Any) /\ Certain /\ file["backup"] = lastGood /\ file["backupSum"] = lastGood
  <2>1. shell'[Main] = <<>> /\ Flushed(Main, Any)
    BY <1>0, <1>3, SaveTails, RunSync
  <2> QED
    BY <1>0, <1>3, <2>1, CertainKept, Marks DEF AtBacking, Flushed, ConfSummed, Quiet, BackupIs, Promised
<1> QED
  BY <1>0, <1>1, <1>2, <1>3 DEF AtBacking

LEMMA MainIsUp ==
  ASSUME Typing, Run(Main), AtUp
  PROVE  AtUp'
<1>0. /\ Main \in Procs /\ Main \notin Workers /\ Moved(Main) /\ shell[Main] # <<>>
      /\ shell'[Main] = Tail(shell[Main]) /\ file \in [Files -> Contents]
  BY MainMoves
<1>1. CASE BackingUp /\ spoilt /\ shell[Main] = BackupLine
  <2>1. shell'[Main] = Backup2 /\ Wrote(Main, [file EXCEPT !["backup"] = file["conf"]], {"backup"})
    BY <1>0, <1>1, BackupTails, RunCopy
  <2> QED
    BY <1>0, <1>1, <2>1, CertainKept DEF Wrote, Files, Gone, AtUp, BackingUp, Moved, Disturbed
<1>2. CASE BackingUp /\ spoilt /\ shell[Main] = Backup2
  <2>1. shell'[Main] = Synced(Any) /\ Wrote(Main, [file EXCEPT !["backupSum"] = IF Gone("backup") THEN Partial ELSE file["backup"]], {"backupSum"})
    BY <1>0, <1>2, BackupTails, RunSum DEF SumOf
  <2> QED
    BY <1>0, <1>2, <2>1, CertainKept DEF Wrote, Files, Gone, AtUp, BackingUp, Moved, Disturbed
<1>3. CASE BackingUp /\ spoilt /\ shell[Main] = Synced(Any)
  <2>1. shell'[Main] = <<>> /\ Flushed(Main, Any)
    BY <1>0, <1>3, SaveTails, RunSync
  <2> QED
    BY <1>0, <1>3, <2>1, CertainKept, Marks DEF AtUp, BackingUp, Flushed, Promised
<1> QED
  BY <1>0, <1>1, <1>2, <1>3 DEF AtUp, BackingUp

LEMMA AloneKept ==
  ASSUME Typing, Moved(Main), Alone
  PROVE  Alone'
BY Marks DEF Moved, Typing, Alone, Procs

\* A configuration that is promised is certain, or breaks when it is removed.
LEMMA PromiseBreaks ==
  ASSUME Typing, Promised, Wrote(Main, [file EXCEPT !["conf"] = Absent], {})
  PROVE  Unstable'
<1>1. owed' = owed /\ lastGood' = lastGood /\ file' = [file EXCEPT !["conf"] = Absent]
  BY Marks DEF Wrote
<1>2. CASE ~ Gone("conf")
  BY <1>2, <1>1, BrokenKept DEF Gone, Typing, Files, Unstable
<1>3. CASE Gone("conf")
  <2>1. Certain
    BY <1>3, Marks DEF Promised, Certain, Nothing, Falls, Holds, Sure, Gone, Known, Typing
  <2>2. file'["conf"] = file["conf"] /\ file'["sum"] = file["sum"]
    BY <1>1, <1>3 DEF Typing, Files, Gone
  <2> QED
    BY <1>1, <2>1, <2>2, CertainKept DEF Unstable
<1> QED
  BY <1>2, <1>3

LEMMA MainReboots ==
  ASSUME Typing, Run(Main), AtReboot
  PROVE  AtReboot'
<1>0. /\ Main \in Procs /\ Main \notin Workers /\ Moved(Main) /\ shell[Main] # <<>>
      /\ shell'[Main] = Tail(shell[Main]) /\ file \in [Files -> Contents]
  BY MainMoves
<1>a. (spoilt => spoilt') /\ (Alone => Alone')
  BY <1>0, AloneKept DEF Moved, Disturbed
<1>1. CASE BackingUp /\ spoilt /\ shell[Main] = BackupLine
  <2>1. shell'[Main] = Backup2 /\ Wrote(Main, [file EXCEPT !["backup"] = file["conf"]], {"backup"})
    BY <1>0, <1>1, BackupTails, RunCopy
  <2> QED
    BY <1>0, <1>a, <1>1, <2>1, CertainKept DEF Wrote, Files, Gone, AtReboot, BackingUp
<1>2. CASE BackingUp /\ spoilt /\ shell[Main] = Backup2
  <2>1. shell'[Main] = Synced(Any) /\ Wrote(Main, [file EXCEPT !["backupSum"] = IF Gone("backup") THEN Partial ELSE file["backup"]], {"backupSum"})
    BY <1>0, <1>2, BackupTails, RunSum DEF SumOf
  <2> QED
    BY <1>0, <1>a, <1>2, <2>1, CertainKept DEF Wrote, Files, Gone, AtReboot, BackingUp
<1>3. CASE shell[Main] = Synced(Any) /\ Certain
  <2>1. shell'[Main] = <<>> /\ Flushed(Main, Any)
    BY <1>0, <1>3, SaveTails, RunSync
  <2> QED
    BY <1>0, <1>3, <2>1, CertainKept, Marks DEF AtReboot, Flushed, Promised
<1>4. CASE shell[Main] = DefaultLine /\ Promised
  <2>1. shell'[Main] = Default4 /\ Wrote(Main, [file EXCEPT !["conf"] = Absent], {})
    BY <1>0, <1>4, DefaultTails, RunRemove
  <2>2. Unstable'
    BY <1>4, <2>1, PromiseBreaks
  <2> QED
    BY <1>0, <2>1, <2>2 DEF Wrote, AtReboot, Gone, Files
<1>5. CASE shell[Main] = Default4 /\ Unstable /\ (spoilt \/ Gone("conf"))
  <2>1. shell'[Main] = Default3 /\ Wrote(Main, [file EXCEPT !["backup"] = Absent], {})
    BY <1>0, <1>5, DefaultTails, RunRemove
  <2>2. Unstable'
    BY <1>0, <1>5, <2>1, CertainKept, BrokenKept DEF Unstable, Wrote, Files
  <2> QED
    BY <1>0, <1>a, <1>5, <2>1, <2>2 DEF Wrote, AtReboot, Gone, Files
<1>6. CASE /\ shell[Main] = Default3 /\ Unstable
          /\ (spoilt \/ (Gone("conf") /\ Gone("backup")))
  <2>1. shell'[Main] = Default2 /\ Wrote(Main, [file EXCEPT !["backupSum"] = Absent], {})
    BY <1>0, <1>6, DefaultTails, RunRemove
  <2>2. Unstable'
    BY <1>0, <1>6, <2>1, CertainKept, BrokenKept DEF Unstable, Wrote, Files
  <2> QED
    BY <1>0, <1>a, <1>6, <2>1, <2>2 DEF Wrote, AtReboot, Gone, Files
<1>7. CASE /\ shell[Main] = Default2 /\ Unstable
          /\ (spoilt \/ (Gone("conf") /\ Gone("backup")))
  <2>1. shell'[Main] = Synced(Default) /\ Wrote(Main, [file EXCEPT !["sum"] = Absent], {})
    BY <1>0, <1>7, DefaultTails, RunRemove
  <2>2. ASSUME Certain PROVE Unstable'
    BY <1>0, <2>1, <2>2 DEF Unstable, Certain, Nothing, Sure, Holds, Gone, Wrote, Files
  <2>3. ASSUME Broken PROVE Unstable'
    BY <1>0, <2>1, <2>3, BrokenKept DEF Unstable
  <2>4. Unstable'
    BY <1>7, <2>2, <2>3 DEF Unstable
  <2> QED
    BY <1>0, <1>a, <1>7, <2>1, <2>4 DEF Wrote, AtReboot, Gone, Files
<1>8. CASE /\ shell[Main] = Synced(Default) /\ Unstable
          /\ (spoilt \/ (Gone("conf") /\ Gone("sum") /\ Gone("backup")))
  <2>1. shell'[Main] = <<>> /\ Flushed(Main, Default)
    BY <1>0, <1>8, SaveTails, RunSync
  <2>2. owed' \in {Any, Default} /\ (spoilt => owed' = Any)
    BY <2>1, Marks DEF Flushed, Disturbed, Owing, Known
  <2>3. Certain'
    BY <1>8, <2>1, <2>2, Marks DEF Flushed, Certain, Nothing, Sure, Holds, Gone
  <2> QED
    BY <2>1, <2>3 DEF AtReboot, Promised
<1>9. CASE shell[Main] = Fall4 /\ Alone /\ Nothing
  <2>1. shell'[Main] = Fall3 /\ Wrote(Main, [file EXCEPT !["conf"] = file["backup"], !["backup"] = Absent], {})
    BY <1>0, <1>9, FallTails, RunRename
  <2> QED
    BY <1>0, <1>a, <1>9, <2>1 DEF AtReboot, Falling, Nothing, Fallen, Gone, Wrote, Files
<1>10. CASE /\ shell[Main] = Fall4 /\ Alone /\ Falls(owed)
          /\ file["backup"] = owed /\ file["conf"] # owed
  <2>1. shell'[Main] = Fall3 /\ Wrote(Main, [file EXCEPT !["conf"] = file["backup"], !["backup"] = Absent], {})
    BY <1>0, <1>10, FallTails, RunRename
  <2>2. owed \in Good
    BY <1>10, Marks DEF Falls, Holds, Gone, Typing, Known
  <2>3. Broken'
    BY <1>0, <1>10, <2>1, BrokenKept DEF Files
  <2> QED
    BY <1>0, <1>a, <1>10, <2>1, <2>2, <2>3 DEF AtReboot, Falling, Nothing, Fallen, Gone, Wrote, Files
<1>11. CASE shell[Main] = Fall3 /\ Alone /\ (Nothing \/ Fallen)
  <2>1. shell'[Main] = Save2(Any) /\ Wrote(Main, [file EXCEPT !["backupSum"] = Absent], {})
    BY <1>0, <1>11, FallTails, RunRemove
  <2> QED
    BY <1>0, <1>a, <1>11, <2>1, BrokenKept DEF AtReboot, Falling, Nothing, Fallen, Gone, Wrote, Files
<1>12. CASE shell[Main] = Save2(Any) /\ Alone /\ (Nothing \/ Fallen)
  <2>1. shell'[Main] = Synced(Any) /\ Wrote(Main, [file EXCEPT !["sum"] = IF Gone("conf") THEN Partial ELSE file["conf"]], {"sum"})
    BY <1>0, <1>12, SaveTails, RunSum DEF SumOf
  <2>2. Certain'
    BY <1>0, <1>12, <2>1, Marks DEF Certain, Nothing, Fallen, Sure, Holds, Gone, Wrote, Files, Known
  <2> QED
    BY <1>0, <1>a, <1>12, <2>1, <2>2 DEF AtReboot, Falling
<1>13. CASE shell[Main] = Lose3 /\ Alone /\ (Nothing \/ owed = Default)
  <2>1. shell'[Main] = Lose2 /\ Wrote(Main, [file EXCEPT !["conf"] = Absent], {})
    BY <1>0, <1>13, DropTails, RunRemove
  <2>2. Certain'
    BY <1>0, <1>13, <2>1, Marks DEF Certain, Nothing, Sure, Holds, Gone, Wrote, Files
  <2> QED
    BY <1>0, <1>a, <1>13, <2>1, <2>2 DEF AtReboot, Falling
<1>14. CASE shell[Main] = Lose2 /\ Alone /\ Certain
  <2>1. shell'[Main] = Synced(Any) /\ Wrote(Main, [file EXCEPT !["sum"] = Absent], {})
    BY <1>0, <1>14, DropTails, RunRemove
  <2>2. Certain'
    BY <1>0, <1>14, <2>1 DEF Certain, Nothing, Sure, Holds, Gone, Wrote, Files
  <2> QED
    BY <1>0, <1>a, <1>14, <2>1, <2>2 DEF AtReboot, Falling
<1> QED
  BY <1>0, <1>1, <1>2, <1>3, <1>4, <1>5, <1>6, <1>7, <1>8, <1>9, <1>10, <1>11, <1>12, <1>13, <1>14 DEF AtReboot, BackingUp, Falling

-----------------------------------------------------------------------------
(* What a command leaves has its type.                                     *)

Plain(k) ==
  \/ \E f \in Files : k = Remove(f)
  \/ \E c \in Contents : k = Write("conf", c)
  \/ k = Rename("backup", "conf")
  \/ \E f \in {"conf", "backup"} : k = Sum(f)
  \/ \E c : k = Sync(c)

Command(k) == Plain(k) \/ k = Copy("conf", "backup")

LEMMA CommandTyping ==
  ASSUME NEW p \in Procs, Typing, Run(p), Command(Head(shell[p]))
  PROVE  Typing'
<1>0. Moved(p) /\ file \in [Files -> Contents] /\ Absent \in Contents /\ Partial \in Contents
  BY RunMoves DEF Typing, Contents
<1>1. ASSUME NEW f \in Files, Head(shell[p]) = Remove(f) PROVE Typing'
  <2>1. [file EXCEPT ![f] = Absent] \in [Files -> Contents] /\ {} \in SUBSET Files
    BY <1>0
  <2> QED
    BY <1>0, <1>1, <2>1, RunRemove, WroteTyping
<1>2. ASSUME NEW c \in Contents, Head(shell[p]) = Write("conf", c) PROVE Typing'
  <2>1. [file EXCEPT !["conf"] = c] \in [Files -> Contents] /\ {"conf"} \in SUBSET Files
    BY <1>0 DEF Files
  <2> QED
    BY <1>0, <1>2, <2>1, RunWrite, WroteTyping
<1>3. CASE Head(shell[p]) = Copy("conf", "backup")
  <2>1. /\ [file EXCEPT !["backup"] = file["conf"]] \in [Files -> Contents]
        /\ {"backup"} \in SUBSET Files
    BY <1>0 DEF Files
  <2> QED
    BY <1>0, <1>3, <2>1, RunCopy, WroteTyping
<1>4. CASE Head(shell[p]) = Rename("backup", "conf")
  <2>1. /\ [file EXCEPT !["conf"] = file["backup"], !["backup"] = Absent]
             \in [Files -> Contents]
        /\ {} \in SUBSET Files
    BY <1>0 DEF Files
  <2> QED
    BY <1>0, <1>4, <2>1, RunRename, WroteTyping
<1>5. ASSUME NEW f \in {"conf", "backup"}, Head(shell[p]) = Sum(f) PROVE Typing'
  <2>1. /\ [file EXCEPT ![SumOf(f)] = IF Gone(f) THEN Partial ELSE file[f]]
             \in [Files -> Contents]
        /\ {SumOf(f)} \in SUBSET Files
    BY <1>0 DEF Files, SumOf
  <2> QED
    BY <1>0, <1>5, <2>1, RunSum, WroteTyping
<1>6. ASSUME NEW c, Head(shell[p]) = Sync(c) PROVE Typing'
  BY <1>0, <1>6, RunSync, SyncTyping
<1> QED
  BY <1>1, <1>2, <1>3, <1>4, <1>5, <1>6 DEF Command, Plain

LEMMA PlainOnes ==
  /\ \A f \in Files : Plain(Remove(f))
  /\ \A c \in Known \cup {Partial} : Plain(Write("conf", c))
  /\ Plain(Rename("backup", "conf"))
  /\ Plain(Sum("conf")) /\ Plain(Sum("backup"))
  /\ \A c : Plain(Sync(c))
  /\ Plain(Remove("conf")) /\ Plain(Remove("sum"))
  /\ Plain(Remove("backup")) /\ Plain(Remove("backupSum"))
  /\ Plain(Write("conf", Default))
<1>1. \A f \in Files : Plain(Remove(f))
  BY DEF Plain
<1>2. \A c \in Known \cup {Partial} : Plain(Write("conf", c))
  BY DEF Plain, Contents
<1>3. /\ Plain(Rename("backup", "conf"))
      /\ Plain(Sum("conf")) /\ Plain(Sum("backup"))
  BY DEF Plain
<1>4. \A c : Plain(Sync(c))
  BY DEF Plain
<1>5. /\ Plain(Remove("conf")) /\ Plain(Remove("sum"))
      /\ Plain(Remove("backup")) /\ Plain(Remove("backupSum"))
  BY <1>1 DEF Files
<1>6. Plain(Write("conf", Default))
  BY <1>2, Marks
<1> QED
  BY <1>1, <1>2, <1>3, <1>4, <1>5, <1>6

LEMMA MainCommands ==
  ASSUME Typing, MainRest, shell[Main] # <<>>
  PROVE  \/ Plain(Head(shell[Main]))
         \/ /\ Head(shell[Main]) = Copy("conf", "backup")
            /\ (spoilt \/ file["conf"] = lastGood)
<1>1. CASE phase = "checkBackup"
  BY <1>1 DEF MainRest, AtCheckBackup
<1>2. CASE phase = "checkConf"
  BY <1>2, BackupTails, PlainOnes DEF MainRest, AtCheckConf
<1>3. CASE phase = "begin"
  BY <1>3, DropTails, SwapTails, PlainOnes DEF MainRest, AtBegin
<1>4. CASE phase = "load"
  BY <1>4, SaveTails, PlainOnes DEF MainRest, AtLoad
<1>5. CASE phase = "backing"
  BY <1>5, BackupTails, SaveTails, PlainOnes DEF MainRest, AtBacking
<1>6. CASE phase = "up"
  BY <1>6, BackupTails, SaveTails, PlainOnes DEF MainRest, AtUp, BackingUp
<1>7. CASE phase = "reboot"
  BY <1>7, BackupTails, SaveTails, DefaultTails, DropTails, FallTails, PlainOnes
     DEF MainRest, AtReboot, BackingUp, Falling
<1> QED
  BY <1>1, <1>2, <1>3, <1>4, <1>5, <1>6, <1>7 DEF Typing

LEMMA WorkerCommands ==
  ASSUME NEW r, WorkerRest(r), r # <<>>
  PROVE  Plain(Head(r)) /\ WorkerRest(Tail(r))
<1>1. ASSUME NEW c \in Known \cup {Partial}, SaveRest(r, c)
      PROVE  Plain(Head(r)) /\ WorkerRest(Tail(r))
  <2>1. CASE r = SaveLine(c, c)
    BY <2>1, SaveTails, PlainOnes DEF SaveRest, WorkerRest
  <2>2. CASE r = Save3(c, c)
    BY <2>2, SaveTails, PlainOnes DEF SaveRest, WorkerRest
  <2>3. CASE r = Save2(c)
    BY <2>3, SaveTails, PlainOnes DEF SaveRest, WorkerRest
  <2>4. CASE r = Synced(c)
    BY <2>4, SaveTails, PlainOnes DEF WorkerRest
  <2> QED
    BY <1>1, <2>1, <2>2, <2>3, <2>4 DEF SaveRest
<1>2. CASE DefaultRest(r)
  BY <1>2, SaveTails, DefaultTails, PlainOnes DEF DefaultRest, WorkerRest
<1> QED
  BY <1>1, <1>2 DEF WorkerRest

\* A command of Main preserves all but the last part of the invariant.
LEMMA MainSteps ==
  ASSUME Typing, Locked, Starting, Lines, MainRest, Run(Main)
  PROVE  Typing' /\ Locked' /\ Starting' /\ Lines' /\ MainRest'
<1>0. Main \in Procs /\ Main \notin Workers /\ Moved(Main) /\ shell[Main] # <<>>
  BY MainMoves
<1>1. Typing'
  BY <1>0, MainCommands, CommandTyping DEF Command
<1>2. Locked' /\ Starting' /\ Lines'
  BY <1>0 DEF Moved, Locked, Starting, Alone, Lines, Typing, Procs
<1>3. phase' = phase
  BY <1>0 DEF Moved
<1>4. MainRest'
  <2>1. CASE phase = "checkBackup"
    BY <1>0, <2>1 DEF MainRest, AtCheckBackup
  <2>2. CASE phase = "checkConf"
    BY <1>3, <2>2, MainChecksConf DEF MainRest
  <2>3. CASE phase = "begin"
    BY <1>3, <2>3, MainBegins DEF MainRest
  <2>4. CASE phase = "load"
    BY <1>3, <2>4, MainLoads DEF MainRest
  <2>5. CASE phase = "backing"
    BY <1>3, <2>5, MainBacks DEF MainRest
  <2>6. CASE phase = "up"
    BY <1>3, <2>6, MainIsUp DEF MainRest
  <2>7. CASE phase = "reboot"
    BY <1>3, <2>7, MainReboots DEF MainRest
  <2> QED
    BY <2>1, <2>2, <2>3, <2>4, <2>5, <2>6, <2>7 DEF Typing
<1> QED
  BY <1>1, <1>2, <1>4

-----------------------------------------------------------------------------
(* A command of a worker.                                                  *)

\* A line of a worker is at work only after the start; Main's line is left.
LEMMA WorkerMoves ==
  ASSUME NEW w \in Workers, Typing, Starting, Run(w)
  PROVE  /\ w \in Procs /\ w # Main /\ Main \in Procs
         /\ phase' = phase /\ phase \in {"up", "reboot"}
         /\ Moved(w) /\ shell[w] # <<>>
         /\ shell'[Main] = shell[Main] /\ shell'[w] = Tail(shell[w])
         /\ \A q \in Procs : q # w => shell'[q] = shell[q]
         /\ file \in [Files -> Contents]
<1>1. w \in Procs /\ w # Main /\ Main \in Procs
  BY Marks DEF Procs
<1>2. Moved(w) /\ shell[w] # <<>>
  BY RunMoves
<1>3. phase' = phase /\ phase \in {"up", "reboot"}
  BY <1>2 DEF Moved, Typing, Starting, Alone
<1>4. /\ shell'[Main] = shell[Main] /\ shell'[w] = Tail(shell[w])
      /\ \A q \in Procs : q # w => shell'[q] = shell[q]
      /\ file \in [Files -> Contents]
  BY <1>1, <1>2 DEF Moved, Typing
<1> QED
  BY <1>1, <1>2, <1>3, <1>4

LEMMA OwesNothing ==
  ASSUME NEW w \in Workers, Typing, Starting, MainRest, Run(w), owed' = Any
  PROVE  MainRest'
<1>0. /\ phase' = phase /\ phase \in {"up", "reboot"} /\ shell'[Main] = shell[Main]
      /\ w # Main /\ Main \in Procs /\ Moved(w) /\ shell[w] # <<>>
  BY WorkerMoves
<1>1. ~ Alone
  BY <1>0 DEF Alone
<1>2. shell[Main] # <<>> => spoilt'
  BY <1>0, Marks DEF Moved, Disturbed, Busy, Saves
<1>3. Nothing' /\ Certain' /\ Promised' /\ Unstable'
  BY DEF Nothing, Certain, Promised, Unstable
<1>4. CASE phase = "up"
  BY <1>0, <1>2, <1>3, <1>4, NotEmpty DEF MainRest, AtUp, BackingUp
<1>5. CASE phase = "reboot"
  BY <1>0, <1>1, <1>2, <1>3, <1>5, NotEmpty DEF MainRest, AtReboot, BackingUp, Falling
<1> QED
  BY <1>0, <1>4, <1>5

\* Only sync is left of a line.
LEMMA OneLeft ==
  ASSUME NEW c, NEW d
  PROVE  /\ Synced(c) = Synced(d) => c = d
         /\ SaveLine(d, d) # Synced(c) /\ Save3(d, d) # Synced(c) /\ Save2(d) # Synced(c)
         /\ DefaultLine # Synced(c) /\ Default4 # Synced(c)
         /\ Default3 # Synced(c) /\ Default2 # Synced(c) /\ <<>> # Synced(c)
BY DEF Synced, SaveLine, Save3, Save2, DefaultLine, Default4, Default3, Default2, Sync

LEMMA DoneSynced ==
  ASSUME NEW p, NEW c, shell[p] = Synced(c), Done(p)
  PROVE  \/ file["conf"] = c /\ file["sum"] = c
         \/ c = Default /\ Gone("conf") /\ Gone("backup") /\ Gone("sum")
BY OneLeft DEF Done

\* A line that nothing disturbed keeps its promise.
LEMMA Fulfilled ==
  ASSUME NEW w \in Workers, NEW c \in Known \cup {Partial}, Typing, Locked,
         Starting, Undisturbed, Run(w), shell[w] = Synced(c), ~ spoilt'
  PROVE  Promised'
<1>0. /\ phase \in {"up", "reboot"} /\ Moved(w) /\ w \in Procs /\ shell[w] # <<>>
  BY WorkerMoves
<1>1. /\ ~ spoilt /\ ~ Disturbed(w)
      /\ \A q \in Procs : q # w => shell[q] = <<>>
  BY <1>0, Sole
<1>2. Flushed(w, c)
  BY SaveTails, RunSync
<1>3. owed' = IF c = Partial THEN Any ELSE c
  BY <1>1, <1>2, Marks DEF Flushed, Owing
<1>4. Served /\ Done(w) /\ BackupKept
  BY <1>0, <1>1 DEF Undisturbed, Served
<1>5. /\ file' = file /\ Quiet'
      /\ lastGood' = IF c = Default /\ Gone("conf") THEN Default ELSE lastGood
  BY <1>2 DEF Flushed, Quiet
<1>6. CASE c = Partial
  BY <1>3, <1>6 DEF Promised, Certain, Nothing
<1>7. CASE c # Partial /\ c \in Good
  <2>1. Holds(c)'
    BY <1>4, <1>5, DoneSynced DEF Holds, Gone
  <2> QED
    BY <1>3, <1>7, <2>1 DEF Promised, Certain, Sure
<1>8. CASE c # Partial /\ c \notin Good
  <2>1. file["conf"] = c /\ file["sum"] = c /\ c # Absent /\ c \in Known
    BY <1>4, <1>8, DoneSynced, Marks
  <2>2. lastGood' = lastGood /\ Holds(c)'
    BY <1>5, <1>8, <2>1, Marks DEF Holds
  <2>3. CASE lastGood = Partial
    BY <1>3, <1>8, <2>2, <2>3 DEF Promised, Certain, Sure
  <2>4. CASE lastGood # Partial
    <3>1. \A v \in Workers : ~ Removing(v)
      BY <2>1 DEF Removing, Gone
    <3>2. BackupIs
      BY <1>0, <1>4, <2>4, <3>1 DEF BackupKept
    <3>3. BackupIs'
      BY <1>5, <2>2, <3>2 DEF BackupIs, Gone
    <3> QED
      BY <1>3, <1>5, <1>8, <2>2, <2>4, <3>3 DEF Promised, Falls
  <2> QED
    BY <2>3, <2>4
<1> QED
  BY <1>6, <1>7, <1>8

\* Any command but sync leaves the user of a worker nothing.
LEMMA OnlySync ==
  ASSUME NEW w \in Workers, WorkerRest(shell[w]), Run(w), owed' # Any
  PROVE  \E c \in Known \cup {Partial} : shell[w] = Synced(c)
<1>0. shell[w] # <<>>
  BY RunMoves
<1>1. ASSUME NEW f, Head(shell[w]) = Remove(f) PROVE FALSE
  BY <1>1, RunRemove DEF Wrote
<1>2. ASSUME NEW c, Head(shell[w]) = Write("conf", c) PROVE FALSE
  BY <1>2, RunWrite DEF Wrote
<1>3. Head(shell[w]) # Sum("conf")
  BY RunSum DEF Wrote
<1>4. ASSUME NEW c \in Known \cup {Partial}, SaveRest(shell[w], c)
      PROVE  shell[w] = Synced(c)
  BY <1>1, <1>2, <1>3, <1>4, SaveTails DEF SaveRest
<1>5. CASE DefaultRest(shell[w])
  BY <1>1, <1>5, DefaultTails, Marks DEF DefaultRest
<1> QED
  BY <1>0, <1>4, <1>5 DEF WorkerRest

LEMMA WorkerSteps ==
  ASSUME NEW w \in Workers, Typing, Locked, Starting, Lines, MainRest, Undisturbed, Run(w)
  PROVE  Typing' /\ Locked' /\ Starting' /\ Lines' /\ MainRest'
<1>0. /\ w \in Procs /\ w # Main /\ Main \in Procs
      /\ phase' = phase /\ phase \in {"up", "reboot"}
      /\ Moved(w) /\ shell[w] # <<>>
      /\ shell'[Main] = shell[Main] /\ shell'[w] = Tail(shell[w])
      /\ \A q \in Procs : q # w => shell'[q] = shell[q]
  BY WorkerMoves
<1>1. Plain(Head(shell[w])) /\ WorkerRest(Tail(shell[w]))
  BY <1>0, WorkerCommands DEF Lines
<1>2. Typing'
  BY <1>0, <1>1, CommandTyping DEF Command
<1>3. Locked' /\ Starting'
  BY <1>0 DEF Moved, Locked, Starting, Procs
<1>4. Lines'
  BY <1>0, <1>1 DEF Lines, Procs
<1>5. MainRest'
  <2>1. CASE owed' = Any
    BY <2>1, OwesNothing
  <2>2. CASE owed' # Any
    <3>1. PICK c \in Known \cup {Partial} : shell[w] = Synced(c)
      BY <1>0, <2>2, OnlySync DEF Lines
    <3>2. Flushed(w, c)
      BY <3>1, SaveTails, RunSync
    <3>3. ~ spoilt'
      BY <1>0, <2>2, <3>1, <3>2, Marks DEF Flushed, Moved
    <3>4. Promised'
      BY <3>1, <3>3, Fulfilled
    <3>5. shell[Main] = <<>>
      BY <1>0, <3>3, Sole
    <3> QED
      BY <1>0, <3>4, <3>5 DEF MainRest, AtUp, AtReboot
  <2> QED
    BY <2>1, <2>2
<1> QED
  BY <1>2, <1>3, <1>4, <1>5

-----------------------------------------------------------------------------
(* A command that nothing disturbs.                                        *)

LEMMA UsableKept ==
  ASSUME NEW p \in Procs, Typing, Usable, Run(p),
         \/ Plain(Head(shell[p]))
         \/ Head(shell[p]) = Copy("conf", "backup") /\ file["conf"] = lastGood
  PROVE  Usable'
<1>0. /\ file \in past /\ file \in [Files -> Contents] /\ lastGood \in Good \cup {Partial}
      /\ file["backup"] \in Good \cup {Absent, Partial}
  BY DEF Typing, Usable
<1>1. ASSUME NEW g, NEW W, Wrote(p, g, W), g["backup"] \in Good \cup {Absent, Partial}
      PROVE  Usable'
  BY <1>1 DEF Wrote, Usable
<1>2. ASSUME NEW f \in Files, Head(shell[p]) = Remove(f) PROVE Usable'
  <2>1. [file EXCEPT ![f] = Absent]["backup"] \in Good \cup {Absent, Partial}
    BY <1>0 DEF Files
  <2> QED
    BY <1>1, <1>2, <2>1, RunRemove
<1>3. ASSUME NEW c \in Contents, Head(shell[p]) = Write("conf", c) PROVE Usable'
  <2>1. [file EXCEPT !["conf"] = c]["backup"] \in Good \cup {Absent, Partial}
    BY <1>0 DEF Files
  <2> QED
    BY <1>1, <1>3, <2>1, RunWrite
<1>4. CASE Head(shell[p]) = Rename("backup", "conf")
  <2>1. [file EXCEPT !["conf"] = file["backup"], !["backup"] = Absent]["backup"]
          \in Good \cup {Absent, Partial}
    BY <1>0 DEF Files
  <2> QED
    BY <1>1, <1>4, <2>1, RunRename
<1>5. ASSUME NEW f \in {"conf", "backup"}, Head(shell[p]) = Sum(f) PROVE Usable'
  <2>1. [file EXCEPT ![SumOf(f)] = IF Gone(f) THEN Partial ELSE file[f]]["backup"]
          \in Good \cup {Absent, Partial}
    BY <1>0 DEF Files, SumOf
  <2> QED
    BY <1>1, <1>5, <2>1, RunSum
<1>6. ASSUME NEW c, Head(shell[p]) = Sync(c) PROVE Usable'
  BY <1>0, <1>6, RunSync DEF Flushed, Usable
<1>7. CASE Head(shell[p]) = Copy("conf", "backup") /\ file["conf"] = lastGood
  <2>1. [file EXCEPT !["backup"] = file["conf"]]["backup"] \in Good \cup {Absent, Partial}
    BY <1>0, <1>7 DEF Files
  <2> QED
    BY <1>1, <1>7, <2>1, RunCopy
<1> QED
  BY <1>2, <1>3, <1>4, <1>5, <1>6, <1>7 DEF Plain

LEMMA NotRemoving ==
  ASSUME NEW c, NEW r,
         r \in {SaveLine(c, c), Save3(c, c), Save2(c), DefaultLine, Default4}
  PROVE  r \notin {Default3, Default2, Synced(Default)}
BY DEF SaveLine, Save3, Save2, DefaultLine, Default4, Default3, Default2, Synced,
       Remove, Write, Sum, Sync

\* The line of worker w goes on as it should.
LEMMA DoneKept ==
  ASSUME NEW w \in Workers, Typing, Starting, Served, Run(w), ~ Disturbed(w),
         \A v \in Workers : v # w => shell[v] = <<>>
  PROVE  Done(w)' /\ BackupKept' /\ (shell'[w] = <<>> => ConfSummed')
<1>0. /\ w \in Procs /\ w # Main /\ Main \in Procs
      /\ phase' = phase /\ phase \in {"up", "reboot"}
      /\ Moved(w) /\ shell[w] # <<>>
      /\ shell'[Main] = shell[Main] /\ shell'[w] = Tail(shell[w])
      /\ file \in [Files -> Contents]
  BY WorkerMoves
<1>1. Done(w) /\ BackupKept
  BY <1>0 DEF Served
<1>2. \/ lastGood = Partial
      \/ BackupIs
      \/ Removing(w)
  BY <1>0, <1>1, NotEmpty DEF BackupKept, Removing
<1>3. ASSUME ~ Removing(w), lastGood' = lastGood,
             file'["backup"] = file["backup"], file'["backupSum"] = file["backupSum"]
      PROVE  BackupKept'
  BY <1>2, <1>3 DEF BackupKept, BackupIs, Gone
<1>4. ASSUME Removing(w)' PROVE BackupKept'
  BY <1>4 DEF BackupKept
<1>5. ASSUME NEW c \in Known \cup {Partial}, shell[w] = SaveLine(c, c)
      PROVE  Done(w)' /\ BackupKept' /\ (shell'[w] = <<>> => ConfSummed')
  <2>a. shell'[w] = Save3(c, c) /\ Head(shell[w]) = Remove("conf")
    BY <1>0, <1>5, SaveTails
  <2>1. shell'[w] = Save3(c, c) /\ Wrote(w, [file EXCEPT !["conf"] = Absent], {})
    BY <2>a, RunRemove
  <2>2. Done(w)'
    BY <1>0, <1>5, <2>1, Marks DEF Done, Wrote, Files, Gone
  <2>3. ~ Removing(w)
    BY <1>5, NotRemoving DEF Removing
  <2>4. BackupKept'
    BY <1>0, <1>3, <2>1, <2>3 DEF Wrote, Files
  <2> QED
    BY <2>1, <2>2, <2>4, NotEmpty
<1>6. ASSUME NEW c \in Known \cup {Partial}, shell[w] = Save3(c, c)
      PROVE  Done(w)' /\ BackupKept' /\ (shell'[w] = <<>> => ConfSummed')
  <2>1. shell'[w] = Save2(c) /\ Wrote(w, [file EXCEPT !["conf"] = c], {"conf"})
    BY <1>0, <1>6, SaveTails, RunWrite
  <2>2. Done(w)'
    BY <1>0, <1>6, <2>1, Marks DEF Done, Wrote, Files, Gone
  <2>3. ~ Removing(w)
    BY <1>6, NotRemoving DEF Removing
  <2>4. BackupKept'
    BY <1>0, <1>3, <2>1, <2>3 DEF Wrote, Files
  <2> QED
    BY <2>1, <2>2, <2>4, NotEmpty
<1>7. ASSUME NEW c \in Known \cup {Partial}, shell[w] = Save2(c), file["conf"] = c
      PROVE  Done(w)' /\ BackupKept' /\ (shell'[w] = <<>> => ConfSummed')
  <2>1. shell'[w] = Synced(c) /\ Wrote(w, [file EXCEPT !["sum"] = IF Gone("conf") THEN Partial ELSE file["conf"]], {"sum"})
    BY <1>0, <1>7, SaveTails, RunSum DEF SumOf
  <2>2. Done(w)'
    BY <1>0, <1>7, <2>1, Marks DEF Done, Wrote, Files, Gone
  <2>3. ~ Removing(w)
    BY <1>7, NotRemoving DEF Removing
  <2>4. BackupKept'
    BY <1>0, <1>3, <2>1, <2>3 DEF Wrote, Files
  <2> QED
    BY <2>1, <2>2, <2>4, NotEmpty
<1>8. ASSUME NEW c \in Known \cup {Partial}, shell[w] = Synced(c)
      PROVE  Done(w)' /\ BackupKept' /\ (shell'[w] = <<>> => ConfSummed')
  <2>1. shell'[w] = <<>> /\ Flushed(w, c)
    BY <1>0, <1>8, SaveTails, RunSync
  <2>2. Done(w)'
    BY <2>1 DEF Done
  <2>3. CASE file["conf"] = c /\ file["sum"] = c
    <3>1. lastGood' = lastGood /\ file' = file /\ ~ Gone("conf")
      BY <2>1, <2>3, Marks DEF Flushed, Gone
    <3>2. BackupKept' /\ ConfSummed'
      BY <1>3, <2>3, <3>1 DEF Removing, ConfSummed
    <3> QED
      BY <2>2, <3>2
  <2>4. CASE c = Default /\ Gone("conf") /\ Gone("backup") /\ Gone("sum")
    BY <2>1, <2>2, <2>4 DEF Flushed, BackupKept, BackupIs, ConfSummed, Gone
  <2> QED
    BY <1>1, <1>8, <2>3, <2>4, DoneSynced
<1>9. CASE shell[w] = DefaultLine
  <2>1. shell'[w] = Default4 /\ Wrote(w, [file EXCEPT !["conf"] = Absent], {})
    BY <1>0, <1>9, DefaultTails, RunRemove
  <2>2. Done(w)'
    BY <1>0, <1>9, <2>1, Marks DEF Done, Wrote, Files, Gone
  <2>3. ~ Removing(w)
    BY <1>9, NotRemoving DEF Removing
  <2>4. BackupKept'
    BY <1>0, <1>3, <2>1, <2>3 DEF Wrote, Files
  <2> QED
    BY <2>1, <2>2, <2>4, NotEmpty
<1>10. CASE shell[w] = Default4 /\ Gone("conf")
  <2>1. shell'[w] = Default3 /\ Wrote(w, [file EXCEPT !["backup"] = Absent], {})
    BY <1>0, <1>10, DefaultTails, RunRemove
  <2>2. Done(w)'
    BY <1>0, <1>10, <2>1, Marks DEF Done, Wrote, Files, Gone
  <2>4. BackupKept'
    BY <1>0, <1>4, <1>10, <2>1 DEF Removing, Wrote, Files, Gone
  <2> QED
    BY <2>1, <2>2, <2>4, NotEmpty
<1>11. CASE shell[w] = Default3 /\ Gone("conf") /\ Gone("backup")
  <2>1. shell'[w] = Default2 /\ Wrote(w, [file EXCEPT !["backupSum"] = Absent], {})
    BY <1>0, <1>11, DefaultTails, RunRemove
  <2>2. Done(w)'
    BY <1>0, <1>11, <2>1, Marks DEF Done, Wrote, Files, Gone
  <2>4. BackupKept'
    BY <1>0, <1>4, <1>11, <2>1 DEF Removing, Wrote, Files, Gone
  <2> QED
    BY <2>1, <2>2, <2>4, NotEmpty
<1>12. CASE shell[w] = Default2 /\ Gone("conf") /\ Gone("backup")
  <2>1. shell'[w] = Synced(Default) /\ Wrote(w, [file EXCEPT !["sum"] = Absent], {})
    BY <1>0, <1>12, DefaultTails, RunRemove
  <2>2. Done(w)'
    BY <1>0, <1>12, <2>1, Marks DEF Done, Wrote, Files, Gone
  <2>4. BackupKept'
    BY <1>0, <1>4, <1>12, <2>1 DEF Removing, Wrote, Files, Gone
  <2> QED
    BY <2>1, <2>2, <2>4, NotEmpty
<1> QED
  BY <1>0, <1>1, <1>5, <1>6, <1>7, <1>8, <1>9, <1>10, <1>11, <1>12, Marks DEF Done

LEMMA RunUndisturbed ==
  ASSUME NEW p \in Procs, Typing, Locked, Starting, Lines, MainRest, Undisturbed, Run(p)
  PROVE  Undisturbed'
<1> SUFFICES ASSUME ~ spoilt' PROVE Usable' /\ Served'
  BY DEF Undisturbed
<1>0. Moved(p) /\ shell[p] # <<>> /\ phase' = phase
  BY RunMoves DEF Moved
<1>1. /\ ~ spoilt /\ ~ Disturbed(p) /\ Usable /\ Served
      /\ \A q \in Procs : q # p => shell[q] = <<>> /\ shell'[q] = <<>>
  BY <1>0, Sole DEF Undisturbed
<1>2. CASE p = Main
  <2>1. Usable'
    BY <1>0, <1>1, <1>2, MainCommands, UsableKept
  <2>2. \A w \in Workers : shell'[w] = <<>>
    BY <1>1, <1>2, Marks DEF Procs
  <2>3. phase # "up"
    BY <1>0, <1>1, <1>2 DEF MainRest, AtUp, BackingUp
  <2>4. Served'
    BY <1>0, <2>2, <2>3 DEF Served, Done, BackupKept
  <2> QED
    BY <2>1, <2>4
<1>3. CASE p \in Workers
  <2>1. Usable'
    BY <1>0, <1>1, <1>3, WorkerCommands, UsableKept DEF Lines
  <2>2. \A v \in Workers : v # p => shell[v] = <<>> /\ shell'[v] = <<>>
    BY <1>1 DEF Procs
  <2>3. Done(p)' /\ BackupKept' /\ (shell'[p] = <<>> => ConfSummed')
    BY <1>1, <1>3, <2>2, DoneKept
  <2>4. \A w \in Workers : Done(w)'
    BY <2>2, <2>3 DEF Done
  <2> QED
    BY <2>1, <2>3, <2>4 DEF Served, Busy
<1> QED
  BY <1>2, <1>3 DEF Procs

-----------------------------------------------------------------------------
(* The other steps of a start.                                             *)

LEMMA SameFiles ==
  ASSUME UNCHANGED <<file, past, fresh, lastGood>>
  PROVE  /\ Quiet' <=> Quiet
         /\ ConfSummed' <=> ConfSummed
         /\ BackupSummed' <=> BackupSummed
         /\ Settled' <=> Settled
         /\ BackupIs' <=> BackupIs
         /\ Broken' <=> Broken
         /\ \A f \in Files : Gone(f)' <=> Gone(f)
         /\ Usable' <=> Usable
         /\ owed' = Any => Nothing' /\ Certain' /\ Promised'
         /\ owed' = owed => (Nothing' <=> Nothing) /\ (Certain' <=> Certain)
                            /\ (Promised' <=> Promised) /\ (Falls(owed)' <=> Falls(owed))
<1>1. /\ Quiet' <=> Quiet
      /\ ConfSummed' <=> ConfSummed
      /\ BackupSummed' <=> BackupSummed
      /\ Settled' <=> Settled
      /\ BackupIs' <=> BackupIs
      /\ Broken' <=> Broken
      /\ \A f \in Files : Gone(f)' <=> Gone(f)
      /\ Usable' <=> Usable
  BY DEF Quiet, ConfSummed, BackupSummed, Settled, BackupIs, Broken, Gone, Usable
<1>2. owed' = Any => Nothing' /\ Certain' /\ Promised'
  BY DEF Nothing, Certain, Promised
<1>3. ASSUME owed' = owed
      PROVE  /\ (Nothing' <=> Nothing) /\ (Certain' <=> Certain)
             /\ (Falls(owed)' <=> Falls(owed))
  BY <1>1, <1>3 DEF Nothing, Certain, Sure, Holds, Gone, Falls
<1>4. owed' = owed => (Promised' <=> Promised)
  BY <1>3 DEF Promised
<1> QED
  BY <1>1, <1>2, <1>3, <1>4

LEMMA Counts ==
  ASSUME Typing
  PROVE  /\ mishaps' = mishaps => mishaps' \in 0..MaxMishaps
         /\ mishaps < MaxMishaps /\ mishaps' = mishaps + 1 => mishaps' \in 0..MaxMishaps
         /\ requests' = requests => requests' \in 0..MaxRequests
         /\ requests < MaxRequests /\ requests' = requests + 1
              => requests' \in 0..MaxRequests
BY StoreAssumption DEF Typing, StoreAssumption

\* Main goes on to another phase of the start with a line of commands.
Onward(line, next) ==
  /\ phase' = next /\ shell' = [shell EXCEPT ![Main] = line]
  /\ UNCHANGED <<file, past, fresh, worker, lock, spoilt, requests>>

LEMMA GoesOn ==
  ASSUME NEW line, NEW next \in {"checkConf", "begin", "load", "backing", "reboot"},
         Typing, Locked, Starting, Lines, Onward(line, next),
         phase \notin {"up", "reboot"}
  PROVE  /\ shell'[Main] = line /\ DOMAIN shell' = Procs
         /\ Locked' /\ Starting' /\ Lines' /\ Alone'
<1>1. /\ Main \in Procs /\ shell'[Main] = line /\ DOMAIN shell' = Procs
      /\ \A w \in Workers : shell'[w] = shell[w]
  BY Marks DEF Onward, Typing, Procs
<1>2. Alone /\ Alone' /\ Lines' /\ Locked' /\ Starting'
  BY <1>1 DEF Onward, Starting, Alone, Lines, Locked, WorkerRest
<1> QED
  BY <1>1, <1>2

LEMMA CheckBackupInv ==
  ASSUME IInv, CheckBackup
  PROVE  IInv'
<1>0. /\ Typing /\ Locked /\ Starting /\ Lines /\ Undisturbed /\ AtCheckBackup
      /\ file \in [Files -> Contents] /\ phase = "checkBackup"
  BY DEF IInv, CheckBackup, At, MainRest, Typing
<1>1. PICK ok \in Verdicts("backup") :
        Onward(IF ok THEN <<>> ELSE Unback2, "checkConf")
  BY DEF CheckBackup, At, Gives, Onward, files, history, Unback2
<1>2. /\ shell'[Main] = IF ok THEN <<>> ELSE Unback2
      /\ DOMAIN shell' = Procs /\ Locked' /\ Starting' /\ Lines'
  BY <1>0, <1>1, GoesOn
<1>3. UNCHANGED <<file, past, fresh, owed, lastGood, spoilt>> /\ phase' = "checkConf"
  BY DEF CheckBackup, At, files, history
<1>4. Typing'
  BY <1>0, <1>2 DEF Typing, CheckBackup, At, files, history
<1>5. AtCheckConf'
  <2>1. CASE ok
    <3>1. BackupSummed
      BY <2>1 DEF Verdicts, BackupSummed, Gone, SumOf
    <3> QED
      BY <1>0, <1>2, <1>3, <2>1, <3>1, SameFiles DEF AtCheckBackup, AtCheckConf, Settled
  <2>2. CASE ~ ok
    <3>1. Certain
      BY <1>0, <2>2, Marks
         DEF Verdicts, SumOf, AtCheckBackup, Promised, Falls, BackupIs, Gone
    <3> QED
      BY <1>2, <1>3, <2>2, <3>1, SameFiles DEF AtCheckConf
  <2> QED
    BY <2>1, <2>2
<1>6. Undisturbed'
  BY <1>0, <1>3, SameFiles DEF Undisturbed, Served
<1> QED
  BY <1>2, <1>3, <1>4, <1>5, <1>6 DEF IInv, MainRest

LEMMA CheckConfInv ==
  ASSUME IInv, CheckConf
  PROVE  IInv'
<1>0. /\ Typing /\ Locked /\ Starting /\ Lines /\ Undisturbed /\ AtCheckConf
      /\ file \in [Files -> Contents] /\ phase = "checkConf" /\ shell[Main] = <<>>
  BY DEF IInv, CheckConf, At, MainRest, Typing
<1>a. BackupSummed /\ Settled /\ Promised
  BY <1>0, NotEmpty DEF AtCheckConf
<1>1. PICK ok \in Verdicts("conf") :
        Onward(IF ok THEN <<>> ELSE IF ~ Gone("backup") THEN Swap5 ELSE DropLine, "begin")
  <2>1. PICK ok \in Verdicts("conf") :
          Gives(Main, IF ok THEN <<>>
                      ELSE DropLine \o IF file["backup"] # Absent
                                          THEN RestoreLine ELSE <<>>)
    BY DEF CheckConf
  <2>2. (DropLine \o IF file["backup"] # Absent THEN RestoreLine ELSE <<>>)
          = IF ~ Gone("backup") THEN Swap5 ELSE DropLine
    BY Joined, Zenon DEF Gone
  <2> QED
    BY <2>1, <2>2, Zenon DEF CheckConf, At, Gives, Onward, files, history
<1>2. /\ shell'[Main] = IF ok THEN <<>> ELSE IF ~ Gone("backup") THEN Swap5 ELSE DropLine
      /\ DOMAIN shell' = Procs /\ Locked' /\ Starting' /\ Lines'
  BY <1>0, <1>1, GoesOn
<1>3. UNCHANGED <<file, past, fresh, owed, lastGood, spoilt>> /\ phase' = "begin"
  BY DEF CheckConf, At, files, history
<1>4. Typing'
  BY <1>0, <1>2 DEF Typing, CheckConf, At, files, history
<1>5. AtBegin'
  <2>0. "backup" \in Files /\ "conf" \in Files
    BY DEF Files
  <2>1. CASE ok
    <3>1. Gone("conf") \/ ConfSummed
      BY <2>1 DEF Verdicts, ConfSummed, Gone, SumOf
    <3> QED
      BY <1>a, <1>2, <1>3, <2>0, <2>1, <3>1, SameFiles DEF AtBegin
  <2>2. CASE ~ ok
    <3>1. Nothing
      BY <1>0, <1>a, <2>2, Marks
         DEF Verdicts, SumOf, Promised, Certain, Sure, Falls, Holds, ConfSummed, Gone,
             Known, Typing
    <3> QED
      BY <1>a, <1>2, <1>3, <2>0, <2>2, <3>1, SameFiles DEF AtBegin
  <2> QED
    BY <2>1, <2>2
<1>6. Undisturbed'
  BY <1>0, <1>3, SameFiles DEF Undisturbed, Served
<1> QED
  BY <1>2, <1>3, <1>4, <1>5, <1>6 DEF IInv, MainRest

LEMMA BeginInv ==
  ASSUME IInv, Begin
  PROVE  IInv'
<1>0. /\ Typing /\ Locked /\ Starting /\ Lines /\ Undisturbed /\ AtBegin
      /\ file \in [Files -> Contents] /\ phase = "begin" /\ shell[Main] = <<>>
  BY DEF IInv, Begin, At, MainRest, Typing
<1>a. BackupSummed /\ Settled /\ Promised /\ (Gone("conf") \/ ConfSummed)
  BY <1>0, NotEmpty DEF AtBegin
<1>1. Onward(IF Gone("conf") THEN SaveLine(Default, Any) ELSE <<>>, "load")
  BY DEF Begin, At, Gives, Onward, files, history, Gone
<1>2. /\ shell'[Main] = IF Gone("conf") THEN SaveLine(Default, Any) ELSE <<>>
      /\ DOMAIN shell' = Procs /\ Locked' /\ Starting' /\ Lines'
  BY <1>0, <1>1, GoesOn
<1>3. UNCHANGED <<file, past, fresh, owed, lastGood, spoilt>> /\ phase' = "load"
  BY DEF Begin, At, files, history
<1>4. Typing'
  BY <1>0, <1>2, Marks DEF Typing, Begin, At, files, history
<1>5. AtLoad'
  <2>0. "conf" \in Files
    BY DEF Files
  <2>1. CASE Gone("conf")
    <3>1. owed \in {Any, Default}
      BY <1>0, <1>a, <2>1, Marks
         DEF Promised, Certain, Nothing, Sure, Falls, Holds, Gone, Known, Typing
    <3> QED
      BY <1>a, <1>2, <1>3, <2>0, <2>1, <3>1, SameFiles DEF AtLoad
  <2>2. CASE ~ Gone("conf")
    BY <1>a, <1>2, <1>3, <2>0, <2>2, SameFiles DEF AtLoad
  <2> QED
    BY <2>1, <2>2
<1>6. Undisturbed'
  BY <1>0, <1>3, SameFiles DEF Undisturbed, Served
<1> QED
  BY <1>2, <1>3, <1>4, <1>5, <1>6 DEF IInv, MainRest

\* When is_mgmtd starts, what is owed is what it reads.
LEMMA AtStart ==
  ASSUME IInv, phase = "load", shell[Main] = <<>>
  PROVE  /\ BackupSummed /\ Settled /\ Promised /\ ~ Gone("conf") /\ ConfSummed
         /\ file["conf"] \in Good \cup {Partial} => owed \in {Any, file["conf"]}
<1>1. Typing /\ AtLoad
  BY DEF IInv, MainRest
<1>2. BackupSummed /\ Settled /\ Promised /\ ~ Gone("conf") /\ ConfSummed
  BY <1>1, NotEmpty DEF AtLoad
<1>3. file["conf"] \in Good \cup {Partial} => owed \in {Any, file["conf"]}
  BY <1>1, <1>2, Marks
     DEF Promised, Certain, Nothing, Sure, Falls, Holds, Gone, Known, Typing
<1> QED
  BY <1>2, <1>3

LEMMA LoadInv ==
  ASSUME IInv, Load
  PROVE  IInv'
<1>0. /\ Typing /\ Locked /\ Starting /\ Lines /\ Undisturbed
      /\ file \in [Files -> Contents] /\ phase = "load" /\ shell[Main] = <<>>
      /\ file["conf"] \in Good \cup {Partial}
  BY DEF IInv, Load, At, Typing
<1>a. BackupSummed /\ Settled /\ ~ Gone("conf") /\ ConfSummed
  BY <1>0, AtStart
<1>1. PICK differ \in Differ :
        Onward(IF Gone("backup") \/ differ THEN BackupLine ELSE <<>>, "backing")
  BY DEF Load, At, Gives, Onward, files, Gone
<1>2. /\ shell'[Main] = IF Gone("backup") \/ differ THEN BackupLine ELSE <<>>
      /\ DOMAIN shell' = Procs /\ Locked' /\ Starting' /\ Lines'
  BY <1>0, <1>1, GoesOn
<1>3. /\ UNCHANGED <<file, past, fresh, spoilt>> /\ phase' = "backing"
      /\ mem' = file["conf"] /\ lastGood' = file["conf"] /\ owed' = Owing(file["conf"])
  BY DEF Load, At, files
<1>4. Typing'
  BY <1>0, <1>2, <1>3, Marks DEF Typing, Load, At, files, Owing
<1>5. Certain'
  BY <1>0, <1>a, <1>3, Marks
     DEF Certain, Nothing, Sure, Holds, Owing, ConfSummed
<1>6. AtBacking'
  <2>1. ConfSummed' /\ file'["conf"] = lastGood'
    BY <1>a, <1>3 DEF ConfSummed
  <2>2. CASE Gone("backup") \/ differ
    BY <1>2, <1>5, <2>1, <2>2 DEF AtBacking
  <2>3. CASE ~ Gone("backup") /\ ~ differ
    <3>1. file["backup"] = file["conf"]
      BY <1>a, <2>3 DEF Differ, Gone
    <3>2. Quiet' /\ BackupIs'
      BY <1>a, <1>3, <2>3, <3>1 DEF Settled, Quiet, BackupIs, BackupSummed, Gone
    <3> QED
      BY <1>2, <1>5, <2>1, <2>3, <3>2 DEF AtBacking, Promised
  <2> QED
    BY <2>2, <2>3
<1>7. Undisturbed'
  BY <1>0, <1>3 DEF Undisturbed, Served, Usable
<1> QED
  BY <1>2, <1>3, <1>4, <1>6, <1>7 DEF IInv, MainRest

LEMMA FallBackInv ==
  ASSUME IInv, FallBack
  PROVE  IInv'
<1>0. /\ Typing /\ Locked /\ Starting /\ Lines /\ Undisturbed
      /\ file \in [Files -> Contents] /\ phase = "load" /\ shell[Main] = <<>>
  BY DEF IInv, FallBack, At, Typing
<1>a. Promised /\ ~ Gone("conf") /\ ConfSummed
  BY <1>0, AtStart
<1>1. PICK differ \in Differ : Onward(IF differ THEN Fall4 ELSE Lose3, "reboot")
  <2>1. PICK differ \in Differ :
          Gives(Main, (IF differ THEN RestoreLine ELSE DropLine) \o <<Sync(Any)>>)
    BY DEF FallBack
  <2>2. ((IF differ THEN RestoreLine ELSE DropLine) \o <<Sync(Any)>>)
          = IF differ THEN Fall4 ELSE Lose3
    BY Joined, Zenon
  <2> QED
    BY <2>1, <2>2, Zenon DEF FallBack, At, Gives, Onward, files
<1>2. /\ shell'[Main] = IF differ THEN Fall4 ELSE Lose3
      /\ DOMAIN shell' = Procs /\ Locked' /\ Starting' /\ Lines' /\ Alone'
  BY <1>0, <1>1, GoesOn
<1>3. /\ UNCHANGED <<file, past, fresh, lastGood, spoilt>> /\ phase' = "reboot"
      /\ \/ owed' = Any
         \/ owed # Any /\ owed' = Owing(lastGood) /\ file["conf"] \notin Good
  BY DEF FallBack, At, files
<1>4. Typing'
  <2>1. mishaps' \in 0..MaxMishaps
    BY <1>0, Counts DEF FallBack
  <2>2. owed' \in Known \cup {Any}
    BY <1>3 DEF Owing
  <2> QED
    BY <1>0, <1>2, <2>1, <2>2 DEF Typing, FallBack, At, files
<1>5. Falling'
  <2>1. CASE owed' = Any
    BY <1>2, <2>1 DEF Falling, Nothing
  <2>2. CASE owed' # Any
    <3>1. Falls(owed) /\ file["conf"] \in Known \ Good
      BY <1>0, <1>a, <1>3, <2>2, Marks
         DEF Promised, Certain, Nothing, Sure, Falls, Holds, Gone, Owing, Typing, Known
    <3>2. owed' = lastGood /\ lastGood \in Good
      BY <1>0, <1>3, <2>2, <3>1, Marks DEF Owing, Typing, Falls
    <3>3. Falls(owed)'
      BY <1>3, <1>a, <3>1, <3>2, SameFiles DEF Falls
    <3>4. CASE ~ Gone("backup")
      <4>1. file["backup"] = lastGood
        BY <3>1, <3>4 DEF Falls, BackupIs
      <4>2. differ
        BY <1>a, <3>1, <3>2, <3>4, <4>1, Marks DEF Differ, Gone
      <4> QED
        BY <1>2, <1>3, <3>1, <3>2, <3>3, <4>1, <4>2 DEF Falling
    <3>5. CASE Gone("backup")
      <4>1. lastGood = Default
        BY <3>1, <3>2, <3>5, Marks DEF Falls, BackupIs, Gone
      <4>2. ~ differ
        BY <3>1, <3>5, Marks DEF Differ, Gone
      <4> QED
        BY <1>2, <3>2, <3>3, <4>1, <4>2 DEF Falling
    <3> QED
      BY <3>4, <3>5
  <2> QED
    BY <2>1, <2>2
<1>6. Undisturbed'
  BY <1>0, <1>2, <1>3, SameFiles DEF Undisturbed, Served, Alone, Done, BackupKept
<1> QED
  BY <1>2, <1>3, <1>4, <1>5, <1>6 DEF IInv, MainRest, AtReboot

LEMMA UpInv ==
  ASSUME IInv, Up
  PROVE  IInv'
<1>0. /\ Typing /\ Locked /\ Starting /\ Lines /\ AtBacking /\ Alone
      /\ phase = "backing"
  BY DEF IInv, Up, MainRest, Starting
<1>1. /\ UNCHANGED <<file, past, fresh, shell, worker, lock, owed, lastGood>>
      /\ phase' = "up" /\ spoilt' = (shell[Main] # <<>>)
  BY DEF Up, files
<1>2. Typing' /\ Locked' /\ Starting' /\ Lines'
  <2>1. mishaps' \in 0..MaxMishaps
    BY <1>0, Counts DEF Up, WaitOver
  <2> QED
    BY <1>0, <1>1, <2>1 DEF Up, Typing, Locked, Starting, Lines
<1>3. AtUp'
  BY <1>0, <1>1, SameFiles, NotEmpty DEF AtBacking, AtUp, BackingUp
<1>4. ASSUME ~ spoilt' PROVE Usable' /\ Served'
  <2>1. Quiet /\ BackupIs /\ ConfSummed /\ shell[Main] = <<>>
    BY <1>0, <1>1, <1>4, NotEmpty DEF AtBacking
  <2>2. Usable'
    BY <1>0, <1>1, <2>1 DEF Usable, Quiet, BackupIs, Typing, Gone
  <2>3. Served'
    BY <1>0, <1>1, <2>1, SameFiles DEF Served, Done, Alone, BackupKept
  <2> QED
    BY <2>2, <2>3
<1> QED
  BY <1>1, <1>2, <1>3, <1>4 DEF IInv, MainRest, Undisturbed

-----------------------------------------------------------------------------
(* A reboot and a power cut.                                               *)

LEMMA HaltedShape ==
  ASSUME Halted
  PROVE  /\ phase' = "checkBackup" /\ shell'[Main] = <<>> /\ DOMAIN shell' = Procs
         /\ worker' \in [Workers -> {"idle", "save", "saved", "load"}]
         /\ Locked' /\ Starting' /\ Lines' /\ Quiet'
         /\ UNCHANGED <<mem, unsaved, lastGood, spoilt, requests>>
<1>1. Main \in Procs /\ Main \notin Workers /\ Workers \subseteq Procs
  BY Marks DEF Procs
<1> QED
  BY <1>1 DEF Halted, Locked, Starting, Alone, Lines, WorkerRest, Quiet

LEMMA RebootInv ==
  ASSUME IInv, Reboot
  PROVE  IInv'
<1>0. Typing /\ Undisturbed /\ Promised /\ Halted
  BY NotEmpty DEF IInv, MainRest, AtReboot, Reboot, BackingUp, Falling
<1>1. UNCHANGED <<file, mishaps, owed>> /\ past' = {file'} /\ fresh' = {}
  BY <1>0 DEF Reboot, Halted
<1>2. Typing'
  BY <1>0, <1>1, HaltedShape DEF Typing
<1>3. Promised'
  BY <1>0, <1>1, HaltedShape
     DEF Promised, Certain, Nothing, Sure, Falls, Holds, BackupIs, ConfSummed, Gone
<1>4. Undisturbed'
  BY <1>0, <1>1, HaltedShape DEF Undisturbed, Usable, Served, Typing
<1> QED
  BY <1>0, <1>2, <1>3, <1>4, HaltedShape DEF IInv, MainRest, AtCheckBackup

\* While no power cut can change the configuration, the promise is in the files.
LEMMA Unbroken ==
  ASSUME Typing, MainRest, ~ Broken
  PROVE  Promised
<1>1. CASE phase = "checkBackup"
  BY <1>1 DEF MainRest, AtCheckBackup
<1>2. CASE phase = "checkConf"
  BY <1>2 DEF MainRest, AtCheckConf, Promised
<1>3. CASE phase = "begin"
  BY <1>3 DEF MainRest, AtBegin, Promised, Certain
<1>4. CASE phase = "load"
  BY <1>4, Marks
     DEF MainRest, AtLoad, Broken, Promised, Certain, Nothing, Sure, Holds, Gone
<1>5. CASE phase = "backing"
  BY <1>5 DEF MainRest, AtBacking, Promised
<1>6. CASE phase = "up"
  BY <1>6 DEF MainRest, AtUp, BackingUp, Promised
<1>7. CASE phase = "reboot"
  BY <1>7 DEF MainRest, AtReboot, BackingUp, Falling, Fallen, Unstable, Promised, Certain
<1> QED
  BY <1>1, <1>2, <1>3, <1>4, <1>5, <1>6, <1>7 DEF Typing

LEMMA PowerCutInv ==
  ASSUME IInv, PowerCut
  PROVE  IInv'
<1>0. Typing /\ Undisturbed /\ MainRest /\ Halted
  BY DEF IInv, PowerCut
<1>1. PICK s \in past, torn \in SUBSET fresh :
        file' = [f \in Files |-> IF f \in torn /\ s[f] # Absent THEN Partial ELSE s[f]]
  BY DEF PowerCut
<1>2. s \in [Files -> Contents] /\ file \in [Files -> Contents]
  BY <1>0 DEF Typing
<1>3. past' = {file'} /\ fresh' = {}
  BY <1>0 DEF Halted
<1>4. file' \in [Files -> Contents]
  BY <1>1, <1>2 DEF Contents
<1>5. owed' \in {owed, Any}
  BY DEF PowerCut
<1>6. mishaps' \in 0..MaxMishaps
  BY <1>0, Counts DEF PowerCut
<1>7. Typing'
  BY <1>0, <1>3, <1>4, <1>5, <1>6, HaltedShape DEF Typing
<1>8. Promised'
  <2>1. CASE owed' = Any
    BY <2>1 DEF Promised, Certain, Nothing
  <2>2. CASE owed' # Any
    <3>1. /\ {"conf", "sum"} \cap fresh = {} /\ owed' = owed
          /\ \A t \in past : t["conf"] = file["conf"] /\ t["sum"] = file["sum"]
      BY <2>2 DEF PowerCut
    <3>2. Promised
      BY <1>0, <3>1, Unbroken DEF Broken
    <3>3. file'["conf"] = file["conf"] /\ file'["sum"] = file["sum"]
      BY <1>1, <3>1 DEF Files
    <3>4. CASE Certain
      BY <1>0, <3>1, <3>3, <3>4, CertainKept, HaltedShape DEF Promised
    <3>5. CASE Falls(owed)
      <4>1. s = file /\ torn = {}
        BY <1>1, <3>5 DEF Falls, Quiet
      <4>2. file' = file
        BY <1>1, <1>2, <4>1
      <4> QED
        BY <1>0, <3>1, <3>5, <4>2, HaltedShape
           DEF Promised, Falls, Holds, BackupIs, ConfSummed, Gone
    <3> QED
      BY <3>2, <3>4, <3>5 DEF Promised
  <2> QED
    BY <2>1, <2>2
<1>9. Undisturbed'
  <2>1. file'["backup"] \in {s["backup"], Partial}
    BY <1>1 DEF Files
  <2> QED
    BY <1>0, <1>3, <2>1, HaltedShape DEF Undisturbed, Usable, Served
<1> QED
  BY <1>0, <1>7, <1>8, <1>9, HaltedShape DEF IInv, MainRest, AtCheckBackup

-----------------------------------------------------------------------------
(* The requests of the users.                                              *)


LEMMA FactoryResetInv ==
  ASSUME IInv, FactoryReset
  PROVE  IInv'
<1>0. /\ Typing /\ Locked /\ Starting /\ Lines /\ AtUp /\ Undisturbed
      /\ shell[Main] = <<>> /\ phase = "up"
  BY DEF IInv, FactoryReset, At, MainRest
<1>1. /\ UNCHANGED <<file, past, fresh, owed, lastGood, worker, lock, spoilt>>
      /\ phase' = "reboot" /\ shell' = [shell EXCEPT ![Main] = DefaultLine]
  BY DEF FactoryReset, At, Gives, files, history
<1>2. /\ DOMAIN shell' = Procs /\ shell'[Main] = DefaultLine
      /\ \A w \in Workers : shell'[w] = shell[w]
  BY <1>0, <1>1, Marks DEF Typing, Procs
<1>3. Typing'
  BY <1>0, <1>1, <1>2 DEF FactoryReset, At, files, history, Typing
<1>4. Locked' /\ Starting' /\ Lines'
  BY <1>0, <1>1, <1>2 DEF Locked, Starting, Lines
<1>5. AtReboot'
  BY <1>0, <1>1, <1>2, SameFiles, NotEmpty DEF AtUp, BackingUp, AtReboot
<1>6. Undisturbed'
  BY <1>0, <1>1, <1>2, SameFiles
     DEF Undisturbed, Served, Done, BackupKept, Removing, Gone
<1> QED
  BY <1>1, <1>3, <1>4, <1>5, <1>6 DEF IInv, MainRest

LEMMA UserRebootInv ==
  ASSUME IInv, UserReboot
  PROVE  IInv'
<1>0. Typing /\ Locked /\ Starting /\ Lines /\ AtUp /\ Undisturbed /\ phase = "up"
  BY DEF IInv, UserReboot, MainRest
<1>1. /\ UNCHANGED <<file, past, fresh, shell, owed, lastGood, worker, lock, spoilt>>
      /\ phase' = "reboot"
  BY DEF UserReboot, files, history
<1>2. Typing' /\ Locked' /\ Starting' /\ Lines'
  BY <1>0, <1>1 DEF UserReboot, Typing, Locked, Starting, Lines
<1>3. AtReboot'
  BY <1>0, <1>1, SameFiles DEF AtUp, BackingUp, AtReboot
<1>4. Undisturbed'
  BY <1>0, <1>1, SameFiles
     DEF Undisturbed, Served, Done, BackupKept, Removing, Gone
<1> QED
  BY <1>1, <1>2, <1>3, <1>4 DEF IInv, MainRest

LEMMA SameLines ==
  ASSUME IInv, phase = "up", Typing', Locked', spoilt => spoilt',
         UNCHANGED <<file, past, fresh, shell, phase, owed, lastGood>>
  PROVE  IInv'
<1>0. Typing /\ Lines /\ AtUp /\ Undisturbed
  BY DEF IInv, MainRest
<1>1. Lines' /\ Starting'
  BY <1>0 DEF Lines, Starting
<1>2. AtUp'
  BY <1>0, SameFiles DEF AtUp, BackingUp
<1>3. Undisturbed'
  BY <1>0, SameFiles DEF Undisturbed, Served, Done, BackupKept, Removing, Gone, Busy
<1> QED
  BY <1>1, <1>2, <1>3 DEF IInv, MainRest

LEMMA NewLine ==
  ASSUME IInv, phase = "up", Typing', Locked', NEW w \in Workers, NEW line,
         shell[w] = <<>>, shell' = [shell EXCEPT ![w] = line],
         \/ \E c \in Known \cup {Partial} : line \in {SaveLine(c, c), Save3(c, c)}
         \/ line = DefaultLine,
         UNCHANGED <<file, past, fresh, phase, owed, lastGood, spoilt>>
  PROVE  IInv'
<1>0. Typing /\ Lines /\ AtUp /\ Undisturbed
  BY DEF IInv, MainRest
<1>1. /\ w \in Procs /\ w # Main /\ shell'[w] = line /\ line # <<>>
      /\ \A q \in Procs : q # w => shell'[q] = shell[q]
  BY <1>0, Marks, NotEmpty DEF Typing, Procs
<1>2. WorkerRest(line)
  BY DEF WorkerRest, SaveRest, DefaultRest
<1>3. Lines' /\ Starting'
  BY <1>0, <1>1, <1>2 DEF Lines, Starting, Procs
<1>4. AtUp'
  BY <1>0, <1>1, SameFiles DEF AtUp, BackingUp, Procs
<1>5. Undisturbed'
  <2> SUFFICES ASSUME ~ spoilt PROVE Usable' /\ Served'
    BY DEF Undisturbed
  <2>1. Usable /\ BackupKept /\ \A v \in Workers : Done(v)
    BY <1>0 DEF Undisturbed, Served
  <2>2. Usable'
    BY <2>1, SameFiles
  <2>3. Done(w)'
    BY <1>1 DEF Done
  <2>4. ASSUME NEW v \in Workers, v # w PROVE Done(v)'
    BY <1>1, <2>1, <2>4 DEF Done, Gone, Procs
  <2>5. BackupKept'
    <3>1. CASE lastGood = Partial \/ BackupIs
      BY <3>1, SameFiles DEF BackupKept
    <3>2. ASSUME NEW v \in Workers, Removing(v) PROVE BackupKept'
      <4>1. v # w
        BY <3>2, NotEmpty DEF Removing
      <4> QED
        BY <1>1, <3>2, <4>1 DEF BackupKept, Removing, Gone, Procs
    <3> QED
      BY <2>1, <3>1, <3>2 DEF BackupKept
  <2>6. w \in Busy'
    BY <1>1 DEF Busy
  <2> QED
    BY <2>2, <2>3, <2>4, <2>5, <2>6 DEF Served
<1> QED
  BY <1>3, <1>4, <1>5 DEF IInv, MainRest

LEMMA ChangeInv ==
  ASSUME IInv, NEW w \in Workers, Change(w)
  PROVE  IInv'
<1>0. Typing /\ Locked /\ phase = "up"
  BY DEF IInv, Change, Free
<1>1. requests' \in 0..MaxRequests
  BY <1>0, Counts DEF Change, Free
<1>2. Typing'
  BY <1>0, <1>1 DEF Change, Free, files, history, Typing, Known
<1>3. Locked'
  BY <1>0 DEF Change, Free, Locked, Typing
<1> QED
  BY <1>0, <1>2, <1>3, SameLines DEF Change, files, history

LEMMA SaveFailsInv ==
  ASSUME IInv, NEW w \in Workers, SaveFails(w)
  PROVE  IInv'
<1>0. Typing /\ Locked /\ phase = "up"
  BY DEF IInv, SaveFails, Free
<1>1. requests' \in 0..MaxRequests
  BY <1>0, Counts DEF SaveFails, Free
<1>2. Typing'
  BY <1>0, <1>1 DEF SaveFails, Free, files, history, Typing
<1>3. Locked'
  BY <1>0 DEF SaveFails, Free, Locked, Typing
<1> QED
  BY <1>0, <1>2, <1>3, SameLines DEF SaveFails, files, history

LEMMA SetSavedInv ==
  ASSUME IInv, NEW w \in Workers, SetSaved(w)
  PROVE  IInv'
<1>0. Typing /\ Locked /\ phase = "up"
  BY DEF IInv, SetSaved, Goes
<1>1. Typing'
  BY <1>0 DEF SetSaved, Goes, files, history, Typing
<1>2. Locked'
  BY <1>0 DEF SetSaved, Goes, Locked, Typing
<1> QED
  BY <1>0, <1>1, <1>2, SameLines DEF SetSaved, files, history

LEMMA SaveDoneInv ==
  ASSUME IInv, NEW w \in Workers, SaveDone(w)
  PROVE  IInv'
<1>0. Typing /\ Locked /\ phase = "up"
  BY DEF IInv, SaveDone, Goes
<1>1. mishaps' \in 0..MaxMishaps
  BY <1>0, Counts DEF SaveDone, WaitOver
<1>2. Typing'
  BY <1>0, <1>1 DEF SaveDone, Goes, files, Typing
<1>3. Locked'
  BY <1>0, Marks DEF SaveDone, Goes, Locked, Typing, Procs
<1> QED
  BY <1>0, <1>2, <1>3, SameLines DEF SaveDone, files

LEMMA LoadDoneInv ==
  ASSUME IInv, NEW w \in Workers, LoadDone(w)
  PROVE  IInv'
<1>0. Typing /\ Locked /\ phase = "up"
  BY DEF IInv, LoadDone, Goes
<1>1. mishaps' \in 0..MaxMishaps
  BY <1>0, Counts DEF LoadDone, WaitOver
<1>2. Typing'
  BY <1>0, <1>1 DEF LoadDone, Goes, files, Typing
<1>3. Locked'
  BY <1>0 DEF LoadDone, Goes, Locked, Typing
<1> QED
  BY <1>0, <1>2, <1>3, SameLines DEF LoadDone, files

LEMMA SaveInv ==
  ASSUME IInv, NEW w \in Workers, Save(w)
  PROVE  IInv'
<1>0. Typing /\ Locked /\ phase = "up"
  BY DEF IInv, Save, Free
<1>1. requests' \in 0..MaxRequests
  BY <1>0, Counts DEF Save, Free
<1>2. Typing'
  BY <1>0, <1>1 DEF Save, Free, Gives, files, history, Typing
<1>3. Locked'
  BY <1>0, Marks DEF Save, Free, Locked, Typing, Procs
<1>4. mem \in Known \cup {Partial}
  BY <1>0 DEF Typing
<1> QED
  BY <1>0, <1>2, <1>3, <1>4, NewLine DEF Save, Gives, files, history

LEMMA LoadFromInv ==
  ASSUME IInv, NEW w \in Workers, LoadFrom(w)
  PROVE  IInv'
<1>0. Typing /\ Locked /\ phase = "up"
  BY DEF IInv, LoadFrom, Free
<1>1. requests' \in 0..MaxRequests
  BY <1>0, Counts DEF LoadFrom, Free
<1>2. Typing'
  BY <1>0, <1>1 DEF LoadFrom, Free, Gives, files, history, Typing
<1>3. Locked'
  BY <1>0 DEF LoadFrom, Free, Locked, Typing
<1>4. PICK c \in Inner : shell' = [shell EXCEPT ![w] = LoadLine(c)]
  BY DEF LoadFrom, Gives
<1>5. LoadLine(c) = Save3(c, c) /\ c \in Known
  BY Marks DEF LoadLine, Save3
<1> QED
  BY <1>0, <1>2, <1>3, <1>4, <1>5, NewLine DEF LoadFrom, files, history

LEMMA LoadDefaultInv ==
  ASSUME IInv, NEW w \in Workers, LoadDefault(w)
  PROVE  IInv'
<1>0. Typing /\ Locked /\ phase = "up"
  BY DEF IInv, LoadDefault, Free
<1>1. requests' \in 0..MaxRequests
  BY <1>0, Counts DEF LoadDefault, Free
<1>2. Typing'
  BY <1>0, <1>1 DEF LoadDefault, Free, Gives, files, history, Typing
<1>3. Locked'
  BY <1>0 DEF LoadDefault, Free, Locked, Typing
<1> QED
  BY <1>0, <1>2, <1>3, NewLine DEF LoadDefault, Gives, files, history

-----------------------------------------------------------------------------
(* The theorems.                                                           *)

LEMMA InitInv ==
  ASSUME Init
  PROVE  IInv
<1>0. Main \in Procs /\ Main \notin Workers /\ Workers \subseteq Procs
  BY Marks DEF Procs
<1>1. mishaps \in 0..MaxMishaps /\ requests \in 0..MaxRequests
  BY StoreAssumption DEF StoreAssumption, Init
<1>2. file \in [Files -> Contents]
  BY DEF Init, Contents
<1>3. Typing
  BY <1>0, <1>1, <1>2, Marks DEF Init, Typing
<1>4. Locked /\ Starting /\ Lines
  BY <1>0 DEF Init, Locked, Starting, Alone, Lines, WorkerRest
<1>5. Gone("conf") /\ Gone("backup")
  BY DEF Init, Gone, Files
<1>6. AtCheckBackup
  BY <1>0, <1>5, Marks
     DEF Init, AtCheckBackup, Quiet, Promised, Certain, Sure, Holds
<1>7. Undisturbed
  BY <1>5 DEF Init, Undisturbed, Usable, Served, Gone
<1> QED
  BY <1>3, <1>4, <1>6, <1>7 DEF IInv, MainRest, Init

LEMMA RunInv ==
  ASSUME IInv, NEW p \in Procs, Run(p)
  PROVE  IInv'
<1>1. Undisturbed'
  BY RunUndisturbed DEF IInv
<1>2. CASE p = Main
  BY <1>1, <1>2, MainSteps DEF IInv
<1>3. CASE p \in Workers
  BY <1>1, <1>3, WorkerSteps DEF IInv
<1> QED
  BY <1>2, <1>3 DEF Procs

LEMMA StepInv ==
  ASSUME IInv, [Next]_vars
  PROVE  IInv'
<1>1. ASSUME NEW w \in Workers, Request(w) PROVE IInv'
  BY <1>1, ChangeInv, SaveInv, SaveFailsInv, SaveDoneInv, SetSavedInv, LoadFromInv,
     LoadDefaultInv, LoadDoneInv, RunInv DEF Request, Procs
<1>2. CASE Start
  BY <1>2, CheckBackupInv, CheckConfInv, BeginInv, LoadInv, FallBackInv, UpInv,
     RebootInv, RunInv DEF Start, Procs
<1>3. CASE PowerCut
  BY <1>3, PowerCutInv
<1>4. CASE FactoryReset
  BY <1>4, FactoryResetInv
<1>5. CASE UserReboot
  BY <1>5, UserRebootInv
<1>6. CASE UNCHANGED vars
  <2>1. /\ UNCHANGED <<file, past, fresh, shell, phase, mem, unsaved, worker, lock>>
        /\ UNCHANGED <<mishaps, requests, owed, lastGood, spoilt>>
    BY <1>6 DEF vars, files, history
  <2>2. Typing' /\ Locked' /\ Starting' /\ Lines'
    BY <2>1 DEF IInv, Typing, Locked, Starting, Alone, Lines
  <2>3. MainRest /\ Undisturbed
    BY DEF IInv
  <2>4. MainRest'
    <3>1. AtCheckBackup' <=> AtCheckBackup
      BY <2>1, SameFiles DEF AtCheckBackup
    <3>2. AtCheckConf' <=> AtCheckConf
      BY <2>1, SameFiles DEF AtCheckConf, Gone
    <3>3. AtBegin' <=> AtBegin
      BY <2>1, SameFiles DEF AtBegin, Gone
    <3>4. AtLoad' <=> AtLoad
      BY <2>1, SameFiles DEF AtLoad, Gone
    <3>5. AtBacking' <=> AtBacking
      BY <2>1, SameFiles DEF AtBacking
    <3>6. AtUp' <=> AtUp
      BY <2>1, SameFiles DEF AtUp, BackingUp
    <3>7. Falling' <=> Falling
      BY <2>1, SameFiles DEF Falling, Fallen, Alone
    <3>8. AtReboot' <=> AtReboot
      BY <2>1, <3>7, SameFiles DEF AtReboot, BackingUp, Unstable, Gone
    <3> QED
      BY <2>1, <2>3, <3>1, <3>2, <3>3, <3>4, <3>5, <3>6, <3>8 DEF MainRest
  <2>5. Undisturbed'
    BY <2>1, <2>3, SameFiles
       DEF Undisturbed, Served, Done, BackupKept, Removing, Gone, Busy
  <2> QED
    BY <2>2, <2>4, <2>5 DEF IInv
<1> QED
  BY <1>1, <1>2, <1>3, <1>4, <1>5, <1>6 DEF Next

LEMMA Invariant == Spec => []IInv
<1>1. Init => IInv
  BY InitInv
<1>2. IInv /\ [Next]_vars => IInv'
  BY StepInv
<1> QED
  BY <1>1, <1>2, PTL DEF Spec

\* Of every line there are at most five commands left.
LEMMA Lengths ==
  ASSUME NEW c, NEW d
  PROVE  /\ Len(SaveLine(c, d)) <= 5 /\ Len(Save3(c, d)) <= 5 /\ Len(Save2(d)) <= 5
         /\ Len(Synced(d)) <= 5 /\ Len(DefaultLine) <= 5 /\ Len(Default4) <= 5
         /\ Len(Default3) <= 5 /\ Len(Default2) <= 5 /\ Len(BackupLine) <= 5
         /\ Len(Backup2) <= 5 /\ Len(Unback2) <= 5 /\ Len(Unback1) <= 5
         /\ Len(DropLine) <= 5 /\ Len(Drop1) <= 5 /\ Len(Lose3) <= 5 /\ Len(Lose2) <= 5
         /\ Len(Swap5) <= 5 /\ Len(Swap4) <= 5 /\ Len(RestoreLine) <= 5
         /\ Len(Swap2) <= 5 /\ Len(Swap1) <= 5 /\ Len(Fall4) <= 5 /\ Len(Fall3) <= 5
         /\ Len(<<>>) <= 5
BY DEF SaveLine, Save3, Save2, Synced, DefaultLine, Default4, Default3, Default2,
       BackupLine, Backup2, Unback2, Unback1, DropLine, Drop1, Lose3, Lose2,
       Swap5, Swap4, RestoreLine, Swap2, Swap1, Fall4, Fall3

\* The variables have their types, no line has more than five commands, and
\* write_lock is held only by a worker that saves.
THEOREM TypeCorrect == Spec => []TypeOK
<1>1. IInv => TypeOK
  <2> SUFFICES ASSUME IInv PROVE TypeOK
    OBVIOUS
  <2>1. Typing /\ Locked /\ Lines /\ MainRest
    BY DEF IInv
  <2>2. ASSUME NEW w \in Workers PROVE Len(shell[w]) <= 5
    BY <2>1, <2>2, Lengths DEF Lines, WorkerRest, SaveRest, DefaultRest
  <2>3. Len(shell[Main]) <= 5
    <3>1. CASE phase \in {"checkBackup", "checkConf"}
      BY <2>1, <3>1, Lengths DEF MainRest, AtCheckBackup, AtCheckConf
    <3>2. CASE phase = "begin"
      BY <2>1, <3>2, Lengths DEF MainRest, AtBegin
    <3>3. CASE phase \in {"load", "backing"}
      BY <2>1, <3>3, Lengths DEF MainRest, AtLoad, AtBacking
    <3>4. CASE phase = "up"
      BY <2>1, <3>4, Lengths DEF MainRest, AtUp, BackingUp
    <3>5. CASE phase = "reboot"
      BY <2>1, <3>5, Lengths DEF MainRest, AtReboot, BackingUp, Falling
    <3> QED
      BY <2>1, <3>1, <3>2, <3>3, <3>4, <3>5 DEF Typing
  <2>4. lastGood \in Contents
    BY <2>1, Marks DEF Typing, Contents
  <2>5. lock # Main => worker[lock] = "save"
    BY <2>1 DEF Locked, Procs
  <2> QED
    BY <2>1, <2>2, <2>3, <2>4, <2>5 DEF TypeOK, Typing, Locked, Procs
<1> QED
  BY <1>1, Invariant, PTL

\* The backup is a configuration with which is_mgmtd starts, or incomplete,
\* unless a request overtook the line that makes it: also after any number of
\* power cuts, failed starts and slow commands.
THEOREM BackupsStart == Spec => []BackupStarts
<1>1. IInv => BackupStarts
  BY DEF IInv, Undisturbed, Usable, Typing, BackupStarts
<1> QED
  BY <1>1, Invariant, PTL

\* While is_mgmtd serves its users and no line is at work, the checksum is that
\* of the configuration.
THEOREM SumsMatch == Spec => []SumMatches
<1>1. IInv => SumMatches
  BY DEF IInv, Undisturbed, Served, ConfSummed, SumMatches
<1> QED
  BY <1>1, Invariant, PTL

\* What a line of commands promised its user is what the next start runs.
THEOREM PromisesHonoured == Spec => Honours
<1>1. IInv /\ [Next]_vars
        => [phase = "load" /\ phase' = "backing" => owed \in {Any, mem'}]_vars
  <2> SUFFICES ASSUME IInv, Next, phase = "load", phase' = "backing"
               PROVE  owed \in {Any, mem'}
    BY DEF vars
  <2>1. Load
    <3>1. ASSUME NEW w \in Workers, Request(w) PROVE FALSE
      BY <3>1 DEF Request, Change, Save, SaveFails, SaveDone, SetSaved, LoadFrom,
                  LoadDefault, LoadDone, Run, Free, Goes
    <3>2. ~ PowerCut /\ ~ FactoryReset /\ ~ UserReboot
      BY DEF PowerCut, Halted, FactoryReset, UserReboot, At
    <3>3. CASE Start
      BY <3>3 DEF Start, CheckBackup, CheckConf, Begin, FallBack, Up, Reboot, Halted, Run, At
    <3> QED
      BY <3>1, <3>2, <3>3 DEF Next
  <2>2. mem' = file["conf"] /\ file["conf"] \in Good \cup {Partial} /\ shell[Main] = <<>>
    BY <2>1 DEF Load, At
  <2> QED
    BY <2>2, AtStart
<1> QED
  BY <1>1, Invariant, PTL DEF Spec, Honours
=============================================================================
