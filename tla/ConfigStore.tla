---------------------------- MODULE ConfigStore ----------------------------
(***************************************************************************)
(* How is_mgmtd keeps its configuration on the /config partition:          *)
(*                                                                         *)
(*   conf, sum            is_mgmtd.conf and its sha1sum                    *)
(*   backup, backupSum    the configuration of the last start that went    *)
(*                        well, and its sha1sum                            *)
(*                                                                         *)
(* Three programs write these files.  S45is_mgmtd checks them before       *)
(* is_mgmtd starts and replaces them when it does not (validate_conf,      *)
(* wait_mgmtd_up); is_mgmtd writes a default configuration when there is   *)
(* none and a backup once it is up; and its workers save, load and remove  *)
(* configurations for the users.  Each of them does so with a line of      *)
(* shell commands, here a sequence in shell[p]: Run executes one command.  *)
(* is_mgmtd waits two seconds for such a line; then it goes on, and the    *)
(* line runs on behind it.                                                 *)
(*                                                                         *)
(* The file system journals: after a power cut the files are in one of the *)
(* states they had since the last sync, and of the files written since     *)
(* then any may have lost its contents.                                    *)
(*                                                                         *)
(* Contents are abstracted to the configuration they describe, Partial     *)
(* (not the whole of one) or Absent; the contents of a sha1sum file are    *)
(* those of the file it was made of.                                       *)
(***************************************************************************)
EXTENDS Sequences, FiniteSets, Naturals

CONSTANTS
  Workers,       \* worker threads of is_mgmtd
  Main,          \* the start script, later is_mgmtd's main thread
  Configs,       \* configurations a user can make
  Good,          \* those with which is_mgmtd starts
  Default,       \* the configuration made when there is no file
  Inner,         \* configurations stored by save-config-as
  Partial,       \* the contents of a file that is not complete
  Absent,        \* no such file
  Any,           \* no particular configuration
  MaxMishaps,    \* power cuts, failed starts and commands longer than 2 s
  MaxRequests    \* requests of the users

Known == Configs \cup {Default}

ASSUME StoreAssumption ==
  /\ Main \notin Workers
  /\ Default \in Good /\ Good \subseteq Known /\ Inner \subseteq Known
  /\ {Partial, Absent, Any} \cap Known = {}
  /\ Cardinality({Partial, Absent, Any}) = 3
  /\ MaxMishaps \in Nat /\ MaxRequests \in Nat

VARIABLES
  file,      \* the contents of the four files
  past,      \* the states of the files since the last sync
  fresh,     \* the files written since the last sync
  shell,     \* the commands still to be executed for each process
  phase,     \* how far the system is with starting
  mem,       \* the configuration in is_mgmtd's data base
  unsaved,   \* s_silc_mgmtd_memdb_config_unsave
  worker,    \* what each worker is doing
  lock,      \* the holder of write_lock, or Main when it is free
  mishaps,   \* mishaps so far
  requests,  \* requests so far
  owed,      \* history: the configuration the next start owes its user
  lastGood,  \* history: the configuration of the last start that went well
  spoilt     \* history: something disturbed the files since the last start

files == <<file, past, fresh>>
history == <<owed, lastGood, spoilt>>
vars == <<files, shell, phase, mem, unsaved, worker, lock, mishaps, requests, history>>

Procs == Workers \cup {Main}
Files == {"conf", "sum", "backup", "backupSum"}
Contents == Known \cup {Partial, Absent}
SumOf(f) == IF f = "conf" THEN "sum" ELSE "backupSum"

-----------------------------------------------------------------------------
(* The shell commands.                                                     *)

Remove(f) == [op |-> "remove", from |-> f, to |-> f, what |-> Absent]
Write(f, c) == [op |-> "write", from |-> f, to |-> f, what |-> c]
Copy(f, g) == [op |-> "copy", from |-> f, to |-> g, what |-> Absent]
Rename(f, g) == [op |-> "rename", from |-> f, to |-> g, what |-> Absent]
Sum(f) == [op |-> "sum", from |-> f, to |-> SumOf(f), what |-> Absent]
Sync(c) == [op |-> "sync", from |-> "conf", to |-> "conf", what |-> c]

Owing(c) == IF c \in Known THEN c ELSE Any

\* The files after command k.  sha1sum of a missing file leaves an empty one.
Effect(k) ==
  CASE k.op \in {"remove", "write"} -> [file EXCEPT ![k.to] = k.what]
    [] k.op = "copy"   -> [file EXCEPT ![k.to] = file[k.from]]
    [] k.op = "rename" -> [file EXCEPT ![k.to] = file[k.from],
                                       ![k.from] = Absent]
    [] k.op = "sum"    -> [file EXCEPT ![k.to] = IF file[k.from] = Absent
                                                   THEN Partial
                                                   ELSE file[k.from]]
    [] k.op = "sync"   -> file

Writes(k) == IF k.op \in {"write", "copy", "sum"} THEN {k.to} ELSE {}

\* The lines of commands.  mv to another file system removes its target,
\* then copies.  The argument of Sync is what the line promises its user.
SaveLine(c, promise) ==
  <<Remove("conf"), Write("conf", c), Sum("conf"), Sync(promise)>>

\* Mutant: no checksum is made of a configuration that was loaded.
LoadLineNoSum(c) == <<Write("conf", c), Sync(c)>>

LoadLine(c) == <<Write("conf", c), Sum("conf"), Sync(c)>>

DefaultLine == <<Remove("conf"), Remove("backup"), Remove("backupSum"),
                 Remove("sum"), Sync(Default)>>

BackupLine == <<Copy("conf", "backup"), Sum("backup"), Sync(Any)>>

RestoreLine == <<Rename("backup", "conf"), Remove("backupSum"), Sum("conf")>>

\* Mutant: only the checksum is removed.
DropLineSumOnly == <<Remove("sum")>>

DropLine == <<Remove("conf"), Remove("sum")>>

-----------------------------------------------------------------------------
TypeOK ==
  /\ file \in [Files -> Contents]
  /\ past \subseteq [Files -> Contents] /\ file \in past
  /\ fresh \subseteq Files
  /\ \A p \in Procs : Len(shell[p]) <= 5
  /\ phase \in {"checkBackup", "checkConf", "begin", "load", "backing", "up", "reboot"}
  /\ mem \in Known \cup {Partial} /\ unsaved \in BOOLEAN
  /\ worker \in [Workers -> {"idle", "save", "saved", "load"}]
  /\ lock \in Procs /\ (lock # Main => worker[lock] = "save")
  /\ mishaps \in 0..MaxMishaps /\ requests \in 0..MaxRequests
  /\ owed \in Known \cup {Any}
  /\ lastGood \in Contents
  /\ spoilt \in BOOLEAN

\* A device as it leaves the factory: no file.
Init ==
  /\ file = [f \in Files |-> Absent]
  /\ past = {file} /\ fresh = {}
  /\ shell = [p \in Procs |-> <<>>]
  /\ phase = "checkBackup"
  /\ mem = Default /\ unsaved = FALSE
  /\ worker = [w \in Workers |-> "idle"] /\ lock = Main
  /\ mishaps = 0 /\ requests = 0
  /\ owed = Default /\ lastGood = Default /\ spoilt = FALSE

-----------------------------------------------------------------------------
(* One command of a line.                                                  *)

Busy == {p \in Procs : shell[p] # <<>>}

Saves(p) == p \in Workers /\ worker[p] = "save"

\* Two lines at work at the same time owe the user nothing, unless both are
\* saves: only these take write_lock.
Disturbed(p) ==
  spoilt \/ \E q \in Busy \ {p} : ~ (Saves(p) /\ Saves(q))

Run(p) ==
  /\ shell[p] # <<>>
  /\ LET k == Head(shell[p]) IN
       /\ file' = Effect(k)
       /\ IF k.op = "sync"
            THEN /\ past' = {file} /\ fresh' = {}
                 /\ owed' = IF k.what = Any THEN owed
                            ELSE IF Disturbed(p) THEN Any ELSE Owing(k.what)
                 /\ lastGood' = IF k.what = Default /\ file["conf"] = Absent
                                  THEN Default ELSE lastGood
            ELSE /\ past' = past \cup {file'} /\ fresh' = fresh \cup Writes(k)
                 /\ owed' = IF p \in Workers THEN Any ELSE owed
                 /\ UNCHANGED lastGood
  /\ shell' = [shell EXCEPT ![p] = Tail(@)]
  /\ spoilt' = Disturbed(p)
  /\ UNCHANGED <<phase, mem, unsaved, worker, lock, mishaps, requests>>

Gives(p, line) == shell' = [shell EXCEPT ![p] = line]

\* The wait for a line of p is over: it has ended, or two seconds have passed.
WaitOver(p) ==
  /\ shell[p] = <<>> \/ mishaps < MaxMishaps
  /\ mishaps' = IF shell[p] = <<>> THEN mishaps ELSE mishaps + 1

-----------------------------------------------------------------------------
(* Starting.                                                               *)

At(p, next) == phase = p /\ shell[Main] = <<>> /\ phase' = next

\* What sha1sum -c can say of a file.  Two incomplete files may differ.
Verdicts(f) ==
  IF file[f] = Partial /\ file[SumOf(f)] = Partial THEN BOOLEAN
  ELSE {file[f] = file[SumOf(f)] \/ Absent \in {file[f], file[SumOf(f)]}}

\* What diff can say of conf and backup.
Differ == IF file["conf"] = Partial /\ file["backup"] = Partial THEN BOOLEAN
          ELSE {file["conf"] # file["backup"]
                  /\ Absent \notin {file["conf"], file["backup"]}}

CheckBackup ==
  /\ At("checkBackup", "checkConf")
  /\ \E ok \in Verdicts("backup") :
       Gives(Main, IF ok THEN <<>>
                   ELSE <<Remove("backup"), Remove("backupSum")>>)
  /\ UNCHANGED <<files, mem, unsaved, worker, lock, mishaps, history, requests>>

CheckConf ==
  /\ At("checkConf", "begin")
  /\ \E ok \in Verdicts("conf") :
       Gives(Main, IF ok THEN <<>>
                   ELSE DropLine \o IF file["backup"] # Absent
                                       THEN RestoreLine ELSE <<>>)
  /\ UNCHANGED <<files, mem, unsaved, worker, lock, mishaps, history, requests>>

\* is_mgmtd starts; it saves the default configuration if there is no file.
Begin ==
  /\ At("begin", "load")
  /\ mem' = Default /\ unsaved' = FALSE
  /\ Gives(Main, IF file["conf"] = Absent THEN SaveLine(Default, Any) ELSE <<>>)
  /\ UNCHANGED <<files, worker, lock, mishaps, history, requests>>

\* Mutant: the backup is made although the configuration was not enabled.
LoadUnchecked ==
  /\ At("load", "backing")
  /\ file["conf"] # Absent
  /\ mem' = file["conf"]
  /\ owed' = Owing(mem') /\ lastGood' = mem'
  /\ Gives(Main, BackupLine)
  /\ UNCHANGED <<files, unsaved, worker, lock, mishaps, spoilt, requests>>

\* The configuration is read and enabled, and then backed up.
Load ==
  /\ At("load", "backing")
  /\ file["conf"] \in Good \cup {Partial}
  /\ mem' = file["conf"]
  /\ owed' = Owing(mem') /\ lastGood' = mem'
  /\ \E differ \in Differ :
       Gives(Main, IF file["backup"] = Absent \/ differ THEN BackupLine ELSE <<>>)
  /\ UNCHANGED <<files, unsaved, worker, lock, mishaps, spoilt, requests>>

\* is_mgmtd does not start: the backup takes the place of the configuration,
\* or there will be a new default one.
FallBack ==
  /\ At("load", "reboot")
  /\ IF file["conf"] \in Good
       THEN mishaps < MaxMishaps /\ mishaps' = mishaps + 1 /\ owed' = Any
       ELSE mishaps' = mishaps
            /\ owed' = IF owed = Any THEN Any ELSE Owing(lastGood)
  /\ \E differ \in Differ :
       Gives(Main, (IF differ THEN RestoreLine ELSE DropLine) \o <<Sync(Any)>>)
  /\ UNCHANGED <<files, mem, unsaved, worker, lock, lastGood, spoilt, requests>>

Up ==
  /\ phase = "backing" /\ phase' = "up"
  /\ WaitOver(Main)
  /\ spoilt' = (shell[Main] # <<>>)
  /\ UNCHANGED <<files, shell, mem, unsaved, worker, lock, owed, lastGood, requests>>

\* Everything that runs is gone.
Halted ==
  /\ phase' = "checkBackup"
  /\ shell' = [p \in Procs |-> <<>>]
  /\ worker' = [w \in Workers |-> "idle"] /\ lock' = Main
  /\ fresh' = {} /\ past' = {file'}
  /\ UNCHANGED <<mem, unsaved, lastGood, spoilt, requests>>

\* A reboot writes everything to the flash.
Reboot ==
  /\ phase = "reboot" /\ shell[Main] = <<>>
  /\ UNCHANGED <<file, mishaps, owed>>
  /\ Halted

\* Power is cut.
PowerCut ==
  /\ mishaps < MaxMishaps /\ mishaps' = mishaps + 1
  /\ \E s \in past, torn \in SUBSET fresh :
       file' = [f \in Files |-> IF f \in torn /\ s[f] # Absent
                                  THEN Partial ELSE s[f]]
  /\ owed' = IF /\ {"conf", "sum"} \cap fresh = {}
                /\ \A s \in past : \A f \in {"conf", "sum"} : s[f] = file[f]
               THEN owed ELSE Any
  /\ Halted

\* rcS removes the configuration when the user asked for it on the console.
FactoryReset ==
  /\ At("up", "reboot")
  /\ Gives(Main, DefaultLine)
  /\ UNCHANGED <<files, mem, unsaved, worker, lock, mishaps, history, requests>>

UserReboot ==
  /\ phase = "up" /\ phase' = "reboot"
  /\ UNCHANGED <<files, shell, mem, unsaved, worker, lock, mishaps, history, requests>>

-----------------------------------------------------------------------------
(* The requests of the users.                                              *)

Free(w, next) ==
  /\ phase = "up" /\ worker[w] = "idle" /\ worker' = [worker EXCEPT ![w] = next]
  /\ requests < MaxRequests /\ requests' = requests + 1

Goes(w, step, next) ==
  /\ phase = "up" /\ worker[w] = step /\ worker' = [worker EXCEPT ![w] = next]
  /\ UNCHANGED requests

\* ADD, MODIFY and DELETE change the data base and set the flag.  When the
\* callback of an added node fails the node stays, but the flag is not set.
Change(w) ==
  /\ Free(w, "idle")
  /\ mem' \in Configs \ {mem}
  /\ unsaved' \in {unsaved, TRUE}
  /\ UNCHANGED <<files, shell, phase, lock, mishaps, history>>

\* Mutant: write_lock is not taken.
SaveUnlocked(w) ==
  /\ Free(w, "save") /\ shell[w] = <<>>
  /\ lock' = w
  /\ Gives(w, SaveLine(mem, mem))
  /\ UNCHANGED <<files, phase, mem, unsaved, mishaps, history>>

Save(w) ==
  /\ Free(w, "save") /\ shell[w] = <<>>
  /\ lock = Main /\ lock' = w
  /\ Gives(w, SaveLine(mem, mem))
  /\ UNCHANGED <<files, phase, mem, unsaved, mishaps, history>>

\* The configuration cannot be written to /dev/shm: no line of commands is given,
\* and the flag stays.
SaveFails(w) ==
  /\ Free(w, "idle") /\ lock = Main
  /\ UNCHANGED <<files, shell, phase, mem, unsaved, lock, mishaps, history>>

\* Mutant: write_lock is not released.
SaveDoneLocked(w) ==
  /\ Goes(w, "save", "saved") /\ WaitOver(w)
  /\ spoilt' = (spoilt \/ shell[w] # <<>>)
  /\ UNCHANGED <<files, shell, phase, mem, unsaved, lock, owed, lastGood>>

SaveDone(w) ==
  /\ Goes(w, "save", "saved") /\ WaitOver(w)
  /\ spoilt' = (spoilt \/ shell[w] # <<>>)
  /\ lock' = Main
  /\ UNCHANGED <<files, shell, phase, mem, unsaved, owed, lastGood>>

SetSaved(w) ==
  /\ Goes(w, "saved", "idle") /\ unsaved' = FALSE
  /\ UNCHANGED <<files, shell, phase, mem, lock, mishaps, history>>

\* load-config-from and load-default-config do not take write_lock.  A configuration
\* that is only kept in /config/extend is restored from there first.
LoadFrom(w) ==
  /\ Free(w, "load") /\ shell[w] = <<>>
  /\ \E c \in Inner : Gives(w, LoadLine(c))
  /\ UNCHANGED <<files, phase, mem, unsaved, lock, mishaps, history>>

LoadDefault(w) ==
  /\ Free(w, "load") /\ shell[w] = <<>>
  /\ Gives(w, DefaultLine)
  /\ UNCHANGED <<files, phase, mem, unsaved, lock, mishaps, history>>

\* A line of load-config-from that takes too long is given once more, behind the
\* first one: left out, as it writes the same contents and the files count as
\* spoilt by then.
LoadDone(w) ==
  /\ Goes(w, "load", "idle") /\ WaitOver(w)
  /\ spoilt' = (spoilt \/ shell[w] # <<>>)
  /\ UNCHANGED <<files, shell, phase, mem, unsaved, lock, owed, lastGood>>

-----------------------------------------------------------------------------
Start == \/ CheckBackup \/ CheckConf \/ Begin \/ Load \/ FallBack \/ Up \/ Reboot
         \/ Run(Main)

Request(w) == \/ Change(w) \/ Save(w) \/ SaveFails(w) \/ SaveDone(w) \/ SetSaved(w)
              \/ LoadFrom(w) \/ LoadDefault(w) \/ LoadDone(w) \/ Run(w)

Next == \/ Start \/ PowerCut \/ FactoryReset \/ UserReboot
        \/ \E w \in Workers : Request(w)

Spec == Init /\ [][Next]_vars

FairSpec == Spec /\ WF_vars(Start)

-----------------------------------------------------------------------------
(* Properties.                                                             *)

\* What the user was promised is what the next start runs: a configuration
\* saved, loaded or removed by a line of commands that no other line and no
\* power cut disturbed; if is_mgmtd cannot start with it, the configuration
\* of the last good start; and after a start, the same again.
Honours ==
  [][phase = "load" /\ phase' = "backing" => owed \in {Any, mem'}]_vars

\* The backup is of use: is_mgmtd starts with it, unless it is incomplete or
\* the line that made it was overtaken by a request that came after the start.
BackupStarts ==
  spoilt \/ file["backup"] \in Good \cup {Absent, Partial}

\* While is_mgmtd serves its users and no line of commands is at work, the
\* checksum is that of the file: otherwise the next start discards the file.
SumMatches ==
  phase = "up" /\ Busy = {} /\ ~ spoilt
    => file["sum"] \in {Absent, file["conf"]}

\* Whatever is in the files, the device comes up in the end, with the
\* configuration, the backup or the default; it does not boot for ever.
ComesUp == []<>(phase = "up")

\* The status "Config Change Saved": what is in the data base is in the file.
ChangeSaved ==
  /\ phase = "up" /\ Busy = {} /\ ~ unsaved
  /\ \A w \in Workers : worker[w] = "idle"
  => file["conf"] \in {mem, Absent}
=============================================================================
