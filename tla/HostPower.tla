----------------------------- MODULE HostPower -----------------------------
(***************************************************************************)
(* The board switches the host it manages on and off by pressing the       *)
(* host's buttons through GPIO lines.  ubmc_sys_ctrl does it, one process  *)
(* per request; ubmc_sys_ctrl.sh starts it for the users of is_mgmtd, and  *)
(* the fan control starts it when the CPU of the host gets too hot.        *)
(*                                                                         *)
(* A process takes the lock file without waiting, looks at the power state *)
(* of the host twice, presses the button, waits for the state it wants or  *)
(* for a time-out, and lets the button go.  Its progress is in a file that *)
(* ubmc_sys_ctrl.sh reads before it starts another one.                    *)
(*                                                                         *)
(* The host is not under src/: a press of the power button starts it when  *)
(* it is off, and cuts its power when it is held long.                     *)
(***************************************************************************)
EXTENDS Naturals

CONSTANTS
  Users,        \* requests of is_mgmtd that may be under way together
  Fan,          \* the fan control
  Nobody,
  MaxRequests,  \* requests of the users
  MaxMishaps,   \* the host changing by itself or ignoring a button, failed reads
                \* and writes of GPIO files, processes killed
  MaxFds        \* file descriptors the fan control can lose

ASSUME PowerAssumption ==
  /\ Fan \notin Users /\ Nobody \notin Users \cup {Fan}
  /\ MaxRequests \in Nat /\ MaxMishaps \in Nat /\ MaxFds \in Nat

VARIABLES
  at,        \* how far the process of each caller is
  op,        \* what it has to do
  lock,      \* the process that holds the lock file
  status,    \* the contents of the status file
  host,      \* the power state of the host
  pressed,   \* the buttons whose line says so
  edge,      \* the host has not yet reacted to the press of its power button
  temp,      \* the temperature of its CPU
  fan,       \* where the loop of the fan control is
  pwm,       \* the speed of the fans
  fds,       \* descriptors lost by get_cpu_temp
  requests, mishaps,
  misled,    \* history: the host is not as the process at work has seen it
  stuck,     \* history: the buttons whose release failed or never came
  orphan     \* history: who wrote the status was killed

process == <<at, op, lock, status>>
machine == <<host, pressed, edge, stuck>>
cooling == <<temp, fan, pwm, fds>>
vars == <<process, machine, cooling, requests, mishaps, misled, orphan>>

Callers == Users \cup {Fan}
Buttons == {"power", "reset"}
Actions == {"on", "off", "forceoff", "cycle", "reset"}
Working == {"verify", "press", "held", "sleep", "ok", "failed"}

\* "again" is the second half of a cycle, ubmc_sys_ctrl_power_on_host.
TypeOK ==
  /\ at \in [Callers -> {"idle", "lock", "check", "query"} \cup Working]
  /\ op \in [Callers -> Actions \cup {"query", "again"}]
  /\ lock \in Callers \cup {Nobody}
  /\ status \in {"none", "...", "OK", "Error", "refused"}
  /\ host \in {"on", "off"} /\ pressed \subseteq Buttons
  /\ stuck \subseteq Buttons
  /\ edge \in BOOLEAN
  /\ temp \in {"cool", "warm", "hot"} /\ pwm \in {"stop", "some", "full"}
  /\ fan \in {"read", "wait", "rest"} /\ fds \in 0..MaxFds
  /\ requests \in 0..MaxRequests /\ mishaps \in 0..MaxMishaps
  /\ misled \in BOOLEAN /\ orphan \in BOOLEAN

Init ==
  /\ at = [p \in Callers |-> "idle"] /\ op = [p \in Callers |-> "query"]
  /\ lock = Nobody /\ status = "none"
  /\ host \in {"on", "off"} /\ pressed = {} /\ edge = FALSE
  /\ temp = "cool" /\ fan = "read" /\ pwm = "stop" /\ fds = 0
  /\ requests = 0 /\ mishaps = 0
  /\ misled = FALSE /\ stuck = {} /\ orphan = FALSE

Goes(p, from, to) == at[p] = from /\ at' = [at EXCEPT ![p] = to]

Exits(p) ==
  /\ at' = [at EXCEPT ![p] = "idle"] /\ op' = [op EXCEPT ![p] = "query"]
  /\ lock' = IF lock = p THEN Nobody ELSE lock

Mishap == mishaps < MaxMishaps /\ mishaps' = mishaps + 1

-----------------------------------------------------------------------------
(* ubmc_sys_ctrl.                                                          *)

\* ubmc_sys_ctrl.sh refuses an action while another is in progress, but not
\* the cycle at the end of a BIOS upgrade.
Ask(u) ==
  /\ requests < MaxRequests /\ requests' = requests + 1
  /\ Goes(u, "idle", "lock")
  /\ \E o \in {"query", "cycle"} \cup IF status = "..." THEN {} ELSE Actions :
       op' = [op EXCEPT ![u] = o]
  /\ UNCHANGED <<lock, status, machine, cooling, mishaps, misled, orphan>>

\* Mutant: the process goes on although another one is at work.
TakeLockAnyway(p) ==
  /\ Goes(p, "lock", IF op[p] = "query" THEN "query" ELSE "check")
  /\ lock' = IF lock = Nobody THEN p ELSE lock
  /\ UNCHANGED <<op, status, machine, cooling, requests, mishaps, misled, orphan>>

\* Only a query goes on without the lock.
TakeLock(p) ==
  /\ at[p] = "lock"
  /\ \/ lock = Nobody /\ lock' = p /\ UNCHANGED op
        /\ Goes(p, "lock", IF op[p] = "query" THEN "query" ELSE "check")
     \/ lock # Nobody /\ op[p] = "query" /\ Goes(p, "lock", "query")
        /\ UNCHANGED <<op, lock>>
     \/ lock # Nobody /\ op[p] # "query" /\ Exits(p)
  /\ UNCHANGED <<status, machine, cooling, requests, mishaps, misled, orphan>>

Query(p) ==
  /\ at[p] = "query" /\ Exits(p)
  /\ UNCHANGED <<status, machine, cooling, requests, mishaps, misled, orphan>>

Wrong(p) == host = IF op[p] \in {"on", "again"} THEN "on" ELSE "off"

\* A host whose state cannot be read is not as it should be.
Check(p) ==
  /\ at[p] = "check"
  /\ \/ ~Wrong(p) /\ Goes(p, "check", "verify") /\ status' = "..."
        /\ UNCHANGED <<op, lock, mishaps>>
     \/ Wrong(p) /\ Exits(p) /\ status' = "refused" /\ UNCHANGED mishaps
     \/ Mishap /\ Exits(p) /\ status' = "refused"
  /\ orphan' = FALSE
  /\ UNCHANGED <<machine, cooling, requests, misled>>

\* The second look: if the state cannot be read, the button is pressed.
Verify(p) ==
  /\ \/ Goes(p, "verify", IF Wrong(p) THEN "failed" ELSE "press")
        /\ misled' = FALSE /\ UNCHANGED mishaps
     \/ Goes(p, "verify", "press") /\ Mishap /\ misled' = Wrong(p)
  /\ UNCHANGED <<op, lock, status, machine, cooling, requests, orphan>>

Button(p) == IF op[p] = "reset" THEN "reset" ELSE "power"

\* Mutant: a write fails and the lines keep the values they have.
PressStuck(p) ==
  /\ \/ Goes(p, "press", "held") /\ UNCHANGED mishaps
     \/ Goes(p, "press", "failed") /\ Mishap
  /\ pressed' = pressed \cup {Button(p)} /\ stuck' = stuck \ {Button(p)}
  /\ edge' = (Button(p) = "power")
  /\ UNCHANGED <<op, lock, status, host, cooling, requests, misled, orphan>>

\* A button that was left pressed is let go before it is pressed again.  If a
\* write fails that may be all that was done.
Press(p) ==
  /\ \/ /\ Goes(p, "press", "held")
        /\ pressed' = pressed \cup {Button(p)} /\ stuck' = stuck \ {Button(p)}
        /\ edge' = (Button(p) = "power")
        /\ UNCHANGED mishaps
     \/ /\ Goes(p, "press", "failed") /\ Mishap
        /\ pressed' \in {pressed, pressed \ {Button(p)}}
        /\ stuck' = stuck \cap pressed'
        /\ UNCHANGED edge
  /\ UNCHANGED <<op, lock, status, host, cooling, requests, misled, orphan>>

\* Mutant: the wait has no end.
ReleaseOnlyWhenReached(p) ==
  /\ Goes(p, "held", IF op[p] = "cycle" THEN "sleep" ELSE "ok")
  /\ \/ op[p] \in {"off", "reset"}
     \/ op[p] \in {"on", "again"} /\ host = "on"
     \/ op[p] \in {"forceoff", "cycle"} /\ host = "off"
  /\ pressed' = pressed \ {Button(p)} /\ edge' = FALSE
  /\ UNCHANGED <<op, lock, status, host, stuck, cooling, requests, mishaps, misled,
                 orphan>>

\* The button is held until the host has the power state wanted or the wait
\* times out; a reset and a normal power-off hold it for a fixed time.  A host
\* that is held down past its four seconds and stays on is a mishap.
Release(p) ==
  /\ Goes(p, "held", IF op[p] = "cycle" THEN "sleep" ELSE "ok")
  /\ \/ op[p] \in {"on", "again", "off", "reset"} /\ UNCHANGED mishaps
     \/ op[p] \in {"forceoff", "cycle"} /\ host = "off" /\ UNCHANGED mishaps
     \/ op[p] \in {"forceoff", "cycle"} /\ host = "on" /\ Mishap
  /\ pressed' = pressed \ {Button(p)} /\ edge' = FALSE
  /\ UNCHANGED <<op, lock, status, host, stuck, cooling, requests, misled, orphan>>

\* If a write fails both lines are written once more, and nobody looks whether
\* that was any better: the operation has failed, and the button may stay
\* pressed when the lock is let go.
ReleaseFails(p) ==
  /\ Goes(p, "held", "failed") /\ Mishap
  /\ \/ pressed' = pressed \ {Button(p)} /\ UNCHANGED stuck
     \/ UNCHANGED pressed /\ stuck' = stuck \cup {Button(p)}
  /\ edge' = FALSE
  /\ UNCHANGED <<op, lock, status, host, cooling, requests, misled, orphan>>

Again(p) ==
  /\ Goes(p, "sleep", "verify") /\ op' = [op EXCEPT ![p] = "again"]
  /\ UNCHANGED <<lock, status, machine, cooling, requests, mishaps, misled, orphan>>

\* Mutant: a failure is not written into the status file.
DoneQuietly(p) ==
  /\ at[p] \in {"ok", "failed"} /\ Exits(p)
  /\ status' = IF at[p] = "ok" THEN "OK" ELSE status
  /\ UNCHANGED <<machine, cooling, requests, mishaps, misled, orphan>>

Done(p) ==
  /\ at[p] \in {"ok", "failed"} /\ Exits(p)
  /\ status' = IF at[p] = "ok" THEN "OK" ELSE "Error"
  /\ UNCHANGED <<machine, cooling, requests, mishaps, misled, orphan>>

\* The process is killed: the system lets go of the lock file, and of nothing
\* else.  The host has reacted to the button by then, or does not.
Dies(p) ==
  /\ at[p] # "idle" /\ Exits(p) /\ Mishap
  /\ stuck' = IF at[p] = "held" THEN stuck \cup {Button(p)} ELSE stuck
  /\ edge' = (edge /\ at[p] # "held")
  /\ orphan' = (orphan \/ at[p] \in Working)
  /\ UNCHANGED <<status, host, pressed, cooling, requests, misled>>

Step(p) == \/ TakeLock(p) \/ Query(p) \/ Check(p) \/ Verify(p) \/ Press(p)
           \/ Release(p) \/ ReleaseFails(p) \/ Again(p) \/ Done(p)

-----------------------------------------------------------------------------
(* The host.                                                               *)

Starts ==
  /\ "power" \in pressed /\ edge /\ host = "off"
  /\ host' = "on" /\ edge' = FALSE
  /\ UNCHANGED <<process, pressed, stuck, cooling, requests, mishaps, misled, orphan>>

\* The power is cut when the button is held for more than four seconds.
IsCut ==
  /\ "power" \in pressed /\ host = "on"
  /\ \E p \in Callers : at[p] = "held" /\ op[p] \in {"forceoff", "cycle"}
  /\ host' = "off" /\ edge' = FALSE
  /\ UNCHANGED <<process, pressed, stuck, cooling, requests, mishaps, misled, orphan>>

\* A button that was not let go does so as well, whoever is at work.
StuckCuts ==
  /\ "power" \in stuck /\ host = "on"
  /\ host' = "off" /\ misled' = TRUE
  /\ UNCHANGED <<process, pressed, edge, stuck, cooling, requests, mishaps, orphan>>

\* The operating system shuts down, or somebody presses the front button.
Moves ==
  /\ Mishap /\ host' = IF host = "on" THEN "off" ELSE "on"
  /\ misled' = TRUE
  /\ UNCHANGED <<process, pressed, edge, stuck, cooling, requests, orphan>>

Heats ==
  /\ temp' \in {"cool", "warm", "hot"} /\ (host = "off" => temp' = "cool")
  /\ UNCHANGED <<process, machine, fan, pwm, fds, requests, mishaps, misled, orphan>>

-----------------------------------------------------------------------------
(* The fan control in automatic mode.                                      *)

FanReads ==
  /\ fan = "read" /\ fds < MaxFds
  /\ IF temp = "hot"
       THEN /\ fan' = "wait" /\ UNCHANGED pwm
            /\ Goes(Fan, "idle", "lock") /\ op' = [op EXCEPT ![Fan] = "forceoff"]
       ELSE /\ pwm' = (IF temp = "cool" THEN "stop" ELSE "some")
            /\ UNCHANGED <<fan, at, op>>
  /\ UNCHANGED <<lock, status, machine, temp, fds, requests, mishaps, misled, orphan>>

\* The sensor does not answer; get_cpu_temp leaves its device open.
FanReadFails ==
  /\ fan = "read" /\ fds < MaxFds /\ fds' = fds + 1
  /\ UNCHANGED <<process, machine, temp, fan, pwm, requests, mishaps, misled, orphan>>

FanFull ==
  /\ fan = "wait" /\ at[Fan] = "idle"
  /\ fan' = "rest" /\ pwm' = "full"
  /\ UNCHANGED <<process, machine, temp, fds, requests, mishaps, misled, orphan>>

\* Mutant: the loop ends once the host has been switched off.
FanRestsForever ==
  /\ fan = "rest" /\ pwm = "full" /\ pwm' = "stop"
  /\ UNCHANGED <<process, machine, temp, fan, fds, requests, mishaps, misled, orphan>>

\* Thirty seconds later the fans are stopped, whatever became of the host.
FanRests ==
  /\ fan = "rest" /\ fan' = "read" /\ pwm' = "stop"
  /\ UNCHANGED <<process, machine, temp, fds, requests, mishaps, misled, orphan>>

-----------------------------------------------------------------------------
Next ==
  \/ \E u \in Users : Ask(u)
  \/ \E p \in Callers : Step(p) \/ Dies(p)
  \/ Starts \/ IsCut \/ StuckCuts \/ Moves \/ Heats
  \/ FanReads \/ FanReadFails \/ FanFull \/ FanRests

Spec == Init /\ [][Next]_vars

\* Every process and the loop of the fan control go on; the host reacts to
\* its button.
FairSpec ==
  /\ Spec
  /\ \A p \in Callers : WF_vars(Step(p))
  /\ WF_vars(Starts) /\ WF_vars(IsCut)
  /\ WF_vars(FanReads) /\ WF_vars(FanFull) /\ WF_vars(FanRests)

-----------------------------------------------------------------------------
(* Properties.                                                             *)

\* The status file says that an action is in progress exactly while one is:
\* if it said so for ever, no user could switch the host any more.  That is
\* what happens when the process is killed, until another one writes the file.
BusyIsTrue ==
  orphan \/ (status = "..." <=> \E p \in Callers : lock = p /\ at[p] \in Working)

\* Only the process with the lock holds a button, the one of its action; any
\* other that is pressed was left so by a process that was killed or whose
\* second attempt to write the line failed as well.
ButtonIsHeld ==
  \A b \in pressed \ stuck :
    \E p \in Callers : lock = p /\ at[p] = "held" /\ Button(p) = b

\* The board switches a host on only for a request to switch it on, unless the
\* process at work could not read its state, or the host went off after it
\* was looked at: by itself, or by a button that was left pressed.
StartsOnRequest ==
  [][ host = "off" /\ host' = "on" /\ edge # edge'
        => \/ misled
           \/ \E p \in Callers : lock = p /\ op[p] \in {"on", "again"} ]_vars

\* An action that the board has begun comes to its end, unless it is killed.
ActionsEnd == (status = "...") ~> (status # "..." \/ orphan)

\* A host that is too hot is switched off, even when the first attempts meet
\* another process at the lock, as long as its temperature can be read.
HotHostGoesOff ==
  (host = "on" /\ temp = "hot") ~> (host = "off" \/ temp # "hot" \/ fds = MaxFds)
=============================================================================
