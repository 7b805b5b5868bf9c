-------------------------- MODULE HostPower_proofs --------------------------
(***************************************************************************)
(* Proofs of the safety properties of HostPower, for every set of users    *)
(* and every bound.                                                        *)
(*                                                                         *)
(* All of them follow from one inductive invariant.  It says which process *)
(* has the lock file at each place of the program (Owns, Free), what the   *)
(* status file and the button show of that process, and that a button      *)
(* which is to switch the host off is pressed while the host is on.        *)
(***************************************************************************)
EXTENDS HostPower, TLAPS

Locked == Working \cup {"check", "query"}

\* A process past the lock has it, except for a query that met another one.
Owns == \A p \in Callers : at[p] \in Working \cup {"check"} => lock = p

\* The lock file is locked only by a process that will let it go.
Free == lock # Nobody => at[lock] \in Locked

\* A press the host has not noticed is one that a process holds.
Pressed == edge => "power" \in pressed \ stuck

\* The host was on when a process that is not to start it looked, and it
\* still is before it has reacted to the button.
StillOn ==
  \A p \in Callers :
    at[p] = "press" \/ (at[p] = "held" /\ edge)
      => misled \/ op[p] \in {"on", "again"} \/ host = "on"

IInv ==
  TypeOK /\ Owns /\ Free /\ BusyIsTrue /\ ButtonIsHeld /\ Pressed /\ StillOn

-----------------------------------------------------------------------------
LEMMA InitIInv == Init => IInv
<1> SUFFICES ASSUME Init PROVE IInv
  OBVIOUS
<1>1. TypeOK
  <2>1. at \in [Callers -> {"idle", "lock", "check", "query"} \cup Working]
    BY DEF Init
  <2>2. op \in [Callers -> Actions \cup {"query", "again"}]
    BY DEF Init
  <2>3. fds \in 0..MaxFds /\ requests \in 0..MaxRequests
        /\ mishaps \in 0..MaxMishaps
    BY PowerAssumption DEF Init
  <2>4. QED
    BY <2>1, <2>2, <2>3 DEF Init, TypeOK
<1>2. \A p \in Callers : at[p] = "idle"
  BY DEF Init
<1>3. Owns /\ StillOn
  BY <1>2 DEF Owns, StillOn, Working
<1>4. Free /\ ButtonIsHeld /\ Pressed
  BY DEF Init, Free, ButtonIsHeld, Pressed
<1>5. BusyIsTrue
  BY <1>2 DEF Init, BusyIsTrue, Working
<1>6. QED
  BY <1>1, <1>3, <1>4, <1>5 DEF IInv

\* Every step keeps the types of the variables.
LEMMA TypeStep == TypeOK /\ [Next]_vars => TypeOK'
<1> SUFFICES ASSUME TypeOK, [Next]_vars PROVE TypeOK'
  OBVIOUS
<1> USE PowerAssumption DEF TypeOK, Callers, Working, Actions, process, machine,
        cooling, Mishap, Goes, Exits
<1>1. ASSUME NEW u \in Users, Ask(u) PROVE TypeOK'
  BY <1>1 DEF Ask
<1>2. ASSUME NEW p \in Callers, TakeLock(p) PROVE TypeOK'
  BY <1>2 DEF TakeLock
<1>3. ASSUME NEW p \in Callers, Query(p) PROVE TypeOK'
  BY <1>3 DEF Query
<1>4. ASSUME NEW p \in Callers, Check(p) PROVE TypeOK'
  <2>1. mishaps' \in 0..MaxMishaps
    BY <1>4 DEF Check
  <2>2. /\ at' \in [Callers -> {"idle", "lock", "check", "query"} \cup Working]
        /\ op' \in [Callers -> Actions \cup {"query", "again"}]
        /\ lock' \in Callers \cup {Nobody} /\ status' \in {"...", "refused"}
    BY <1>4 DEF Check
  <2>3. orphan' = FALSE
        /\ UNCHANGED <<host, pressed, edge, stuck, temp, pwm, fan, fds, requests, misled>>
    BY <1>4 DEF Check
  <2> HIDE DEF Callers, Working, Actions
  <2>4. QED
    BY <2>1, <2>2, <2>3
<1>5. ASSUME NEW p \in Callers, Verify(p) PROVE TypeOK'
  <2>1. \E there \in {"failed", "press"} : at' = [at EXCEPT ![p] = there]
    BY <1>5 DEF Verify
  <2>2. mishaps' \in 0..MaxMishaps
    BY <1>5 DEF Verify
  <2>3. misled' \in BOOLEAN
    BY <1>5 DEF Verify, Wrong
  <2>4. UNCHANGED <<op, lock, status, host, pressed, edge, stuck, temp, pwm, fan, fds,
                    requests, orphan>>
    BY <1>5 DEF Verify
  <2>5. at' \in [Callers -> {"idle", "lock", "check", "query"} \cup Working]
    BY <2>1
  <2> HIDE DEF Callers, Working, Actions
  <2>6. QED
    BY <2>2, <2>3, <2>4, <2>5
<1>6. ASSUME NEW p \in Callers, Press(p) PROVE TypeOK'
  <2>1. \E there \in {"held", "failed"} : at' = [at EXCEPT ![p] = there]
    BY <1>6 DEF Press
  <2>2. pressed' \subseteq Buttons /\ stuck' \subseteq Buttons
    BY <1>6 DEF Press, Button, Buttons
  <2>3. edge' \in BOOLEAN
    BY <1>6 DEF Press
  <2>4. mishaps' \in 0..MaxMishaps
    BY <1>6 DEF Press
  <2>5. UNCHANGED <<op, lock, status, host, temp, pwm, fan, fds, requests, misled, orphan>>
    BY <1>6 DEF Press
  <2>6. at' \in [Callers -> {"idle", "lock", "check", "query"} \cup Working]
    BY <2>1
  <2> HIDE DEF Callers, Working, Actions
  <2>7. QED
    BY <2>2, <2>3, <2>4, <2>5, <2>6
<1>7. ASSUME NEW p \in Callers, Release(p) \/ ReleaseFails(p) PROVE TypeOK'
  <2>1. \E there \in {"sleep", "ok", "failed"} : at' = [at EXCEPT ![p] = there]
    <3> DEFINE there == IF op[p] = "cycle" THEN "sleep" ELSE "ok"
    <3>1. there \in {"sleep", "ok"}
      OBVIOUS
    <3>2. at' = [at EXCEPT ![p] = there] \/ at' = [at EXCEPT ![p] = "failed"]
      BY <1>7 DEF Release, ReleaseFails
    <3> HIDE DEF there
    <3>3. QED
      BY <3>1, <3>2
  <2>2. mishaps' \in 0..MaxMishaps
    BY <1>7 DEF Release, ReleaseFails
  <2>3. edge' \in BOOLEAN
    BY <1>7 DEF Release, ReleaseFails
  <2>6. UNCHANGED <<op, lock, status, host, temp, pwm, fan, fds, requests, misled, orphan>>
    BY <1>7 DEF Release, ReleaseFails
  <2>4. at' \in [Callers -> {"idle", "lock", "check", "query"} \cup Working]
    BY <2>1
  <2>5. pressed' \subseteq Buttons /\ stuck' \subseteq Buttons
    BY <1>7 DEF Release, ReleaseFails, Button, Buttons
  <2> HIDE PowerAssumption DEF Callers, Working, Actions, process, machine, cooling,
                               Mishap, Goes, Exits
  <2>7. QED
    BY <2>2, <2>3, <2>4, <2>5, <2>6
<1>8. ASSUME NEW p \in Callers, Again(p) PROVE TypeOK'
  BY <1>8 DEF Again
<1>9. ASSUME NEW p \in Callers, Done(p) PROVE TypeOK'
  BY <1>9 DEF Done
<1>15. ASSUME NEW p \in Callers, Dies(p) PROVE TypeOK'
  <2>1. stuck' \subseteq Buttons
    BY <1>15 DEF Dies, Button, Buttons
  <2>2. edge' \in BOOLEAN /\ orphan' \in BOOLEAN /\ mishaps' \in 0..MaxMishaps
    BY <1>15 DEF Dies
  <2>3. /\ at' \in [Callers -> {"idle", "lock", "check", "query"} \cup Working]
        /\ op' \in [Callers -> Actions \cup {"query", "again"}]
        /\ lock' \in Callers \cup {Nobody}
    BY <1>15 DEF Dies
  <2>4. UNCHANGED <<status, host, pressed, temp, pwm, fan, fds, requests, misled>>
    BY <1>15 DEF Dies
  <2> HIDE DEF Callers, Working, Actions
  <2>5. QED
    BY <2>1, <2>2, <2>3, <2>4
<1>10. CASE Starts \/ IsCut \/ StuckCuts \/ Moves \/ Heats
  <2> HIDE PowerAssumption DEF Callers, Working, Actions
  <2>1. CASE Starts
    BY <2>1 DEF Starts
  <2>2. CASE IsCut
    BY <2>2 DEF IsCut
  <2>3. CASE Moves
    BY <2>3, PowerAssumption DEF Moves
  <2>4. CASE Heats
    BY <2>4 DEF Heats
  <2>5. CASE StuckCuts
    BY <2>5 DEF StuckCuts
  <2>6. QED
    BY <1>10, <2>1, <2>2, <2>3, <2>4, <2>5
<1>11. CASE FanReads
  BY <1>11 DEF FanReads
<1>12. CASE FanReadFails \/ FanFull \/ FanRests
  BY <1>12 DEF FanReadFails, FanFull, FanRests
<1>13. CASE UNCHANGED vars
  BY <1>13 DEF vars
<1>14. QED
  BY <1>1, <1>2, <1>3, <1>4, <1>5, <1>6, <1>7, <1>8, <1>9, <1>10, <1>11,
     <1>12, <1>13, <1>15 DEF Next, Step

-----------------------------------------------------------------------------
\* A process that has looked at the host is the only one that has, and it is
\* the one that has the lock file.
LEMMA Alone ==
  ASSUME TypeOK, Owns, NEW p \in Callers, at[p] \in Working \cup {"check"}
  PROVE  /\ lock = p /\ lock # Nobody
         /\ \A q \in Callers \ {p} : at[q] \notin Working \cup {"check"}
  BY PowerAssumption DEF Owns, Callers

\* What happens outside the processes that have looked at the lock file, and
\* away from the host, keeps all that the invariant says of them.
Elsewhere ==
  /\ UNCHANGED <<lock, status, machine, misled, orphan>>
  /\ \A p \in Callers :
       \/ at'[p] = at[p] /\ op'[p] = op[p]
       \/ at[p] \notin Locked /\ at'[p] \notin Locked

Rest == Owns /\ Free /\ BusyIsTrue /\ ButtonIsHeld /\ Pressed /\ StillOn

LEMMA Outside ==
  ASSUME TypeOK, TypeOK', Rest, Elsewhere
  PROVE  Rest'
<1>1. /\ UNCHANGED <<lock, status, host, pressed, stuck, edge, misled, orphan>>
      /\ \A p \in Callers : at[p] \in Locked \/ at'[p] \in Locked
                           => at'[p] = at[p] /\ op'[p] = op[p]
  BY DEF Elsewhere, machine
<1>2. Owns'
  BY <1>1 DEF Rest, Owns, Locked
<1>3. Free'
  <2>1. lock # Nobody => lock \in Callers
    BY DEF TypeOK
  <2>2. QED
    BY <1>1, <2>1 DEF Rest, Free
<1>4. BusyIsTrue'
  BY <1>1 DEF Rest, BusyIsTrue, Locked
<1>5. ButtonIsHeld'
  <2>1. "held" \in Locked
    BY DEF Locked, Working
  <2>2. QED
    BY <1>1, <2>1 DEF Rest, ButtonIsHeld, Button
<1>6. Pressed'
  BY <1>1 DEF Rest, Pressed
<1>7. StillOn'
  <2>1. "held" \in Locked /\ "press" \in Locked
    BY DEF Locked, Working
  <2>2. QED
    BY <1>1, <2>1 DEF Rest, StillOn
<1>8. QED
  BY <1>2, <1>3, <1>4, <1>5, <1>6, <1>7 DEF Rest

\* After a step of the process that has the lock file, it is enough to look at
\* that process.
LEMMA Inside ==
  ASSUME TypeOK', NEW p \in Callers,
         \A q \in Callers \ {p} : at'[q] \notin Working \cup {"check"},
         \/ lock' = p /\ at'[p] \in Locked
         \/ lock' = Nobody /\ at'[p] \notin Working \cup {"check"},
         orphan' \/ (status' = "..." <=> at'[p] \in Working),
         \A b \in pressed' \ stuck' : at'[p] = "held" /\ Button(p)' = b,
         edge' => "power" \in pressed' \ stuck',
         at'[p] = "press" \/ (at'[p] = "held" /\ edge')
           => misled' \/ op'[p] \in {"on", "again"} \/ host' = "on"
  PROVE  Rest'
<1>1. Nobody \notin Callers
  BY PowerAssumption DEF Callers
<1>2. Owns' /\ Free'
  BY <1>1 DEF Owns, Free
<1>3. "held" \in Working /\ "press" \in Working
  BY DEF Working
<1>4. BusyIsTrue' /\ ButtonIsHeld' /\ Pressed'
  BY <1>1, <1>3 DEF BusyIsTrue, ButtonIsHeld, Pressed
<1>5. StillOn'
  BY <1>3 DEF StillOn
<1>6. QED
  BY <1>2, <1>4, <1>5 DEF Rest

\* One process takes a step, and only what it has done changes.
LEMMA IInvStep == IInv /\ [Next]_vars => IInv'
<1> SUFFICES ASSUME IInv, [Next]_vars PROVE IInv'
  OBVIOUS
<1>t. TypeOK /\ TypeOK' /\ Rest
  BY TypeStep DEF IInv, Rest
<1> SUFFICES Rest'
  BY <1>t DEF IInv, Rest
<1>n. Nobody \notin Callers
  BY PowerAssumption DEF Callers
<1>1. ASSUME NEW u \in Users, Ask(u) PROVE Rest'
  <2>1. Elsewhere
    BY <1>1, <1>t DEF Ask, Goes, Callers, Elsewhere, TypeOK, Locked, Working
  <2>2. QED
    BY <2>1, <1>t, Outside
<1>2. CASE FanReads
  <2>1. Elsewhere
    BY <1>2, <1>t DEF FanReads, Goes, Callers, Elsewhere, TypeOK, Locked, Working
  <2>2. QED
    BY <2>1, <1>t, Outside
<1>3. CASE Heats \/ FanReadFails \/ FanFull \/ FanRests \/ UNCHANGED vars
  <2>1. Elsewhere
    BY <1>3 DEF Heats, FanReadFails, FanFull, FanRests, vars, process, Elsewhere
  <2>2. QED
    BY <2>1, <1>t, Outside
\* A process leaves before it has looked at the host, or goes on to look at it
\* for a query without the lock.
<1>4. ASSUME NEW p \in Callers, at[p] \in {"lock", "query"},
             at'[p] \in {"idle", "query"},
             lock' = lock \/ (lock = p /\ lock' = Nobody),
             lock' = p => at'[p] = "query",
             \A q \in Callers \ {p} : at'[q] = at[q] /\ op'[q] = op[q],
             UNCHANGED <<status, host, pressed, stuck, misled>>,
             edge' = edge, orphan' = orphan
      PROVE  Rest'
  <2>1. \A q \in Callers : /\ at'[q] \in Working <=> at[q] \in Working
                           /\ at'[q] = "check" <=> at[q] = "check"
                           /\ at'[q] = "held" <=> at[q] = "held"
                           /\ at'[q] = "press" <=> at[q] = "press"
    BY <1>4 DEF Working
  <2>2. \A q \in Callers : at[q] \in Working \cup {"check"}
                           => lock' = lock /\ lock = q /\ q # p
    BY <1>4, <1>t DEF Rest, Owns, Working
  <2>3. "held" \in Working /\ "press" \in Working /\ "query" \in Locked
    BY DEF Working, Locked
  <2>4. Owns' /\ Free'
    BY <1>4, <2>1, <2>2, <2>3, <1>t, <1>n DEF Rest, Owns, Free, TypeOK
  <2>5. BusyIsTrue'
    BY <1>4, <2>1, <2>2, <1>t, <1>n DEF Rest, BusyIsTrue
  <2>6. ButtonIsHeld'
    BY <1>4, <2>1, <2>2, <2>3, <1>t, <1>n DEF Rest, ButtonIsHeld, Button
  <2>7. Pressed' /\ StillOn'
    BY <1>4, <2>1, <2>2, <2>3, <1>t DEF Rest, Pressed, StillOn
  <2>8. QED
    BY <2>4, <2>5, <2>6, <2>7 DEF Rest
<1>5. ASSUME NEW p \in Callers, Query(p) PROVE Rest'
  <2>1. /\ UNCHANGED <<status, host, pressed, stuck, edge, misled, orphan>>
        /\ at[p] = "query" /\ at'[p] = "idle"
        /\ \A q \in Callers \ {p} : at'[q] = at[q] /\ op'[q] = op[q]
        /\ lock' = IF lock = p THEN Nobody ELSE lock
    BY <1>5, <1>t DEF Query, Exits, machine, TypeOK
  <2>2. QED
    BY <2>1, <1>4, <1>n
<1>10. ASSUME NEW p \in Callers, TakeLock(p) PROVE Rest'
  <2>0. UNCHANGED <<status, host, pressed, stuck, edge, misled, orphan>>
        /\ at[p] = "lock"
    BY <1>10 DEF TakeLock, machine
  <2>1. CASE lock # Nobody
    <3>1. lock # p
      BY <2>0, <2>1, <1>t DEF Rest, Free, Locked, Working
    <3>2. /\ \A q \in Callers \ {p} : at'[q] = at[q] /\ op'[q] = op[q]
          /\ at'[p] \in {"query", "idle"} /\ lock' = lock
      BY <1>10, <2>1, <3>1, <1>t DEF TakeLock, Goes, Exits, TypeOK
    <3>3. QED
      BY <2>0, <3>1, <3>2, <1>4
  <2>2. CASE lock = Nobody
    <3>1. op' = op /\ lock' = p
      BY <1>10, <2>2 DEF TakeLock
    <3>2. /\ \A q \in Callers \ {p} : at'[q] = at[q]
          /\ at'[p] \in {"query", "check"}
      BY <1>10, <2>2, <1>t DEF TakeLock, Goes, TypeOK
    <3>3. \A q \in Callers : at[q] \notin Working \cup {"check"}
      BY <2>2, <1>t, <1>n DEF Rest, Owns
    <3>4. Owns' /\ Free'
      BY <3>1, <3>2, <3>3 DEF Owns, Free, Locked, Working
    <3>5. /\ orphan \/ status # "..."
          /\ pressed \ stuck = {} /\ ~edge
      BY <2>2, <1>t, <1>n DEF Rest, BusyIsTrue, ButtonIsHeld, Pressed, TypeOK
    <3>6. BusyIsTrue'
      BY <2>0, <3>1, <3>2, <3>3, <3>5 DEF BusyIsTrue, Working
    <3>7. ButtonIsHeld' /\ Pressed'
      BY <2>0, <3>5 DEF ButtonIsHeld, Pressed
    <3>8. StillOn'
      BY <2>0, <3>1, <3>2, <3>3, <3>5 DEF StillOn, Working
    <3>9. QED
      BY <3>4, <3>6, <3>7, <3>8 DEF Rest
  <2>3. QED
    BY <2>1, <2>2
<1>6. ASSUME NEW p \in Callers, at[p] \in Working \cup {"check"},
             \/ Check(p) \/ Verify(p) \/ Press(p) \/ Release(p)
             \/ ReleaseFails(p) \/ Again(p) \/ Done(p) \/ Dies(p)
      PROVE  Rest'
  <2>1. /\ lock = p /\ lock # Nobody
        /\ \A q \in Callers \ {p} : at[q] \notin Working \cup {"check"}
    BY <1>6, <1>t, Alone DEF Rest
  <2>2. \A q \in Callers \ {p} : at'[q] = at[q]
    BY <1>6, <1>t DEF Check, Verify, Press, Release, ReleaseFails, Again, Done,
                      Dies, Goes, Exits, TypeOK
  <2>3. /\ orphan \/ (status = "..." <=> at[p] \in Working)
        /\ \A b \in pressed \ stuck : at[p] = "held" /\ Button(p) = b
        /\ edge => "power" \in pressed \ stuck
        /\ at[p] = "press" \/ (at[p] = "held" /\ edge)
             => misled \/ op[p] \in {"on", "again"} \/ host = "on"
    BY <2>1, <1>t DEF Rest, BusyIsTrue, ButtonIsHeld, Pressed, StillOn
  <2>d. /\ {"verify", "press", "held", "sleep", "ok", "failed"} \subseteq Working
        /\ Working \subseteq Locked /\ "check" \in Locked
        /\ "idle" \notin Locked /\ "idle" \notin Working /\ "check" \notin Working
    BY DEF Working, Locked
  <2>4. CASE Check(p)
    <3>1. /\ UNCHANGED <<pressed, stuck, edge>> /\ at[p] = "check" /\ ~orphan'
          /\ \/ at'[p] = "idle" /\ lock' = Nobody /\ status' = "refused"
             \/ at'[p] = "verify" /\ lock' = p /\ status' = "..."
      BY <2>4, <2>1, <1>t DEF Check, Goes, Exits, machine, TypeOK
    <3>2. pressed' \ stuck' = {} /\ ~edge'
      BY <3>1, <2>3
    <3>3. QED
      BY <3>1, <3>2, <2>1, <2>2, <2>d, <1>t, Inside
  <2>5. CASE Verify(p)
    <3>1. /\ UNCHANGED <<lock, status, host, pressed, stuck, edge, op, orphan>>
          /\ at[p] = "verify"
          /\ \/ at'[p] = "failed"
             \/ at'[p] = "press" /\ ~Wrong(p)
             \/ at'[p] = "press" /\ misled' = Wrong(p)
      BY <2>5, <1>t DEF Verify, Goes, machine, TypeOK
    <3>2. at'[p] = "press" => misled' \/ op'[p] \in {"on", "again"} \/ host' = "on"
      BY <3>1, <1>t DEF Wrong, TypeOK
    <3>3. pressed' \ stuck' = {} /\ ~edge'
      BY <3>1, <2>3
    <3>4. QED
      BY <3>1, <3>2, <3>3, <2>1, <2>2, <2>3, <2>d, <1>t, Inside
  <2>6. CASE Press(p)
    <3>1. /\ UNCHANGED <<lock, status, host, op, misled, orphan>> /\ at[p] = "press"
      BY <2>6 DEF Press, Goes
    <3>2. pressed \ stuck = {} /\ ~edge
      BY <3>1, <2>3
    <3>3. CASE at'[p] = "held" /\ pressed' = pressed \cup {Button(p)}
               /\ stuck' = stuck \ {Button(p)} /\ edge' = (Button(p) = "power")
      <4>1. pressed' \ stuck' = {Button(p)} /\ Button(p)' = Button(p)
        BY <3>1, <3>2, <3>3 DEF Button
      <4>2. QED
        BY <3>1, <3>3, <4>1, <2>1, <2>2, <2>3, <2>d, <1>t, Inside
    <3>4. CASE at'[p] = "failed" /\ pressed' \in {pressed, pressed \ {Button(p)}}
               /\ stuck' = stuck \cap pressed' /\ edge' = edge
      <4>1. pressed' \ stuck' = {}
        BY <3>2, <3>4
      <4>2. QED
        BY <3>1, <3>2, <3>4, <4>1, <2>1, <2>2, <2>3, <2>d, <1>t, Inside
    <3>5. QED
      BY <2>6, <3>3, <3>4, <1>t DEF Press, Goes, TypeOK
  <2>7. CASE Release(p) \/ ReleaseFails(p)
    <3>1. /\ UNCHANGED <<lock, status, orphan>> /\ at[p] = "held" /\ ~edge'
          /\ at'[p] \in {"sleep", "ok", "failed"}
      BY <2>7, <1>t DEF Release, ReleaseFails, Goes, TypeOK
    <3>2. pressed' \ stuck' \subseteq (pressed \ stuck) \ {Button(p)}
      BY <2>7 DEF Release, ReleaseFails
    <3>3. pressed' \ stuck' = {}
      BY <3>2, <2>3
    <3>4. at'[p] \in Working /\ at'[p] \notin {"press", "held"}
      BY <3>1, <2>d
    <3>5. QED
      BY <3>1, <3>3, <3>4, <2>1, <2>2, <2>3, <2>d, <1>t, Inside
  <2>8. CASE Again(p)
    <3>1. /\ UNCHANGED <<lock, status, pressed, stuck, edge, orphan>>
          /\ at[p] = "sleep" /\ at'[p] = "verify"
      BY <2>8, <1>t DEF Again, Goes, machine, TypeOK
    <3>2. pressed' \ stuck' = {} /\ ~edge'
      BY <3>1, <2>3
    <3>3. QED
      BY <3>1, <3>2, <2>1, <2>2, <2>3, <2>d, <1>t, Inside
  <2>9. CASE Done(p)
    <3>1. /\ UNCHANGED <<pressed, stuck, edge>> /\ at[p] \in {"ok", "failed"}
          /\ at'[p] = "idle" /\ lock' = Nobody /\ status' # "..."
      BY <2>9, <2>1, <1>t DEF Done, Exits, machine, TypeOK
    <3>2. pressed' \ stuck' = {} /\ ~edge'
      BY <3>1, <2>3
    <3>3. QED
      BY <3>1, <3>2, <2>1, <2>2, <2>d, <1>t, Inside
  <2>11. CASE Dies(p)
    <3>1. /\ UNCHANGED <<status, pressed>> /\ at'[p] = "idle" /\ lock' = Nobody
          /\ stuck' = (IF at[p] = "held" THEN stuck \cup {Button(p)} ELSE stuck)
          /\ edge' = (edge /\ at[p] # "held")
          /\ orphan' = (orphan \/ at[p] \in Working)
      BY <2>11, <2>1, <1>t DEF Dies, Exits, TypeOK
    <3>2. pressed' \ stuck' = {}
      BY <3>1, <2>3
    <3>3. ~edge'
      BY <3>1, <2>3
    <3>4. orphan' \/ status' # "..."
      BY <3>1, <2>3, <1>6
    <3>5. QED
      BY <3>1, <3>2, <3>3, <3>4, <2>1, <2>2, <2>d, <1>t, Inside
  <2>10. QED
    BY <1>6, <2>4, <2>5, <2>6, <2>7, <2>8, <2>9, <2>11
<1>11. ASSUME NEW p \in Callers, Dies(p) PROVE Rest'
  <2>1. CASE at[p] \in Working \cup {"check"}
    BY <1>6, <1>11, <2>1
  <2>2. CASE at[p] \in {"lock", "query"}
    <3>1. /\ UNCHANGED <<status, host, pressed, stuck, misled>> /\ at'[p] = "idle"
          /\ \A q \in Callers \ {p} : at'[q] = at[q] /\ op'[q] = op[q]
          /\ lock' = IF lock = p THEN Nobody ELSE lock
      BY <1>11, <2>2, <1>t DEF Dies, Exits, TypeOK
    <3>2. edge' = edge /\ orphan' = orphan
      BY <1>11, <2>2, <1>t DEF Dies, TypeOK, Working
    <3>3. QED
      BY <3>1, <3>2, <2>2, <1>4, <1>n
  <2>3. at[p] \in {"idle", "lock", "check", "query"} \cup Working /\ at[p] # "idle"
    BY <1>11, <1>t DEF TypeOK, Dies
  <2>4. QED
    BY <2>1, <2>2, <2>3
<1>7. CASE Starts \/ IsCut \/ StuckCuts \/ Moves
  <2>1. /\ UNCHANGED <<at, op, lock, status, pressed, stuck, orphan>>
        /\ edge' => edge
        /\ misled' \/ host' = "on" \/ ~edge'
    BY <1>7, <1>t DEF Starts, IsCut, StuckCuts, Moves, process, TypeOK
  <2>2. Owns' /\ Free' /\ BusyIsTrue' /\ ButtonIsHeld' /\ Pressed'
    BY <2>1, <1>t DEF Rest, Owns, Free, BusyIsTrue, ButtonIsHeld, Pressed, Button
  <2>3. CASE Starts \/ StuckCuts \/ Moves
    <3>1. misled' \/ host' = "on"
      BY <2>3 DEF Starts, StuckCuts, Moves
    <3>2. QED
      BY <2>1, <2>2, <3>1 DEF Rest, StillOn
  <2>4. CASE IsCut
    <3>1. PICK r \in Callers : at[r] = "held"
      BY <2>4 DEF IsCut
    <3>2. \A q \in Callers : at[q] # "press"
      BY <3>1, <1>t, Alone DEF Rest, Working
    <3>3. ~edge'
      BY <2>4 DEF IsCut
    <3>4. QED
      BY <2>1, <2>2, <3>2, <3>3 DEF Rest, StillOn
  <2>5. QED
    BY <1>7, <2>3, <2>4
<1>8. ASSUME NEW p \in Callers, Step(p) PROVE Rest'
  <2>1. Check(p) => at[p] \in Working \cup {"check"}
    BY DEF Check
  <2>2. Verify(p) \/ Press(p) \/ Release(p) \/ ReleaseFails(p) \/ Again(p) \/ Done(p)
          => at[p] \in Working
    BY DEF Verify, Press, Release, ReleaseFails, Again, Done, Goes, Working
  <2>3. QED
    BY <1>10, <1>5, <1>6, <1>8, <2>1, <2>2 DEF Step
<1>9. QED
  BY <1>1, <1>2, <1>3, <1>7, <1>8, <1>11 DEF Next

-----------------------------------------------------------------------------
\* The inductive invariant holds in every reachable state.
THEOREM Inductive == Spec => []IInv
<1>1. Init => IInv
  BY InitIInv
<1>2. IInv /\ [Next]_vars => IInv'
  BY IInvStep
<1>3. QED
  BY <1>1, <1>2, PTL DEF Spec

\* The variables keep their types.
THEOREM Typed == Spec => []TypeOK
<1>1. IInv => TypeOK
  BY DEF IInv
<1>2. QED
  BY <1>1, Inductive, PTL

\* The status file shows an action in progress exactly while there is one, so
\* that the board never refuses an action for one that has ended.
THEOREM StatusIsTrue == Spec => []BusyIsTrue
<1>1. IInv => BusyIsTrue
  BY DEF IInv
<1>2. QED
  BY <1>1, Inductive, PTL

\* A button is pressed only while the process with the lock file holds it, or
\* because a process was killed or both its attempts to let it go failed.
THEOREM ButtonsAreReleased == Spec => []ButtonIsHeld
<1>1. IInv => ButtonIsHeld
  BY DEF IInv
<1>2. QED
  BY <1>1, Inductive, PTL

\* The board starts the host only on a request to start it, unless the host
\* went off by itself after the request had looked at it.
THEOREM StartsOnlyOnRequest == Spec => StartsOnRequest
<1> DEFINE A == host = "off" /\ host' = "on" /\ edge # edge'
                  => \/ misled
                     \/ \E p \in Callers : lock = p /\ op[p] \in {"on", "again"}
<1>1. ASSUME IInv, [Next]_vars PROVE [A]_vars
  <2>1. SUFFICES ASSUME host = "off", host' = "on", edge # edge', ~misled
                 PROVE  \E p \in Callers : lock = p /\ op[p] \in {"on", "again"}
    OBVIOUS
  <2>2. \A p \in Callers : Step(p) => host' = host
    BY DEF Step, TakeLock, Query, Check, Verify, Press, Release, ReleaseFails,
           Again, Done, machine
  <2>7. \A p \in Callers : Dies(p) => host' = host
    BY DEF Dies
  <2>3. Starts
    BY <1>1, <2>1, <2>2, <2>7 DEF Next, Ask, IsCut, StuckCuts, Moves, Heats,
       FanReads, FanReadFails, FanFull, FanRests, machine, vars
  <2>4. PICK p \in Callers : lock = p /\ at[p] = "held"
    BY <1>1, <2>3 DEF IInv, ButtonIsHeld, Pressed, Starts
  <2>5. op[p] \in {"on", "again"}
    BY <1>1, <2>1, <2>3, <2>4 DEF IInv, StillOn, Starts
  <2>6. QED
    BY <2>4, <2>5
<1>2. QED
  BY <1>1, Inductive, PTL DEF Spec, StartsOnRequest
=============================================================================
