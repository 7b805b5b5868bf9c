------------------------------ MODULE EventLog ------------------------------
(***************************************************************************)
(* What the system event log promises to whoever reads it over IPMI: a     *)
(* bounded log of events, oldest first.  Recording an event drops the      *)
(* oldest one when, and only when, the log is full.  A power cut empties   *)
(* what can be read; the events that had been saved come back in order     *)
(* before new ones are recorded.                                           *)
(***************************************************************************)
EXTENDS Naturals, Sequences

CONSTANTS MaxNum,       \* how many events the log holds
          Event         \* the events, numbered in the order they happen

VARIABLES log,          \* the events that can be read, oldest first
          restoring     \* the saved events are being read back

Oldest == IF Len(log) = MaxNum THEN Tail(log) ELSE log

Init == log = <<>> /\ restoring = TRUE

\* A new event, later than all that are in the log.
Record == /\ ~restoring
          /\ \E e \in Event : /\ \A i \in DOMAIN log : log[i] < e
                            /\ log' = Append(Oldest, e)
          /\ UNCHANGED restoring

\* A saved event comes back; a cut in the middle of a save may have left an
\* event twice.
Restore == /\ restoring /\ Len(log) < MaxNum
           /\ \E e \in Event : /\ \A i \in DOMAIN log : log[i] <= e
                             /\ log' = Append(log, e)
           /\ UNCHANGED restoring

Restored == restoring /\ restoring' = FALSE /\ UNCHANGED log
Clear    == ~restoring /\ log' = <<>> /\ UNCHANGED restoring
Lose     == log' = <<>> /\ restoring' = TRUE

Next == Record \/ Restore \/ Restored \/ Clear \/ Lose
Spec == Init /\ [][Next]_<<log, restoring>>
=============================================================================
