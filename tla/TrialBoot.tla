----------------------------- MODULE TrialBoot -----------------------------
(***************************************************************************)
(* What a dual-bank upgrade promises, with neither flags nor power cuts:   *)
(* one bank is committed, a new one may be armed for a single trial boot,  *)
(* and the trial either commits the new bank or rolls back to the          *)
(* committed one.  BankUpgrade implements this specification as long as    *)
(* the power stays on in the windows between its two flag writes.          *)
(***************************************************************************)

VARIABLES committed,   \* the bank the system falls back to
          phase        \* "normal", "armed" (next boot is a trial) or "trial"

vars == <<committed, phase>>

Banks == {"0", "1"}
Other(b) == IF b = "0" THEN "1" ELSE "0"

Init == committed \in Banks /\ phase = "normal"

Move(from, to) == phase = from /\ phase' = to

Arm      == Move("normal", "armed") /\ UNCHANGED committed
Try      == Move("armed", "trial")  /\ UNCHANGED committed
Commit   == Move("trial", "normal") /\ committed' = Other(committed)
Rollback == Move("trial", "normal") /\ UNCHANGED committed

Next == Arm \/ Try \/ Commit \/ Rollback

Spec == Init /\ [][Next]_vars
=============================================================================
