------------------------- MODULE BankUpgrade_proofs -------------------------
(***************************************************************************)
(* Proofs about BankUpgrade, for every set of images and packages and any  *)
(* number of power cuts.                                                   *)
(***************************************************************************)
EXTENDS BankUpgrade, TLAPS

\* A script that burns has a package with software in it.
BurnsSoftware ==
  \A p \in Procs : step[p] \in {"burn", "burning"} => pkg[p] \in Images

TypeInv == TypeOK /\ BurnsSoftware

\* The flags, banks and script variables keep their types, whatever the
\* faults and however many upgrade scripts run at a time.
THEOREM TypeInvariant == Spec => []TypeInv
<1> USE UpgradeAssumption
<1>1. Init => TypeInv
  BY DEF Init, TypeInv, TypeOK, BurnsSoftware, Banks, UpgFlags, Flags, Stages, Steps
<1>2. TypeInv /\ [Next]_vars => TypeInv'
  <2> SUFFICES ASSUME TypeInv, [Next]_vars PROVE TypeInv'
    OBVIOUS
  <2> USE DEF TypeInv, TypeOK, BurnsSoftware, Banks, UpgFlags, Flags, Stages, Steps, Other,
              flags, uboot, script
  <2>1. CASE UBootDecide
    BY <2>1 DEF UBootDecide
  <2>2. CASE UBootWriteBoot
    BY <2>2 DEF UBootWriteBoot
  <2>3. CASE UBootWriteUpg
    BY <2>3 DEF UBootWriteUpg
  <2>4. CASE StartUp
    BY <2>4 DEF StartUp
  <2>5. CASE HungReset
    BY <2>5 DEF HungReset
  <2>5a. CASE TurnOff
    BY <2>5a DEF TurnOff
  <2>5b. CASE WriteBack
    BY <2>5b DEF WriteBack
  <2>6. CASE MgmtdRestart
    BY <2>6 DEF MgmtdRestart, Mishaps, FaultKinds
  <2>7. CASE Reboot
    BY <2>7 DEF Reboot
  <2>8. CASE PowerCut
    BY <2>8 DEF PowerCut, Mishaps, FaultKinds
  <2>9. ASSUME NEW p \in Procs, Script(p) PROVE TypeInv'
    <3>1. CASE UpgradeBegin(p)
      BY <3>1 DEF UpgradeBegin, Begin, Mishaps, FaultKinds
    <3>2. CASE SwitchBegin(p)
      BY <3>2 DEF SwitchBegin, Begin
    <3>3. CASE ReadBoot(p)
      BY <3>3 DEF ReadBoot, Burns
    <3>4. CASE BurnBegin(p)
      BY <3>4 DEF BurnBegin
    <3>5. CASE BurnEnd(p)
      BY <3>5 DEF BurnEnd
    <3>6. CASE SetBoot(p)
      <4>1. boot' \in {"0", "1"} /\ failed' \in SUBSET {"0", "1"}
        BY <3>6 DEF SetBoot
      <4>2. /\ step' = [step EXCEPT ![p] = "setUpg"]
            /\ UNCHANGED <<upg, saved, bank, stage, running, nboot, nupg, op, pkg,
                           new, mishaps, cuts>>
        BY <3>6 DEF SetBoot
      <4> QED
        BY <4>1, <4>2
    <3>7. CASE SetUpg(p)
      BY <3>7 DEF SetUpg
    <3>8. CASE ErrorQuit(p)
      <4>1. mishaps' \in SUBSET Mishaps
        BY <3>8 DEF ErrorQuit, Mishaps, FaultKinds
      <4>2. /\ step' = [step EXCEPT ![p] = "idle"]
            /\ UNCHANGED <<boot, upg, saved, bank, stage, running, nboot, nupg, op,
                           pkg, new, failed, cuts>>
        BY <3>8 DEF ErrorQuit
      <4> QED
        BY <4>1, <4>2
    <3> QED
      BY <2>9, <3>1, <3>2, <3>3, <3>4, <3>5, <3>6, <3>7, <3>8 DEF Script
  <2>10. CASE UNCHANGED vars
    BY <2>10 DEF vars
  <2> QED
    BY <2>1, <2>2, <2>3, <2>4, <2>5, <2>5a, <2>5b, <2>6, <2>7, <2>8,
       <2>9, <2>10 DEF Next
<1> QED
  BY <1>1, <1>2, PTL DEF Spec

\* The type invariant that the runs check.
COROLLARY TypeCorrect == Spec => []TypeOK
<1>1. TypeInv => TypeOK
  BY DEF TypeInv
<1> QED
  BY <1>1, TypeInvariant, PTL

-----------------------------------------------------------------------------
(***************************************************************************)
(* The trial boot is safe under the assumptions that the code leaves to    *)
(* its environment: one upgrade script at a time, packages with software   *)
(* in them, and no power cut, failed flag write or restart of is_mgmtd in  *)
(* the windows between two flag writes.                                    *)
(***************************************************************************)
OneScript == \A p, q \in Procs : p = q

Undisturbed == OneScript /\ Faults = {} /\ Packages \subseteq Images

\* What the scripts know while they run.
ScriptInv ==
  \A p \in Procs :
    /\ step[p] # "idle" => stage = "up" /\ upg = "0"
    /\ step[p] # "idle" /\ op[p] = "upgrade" => pkg[p] \in Images
    /\ step[p] \in {"burn", "burning", "setBoot"} => new[p] = Other(boot)

\* What the stages of a boot know about the flags.
BootInv ==
  /\ stage = "flagBoot" => /\ nboot = IF upg = "2" THEN Other(boot) ELSE boot
                           /\ nupg = IF upg = "1" THEN "2" ELSE "0"
  /\ stage = "flagUpg"  => /\ nboot = boot
                           /\ nupg = IF upg = "1" THEN "2" ELSE "0"
  /\ stage = "booting"  => running = boot /\ upg \in {"0", "2"}
  /\ stage = "up"       => running = Committed /\ upg \in {"0", "1"}

\* The bank that the flags stand for always works: this is what carries
\* SafeUncheckedBoot from one boot to the next.
SafeInv == TypeInv /\ ScriptInv /\ BootInv /\ bank[Committed] \in Good

LEMMA SafeInit == Init => SafeInv
<1> USE UpgradeAssumption
<1>1. Init => TypeInv
  BY DEF Init, TypeInv, TypeOK, BurnsSoftware, Banks, UpgFlags, Flags, Stages, Steps
<1> QED
  BY <1>1 DEF Init, SafeInv, ScriptInv, BootInv, Committed, InUbootWindow,
              InUpgradeWindow

LEMMA SafeStep == Undisturbed /\ SafeInv /\ TypeInv' /\ [Next]_vars => SafeInv'
<1> USE UpgradeAssumption
<1> SUFFICES ASSUME Undisturbed, SafeInv, TypeInv', [Next]_vars PROVE SafeInv'
  OBVIOUS
<1> USE DEF Undisturbed, OneScript, SafeInv, TypeInv, TypeOK, ScriptInv,
            BootInv, Committed, InUbootWindow, InUpgradeWindow, Other, Banks,
            UpgFlags, Flags, Unsaved, Stages, Steps, flags, uboot, script
<1>1. CASE UBootDecide
  BY <1>1 DEF UBootDecide
<1>2. CASE UBootWriteBoot
  BY <1>2 DEF UBootWriteBoot
<1>3. CASE UBootWriteUpg
  BY <1>3 DEF UBootWriteUpg
<1>4. CASE StartUp
  BY <1>4 DEF StartUp
<1>5. CASE HungReset
  BY <1>5 DEF HungReset
<1>5a. CASE TurnOff
  BY <1>5a DEF TurnOff
<1>5b. CASE WriteBack
  BY <1>5b DEF WriteBack
<1>6. CASE MgmtdRestart
  BY <1>6 DEF MgmtdRestart
<1>7. CASE Reboot
  BY <1>7 DEF Reboot
<1>8. CASE PowerCut
  BY <1>8 DEF PowerCut
<1>9. ASSUME NEW p \in Procs, Script(p) PROVE SafeInv'
  <2>1. CASE UpgradeBegin(p)
    BY <2>1 DEF UpgradeBegin, Begin
  <2>2. CASE SwitchBegin(p)
    BY <2>2 DEF SwitchBegin, Begin
  <2>3. CASE ReadBoot(p)
    BY <2>3 DEF ReadBoot, Burns
  <2>4. CASE BurnBegin(p)
    BY <2>4 DEF BurnBegin
  <2>5. CASE BurnEnd(p)
    BY <2>5 DEF BurnEnd
  <2>6. CASE SetBoot(p)
    BY <2>6 DEF SetBoot
  <2>7. CASE SetUpg(p)
    BY <2>7 DEF SetUpg
  <2>8. CASE ErrorQuit(p)
    BY <2>8 DEF ErrorQuit
  <2> QED
    BY <1>9, <2>1, <2>2, <2>3, <2>4, <2>5, <2>6, <2>7, <2>8 DEF Script
<1>10. CASE UNCHANGED vars
  BY <1>10 DEF vars
<1> QED
  BY <1>1, <1>2, <1>3, <1>4, <1>5, <1>5a, <1>5b, <1>6, <1>7, <1>8,
     <1>9, <1>10 DEF Next

LEMMA SafeAlways == ASSUME Undisturbed PROVE Spec => []SafeInv
<1>1. SafeInv /\ TypeInv' /\ [Next]_vars => SafeInv'
  BY SafeStep
<1> QED
  BY <1>1, SafeInit, TypeInvariant, PTL DEF Spec

\* Undisturbed, a boot that is not a trial starts a working image: the flag
\* protocol of is_upgrade.sh and u-boot never commits an untried bank.
THEOREM UncheckedBootIsSafe ==
  ASSUME Undisturbed PROVE Spec => []SafeUncheckedBoot
<1>1. SafeInv => SafeUncheckedBoot
  BY DEF SafeInv, SafeUncheckedBoot, BootInv, ScriptInv, Committed,
         InUbootWindow, InUpgradeWindow
<1> QED
  BY <1>1, SafeAlways, PTL

\* Undisturbed, the bank u-boot reverts to after a failed trial works.
THEOREM RevertIsSafe ==
  ASSUME Undisturbed PROVE Spec => []RevertsToWorkingBank
<1>1. SafeInv => RevertsToWorkingBank
  BY DEF SafeInv, RevertsToWorkingBank, BootInv, Committed, InUbootWindow
<1> QED
  BY <1>1, SafeAlways, PTL

\* Undisturbed, an upgrade never burns the bank the system runs from.
THEOREM BurnsOtherBank ==
  ASSUME Undisturbed PROVE Spec => []RunningBankIntact
<1>1. SafeInv => RunningBankIntact
  BY DEF SafeInv, RunningBankIntact, TypeInv, TypeOK, ScriptInv, BootInv,
         Undisturbed, OneScript, Committed, InUbootWindow, InUpgradeWindow,
         Other, Banks
<1> QED
  BY <1>1, SafeAlways, PTL

\* Undisturbed, the two flags implement a trial boot: whatever the power cuts
\* outside the windows, the committed bank changes only by a commit.
THEOREM FlagsImplementTrialBoot ==
  ASSUME Undisturbed PROVE Spec => ImplementsTrialBoot
<1> USE DEF Committed, Phase, InUbootWindow, InUpgradeWindow, Other, Banks
<1>1. Init => Trial!Init
  BY UpgradeAssumption DEF Init, Trial!Init, Trial!Banks
<1>2. SafeInv /\ SafeInv' /\ [Next]_vars => [Trial!Next]_(Trial!vars)
  <2> SUFFICES ASSUME SafeInv, SafeInv', [Next]_vars
               PROVE  [Trial!Next]_(Trial!vars)
    OBVIOUS
  <2> USE DEF Undisturbed, OneScript, SafeInv, TypeInv, TypeOK, ScriptInv,
              BootInv, Flags, Unsaved, flags, uboot, script,
              Trial!Next, Trial!vars, Trial!Arm, Trial!Try, Trial!Commit,
              Trial!Rollback, Trial!Move, Trial!Other
  <2>1. CASE UBootDecide
    BY <2>1 DEF UBootDecide
  <2>2. CASE UBootWriteBoot
    BY <2>2 DEF UBootWriteBoot
  <2>3. CASE UBootWriteUpg
    BY <2>3 DEF UBootWriteUpg
  <2>4. CASE StartUp
    BY <2>4 DEF StartUp
  <2>5. CASE HungReset
    BY <2>5 DEF HungReset
  <2>5a. CASE TurnOff
    BY <2>5a DEF TurnOff
  <2>5b. CASE WriteBack
    BY <2>5b DEF WriteBack
  <2>6. CASE MgmtdRestart
    BY <2>6 DEF MgmtdRestart
  <2>7. CASE Reboot
    BY <2>7 DEF Reboot
  <2>8. CASE PowerCut
    BY <2>8 DEF PowerCut
  <2>9. ASSUME NEW p \in Procs, Script(p) PROVE [Trial!Next]_(Trial!vars)
    <3>1. CASE UpgradeBegin(p)
      BY <3>1 DEF UpgradeBegin, Begin
    <3>2. CASE SwitchBegin(p)
      BY <3>2 DEF SwitchBegin, Begin
    <3>3. CASE ReadBoot(p)
      BY <3>3 DEF ReadBoot, Burns
    <3>4. CASE BurnBegin(p)
      BY <3>4 DEF BurnBegin
    <3>5. CASE BurnEnd(p)
      BY <3>5 DEF BurnEnd
    <3>6. CASE SetBoot(p)
      BY <3>6 DEF SetBoot
    <3>7. CASE SetUpg(p)
      BY <3>7 DEF SetUpg
    <3>8. CASE ErrorQuit(p)
      BY <3>8 DEF ErrorQuit
    <3> QED
      BY <2>9, <3>1, <3>2, <3>3, <3>4, <3>5, <3>6, <3>7, <3>8 DEF Script
  <2>10. CASE UNCHANGED vars
    BY <2>10 DEF vars
  <2> QED
    BY <2>1, <2>2, <2>3, <2>4, <2>5, <2>5a, <2>5b, <2>6, <2>7, <2>8,
       <2>9, <2>10 DEF Next
<1> QED
  BY <1>1, <1>2, SafeAlways, PTL DEF Spec, ImplementsTrialBoot, Trial!Spec

-----------------------------------------------------------------------------
(***************************************************************************)
(* Even when the power may be cut in every window and packages may lack    *)
(* software, the device keeps a bank to recover from.                      *)
(***************************************************************************)
OnlyCuts == mishaps \cap {"flagError", "restart"} = {}

\* While no script is between its two flag writes and no upgrade is pending,
\* the boot flag names the running bank, so the bank to burn is the other.
KeepInv ==
  OnlyCuts =>
    /\ \A p \in Procs : step[p] # "idle" => stage = "up" /\ upg = "0"
    /\ \A p \in Procs : step[p] \in {"burn", "burning"} => new[p] = Other(boot)
    /\ stage = "flagUpg" => nboot = boot
    /\ stage = "booting" => running = boot
    /\ stage = "up" => bank[running] \in Good
    /\ stage = "up" /\ upg = "0" /\ ~InUpgradeWindow => boot = running

LEMMA KeepStep ==
  OneScript /\ TypeInv /\ KeepInv /\ GoodBankSurvives /\ [Next]_vars
    => KeepInv' /\ GoodBankSurvives'
<1> USE UpgradeAssumption
<1> SUFFICES ASSUME OneScript, TypeInv, KeepInv, GoodBankSurvives, [Next]_vars
             PROVE  KeepInv' /\ GoodBankSurvives'
  OBVIOUS
<1> USE DEF OnlyCuts, OneScript, TypeInv, TypeOK, KeepInv, GoodBankSurvives,
            InUpgradeWindow, Other, Banks, UpgFlags, Flags, flags, uboot, script
<1>1. CASE UBootDecide
  BY <1>1 DEF UBootDecide
<1>2. CASE UBootWriteBoot
  BY <1>2 DEF UBootWriteBoot
<1>3. CASE UBootWriteUpg
  BY <1>3 DEF UBootWriteUpg
<1>4. CASE StartUp
  BY <1>4 DEF StartUp
<1>5. CASE HungReset
  BY <1>5 DEF HungReset
<1>5a. CASE TurnOff
  BY <1>5a DEF TurnOff
<1>5b. CASE WriteBack
  BY <1>5b DEF WriteBack
<1>6. CASE MgmtdRestart
  BY <1>6 DEF MgmtdRestart
<1>7. CASE Reboot
  BY <1>7 DEF Reboot
<1>8. CASE PowerCut
  BY <1>8 DEF PowerCut
<1>9. ASSUME NEW p \in Procs, Script(p)
      PROVE  KeepInv' /\ GoodBankSurvives'
  <2>1. CASE UpgradeBegin(p)
    BY <2>1 DEF UpgradeBegin, Begin
  <2>2. CASE SwitchBegin(p)
    BY <2>2 DEF SwitchBegin, Begin
  <2>3. CASE ReadBoot(p)
    BY <2>3 DEF ReadBoot, Burns
  <2>4. CASE BurnBegin(p)
    BY <2>4 DEF BurnBegin
  <2>5. CASE BurnEnd(p)
    BY <2>5 DEF BurnEnd
  <2>6. CASE SetBoot(p)
    BY <2>6 DEF SetBoot
  <2>7. CASE SetUpg(p)
    BY <2>7 DEF SetUpg
  <2>8. CASE ErrorQuit(p)
    BY <2>8 DEF ErrorQuit
  <2> QED
    BY <1>9, <2>1, <2>2, <2>3, <2>4, <2>5, <2>6, <2>7, <2>8 DEF Script
<1>10. CASE UNCHANGED vars
  BY <1>10 DEF vars
<1> QED
  BY <1>1, <1>2, <1>3, <1>4, <1>5, <1>5a, <1>5b, <1>6, <1>7, <1>8,
     <1>9, <1>10 DEF Next

\* With one upgrade script at a time, no sequence of upgrades, switches,
\* failed trials, burning errors and power cuts leaves both banks broken.
THEOREM AGoodBankRemains ==
  ASSUME OneScript PROVE Spec => []GoodBankSurvives
<1>1. Init => KeepInv /\ GoodBankSurvives
  BY DEF Init, KeepInv, GoodBankSurvives, Banks
<1>2. TypeInv /\ KeepInv /\ GoodBankSurvives /\ [Next]_vars
        => KeepInv' /\ GoodBankSurvives'
  BY KeepStep
<1> QED
  BY <1>1, <1>2, TypeInvariant, PTL DEF Spec
-----------------------------------------------------------------------------
(***************************************************************************)
(* A failed trial is not repeated, even if flag writes fail, is_mgmtd is   *)
(* restarted while an upgrade is pending and the power is cut between the  *)
(* two writes of an upgrade; only a cut between u-boot's own two writes,   *)
(* two scripts or a package without software could bring the bank back.    *)
(***************************************************************************)
TrialGoesOn == mishaps \cap {"cutInUboot", "noSoftware"} = {}

\* The flags are about to change, or a cut may bring other ones back.
Unsettled ==
  \/ saved.boot # boot
  \/ saved.upg \in {"1", "2"} \/ upg \in {"1", "2"}
  \/ \E p \in Procs : step[p] = "setUpg"

\* The flags never stand for a bank that was given up: neither directly, nor
\* as the bank that u-boot would revert to - and where a cut may bring other
\* flags back, no bank is given up at all.
FailedInv ==
  TrialGoesOn =>
    /\ \A p \in Procs :
         /\ step[p] # "idle" => stage = "up" /\ upg = "0"
         /\ step[p] # "idle" /\ op[p] = "upgrade" => pkg[p] \in Images
         /\ step[p] \in {"burn", "burning", "setBoot"} => new[p] = Other(boot)
         /\ step[p] = "setUpg" => Other(boot) \notin failed
    /\ boot \in failed => upg = "2" /\ stage \in {"off", "flagBoot"}
    /\ upg \in {"1", "2"} /\ ~InUbootWindow => Other(boot) \notin failed
    /\ stage = "flagBoot" => /\ nboot = IF upg = "2" THEN Other(boot) ELSE boot
                             /\ nupg = IF upg = "1" THEN "2" ELSE "0"
    /\ stage = "flagUpg"  => /\ nboot = boot
                             /\ nupg = IF upg = "1" THEN "2" ELSE "0"
    /\ stage # "up" => saved = Flags
    /\ stage = "up" => boot \notin failed
    /\ stage = "up" /\ Unsettled => failed = {}
    /\ FailedTrialNotRetried

LEMMA FailedStep ==
  OneScript /\ TypeInv /\ FailedInv /\ [Next]_vars => FailedInv'
<1> USE UpgradeAssumption
<1> SUFFICES ASSUME OneScript, TypeInv, FailedInv, [Next]_vars
             PROVE  FailedInv'
  OBVIOUS
<1> USE DEF TrialGoesOn, OneScript, TypeInv, TypeOK, FailedInv, Unsettled,
            FailedTrialNotRetried, InUbootWindow, Other, Banks, UpgFlags, Flags, flags, uboot,
            script
<1>1. CASE UBootDecide
  BY <1>1 DEF UBootDecide
<1>2. CASE UBootWriteBoot
  BY <1>2 DEF UBootWriteBoot
<1>3. CASE UBootWriteUpg
  BY <1>3 DEF UBootWriteUpg
<1>4. CASE StartUp
  BY <1>4 DEF StartUp
<1>5. CASE HungReset
  BY <1>5 DEF HungReset
<1>5a. CASE TurnOff
  BY <1>5a DEF TurnOff
<1>5b. CASE WriteBack
  BY <1>5b DEF WriteBack
<1>6. CASE MgmtdRestart
  BY <1>6 DEF MgmtdRestart
<1>7. CASE Reboot
  BY <1>7 DEF Reboot
<1>8. CASE PowerCut
  BY <1>8 DEF PowerCut
<1>9. ASSUME NEW p \in Procs, Script(p) PROVE FailedInv'
  <2>1. CASE UpgradeBegin(p)
    BY <2>1 DEF UpgradeBegin, Begin
  <2>2. CASE SwitchBegin(p)
    BY <2>2 DEF SwitchBegin, Begin
  <2>3. CASE ReadBoot(p)
    BY <2>3 DEF ReadBoot, Burns
  <2>4. CASE BurnBegin(p)
    BY <2>4 DEF BurnBegin
  <2>5. CASE BurnEnd(p)
    BY <2>5 DEF BurnEnd
  <2>6. CASE SetBoot(p)
    <3> SUFFICES ASSUME TrialGoesOn' PROVE FailedInv'
      BY DEF FailedInv
    <3>1. TrialGoesOn
      BY <2>6 DEF SetBoot
    <3>2. stage = "up" /\ upg = "0" /\ boot' = Other(boot) /\ boot \notin failed
      BY <2>6, <3>1 DEF SetBoot
    <3>3. failed' = {}
      BY <2>6, <3>1, <3>2 DEF SetBoot
    <3> QED
      BY <2>6, <3>1, <3>2, <3>3 DEF SetBoot
  <2>7. CASE SetUpg(p)
    BY <2>7 DEF SetUpg
  <2>8. CASE ErrorQuit(p)
    BY <2>8 DEF ErrorQuit
  <2> QED
    BY <1>9, <2>1, <2>2, <2>3, <2>4, <2>5, <2>6, <2>7, <2>8 DEF Script
<1>10. CASE UNCHANGED vars
  BY <1>10 DEF vars
<1> QED
  BY <1>1, <1>2, <1>3, <1>4, <1>5, <1>5a, <1>5b, <1>6, <1>7, <1>8,
     <1>9, <1>10 DEF Next

\* A bank that failed its trial is not started again before something new is
\* installed or selected there.
THEOREM FailedBankIsLeft ==
  ASSUME OneScript PROVE Spec => []FailedTrialNotRetried
<1>1. Init => FailedInv
  BY DEF Init, FailedInv, FailedTrialNotRetried, Unsettled
<1>2. TypeInv /\ FailedInv /\ [Next]_vars => FailedInv'
  BY FailedStep
<1>3. FailedInv => FailedTrialNotRetried
  BY DEF FailedInv, FailedTrialNotRetried, TrialGoesOn
<1> QED
  BY <1>1, <1>2, <1>3, TypeInvariant, PTL DEF Spec
=============================================================================
