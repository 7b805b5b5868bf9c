---------------------------- MODULE BankUpgrade ----------------------------
(***************************************************************************)
(* The dual-bank software upgrade of uBMC.  Two flags in raw eMMC blocks   *)
(* are shared by is_upgrade.sh (upgrade, switch, confirm) and by the       *)
(* autoboot code of u-boot:                                                *)
(*   boot   which bank u-boot starts,                                      *)
(*   upg    "0" normal, "1" upgraded and to be tried, "2" being tried.     *)
(* u-boot writes a flag to the eMMC; is_upgrade.sh writes it with dd into  *)
(* the page cache, and the kernel writes it back later.  The power may be  *)
(* cut between any two steps.                                              *)
(***************************************************************************)
EXTENDS Naturals

CONSTANTS Images,    \* software images a package can carry
          Starts,    \* the images whose user space starts (S45is_mgmtd)
          Good,      \* those of them that bring is_mgmtd up
          Torn,      \* content of a bank whose burning was not finished
          Vendor,    \* a package with a vendor file and no software in it
          Packages,  \* the packages an operator may install
          Procs,     \* is_upgrade.sh processes that may run at a time
          Faults,    \* the hazardous environment steps that are allowed
          MaxCuts    \* bound: number of power cuts

FaultKinds == {"cutInUpgrade", "cutInUboot", "lostWrite", "flagError", "restart"}

ASSUME UpgradeAssumption ==
  /\ Starts \subseteq Images /\ Good \subseteq Starts
  /\ Torn \notin Images /\ Vendor \notin Images
  /\ Packages \subseteq Images \cup {Vendor}
  /\ Faults \subseteq FaultKinds
  /\ MaxCuts \in Nat

VARIABLES
  boot, upg,          \* the two flags, as they are read
  saved,              \* the two flags in the eMMC
  bank,               \* what each bank holds
  running,            \* the bank started by the last boot
  stage,              \* "off", "flagBoot", "flagUpg", "booting" or "up"
  nboot, nupg,        \* u-boot's flags[] before it writes them back
  step, op, pkg, new, \* each is_upgrade.sh: where it is, and its variables
  failed,             \* history: banks u-boot reverted from, not installed since
  mishaps,            \* history: which hazardous steps happened
  cuts                \* number of power cuts so far

flags == <<boot, upg, saved>>
uboot == <<running, nboot, nupg>>
script == <<step, op, pkg, new>>
vars == <<boot, upg, saved, bank, running, stage, nboot, nupg,
          step, op, pkg, new, failed, mishaps, cuts>>

Banks == {"0", "1"}
UpgFlags == {"0", "1", "2", "junk"}
Other(b) == IF b = "0" THEN "1" ELSE "0"
Flags == [boot |-> boot, upg |-> upg]
\* Beside the faults, an upgrade with a package that has no software in it.
Mishaps == FaultKinds \cup {"noSoftware"}
Stages == {"off", "flagBoot", "flagUpg", "booting", "up"}
Steps == {"idle", "readBoot", "burn", "burning", "setBoot", "setUpg"}

TypeOK ==
  /\ boot \in Banks /\ nboot \in Banks /\ running \in Banks
  /\ upg \in UpgFlags /\ nupg \in UpgFlags
  /\ saved \in [boot : Banks, upg : UpgFlags]
  /\ bank \in [Banks -> Images \cup {Torn}]
  /\ stage \in Stages
  /\ step \in [Procs -> Steps]
  /\ op \in [Procs -> {"upgrade", "switch"}]
  /\ pkg \in [Procs -> Images \cup {Vendor}]
  /\ new \in [Procs -> Banks]
  /\ failed \subseteq Banks /\ mishaps \subseteq Mishaps
  /\ cuts \in 0 .. MaxCuts

\* A device leaves the factory with a working bank selected; the other bank
\* and the upgrade flag may hold anything.
Init ==
  /\ boot \in Banks /\ upg \in {"0", "junk"}
  /\ saved = Flags
  /\ bank \in [Banks -> Images \cup {Torn}] /\ bank[boot] \in Good
  /\ stage = "off"
  /\ running = boot /\ nboot = boot /\ nupg = "0"
  /\ step = [p \in Procs |-> "idle"]
  /\ op = [p \in Procs |-> "upgrade"]
  /\ pkg = [p \in Procs |-> Vendor]
  /\ new = [p \in Procs |-> boot]
  /\ failed = {} /\ mishaps = {}
  /\ cuts = 0

-----------------------------------------------------------------------------
(* u-boot: silicom_autoboot_mmc                                            *)

\* Mutant: the revert of the boot flag is forgotten.
UBootDecideNoRevert ==
  /\ stage = "off"
  /\ stage' = "flagBoot"
  /\ nupg' = IF upg = "1" THEN "2" ELSE "0"
  /\ nboot' = boot
  /\ failed' = IF upg = "2" THEN failed \cup {boot} ELSE failed
  /\ UNCHANGED <<flags, bank, running, script, mishaps, cuts>>

\* Mutant: an upgraded system is booted without a trial.
UBootDecideNoTrial ==
  /\ stage = "off"
  /\ stage' = "flagBoot"
  /\ nupg' = "0"
  /\ nboot' = IF upg = "2" THEN Other(boot) ELSE boot
  /\ failed' = IF upg = "2" THEN failed \cup {boot} ELSE failed
  /\ UNCHANGED <<flags, bank, running, script, mishaps, cuts>>

\* Read both flags and decide: a second boot with flag "2" is a failed trial.
UBootDecide ==
  /\ stage = "off"
  /\ stage' = "flagBoot"
  /\ nupg' = IF upg = "1" THEN "2" ELSE "0"
  /\ nboot' = IF upg = "2" THEN Other(boot) ELSE boot
  /\ failed' = IF upg = "2" THEN failed \cup {boot} ELSE failed
  /\ UNCHANGED <<flags, bank, running, script, mishaps, cuts>>

UBootWriteBoot ==
  /\ stage = "flagBoot"
  /\ boot' = nboot /\ saved' = [saved EXCEPT !.boot = nboot]
  /\ stage' = "flagUpg"
  /\ UNCHANGED <<upg, bank, uboot, script, failed, mishaps, cuts>>

UBootWriteUpg ==
  /\ stage = "flagUpg"
  /\ upg' = nupg /\ saved' = [saved EXCEPT !.upg = nupg]
  /\ running' = nboot
  /\ stage' = "booting"
  /\ UNCHANGED <<boot, bank, nboot, nupg, script, failed, mishaps, cuts>>

-----------------------------------------------------------------------------
(* The booted system                                                       *)

\* A good image brings is_mgmtd up, whose boot action check-upgrade runs
\* is_upgrade.sh -C: whatever the upgrade flag is, it becomes "0".
StartUp ==
  /\ stage = "booting" /\ bank[running] \in Good
  /\ stage' = "up"
  /\ upg' = "0"
  /\ UNCHANGED <<boot, saved, bank, uboot, script, failed, mishaps, cuts>>

\* wait_mgmtd_up reboots a system that is_mgmtd does not come up in, after 300
\* seconds: one whose user space starts, as S45is_mgmtd is a part of it.
HungReset ==
  /\ stage = "booting" /\ bank[running] \in Starts \ Good
  /\ stage' = "off"
  /\ UNCHANGED <<flags, bank, uboot, script, failed, mishaps, cuts>>

\* Any other bank leaves the device at u-boot's prompt or in a kernel that has
\* stopped, until somebody turns it off and on.
TurnOff ==
  /\ stage = "booting" /\ bank[running] \notin Good
  /\ stage' = "off"
  /\ UNCHANGED <<flags, bank, uboot, script, failed, mishaps, cuts>>

\* S45is_mgmtd restart: the new is_mgmtd runs the boot action again.
MgmtdRestart ==
  /\ "restart" \in Faults /\ stage = "up"
  /\ upg' = "0" /\ mishaps' = mishaps \cup {"restart"}
  /\ UNCHANGED <<boot, saved, bank, stage, uboot, script, failed, cuts>>

\* The operator reboots a system on which no upgrade script is running: what is
\* in the page cache is written.
Reboot ==
  /\ stage = "up" /\ \A p \in Procs : step[p] = "idle"
  /\ stage' = "off" /\ saved' = Flags
  /\ UNCHANGED <<boot, upg, bank, uboot, script, failed, mishaps, cuts>>

\* The kernel writes a flag back.
WriteBack ==
  /\ stage = "up"
  /\ \E flag \in {"boot", "upg"} :
       /\ saved[flag] # Flags[flag]
       /\ saved' = [saved EXCEPT ![flag] = Flags[flag]]
  /\ UNCHANGED <<boot, upg, bank, stage, uboot, script, failed, mishaps, cuts>>

InUpgradeWindow == \E p \in Procs : step[p] = "setUpg"
InUbootWindow == stage = "flagUpg" /\ upg = "2"

Unsaved == saved # Flags

\* What is only in the page cache is lost.
PowerCut ==
  /\ stage # "off" /\ cuts < MaxCuts
  /\ InUpgradeWindow => "cutInUpgrade" \in Faults
  /\ InUbootWindow => "cutInUboot" \in Faults
  /\ Unsaved => "lostWrite" \in Faults
  /\ stage' = "off" /\ boot' = saved.boot /\ upg' = saved.upg
  /\ step' = [p \in Procs |-> "idle"]
  /\ mishaps' = mishaps \cup (IF InUpgradeWindow THEN {"cutInUpgrade"} ELSE {})
                        \cup (IF InUbootWindow THEN {"cutInUboot"} ELSE {})
                        \cup (IF Unsaved THEN {"lostWrite"} ELSE {})
  /\ cuts' = cuts + 1
  /\ UNCHANGED <<saved, bank, uboot, op, pkg, new, failed>>

-----------------------------------------------------------------------------
(* is_upgrade.sh -u and -w                                                 *)

\* Mutant: the upgrade flag is not checked.
BeginUnchecked(p, what, k) ==
  /\ stage = "up" /\ step[p] = "idle"
  /\ step' = [step EXCEPT ![p] = "readBoot"]
  /\ op' = [op EXCEPT ![p] = what]
  /\ pkg' = [pkg EXCEPT ![p] = k]
  /\ mishaps' = IF what = "upgrade" /\ k = Vendor THEN mishaps \cup {"noSoftware"}
                ELSE mishaps
  /\ UNCHANGED <<flags, bank, stage, uboot, new, failed, cuts>>

\* Start an upgrade or a switch: both refuse while the upgrade flag is not "0".
Begin(p, what, k) ==
  /\ stage = "up" /\ step[p] = "idle"
  /\ upg = "0"
  /\ step' = [step EXCEPT ![p] = "readBoot"]
  /\ op' = [op EXCEPT ![p] = what]
  /\ pkg' = [pkg EXCEPT ![p] = k]
  /\ mishaps' = IF what = "upgrade" /\ k = Vendor THEN mishaps \cup {"noSoftware"}
                ELSE mishaps
  /\ UNCHANGED <<flags, bank, stage, uboot, new, failed, cuts>>

UpgradeBegin(p) == \E k \in Packages : Begin(p, "upgrade", k)
SwitchBegin(p)  == Begin(p, "switch", Vendor)

Burns(p) == op[p] = "upgrade" /\ pkg[p] # Vendor

\* Choose the bank: the other one, or the same one for a package that has no
\* software in it.
ReadBoot(p) ==
  /\ step[p] = "readBoot"
  /\ new' = [new EXCEPT ![p] = IF op[p] = "upgrade" /\ pkg[p] = Vendor
                               THEN boot ELSE Other(boot)]
  /\ step' = [step EXCEPT ![p] = IF Burns(p) THEN "burn" ELSE "setBoot"]
  /\ UNCHANGED <<flags, bank, stage, uboot, op, pkg, failed, mishaps, cuts>>

BurnBegin(p) ==
  /\ step[p] = "burn"
  /\ bank' = [bank EXCEPT ![new[p]] = Torn]
  /\ step' = [step EXCEPT ![p] = "burning"]
  /\ UNCHANGED <<flags, stage, uboot, op, pkg, new, failed, mishaps, cuts>>

\* is_copy_file_and_sync ends with a sync, of all there is in the page cache.
BurnEnd(p) ==
  /\ step[p] = "burning"
  /\ bank' = [bank EXCEPT ![new[p]] = pkg[p]] /\ saved' = Flags
  /\ step' = [step EXCEPT ![p] = "setBoot"]
  /\ UNCHANGED <<boot, upg, stage, uboot, op, pkg, new, failed, mishaps, cuts>>

SetBoot(p) ==
  /\ step[p] = "setBoot"
  /\ boot' = new[p]
  /\ failed' = failed \ {new[p]}
  /\ step' = [step EXCEPT ![p] = "setUpg"]
  /\ UNCHANGED <<upg, saved, bank, stage, uboot, op, pkg, new, mishaps, cuts>>

SetUpg(p) ==
  /\ step[p] = "setUpg"
  /\ upg' = "1"
  /\ step' = [step EXCEPT ![p] = "idle"]
  /\ UNCHANGED <<boot, saved, bank, stage, uboot, op, pkg, new, failed, mishaps, cuts>>

\* error_quit when a mount, a copy or a flag write fails.
ErrorQuit(p) ==
  /\ \/ step[p] \in {"burning", "setBoot"} /\ UNCHANGED mishaps
     \/ /\ step[p] = "setUpg" /\ "flagError" \in Faults
        /\ mishaps' = mishaps \cup {"flagError"}
  /\ step' = [step EXCEPT ![p] = "idle"]
  /\ UNCHANGED <<flags, bank, stage, uboot, op, pkg, new, failed, cuts>>

Script(p) ==
  \/ UpgradeBegin(p) \/ SwitchBegin(p) \/ ReadBoot(p)
  \/ BurnBegin(p) \/ BurnEnd(p) \/ SetBoot(p) \/ SetUpg(p) \/ ErrorQuit(p)

Next ==
  \/ UBootDecide \/ UBootWriteBoot \/ UBootWriteUpg
  \/ StartUp \/ HungReset \/ TurnOff \/ MgmtdRestart \/ Reboot
  \/ WriteBack \/ PowerCut
  \/ \E p \in Procs : Script(p)

Spec == Init /\ [][Next]_vars

\* u-boot and the start-up of a good image go on as long as there is power,
\* and wait_mgmtd_up ends.  Nobody has to turn the device off.
Fairness ==
  /\ WF_vars(UBootDecide) /\ WF_vars(UBootWriteBoot) /\ WF_vars(UBootWriteUpg)
  /\ WF_vars(StartUp) /\ WF_vars(HungReset)

FairSpec == Spec /\ Fairness

-----------------------------------------------------------------------------
(* Properties                                                              *)

\* A boot that no trial protects (upgrade flag "0", so u-boot will start the
\* same bank again and again) only ever starts a bank with a working image.
SafeUncheckedBoot ==
  stage = "booting" /\ upg = "0" => bank[running] \in Good

\* When u-boot reverts ("uprade failed, we revert boot bank back to the other
\* bank"), the bank it reverts to is one the device can run from.
RevertsToWorkingBank ==
  stage = "flagBoot" /\ upg = "2" => bank[nboot] \in Good

\* An upgrade never overwrites the bank the system is running from.
RunningBankIntact ==
  \A p \in Procs : step[p] \in {"burn", "burning"} => new[p] # running

\* Whatever package is installed and wherever the power is cut, one of the two
\* banks holds a working image.
GoodBankSurvives ==
  mishaps \cap {"flagError", "restart"} = {} => \E b \in Banks : bank[b] \in Good

\* Once u-boot gave a bank up after a failed trial, it does not start that
\* bank again before something new is installed or selected there.  A cut between
\* u-boot's own two writes, or a package without software, may bring it back.
FailedTrialNotRetried ==
  stage = "booting" /\ mishaps \cap {"cutInUboot", "noSoftware"} = {} =>
    running \notin failed

\* The device comes up again after any upgrade, failed trial or power cut.  Only
\* the trial of a bank whose user space does not start has to be ended by hand,
\* and then the device comes up, too (wait_mgmtd_up, silicom_autoboot_mmc).
HungTrial == stage = "booting" /\ upg = "2" /\ bank[running] \notin Starts

Recovers ==
  /\ []<>(stage = "up" \/ HungTrial)
  /\ (stage = "off" /\ upg = "2") ~> (stage = "up")

\* The bank the flags stand for, outside and inside the two windows.
Committed ==
  IF \/ upg \in {"1", "2"} /\ ~InUbootWindow
     \/ upg \notin {"1", "2"} /\ InUpgradeWindow
  THEN Other(boot) ELSE boot

Phase ==
  IF upg = "1" THEN "armed" ELSE IF upg = "2" THEN "trial" ELSE "normal"

Trial == INSTANCE TrialBoot WITH committed <- Committed, phase <- Phase

\* The flag protocol implements a trial boot: the bank changes only by a
\* commit, and every rollback returns to the bank that was committed.
ImplementsTrialBoot == Trial!Spec
=============================================================================
