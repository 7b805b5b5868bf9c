SPECIFICATION FairSpec
CONSTANTS
  v1 = v1
  vbad = vbad
  vdead = vdead
  Torn = Torn
  Vendor = Vendor
  Images <- MCImages
  Starts <- MCStarts
  Good <- MCGood
  Packages <- SoftwareOnly
  Faults <- NoFaults
  Procs = {p1}
  MaxCuts = 2

INVARIANT SafeUncheckedBoot
INVARIANT RevertsToWorkingBank
PROPERTY ImplementsTrialBoot
PROPERTY Recovers
