SPECIFICATION Spec
CONSTANTS
  v1 = v1
  vbad = vbad
  vdead = vdead
  Torn = Torn
  Vendor = Vendor
  Images <- MCImages
  Starts <- MCStarts
  Good <- MCGood
  Packages <- AnyPackage
  Faults <- AllFaults
  Procs = {p1}
  MaxCuts = 3

INVARIANTS
  GoodBankSurvives
  FailedTrialNotRetried
