--------------------------- MODULE MCBankUpgrade ---------------------------
(* Instances of BankUpgrade for TLC: three images, one of which works and  *)
(* one of which does not even start.                                       *)
EXTENDS BankUpgrade

CONSTANTS v1, vbad, vdead

MCImages == {v1, vbad, vdead}
MCStarts == {v1, vbad}
MCGood == {v1}
SoftwareOnly == MCImages
AnyPackage == MCImages \cup {Vendor}
NoFaults == {}
AllFaults == FaultKinds
=============================================================================
