--------------------------- MODULE MCMgmtdServer ---------------------------
(* Instances of MgmtdServer for TLC.                                       *)
EXTENDS MgmtdServer

CloseAndGiveUp == {"close", "giveUp"}
NoGiveUp == {"close", "noNode", "slow"}
=============================================================================
