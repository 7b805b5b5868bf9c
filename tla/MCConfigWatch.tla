--------------------------- MODULE MCConfigWatch ---------------------------
(* Instances of ConfigWatch for TLC: the console manager and dying gasp.   *)
EXTENDS ConfigWatch

CONSTANTS console, gasp, bmc, snmp, w1, w2

TheWatches == [c \in Clients |-> IF c = console THEN bmc ELSE snmp]
OneAtATime == {{c} : c \in Clients}
=============================================================================
