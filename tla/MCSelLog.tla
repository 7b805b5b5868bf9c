------------------------------ MODULE MCSelLog ------------------------------
(* The main thread and the sensor thread.                                   *)
EXTENDS SelLog

CONSTANTS main, sensor
=============================================================================
