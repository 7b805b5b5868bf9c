---------------------------- MODULE MCConsoleMux ----------------------------
(* Instance of ConsoleMux for TLC.                                          *)
EXTENDS ConsoleMux
=============================================================================
