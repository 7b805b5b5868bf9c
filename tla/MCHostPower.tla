---------------------------- MODULE MCHostPower ----------------------------
(* HostPower with two users besides the fan control.                       *)
EXTENDS HostPower

CONSTANTS u1, u2

MCUsers == {u1, u2}
=============================================================================
