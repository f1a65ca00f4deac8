---------------------------- MODULE MCCwmpSession ----------------------------
(* Values of the constants of CwmpSession for TLC. *)
EXTENDS CwmpSession

TwoMethods   == {"GetParameterValues", "Reboot"}
MayHold      == BOOLEAN
MaybeHeader  == BOOLEAN
=============================================================================
