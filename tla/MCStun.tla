------------------------------- MODULE MCStun -------------------------------
(* Values of the constants of Stun for TLC. *)
EXTENDS Stun

OneFd     == {3}
TwoIPs    == {1, 2}
OnePort   == {7}
TwoStamps == {1, 2}
=============================================================================
