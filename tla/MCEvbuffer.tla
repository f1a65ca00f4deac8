----------------------------- MODULE MCEvbuffer -----------------------------
(* Instances of Evbuffer for TLC. *)
EXTENDS Evbuffer
OneToThree == 1..3
=============================================================================
