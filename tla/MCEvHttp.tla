------------------------------ MODULE MCEvHttp ------------------------------
(* Instances of EvHttp for TLC. *)
EXTENDS EvHttp
AllFramings == {"nobody", "length", "chunked", "close", "bad"}
AllAttempts == {"pending", "unreachable", "nosocket"}
=============================================================================
