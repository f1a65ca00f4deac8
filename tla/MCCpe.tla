-------------------------------- MODULE MCCpe --------------------------------
(* Values of the constants of Cpe for TLC. *)
EXTENDS Cpe

AllCalls    == AcsMessages \ {"TRACEROUTE"}
Traceroutes == {"TRACEROUTE"}
Requests    == {"CONNECTION_REQUEST"}
Wakers      == {"CONNECTION_REQUEST", "AWAKEN", "BANDWIDTH_DIAGNOSTICS"}
Working     == {"PING", "STUN_ONCMD", "TRACEROUTE"}
Tidings     == {"CONNECTION_REQUEST", "AWAKEN", "VALUE_CHANGE", "SHUTDOWN"}
Always      == {TRUE}
Never       == {FALSE}
Either      == BOOLEAN
OnlyOpen    == {"open"}
AnyOpen     == {"open", "failed", "mute"}
OkOrFail    == {"ok", "fail"}
=============================================================================
