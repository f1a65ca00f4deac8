----------------------------- MODULE MCDnsCache -----------------------------
(* Values of the constants of DnsCache for TLC. *)
EXTENDS DnsCache

OneHost    == {"acs"}
OneNumeric == {"10.0.0.1"}
AllCodes   == {"ok", "notexist", "servfail", "refused"}
FirstChokes == {[s \in 1..N |-> "ok"],
                [s \in 1..N |-> IF s = 1 THEN "again" ELSE "ok"]}
=============================================================================
