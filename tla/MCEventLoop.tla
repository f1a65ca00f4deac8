---------------------------- MODULE MCEventLoop -----------------------------
(* Instances of EventLoop for TLC: a persistent reader, and an event that    *)
(* reads and writes once, on one descriptor.                                 *)
EXTENDS EventLoop

FdOf(e)    == "f"
WantsOf(e) == IF e = "reader" THEN {"read"} ELSE {"read", "write"}
TwoEvents  == {"reader", "both"}
OneFd      == {"f"}
TheReader  == {"reader"}
LongerThanLag == {2}  \* a timeout longer than the cached time is old
=============================================================================
