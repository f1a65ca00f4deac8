---------------------------- MODULE CwmpExchange ----------------------------
(***************************************************************************)
(* What one CWMP session promises to the rest of the agent, without the    *)
(* HTTP authentication, the HoldRequests flag, the retry counter and the   *)
(* four message queues of session.c: a half-duplex exchange in which the   *)
(* agent always has exactly one POST on the wire, answers a call of the    *)
(* ACS with the very next POST, and has its own requests settled by the    *)
(* ACS oldest first.  CwmpSession implements this module.                  *)
(***************************************************************************)
EXTENDS Sequences

CONSTANT AcsMethods      \* the RPC methods the ACS may call

VARIABLES
    stage,       \* "idle", "open", or how the session ended
    wire,        \* the POST the ACS has not yet replied to
    awaiting,    \* the agent's requests the ACS has not settled, oldest first
    flag         \* a finished transfer is still to be reported

vars == <<stage, wire, awaiting, flag>>

Request(m) == [kind |-> "request", method |-> m]
Answer(m)  == [kind |-> "answer", method |-> m]
EmptyPost  == [kind |-> "empty", method |-> "none"]
NoPost     == [kind |-> "none", method |-> "none"]

Inform   == "Inform"
Transfer == "TransferComplete"

Posted == stage = "open" /\ wire # NoPost

Init ==
    /\ stage = "idle"
    /\ wire = NoPost
    /\ awaiting = << >>
    /\ flag \in BOOLEAN

\* The session opens on an Inform, or hangs because the Inform was not posted.
Open ==
    /\ stage = "idle"
    /\ stage' = "open"
    /\ \/ wire' = Request(Inform) /\ awaiting' = <<Inform>>
       \/ wire' = NoPost /\ awaiting' \in {<< >>, <<Inform>>}
    /\ UNCHANGED flag

\* The ACS calls a method and the next POST is the answer to that call.
Call(m) ==
    /\ Posted
    /\ wire' = Answer(m)
    /\ UNCHANGED <<stage, awaiting, flag>>

\* The agent has nothing to say, or reports its finished transfer.
Speak(rest) ==
    \/ /\ wire' = EmptyPost
       /\ awaiting' = rest
       /\ UNCHANGED <<stage, flag>>
    \/ /\ flag
       /\ flag' = FALSE
       /\ wire' = Request(Transfer)
       /\ awaiting' = Append(rest, Transfer)
       /\ UNCHANGED stage

\* The ACS settles the oldest request, with a response or a fault.
Settle ==
    /\ Posted
    /\ awaiting # << >>
    /\ Speak(Tail(awaiting))

\* The ACS says nothing while it holds the agent's requests.
Held ==
    /\ Posted
    /\ wire' = EmptyPost
    /\ UNCHANGED <<stage, awaiting, flag>>

\* The ACS asks for credentials: the Inform is posted again, a fresh one when
\* the oldest request is not an Inform, and the session hangs if that fails.
Challenge ==
    /\ Posted
    /\ awaiting # << >>
    /\ UNCHANGED <<stage, flag>>
    /\ \/ /\ Head(awaiting) = Inform
          /\ wire' = Request(Inform)
          /\ UNCHANGED awaiting
       \/ /\ Head(awaiting) # Inform
          /\ wire' = Request(Inform)
          /\ awaiting' = Append(awaiting, Inform)
       \/ /\ Head(awaiting) # Inform
          /\ wire' = NoPost
          /\ UNCHANGED awaiting

\* The session is over.  Only a failed one may forget a transfer.
End(how) ==
    /\ Posted
    /\ stage' = how
    /\ wire' = NoPost
    /\ awaiting' = << >>
    /\ flag' \in IF how = "fail" THEN {flag, FALSE} ELSE {flag}

Next ==
    \/ Open
    \/ \E m \in AcsMethods : Call(m)
    \/ Settle
    \/ Held
    \/ Challenge
    \/ \E how \in {"ok", "fail", "crash"} : End(how)

Spec == Init /\ [][Next]_vars
=============================================================================
