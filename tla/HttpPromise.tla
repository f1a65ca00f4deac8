---------------------------- MODULE HttpPromise ----------------------------
(***************************************************************************)
(* What an outgoing evhttp_connection promises the code that queues        *)
(* requests on it: a request goes out at most once, one at a time and in   *)
(* the order they were queued, and ends in exactly one way - answered,     *)
(* failed, or dropped without a word when the connection is freed.         *)
(***************************************************************************)
EXTENDS Naturals, Sequences, SequencesExt

CONSTANT Requests

VARIABLES line,    \* the requests that are queued, the oldest first
          copies,  \* how often each was given to the network
          end      \* how each ended: "open" while it has not

vars == << line, copies, end >>

Init == /\ line = << >>
        /\ copies = [r \in Requests |-> 0]
        /\ end = [r \in Requests |-> "new"]

\* A request queued on an idle connection goes out at once.
Ask(r) == /\ end[r] = "new"
          /\ line' = Append(line, r)
          /\ end' = [end EXCEPT ![r] = "open"]
          /\ \/ UNCHANGED copies
             \/ line = << >> /\ copies' = [copies EXCEPT ![r] = 1]

\* A request that is refused is the caller's again.
Refuse(r) == /\ end[r] = "open" /\ copies[r] = 0
             /\ line' = RemoveFirst(line, r)
             /\ end' = [end EXCEPT ![r] = "refused"]
             /\ UNCHANGED copies

Send == /\ line # << >> /\ copies[Head(line)] = 0
        /\ copies' = [copies EXCEPT ![Head(line)] = 1]
        /\ UNCHANGED << line, end >>

\* The oldest request is answered, and the next may go out at once.
Answer == /\ line # << >> /\ copies[Head(line)] = 1
          /\ line' = Tail(line)
          /\ end' = [end EXCEPT ![Head(line)] = "answered"]
          /\ \/ UNCHANGED copies
             \/ line' # << >> /\ copies' = [copies EXCEPT ![Head(line')] = 1]

\* Only the oldest fails, or, before anything was sent, all of them.
FailOldest == /\ line # << >>
              /\ line' = Tail(line)
              /\ end' = [end EXCEPT ![Head(line)] = "failed"]
              /\ UNCHANGED copies
EndAll(how) ==
    /\ line' = << >>
    /\ end' = [r \in Requests |-> IF r \in ToSet(line) THEN how ELSE end[r]]
    /\ UNCHANGED copies
FailAll == /\ line # << >> /\ copies[Head(line)] = 0
           /\ EndAll("failed")

Drop == EndAll("dropped")

Next == \/ \E r \in Requests : Ask(r) \/ Refuse(r)
        \/ Send \/ Answer \/ FailOldest \/ FailAll \/ Drop

Spec == Init /\ [][Next]_vars
=============================================================================
