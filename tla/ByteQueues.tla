----------------------------- MODULE ByteQueues -----------------------------
(***************************************************************************)
(* What event2/buffer.h promises of a set of evbuffers: each is a queue of *)
(* bytes, bytes come in at either end, and leave, or move to another       *)
(* buffer, from the front; none is lost, doubled or passed by another.     *)
(***************************************************************************)
EXTENDS Integers, Sequences, SequencesExt

CONSTANT Buffers

VARIABLE content

Init == content = [b \in Buffers |-> << >>]

First(s, n) == SubSeq(s, 1, n)
Rest(s, n)  == SubSeq(s, n + 1, Len(s))
Held == UNION {ToSet(content[b]) : b \in Buffers}
\* The bytes of s were in no buffer.
New(s) == IsInjective(s) /\ ToSet(s) \cap Held = {}

Others(bs) == \A b \in Buffers \ bs : content'[b] = content[b]
Grown(b)   == Len(content'[b]) - Len(content[b])

Add(b) ==
    /\ Grown(b) > 0 /\ Others({b})
    /\ First(content'[b], Len(content[b])) = content[b]
    /\ New(Rest(content'[b], Len(content[b])))
Prepend(b) ==
    /\ Grown(b) > 0 /\ Others({b})
    /\ Rest(content'[b], Grown(b)) = content[b]
    /\ New(First(content'[b], Grown(b)))
Drain(b) ==
    /\ Grown(b) < 0 /\ Others({b})
    /\ content'[b] = Rest(content[b], 0 - Grown(b))
Move(a, b) ==
    /\ Grown(b) > 0 /\ Others({a, b})
    /\ content'[a] = Rest(content[a], Grown(b))
    /\ content'[b] = content[b] \o First(content[a], Grown(b))
MoveBefore(a, b) ==
    /\ Others({a, b})
    /\ content'[a] = << >> /\ content'[b] = content[a] \o content[b]

Next ==
    \E b \in Buffers :
        \/ Add(b) \/ Prepend(b) \/ Drain(b)
        \/ \E a \in Buffers \ {b} : Move(a, b) \/ MoveBefore(a, b)

Spec == Init /\ [][Next]_content
=============================================================================
