------------------------------ MODULE Evbuffer ------------------------------
(***************************************************************************)
(* The buffers under every socket of the agent (skevent/buffer.c): a list  *)
(* of chains, each a block of memory with its data somewhere in it, and a  *)
(* pointer to the last chain that has data, last_with_datap.               *)
(*                                                                         *)
(* A buffer is a record: its chains in order; lwd, the position of the     *)
(* chain that *last_with_datap is (1 also when there is none); total_len;  *)
(* which ends are frozen; and whether an assertion failed.  An operation   *)
(* is one action: with the lock of the buffer held, nothing else runs.     *)
(* Bytes are distinct numbers, so that order and loss show.                *)
(*                                                                         *)
(* Abstracted: the header inside an allocation, so that a chain's size is  *)
(* a power of two times MinSize; failures to allocate.  Not used by the    *)
(* agent, and left out: pinned chains (overlapped I/O), files (sendfile,   *)
(* mmap), evbuffer_reserve_space, evbuffer_expand as a call of its own.    *)
(* The callbacks of a buffer change nothing in it and are left out, with   *)
(* the counters that are for them.                                         *)
(***************************************************************************)
EXTENDS Integers, Sequences, FiniteSets, SequencesExt

CONSTANTS
    Buffers,
    MaxBytes,    \* bytes ever put into buffers
    MaxChains,   \* chains of a buffer
    MinSize,     \* MIN_BUFFER_SIZE
    AutoSize,    \* EVBUFFER_CHAIN_MAX_AUTO_SIZE
    CopyMax,     \* MAX_TO_COPY_IN_EXPAND
    RealignMax,  \* MAX_TO_REALIGN_IN_EXPAND
    PrintRoom,   \* what evbuffer_add_vprintf asks for first: 64
    Vecs,        \* NUM_READ_IOVEC
    Inputs,      \* the buffers read into; their end may be frozen
    Outputs,     \* the buffers written out; their start may be frozen
    Wants,       \* how many bytes an operation is asked for
    Spares       \* whether data is also added behind a chain left empty

ASSUME EvbufferAssumption ==
    /\ {MaxBytes, AutoSize, CopyMax, RealignMax, PrintRoom} \subseteq Nat
    /\ {MinSize, MaxChains} \subseteq Nat \ {0} /\ Vecs \in Nat \ {0, 1}
    /\ Wants \subseteq Nat \ {0} /\ Spares \in BOOLEAN

VARIABLES buf,  \* the buffers
          used  \* how many bytes were put into them

vars == << buf, used >>

\* What is allocated for n bytes: the least size, doubled until they fit in;
\* n times are enough.
NewSize(n) ==
    LET to_alloc[i \in 0..n] ==
            IF i = 0 THEN MinSize
            ELSE IF to_alloc[i - 1] < n THEN 2 * to_alloc[i - 1]
            ELSE to_alloc[i - 1]
    IN  to_alloc[n]
\* evbuffer_chain_new, and a chain of evbuffer_add_reference (fixed).
NewChain(n) == [size |-> NewSize(n), mis |-> 0, data |-> << >>, fixed |-> FALSE]
Holding(s)  == [NewChain(Len(s)) EXCEPT !.data = s]
Reference(s) == [size |-> Len(s), mis |-> 0, data |-> s, fixed |-> TRUE]

Off(c) == Len(c.data)
\* CHAIN_SPACE_LEN
Space(c) == IF c.fixed THEN 0 ELSE c.size - c.mis - Off(c)
Realigns(c, n) ==
    c.size - Off(c) >= n /\ Off(c) < c.size \div 2 /\ Off(c) <= RealignMax

Empty == [chains |-> << >>, lwd |-> 1, total |-> 0, frozen |-> {},
          bad |-> FALSE]

Contents(cs) == FlattenSeq([i \in DOMAIN cs |-> cs[i].data])
\* The sum of the numbers i to k of a list.
SumOf(ns, i, k) ==
    LET sum[j \in 0..Len(ns)] == IF j < i THEN 0 ELSE sum[j - 1] + ns[j]
    IN  sum[k]
Upto(cs, k) == SubSeq(cs, 1, k)
Beyond(cs, k) == SubSeq(cs, k + 1, Len(cs))
AllEmpty(cs) == \A i \in DOMAIN cs : cs[i].data = << >>
\* No chain is empty behind the data; none is in front of its end.
Tight(h)     == h.lwd >= Len(h.chains)
Gapless(h)   == \A i \in 1..h.lwd - 1 : h.chains[i].data # << >>
\* How many chains at the front hold n bytes or less between them.
Whole(cs, n) == CHOOSE k \in 0..Len(cs) :
    /\ Len(Contents(Upto(cs, k))) <= n
    /\ k < Len(cs) => Len(Contents(Upto(cs, k + 1))) > n
\* Mutant of Cut: the chain that is used in part goes as a whole.
CutWhole(cs, n) == Beyond(cs, Whole(cs, n) + 1)

\* The chains without their first n bytes: what is left of one is moved over.
Cut(cs, n) ==
    LET k == Whole(cs, n)
        over == n - Len(Contents(Upto(cs, k)))
    IN  IF k = Len(cs) THEN << >>
        ELSE [Beyond(cs, k) EXCEPT ![1].mis = @ + over,
                                   ![1].data = SubSeq(@, over + 1, Len(@))]

Init == /\ buf = [b \in Buffers |-> Empty]
        /\ used = 0

-----------------------------------------------------------------------------
\* advance_last_with_data.
Advance(h) ==
    LET Reaches(k) == \A i \in h.lwd + 1..k : h.chains[i].data # << >>
    IN  IF h.lwd > Len(h.chains) THEN h
        ELSE [h EXCEPT !.lwd =
                CHOOSE k \in h.lwd..Len(h.chains) :
                    Reaches(k) /\ (k < Len(h.chains) => ~Reaches(k + 1))]

\* evbuffer_chain_insert: chains without data are replaced; there must be no
\* data behind them.
Insert(h, c) ==
    LET grown == [h EXCEPT !.total = @ + Off(c)]
        victims == {i \in h.lwd..Len(h.chains) : h.chains[i].data = << >>}
        v == CHOOSE i \in victims : \A j \in victims : i <= j
    IN  IF h.chains = << >> THEN [grown EXCEPT !.chains = << c >>]
        ELSE IF victims = {}
        THEN [grown EXCEPT !.chains = Append(@, c),
                           !.lwd = IF c.data = << >> THEN @
                                   ELSE Len(h.chains) + 1]
        ELSE [grown EXCEPT !.chains = Append(Upto(@, v - 1), c),
                           !.bad = @ \/ ~AllEmpty(Beyond(h.chains, v - 1))]

\* evbuffer_add: into the last chain, and what does not fit into a new one.
Put(h, s) ==
    LET g == IF h.chains = << >> THEN Insert(h, NewChain(Len(s))) ELSE h
        k == Len(g.chains)
        c == g.chains[k]
        n == Len(s)
        room == Space(c)
        double == IF c.size <= AutoSize \div 2 THEN 2 * c.size ELSE c.size
        filled == [g EXCEPT !.chains[k].data = @ \o SubSeq(s, 1, room),
                            !.total = @ + room]
    IN  IF ~c.fixed /\ room >= n
        THEN [g EXCEPT !.chains[k].data = @ \o s, !.total = @ + n]
        ELSE IF ~c.fixed /\ Realigns(c, n)
        THEN [g EXCEPT !.chains[k].data = @ \o s, !.chains[k].mis = 0,
                       !.total = @ + n]
        ELSE Insert(filled, [NewChain(IF n > double THEN n ELSE double) EXCEPT
                               !.data = SubSeq(s, room + 1, n)])

\* evbuffer_prepend: into the space before the data of the first chain, and
\* what does not fit into a new one.
PutFirst(h, s) ==
    LET g == IF h.chains = << >> THEN Insert(h, NewChain(Len(s))) ELSE h
        c == g.chains[1]
        n == Len(s)
        gap == IF c.fixed THEN 0 ELSE IF c.data = << >> THEN c.size ELSE c.mis
        fit == IF gap >= n THEN n ELSE gap
        into == IF c.fixed THEN c
                ELSE [c EXCEPT !.mis = gap - fit,
                               !.data = SubSeq(s, n - fit + 1, n) \o @]
        left == SubSeq(s, 1, n - fit)
        front == [Holding(left) EXCEPT !.mis = NewSize(Len(left)) - Len(left)]
        put == [g EXCEPT !.chains[1] = into, !.total = @ + n]
    IN  IF fit = n THEN put
        ELSE [put EXCEPT !.chains = << front >> \o @, !.lwd = @ + 1]

\* Mutant of Drop: the pointer is left at its place in the list.
DropUnmoved(h, n) ==
    IF n >= h.total THEN [h EXCEPT !.chains = << >>, !.lwd = 1, !.total = 0]
    ELSE [h EXCEPT !.chains = Cut(@, n), !.total = @ - n]

\* evbuffer_drain.
Drop(h, n) ==
    LET k == Whole(h.chains, n)
    IN  IF n >= h.total THEN [h EXCEPT !.chains = << >>, !.lwd = 1, !.total = 0]
        ELSE [h EXCEPT !.chains = Cut(@, n), !.total = @ - n,
                       !.lwd = IF @ <= k + 1 THEN 1 ELSE @ - k]

\* evbuffer_pullup: the first n bytes come to be in one chain.
PullUp(h, n) ==
    LET c == h.chains[1]
        inplace == c.size - c.mis >= n
        \* The chains the bytes come from, and how many of them go.
        from == IF inplace THEN 2 ELSE 1
        need == IF inplace THEN n - Off(c) ELSE n
        gone == Whole(Beyond(h.chains, from - 1), need)
        one == [(IF inplace THEN c ELSE NewChain(n)) EXCEPT
                  !.data = SubSeq(Contents(h.chains), 1, n)]
        chains == << one >> \o Cut(Beyond(h.chains, from - 1), need)
        second == Len(chains) > 1 /\ chains[2].data # << >>
    IN  IF n > h.total \/ Off(c) >= n THEN h
        ELSE [h EXCEPT !.chains = chains,
                !.lwd = IF @ \in from..from + gone - 1 THEN 1
                        ELSE IF gone > 0 /\ @ = from + gone
                        THEN IF second THEN 2 ELSE 1
                        ELSE @ - gone + 2 - from]

\* evbuffer_expand_singlechain: room for n bytes in one chain, and which.
Expand(h, n) ==
    LET p == IF h.lwd <= Len(h.chains) /\ Space(h.chains[h.lwd]) = 0
             THEN h.lwd + 1 ELSE h.lwd
        c == h.chains[p]
        new == LET g == Insert(h, NewChain(n)) IN [h |-> g, at |-> Len(g.chains)]
        resized == [NewChain(Off(c) + n) EXCEPT !.data = c.data]
    IN  IF p > Len(h.chains) THEN new
        ELSE IF c.fixed THEN new
        ELSE IF Space(c) >= n THEN [h |-> h, at |-> p]
        ELSE IF c.data = << >> THEN new
        ELSE IF Realigns(c, n)
        THEN [h |-> [h EXCEPT !.chains[p].mis = 0], at |-> p]
        ELSE IF Space(c) < c.size \div 8 \/ Off(c) > CopyMax
        THEN IF p < Len(h.chains) /\ Space(h.chains[p + 1]) >= n
             THEN [h |-> h, at |-> p + 1] ELSE new
        ELSE [h |-> [h EXCEPT !.chains[p] = resized], at |-> p]

\* evbuffer_add_vprintf.
Format(h, s) ==
    LET first == Expand(h, PrintRoom)
        e == IF Space(first.h.chains[first.at]) > Len(s) THEN first
             ELSE Expand(first.h, Len(s) + 1)
    IN  Advance([e.h EXCEPT !.chains[e.at].data = @ \o s, !.total = @ + Len(s)])

\* _evbuffer_expand_fast: room for n bytes in the last Vecs chains.
ExpandFast(h, n) ==
    LET cs == h.chains
        last == Len(cs)
        RoomOf == [i \in DOMAIN cs |->
                     IF cs[i].data = << >> THEN cs[i].size ELSE Space(cs[i])]
        Room(k) == SumOf(RoomOf, h.lwd, k)
        InUse(k) == Cardinality({i \in h.lwd..k :
                                   cs[i].data = << >> \/ Space(cs[i]) > 0})
        stops == {k \in h.lwd..last : Room(k) >= n \/ InUse(k) = Vecs}
        stop == IF stops = {} THEN last
                ELSE CHOOSE k \in stops : \A j \in stops : k <= j
        aligned ==
            [h EXCEPT !.chains = [i \in DOMAIN cs |->
                        IF i \in h.lwd..stop /\ cs[i].data = << >>
                        THEN [cs[i] EXCEPT !.mis = 0] ELSE cs[i]],
                      !.bad = @ \/ \E i \in h.lwd + 1..stop : cs[i].data # << >>]
        kept == IF cs[h.lwd].data = << >> THEN 0 ELSE h.lwd
        avail == IF kept = 0 THEN 0 ELSE Space(cs[h.lwd])
    IN  IF cs = << >> THEN Insert(h, NewChain(n))
        ELSE IF cs[last].fixed THEN Insert(h, NewChain(n))
        ELSE IF Room(stop) >= n THEN aligned
        ELSE IF InUse(stop) < Vecs
        THEN [aligned EXCEPT !.chains = Append(@, NewChain(n - Room(stop)))]
        ELSE [aligned EXCEPT
                !.chains = Append(Upto(@, kept), NewChain(n - avail)),
                !.bad = @ \/ ~AllEmpty(Beyond(cs, kept))]

\* _evbuffer_read_setup_vecs and the rest of evbuffer_read: what readv got
\* is in the chains from the first with space on.
Fill(h, s) ==
    LET first == IF Space(h.chains[h.lwd]) = 0 THEN h.lwd + 1 ELSE h.lwd
        To(i) == SumOf([j \in DOMAIN h.chains |-> Space(h.chains[j])], first, i)
        Before(i) == To(i - 1)
        Part(i) == SubSeq(s, Before(i) + 1, IF To(i) < Len(s) THEN To(i) ELSE Len(s))
    IN  [h EXCEPT !.total = @ + Len(s),
                  !.lwd = CHOOSE i \in first..Len(h.chains) :
                            To(i) >= Len(s) /\ Before(i) < Len(s),
                  !.chains = [i \in DOMAIN h.chains |->
                     IF i < first THEN h.chains[i]
                     ELSE [h.chains[i] EXCEPT !.data = @ \o Part(i)]]]

\* APPEND_CHAIN and COPY_CHAIN (evbuffer_add_buffer): the whole of g goes
\* behind h.
Append2(h, g) ==
    IF h.total = 0
    THEN [h EXCEPT !.chains = g.chains, !.lwd = g.lwd, !.total = g.total]
    ELSE [h EXCEPT !.chains = @ \o g.chains, !.lwd = Len(h.chains) + g.lwd,
                   !.total = @ + g.total]
\* PREPEND_CHAIN and COPY_CHAIN (evbuffer_prepend_buffer).
Prepend2(h, g) ==
    IF h.total = 0
    THEN [h EXCEPT !.chains = g.chains, !.lwd = g.lwd, !.total = g.total]
    ELSE [h EXCEPT !.chains = g.chains \o @, !.lwd = Len(g.chains) + @,
                   !.total = @ + g.total]
\* ZERO_CHAIN
Zero(h) == [h EXCEPT !.chains = << >>, !.lwd = 1, !.total = 0]

\* evbuffer_remove_buffer: whole chains are moved, then the bytes that are
\* left are copied.
MovedTo(h, g, n) ==
    LET k == Whole(g.chains, n)
        copied == SubSeq(Contents(Beyond(g.chains, k)), 1,
                         n - Len(Contents(Upto(g.chains, k))))
        some == Len(Contents(Upto(g.chains, k)))
        moved == IF some = 0 THEN h
                 ELSE Advance([h EXCEPT !.chains = @ \o Upto(g.chains, k),
                                        !.total = @ + some])
    IN  IF n >= g.total THEN Append2(h, g) ELSE Put(moved, copied)
MovedFrom(g, n) == IF n >= g.total THEN Zero(g) ELSE Drop(g, n)

-----------------------------------------------------------------------------
New(n) == [i \in 1..n |-> used + i]

Change(b, h) == buf' = [buf EXCEPT ![b] = h]
Within(b)    == Len(buf'[b].chains) <= MaxChains
Sound        == \A b \in Buffers : ~buf[b].bad

\* An operation that puts n new bytes into b, at the end or at the front: what
\* becomes of it is h.
Entering(b, n, h, end) ==
    /\ Sound /\ used + n <= MaxBytes
    /\ end \notin buf[b].frozen
    /\ Change(b, h) /\ Within(b)
    /\ used' = used + n

Add(b, n)    == /\ Spares \/ Tight(buf[b])
                /\ Entering(b, n, Put(buf[b], New(n)), "end")
Printf(b, n) == Entering(b, n, Format(buf[b], New(n)), "end")
AddReference(b, n) ==
    /\ Spares \/ Tight(buf[b])
    /\ Entering(b, n, Insert(buf[b], Reference(New(n))), "end")
Prepend(b, n) == Entering(b, n, PutFirst(buf[b], New(n)), "start")

\* evbuffer_read: n bytes are wanted and got of them arrive; at the end of
\* the stream none do, and the room stays.
Read(b, n, got) ==
    LET room == ExpandFast(buf[b], n)
    IN  Entering(b, got, IF got = 0 THEN room ELSE Fill(room, New(got)), "end")

Drain(b, n) ==
    /\ Sound /\ buf[b].total > 0 /\ "start" \notin buf[b].frozen
    /\ Change(b, Drop(buf[b], n)) /\ UNCHANGED used

\* evbuffer_write_atmost: n bytes at most are written, got of them.
Write(b, n, got) == got <= n /\ got <= buf[b].total /\ Drain(b, got)

Pullup(b, n) ==
    /\ Sound /\ n <= buf[b].total
    /\ Change(b, PullUp(buf[b], n)) /\ UNCHANGED used

Between(a, b, ends) ==
    /\ Sound /\ a # b /\ buf[a].total > 0
    /\ "start" \notin buf[a].frozen /\ ends \notin buf[b].frozen
    /\ UNCHANGED used

AddBuffer(a, b) ==
    /\ Between(a, b, "end")
    /\ buf' = [buf EXCEPT ![b] = Append2(@, buf[a]), ![a] = Zero(@)]
    /\ Within(b)

PrependBuffer(a, b) ==
    /\ Between(a, b, "start")
    /\ buf' = [buf EXCEPT ![b] = Prepend2(@, buf[a]), ![a] = Zero(@)]
    /\ Within(b)

RemoveBuffer(a, b, n) ==
    /\ Between(a, b, "end")
    /\ Spares \/ (Tight(buf[b]) /\ Gapless(buf[a]))
    /\ buf' = [buf EXCEPT ![b] = MovedTo(@, buf[a], n), ![a] = MovedFrom(@, n)]
    /\ Within(b)

\* evbuffer_freeze and evbuffer_unfreeze.
Freeze(b, end) ==
    /\ Sound /\ Change(b, [buf[b] EXCEPT !.frozen = @ \cup {end}])
    /\ UNCHANGED used
Unfreeze(b, end) ==
    /\ Sound /\ Change(b, [buf[b] EXCEPT !.frozen = @ \ {end}])
    /\ UNCHANGED used

Next ==
    \E b \in Buffers :
        \/ \E n \in Wants :
            \/ Add(b, n) \/ Printf(b, n) \/ AddReference(b, n) \/ Prepend(b, n)
            \/ Drain(b, n) \/ Pullup(b, n)
            \/ b \in Inputs /\ \E got \in 0..n : Read(b, n, got)
            \/ b \in Outputs /\ \E got \in 1..n : Write(b, n, got)
            \/ \E a \in Buffers : RemoveBuffer(a, b, n)
        \/ \E a \in Buffers : AddBuffer(a, b) \/ PrependBuffer(a, b)
        \/ b \in Inputs /\ (Freeze(b, "end") \/ Unfreeze(b, "end"))
        \/ b \in Outputs /\ (Freeze(b, "start") \/ Unfreeze(b, "start"))

Spec == Init /\ [][Next]_vars

-----------------------------------------------------------------------------
\* The counter of a buffer is the bytes in its chains, and the data of a
\* chain lies within it.
TypeOK ==
    /\ used \in 0..MaxBytes
    /\ \A b \in Buffers :
          /\ buf[b].total = Len(Contents(buf[b].chains))
          /\ buf[b].lwd \in 1..MaxChains
          /\ \A i \in DOMAIN buf[b].chains :
                LET c == buf[b].chains[i]
                IN  c.mis >= 0 /\ c.mis + Off(c) <= c.size

\* "The last_with_data chain is the last chain that has any data in it.  If
\* all chains in the buffer are empty, it is the first chain"
\* (evbuffer-internal.h); every place that puts data relies on it, and asserts
\* that it frees no data.
LastWithData == \A b \in Buffers :
    LET h == buf[b]
    IN  /\ ~h.bad
        /\ IF AllEmpty(h.chains) THEN h.lwd = 1
           ELSE /\ h.lwd <= Len(h.chains) /\ h.chains[h.lwd].data # << >>
                /\ AllEmpty(Beyond(h.chains, h.lwd))

\* The counters, the place of the data in the chains, and the pointer agree.
WellFormed == TypeOK /\ LastWithData

\* Whatever the chains, the buffers are queues of bytes.
Queues == INSTANCE ByteQueues WITH
    content <- [b \in Buffers |-> Contents(buf[b].chains)]
KeepsBytes == Queues!Spec
=============================================================================
