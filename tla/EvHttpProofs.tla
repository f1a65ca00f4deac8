---------------------------- MODULE EvHttpProofs ----------------------------
(***************************************************************************)
(* The connection for any requests: no assertion of http.c fails, a request *)
(* gets its own reply, the connection waits for the right event, and it     *)
(* keeps the promise of HttpPromise.                                        *)
(***************************************************************************)
EXTENDS EvHttp, TLAPS, FiniteSetTheorems, SequenceTheorems,
        WellFoundedInduction

-----------------------------------------------------------------------------
(***************************************************************************)
(* Queues, as sequences whose elements are all different.                  *)
(***************************************************************************)

\* A set of numbers that is not empty has a least element.
LEMMA LeastExists ==
    ASSUME NEW S \in SUBSET Nat, S # {}
    PROVE  Min(S) \in S /\ \A y \in S : Min(S) <= y
  <1>1. PICK x \in S : \A y \in S : ~(<<y, x>> \in OpToRel(<, Nat))
    BY NatLessThanWellFounded, WFMin
  <1>2. ASSUME NEW y \in S, y < x
        PROVE  FALSE
    <2>1. <<y, x>> \in Nat \X Nat /\ <<y, x>>[1] < <<y, x>>[2]
      BY <1>2
    <2>2. <<y, x>> \in OpToRel(<, Nat)
      BY <2>1, Zenon DEF OpToRel
    <2> QED BY <1>1, <2>2
  <1>3. \A y \in S : x <= y
    BY <1>2
  <1> QED BY <1>3 DEF Min

\* The position of an element that is in the queue.
LEMMA PositionOf ==
    ASSUME NEW S, NEW s \in Seq(S), NEW e, e \in ToSet(s)
    PROVE  \E i \in 1..Len(s) : s[i] = e /\ RemoveFirst(s, e) = RemoveAt(s, i)
  <1> DEFINE I == {i \in 1..Len(s) : s[i] = e}
  <1>1. \E i \in 1..Len(s) : s[i] = e
    BY DEF ToSet
  <1>2. I # {} /\ I \in SUBSET Nat
    BY <1>1
  <1>3. Min(I) \in I
    <2> HIDE DEF I
    <2> QED BY <1>2, LeastExists
  <1>4. RemoveFirst(s, e) = RemoveAt(s, Min(I))
    BY <1>1, <1>2 DEF RemoveFirst, SelectInSeq
  <1> QED BY <1>3, <1>4

\* What taking out the element at a position leaves.
LEMMA RemoveAtFacts ==
    ASSUME NEW S, NEW s \in Seq(S), NEW i \in 1..Len(s)
    PROVE  /\ RemoveAt(s, i) \in Seq(S) /\ Len(RemoveAt(s, i)) = Len(s) - 1
           /\ \A j \in 1..(Len(s) - 1) :
                 RemoveAt(s, i)[j] = IF j < i THEN s[j] ELSE s[j + 1]
  <1> DEFINE a == SubSeq(s, 1, i - 1)
             b == SubSeq(s, i + 1, Len(s))
  <1>1. Len(s) \in Nat /\ i \in Nat /\ 1 <= i /\ i <= Len(s)
    OBVIOUS
  <1>2. a \in Seq(S) /\ Len(a) = i - 1 /\ \A j \in 1..(i - 1) : a[j] = s[j]
    BY <1>1
  <1>3. /\ b \in Seq(S) /\ Len(b) = Len(s) - i
        /\ \A j \in 1..(Len(s) - i) : b[j] = s[i + j]
    BY <1>1
  <1>4. RemoveAt(s, i) = a \o b
    BY DEF RemoveAt
  <1> HIDE DEF a, b
  <1>5. /\ a \o b \in Seq(S) /\ Len(a \o b) = Len(a) + Len(b)
        /\ \A j \in 1..(Len(a) + Len(b)) :
              (a \o b)[j] = IF j <= Len(a) THEN a[j] ELSE b[j - Len(a)]
    BY <1>2, <1>3, ConcatProperties
  <1>6. Len(a) + Len(b) = Len(s) - 1
    BY <1>1, <1>2, <1>3
  <1>7. ASSUME NEW j \in 1..(Len(s) - 1)
        PROVE  (a \o b)[j] = IF j < i THEN s[j] ELSE s[j + 1]
    <2>1. CASE j < i
      BY <1>1, <1>2, <1>5, <1>6, <2>1
    <2>2. CASE ~(j < i)
      <3>1. j - Len(a) \in 1..(Len(s) - i) /\ i + (j - Len(a)) = j + 1
        BY <1>1, <1>2, <2>2
      <3>2. (a \o b)[j] = b[j - Len(a)]
        BY <1>1, <1>2, <1>5, <1>6, <2>2
      <3> QED BY <1>3, <2>2, <3>1, <3>2
    <2> QED BY <2>1, <2>2
  <1> QED BY <1>4, <1>5, <1>6, <1>7

\* Taking an element out of a queue of different elements.
LEMMA RemoveFacts ==
    ASSUME NEW S, NEW s \in Seq(S), IsInjective(s), NEW e, e \in ToSet(s)
    PROVE  /\ RemoveFirst(s, e) \in Seq(S)
           /\ Len(RemoveFirst(s, e)) = Len(s) - 1
           /\ IsInjective(RemoveFirst(s, e))
           /\ ToSet(RemoveFirst(s, e)) = ToSet(s) \ {e}
  <1>1. PICK i \in 1..Len(s) : s[i] = e /\ RemoveFirst(s, e) = RemoveAt(s, i)
    BY PositionOf
  <1> DEFINE r == RemoveAt(s, i)
  <1>2. /\ r \in Seq(S) /\ Len(r) = Len(s) - 1
        /\ \A j \in 1..(Len(s) - 1) : r[j] = IF j < i THEN s[j] ELSE s[j + 1]
    BY RemoveAtFacts
  <1> HIDE DEF r
  <1>3. DOMAIN r = 1..(Len(s) - 1) /\ DOMAIN s = 1..Len(s)
        /\ Len(s) \in Nat /\ i \in Nat /\ 1 <= i /\ i <= Len(s)
    BY <1>2
  <1>4. \A j, k \in DOMAIN s : s[j] = s[k] => j = k
    BY DEF IsInjective
  <1>5. IsInjective(r)
    <2> SUFFICES ASSUME NEW j \in DOMAIN r, NEW k \in DOMAIN r, r[j] = r[k]
                 PROVE  j = k
      BY DEF IsInjective
    <2>1. j \in DOMAIN s /\ j + 1 \in DOMAIN s /\ k \in DOMAIN s /\ k + 1 \in DOMAIN s
      BY <1>3
    <2>2. /\ r[j] = IF j < i THEN s[j] ELSE s[j + 1]
          /\ r[k] = IF k < i THEN s[k] ELSE s[k + 1]
      BY <1>2, <1>3
    <2>3. j \in Int /\ k \in Int
      BY <1>3
    <2>4. CASE j < i /\ k < i
      BY <1>4, <2>1, <2>2, <2>4
    <2>5. CASE ~(j < i) /\ ~(k < i)
      <3>1. j + 1 = k + 1
        BY <1>4, <2>1, <2>2, <2>5
      <3> QED BY <2>3, <3>1
    <2>6. CASE j < i /\ ~(k < i)
      <3>1. j = k + 1
        BY <1>4, <2>1, <2>2, <2>6
      <3> QED BY <1>3, <2>3, <2>6, <3>1
    <2>7. CASE ~(j < i) /\ k < i
      <3>1. j + 1 = k
        BY <1>4, <2>1, <2>2, <2>7
      <3> QED BY <1>3, <2>3, <2>7, <3>1
    <2> QED BY <2>4, <2>5, <2>6, <2>7
  <1>6. ToSet(r) = ToSet(s) \ {e}
    <2>1. ASSUME NEW x \in ToSet(r)
          PROVE  x \in ToSet(s) /\ x # e
      <3>1. PICK j \in DOMAIN r : x = r[j]
        BY <2>1 DEF ToSet
      <3>2. j \in DOMAIN s /\ j + 1 \in DOMAIN s /\ i \in DOMAIN s /\ j \in Int
        BY <1>3
      <3>3. r[j] = IF j < i THEN s[j] ELSE s[j + 1]
        BY <1>2, <1>3
      <3>4. x \in ToSet(s)
        BY <3>1, <3>2, <3>3 DEF ToSet
      <3>5. CASE j < i
        <4>1. j # i
          BY <1>3, <3>2, <3>5
        <4> QED BY <1>1, <1>4, <3>1, <3>2, <3>3, <3>4, <3>5, <4>1
      <3>6. CASE ~(j < i)
        <4>1. j + 1 # i
          BY <1>3, <3>2, <3>6
        <4> QED BY <1>1, <1>4, <3>1, <3>2, <3>3, <3>4, <3>6, <4>1
      <3> QED BY <3>5, <3>6
    <2>2. ASSUME NEW x \in ToSet(s), x # e
          PROVE  x \in ToSet(r)
      <3>1. PICK j \in DOMAIN s : x = s[j]
        BY <2>2 DEF ToSet
      <3>2. j # i /\ j \in Int
        BY <1>1, <1>3, <2>2, <3>1
      <3>3. CASE j < i
        <4>1. j \in DOMAIN r /\ r[j] = s[j]
          BY <1>2, <1>3, <3>1, <3>3
        <4> QED BY <3>1, <4>1 DEF ToSet
      <3>4. CASE j > i
        <4>1. j - 1 \in 1..(Len(s) - 1) /\ ~(j - 1 < i) /\ (j - 1) + 1 = j
          BY <1>3, <3>1, <3>4
        <4>2. r[j - 1] = s[(j - 1) + 1]
          BY <1>2, <4>1
        <4>3. r[j - 1] = s[j]
          BY <4>1, <4>2
        <4> QED BY <1>3, <3>1, <4>1, <4>3 DEF ToSet
      <3> QED BY <1>3, <3>2, <3>3, <3>4
    <2> QED BY <2>1, <2>2
  <1> QED BY <1>1, <1>2, <1>5, <1>6 DEF r

\* Adding an element that is not in the queue.
LEMMA AppendFacts ==
    ASSUME NEW S, NEW s \in Seq(S), NEW e \in S
    PROVE  /\ Append(s, e) \in Seq(S) /\ Len(Append(s, e)) = Len(s) + 1
           /\ ToSet(Append(s, e)) = ToSet(s) \cup {e}
           /\ IsInjective(s) /\ e \notin ToSet(s) => IsInjective(Append(s, e))
  <1> DEFINE r == Append(s, e)
  <1>1. /\ r \in Seq(S) /\ Len(r) = Len(s) + 1 /\ Len(s) \in Nat
        /\ \A j \in 1..Len(s) : r[j] = s[j]
        /\ r[Len(s) + 1] = e
    OBVIOUS
  <1> HIDE DEF r
  <1>2. DOMAIN r = 1..(Len(s) + 1) /\ DOMAIN s = 1..Len(s)
    BY <1>1
  <1>3. \A j \in DOMAIN r : j \in DOMAIN s \/ j = Len(s) + 1
    BY <1>1, <1>2
  <1>4. ToSet(r) = ToSet(s) \cup {e}
    <2>1. \A j \in DOMAIN r : r[j] \in ToSet(s) \cup {e}
      BY <1>1, <1>2, <1>3 DEF ToSet
    <2>2. Len(s) + 1 \in DOMAIN r
      BY <1>1, <1>2
    <2>3. \A j \in DOMAIN s : j \in DOMAIN r /\ s[j] = r[j]
      BY <1>1, <1>2
    <2> QED BY <1>1, <2>1, <2>2, <2>3 DEF ToSet
  <1>5. ASSUME IsInjective(s), e \notin ToSet(s)
        PROVE  IsInjective(r)
    <2> SUFFICES ASSUME NEW j \in DOMAIN r, NEW k \in DOMAIN r, r[j] = r[k]
                 PROVE  j = k
      BY DEF IsInjective
    <2>1. \A h \in DOMAIN s : r[h] = s[h] /\ s[h] # e
      BY <1>1, <1>2, <1>5 DEF ToSet
    <2>2. CASE j \in DOMAIN s /\ k \in DOMAIN s
      BY <1>5, <2>1, <2>2 DEF IsInjective
    <2>3. CASE j = Len(s) + 1 \/ k = Len(s) + 1
      BY <1>1, <1>3, <2>1, <2>3
    <2> QED BY <1>3, <2>2, <2>3
  <1> QED BY <1>1, <1>4, <1>5 DEF r

\* The oldest element, and the rest.
LEMMA HeadTailFacts ==
    ASSUME NEW S, NEW s \in Seq(S), s # << >>, IsInjective(s)
    PROVE  /\ Head(s) \in ToSet(s) /\ Head(s) \in S /\ Tail(s) \in Seq(S)
           /\ Len(Tail(s)) = Len(s) - 1
           /\ IsInjective(Tail(s)) /\ ToSet(Tail(s)) = ToSet(s) \ {Head(s)}
  <1> DEFINE r == Tail(s)
  <1>1. /\ r \in Seq(S) /\ Len(s) \in Nat /\ Len(s) >= 1 /\ Len(r) = Len(s) - 1
        /\ \A j \in 1..(Len(s) - 1) : r[j] = s[j + 1]
        /\ Head(s) = s[1] /\ Head(s) \in S
    OBVIOUS
  <1> HIDE DEF r
  <1>2. DOMAIN r = 1..(Len(s) - 1) /\ DOMAIN s = 1..Len(s)
    BY <1>1
  <1>3. \A j, k \in DOMAIN s : s[j] = s[k] => j = k
    BY DEF IsInjective
  <1>4. 1 \in DOMAIN s /\ \A j \in DOMAIN r : j + 1 \in DOMAIN s /\ j + 1 # 1 /\ j \in Int
    BY <1>1, <1>2
  <1>5. IsInjective(r)
    <2> SUFFICES ASSUME NEW j \in DOMAIN r, NEW k \in DOMAIN r, r[j] = r[k]
                 PROVE  j = k
      BY DEF IsInjective
    <2>1. r[j] = s[j + 1] /\ r[k] = s[k + 1]
      BY <1>1, <1>2
    <2>2. j + 1 = k + 1
      BY <1>3, <1>4, <2>1
    <2> QED BY <1>4, <2>2
  <1>6. ToSet(r) = ToSet(s) \ {Head(s)}
    <2>1. ASSUME NEW x \in ToSet(r)
          PROVE  x \in ToSet(s) /\ x # Head(s)
      <3>1. PICK j \in DOMAIN r : x = r[j]
        BY <2>1 DEF ToSet
      <3>2. r[j] = s[j + 1]
        BY <1>1, <1>2
      <3>3. s[j + 1] # s[1]
        BY <1>3, <1>4
      <3> QED BY <1>1, <1>4, <3>1, <3>2, <3>3 DEF ToSet
    <2>2. ASSUME NEW x \in ToSet(s), x # Head(s)
          PROVE  x \in ToSet(r)
      <3>1. PICK j \in DOMAIN s : x = s[j]
        BY <2>2 DEF ToSet
      <3>2. j # 1
        BY <1>1, <2>2, <3>1
      <3>3. j - 1 \in 1..(Len(s) - 1) /\ (j - 1) + 1 = j
        BY <1>1, <1>2, <3>1, <3>2
      <3>4. r[j - 1] = s[(j - 1) + 1]
        BY <1>1, <3>3
      <3>5. r[j - 1] = s[j]
        BY <3>3, <3>4
      <3> QED BY <1>2, <3>1, <3>3, <3>5 DEF ToSet
    <2> QED BY <2>1, <2>2
  <1>7. Head(s) \in ToSet(s)
    BY <1>1, <1>4 DEF ToSet
  <1> QED BY <1>1, <1>5, <1>6, <1>7 DEF r

\* Two elements in a row.
LEMMA TwoInARow ==
    ASSUME NEW S, NEW a \in S, NEW b \in S
    PROVE  << a >> \o << b >> = << a, b >>
  <1>1. << a >> \in Seq(S) /\ << b >> \in Seq(S) /\ << a, b >> \in Seq(S)
    OBVIOUS
  <1> DEFINE u == << a >> \o << b >>
             v == << a, b >>
  <1>2. u \in Seq(S) /\ Len(u) = 2 /\ u[1] = a /\ u[2] = b
    BY <1>1, ConcatProperties
  <1>3. v \in Seq(S) /\ Len(v) = 2 /\ v[1] = a /\ v[2] = b
    OBVIOUS
  <1> HIDE DEF u, v
  <1>4. \A i \in 1..2 : i = 1 \/ i = 2
    OBVIOUS
  <1>5. \A i \in 1..Len(u) : u[i] = v[i]
    BY <1>2, <1>3, <1>4
  <1>6. u = v
    BY <1>2, <1>3, <1>5, SeqEqual
  <1> QED BY <1>6 DEF u, v

-----------------------------------------------------------------------------

AllFramings == {"nobody", "length", "chunked", "close", "bad", "continue"}
PiecesOf(f) == [of : Requests, framing : {f}, kind : ToSet(Pieces(f))]
Piece == UNION {PiecesOf(f) : f \in AllFramings}
Frame == [do : {"user", "connect", "connected", "read"}, for : Requests \cup {None}]
Peers == [asked : Seq(Requests), wire : Seq(Piece), closed : BOOLEAN, continued : Nat]
Names == {"state", "queue", "reading", "writing", "connecting", "detect", "input",
          "deferred", "framing", "peer", "todo", "freed", "touched", "aborted",
          "unattempted", "copies", "fate", "got"}
Typed(h) ==
    /\ DOMAIN h = Names
    /\ h.state \in States /\ h.queue \in Seq(Requests) /\ h.input \in Seq(Piece)
    /\ h.peer \in Peers /\ h.todo \in Seq(Frame)
    /\ h.reading \in BOOLEAN /\ h.connecting \in BOOLEAN
    /\ h.copies \in [Requests -> Nat] /\ h.fate \in [Requests -> Fates]
    /\ h.got \in [Requests -> SUBSET Requests]

\* The states in which a reply is read, and those with a request on its way.
Reading == {"firstline", "headers", "body", "trailer"}
Busy == Reading \cup {"writing"}
Away == {"disconnected", "connecting"}

\* The requests that are queued, and what was sent of them.
QueueOK(h) ==
    /\ IsInjective(h.queue)
    /\ ToSet(h.queue) = {r \in Requests : h.fate[r] = "queued"}
    /\ \A r \in Requests : h.got[r] \subseteq {r}
    /\ \A r \in Requests : h.fate[r] \in {"new", "queued"} =>
          h.copies[r] = IF h.state \in Busy /\ h.queue # << >> /\ r = Head(h.queue)
                        THEN 1 ELSE 0

\* The calls in progress: callbacks, each for a request of its own that has
\* ended, and connects that were answered during the call.
Distinct(t) == \A i, j \in DOMAIN t : t[i].do = "user" /\ t[j] = t[i] => i = j
Below(t) == \A c \in ToSet(t) : c.do \in {"user", "connected"}
CallsOK(h) ==
    /\ Distinct(h.todo)
    /\ \A c \in ToSet(h.todo) :
          /\ c.do = "user" => /\ c.for \in Requests /\ h.state \notin Reading
                              /\ h.fate[c.for] \in {"failing", "replying"}
          /\ c.do = "connected" => /\ h.state \in Away
                                   /\ h.freed \/ h.unattempted \/ h.connecting

Top(h, what) == h.todo # << >> /\ Head(h.todo).do = what
TopOK(h) ==
    /\ h.todo # << >> => Below(Tail(h.todo))
    /\ Top(h, "connect") => /\ h.queue # << >> /\ h.state \in Away
                            /\ Head(h.todo).for \in ToSet(h.queue) \cup {None}
    /\ Top(h, "read") => Tail(h.todo) = << >> /\ h.state \in Reading

\* What the connection waits for in each state.
StateOK(h) ==
    /\ h.connecting => h.state = "connecting"
    /\ h.state = "connecting" => h.connecting \/ h.unattempted
    /\ h.writing = (h.state = "writing")
    /\ h.reading => h.state \in Reading \cup {"idle"}
    /\ h.state \in {"idle", "firstline", "headers"} => h.reading
    /\ h.state \in {"body", "trailer"} /\ h.todo = << >> => h.reading
    /\ h.detect = (h.state = "idle")
    /\ h.state = "idle" => h.queue = << >>
    /\ h.state \in Busy \/ h.connecting => h.queue # << >>
    /\ h.deferred => h.state = "firstline" /\ h.todo = << >>
    /\ h.freed => h.state = "disconnected" /\ h.queue = << >>
    /\ ~h.aborted

\* What is still to be read of the replies.
Stream(h) == h.input \o h.peer.wire
LastOf(f) == Pieces(f)[Len(Pieces(f))]
Ends(p) == p.framing # "continue" /\ p.kind = LastOf(p.framing)
StreamOK(h) ==
    LET s == Stream(h)
    IN  /\ h.state \notin Reading => s = << >> /\ h.peer.asked = << >>
        /\ h.state \in Reading =>
              /\ h.peer.asked \in {<< >>, << Head(h.queue) >>}
              /\ \A i \in DOMAIN s :
                    /\ s[i].of = Head(h.queue)
                    /\ Ends(s[i]) => i = Len(s) /\ h.peer.asked = << >>

\* Requests do not wait on a connection that nobody tries to make.
Attempted(h) ==
    h.state = "disconnected" /\ h.queue # << >> => h.unattempted \/ Top(h, "connect")

Settled(h) == /\ Typed(h) /\ QueueOK(h) /\ CallsOK(h) /\ TopOK(h)
              /\ StateOK(h) /\ StreamOK(h)
Sound(h) == Settled(h) /\ Attempted(h)
HttpInv == Sound(http)

\* A connection in the middle of a step, whose call has been taken off.
Mid(h) == /\ Typed(h) /\ QueueOK(h) /\ CallsOK(h) /\ Below(h.todo)
          /\ ~h.aborted /\ ~h.deferred /\ ~h.freed

-----------------------------------------------------------------------------
\* A call that is put on the stack.
LEMMA Pushed ==
    ASSUME NEW t \in Seq(Frame), NEW c \in Frame
    PROVE  /\ << c >> \o t \in Seq(Frame) /\ << c >> \o t # << >>
           /\ Head(<< c >> \o t) = c /\ Tail(<< c >> \o t) = t
           /\ ToSet(<< c >> \o t) = ToSet(t) \cup {c}
           /\ Distinct(t) /\ (c.do = "user" => c \notin ToSet(t))
                 => Distinct(<< c >> \o t)
  <1> DEFINE s == << c >> \o t
  <1>1. /\ s \in Seq(Frame) /\ Len(s) = Len(t) + 1 /\ Len(t) \in Nat /\ s[1] = c
        /\ \A i \in 1..Len(t) : s[i + 1] = t[i]
    OBVIOUS
  <1>2. s # << >> /\ Head(s) = c /\ Tail(s) = t
    OBVIOUS
  <1> HIDE DEF s
  <1>3. DOMAIN s = 1..(Len(t) + 1) /\ DOMAIN t = 1..Len(t)
    BY <1>1
  <1>4. \A i \in DOMAIN s : i = 1 \/ (i - 1 \in DOMAIN t /\ s[i] = t[i - 1])
    <2> TAKE i \in DOMAIN s
    <2>1. i = 1 \/ (i - 1 \in 1..Len(t) /\ (i - 1) + 1 = i)
      BY <1>1, <1>3
    <2>2. CASE i - 1 \in 1..Len(t) /\ (i - 1) + 1 = i
      <3>1. s[(i - 1) + 1] = t[i - 1]
        BY <1>1, <2>2
      <3> QED BY <1>3, <2>2, <3>1
    <2> QED BY <2>1, <2>2
  <1>5. \A i \in DOMAIN t : i + 1 \in DOMAIN s /\ s[i + 1] = t[i]
    BY <1>1, <1>3
  <1>6. 1 \in DOMAIN s
    BY <1>1, <1>3
  <1>7. ToSet(s) = ToSet(t) \cup {c}
    BY <1>1, <1>4, <1>5, <1>6 DEF ToSet
  <1>8. ASSUME Distinct(t), c.do = "user" => c \notin ToSet(t)
        PROVE  Distinct(s)
    <2> SUFFICES ASSUME NEW i \in DOMAIN s, NEW j \in DOMAIN s, s[i].do = "user",
                        s[j] = s[i]
                 PROVE  i = j
      BY DEF Distinct
    <2>1. i \in Int /\ j \in Int
      BY <1>3
    <2>2. CASE i = 1 /\ j # 1
      BY <1>1, <1>4, <1>8, <2>2 DEF ToSet
    <2>3. CASE i # 1 /\ j = 1
      BY <1>1, <1>4, <1>8, <2>3 DEF ToSet
    <2>4. CASE i # 1 /\ j # 1
      <3>1. i - 1 = j - 1
        BY <1>4, <1>8, <2>4 DEF Distinct
      <3> QED BY <2>1, <3>1
    <2> QED BY <2>2, <2>3, <2>4
  <1> QED BY <1>1, <1>2, <1>7, <1>8 DEF s

\* The call that is taken off.
LEMMA PoppedOff ==
    ASSUME NEW t \in Seq(Frame), t # << >>
    PROVE  /\ Head(t) \in Frame /\ Tail(t) \in Seq(Frame)
           /\ Head(t) \in ToSet(t) /\ ToSet(Tail(t)) \subseteq ToSet(t)
           /\ Distinct(t) => /\ Distinct(Tail(t))
                             /\ Head(t).do = "user" => Head(t) \notin ToSet(Tail(t))
  <1> DEFINE s == Tail(t)
  <1>1. /\ s \in Seq(Frame) /\ Len(t) \in Nat /\ Len(t) >= 1 /\ Head(t) \in Frame
        /\ Head(t) = t[1] /\ Len(s) = Len(t) - 1
        /\ \A i \in 1..Len(s) : s[i] = t[i + 1]
    OBVIOUS
  <1> HIDE DEF s
  <1>2. DOMAIN s = 1..(Len(t) - 1) /\ DOMAIN t = 1..Len(t)
    BY <1>1
  <1>3. /\ 1 \in DOMAIN t
        /\ \A i \in DOMAIN s : i \in Int /\ i + 1 \in DOMAIN t /\ i + 1 # 1 /\ s[i] = t[i + 1]
    BY <1>1, <1>2
  <1>4. Head(t) \in ToSet(t) /\ ToSet(s) \subseteq ToSet(t)
    BY <1>1, <1>3 DEF ToSet
  <1>5. ASSUME Distinct(t)
        PROVE  Distinct(s) /\ (Head(t).do = "user" => Head(t) \notin ToSet(s))
    <2>1. Distinct(s)
      <3> SUFFICES ASSUME NEW i \in DOMAIN s, NEW j \in DOMAIN s, s[i].do = "user",
                          s[j] = s[i]
                   PROVE  i = j
        BY DEF Distinct
      <3>1. i + 1 = j + 1
        BY <1>3, <1>5 DEF Distinct
      <3> QED BY <1>3, <3>1
    <2>2. ASSUME Head(t).do = "user", Head(t) \in ToSet(s)
          PROVE  FALSE
      <3>1. PICK i \in DOMAIN s : s[i] = Head(t)
        BY <2>2 DEF ToSet
      <3> QED BY <1>1, <1>3, <1>5, <2>2, <3>1 DEF Distinct
    <2> QED BY <2>1, <2>2
  <1> QED BY <1>1, <1>4, <1>5 DEF s

\* What evhttp_connection_reset leaves and changes.
LEMMA ResetFields ==
    ASSUME NEW h, DOMAIN h = Names
    PROVE  LET g == Reset(h)
           IN  /\ DOMAIN g = Names /\ g.state = "disconnected" /\ g.peer = NoPeer
               /\ g.input = << >> /\ ~g.reading /\ g.reading = FALSE
               /\ g.writing = FALSE /\ g.connecting = FALSE
               /\ g.queue = h.queue /\ g.detect = h.detect /\ g.deferred = h.deferred
               /\ g.todo = h.todo /\ g.freed = h.freed /\ g.aborted = h.aborted
               /\ g.unattempted = h.unattempted /\ g.copies = h.copies
               /\ g.fate = h.fate /\ g.got = h.got
  BY DEF Reset, Names

Oldest(h, g, fate) ==
    /\ h.queue # << >> /\ g.queue = Tail(h.queue)
    /\ g.fate = [h.fate EXCEPT ![Head(h.queue)] = fate]
All(h, g, fate) ==
    /\ g.queue = << >> /\ g.copies = h.copies
    /\ g.fate = [r \in Requests |-> IF r \in ToSet(h.queue) THEN fate ELSE h.fate[r]]

\* The oldest request fails; the connection is reset, and connects again if
\* there are more.
LEMMA FailSound ==
    ASSUME NEW h, Mid(h), h.queue # << >>, ~h.detect, h.detect = FALSE,
           \A c \in ToSet(h.todo) : c.do = "connected" => h.unattempted
    PROVE  Sound(Fail(h)) /\ Oldest(h, Fail(h), "failing") /\ Fail(h).copies = h.copies
  <1> DEFINE r == Head(h.queue)
             p == [h EXCEPT !.queue = Tail(@), !.framing = None, !.fate[r] = "failing"]
             t == << CallUser(r) >> \o h.todo
             g == Fail(h)
  <1>1. Typed(h) /\ QueueOK(h) /\ CallsOK(h) /\ Below(h.todo)
        /\ ~h.aborted /\ ~h.deferred /\ ~h.freed
    BY DEF Mid
  <1>2. /\ DOMAIN p = Names /\ p.queue = Tail(h.queue)
        /\ p.fate = [h.fate EXCEPT ![r] = "failing"]
        /\ p.todo = h.todo /\ p.copies = h.copies /\ p.got = h.got /\ p.detect = h.detect
        /\ p.aborted = h.aborted /\ p.deferred = h.deferred /\ p.freed = h.freed
        /\ p.unattempted = h.unattempted
    BY <1>1 DEF Typed, Names
  <1>3. g = [Reset(p) EXCEPT !.todo =
               (IF Reset(p).queue = << >> THEN << >>
                ELSE << DoConnect(None) >>) \o << CallUser(r) >> \o @]
    BY DEF Fail, Call
  <1> HIDE DEF p
  <1> DEFINE q == Reset(p)
             top == IF q.queue = << >> THEN << >> ELSE << DoConnect(None) >>
  <1>4. /\ DOMAIN q = Names /\ q.state = "disconnected" /\ q.peer = NoPeer
        /\ q.input = << >> /\ q.reading = FALSE
        /\ q.writing = FALSE /\ q.connecting = FALSE
        /\ q.queue = Tail(h.queue) /\ q.detect = FALSE /\ ~q.deferred
        /\ q.todo = h.todo /\ ~q.freed /\ ~q.aborted
        /\ q.unattempted = h.unattempted /\ q.copies = h.copies
        /\ q.fate = [h.fate EXCEPT ![r] = "failing"] /\ q.got = h.got
    BY <1>1, <1>2, ResetFields
  <1> HIDE DEF q
  <1>5. /\ DOMAIN g = Names /\ g.state = "disconnected" /\ g.peer = NoPeer
        /\ g.input = << >> /\ g.reading = FALSE
        /\ g.writing = FALSE /\ g.connecting = FALSE
        /\ g.queue = Tail(h.queue) /\ g.detect = FALSE /\ ~g.deferred
        /\ ~g.freed /\ ~g.aborted
        /\ g.unattempted = h.unattempted /\ g.copies = h.copies
        /\ g.fate = [h.fate EXCEPT ![r] = "failing"] /\ g.got = h.got
        /\ g.todo = (top \o << CallUser(r) >>) \o h.todo
    <2>1. g = [q EXCEPT !.todo = (top \o << CallUser(r) >>) \o @]
      BY <1>3 DEF q
    <2> HIDE DEF g, top
    <2> QED BY <1>4, <2>1 DEF Names
  <1> HIDE DEF g
  <1>6. /\ h.queue \in Seq(Requests) /\ r \in Requests /\ Tail(h.queue) \in Seq(Requests)
        /\ IsInjective(Tail(h.queue)) /\ ToSet(Tail(h.queue)) = ToSet(h.queue) \ {r}
        /\ r \in ToSet(h.queue)
    BY <1>1, HeadTailFacts DEF Typed, QueueOK
  <1>7. h.todo \in Seq(Frame) /\ CallUser(r) \in Frame /\ DoConnect(None) \in Frame
        /\ CallUser(r).do = "user" /\ CallUser(r).for = r
        /\ DoConnect(None).do = "connect" /\ DoConnect(None).for = None
    BY <1>1, <1>6 DEF Typed, Frame, CallUser, DoConnect
  <1>8. h.fate[r] = "queued"
    BY <1>1, <1>6 DEF QueueOK
  <1>9. CallUser(r) \notin ToSet(h.todo)
    BY <1>1, <1>7, <1>8 DEF CallsOK
  <1>10. /\ t \in Seq(Frame) /\ ToSet(t) = ToSet(h.todo) \cup {CallUser(r)}
         /\ Distinct(t) /\ Below(t) /\ t # << >> /\ Head(t) = CallUser(r)
         /\ Tail(t) = h.todo
    BY <1>1, <1>7, <1>9, Pushed DEF CallsOK, Below
  <1>11. g.todo = IF Tail(h.queue) = << >> THEN t ELSE << DoConnect(None) >> \o t
    <2>1. << CallUser(r) >> \in Seq(Frame) /\ << DoConnect(None) >> \in Seq(Frame)
      BY <1>7
    <2>2. (<< >> \o << CallUser(r) >>) \o h.todo = t
      BY <2>1, ConcatEmptySeq
    <2>3. (<< DoConnect(None) >> \o << CallUser(r) >>) \o h.todo
            = << DoConnect(None) >> \o t
      BY <1>7, <2>1, ConcatAssociative
    <2> HIDE DEF t
    <2> QED BY <1>4, <1>5, <2>2, <2>3
  <1> HIDE DEF t, top
  <1>12. /\ g.todo \in Seq(Frame) /\ Distinct(g.todo) /\ Below(Tail(g.todo))
         /\ \A c \in ToSet(g.todo) : c = DoConnect(None) \/ c = CallUser(r) \/ c \in ToSet(h.todo)
         /\ Top(g, "connect") <=> Tail(h.queue) # << >>
         /\ Top(g, "connect") => Head(g.todo) = DoConnect(None)
         /\ ~Top(g, "read")
    <2>1. CASE Tail(h.queue) = << >>
      BY <1>1, <1>7, <1>10, <1>11, <2>1 DEF Top
    <2>2. CASE Tail(h.queue) # << >>
      <3> DEFINE u == << DoConnect(None) >> \o t
      <3>1. /\ u \in Seq(Frame) /\ u # << >> /\ Head(u) = DoConnect(None)
            /\ Tail(u) = t /\ ToSet(u) = ToSet(t) \cup {DoConnect(None)} /\ Distinct(u)
        BY <1>7, <1>10, Pushed
      <3> HIDE DEF u
      <3>2. g.todo = u
        BY <1>11, <2>2 DEF u
      <3> QED BY <1>7, <1>10, <2>2, <3>1, <3>2 DEF Top
    <2> QED BY <2>1, <2>2
  <1>13. Typed(g)
    <2>1. g.fate \in [Requests -> Fates]
      BY <1>1, <1>5 DEF Typed, Fates
    <2>2. g.peer \in Peers
      BY <1>5 DEF NoPeer, Peers
    <2>3. g.state \in States /\ g.queue \in Seq(Requests) /\ g.input \in Seq(Piece)
      BY <1>5, <1>6 DEF States
    <2>4. g.copies \in [Requests -> Nat] /\ g.got \in [Requests -> SUBSET Requests]
      BY <1>1, <1>5 DEF Typed
    <2> QED BY <1>5, <1>12, <2>1, <2>2, <2>3, <2>4 DEF Typed
  <1>14. QueueOK(g)
    <2>1. \A x \in Requests : g.fate[x] = IF x = r THEN "failing" ELSE h.fate[x]
      BY <1>1, <1>5 DEF Typed
    <2>2. ToSet(g.queue) = {x \in Requests : g.fate[x] = "queued"}
      BY <1>1, <1>5, <1>6, <2>1 DEF QueueOK
    <2>3. \A x \in Requests : g.fate[x] \in {"new", "queued"} => g.copies[x] = 0
      BY <1>1, <1>5, <2>1 DEF QueueOK
    <2> QED BY <1>1, <1>5, <1>6, <2>2, <2>3 DEF QueueOK, Busy, Reading
  <1>15. CallsOK(g)
    <2>1. \A x \in Requests : g.fate[x] = IF x = r THEN "failing" ELSE h.fate[x]
      BY <1>1, <1>5 DEF Typed
    <2> SUFFICES ASSUME NEW c \in ToSet(g.todo)
                 PROVE  /\ c.do = "user" => /\ c.for \in Requests
                                            /\ g.fate[c.for] \in {"failing", "replying"}
                        /\ c.do = "connected" => g.unattempted
      BY <1>5, <1>12 DEF CallsOK, Reading, Away
    <2>2. CASE c = DoConnect(None)
      BY <1>7, <2>2
    <2>3. CASE c = CallUser(r)
      <3>1. c.do = "user" /\ c.for = r
        BY <1>7, <2>3
      <3> QED BY <1>6, <2>1, <3>1
    <2>4. CASE c \in ToSet(h.todo)
      <3>1. /\ c.do = "user" => /\ c.for \in Requests
                                /\ h.fate[c.for] \in {"failing", "replying"}
            /\ c.do = "connected" => h.unattempted
        BY <1>1, <2>4 DEF CallsOK
      <3> QED BY <1>5, <2>1, <3>1
    <2> QED BY <1>12, <2>2, <2>3, <2>4
  <1>16. TopOK(g)
    BY <1>5, <1>7, <1>12 DEF TopOK, Away
  <1>17. StateOK(g)
    BY <1>5, <1>12 DEF StateOK, Busy, Reading
  <1>18. StreamOK(g)
    BY <1>5 DEF StreamOK, Stream, Reading, NoPeer
  <1>19. Attempted(g)
    BY <1>5, <1>12 DEF Attempted
  <1> QED BY <1>5, <1>13, <1>14, <1>15, <1>16, <1>17, <1>18, <1>19 DEF Sound, Settled, Oldest, g

\* Every request fails, each with a callback of its own.
LEMMA CleanupSound ==
    ASSUME NEW h, Mid(h), h.todo = << >>, h.detect = FALSE, h.state \notin Busy
    PROVE  Sound(Cleanup(h)) /\ All(h, Cleanup(h), "failing")
  <1> DEFINE g == Cleanup(h)
             q == Reset(h)
             t == [i \in DOMAIN h.queue |-> CallUser(h.queue[i])]
             f == [r \in Requests |-> IF r \in ToSet(h.queue) THEN "failing"
                                      ELSE q.fate[r]]
  <1>1. Typed(h) /\ QueueOK(h) /\ ~h.aborted /\ ~h.deferred /\ ~h.freed
    BY DEF Mid
  <1>2. /\ DOMAIN q = Names /\ q.state = "disconnected" /\ q.peer = NoPeer
        /\ q.input = << >> /\ q.reading = FALSE
        /\ q.writing = FALSE /\ q.connecting = FALSE
        /\ q.detect = FALSE /\ ~q.deferred
        /\ q.todo = << >> /\ ~q.freed /\ ~q.aborted /\ q.copies = h.copies
        /\ q.fate = h.fate /\ q.got = h.got
    BY <1>1, ResetFields DEF Typed
  <1> HIDE DEF q
  <1>3. g = [[q EXCEPT !.queue = << >>, !.fate = f] EXCEPT !.todo = t \o @]
    BY <1>2 DEF Cleanup, Call, q, Names
  <1>4. t \in Seq(Frame) /\ Len(t) = Len(h.queue) /\ t \o << >> = t
    <2>1. h.queue \in Seq(Requests)
      BY <1>1 DEF Typed
    <2>2. \A i \in 1..Len(h.queue) : CallUser(h.queue[i]) \in Frame
      BY <2>1 DEF CallUser, Frame
    <2> QED BY <2>1, <2>2, ConcatEmptySeq
  <1>5. \A c \in ToSet(t) : c.do = "user" /\ c.for \in ToSet(h.queue)
    <2> TAKE c \in ToSet(t)
    <2>1. PICK i \in DOMAIN t : c = t[i]
      BY DEF ToSet
    <2>2. i \in DOMAIN h.queue /\ c = CallUser(h.queue[i])
      BY <2>1
    <2> QED BY <2>2 DEF ToSet, CallUser
  <1>6. Distinct(t)
    <2> SUFFICES ASSUME NEW i \in DOMAIN t, NEW j \in DOMAIN t, t[j] = t[i]
                 PROVE  i = j
      BY DEF Distinct
    <2>1. h.queue[i] = h.queue[j]
      BY DEF CallUser
    <2> QED BY <1>1, <2>1 DEF QueueOK, IsInjective
  <1>7. Below(t) /\ (t # << >> => Below(Tail(t)) /\ Head(t).do = "user")
    <2>1. t # << >> => ToSet(Tail(t)) \subseteq ToSet(t) /\ Head(t) \in ToSet(t)
      <3> HIDE DEF t
      <3> QED BY <1>4, <1>6, PoppedOff
    <2> HIDE DEF t
    <2> QED BY <1>5, <2>1 DEF Below
  <1> HIDE DEF t
  <1>8. /\ DOMAIN g = Names /\ g.state = "disconnected" /\ g.peer = NoPeer
        /\ g.input = << >> /\ g.reading = FALSE
        /\ g.writing = FALSE /\ g.connecting = FALSE
        /\ g.queue = << >> /\ g.detect = FALSE /\ ~g.deferred
        /\ ~g.freed /\ ~g.aborted /\ g.copies = h.copies
        /\ g.fate = f /\ g.got = h.got /\ g.todo = t
    <2> HIDE DEF g, f
    <2> QED BY <1>2, <1>3, <1>4 DEF Names
  <1>9. f = [r \in Requests |-> IF r \in ToSet(h.queue) THEN "failing" ELSE h.fate[r]]
    BY <1>2
  <1> HIDE DEF g, f
  <1>10. ToSet(h.queue) \subseteq Requests
    BY <1>1 DEF QueueOK
  <1>11. Typed(g)
    <2>1. g.fate \in [Requests -> Fates]
      BY <1>1, <1>8, <1>9 DEF Typed, Fates
    <2>2. g.peer \in Peers
      BY <1>8 DEF NoPeer, Peers
    <2>3. g.state \in States /\ g.queue \in Seq(Requests) /\ g.input \in Seq(Piece)
      BY <1>8 DEF States
    <2>4. g.copies \in [Requests -> Nat] /\ g.got \in [Requests -> SUBSET Requests]
      BY <1>1, <1>8 DEF Typed
    <2> QED BY <1>4, <1>8, <2>1, <2>2, <2>3, <2>4 DEF Typed
  <1>12. QueueOK(g)
    <2>1. \A r \in Requests : r \in ToSet(h.queue) <=> h.fate[r] = "queued"
      BY <1>1 DEF QueueOK
    <2>2. \A r \in Requests : g.fate[r] # "queued"
      BY <1>8, <1>9, <2>1
    <2>3. ToSet(g.queue) = {} /\ IsInjective(g.queue)
      BY <1>8 DEF ToSet, IsInjective
    <2>4. \A r \in Requests : g.fate[r] \in {"new", "queued"} => g.copies[r] = 0
      <3> SUFFICES ASSUME NEW r \in Requests, g.fate[r] = "new"
                   PROVE  h.copies[r] = 0
        BY <1>8, <2>2
      <3>1. h.fate[r] = "new"
        BY <1>8, <1>9
      <3> QED BY <1>1, <3>1 DEF QueueOK
    <2> QED BY <1>1, <1>8, <2>2, <2>3, <2>4 DEF QueueOK
  <1>13. CallsOK(g)
    <2> SUFFICES ASSUME NEW c \in ToSet(t)
                 PROVE  c.do = "user" /\ c.for \in Requests /\ g.fate[c.for] = "failing"
      BY <1>6, <1>8 DEF CallsOK, Reading
    <2> QED BY <1>5, <1>8, <1>9, <1>10
  <1>14. TopOK(g)
    BY <1>7, <1>8 DEF TopOK, Top
  <1>15. StateOK(g)
    BY <1>8 DEF StateOK, Busy, Reading
  <1>16. StreamOK(g)
    BY <1>8 DEF StreamOK, Stream, Reading, NoPeer
  <1> QED BY <1>8, <1>9, <1>11, <1>12, <1>13, <1>14, <1>15, <1>16
        DEF Sound, Settled, Attempted, All, g

\* A request is given to the bufferevent.
LEMMA DispatchFields ==
    ASSUME NEW h, Typed(h), h.queue # << >>, h.state = "idle"
    PROVE  LET g == Dispatch(h)
           IN  /\ DOMAIN g = Names /\ g.state = "writing" /\ g.detect = FALSE
               /\ g.reading = FALSE /\ g.writing = TRUE
               /\ g.copies = [h.copies EXCEPT ![Head(h.queue)] = @ + 1]
               /\ g.peer = h.peer /\ g.input = h.input /\ g.connecting = h.connecting
               /\ g.queue = h.queue /\ g.deferred = h.deferred
               /\ g.todo = h.todo /\ g.freed = h.freed /\ g.aborted = h.aborted
               /\ g.unattempted = h.unattempted /\ g.fate = h.fate /\ g.got = h.got
  BY DEF Dispatch, Names, Typed

\* A request that is dispatched: on an idle connection whose callbacks wait.
LEMMA DispatchSound ==
    ASSUME NEW h, Typed(h), CallsOK(h), Below(h.todo), ~h.aborted, ~h.deferred,
           ~h.freed, h.state = "idle", h.queue # << >>, h.connecting = FALSE,
           Stream(h) = << >>, h.peer.asked = << >>,
           IsInjective(h.queue),
           ToSet(h.queue) = {r \in Requests : h.fate[r] = "queued"},
           \A r \in Requests : h.got[r] \subseteq {r},
           \A r \in Requests : h.fate[r] \in {"new", "queued"} => h.copies[r] = 0
    PROVE  /\ Sound(Dispatch(h)) /\ Below(Dispatch(h).todo)
           /\ Dispatch(h).copies = [h.copies EXCEPT ![Head(h.queue)] = 1]
  <1> DEFINE g == Dispatch(h)
  <1>1. /\ DOMAIN g = Names /\ g.state = "writing" /\ g.detect = FALSE
        /\ g.reading = FALSE /\ g.writing = TRUE
        /\ g.copies = [h.copies EXCEPT ![Head(h.queue)] = @ + 1]
        /\ g.peer = h.peer /\ g.input = h.input /\ g.connecting = h.connecting
        /\ g.queue = h.queue /\ g.deferred = h.deferred
        /\ g.todo = h.todo /\ g.freed = h.freed /\ g.aborted = h.aborted
        /\ g.unattempted = h.unattempted /\ g.fate = h.fate /\ g.got = h.got
    BY DispatchFields
  <1> HIDE DEF g
  <1>2. /\ Head(h.queue) \in Requests /\ Head(h.queue) \in ToSet(h.queue)
        /\ h.fate[Head(h.queue)] = "queued" /\ h.copies[Head(h.queue)] = 0
    BY HeadTailFacts DEF Typed
  <1>3. g.copies = [h.copies EXCEPT ![Head(h.queue)] = 1]
    BY <1>1, <1>2 DEF Typed
  <1>4. Typed(g)
    <2>1. g.state \in States
      BY <1>1 DEF States, Connected
    <2>2. g.copies \in [Requests -> Nat]
      BY <1>2, <1>3 DEF Typed
    <2> QED BY <1>1, <2>1, <2>2 DEF Typed
  <1>5. QueueOK(g)
    <2>1. \A r \in Requests : g.copies[r] = IF r = Head(h.queue) THEN 1 ELSE h.copies[r]
      BY <1>3 DEF Typed
    <2> QED BY <1>1, <2>1 DEF QueueOK, Busy
  <1>6. CallsOK(g) /\ Below(g.todo)
    BY <1>1 DEF CallsOK, Reading, Away
  <1>7. TopOK(g)
    <2>1. g.todo # << >> => /\ ToSet(Tail(g.todo)) \subseteq ToSet(g.todo)
                            /\ Head(g.todo) \in ToSet(g.todo)
      BY <1>4, PoppedOff DEF Typed
    <2> QED BY <1>6, <2>1 DEF TopOK, Top, Below
  <1>8. StateOK(g)
    BY <1>1 DEF StateOK, Reading, Busy
  <1>9. StreamOK(g)
    BY <1>1 DEF StreamOK, Stream, Reading
  <1> QED BY <1>1, <1>3, <1>4, <1>5, <1>6, <1>7, <1>8, <1>9
        DEF Sound, Settled, Attempted, g

\* A callback is to be called.
LEMMA PushUser ==
    ASSUME NEW h, Settled(h), Below(h.todo), h.state \notin Reading,
           NEW r \in Requests, h.fate[r] \in {"failing", "replying"},
           CallUser(r) \notin ToSet(h.todo)
    PROVE  LET g == Call(h, << CallUser(r) >>)
           IN  /\ Settled(g) /\ Below(g.todo) /\ g.queue = h.queue /\ g.state = h.state
               /\ g.fate = h.fate /\ g.copies = h.copies
  <1> DEFINE g == Call(h, << CallUser(r) >>)
             t == << CallUser(r) >> \o h.todo
  <1>1. Typed(h) /\ QueueOK(h) /\ CallsOK(h) /\ TopOK(h) /\ StateOK(h) /\ StreamOK(h)
    BY DEF Settled
  <1>2. /\ DOMAIN g = Names /\ g.state = h.state /\ g.detect = h.detect
        /\ g.reading = h.reading /\ g.writing = h.writing /\ g.copies = h.copies
        /\ g.peer = h.peer /\ g.input = h.input /\ g.connecting = h.connecting
        /\ g.queue = h.queue /\ g.deferred = h.deferred /\ g.freed = h.freed
        /\ g.aborted = h.aborted /\ g.unattempted = h.unattempted /\ g.fate = h.fate
        /\ g.got = h.got /\ g.framing = h.framing /\ g.todo = t
    BY <1>1 DEF Typed, Names, Call
  <1> HIDE DEF g
  <1>3. CallUser(r) \in Frame /\ CallUser(r).do = "user" /\ CallUser(r).for = r
    BY DEF CallUser, Frame
  <1>4. /\ t \in Seq(Frame) /\ t # << >> /\ Head(t) = CallUser(r) /\ Tail(t) = h.todo
        /\ ToSet(t) = ToSet(h.todo) \cup {CallUser(r)} /\ Distinct(t)
    BY <1>1, <1>3, Pushed DEF Typed, CallsOK
  <1> HIDE DEF t
  <1>5. Typed(g)
    BY <1>1, <1>2, <1>4 DEF Typed
  <1>6. QueueOK(g)
    BY <1>1, <1>2 DEF QueueOK
  <1>7. CallsOK(g)
    <2> SUFFICES ASSUME NEW c \in ToSet(t)
                 PROVE  /\ c.do = "user" => /\ c.for \in Requests /\ h.state \notin Reading
                                            /\ h.fate[c.for] \in {"failing", "replying"}
                        /\ c.do = "connected" =>
                              h.state \in Away /\ (h.freed \/ h.unattempted \/ h.connecting)
      BY <1>2, <1>4 DEF CallsOK
    <2>1. CASE c = CallUser(r)
      BY <1>3, <2>1
    <2>2. CASE c \in ToSet(h.todo)
      BY <1>1, <2>2 DEF CallsOK
    <2> QED BY <1>4, <2>1, <2>2
  <1>8. TopOK(g) /\ Below(g.todo)
    BY <1>2, <1>3, <1>4 DEF TopOK, Top, Below
  <1>9. StateOK(g)
    <2>1. h.state = "firstline" => FALSE
      BY DEF Reading
    <2> QED BY <1>1, <1>2, <1>4, <2>1 DEF StateOK
  <1>10. StreamOK(g)
    BY <1>1, <1>2 DEF StreamOK, Stream
  <1> QED BY <1>2, <1>5, <1>6, <1>7, <1>8, <1>9, <1>10 DEF Settled, g

\* The connection is to be made.
LEMMA PushConnect ==
    ASSUME NEW h, Settled(h), Below(h.todo), h.state \in Away, h.queue # << >>,
           NEW r \in ToSet(h.queue) \cup {None}
    PROVE  LET g == Call(h, << DoConnect(r) >>)
           IN  /\ Sound(g) /\ g.queue = h.queue /\ g.fate = h.fate
               /\ g.copies = h.copies
  <1> DEFINE g == Call(h, << DoConnect(r) >>)
             t == << DoConnect(r) >> \o h.todo
  <1>1. Typed(h) /\ QueueOK(h) /\ CallsOK(h) /\ TopOK(h) /\ StateOK(h) /\ StreamOK(h)
    BY DEF Settled
  <1>2. /\ DOMAIN g = Names /\ g.state = h.state /\ g.detect = h.detect
        /\ g.reading = h.reading /\ g.writing = h.writing /\ g.copies = h.copies
        /\ g.peer = h.peer /\ g.input = h.input /\ g.connecting = h.connecting
        /\ g.queue = h.queue /\ g.deferred = h.deferred /\ g.freed = h.freed
        /\ g.aborted = h.aborted /\ g.unattempted = h.unattempted /\ g.fate = h.fate
        /\ g.got = h.got /\ g.framing = h.framing /\ g.todo = t
    BY <1>1 DEF Typed, Names, Call
  <1> HIDE DEF g
  <1>3. DoConnect(r) \in Frame /\ DoConnect(r).do = "connect" /\ DoConnect(r).for = r
    BY <1>1 DEF DoConnect, Frame, QueueOK
  <1>4. /\ t \in Seq(Frame) /\ t # << >> /\ Head(t) = DoConnect(r) /\ Tail(t) = h.todo
        /\ ToSet(t) = ToSet(h.todo) \cup {DoConnect(r)} /\ Distinct(t)
    BY <1>1, <1>3, Pushed DEF Typed, CallsOK
  <1> HIDE DEF t
  <1>5. Typed(g)
    BY <1>1, <1>2, <1>4 DEF Typed
  <1>6. QueueOK(g)
    BY <1>1, <1>2 DEF QueueOK
  <1>7. CallsOK(g)
    <2> SUFFICES ASSUME NEW c \in ToSet(t)
                 PROVE  /\ c.do = "user" => /\ c.for \in Requests /\ h.state \notin Reading
                                            /\ h.fate[c.for] \in {"failing", "replying"}
                        /\ c.do = "connected" =>
                              h.state \in Away /\ (h.freed \/ h.unattempted \/ h.connecting)
      BY <1>2, <1>4 DEF CallsOK
    <2>1. CASE c = DoConnect(r)
      BY <1>3, <2>1
    <2>2. CASE c \in ToSet(h.todo)
      BY <1>1, <2>2 DEF CallsOK
    <2> QED BY <1>4, <2>1, <2>2
  <1>8. TopOK(g) /\ Top(g, "connect")
    BY <1>2, <1>3, <1>4 DEF TopOK, Top
  <1>9. StateOK(g)
    <2>1. h.state = "firstline" => FALSE
      BY DEF Away
    <2> QED BY <1>1, <1>2, <1>4, <2>1 DEF StateOK
  <1>10. StreamOK(g)
    BY <1>1, <1>2 DEF StreamOK, Stream
  <1> QED BY <1>2, <1>5, <1>6, <1>7, <1>8, <1>9, <1>10
        DEF Sound, Settled, Attempted, g

\* The oldest is answered, and the next one may go out.
Answered(h, g) ==
    /\ Oldest(h, g, "replying") /\ h.copies[Head(h.queue)] = 1
    /\ \/ g.copies = h.copies
       \/ /\ g.queue # << >>
          /\ g.copies = [h.copies EXCEPT ![Head(g.queue)] = 1]

\* The reply of the oldest request is complete: the next one goes out, or the
\* connection is closed and made again, or it is watched.
LEMMA DoneSound ==
    ASSUME NEW h, Mid(h), h.todo = << >>, h.queue # << >>, h.state \in Reading,
           h.detect = FALSE, h.connecting = FALSE, h.writing = FALSE,
           h.framing = "close" \/ (Stream(h) = << >> /\ h.peer.asked = << >>),
           h.copies[Head(h.queue)] = 1
    PROVE  Sound(Done(h)) /\ Answered(h, Done(h))
  <1> DEFINE r == Head(h.queue)
             taken == [h EXCEPT !.queue = Tail(@), !.fate[r] = "replying",
                                !.state = "idle", !.framing = None]
             kept == IF h.framing = "close" THEN Reset(taken) ELSE taken
  <1>1. Typed(h) /\ QueueOK(h) /\ CallsOK(h) /\ Below(h.todo)
        /\ ~h.aborted /\ ~h.deferred /\ ~h.freed
    BY DEF Mid
  <1>2. /\ DOMAIN taken = Names /\ taken.queue = Tail(h.queue) /\ taken.state = "idle"
        /\ taken.fate = [h.fate EXCEPT ![r] = "replying"] /\ taken.got = h.got
        /\ taken.copies = h.copies /\ taken.todo = << >> /\ taken.detect = FALSE
        /\ ~taken.aborted /\ ~taken.deferred /\ ~taken.freed /\ taken.connecting = FALSE
        /\ taken.writing = FALSE /\ taken.reading = h.reading
        /\ taken.peer = h.peer /\ taken.input = h.input
    BY <1>1 DEF Typed, Names
  <1> HIDE DEF taken
  <1>3. /\ h.queue \in Seq(Requests) /\ r \in Requests /\ Tail(h.queue) \in Seq(Requests)
        /\ IsInjective(Tail(h.queue)) /\ ToSet(Tail(h.queue)) = ToSet(h.queue) \ {r}
        /\ r \in ToSet(h.queue)
    BY <1>1, HeadTailFacts DEF Typed, QueueOK
  <1>4. \A x \in Requests : taken.fate[x] = IF x = r THEN "replying" ELSE h.fate[x]
    BY <1>1, <1>2 DEF Typed
  <1>5. /\ taken.fate \in [Requests -> Fates]
        /\ ToSet(Tail(h.queue)) = {x \in Requests : taken.fate[x] = "queued"}
        /\ \A x \in Requests : taken.fate[x] \in {"new", "queued"} => h.copies[x] = 0
        /\ taken.fate[r] = "replying"
    BY <1>1, <1>2, <1>3, <1>4 DEF QueueOK, Typed, Fates
  <1>6. Typed(taken)
    BY <1>1, <1>2, <1>3, <1>5 DEF Typed, States, Connected
  <1>7. /\ \A t \in Seq(Frame) : t = << >> => Below(t) /\ Distinct(t)
        /\ << >> \in Seq(Frame) /\ ToSet(<< >>) = {}
    BY DEF Below, Distinct, ToSet
  <1>8. CASE h.framing = "close"
    <2>1. /\ DOMAIN kept = Names /\ kept.state = "disconnected" /\ kept.peer = NoPeer
          /\ kept.input = << >> /\ kept.reading = FALSE
          /\ kept.writing = FALSE /\ kept.connecting = FALSE
          /\ kept.queue = Tail(h.queue) /\ kept.detect = FALSE /\ ~kept.deferred
          /\ kept.todo = << >> /\ ~kept.freed /\ ~kept.aborted
          /\ kept.copies = h.copies /\ kept.fate = taken.fate /\ kept.got = h.got
      BY ZenonT(30), <1>2, <1>8, ResetFields
    <2> HIDE DEF kept
    <2>2. Typed(kept)
      <3>1. kept.peer \in Peers /\ kept.state \in States
        BY <2>1 DEF NoPeer, Peers, States
      <3>2. kept.copies \in [Requests -> Nat] /\ kept.got \in [Requests -> SUBSET Requests]
        BY <1>1, <2>1 DEF Typed
      <3>3. /\ kept.queue \in Seq(Requests) /\ kept.input \in Seq(Piece)
            /\ kept.todo \in Seq(Frame)
        BY <1>3, <2>1
      <3> QED BY <1>5, <2>1, <3>1, <3>2, <3>3 DEF Typed
    <2>3. QueueOK(kept)
      BY <1>1, <1>3, <1>5, <2>1 DEF QueueOK, Busy, Reading
    <2>4. CallsOK(kept) /\ TopOK(kept) /\ Below(kept.todo)
      BY <1>7, <2>1 DEF CallsOK, TopOK, Top
    <2>5. StateOK(kept)
      BY <2>1 DEF StateOK, Busy, Reading
    <2>6. StreamOK(kept)
      BY <2>1 DEF StreamOK, Stream, Reading, NoPeer
    <2>7. Settled(kept)
      BY <2>2, <2>3, <2>4, <2>5, <2>6 DEF Settled
    <2> DEFINE c == Call(kept, << CallUser(r) >>)
    <2>8. Settled(c) /\ Below(c.todo) /\ c.queue = kept.queue /\ c.state = kept.state
          /\ c.fate = kept.fate /\ c.copies = kept.copies
      BY <1>3, <1>5, <1>7, <2>1, <2>4, <2>7, PushUser DEF Reading
    <2> HIDE DEF c
    <2>9. CASE Tail(h.queue) = << >>
      <3>1. Done(h) = c
        BY <2>1, <2>9 DEF Done, c, kept, taken
      <3> QED BY <1>2, <2>1, <2>8, <2>9, <3>1 DEF Sound, Attempted, Answered, Oldest
    <2>10. CASE Tail(h.queue) # << >>
      <3> DEFINE d == Call(c, << DoConnect(None) >>)
      <3>1. Sound(d) /\ d.queue = c.queue /\ d.fate = c.fate /\ d.copies = c.copies
        BY <2>1, <2>8, <2>10, PushConnect DEF Away
      <3>2. Done(h) = Call(kept, << DoConnect(None), CallUser(r) >>)
        BY <2>1, <2>10 DEF Done, kept, taken
      <3>3. Done(h) = d
        <4>1. c.todo = << CallUser(r) >> \o << >>
          BY <2>1 DEF c, Call, Names
        <4>2. << DoConnect(None) >> \o (<< CallUser(r) >> \o << >>)
                = << DoConnect(None), CallUser(r) >> \o << >>
          <5>0. CallUser(r) \in Frame /\ DoConnect(None) \in Frame
            BY <1>3 DEF CallUser, DoConnect, Frame
          <5>1. /\ << CallUser(r) >> \in Seq(Frame)
                /\ << DoConnect(None), CallUser(r) >> \in Seq(Frame)
            BY <5>0
          <5>2. << DoConnect(None) >> \o << CallUser(r) >> = << DoConnect(None), CallUser(r) >>
            BY <5>0, TwoInARow
          <5> QED BY <5>1, <5>2, ConcatEmptySeq
        <4> QED BY <2>1, <3>2, <4>1, <4>2 DEF c, Call, Names
      <3> HIDE DEF d
      <3> QED BY <1>2, <2>1, <2>8, <3>1, <3>3 DEF Answered, Oldest
    <2> QED BY <2>9, <2>10
  <1>9. CASE h.framing # "close"
    <2>1. kept = taken /\ Stream(taken) = << >> /\ taken.peer.asked = << >>
      BY <1>2, <1>9 DEF Stream
    <2>2. CallsOK(taken) /\ TopOK(taken) /\ Below(taken.todo)
      BY <1>2, <1>7 DEF CallsOK, TopOK, Top
    <2>3. CASE Tail(h.queue) = << >>
      <3> DEFINE k == DetectClose(taken)
                 c == Call(k, << CallUser(r) >>)
      <3>1. /\ DOMAIN k = Names /\ k.queue = << >> /\ k.state = "idle"
            /\ k.fate = taken.fate /\ k.got = h.got
            /\ k.copies = h.copies /\ k.todo = << >> /\ k.detect = TRUE
            /\ ~k.aborted /\ ~k.deferred /\ ~k.freed /\ k.connecting = FALSE
            /\ k.writing = FALSE /\ k.reading = TRUE
            /\ k.peer = h.peer /\ k.input = h.input
        BY <1>2, <2>3 DEF DetectClose, Names
      <3> HIDE DEF k
      <3>2. Typed(k)
        BY ZenonT(30), <1>2, <1>6, <2>3, <3>1 DEF Typed
      <3>3. QueueOK(k)
        <4>1. k.queue = Tail(h.queue) /\ k.state \notin Busy
          BY <2>3, <3>1 DEF Busy, Reading
        <4> QED BY <1>1, <1>3, <1>5, <3>1, <4>1 DEF QueueOK
      <3>4. CallsOK(k) /\ TopOK(k) /\ Below(k.todo)
        BY <1>7, <3>1 DEF CallsOK, TopOK, Top
      <3>5. StateOK(k)
        BY <3>1 DEF StateOK, Busy, Reading
      <3>6. StreamOK(k)
        BY <1>2, <2>1, <3>1 DEF StreamOK, Stream, Reading
      <3>7. Settled(k)
        BY <3>2, <3>3, <3>4, <3>5, <3>6 DEF Settled
      <3>8. Settled(c) /\ c.queue = k.queue /\ c.state = k.state
            /\ c.fate = k.fate /\ c.copies = k.copies
        BY <1>3, <1>5, <1>7, <3>1, <3>4, <3>7, PushUser DEF Reading
      <3> HIDE DEF c
      <3>9. Done(h) = c
        BY <1>2, <2>1, <2>3 DEF Done, c, k, kept, taken
      <3> QED BY <1>2, <2>3, <3>1, <3>8, <3>9 DEF Sound, Attempted, Answered, Oldest
    <2>4. CASE Tail(h.queue) # << >>
      <3> DEFINE k == Dispatch(taken)
                 c == Call(k, << CallUser(r) >>)
      <3>1. Sound(k) /\ Below(k.todo) /\ k.copies = [h.copies EXCEPT ![Head(Tail(h.queue))] = 1]
        <4>1. /\ IsInjective(taken.queue)
              /\ ToSet(taken.queue) = {x \in Requests : taken.fate[x] = "queued"}
              /\ \A x \in Requests : taken.got[x] \subseteq {x}
              /\ \A x \in Requests : taken.fate[x] \in {"new", "queued"}
                                      => taken.copies[x] = 0
          BY <1>1, <1>2, <1>3, <1>5 DEF QueueOK
        <4>2. taken.queue # << >> /\ taken.copies = h.copies /\ taken.queue = Tail(h.queue)
          BY <1>2, <2>4
        <4>3. Sound(k) /\ Below(k.todo)
              /\ k.copies = [taken.copies EXCEPT ![Head(taken.queue)] = 1]
          BY <1>2, <1>6, <2>1, <2>2, <4>1, <4>2, DispatchSound
        <4> QED BY <4>2, <4>3
      <3>2. /\ k.state = "writing" /\ k.queue = Tail(h.queue) /\ k.fate = taken.fate
            /\ k.todo = << >>
        BY <1>2, <1>6, <2>4, DispatchFields
      <3> HIDE DEF k
      <3>3. Settled(c) /\ c.queue = k.queue /\ c.state = k.state
            /\ c.fate = k.fate /\ c.copies = k.copies
        <4>1. /\ Settled(k) /\ k.state \notin Reading /\ CallUser(r) \notin ToSet(k.todo)
              /\ k.fate[r] \in {"failing", "replying"}
          BY <1>5, <1>7, <3>1, <3>2 DEF Reading, Sound
        <4> QED BY <1>3, <3>1, <4>1, PushUser
      <3> HIDE DEF c
      <3>4. Done(h) = c
        BY <1>2, <2>1, <2>4 DEF Done, c, k, kept, taken
      <3> QED BY ZenonT(30), <1>2, <2>4, <3>1, <3>2, <3>3, <3>4 DEF Sound, Attempted, Answered, Oldest
    <2> QED BY <2>3, <2>4
  <1> QED BY <1>8, <1>9

\* The outcomes of an error, as far as the requests go.
Failed(h, g) == Oldest(h, g, "failing") /\ g.copies = h.copies
Kept(h, g) == g.queue = h.queue /\ g.fate = h.fate /\ g.copies = h.copies

\* An error or the end of the data: all requests fail while connecting, one
\* is complete when its reply ends so, one fails, or an idle connection closes.
LEMMA ErrorSound ==
    ASSUME NEW h, Mid(h), h.todo = << >>,
           NEW what, h.state \in Busy \cup {"idle", "connecting"},
           h.detect = (h.state = "idle"), h.queue = << >> <=> h.state = "idle",
           h.connecting = FALSE, h.writing = FALSE
    PROVE  LET g == ErrorCb(h, what)
           IN  /\ Sound(g)
               /\ \/ Failed(h, g) \/ Answered(h, g) \/ Kept(h, g)
                  \/ h.state = "connecting" /\ All(h, g, "failing")
  <1> DEFINE g == ErrorCb(h, what)
  <1>1. Typed(h) /\ QueueOK(h) /\ CallsOK(h) /\ Below(h.todo)
        /\ ~h.aborted /\ ~h.deferred /\ ~h.freed
    BY DEF Mid
  <1>2. \A c \in ToSet(h.todo) : FALSE
    BY DEF ToSet
  <1>3. CASE h.state = "connecting" /\ what = "timeout"
    <2>1. g = Cleanup(h)
      BY <1>3 DEF ErrorCb
    <2>2. h.state \notin Busy /\ h.detect = FALSE
      BY <1>3 DEF Busy, Reading
    <2> QED BY <1>3, <2>1, <2>2, CleanupSound
  <1>4. CASE h.state = "body" /\ h.framing = "close" /\ what = "eof"
    <2>1. g = Done(h)
      BY <1>4 DEF ErrorCb
    <2>2. h.state \in Reading /\ h.detect = FALSE /\ h.queue # << >>
      BY <1>4 DEF Reading
    <2>3. h.copies[Head(h.queue)] = 1
      <3>1. Head(h.queue) \in Requests /\ h.fate[Head(h.queue)] = "queued"
        BY <1>1, <2>2, HeadTailFacts DEF Typed, QueueOK
      <3> QED BY <1>1, <2>2, <3>1 DEF QueueOK, Busy
    <2> QED BY <1>4, <2>1, <2>2, <2>3, DoneSound
  <1>5. CASE /\ ~(h.state = "connecting" /\ what = "timeout")
             /\ ~(h.state = "body" /\ h.framing = "close" /\ what = "eof")
             /\ h.state = "idle"
    <2> DEFINE p == [h EXCEPT !.detect = FALSE]
    <2>1. g = Reset(p)
      BY <1>5 DEF ErrorCb
    <2>2. /\ DOMAIN p = Names /\ p.queue = << >> /\ p.fate = h.fate
          /\ p.todo = << >> /\ p.copies = h.copies /\ p.got = h.got /\ p.detect = FALSE
          /\ ~p.aborted /\ ~p.deferred /\ ~p.freed
      BY <1>1, <1>5 DEF Typed, Names
    <2> HIDE DEF p
    <2> DEFINE q == Reset(p)
    <2>a. /\ DOMAIN q = Names /\ q.state = "disconnected" /\ q.peer = NoPeer
          /\ q.input = << >> /\ q.reading = FALSE
          /\ q.writing = FALSE /\ q.connecting = FALSE
          /\ q.queue = << >> /\ q.detect = FALSE /\ ~q.deferred
          /\ q.todo = << >> /\ ~q.freed /\ ~q.aborted
          /\ q.copies = h.copies /\ q.fate = h.fate /\ q.got = h.got
      BY <2>2, ResetFields
    <2>b. g = q
      BY <2>1
    <2> HIDE DEF q, g
    <2>3. /\ DOMAIN g = Names /\ g.state = "disconnected" /\ g.peer = NoPeer
          /\ g.input = << >> /\ g.reading = FALSE
          /\ g.writing = FALSE /\ g.connecting = FALSE
          /\ g.queue = << >> /\ g.detect = FALSE /\ ~g.deferred
          /\ g.todo = << >> /\ ~g.freed /\ ~g.aborted
          /\ g.copies = h.copies /\ g.fate = h.fate /\ g.got = h.got
      BY <2>a, <2>b
    <2> HIDE DEF g
    <2>4. Typed(g)
      <3>1. g.peer \in Peers /\ g.state \in States
        BY <2>3 DEF NoPeer, Peers, States
      <3>2. /\ g.copies \in [Requests -> Nat] /\ g.got \in [Requests -> SUBSET Requests]
            /\ g.fate \in [Requests -> Fates]
        BY <1>1, <2>3 DEF Typed
      <3>3. g.queue \in Seq(Requests) /\ g.input \in Seq(Piece) /\ g.todo \in Seq(Frame)
        BY <2>3
      <3> QED BY <2>3, <3>1, <3>2, <3>3 DEF Typed
    <2>5. QueueOK(g)
      BY <1>1, <1>5, <2>3 DEF QueueOK, Busy, Reading
    <2>6. CallsOK(g) /\ TopOK(g)
      BY <2>3 DEF CallsOK, TopOK, Top, Distinct, ToSet
    <2>7. StateOK(g) /\ Attempted(g)
      BY <2>3 DEF StateOK, Attempted, Busy, Reading
    <2>8. StreamOK(g)
      BY <2>3 DEF StreamOK, Stream, Reading, NoPeer
    <2> QED BY <1>5, <2>3, <2>4, <2>5, <2>6, <2>7, <2>8 DEF Sound, Settled, Kept, g
  <1>6. CASE /\ ~(h.state = "connecting" /\ what = "timeout")
             /\ ~(h.state = "body" /\ h.framing = "close" /\ what = "eof")
             /\ h.state # "idle"
    <2>1. g = Fail(h) /\ h.detect = FALSE /\ h.queue # << >>
      BY <1>6 DEF ErrorCb
    <2> QED BY <1>2, <2>1, FailSound DEF Failed
  <1> QED BY <1>3, <1>4, <1>5, <1>6

\* What evhttp_make_request does to the queue.
Posted(h, g, r) ==
    /\ g.queue = Append(h.queue, r) /\ g.fate = [h.fate EXCEPT ![r] = "queued"]
    /\ \/ g.copies = h.copies
       \/ h.queue = << >> /\ g.copies = [h.copies EXCEPT ![r] = 1]

\* A request is queued: it is dispatched, waits for the one before it, or for
\* the connection to be made.
LEMMA PostSound ==
    ASSUME EvHttpAssumption, NEW h, Sound(h), Below(h.todo), ~h.freed,
           NEW r \in Requests, h.fate[r] = "new"
    PROVE  Sound(Post(h, r)) /\ Posted(h, Post(h, r), r)
  <1> DEFINE q == [h EXCEPT !.queue = Append(@, r), !.fate[r] = "queued"]
             g == Post(h, r)
  <1>1. Typed(h) /\ QueueOK(h) /\ CallsOK(h) /\ TopOK(h) /\ StateOK(h) /\ StreamOK(h)
    BY DEF Sound, Settled
  <1>2. /\ DOMAIN q = Names /\ q.state = h.state /\ q.detect = h.detect
        /\ q.reading = h.reading /\ q.writing = h.writing /\ q.copies = h.copies
        /\ q.peer = h.peer /\ q.input = h.input /\ q.connecting = h.connecting
        /\ q.deferred = h.deferred /\ q.freed = h.freed /\ q.todo = h.todo
        /\ q.aborted = h.aborted /\ q.unattempted = h.unattempted
        /\ q.got = h.got /\ q.framing = h.framing
        /\ q.queue = Append(h.queue, r) /\ q.fate = [h.fate EXCEPT ![r] = "queued"]
    BY <1>1 DEF Typed, Names
  <1> HIDE DEF q
  <1>3. r \notin ToSet(h.queue)
    BY <1>1 DEF QueueOK
  <1>4. /\ q.queue \in Seq(Requests) /\ IsInjective(q.queue) /\ q.queue # << >>
        /\ ToSet(q.queue) = ToSet(h.queue) \cup {r}
        /\ Head(q.queue) = IF h.queue = << >> THEN r ELSE Head(h.queue)
    <2>1. h.queue \in Seq(Requests) /\ IsInjective(h.queue)
      BY <1>1 DEF Typed, QueueOK
    <2>2. /\ Append(h.queue, r) \in Seq(Requests) /\ Append(h.queue, r) # << >>
          /\ Head(Append(h.queue, r)) = IF h.queue = << >> THEN r ELSE Head(h.queue)
      BY <2>1, AppendProperties, HeadTailAppend
    <2>3. /\ ToSet(Append(h.queue, r)) = ToSet(h.queue) \cup {r}
          /\ IsInjective(Append(h.queue, r))
      BY <1>3, <2>1, AppendFacts
    <2> QED BY <1>2, <2>2, <2>3
  <1>5. \A x \in Requests : q.fate[x] = IF x = r THEN "queued" ELSE h.fate[x]
    BY <1>1, <1>2 DEF Typed
  <1>6. h.queue # << >> => Head(h.queue) \in ToSet(h.queue)
    BY <1>1, HeadTailFacts DEF Typed, QueueOK
  <1>7. h.copies[r] = 0
    BY <1>1, <1>3, <1>6 DEF QueueOK
  <1>8. Typed(q)
    <2>1. q.fate \in [Requests -> Fates]
      BY <1>1, <1>2 DEF Typed, Fates
    <2> QED BY <1>1, <1>2, <1>4, <2>1 DEF Typed
  <1>9. ToSet(q.queue) = {x \in Requests : q.fate[x] = "queued"}
    BY <1>1, <1>4, <1>5 DEF QueueOK
  <1>10. CallsOK(q)
    BY <1>1, <1>2, <1>5 DEF CallsOK
  <1>11. TopOK(q) /\ ~Top(q, "connect") /\ ~Top(q, "read")
    <2>1. h.todo # << >> => Head(h.todo) \in ToSet(h.todo)
      BY <1>1, PoppedOff DEF Typed
    <2>2. h.todo # << >> => Head(h.todo).do \in {"user", "connected"}
      BY <2>1 DEF Below
    <2> QED BY <1>1, <1>2, <2>2 DEF TopOK, Top
  <1>12. CASE h.state = "idle"
    <2>1. h.queue = << >> /\ h.connecting = FALSE /\ ~h.deferred /\ ~h.aborted
      BY <1>1, <1>12 DEF StateOK, Typed
    <2>2. /\ g = Dispatch(q)
      BY <1>12, <2>1 DEF Post, Connected, q
    <2>3. Stream(q) = << >> /\ q.peer.asked = << >>
      BY <1>1, <1>2, <1>12 DEF StreamOK, Stream, Reading
    <2>4. \A x \in Requests : q.fate[x] \in {"new", "queued"} => q.copies[x] = 0
      <3>1. \A x \in Requests : h.fate[x] \in {"new", "queued"} => h.copies[x] = 0
        BY <1>1, <2>1 DEF QueueOK
      <3> QED BY <1>2, <1>5, <1>7, <3>1
    <2>5. \A x \in Requests : q.got[x] \subseteq {x}
      BY <1>1, <1>2 DEF QueueOK
    <2>9. q.queue # << >>
      BY <1>4
    <2>8. /\ q.state = "idle" /\ q.connecting = FALSE /\ Below(q.todo)
          /\ ~q.aborted /\ ~q.deferred /\ ~q.freed
      BY <1>2, <1>12, <2>1
    <2>6. Sound(Dispatch(q)) /\ Dispatch(q).copies = [q.copies EXCEPT ![Head(q.queue)] = 1]
      <3>1. IsInjective(q.queue)
        BY <1>4
      <3> QED BY <1>8, <1>9, <1>10, <2>3, <2>4, <2>5, <2>8, <2>9, <3>1, DispatchSound
    <2>7. Dispatch(q).queue = q.queue /\ Dispatch(q).fate = q.fate
      BY <1>8, <2>8, <2>9, DispatchFields
    <2> QED BY <1>2, <1>4, <2>1, <2>2, <2>6, <2>7 DEF Posted
  <1>13. CASE h.state # "idle"
    <2>1. h.state \in Busy => h.queue # << >>
      BY <1>1 DEF StateOK
    <2>2. QueueOK(q)
      <3>1. \A x \in Requests : q.fate[x] \in {"new", "queued"} =>
              q.copies[x] = IF q.state \in Busy /\ q.queue # << >> /\ x = Head(q.queue)
                            THEN 1 ELSE 0
        BY <1>1, <1>2, <1>3, <1>4, <1>5, <1>6, <1>7, <2>1 DEF QueueOK
      <3> QED BY <1>1, <1>2, <1>4, <1>9, <3>1 DEF QueueOK
    <2>3. StateOK(q)
      BY <1>1, <1>2, <1>4, <1>13 DEF StateOK
    <2>4. StreamOK(q)
      <3>1. h.state \in Reading => Head(q.queue) = Head(h.queue)
        BY <1>4, <2>1 DEF Busy
      <3>2. Stream(q) = Stream(h)
        BY <1>2 DEF Stream
      <3> QED BY <1>1, <1>2, <3>1, <3>2 DEF StreamOK
    <2>5. Settled(q)
      BY <1>8, <1>10, <1>11, <2>2, <2>3, <2>4 DEF Settled
    <2>6. CASE h.state \in Connected
      <3>1. h.queue # << >>
        BY <1>13, <2>1, <2>6 DEF Busy, Reading, Connected
      <3>2. g = q
        BY <2>6, <3>1 DEF Post, q
      <3>3. Attempted(q)
        BY <1>2, <2>6 DEF Attempted, Connected
      <3> QED BY <1>2, <2>5, <3>2, <3>3 DEF Sound, Posted
    <2>7. CASE h.state \notin Connected
      <3>1. g = Call(q, << DoConnect(r) >>)
        BY <2>7 DEF Post, q
      <3>2. q.state \in Away /\ r \in ToSet(q.queue) /\ Below(q.todo)
        BY <1>1, <1>2, <1>4, <2>7 DEF Typed, States, Away
      <3>3. Sound(g) /\ g.queue = q.queue /\ g.fate = q.fate /\ g.copies = q.copies
        <4> HIDE DEF g
        <4>1. q.queue # << >>
          BY <1>4
        <4> QED BY <2>5, <3>1, <3>2, <4>1, PushConnect
      <3> HIDE DEF g
      <3> QED BY <1>2, <3>3 DEF Posted, g
    <2> QED BY <2>6, <2>7
  <1> QED BY <1>12, <1>13

\* evhttp_connection_free: the queued requests are dropped.
LEMMA FreeSound ==
    ASSUME NEW h, Sound(h), Below(h.todo)
    PROVE  Sound(Free(h)) /\ All(h, Free(h), "dropped")
  <1> DEFINE p == Reset(h)
             f == [r \in Requests |-> IF r \in ToSet(h.queue) THEN "dropped"
                                      ELSE p.fate[r]]
             g == [p EXCEPT !.freed = TRUE, !.queue = << >>, !.deferred = FALSE,
                            !.detect = FALSE, !.fate = f]
  <1>1. Typed(h) /\ QueueOK(h) /\ CallsOK(h) /\ TopOK(h) /\ ~h.aborted
    BY DEF Sound, Settled, StateOK
  <1>2. /\ DOMAIN p = Names /\ p.state = "disconnected" /\ p.peer = NoPeer
        /\ p.input = << >> /\ p.reading = FALSE
        /\ p.writing = FALSE /\ p.connecting = FALSE
        /\ p.todo = h.todo /\ ~p.aborted /\ p.copies = h.copies
        /\ p.fate = h.fate /\ p.got = h.got
    BY <1>1, ResetFields DEF Typed
  <1> HIDE DEF p
  <1>3. Free(h) = g
    BY <1>2 DEF Free, p, Names
  <1>4. /\ DOMAIN g = Names /\ g.state = "disconnected" /\ g.peer = NoPeer
        /\ g.input = << >> /\ g.reading = FALSE
        /\ g.writing = FALSE /\ g.connecting = FALSE /\ g.queue = << >>
        /\ g.detect = FALSE /\ g.deferred = FALSE /\ g.freed = TRUE
        /\ g.todo = h.todo /\ ~g.aborted /\ g.copies = h.copies
        /\ g.fate = f /\ g.got = h.got
    <2> HIDE DEF f
    <2> QED BY <1>2 DEF Names
  <1>5. f = [r \in Requests |-> IF r \in ToSet(h.queue) THEN "dropped" ELSE h.fate[r]]
    BY <1>2
  <1> HIDE DEF f, g
  <1>6. \A x \in Requests : g.fate[x] = IF x \in ToSet(h.queue) THEN "dropped" ELSE h.fate[x]
    BY <1>4, <1>5
  <1>7. \A x \in Requests : x \in ToSet(h.queue) <=> h.fate[x] = "queued"
    BY <1>1 DEF QueueOK
  <1>8. Typed(g)
    <2>1. g.fate \in [Requests -> Fates]
      BY <1>1, <1>4, <1>5 DEF Typed, Fates
    <2>2. g.peer \in Peers /\ g.state \in States
      BY <1>4 DEF NoPeer, Peers, States
    <2>3. g.queue \in Seq(Requests) /\ g.input \in Seq(Piece) /\ g.todo \in Seq(Frame)
      BY <1>1, <1>4 DEF Typed
    <2>4. g.copies \in [Requests -> Nat] /\ g.got \in [Requests -> SUBSET Requests]
      BY <1>1, <1>4 DEF Typed
    <2> QED BY <1>4, <2>1, <2>2, <2>3, <2>4 DEF Typed
  <1>9. QueueOK(g)
    <2>1. ToSet(g.queue) = {} /\ IsInjective(g.queue)
      BY <1>4 DEF ToSet, IsInjective
    <2>2. \A x \in Requests : g.fate[x] # "queued"
      BY <1>6, <1>7
    <2>3. \A x \in Requests : g.fate[x] = "new" => h.fate[x] = "new" /\ h.copies[x] = 0
      <3> SUFFICES ASSUME NEW x \in Requests, g.fate[x] = "new"
                   PROVE  h.fate[x] = "new" /\ h.copies[x] = 0
        OBVIOUS
      <3>1. h.fate[x] = "new" /\ x \notin ToSet(h.queue)
        BY <1>6, <1>7
      <3>2. h.queue # << >> => Head(h.queue) \in ToSet(h.queue)
        BY <1>1, HeadTailFacts DEF Typed, QueueOK
      <3> QED BY <1>1, <3>1, <3>2 DEF QueueOK
    <2> QED BY <1>1, <1>4, <2>1, <2>2, <2>3 DEF QueueOK
  <1>10. CallsOK(g)
    BY <1>1, <1>4, <1>6, <1>7 DEF CallsOK, Reading, Away
  <1>11. TopOK(g)
    <2>1. h.todo # << >> => Head(h.todo) \in ToSet(h.todo)
      BY <1>1, PoppedOff DEF Typed
    <2>2. h.todo # << >> => Head(h.todo).do \in {"user", "connected"}
      BY <2>1 DEF Below
    <2> QED BY <1>1, <1>4, <2>2 DEF TopOK, Top
  <1>12. StateOK(g) /\ Attempted(g)
    BY <1>4 DEF StateOK, Attempted, Busy, Reading
  <1>13. StreamOK(g)
    BY <1>4 DEF StreamOK, Stream, Reading, NoPeer
  <1> QED BY <1>3, <1>4, <1>5, <1>8, <1>9, <1>10, <1>11, <1>12, <1>13
        DEF Sound, Settled, All

-----------------------------------------------------------------------------
\* What users of the connection see of a step.
Outcome(h) == [r \in Requests |-> EndOf(h.fate[r])]
Quiet(h, g) == g.queue = h.queue /\ g.copies = h.copies /\ Outcome(g) = Outcome(h)
Moves(h, g) ==
    \/ Quiet(h, g)
    \/ \E r \in Requests :
          /\ Outcome(h)[r] = "new" /\ g.queue = Append(h.queue, r)
          /\ Outcome(g) = [Outcome(h) EXCEPT ![r] = "open"]
          /\ \/ g.copies = h.copies
             \/ h.queue = << >> /\ g.copies = [h.copies EXCEPT ![r] = 1]
    \/ \E r \in Requests :
          /\ Outcome(h)[r] = "open" /\ h.copies[r] = 0 /\ g.copies = h.copies
          /\ g.queue = RemoveFirst(h.queue, r)
          /\ Outcome(g) = [Outcome(h) EXCEPT ![r] = "refused"]
    \/ /\ h.queue # << >> /\ h.copies[Head(h.queue)] = 0
       /\ g.copies = [h.copies EXCEPT ![Head(h.queue)] = 1]
       /\ g.queue = h.queue /\ Outcome(g) = Outcome(h)
    \/ /\ h.queue # << >> /\ h.copies[Head(h.queue)] = 1
       /\ g.queue = Tail(h.queue)
       /\ Outcome(g) = [Outcome(h) EXCEPT ![Head(h.queue)] = "answered"]
       /\ \/ g.copies = h.copies
          \/ /\ g.queue # << >>
             /\ g.copies = [h.copies EXCEPT ![Head(g.queue)] = 1]
    \/ /\ h.queue # << >> /\ g.queue = Tail(h.queue) /\ g.copies = h.copies
       /\ Outcome(g) = [Outcome(h) EXCEPT ![Head(h.queue)] = "failed"]
    \/ \E how \in {"failed", "dropped"} :
          /\ how = "failed" => h.queue # << >> /\ h.copies[Head(h.queue)] = 0
          /\ g.queue = << >> /\ g.copies = h.copies
          /\ Outcome(g) = [r \in Requests |-> IF r \in ToSet(h.queue) THEN how
                                              ELSE Outcome(h)[r]]

\* Such a step is one the promise allows.
LEMMA MovesKeepPromise ==
    ASSUME Moves(http, http')
    PROVE  [Promise!Next]_Promise!vars
  <1>1. CASE Quiet(http, http')
    BY <1>1 DEF Quiet, Outcome, Promise!vars
  <1>2. ASSUME NEW r \in Requests,
               Outcome(http)[r] = "new", http'.queue = Append(http.queue, r),
               Outcome(http') = [Outcome(http) EXCEPT ![r] = "open"],
               \/ http'.copies = http.copies
               \/ http.queue = << >> /\ http'.copies = [http.copies EXCEPT ![r] = 1]
        PROVE  Promise!Ask(r)
    BY <1>2 DEF Outcome, Promise!Ask
  <1>3. ASSUME NEW r \in Requests,
               Outcome(http)[r] = "open", http.copies[r] = 0,
               http'.copies = http.copies,
               http'.queue = RemoveFirst(http.queue, r),
               Outcome(http') = [Outcome(http) EXCEPT ![r] = "refused"]
        PROVE  Promise!Refuse(r)
    BY <1>3 DEF Outcome, Promise!Refuse, Promise!RemoveFirst, Promise!SelectInSeq,
                Promise!RemoveAt, RemoveFirst, SelectInSeq, RemoveAt, Min, Promise!Min
  <1>4. CASE /\ http.queue # << >> /\ http.copies[Head(http.queue)] = 0
             /\ http'.copies = [http.copies EXCEPT ![Head(http.queue)] = 1]
             /\ http'.queue = http.queue /\ Outcome(http') = Outcome(http)
    BY <1>4 DEF Outcome, Promise!Next, Promise!Send
  <1>5. CASE /\ http.queue # << >> /\ http.copies[Head(http.queue)] = 1
             /\ http'.queue = Tail(http.queue)
             /\ Outcome(http') = [Outcome(http) EXCEPT ![Head(http.queue)] = "answered"]
             /\ \/ http'.copies = http.copies
                \/ /\ http'.queue # << >>
                   /\ http'.copies = [http.copies EXCEPT ![Head(http'.queue)] = 1]
    BY <1>5 DEF Outcome, Promise!Next, Promise!Answer
  <1>6. CASE /\ http.queue # << >> /\ http'.queue = Tail(http.queue)
             /\ http'.copies = http.copies
             /\ Outcome(http') = [Outcome(http) EXCEPT ![Head(http.queue)] = "failed"]
    BY <1>6 DEF Outcome, Promise!Next, Promise!FailOldest
  <1>7. ASSUME NEW how \in {"failed", "dropped"},
               how = "failed" => http.queue # << >> /\ http.copies[Head(http.queue)] = 0,
               http'.queue = << >>, http'.copies = http.copies,
               Outcome(http') = [r \in Requests |-> IF r \in ToSet(http.queue) THEN how
                                                    ELSE Outcome(http)[r]]
        PROVE  Promise!Next
    BY <1>7 DEF Outcome, Promise!Next, Promise!FailAll, Promise!Drop, Promise!EndAll,
                Promise!ToSet, ToSet
  <1> QED BY <1>1, <1>2, <1>3, <1>4, <1>5, <1>6, <1>7 DEF Moves, Promise!Next

\* What one request's change of fate is to users.
LEMMA OutcomeOf ==
    ASSUME NEW h, NEW g, h.fate \in [Requests -> Fates], NEW r \in Requests, NEW f,
           g.fate = [h.fate EXCEPT ![r] = f]
    PROVE  Outcome(g) = [Outcome(h) EXCEPT ![r] = EndOf(f)]
  <1>1. \A x \in Requests : g.fate[x] = IF x = r THEN f ELSE h.fate[x]
    OBVIOUS
  <1>2. \A x \in Requests : EndOf(g.fate[x]) = IF x = r THEN EndOf(f)
                                                ELSE EndOf(h.fate[x])
    BY <1>1
  <1> QED BY <1>2 DEF Outcome

\* What each fate of a request is to the promise.
LEMMA EndOfValues ==
    /\ EndOf("failing") = "failed" /\ EndOf("failed") = "failed"
    /\ EndOf("replying") = "answered" /\ EndOf("replied") = "answered"
    /\ EndOf("queued") = "open" /\ EndOf("new") = "new"
    /\ EndOf("dropped") = "dropped" /\ EndOf("refused") = "refused"
  BY DEF EndOf

\* The changes the functions of the connection make are steps of the promise.
LEMMA ChangesAreMoves ==
    ASSUME NEW h, NEW g, Typed(h), QueueOK(h)
    PROVE  /\ Kept(h, g) => Moves(h, g)
           /\ Failed(h, g) => Moves(h, g)
           /\ Answered(h, g) => Moves(h, g)
           /\ \A r \in Requests : h.fate[r] = "new" /\ Posted(h, g, r) => Moves(h, g)
           /\ All(h, g, "dropped") => Moves(h, g)
           /\ All(h, g, "failing") /\ h.queue # << >> /\ h.copies[Head(h.queue)] = 0
                => Moves(h, g)
  <1>1. /\ h.fate \in [Requests -> Fates]
        /\ h.queue # << >> => Head(h.queue) \in Requests
    BY HeadTailFacts DEF Typed, QueueOK
  <1>2. Kept(h, g) => Moves(h, g)
    BY DEF Kept, Moves, Quiet, Outcome
  <1>3. ASSUME Failed(h, g)
        PROVE  Moves(h, g)
    <2>1. Outcome(g) = [Outcome(h) EXCEPT ![Head(h.queue)] = "failed"]
      <3>1. /\ Head(h.queue) \in Requests
            /\ g.fate = [h.fate EXCEPT ![Head(h.queue)] = "failing"]
        BY <1>1, <1>3 DEF Failed, Oldest
      <3> QED BY <1>1, <3>1, OutcomeOf, EndOfValues
    <2> QED BY <1>3, <2>1 DEF Failed, Oldest, Moves
  <1>4. ASSUME Answered(h, g)
        PROVE  Moves(h, g)
    <2>1. Outcome(g) = [Outcome(h) EXCEPT ![Head(h.queue)] = "answered"]
      <3>1. /\ Head(h.queue) \in Requests
            /\ g.fate = [h.fate EXCEPT ![Head(h.queue)] = "replying"]
        BY <1>1, <1>4 DEF Answered, Oldest
      <3> QED BY <1>1, <3>1, OutcomeOf, EndOfValues
    <2> QED BY <1>4, <2>1 DEF Answered, Oldest, Moves
  <1>5. ASSUME NEW r \in Requests, h.fate[r] = "new", Posted(h, g, r)
        PROVE  Moves(h, g)
    <2>1. Outcome(g) = [Outcome(h) EXCEPT ![r] = "open"] /\ Outcome(h)[r] = "new"
      BY <1>5, OutcomeOf, EndOfValues DEF Posted, Typed, Outcome
    <2> QED BY <1>5, <2>1 DEF Posted, Moves
  <1>6. ASSUME NEW f \in {"failing", "dropped"}, All(h, g, f)
        PROVE  Outcome(g) = [r \in Requests |-> IF r \in ToSet(h.queue) THEN EndOf(f)
                                                ELSE Outcome(h)[r]]
    <2>1. \A r \in Requests : g.fate[r] = IF r \in ToSet(h.queue) THEN f ELSE h.fate[r]
      BY <1>6 DEF All
    <2>2. \A r \in Requests : EndOf(g.fate[r]) = IF r \in ToSet(h.queue) THEN EndOf(f)
                                                  ELSE EndOf(h.fate[r])
      BY <2>1
    <2> QED BY <2>2 DEF Outcome
  <1>7. All(h, g, "dropped") => Moves(h, g)
    BY <1>6, EndOfValues DEF All, Moves
  <1>8. All(h, g, "failing") /\ h.queue # << >> /\ h.copies[Head(h.queue)] = 0
          => Moves(h, g)
    BY <1>6, EndOfValues DEF All, Moves
  <1> QED BY <1>2, <1>3, <1>4, <1>5, <1>7, <1>8

\* What users see is the same after a change of what they do not see.
LEMMA QuietThenMoves ==
    ASSUME NEW h, NEW k, NEW g, Quiet(h, k), Moves(k, g)
    PROVE  Moves(h, g)
  BY DEF Quiet, Moves

-----------------------------------------------------------------------------
\* The call at the top of the stack is taken off it.
LEMMA PoppedFields ==
    ASSUME Typed(http)
    PROVE  LET p == Popped
           IN  /\ DOMAIN p = Names /\ p.state = http.state /\ p.detect = http.detect
               /\ p.reading = http.reading /\ p.writing = http.writing
               /\ p.copies = http.copies /\ p.peer = http.peer /\ p.input = http.input
               /\ p.connecting = http.connecting /\ p.queue = http.queue
               /\ p.deferred = http.deferred /\ p.freed = http.freed
               /\ p.aborted = http.aborted /\ p.unattempted = http.unattempted
               /\ p.fate = http.fate /\ p.got = http.got /\ p.framing = http.framing
               /\ p.todo = Tail(http.todo)
  BY DEF Typed, Names, Popped

\* A call that returns leaves the connection settled.
LEMMA PoppedSettled ==
    ASSUME HttpInv, http.todo # << >>, Head(http.todo).do # "read"
    PROVE  /\ Settled(Popped) /\ Below(Popped.todo)
           /\ ~http.deferred /\ ~http.aborted /\ http.state \notin Reading
           /\ Head(http.todo) \in Frame /\ Head(http.todo) \in ToSet(http.todo)
  <1> DEFINE p == Popped
  <1>1. /\ Typed(http) /\ QueueOK(http) /\ CallsOK(http) /\ TopOK(http)
        /\ StateOK(http) /\ StreamOK(http)
    BY DEF HttpInv, Sound, Settled
  <1>2. /\ DOMAIN p = Names /\ p.state = http.state /\ p.detect = http.detect
        /\ p.reading = http.reading /\ p.writing = http.writing
        /\ p.copies = http.copies /\ p.peer = http.peer /\ p.input = http.input
        /\ p.connecting = http.connecting /\ p.queue = http.queue
        /\ p.deferred = http.deferred /\ p.freed = http.freed
        /\ p.aborted = http.aborted /\ p.unattempted = http.unattempted
        /\ p.fate = http.fate /\ p.got = http.got /\ p.framing = http.framing
        /\ p.todo = Tail(http.todo)
    BY <1>1, PoppedFields
  <1> HIDE DEF p
  <1>3. /\ Head(http.todo) \in Frame /\ Tail(http.todo) \in Seq(Frame)
        /\ Head(http.todo) \in ToSet(http.todo)
        /\ ToSet(Tail(http.todo)) \subseteq ToSet(http.todo)
        /\ Distinct(Tail(http.todo)) /\ Below(Tail(http.todo))
    BY <1>1, PoppedOff DEF Typed, CallsOK, TopOK
  <1>4. http.state \notin Reading
    <2>1. Head(http.todo).do \in {"user", "connect", "connected"}
      BY <1>3 DEF Frame
    <2>2. CASE Head(http.todo).do = "user"
      BY <1>1, <1>3, <2>2 DEF CallsOK
    <2>3. CASE Head(http.todo).do = "connect"
      BY <1>1, <2>3 DEF TopOK, Top, Reading, Away
    <2>4. CASE Head(http.todo).do = "connected"
      BY <1>1, <1>3, <2>4 DEF CallsOK, Reading, Away
    <2> QED BY <2>1, <2>2, <2>3, <2>4
  <1>5. Typed(p)
    BY <1>1, <1>2, <1>3 DEF Typed
  <1>6. QueueOK(p) /\ StreamOK(p)
    <2>1. Stream(p) = Stream(http)
      BY <1>2 DEF Stream
    <2>2. QueueOK(p)
      BY <1>1, <1>2 DEF QueueOK
    <2> QED BY <1>1, <1>2, <2>1, <2>2 DEF StreamOK
  <1>7. CallsOK(p) /\ Below(p.todo)
    BY <1>1, <1>2, <1>3 DEF CallsOK
  <1>8. TopOK(p)
    <2>1. p.todo # << >> => /\ Head(p.todo) \in ToSet(p.todo)
                            /\ ToSet(Tail(p.todo)) \subseteq ToSet(p.todo)
      BY <1>5, PoppedOff DEF Typed
    <2> QED BY <1>7, <2>1 DEF TopOK, Top, Below
  <1>9. StateOK(p)
    <2>1. http.state # "firstline" /\ http.state \notin {"body", "trailer"}
      BY <1>4 DEF Reading
    <2> QED BY <1>1, <1>2, <2>1 DEF StateOK
  <1>10. ~http.deferred /\ ~http.aborted
    BY <1>1, <1>4 DEF StateOK, Reading
  <1> QED BY <1>3, <1>4, <1>5, <1>6, <1>7, <1>8, <1>9, <1>10 DEF Settled, p

\* A callback is called for a request that has ended, which then is its own.
LEMMA ToldSound ==
    ASSUME HttpInv, Doing("user")
    PROVE  /\ Sound(Told) /\ Below(Told.todo) /\ Quiet(http, Told)
           /\ Told.freed = http.freed
           /\ \A r \in Requests : http.fate[r] = "new" => Told.fate[r] = "new"
  <1> DEFINE p == Popped
             r == Current
             f == IF http.fate[r] = "failing" THEN "failed" ELSE "replied"
             g == Told
  <1>1. http.todo # << >> /\ Head(http.todo).do = "user" /\ Head(http.todo).for = r
    BY DEF Doing, Current
  <1>2. Settled(p) /\ Below(p.todo) /\ Head(http.todo) \in Frame
        /\ Head(http.todo) \in ToSet(http.todo) /\ http.state \notin Reading
    BY <1>1, PoppedSettled
  <1>3. /\ Typed(http) /\ QueueOK(http) /\ CallsOK(http) /\ Attempted(http)
    BY DEF HttpInv, Sound, Settled
  <1>4. /\ Typed(p) /\ QueueOK(p) /\ CallsOK(p) /\ TopOK(p) /\ StateOK(p) /\ StreamOK(p)
    BY <1>2 DEF Settled
  <1>5. /\ p.state = http.state /\ p.copies = http.copies /\ p.queue = http.queue
        /\ p.freed = http.freed /\ p.unattempted = http.unattempted
        /\ p.fate = http.fate /\ p.todo = Tail(http.todo)
    BY <1>3, PoppedFields
  <1>6. r \in Requests /\ http.fate[r] \in {"failing", "replying"}
    BY <1>1, <1>2, <1>3 DEF CallsOK
  <1>7. g = [p EXCEPT !.fate[r] = f]
    BY <1>3, <1>5 DEF Told, Typed, Names
  <1> HIDE DEF p, g, f
  <1>8. /\ DOMAIN g = Names /\ g.state = p.state /\ g.detect = p.detect
        /\ g.reading = p.reading /\ g.writing = p.writing
        /\ g.copies = p.copies /\ g.peer = p.peer /\ g.input = p.input
        /\ g.connecting = p.connecting /\ g.queue = p.queue
        /\ g.deferred = p.deferred /\ g.freed = p.freed
        /\ g.aborted = p.aborted /\ g.unattempted = p.unattempted
        /\ g.got = p.got /\ g.framing = p.framing
        /\ g.todo = p.todo /\ g.fate = [p.fate EXCEPT ![r] = f]
    BY <1>4, <1>7 DEF Typed, Names
  <1>9. \A x \in Requests : g.fate[x] = IF x = r THEN f ELSE http.fate[x]
    BY <1>3, <1>5, <1>8 DEF Typed
  <1>10. f \in {"failed", "replied"} /\ EndOf(f) = EndOf(http.fate[r])
    BY <1>6, EndOfValues DEF f
  <1>11. Typed(g)
    <2>1. g.fate \in [Requests -> Fates]
      <3>1. f \in Fates
        BY <1>10 DEF Fates
      <3>2. p.fate \in [Requests -> Fates]
        BY <1>4 DEF Typed
      <3> QED BY <1>8, <3>1, <3>2
    <2> QED BY <1>4, <1>8, <2>1 DEF Typed
  <1>12. QueueOK(g)
    <2>1. ToSet(g.queue) = {x \in Requests : g.fate[x] = "queued"}
      BY <1>4, <1>5, <1>6, <1>8, <1>9, <1>10 DEF QueueOK
    <2>2. \A x \in Requests : g.fate[x] \in {"new", "queued"} =>
             g.copies[x] = IF g.state \in Busy /\ g.queue # << >> /\ x = Head(g.queue)
                           THEN 1 ELSE 0
      <3>1. \A x \in Requests : g.fate[x] \in {"new", "queued"} => g.fate[x] = p.fate[x]
        BY <1>5, <1>9, <1>10
      <3> QED BY <1>4, <1>8, <3>1 DEF QueueOK
    <2> QED BY <1>4, <1>8, <2>1, <2>2 DEF QueueOK
  <1>13. CallsOK(g) /\ Below(g.todo)
    <2>1. Head(http.todo) \notin ToSet(p.todo)
      BY <1>1, <1>3, <1>5, PoppedOff DEF Typed, CallsOK
    <2>2. p.todo \in Seq(Frame) /\ ToSet(p.todo) \subseteq Frame
      BY <1>4 DEF Typed, ToSet
    <2>3. \A c \in ToSet(p.todo) : c.do = "user" => c.for # r
      <3> SUFFICES ASSUME NEW c \in ToSet(p.todo), c.do = "user", c.for = r
                   PROVE  FALSE
        OBVIOUS
      <3>1. c \in Frame /\ c.do = Head(http.todo).do /\ c.for = Head(http.todo).for
        BY <1>1, <2>2
      <3>2. c = Head(http.todo)
        BY <1>2, <3>1 DEF Frame
      <3> QED BY <2>1, <3>2
    <2>4. \A c \in ToSet(p.todo) : c.do = "user" => g.fate[c.for] = p.fate[c.for]
      BY <1>4, <1>5, <1>9, <2>3 DEF CallsOK
    <2> QED BY <1>2, <1>4, <1>8, <2>4 DEF CallsOK
  <1>14. TopOK(g) /\ StateOK(g) /\ StreamOK(g)
    <2>1. TopOK(g)
      BY <1>4, <1>8 DEF TopOK, Top
    <2>2. StateOK(g)
      BY <1>4, <1>8 DEF StateOK
    <2>3. StreamOK(g)
      BY <1>4, <1>8 DEF StreamOK, Stream
    <2> QED BY <2>1, <2>2, <2>3
  <1>15. Attempted(g)
    BY <1>1, <1>3, <1>5, <1>8 DEF Attempted, Top
  <1>16. Quiet(http, g)
    <2>1. Outcome(g) = Outcome(http)
      <3>1. \A x \in Requests : EndOf(g.fate[x]) = EndOf(http.fate[x])
        BY <1>9, <1>10
      <3> QED BY <3>1 DEF Outcome
    <2> QED BY <1>5, <1>8, <2>1 DEF Quiet
  <1>17. \A x \in Requests : http.fate[x] = "new" => g.fate[x] = "new"
    BY <1>6, <1>9
  <1> QED BY <1>5, <1>8, <1>11, <1>12, <1>13, <1>14, <1>15, <1>16, <1>17
        DEF Sound, Settled, g

\* The callback returns, having queued a request, freed the connection or
\* done neither.
LEMMA UserSound ==
    ASSUME EvHttpAssumption, HttpInv,
           UserReturns \/ UserFrees \/ \E r \in Requests : UserAsks(r)
    PROVE  Sound(http') /\ Moves(http, http')
  <1> DEFINE t == Told
  <1>1. Doing("user")
    BY DEF UserReturns, UserFrees, UserAsks
  <1>2. /\ Sound(t) /\ Below(t.todo) /\ Quiet(http, t) /\ t.freed = http.freed
        /\ \A r \in Requests : http.fate[r] = "new" => t.fate[r] = "new"
    BY <1>1, ToldSound
  <1> HIDE DEF t
  <1>3. Typed(t) /\ QueueOK(t)
    BY <1>2 DEF Sound, Settled
  <1>4. CASE UserReturns
    BY <1>2, <1>4 DEF UserReturns, t, Moves, Quiet
  <1>5. CASE UserFrees
    <2>1. http' = Free(t)
      BY <1>5 DEF UserFrees, t
    <2>2. Sound(http') /\ All(t, http', "dropped")
      BY <1>2, <2>1, FreeSound
    <2> QED BY <1>2, <1>3, <2>2, ChangesAreMoves, QuietThenMoves
  <1>6. ASSUME NEW r \in Requests, UserAsks(r)
        PROVE  Sound(http') /\ Moves(http, http')
    <2>1. http' = Post(t, r) /\ t.fate[r] = "new" /\ ~t.freed
      BY <1>2, <1>6 DEF UserAsks, t
    <2>2. Sound(http') /\ Posted(t, http', r)
      BY <1>2, <2>1, PostSound
    <2>3. Moves(t, http')
      BY <1>3, <2>1, <2>2, ChangesAreMoves
    <2> QED BY <1>2, <2>2, <2>3, QuietThenMoves
  <1> QED BY <1>4, <1>5, <1>6

\* A request is queued between events.
LEMMA AskSound ==
    ASSUME EvHttpAssumption, HttpInv, NEW r \in Requests, Ask(r)
    PROVE  Sound(http') /\ Moves(http, http')
  <1>1. http.todo = << >> /\ ~http.freed /\ http.fate[r] = "new" /\ http' = Post(http, r)
    BY DEF Ask, Waiting
  <1>2. Below(http.todo)
    BY <1>1 DEF Below, ToSet
  <1>3. Sound(http) /\ Typed(http) /\ QueueOK(http)
    BY DEF HttpInv, Sound, Settled
  <1>4. Sound(http') /\ Posted(http, http', r)
    BY <1>1, <1>2, <1>3, PostSound
  <1> QED BY <1>1, <1>3, <1>4, ChangesAreMoves

\* An attempt to connect: the connection is reset; the attempt goes on, fails
\* during the call, or is refused with the request that called for it.
LEMMA ConnectSound ==
    ASSUME EvHttpAssumption, HttpInv, NEW attempt \in Attempts, Connect(attempt)
    PROVE  Sound(http') /\ Moves(http, http')
  <1> DEFINE p == Popped
             q == Reset(p)
             lost == [q EXCEPT !.unattempted = TRUE]
  <1>1. Doing("connect") /\ http.todo # << >> /\ Head(http.todo).do = "connect"
    BY DEF Connect, Doing
  <1>2. Settled(p) /\ Below(p.todo) /\ ~http.deferred /\ ~http.aborted
    BY <1>1, PoppedSettled
  <1>3. /\ Typed(http) /\ QueueOK(http) /\ CallsOK(http) /\ TopOK(http) /\ StateOK(http)
    BY DEF HttpInv, Sound, Settled
  <1>4. /\ Typed(p) /\ QueueOK(p) /\ CallsOK(p) /\ TopOK(p) /\ StateOK(p) /\ StreamOK(p)
    BY <1>2 DEF Settled
  <1>5. /\ p.state = http.state /\ p.copies = http.copies /\ p.queue = http.queue
        /\ p.freed = http.freed /\ p.unattempted = http.unattempted
        /\ p.fate = http.fate /\ p.todo = Tail(http.todo) /\ p.deferred = http.deferred
        /\ p.aborted = http.aborted /\ p.detect = http.detect /\ p.got = http.got
    BY <1>3, PoppedFields
  <1>6. /\ http.queue # << >> /\ http.state \in Away
        /\ Current \in ToSet(http.queue) \cup {None}
        /\ ~http.freed /\ http.detect = FALSE
    BY <1>1, <1>3 DEF TopOK, Top, Away, StateOK, Current
  <1>7. http' = IF http.state = "connecting" THEN p
                ELSE CASE attempt = "pending" ->
                            [q EXCEPT !.connecting = TRUE, !.state = "connecting",
                                      !.unattempted = FALSE]
                       [] attempt = "unreachable" ->
                            ErrorCb(Call(lost, << DoConnected >>), "error")
                       [] attempt = "nosocket" ->
                            IF Current = None THEN lost
                            ELSE [lost EXCEPT
                                    !.queue = RemoveFirst(@, Current),
                                    !.fate[Current] = "refused"]
    BY DEF Connect
  <1> HIDE DEF p
  <1>8. /\ DOMAIN q = Names /\ q.state = "disconnected" /\ q.peer = NoPeer
        /\ q.input = << >> /\ q.reading = FALSE
        /\ q.writing = FALSE /\ q.connecting = FALSE
        /\ q.queue = http.queue /\ q.detect = FALSE /\ ~q.deferred
        /\ q.todo = p.todo /\ ~q.freed /\ ~q.aborted
        /\ q.copies = http.copies /\ q.fate = http.fate /\ q.got = http.got
    BY ZenonT(30), <1>2, <1>4, <1>5, <1>6, ResetFields DEF Typed
  <1> HIDE DEF q
  <1>9. \A x \in Requests : http.fate[x] \in {"new", "queued"} => http.copies[x] = 0
    BY <1>3, <1>6 DEF QueueOK, Away, Busy, Reading
  <1>10. CASE http.state = "connecting"
    <2>1. http' = p
      BY <1>7, <1>10
    <2>2. Attempted(p)
      BY <1>5, <1>10 DEF Attempted
    <2>3. Kept(http, p)
      BY <1>5 DEF Kept
    <2> QED BY <1>2, <1>3, <2>1, <2>2, <2>3, ChangesAreMoves DEF Sound
  <1>11. CASE http.state # "connecting" /\ attempt = "pending"
    <2> DEFINE g == [q EXCEPT !.connecting = TRUE, !.state = "connecting",
                              !.unattempted = FALSE]
    <2>1. http' = g
      BY <1>7, <1>11
    <2>2. /\ DOMAIN g = Names /\ g.state = "connecting" /\ g.peer = NoPeer
          /\ g.input = << >> /\ g.reading = FALSE /\ g.writing = FALSE
          /\ g.connecting = TRUE /\ g.queue = http.queue /\ g.detect = FALSE
          /\ ~g.deferred /\ g.todo = p.todo /\ ~g.freed /\ ~g.aborted
          /\ g.copies = http.copies /\ g.fate = http.fate /\ g.got = http.got
      BY <1>8 DEF Names
    <2> HIDE DEF g
    <2>3. Typed(g)
      <3>1. g.peer \in Peers /\ g.state \in States
        BY <2>2 DEF NoPeer, Peers, States
      <3>2. g.input \in Seq(Piece)
        BY <2>2
      <3> QED BY <1>3, <1>4, <2>2, <3>1, <3>2 DEF Typed
    <2>4. QueueOK(g)
      BY <1>3, <1>9, <2>2 DEF QueueOK, Busy, Reading
    <2>5. CallsOK(g)
      BY <1>4, <1>5, <2>2 DEF CallsOK, Reading, Away
    <2>6. TopOK(g) /\ Attempted(g)
      <3>1. p.todo # << >> => Head(p.todo) \in ToSet(p.todo)
        BY <1>4, PoppedOff DEF Typed
      <3> QED BY <1>2, <1>4, <2>2, <3>1 DEF TopOK, Top, Below, Attempted
    <2>7. StateOK(g)
      BY <1>6, <2>2 DEF StateOK, Busy, Reading
    <2>8. StreamOK(g)
      BY <2>2 DEF StreamOK, Stream, Reading, NoPeer
    <2>9. Kept(http, g)
      BY <2>2 DEF Kept
    <2> QED BY <1>3, <2>1, <2>3, <2>4, <2>5, <2>6, <2>7, <2>8, <2>9, ChangesAreMoves
            DEF Sound, Settled
  <1>12. /\ DOMAIN lost = Names /\ lost.state = "disconnected" /\ lost.peer = NoPeer
         /\ lost.input = << >> /\ lost.reading = FALSE
         /\ lost.writing = FALSE /\ lost.connecting = FALSE
         /\ lost.queue = http.queue /\ lost.detect = FALSE /\ ~lost.deferred
         /\ lost.todo = p.todo /\ ~lost.freed /\ ~lost.aborted /\ lost.unattempted
         /\ lost.copies = http.copies /\ lost.fate = http.fate /\ lost.got = http.got
    BY <1>8 DEF Names
  <1> HIDE DEF lost
  <1>13. Typed(lost)
    <2>1. lost.peer \in Peers /\ lost.state \in States
      BY <1>12 DEF NoPeer, Peers, States
    <2>2. lost.input \in Seq(Piece)
      BY <1>12
    <2> QED BY <1>3, <1>4, <1>12, <2>1, <2>2 DEF Typed
  <1>14. QueueOK(lost) /\ CallsOK(lost)
    <2>1. QueueOK(lost)
      BY <1>3, <1>9, <1>12 DEF QueueOK, Busy, Reading
    <2>2. CallsOK(lost)
      BY <1>4, <1>5, <1>12 DEF CallsOK, Reading, Away
    <2> QED BY <2>1, <2>2
  <1>15. /\ p.todo \in Seq(Frame) /\ ~(p.todo # << >> /\ Head(p.todo).do = "connect")
         /\ ~(p.todo # << >> /\ Head(p.todo).do = "read")
         /\ (p.todo # << >> => Below(Tail(p.todo)))
    <2>1. p.todo # << >> => Head(p.todo) \in ToSet(p.todo)
      BY <1>4, PoppedOff DEF Typed
    <2> QED BY <1>2, <1>4, <2>1 DEF Typed, TopOK, Below
  <1>16. CASE http.state # "connecting" /\ attempt = "unreachable"
    <2> DEFINE c == Call(lost, << DoConnected >>)
               t == << DoConnected >> \o p.todo
    <2>1. /\ DOMAIN c = Names /\ c.state = "disconnected" /\ c.peer = NoPeer
          /\ c.input = << >> /\ c.reading = FALSE
          /\ c.writing = FALSE /\ c.connecting = FALSE
          /\ c.queue = http.queue /\ c.detect = FALSE /\ ~c.deferred
          /\ c.todo = t /\ ~c.freed /\ ~c.aborted /\ c.unattempted
          /\ c.copies = http.copies /\ c.fate = http.fate /\ c.got = http.got
      BY <1>12 DEF Names, Call
    <2>2. http' = Fail(c)
      <3>1. http' = ErrorCb(c, "error")
        BY <1>7, <1>16
      <3> HIDE DEF c
      <3> QED BY <2>1, <3>1 DEF ErrorCb
    <2>3. DoConnected \in Frame /\ DoConnected.do = "connected"
      BY DEF DoConnected, Frame
    <2>4. t \in Seq(Frame) /\ ToSet(t) = ToSet(p.todo) \cup {DoConnected} /\ Distinct(t)
      BY <1>4, <2>3, Pushed DEF Typed, CallsOK
    <2> HIDE DEF c, t
    <2>5. Typed(c)
      <3>1. c.peer \in Peers /\ c.state \in States
        BY <2>1 DEF NoPeer, Peers, States
      <3>2. c.input \in Seq(Piece)
        BY <2>1
      <3> QED BY <1>3, <2>1, <2>4, <3>1, <3>2 DEF Typed
    <2>6. QueueOK(c)
      BY <1>3, <1>9, <2>1 DEF QueueOK, Busy, Reading
    <2>7. CallsOK(c)
      BY <1>12, <1>14, <2>1, <2>3, <2>4 DEF CallsOK, Reading, Away
    <2>8. Below(c.todo)
      BY <1>2, <2>1, <2>3, <2>4 DEF Below
    <2>9. Mid(c)
      BY <2>1, <2>5, <2>6, <2>7, <2>8 DEF Mid
    <2>10. Sound(Fail(c)) /\ Oldest(c, Fail(c), "failing") /\ Fail(c).copies = c.copies
      BY <1>6, <2>1, <2>9, FailSound
    <2>11. Failed(http, http')
      BY <2>1, <2>2, <2>10 DEF Failed, Oldest
    <2> QED BY <1>3, <2>2, <2>10, <2>11, ChangesAreMoves
  <1>17. CASE http.state # "connecting" /\ attempt = "nosocket" /\ Current = None
    <2>1. http' = lost
      BY <1>7, <1>17
    <2>2. TopOK(lost)
      BY <1>12, <1>15 DEF TopOK, Top
    <2>3. StateOK(lost) /\ Attempted(lost)
      BY <1>12 DEF StateOK, Busy, Reading, Attempted
    <2>4. StreamOK(lost)
      BY <1>12 DEF StreamOK, Stream, Reading, NoPeer
    <2>5. Kept(http, lost)
      BY <1>12 DEF Kept
    <2> QED BY <1>3, <1>13, <1>14, <2>1, <2>2, <2>3, <2>4, <2>5, ChangesAreMoves
            DEF Sound, Settled
  <1>18. CASE http.state # "connecting" /\ attempt = "nosocket" /\ Current # None
    <2> DEFINE r == Current
               g == [lost EXCEPT !.queue = RemoveFirst(@, r), !.fate[r] = "refused"]
    <2>1. http' = g
      BY <1>7, <1>18
    <2>2. r \in ToSet(http.queue) /\ r \in Requests /\ http.fate[r] = "queued"
      BY <1>3, <1>6, <1>18 DEF QueueOK
    <2>3. /\ RemoveFirst(http.queue, r) \in Seq(Requests)
          /\ IsInjective(RemoveFirst(http.queue, r))
          /\ ToSet(RemoveFirst(http.queue, r)) = ToSet(http.queue) \ {r}
      BY <1>3, <2>2, RemoveFacts DEF Typed, QueueOK
    <2> HIDE DEF r
    <2>4. /\ DOMAIN g = Names /\ g.state = "disconnected" /\ g.peer = NoPeer
          /\ g.input = << >> /\ g.reading = FALSE
          /\ g.writing = FALSE /\ g.connecting = FALSE
          /\ g.queue = RemoveFirst(http.queue, r) /\ g.detect = FALSE /\ ~g.deferred
          /\ g.todo = p.todo /\ ~g.freed /\ ~g.aborted /\ g.unattempted
          /\ g.copies = http.copies /\ g.fate = [http.fate EXCEPT ![r] = "refused"]
          /\ g.got = http.got
      BY <1>12 DEF Names
    <2> HIDE DEF g
    <2>5. \A x \in Requests : g.fate[x] = IF x = r THEN "refused" ELSE http.fate[x]
      BY <1>3, <2>4 DEF Typed
    <2>6. Typed(g)
      <3>1. g.peer \in Peers /\ g.state \in States
        BY <2>4 DEF NoPeer, Peers, States
      <3>2. g.fate \in [Requests -> Fates]
        BY <1>3, <2>4 DEF Typed, Fates
      <3>3. g.input \in Seq(Piece)
        BY <2>4
      <3> QED BY <1>3, <1>4, <2>3, <2>4, <3>1, <3>2, <3>3 DEF Typed
    <2>7. QueueOK(g)
      <3>1. ToSet(g.queue) = {x \in Requests : g.fate[x] = "queued"}
        BY <1>3, <2>2, <2>3, <2>4, <2>5 DEF QueueOK
      <3>2. \A x \in Requests : g.fate[x] \in {"new", "queued"} => g.copies[x] = 0
        BY <1>9, <2>4, <2>5
      <3> QED BY <1>3, <2>3, <2>4, <3>1, <3>2 DEF QueueOK, Busy, Reading
    <2>8. CallsOK(g)
      <3>1. \A c \in ToSet(p.todo) : c.do = "user" => g.fate[c.for] = http.fate[c.for]
        BY <1>4, <1>5, <2>2, <2>5 DEF CallsOK
      <3> QED BY <1>4, <1>5, <2>4, <3>1 DEF CallsOK, Reading, Away
    <2>9. TopOK(g)
      BY <1>15, <2>4 DEF TopOK, Top
    <2>10. StateOK(g) /\ Attempted(g)
      BY <2>4 DEF StateOK, Busy, Reading, Attempted
    <2>11. StreamOK(g)
      BY <2>4 DEF StreamOK, Stream, Reading, NoPeer
    <2>12. Moves(http, g)
      <3>1. Outcome(g) = [Outcome(http) EXCEPT ![r] = "refused"] /\ Outcome(http)[r] = "open"
        BY ZenonT(30), <1>3, <2>2, <2>4, OutcomeOf, EndOfValues DEF Typed, Outcome
      <3>2. http.copies[r] = 0
        BY <1>9, <2>2
      <3> QED BY <2>2, <2>4, <3>1, <3>2 DEF Moves
    <2> QED BY <2>1, <2>6, <2>7, <2>8, <2>9, <2>10, <2>11, <2>12 DEF Sound, Settled
  <1> QED BY <1>10, <1>11, <1>16, <1>17, <1>18 DEF EvHttpAssumption

\* evhttp_connection_connect goes on after the callback of the bufferevent.
LEMMA ConnectReturnsSound ==
    ASSUME HttpInv, ConnectReturns
    PROVE  Sound(http') /\ Moves(http, http')
  <1> DEFINE p == Popped
             g == http'
  <1>1. http.todo # << >> /\ Head(http.todo).do = "connected"
    BY DEF ConnectReturns, Doing
  <1>2. /\ Settled(p) /\ Below(p.todo) /\ ~http.deferred /\ ~http.aborted
        /\ Head(http.todo) \in ToSet(http.todo)
    BY <1>1, PoppedSettled
  <1>3. /\ Typed(http) /\ QueueOK(http) /\ CallsOK(http) /\ StateOK(http)
        /\ Attempted(http)
    BY DEF HttpInv, Sound, Settled
  <1>4. /\ Typed(p) /\ QueueOK(p) /\ CallsOK(p) /\ TopOK(p) /\ StateOK(p) /\ StreamOK(p)
    BY <1>2 DEF Settled
  <1>5. /\ p.state = http.state /\ p.copies = http.copies /\ p.queue = http.queue
        /\ p.freed = http.freed /\ p.unattempted = http.unattempted
        /\ p.fate = http.fate /\ p.connecting = http.connecting
    BY <1>3, PoppedFields
  <1>6. http.state \in Away /\ (http.freed \/ http.unattempted \/ http.connecting)
    BY <1>1, <1>2, <1>3 DEF CallsOK
  <1>7. g = IF http.freed THEN [p EXCEPT !.touched = TRUE]
            ELSE [p EXCEPT !.state = "connecting"]
    BY DEF ConnectReturns
  <1> HIDE DEF p
  <1>8. CASE http.freed
    <2>1. /\ DOMAIN g = Names /\ g.state = p.state /\ g.detect = p.detect
          /\ g.reading = p.reading /\ g.writing = p.writing
          /\ g.copies = p.copies /\ g.peer = p.peer /\ g.input = p.input
          /\ g.connecting = p.connecting /\ g.queue = p.queue
          /\ g.deferred = p.deferred /\ g.freed = p.freed
          /\ g.aborted = p.aborted /\ g.unattempted = p.unattempted
          /\ g.got = p.got /\ g.todo = p.todo /\ g.fate = p.fate
      BY <1>4, <1>7, <1>8 DEF Typed, Names
    <2> HIDE DEF g
    <2>2. Typed(g) /\ QueueOK(g)
      BY <1>4, <2>1 DEF Typed, QueueOK
    <2>3. CallsOK(g) /\ TopOK(g)
      BY <1>4, <2>1 DEF CallsOK, TopOK, Top
    <2>4. StateOK(g)
      BY <1>4, <2>1 DEF StateOK
    <2>5. StreamOK(g)
      <3>1. Stream(g) = Stream(p)
        BY <2>1 DEF Stream
      <3> QED BY <1>4, <2>1, <3>1 DEF StreamOK
    <2>6. Attempted(g)
      BY <1>3, <1>5, <1>8, <2>1 DEF Attempted, StateOK
    <2>7. Kept(http, g)
      BY <1>5, <2>1 DEF Kept
    <2> QED BY <1>3, <2>2, <2>3, <2>4, <2>5, <2>6, <2>7, ChangesAreMoves DEF Sound, Settled, g
  <1>9. CASE ~http.freed
    <2>1. /\ DOMAIN g = Names /\ g.state = "connecting" /\ g.detect = p.detect
          /\ g.reading = p.reading /\ g.writing = p.writing
          /\ g.copies = p.copies /\ g.peer = p.peer /\ g.input = p.input
          /\ g.connecting = p.connecting /\ g.queue = p.queue
          /\ g.deferred = p.deferred /\ g.freed = p.freed
          /\ g.aborted = p.aborted /\ g.unattempted = p.unattempted
          /\ g.got = p.got /\ g.todo = p.todo /\ g.fate = p.fate
      BY <1>4, <1>7, <1>9 DEF Typed, Names
    <2> HIDE DEF g
    <2>2. Typed(g)
      BY <1>4, <2>1 DEF Typed, States
    <2>3. QueueOK(g)
      BY <1>4, <1>5, <1>6, <2>1 DEF QueueOK, Away, Busy, Reading
    <2>4. CallsOK(g)
      BY <1>4, <2>1 DEF CallsOK, Reading, Away
    <2>5. TopOK(g)
      <3>1. p.todo # << >> => Head(p.todo) \in ToSet(p.todo)
        BY <1>4, PoppedOff DEF Typed
      <3> QED BY <1>2, <1>4, <2>1, <3>1 DEF TopOK, Top, Below
    <2>6. StateOK(g)
      BY <1>4, <1>5, <1>6, <1>9, <2>1 DEF StateOK, Away, Busy, Reading
    <2>7. StreamOK(g)
      <3>1. Stream(g) = Stream(p)
        BY <2>1 DEF Stream
      <3> QED BY <1>4, <1>5, <1>6, <2>1, <3>1 DEF StreamOK, Away, Reading
    <2>8. Attempted(g) /\ Kept(http, g)
      BY <1>5, <2>1 DEF Attempted, Kept
    <2> QED BY <1>3, <2>2, <2>3, <2>4, <2>5, <2>6, <2>7, <2>8, ChangesAreMoves
            DEF Sound, Settled, g
  <1> QED BY <1>8, <1>9

\* A piece of a reply is one of its framing, and the last one when nothing is
\* left to be read of the reply.
LEMMA PieceFacts ==
    ASSUME NEW p \in Piece
    PROVE  /\ p.of \in Requests
           /\ p.kind # None
           /\ p.kind \in {"body", "trailer"} => Ends(p)
           /\ p.kind = "head" /\ p.framing = "nobody" => Ends(p)
  <1>1. PICK f \in AllFramings : p \in PiecesOf(f)
    BY DEF Piece
  <1>2. p.of \in Requests /\ p.framing = f /\ p.kind \in ToSet(Pieces(f))
    BY <1>1 DEF PiecesOf
  <1>3. PICK i \in DOMAIN Pieces(f) : p.kind = Pieces(f)[i]
    BY <1>2 DEF ToSet
  <1>4. CASE f = "nobody"
    BY <1>2, <1>3, <1>4 DEF Pieces, Ends, LastOf, None
  <1>5. CASE f = "length"
    BY <1>2, <1>3, <1>5 DEF Pieces, Ends, LastOf, None
  <1>6. CASE f = "chunked"
    BY <1>2, <1>3, <1>6 DEF Pieces, Ends, LastOf, None
  <1>7. CASE f = "close"
    BY <1>2, <1>3, <1>7 DEF Pieces, Ends, LastOf, None
  <1>8. CASE f = "bad"
    BY <1>2, <1>3, <1>8 DEF Pieces, Ends, LastOf, None
  <1>9. CASE f = "continue"
    BY <1>2, <1>3, <1>9 DEF Pieces, Ends, LastOf, None
  <1> QED BY <1>4, <1>5, <1>6, <1>7, <1>8, <1>9 DEF AllFramings

\* Reading takes the first piece off what there is to read.
LEMMA StreamTail ==
    ASSUME NEW a \in Seq(Piece), NEW b \in Seq(Piece), a # << >>
    PROVE  /\ Tail(a) \in Seq(Piece) /\ Head(a) \in Piece
           /\ a \o b \in Seq(Piece) /\ Len(a \o b) \in Nat /\ Len(a \o b) >= 1
           /\ (a \o b)[1] = Head(a)
           /\ Len(Tail(a) \o b) = Len(a \o b) - 1
           /\ \A i \in 1..(Len(a \o b) - 1) : (Tail(a) \o b)[i] = (a \o b)[i + 1]
  OBVIOUS

\* A connection that reads a reply, what it read of it being in order.
LEMMA ReadingSound ==
    ASSUME NEW h, NEW g, Typed(h), QueueOK(h), h.queue # << >>, h.state \in Busy,
           DOMAIN g = Names, g.queue = h.queue, g.fate = h.fate, g.copies = h.copies,
           ~g.freed, ~g.aborted, g.detect = FALSE,
           g.connecting = FALSE, g.writing = FALSE, g.state \in Reading,
           g.reading \in BOOLEAN, g.got \in [Requests -> SUBSET Requests],
           \A r \in Requests : g.got[r] \subseteq {r},
           g.todo \in {<< >>, << DoRead >>}, g.input \in Seq(Piece), g.peer \in Peers,
           g.reading \/ (g.state \in {"body", "trailer"} /\ g.todo # << >>),
           g.deferred => g.state = "firstline" /\ g.todo = << >>, StreamOK(g)
    PROVE  Sound(g) /\ Kept(h, g)
  <1>1. /\ g.todo \in Seq(Frame) /\ \A c \in ToSet(g.todo) : c.do = "read"
        /\ g.todo # << >> => Tail(g.todo) = << >> /\ Head(g.todo).do = "read"
        /\ Distinct(g.todo)
    <2>1. DoRead \in Frame /\ DoRead.do = "read"
      BY DEF DoRead, Frame
    <2>2. CASE g.todo = << >>
      BY <2>2 DEF ToSet, Distinct
    <2>3. CASE g.todo = << DoRead >>
      BY <2>1, <2>3 DEF ToSet, Distinct
    <2> QED BY <2>2, <2>3
  <1>2. Typed(g)
    <2>1. g.state \in States
      BY DEF States, Connected, Reading
    <2> QED BY <1>1, <2>1 DEF Typed
  <1>3. QueueOK(g)
    BY DEF QueueOK, Busy
  <1>4. CallsOK(g) /\ TopOK(g)
    <2>1. CallsOK(g)
      BY <1>1 DEF CallsOK
    <2>2. g.todo # << >> => Below(Tail(g.todo))
      BY <1>1 DEF Below, ToSet
    <2> QED BY <1>1, <2>1, <2>2 DEF TopOK, Top
  <1>5. StateOK(g) /\ Attempted(g)
    BY DEF StateOK, Attempted, Busy, Reading
  <1> QED BY <1>2, <1>3, <1>4, <1>5 DEF Sound, Settled, Kept

\* The connection goes on reading the reply to its oldest request.
LEMMA StillReading ==
    ASSUME NEW h, NEW g, Mid(h), h.queue # << >>, StreamOK(h), h.state \in Reading,
           DOMAIN g = Names, g.queue = h.queue, g.fate = h.fate, g.copies = h.copies,
           g.peer = h.peer, g.freed = FALSE, g.aborted = FALSE, g.detect = FALSE,
           g.connecting = FALSE, g.writing = FALSE, g.state \in Reading,
           g.reading \in BOOLEAN, g.got \in [Requests -> SUBSET Requests],
           \A r \in Requests : g.got[r] \subseteq {r},
           g.todo \in {<< >>, << DoRead >>},
           g.input = h.input \/ (h.input # << >> /\ g.input = Tail(h.input)),
           g.reading \/ (g.state \in {"body", "trailer"} /\ g.todo # << >>),
           g.deferred => g.state = "firstline" /\ g.todo = << >>
    PROVE  Sound(g) /\ Kept(h, g)
  <1>1. Typed(h) /\ QueueOK(h)
    BY DEF Mid
  <1>2. /\ h.input \in Seq(Piece) /\ h.peer.wire \in Seq(Piece)
    BY <1>1 DEF Typed, Peers
  <1>3. g.input \in Seq(Piece)
    <2>1. CASE g.input = h.input
      BY <1>2, <2>1
    <2>2. CASE h.input # << >> /\ g.input = Tail(h.input)
      <3>1. Tail(h.input) \in Seq(Piece)
        BY <1>2, <2>2, StreamTail
      <3> QED BY <2>2, <3>1
    <2> QED BY <2>1, <2>2
  <1>4. StreamOK(g)
    <2>1. CASE g.input = h.input
      <3>1. Stream(g) = Stream(h)
        BY <2>1 DEF Stream
      <3> QED BY <3>1 DEF StreamOK
    <2>2. CASE h.input # << >> /\ g.input = Tail(h.input)
      <3> DEFINE s == Stream(h)
                 t == Stream(g)
      <3>1. /\ Len(s) \in Nat /\ Len(s) >= 1 /\ Len(t) = Len(s) - 1
            /\ t = Tail(h.input) \o h.peer.wire
            /\ \A i \in 1..(Len(s) - 1) : t[i] = s[i + 1]
            /\ s \in Seq(Piece) /\ t \in Seq(Piece)
        <4>1. /\ s = h.input \o h.peer.wire /\ t = g.input \o h.peer.wire
              /\ g.input = Tail(h.input) /\ h.input # << >>
          BY <2>2 DEF Stream
        <4> HIDE DEF s, t
        <4>2. t = Tail(h.input) \o h.peer.wire
          BY <4>1
        <4>3. /\ Len(s) \in Nat /\ Len(s) >= 1 /\ Len(t) = Len(s) - 1
              /\ \A i \in 1..(Len(s) - 1) : t[i] = s[i + 1]
              /\ s \in Seq(Piece) /\ Tail(h.input) \in Seq(Piece)
          <5> DEFINE a == h.input
                     b == h.peer.wire
          <5>1. a \in Seq(Piece) /\ b \in Seq(Piece) /\ a # << >>
            BY <1>2, <4>1
          <5>2. s = a \o b /\ t = Tail(a) \o b /\ Tail(h.input) = Tail(a)
            BY <4>1, <4>2
          <5> HIDE DEF a, b
          <5>3. /\ Tail(a) \in Seq(Piece) /\ a \o b \in Seq(Piece)
                /\ Len(a \o b) \in Nat /\ Len(a \o b) >= 1
                /\ Len(Tail(a) \o b) = Len(a \o b) - 1
                /\ \A i \in 1..(Len(a \o b) - 1) : (Tail(a) \o b)[i] = (a \o b)[i + 1]
            BY <5>1, StreamTail
          <5> QED BY <5>2, <5>3
        <4>4. t \in Seq(Piece)
          BY <1>2, <4>2, <4>3, ConcatProperties
        <4> QED BY <4>2, <4>3, <4>4
      <3> HIDE DEF s, t
      <3>2. DOMAIN t = 1..(Len(s) - 1) /\ DOMAIN s = 1..Len(s)
        <4>1. \A u \in Seq(Piece) : DOMAIN u = 1..Len(u)
          OBVIOUS
        <4> QED BY <3>1, <4>1
      <3>3. \A i \in DOMAIN t : i \in Int /\ i + 1 \in DOMAIN s /\ t[i] = s[i + 1]
        <4> TAKE i \in DOMAIN t
        <4>1. i \in 1..(Len(s) - 1) /\ Len(s) \in Nat
          BY <3>1, <3>2
        <4>2. i \in Int /\ i + 1 \in 1..Len(s)
          BY <4>1
        <4> QED BY <3>1, <3>2, <4>1, <4>2
      <3>4. /\ h.peer.asked \in {<< >>, << Head(h.queue) >>}
            /\ \A i \in DOMAIN s : /\ s[i].of = Head(h.queue)
                                   /\ Ends(s[i]) => i = Len(s) /\ h.peer.asked = << >>
        BY DEF StreamOK, s
      <3>5. \A i \in DOMAIN t : /\ t[i].of = Head(h.queue)
                                /\ Ends(t[i]) => i = Len(t) /\ h.peer.asked = << >>
        <4> SUFFICES ASSUME NEW i \in DOMAIN t
                     PROVE  /\ t[i].of = Head(h.queue)
                            /\ Ends(t[i]) => i = Len(t) /\ h.peer.asked = << >>
          OBVIOUS
        <4>1. i \in Int /\ i + 1 \in DOMAIN s /\ t[i] = s[i + 1]
          BY <3>3
        <4>2. t[i].of = Head(h.queue)
          BY <3>4, <4>1
        <4>3. ASSUME Ends(t[i])
              PROVE  i = Len(t) /\ h.peer.asked = << >>
          <5>1. i + 1 = Len(s) /\ h.peer.asked = << >>
            BY <3>4, <4>1, <4>3
          <5>2. Len(t) = Len(s) - 1 /\ Len(s) \in Nat
            BY <3>1
          <5> QED BY <4>1, <5>1, <5>2
        <4> QED BY <4>2, <4>3
      <3> QED BY <3>4, <3>5 DEF StreamOK, t
    <2> QED BY <2>1, <2>2
  <1>5. g.peer \in Peers /\ h.state \in Busy
    BY <1>1 DEF Typed, Busy
  <1> QED BY <1>1, <1>3, <1>4, <1>5, ReadingSound

\* A piece of the reply is read, and the next one or the end of the reply
\* follows; what cannot be parsed fails the request.
LEMMA ReadSound ==
    ASSUME HttpInv, ReadSome
    PROVE  Sound(http') /\ Moves(http, http')
  <1> DEFINE h == Popped
             r == Head(h.queue)
             p == Head(h.input)
             kind == IF h.input = << >> THEN None ELSE p.kind
             next == [h EXCEPT !.input = Tail(@)]
             quiet == [next EXCEPT !.reading = FALSE]
             parsed == [quiet EXCEPT !.framing = p.framing]
  <1>1. http.todo # << >> /\ Head(http.todo).do = "read" /\ http' = Read(h)
    BY DEF ReadSome, Doing
  <1>2. /\ Typed(http) /\ QueueOK(http) /\ TopOK(http) /\ StateOK(http) /\ StreamOK(http)
    BY DEF HttpInv, Sound, Settled
  <1>3. /\ DOMAIN h = Names /\ h.state = http.state /\ h.detect = http.detect
        /\ h.reading = http.reading /\ h.writing = http.writing
        /\ h.copies = http.copies /\ h.peer = http.peer /\ h.input = http.input
        /\ h.connecting = http.connecting /\ h.queue = http.queue
        /\ h.deferred = http.deferred /\ h.freed = http.freed
        /\ h.aborted = http.aborted /\ h.unattempted = http.unattempted
        /\ h.fate = http.fate /\ h.got = http.got /\ h.framing = http.framing
        /\ h.todo = Tail(http.todo)
    BY <1>2, PoppedFields
  <1>4. Tail(http.todo) = << >> /\ http.state \in Reading
    BY <1>1, <1>2 DEF TopOK, Top
  <1> HIDE DEF h
  <1>5. /\ h.todo = << >> /\ h.state \in Reading /\ h.detect = FALSE
        /\ h.connecting = FALSE /\ h.writing = FALSE /\ h.queue # << >>
        /\ h.freed = FALSE /\ h.aborted = FALSE /\ h.deferred = FALSE
        /\ h.state \in {"firstline", "headers"} => h.reading
    <2>1. http.state \notin {"idle", "connecting", "disconnected", "writing"}
      BY <1>4 DEF Reading
    <2>2. /\ http.connecting = FALSE /\ http.detect = FALSE /\ http.writing = FALSE
          /\ ~http.freed /\ ~http.aborted /\ ~http.deferred /\ http.queue # << >>
          /\ http.state \in {"firstline", "headers"} => http.reading
      BY <1>1, <1>2, <1>4, <2>1 DEF StateOK, Typed, Busy
    <2> QED BY <1>2, <1>3, <1>4, <2>2 DEF Typed
  <1>6. Mid(h) /\ StreamOK(h) /\ Kept(http, h)
    <2>1. Typed(h)
      <3>1. h.todo \in Seq(Frame)
        BY <1>5
      <3>2. /\ h.state \in States /\ h.queue \in Seq(Requests) /\ h.input \in Seq(Piece)
            /\ h.peer \in Peers
        BY <1>2, <1>3 DEF Typed
      <3>3. /\ h.reading \in BOOLEAN /\ h.connecting \in BOOLEAN
            /\ h.copies \in [Requests -> Nat] /\ h.fate \in [Requests -> Fates]
            /\ h.got \in [Requests -> SUBSET Requests]
        BY <1>2, <1>3 DEF Typed
      <3> QED BY <1>3, <3>1, <3>2, <3>3 DEF Typed
    <2>2. QueueOK(h)
      BY <1>2, <1>3 DEF QueueOK
    <2>3. CallsOK(h) /\ Below(h.todo)
      BY <1>5 DEF CallsOK, Below, Distinct, ToSet
    <2>4. StreamOK(h)
      <3>1. Stream(h) = Stream(http)
        BY <1>3 DEF Stream
      <3> QED BY <1>2, <1>3, <3>1 DEF StreamOK
    <2> QED BY <1>3, <1>5, <2>1, <2>2, <2>3, <2>4 DEF Mid, Kept
  <1>7. Typed(h) /\ QueueOK(h)
    BY <1>6 DEF Mid
  <1>8. /\ h.input \in Seq(Piece) /\ h.peer.wire \in Seq(Piece) /\ r \in Requests
        /\ h.got \in [Requests -> SUBSET Requests] /\ \A x \in Requests : h.got[x] \subseteq {x}
    BY <1>5, <1>7, HeadTailFacts DEF Typed, Peers, QueueOK
  <1>9. h.copies[r] = 1
    <2>1. h.fate[r] = "queued"
      BY <1>5, <1>7, <1>8, HeadTailFacts DEF Typed, QueueOK
    <2> QED BY <1>5, <1>7, <1>8, <2>1 DEF QueueOK, Busy
  <1>10. \A g : Sound(g) /\ (Kept(h, g) \/ Answered(h, g) \/ Failed(h, g))
                  => Sound(g) /\ Moves(http, g)
    <2> TAKE g
    <2>1. Kept(h, g) \/ Answered(h, g) \/ Failed(h, g) => Moves(h, g)
      BY <1>7, ChangesAreMoves
    <2>2. Quiet(http, h)
      BY <1>6 DEF Kept, Quiet, Outcome
    <2> QED BY <2>1, <2>2, QuietThenMoves
  <1>11. CASE h.input = << >>
    <2> DEFINE g == IF h.state \in {"body", "trailer"} THEN [h EXCEPT !.reading = TRUE] ELSE h
    <2>1. http' = g
      BY <1>1, <1>5, <1>11 DEF Read, Reading, None
    <2>2. /\ DOMAIN g = Names /\ g.state = h.state /\ g.detect = FALSE
          /\ g.reading = TRUE /\ g.writing = FALSE
          /\ g.copies = h.copies /\ g.peer = h.peer /\ g.input = h.input
          /\ g.connecting = FALSE /\ g.queue = h.queue
          /\ g.deferred = FALSE /\ g.freed = FALSE
          /\ g.aborted = FALSE /\ g.fate = h.fate /\ g.got = h.got
          /\ g.todo = << >>
      BY <1>3, <1>5, <1>7 DEF Typed, Names, Reading
    <2> HIDE DEF g
    <2>3. Sound(g) /\ Kept(h, g)
      BY <1>5, <1>6, <1>8, <2>2, StillReading
    <2> QED BY <1>10, <2>1, <2>3
  <1>12. CASE h.input # << >>
    <2>1. p \in Piece /\ kind = p.kind /\ kind # None
      <3>1. p \in Piece
        BY <1>8, <1>12
      <3> QED BY <1>12, <3>1, PieceFacts
    <2>2. p.of = r /\ (Ends(p) => Len(Stream(h)) = 1 /\ h.peer.asked = << >>)
      <3> DEFINE s == Stream(h)
      <3>1. s[1] = p /\ Len(s) \in Nat /\ Len(s) >= 1 /\ s \in Seq(Piece)
        BY <1>8, <1>12, StreamTail DEF Stream
      <3> HIDE DEF s, p
      <3>2. 1 \in DOMAIN s
        BY <3>1
      <3>3. \A i \in DOMAIN s : /\ s[i].of = r
                                /\ Ends(s[i]) => i = Len(s) /\ h.peer.asked = << >>
        BY <1>5, <1>6 DEF StreamOK, s
      <3>4. s[1].of = r /\ (Ends(s[1]) => 1 = Len(s) /\ h.peer.asked = << >>)
        BY <3>2, <3>3
      <3> QED BY <3>1, <3>4 DEF s
    <2>3. Ends(p) => Tail(h.input) \o h.peer.wire = << >>
      <3>1. Ends(p) => Len(h.input \o h.peer.wire) = 1
        BY <2>2 DEF Stream
      <3>2. /\ Len(Tail(h.input) \o h.peer.wire) = Len(h.input \o h.peer.wire) - 1
            /\ Tail(h.input) \in Seq(Piece)
        BY <1>8, <1>12, StreamTail
      <3>3. Tail(h.input) \o h.peer.wire \in Seq(Piece)
        BY <1>8, <3>2, ConcatProperties
      <3>4. ASSUME Ends(p)
            PROVE  Len(Tail(h.input) \o h.peer.wire) = 0
        <4> DEFINE m == Len(h.input \o h.peer.wire)
                   n == Len(Tail(h.input) \o h.peer.wire)
        <4>1. m = 1 /\ n = m - 1
          BY <3>1, <3>2, <3>4
        <4> HIDE DEF m, n
        <4>2. n = 0
          BY <4>1
        <4> QED BY <4>2 DEF n
      <3> QED BY <3>3, <3>4, EmptySeq
    <2>4. /\ DOMAIN next = Names /\ next.state = h.state /\ next.detect = FALSE
          /\ next.reading = h.reading /\ next.writing = FALSE
          /\ next.copies = h.copies /\ next.peer = h.peer /\ next.input = Tail(h.input)
          /\ next.connecting = FALSE /\ next.queue = h.queue
          /\ next.deferred = FALSE /\ next.freed = FALSE
          /\ next.aborted = FALSE /\ next.fate = h.fate /\ next.got = h.got
          /\ next.todo = << >> /\ next.framing = h.framing
      BY <1>3, <1>5 DEF Names
    <2>5. /\ DOMAIN quiet = Names /\ quiet.state = h.state /\ quiet.detect = FALSE
          /\ quiet.reading = FALSE /\ quiet.writing = FALSE
          /\ quiet.copies = h.copies /\ quiet.peer = h.peer /\ quiet.input = Tail(h.input)
          /\ quiet.connecting = FALSE /\ quiet.queue = h.queue
          /\ quiet.deferred = FALSE /\ quiet.freed = FALSE
          /\ quiet.aborted = FALSE /\ quiet.fate = h.fate /\ quiet.got = h.got
          /\ quiet.todo = << >> /\ quiet.framing = h.framing
      <3> HIDE DEF next
      <3> QED BY <2>4 DEF Names
    <2>6. /\ DOMAIN parsed = Names /\ parsed.state = h.state /\ parsed.detect = FALSE
          /\ parsed.reading = FALSE /\ parsed.writing = FALSE
          /\ parsed.copies = h.copies /\ parsed.peer = h.peer
          /\ parsed.input = Tail(h.input)
          /\ parsed.connecting = FALSE /\ parsed.queue = h.queue
          /\ parsed.deferred = FALSE /\ parsed.freed = FALSE
          /\ parsed.aborted = FALSE /\ parsed.fate = h.fate /\ parsed.got = h.got
          /\ parsed.todo = << >> /\ parsed.framing = p.framing
      <3> HIDE DEF quiet, p
      <3> QED BY <2>5 DEF Names
    <2> DEFINE On(g, state) == Call([g EXCEPT !.state = state], << DoRead >>)
    <2>7. ASSUME NEW g, DOMAIN g = Names, g.detect = FALSE, g.writing = FALSE,
                 g.copies = h.copies, g.peer = h.peer, g.input = Tail(h.input),
                 g.connecting = FALSE, g.queue = h.queue, g.deferred = FALSE,
                 g.freed = FALSE, g.aborted = FALSE, g.fate = h.fate, g.todo = << >>,
                 g.got \in [Requests -> SUBSET Requests],
                 \A x \in Requests : g.got[x] \subseteq {x},
                 NEW state \in Reading, g.reading \in BOOLEAN,
                 g.reading \/ state \in {"body", "trailer"}
          PROVE  Sound(On(g, state)) /\ Kept(h, On(g, state))
      <3> DEFINE n == On(g, state)
      <3>1. /\ DOMAIN n = Names /\ n.state = state /\ n.detect = FALSE
            /\ n.reading = g.reading /\ n.writing = FALSE
            /\ n.copies = h.copies /\ n.peer = h.peer /\ n.input = Tail(h.input)
            /\ n.connecting = FALSE /\ n.queue = h.queue /\ n.deferred = FALSE
            /\ n.freed = FALSE /\ n.aborted = FALSE /\ n.fate = h.fate
            /\ n.got = g.got /\ n.todo = << DoRead >> \o << >>
        BY <2>7 DEF Call, Names
      <3>2. << DoRead >> \o << >> = << DoRead >> /\ << DoRead >> # << >>
        <4>1. << DoRead >> \in Seq({DoRead})
          OBVIOUS
        <4> QED BY <4>1, ConcatEmptySeq
      <3> HIDE DEF n
      <3>3. Sound(n) /\ Kept(h, n)
        BY <1>5, <1>6, <1>12, <2>7, <3>1, <3>2, StillReading
      <3> QED BY <3>3 DEF n
    <2> HIDE DEF next, quiet, parsed, p, On
    <2>8. CASE h.state = "firstline" /\ kind = "line"
      <3> DEFINE g == [next EXCEPT !.got[r] = @ \cup {p.of}]
      <3>1. http' = On(g, "headers")
        BY <1>1, <2>1, <2>8 DEF Read, On, next, p, None
      <3>2. /\ DOMAIN g = Names /\ g.detect = FALSE /\ g.reading = h.reading
            /\ g.writing = FALSE /\ g.copies = h.copies /\ g.peer = h.peer
            /\ g.input = Tail(h.input) /\ g.connecting = FALSE /\ g.queue = h.queue
            /\ g.deferred = FALSE /\ g.freed = FALSE /\ g.aborted = FALSE
            /\ g.fate = h.fate /\ g.todo = << >>
            /\ g.got = [h.got EXCEPT ![r] = h.got[r] \cup {r}]
        BY <2>2, <2>4 DEF Names
      <3> HIDE DEF g
      <3>3. /\ g.got \in [Requests -> SUBSET Requests]
            /\ \A x \in Requests : g.got[x] \subseteq {x}
        BY <1>8, <3>2
      <3>4. h.reading /\ h.reading \in BOOLEAN
        BY <1>5, <1>7, <2>8 DEF Typed
      <3>5. Sound(On(g, "headers")) /\ Kept(h, On(g, "headers"))
        BY <2>7, <3>2, <3>3, <3>4 DEF Reading
      <3> QED BY <1>10, <3>1, <3>5
    <2>9. CASE h.state = "headers" /\ kind = "head"
      <3>1. CASE p.framing = "continue"
        <4> DEFINE g == StartRead(parsed)
        <4>1. http' = g
          BY <1>1, <2>1, <2>9, <3>1 DEF Read, parsed, quiet, next, p, None
        <4>2. /\ DOMAIN g = Names /\ g.detect = FALSE /\ g.reading = TRUE
              /\ g.writing = FALSE /\ g.copies = h.copies /\ g.peer = h.peer
              /\ g.input = Tail(h.input) /\ g.connecting = FALSE /\ g.queue = h.queue
              /\ g.freed = FALSE /\ g.aborted = FALSE
              /\ g.fate = h.fate /\ g.todo = << >> /\ g.state = "firstline"
              /\ g.got = h.got
          BY <2>6 DEF StartRead, Names
        <4> HIDE DEF g
        <4>3. Sound(g) /\ Kept(h, g)
          BY <1>5, <1>6, <1>8, <1>12, <4>2, StillReading DEF Reading
        <4> QED BY <1>10, <4>1, <4>3
      <3>2. CASE p.framing = "nobody"
        <4>1. http' = Done(parsed)
          BY <1>1, <2>1, <2>9, <3>2 DEF Read, parsed, quiet, next, p, None
        <4>2. Ends(p)
          BY <2>1, <2>9, <3>2, PieceFacts
        <4>3. Stream(parsed) = << >> /\ parsed.peer.asked = << >>
          BY <2>2, <2>3, <2>6, <4>2 DEF Stream
        <4>4. Sound(Done(parsed)) /\ Answered(h, Done(parsed))
          <5>1. Mid(parsed)
            <6>1. Typed(parsed)
              <7>1. Tail(h.input) \in Seq(Piece)
                BY <1>8, <1>12, StreamTail
              <7> QED BY <1>5, <1>7, <2>6, <7>1 DEF Typed
            <6>2. QueueOK(parsed)
              BY <1>7, <2>6 DEF QueueOK
            <6>3. CallsOK(parsed) /\ Below(parsed.todo)
              BY <2>6 DEF CallsOK, Below, Distinct, ToSet
            <6> QED BY <2>6, <6>1, <6>2, <6>3 DEF Mid
          <5>2. parsed.state \in Reading /\ parsed.copies[Head(parsed.queue)] = 1
            BY <1>5, <1>9, <2>6
          <5>3. Sound(Done(parsed)) /\ Answered(parsed, Done(parsed))
            BY <1>5, <2>6, <4>3, <5>1, <5>2, DoneSound
          <5> QED BY <2>6, <5>3 DEF Answered, Oldest
        <4> QED BY <1>10, <4>1, <4>4
      <3>3. CASE p.framing \notin {"continue", "nobody"}
        <4>1. http' = On(parsed, "body")
          BY <1>1, <2>1, <2>9, <3>3 DEF Read, On, parsed, quiet, next, p, None
        <4>2. Sound(On(parsed, "body")) /\ Kept(h, On(parsed, "body"))
          BY <1>8, <2>6, <2>7 DEF Reading
        <4> QED BY <1>10, <4>1, <4>2
      <3> QED BY <3>1, <3>2, <3>3
    <2>10. CASE h.state = "body" /\ kind = "chunk"
      <3>1. http' = On(next, "body")
        BY <1>1, <2>1, <2>10 DEF Read, On, next, p, None
      <3>2. Sound(On(next, "body")) /\ Kept(h, On(next, "body"))
        BY <1>7, <1>8, <2>4, <2>7 DEF Reading, Typed
      <3> QED BY <1>10, <3>1, <3>2
    <2>11. CASE h.state = "body" /\ kind = "last"
      <3>1. http' = On(next, "trailer")
        BY <1>1, <2>1, <2>11 DEF Read, On, next, p, None
      <3>2. Sound(On(next, "trailer")) /\ Kept(h, On(next, "trailer"))
        BY <1>7, <1>8, <2>4, <2>7 DEF Reading, Typed
      <3> QED BY <1>10, <3>1, <3>2
    <2>12. CASE h.state = "body" /\ kind = "rest"
      <3> DEFINE g == [next EXCEPT !.reading = TRUE]
      <3>1. http' = g
        BY <1>1, <2>1, <2>12 DEF Read, next, p, None
      <3>2. /\ DOMAIN g = Names /\ g.detect = FALSE /\ g.reading = TRUE
            /\ g.writing = FALSE /\ g.copies = h.copies /\ g.peer = h.peer
            /\ g.input = Tail(h.input) /\ g.connecting = FALSE /\ g.queue = h.queue
            /\ g.freed = FALSE /\ g.aborted = FALSE /\ g.deferred = FALSE
            /\ g.fate = h.fate /\ g.todo = << >> /\ g.state = h.state
            /\ g.got = h.got
        BY <2>4 DEF Names
      <3> HIDE DEF g
      <3>3. Sound(g) /\ Kept(h, g)
        BY <1>5, <1>6, <1>8, <1>12, <3>2, StillReading
      <3> QED BY <1>10, <3>1, <3>3
    <2>13. CASE \/ h.state = "body" /\ kind = "body"
                \/ h.state = "trailer" /\ kind = "trailer"
      <3>1. http' = Done(quiet)
        BY <1>1, <2>1, <2>13 DEF Read, quiet, next, p, None
      <3>2. Ends(p)
        BY <2>1, <2>13, PieceFacts
      <3>3. Stream(quiet) = << >> /\ quiet.peer.asked = << >>
        BY <2>2, <2>3, <2>5, <3>2 DEF Stream
      <3>4. Mid(quiet)
        <4>1. Typed(quiet)
          <5>1. Tail(h.input) \in Seq(Piece)
            BY <1>8, <1>12, StreamTail
          <5> QED BY <1>5, <1>7, <2>5, <5>1 DEF Typed
        <4>2. QueueOK(quiet)
          BY <1>7, <2>5 DEF QueueOK
        <4>3. CallsOK(quiet) /\ Below(quiet.todo)
          BY <2>5 DEF CallsOK, Below, Distinct, ToSet
        <4> QED BY <2>5, <4>1, <4>2, <4>3 DEF Mid
      <3>5. quiet.state \in Reading /\ quiet.copies[Head(quiet.queue)] = 1
        BY <1>5, <1>9, <2>5
      <3>6. Sound(Done(quiet)) /\ Answered(quiet, Done(quiet))
        BY <1>5, <2>5, <3>3, <3>4, <3>5, DoneSound
      <3>7. Answered(h, Done(quiet))
        BY <2>5, <3>6 DEF Answered, Oldest
      <3> QED BY <1>10, <3>1, <3>6, <3>7
    <2>14. CASE /\ ~(h.state = "firstline" /\ kind = "line")
                /\ ~(h.state = "headers" /\ kind = "head")
                /\ ~(h.state = "body" /\ kind \in {"chunk", "last", "rest", "body"})
                /\ ~(h.state = "trailer" /\ kind = "trailer")
      <3>1. http' = Fail(h)
        BY <1>1, <1>5, <2>1, <2>14 DEF Read, Reading, p, None
      <3>2. \A c \in ToSet(h.todo) : FALSE
        BY <1>5 DEF ToSet
      <3>3. Sound(Fail(h)) /\ Failed(h, Fail(h))
        BY <1>5, <1>6, <3>2, FailSound DEF Failed
      <3> QED BY <1>10, <3>1, <3>3
    <2> QED BY <2>8, <2>9, <2>10, <2>11, <2>12, <2>13, <2>14
  <1> QED BY <1>11, <1>12

-----------------------------------------------------------------------------
\* An event that changes only what the connection waits for leaves it in the
\* middle of a step.
LEMMA EventMid ==
    ASSUME HttpInv, Waiting, NEW h, DOMAIN h = Names, h.state \in States,
           h.state \in Busy <=> http.state \in Busy,
           h.queue = http.queue, h.copies = http.copies, h.fate = http.fate,
           h.got = http.got, h.todo = http.todo, h.input = http.input,
           h.peer = http.peer, h.deferred = http.deferred, h.freed = http.freed,
           h.aborted = http.aborted, h.reading \in BOOLEAN, h.connecting \in BOOLEAN
    PROVE  Mid(h) /\ CallsOK(h) /\ h.todo = << >>
  <1>1. Typed(http) /\ QueueOK(http)
    BY DEF HttpInv, Sound, Settled
  <1>2. h.todo = << >> /\ ~h.freed /\ ~h.deferred /\ ~h.aborted
    BY DEF Waiting, Alive
  <1>3. Typed(h)
    BY <1>1 DEF Typed
  <1>4. QueueOK(h)
    BY <1>1 DEF QueueOK
  <1>5. CallsOK(h) /\ Below(h.todo)
    BY <1>2 DEF CallsOK, Below, Distinct, ToSet
  <1> QED BY <1>2, <1>3, <1>4, <1>5 DEF Mid

\* The connection is made, and the oldest request goes out.
LEMMA ConnectSucceedsSound ==
    ASSUME HttpInv, ConnectSucceeds
    PROVE  Sound(http') /\ Moves(http, http')
  <1> DEFINE h == [http EXCEPT !.connecting = FALSE, !.state = "idle"]
  <1>1. Waiting /\ http.connecting /\ http' = Dispatch(h)
    BY DEF ConnectSucceeds
  <1>2. /\ Typed(http) /\ QueueOK(http) /\ StateOK(http) /\ StreamOK(http)
    BY DEF HttpInv, Sound, Settled
  <1>3. http.state = "connecting" /\ http.queue # << >>
    BY <1>1, <1>2 DEF StateOK
  <1>4. /\ DOMAIN h = Names /\ h.state = "idle" /\ h.connecting = FALSE
        /\ h.queue = http.queue /\ h.copies = http.copies /\ h.fate = http.fate
        /\ h.got = http.got /\ h.todo = http.todo /\ h.input = http.input
        /\ h.peer = http.peer /\ h.deferred = http.deferred /\ h.freed = http.freed
        /\ h.aborted = http.aborted /\ h.reading = http.reading
    BY <1>2 DEF Typed, Names
  <1> HIDE DEF h
  <1>5. Mid(h) /\ CallsOK(h) /\ h.todo = << >>
    <2>1. h.state \in States /\ (h.state \in Busy <=> http.state \in Busy)
      BY <1>3, <1>4 DEF States, Connected, Busy, Reading
    <2>2. h.reading \in BOOLEAN /\ h.connecting \in BOOLEAN
      BY <1>2, <1>4 DEF Typed
    <2> QED BY <1>1, <1>4, <2>1, <2>2, EventMid
  <1>6. Typed(h) /\ QueueOK(h) /\ Below(h.todo) /\ ~h.aborted /\ ~h.deferred /\ ~h.freed
    BY <1>5 DEF Mid
  <1>7. Stream(h) = << >> /\ h.peer.asked = << >>
    BY <1>2, <1>3, <1>4 DEF StreamOK, Stream, Reading
  <1>8. \A r \in Requests : h.fate[r] \in {"new", "queued"} => h.copies[r] = 0
    BY <1>4, <1>6 DEF QueueOK, Busy, Reading
  <1>9. /\ IsInjective(h.queue) /\ \A r \in Requests : h.got[r] \subseteq {r}
        /\ ToSet(h.queue) = {r \in Requests : h.fate[r] = "queued"}
    BY <1>6 DEF QueueOK
  <1>10. h.queue # << >>
    BY <1>3, <1>4
  <1>11. Sound(http') /\ http'.copies = [h.copies EXCEPT ![Head(h.queue)] = 1]
    BY <1>1, <1>4, <1>5, <1>6, <1>7, <1>8, <1>9, <1>10, DispatchSound
  <1>12. http'.queue = h.queue /\ http'.fate = h.fate
    BY <1>1, <1>4, <1>6, <1>10, DispatchFields
  <1>13. Head(h.queue) \in Requests /\ h.fate[Head(h.queue)] = "queued"
    BY <1>6, <1>10, HeadTailFacts DEF Typed, QueueOK
  <1>14. Moves(http, http')
    <2>1. Outcome(http') = Outcome(http)
      BY <1>4, <1>12 DEF Outcome
    <2>2. http.copies[Head(http.queue)] = 0
      BY <1>4, <1>8, <1>13
    <2> QED BY <1>3, <1>4, <1>11, <1>12, <2>1, <2>2 DEF Moves
  <1> QED BY <1>11, <1>14

\* An error or the end of the data, in a state that waits for the event.
LEMMA ErrorEventSound ==
    ASSUME HttpInv, Waiting, NEW h, NEW what, DOMAIN h = Names, h.state = http.state,
           h.queue = http.queue, h.copies = http.copies, h.fate = http.fate,
           h.got = http.got, h.todo = http.todo, h.input = http.input,
           h.peer = http.peer, h.deferred = http.deferred, h.freed = http.freed,
           h.aborted = http.aborted, h.detect = http.detect, h.reading \in BOOLEAN,
           h.connecting = FALSE, h.writing = FALSE,
           http.state \in Busy \cup {"idle"} \/ http.connecting
    PROVE  /\ Mid(h) /\ h.todo = << >>
           /\ Sound(ErrorCb(h, what)) /\ Moves(http, ErrorCb(h, what))
  <1>1. /\ Typed(http) /\ QueueOK(http) /\ StateOK(http)
    BY DEF HttpInv, Sound, Settled
  <1>2. Mid(h) /\ h.todo = << >>
    <2>1. h.state \in States /\ h.connecting \in BOOLEAN
      BY <1>1 DEF Typed
    <2> QED BY <2>1, EventMid
  <1>3. h.state \in Busy \cup {"idle", "connecting"} /\ h.detect = (h.state = "idle")
    BY <1>1 DEF StateOK
  <1>4. h.queue = << >> <=> h.state = "idle"
    <2>1. http.state = "idle" => http.queue = << >> /\ http.state \notin Busy /\ ~http.connecting
      BY <1>1 DEF StateOK, Busy, Reading
    <2>2. http.state \in Busy \/ http.connecting => http.queue # << >>
      BY <1>1 DEF StateOK
    <2> QED BY <2>1, <2>2
  <1> DEFINE g == ErrorCb(h, what)
  <1>5. /\ Sound(g)
        /\ \/ Failed(h, g) \/ Answered(h, g) \/ Kept(h, g)
           \/ h.state = "connecting" /\ All(h, g, "failing")
    BY <1>2, <1>3, <1>4, ErrorSound
  <1> HIDE DEF g
  <1>6. Typed(h) /\ QueueOK(h)
    BY <1>2 DEF Mid
  <1>7. ASSUME h.state = "connecting", All(h, g, "failing")
        PROVE  Moves(h, g)
    <2>1. h.queue # << >>
      BY <1>4, <1>7
    <2>2. Head(h.queue) \in Requests /\ h.fate[Head(h.queue)] = "queued"
      BY <1>6, <2>1, HeadTailFacts DEF Typed, QueueOK
    <2>3. h.copies[Head(h.queue)] = 0
      BY <1>6, <1>7, <2>2 DEF QueueOK, Busy, Reading
    <2> QED BY <1>6, <1>7, <2>1, <2>3, ChangesAreMoves
  <1>8. Moves(h, g)
    BY <1>5, <1>6, <1>7, ChangesAreMoves
  <1>9. Quiet(http, h)
    BY DEF Quiet, Outcome
  <1> QED BY <1>2, <1>5, <1>8, <1>9, QuietThenMoves DEF g

\* The connection cannot be made.
LEMMA ConnectFailsSound ==
    ASSUME HttpInv, NEW what, ConnectFails(what)
    PROVE  Sound(http') /\ Moves(http, http')
  <1> DEFINE h == [http EXCEPT !.connecting = FALSE]
  <1>1. /\ Waiting /\ http.connecting
        /\ http' = IF what = "refused" THEN Cleanup(h) ELSE ErrorCb(h, what)
    BY DEF ConnectFails
  <1>2. /\ Typed(http) /\ QueueOK(http) /\ StateOK(http)
    BY DEF HttpInv, Sound, Settled
  <1>3. http.state = "connecting" /\ http.queue # << >> /\ http.writing = FALSE
        /\ http.detect = FALSE
    BY <1>1, <1>2 DEF StateOK
  <1>4. /\ DOMAIN h = Names /\ h.state = http.state /\ h.connecting = FALSE
        /\ h.queue = http.queue /\ h.copies = http.copies /\ h.fate = http.fate
        /\ h.got = http.got /\ h.todo = http.todo /\ h.input = http.input
        /\ h.peer = http.peer /\ h.deferred = http.deferred /\ h.freed = http.freed
        /\ h.aborted = http.aborted /\ h.reading = http.reading
        /\ h.writing = http.writing /\ h.detect = http.detect
    BY <1>2 DEF Typed, Names
  <1> HIDE DEF h
  <1>5. /\ Mid(h) /\ h.todo = << >>
        /\ Sound(ErrorCb(h, what)) /\ Moves(http, ErrorCb(h, what))
    <2>1. h.reading \in BOOLEAN /\ h.writing = FALSE
      BY <1>2, <1>3, <1>4 DEF Typed
    <2> QED BY <1>1, <1>4, <2>1, ErrorEventSound
  <1>6. CASE what # "refused"
    BY <1>1, <1>5, <1>6
  <1>7. CASE what = "refused"
    <2>1. http' = Cleanup(h)
      BY <1>1, <1>7
    <2>2. h.detect = FALSE /\ h.state \notin Busy
      BY <1>3, <1>4 DEF Busy, Reading
    <2>3. Sound(http') /\ All(h, http', "failing")
      BY <1>5, <2>1, <2>2, CleanupSound
    <2>4. All(http, http', "failing")
      BY <1>4, <2>3 DEF All
    <2>5. Head(http.queue) \in Requests /\ http.fate[Head(http.queue)] = "queued"
      BY <1>2, <1>3, HeadTailFacts DEF Typed, QueueOK
    <2>6. http.copies[Head(http.queue)] = 0
      BY <1>2, <1>3, <2>5 DEF QueueOK, Busy, Reading
    <2> QED BY <1>2, <1>3, <2>3, <2>4, <2>6, ChangesAreMoves
  <1> QED BY <1>6, <1>7

\* The request cannot be written.
LEMMA WriteFailsSound ==
    ASSUME HttpInv, NEW what, WriteFails(what)
    PROVE  Sound(http') /\ Moves(http, http')
  <1> DEFINE h == [http EXCEPT !.writing = FALSE]
  <1>1. Waiting /\ http.writing /\ http' = ErrorCb(h, what)
    BY DEF WriteFails
  <1>2. /\ Typed(http) /\ StateOK(http)
    BY DEF HttpInv, Sound, Settled
  <1>3. http.state = "writing" /\ http.connecting = FALSE
    BY <1>1, <1>2 DEF StateOK, Typed
  <1>4. /\ DOMAIN h = Names /\ h.state = http.state /\ h.connecting = http.connecting
        /\ h.queue = http.queue /\ h.copies = http.copies /\ h.fate = http.fate
        /\ h.got = http.got /\ h.todo = http.todo /\ h.input = http.input
        /\ h.peer = http.peer /\ h.deferred = http.deferred /\ h.freed = http.freed
        /\ h.aborted = http.aborted /\ h.reading = http.reading
        /\ h.writing = FALSE /\ h.detect = http.detect
    BY <1>2 DEF Typed, Names
  <1> HIDE DEF h
  <1>5. h.reading \in BOOLEAN /\ http.state \in Busy /\ h.connecting = FALSE
    BY <1>2, <1>3, <1>4 DEF Typed, Busy
  <1> QED BY <1>1, <1>4, <1>5, ErrorEventSound

\* The connection ends while it is read.
LEMMA ReadEndsSound ==
    ASSUME HttpInv, NEW what, ReadEnds(what)
    PROVE  Sound(http') /\ Moves(http, http')
  <1> DEFINE h == [http EXCEPT !.reading = FALSE]
  <1>1. Waiting /\ http.reading /\ http' = ErrorCb(h, what)
    BY DEF ReadEnds
  <1>2. /\ Typed(http) /\ StateOK(http)
    BY DEF HttpInv, Sound, Settled
  <1>3. http.state \in Reading \cup {"idle"}
    BY <1>1, <1>2 DEF StateOK
  <1>4. http.connecting = FALSE /\ http.writing = FALSE /\ http.state \in Busy \cup {"idle"}
    <2>1. http.state # "connecting" /\ http.state # "writing"
      BY <1>3 DEF Reading
    <2> QED BY <1>2, <1>3, <2>1 DEF StateOK, Typed, Busy
  <1>5. /\ DOMAIN h = Names /\ h.state = http.state /\ h.connecting = http.connecting
        /\ h.queue = http.queue /\ h.copies = http.copies /\ h.fate = http.fate
        /\ h.got = http.got /\ h.todo = http.todo /\ h.input = http.input
        /\ h.peer = http.peer /\ h.deferred = http.deferred /\ h.freed = http.freed
        /\ h.aborted = http.aborted /\ h.reading = FALSE
        /\ h.writing = http.writing /\ h.detect = http.detect
    BY <1>2 DEF Typed, Names
  <1> HIDE DEF h
  <1>6. h.reading \in BOOLEAN /\ h.connecting = FALSE /\ h.writing = FALSE
    BY <1>4, <1>5
  <1> QED BY <1>1, <1>4, <1>5, <1>6, ErrorEventSound

\* The request is written: the server is to answer it, and its reply is waited
\* for.
LEMMA WrittenSound ==
    ASSUME HttpInv, Written
    PROVE  Sound(http') /\ Moves(http, http')
  <1> DEFINE r == Head(http.queue)
             a == IF http.peer.closed THEN http.peer.asked
                  ELSE Append(http.peer.asked, r)
             h == [http EXCEPT !.peer.asked = a]
             g == StartRead(h)
  <1>1. Waiting /\ http.writing
    BY DEF Written
  <1>2. /\ Typed(http) /\ QueueOK(http) /\ StateOK(http) /\ StreamOK(http)
    BY DEF HttpInv, Sound, Settled
  <1>3. /\ http.state = "writing" /\ http.queue # << >> /\ http.connecting = FALSE
        /\ http.detect = FALSE /\ http.freed = FALSE /\ http.aborted = FALSE
        /\ http.todo = << >>
    <2>1. http.state = "writing" /\ http.todo = << >> /\ ~http.freed /\ ~http.aborted
      BY <1>1, <1>2 DEF StateOK, Waiting, Alive
    <2> QED BY <1>2, <2>1 DEF StateOK, Typed, Busy
  <1>4. http' = g
    BY <1>2, <1>3 DEF Written, Typed, Names, Peers
  <1>5. /\ DOMAIN h = Names /\ h.peer = [http.peer EXCEPT !.asked = a]
        /\ h.queue = http.queue /\ h.copies = http.copies /\ h.fate = http.fate
        /\ h.got = http.got /\ h.todo = http.todo /\ h.input = http.input
        /\ h.freed = http.freed /\ h.aborted = http.aborted
        /\ h.connecting = http.connecting /\ h.detect = http.detect
    BY <1>2 DEF Typed, Names
  <1> HIDE DEF h
  <1>6. /\ DOMAIN g = Names /\ g.peer = [http.peer EXCEPT !.asked = a]
        /\ g.queue = http.queue /\ g.copies = http.copies /\ g.fate = http.fate
        /\ g.got = http.got /\ g.todo = << >> /\ g.input = http.input
        /\ g.freed = FALSE /\ g.aborted = FALSE /\ g.state = "firstline"
        /\ g.connecting = FALSE /\ g.detect = FALSE /\ g.writing = FALSE
        /\ g.reading = TRUE
    BY <1>3, <1>5 DEF StartRead, Names
  <1> HIDE DEF g
  <1>7. /\ http.input \o http.peer.wire = << >> /\ http.peer.asked = << >>
        /\ r \in Requests
    <2>1. http.state \notin Reading
      BY <1>3 DEF Reading
    <2> QED BY <1>2, <1>3, <2>1, HeadTailFacts DEF StreamOK, Stream, Typed, QueueOK
  <1>8. a \in {<< >>, << r >>} /\ a \in Seq(Requests)
    <2>1. Append(http.peer.asked, r) = << r >> /\ << r >> \in Seq(Requests)
      BY <1>7
    <2> QED BY <1>7, <2>1
  <1>9. g.peer \in Peers /\ g.peer.asked = a /\ g.peer.wire = http.peer.wire
    <2> HIDE DEF a
    <2>1. http.peer \in Peers
      BY <1>2 DEF Typed
    <2> QED BY <1>6, <1>8, <2>1 DEF Peers
  <1> HIDE DEF a
  <1>10. StreamOK(g)
    <2>1. Stream(g) = << >>
      BY <1>6, <1>7, <1>9 DEF Stream
    <2> QED BY <1>6, <1>8, <1>9, <2>1 DEF StreamOK, Reading
  <1>11. Sound(g) /\ Kept(http, g)
    <2>1. /\ g.state \in Reading /\ http.state \in Busy /\ g.reading \in BOOLEAN
          /\ g.todo \in {<< >>, << DoRead >>} /\ (g.deferred => g.state = "firstline" /\ g.todo = << >>)
      BY <1>3, <1>6 DEF Reading, Busy
    <2>2. g.input \in Seq(Piece) /\ g.got \in [Requests -> SUBSET Requests]
          /\ \A x \in Requests : g.got[x] \subseteq {x}
      BY <1>2, <1>6 DEF Typed, QueueOK
    <2> QED BY <1>2, <1>3, <1>6, <1>9, <1>10, <2>1, <2>2, ReadingSound
  <1> QED BY <1>2, <1>4, <1>11, ChangesAreMoves

\* Between events a connection with something to read, or with an answer to
\* come, reads the reply to its oldest request.
LEMMA ReadingState ==
    ASSUME HttpInv, http.todo = << >>, http.state \in Reading
    PROVE  /\ Typed(http) /\ QueueOK(http) /\ StreamOK(http) /\ http.queue # << >>
           /\ http.state \in Busy /\ http.peer \in Peers /\ http.input \in Seq(Piece)
           /\ http.peer.wire \in Seq(Piece) /\ http.peer.asked \in Seq(Requests)
           /\ ~http.freed /\ ~http.aborted /\ http.detect = FALSE
           /\ http.connecting = FALSE /\ http.writing = FALSE /\ http.reading = TRUE
           /\ http.got \in [Requests -> SUBSET Requests]
           /\ \A r \in Requests : http.got[r] \subseteq {r}
           /\ http.deferred => http.state = "firstline"
           /\ DOMAIN http = Names /\ Head(http.queue) \in Requests
  <1>1. /\ Typed(http) /\ QueueOK(http) /\ StateOK(http) /\ StreamOK(http)
    BY DEF HttpInv, Sound, Settled
  <1>2. http.state \notin {"idle", "connecting", "disconnected", "writing"}
    BY DEF Reading
  <1>3. http.reading
    BY <1>1 DEF StateOK, Reading
  <1>4. /\ ~http.connecting /\ ~http.detect /\ ~http.writing /\ ~http.freed /\ ~http.aborted
        /\ http.queue # << >> /\ http.state \in Busy
        /\ http.detect = FALSE /\ http.writing = FALSE
        /\ http.deferred => http.state = "firstline"
    BY <1>1, <1>2 DEF StateOK, Busy
  <1>5. http.connecting = FALSE /\ http.reading = TRUE
    BY <1>1, <1>3, <1>4 DEF Typed
  <1>6. http.peer \in Peers /\ http.peer.wire \in Seq(Piece) /\ http.peer.asked \in Seq(Requests)
    BY <1>1 DEF Typed, Peers
  <1>7. Head(http.queue) \in Requests
    BY <1>1, <1>4, HeadTailFacts DEF Typed, QueueOK
  <1> QED BY <1>1, <1>4, <1>5, <1>6, <1>7 DEF Typed, QueueOK

\* Data arrive: what is still to be read stays the same.
LEMMA ArriveSound ==
    ASSUME HttpInv, NEW n \in 1..5, Arrive(n)
    PROVE  Sound(http') /\ Moves(http, http')
  <1> DEFINE w == http.peer.wire
             i == http.input \o SubSeq(w, 1, n)
             v == SubSeq(w, n + 1, Len(w))
             h == [http EXCEPT !.input = i, !.peer.wire = v]
             g == http'
  <1>1. /\ Waiting /\ http.reading /\ n <= Len(w) /\ http.todo = << >>
        /\ ~http.deferred
    BY DEF Arrive, Waiting
  <1>2. /\ Typed(http) /\ StateOK(http) /\ StreamOK(http)
    BY DEF HttpInv, Sound, Settled
  <1>3. w \in Seq(Piece) /\ http.input \in Seq(Piece) /\ http.peer \in Peers
    BY <1>2 DEF Typed, Peers
  <1>4. http.state \in Reading
    <2>1. http.state \in Reading \cup {"idle"}
      BY <1>1, <1>2 DEF StateOK
    <2>2. ASSUME http.state \notin Reading
          PROVE  FALSE
      <3>1. http.input \o w = << >>
        BY <1>2, <2>2 DEF StreamOK, Stream
      <3>2. Len(w) >= 1
        BY <1>1, <1>3
      <3>3. Len(http.input \o w) = Len(http.input) + Len(w) /\ Len(http.input) \in Nat
        BY <1>3, ConcatProperties
      <3>4. Len(w) \in Nat /\ Len(http.input \o w) = 0
        BY <1>3, <3>1
      <3> DEFINE x == Len(http.input)
                 y == Len(w)
                 z == Len(http.input \o w)
      <3>5. y >= 1 /\ z = x + y /\ x \in Nat /\ y \in Nat /\ z = 0
        BY <3>2, <3>3, <3>4
      <3> HIDE DEF x, y, z
      <3> QED BY <3>5
    <2> QED BY <2>1, <2>2
  <1>5. /\ QueueOK(http) /\ http.queue # << >> /\ http.state \in Busy
        /\ ~http.freed /\ ~http.aborted /\ http.detect = FALSE
        /\ http.connecting = FALSE /\ http.writing = FALSE /\ http.reading = TRUE
        /\ http.got \in [Requests -> SUBSET Requests]
        /\ \A r \in Requests : http.got[r] \subseteq {r}
    BY <1>1, <1>4, ReadingState
  <1>6. g = Call(h, << DoRead >>)
    BY <1>2, <1>3 DEF Arrive, Typed, Names, Peers
  <1>7. i \in Seq(Piece) /\ v \in Seq(Piece) /\ i \o v = http.input \o w
    <2>1. /\ SubSeq(w, 1, n) \in Seq(Piece) /\ v \in Seq(Piece)
      BY <1>1, <1>3, SubSeqProperties
    <2>2. SubSeq(w, 1, n) \o v = w
      <3>1. n \in Nat /\ n \in 0..Len(w) /\ Len(w) \in Len(w)..Len(w) /\ Len(w) \in n..Len(w)
            /\ 1 \in 1..(Len(w) + 1) /\ n \in (1 - 1)..Len(w)
        BY <1>1, <1>3
      <3>2. SubSeq(w, 1, n) \o v = SubSeq(w, 1, Len(w))
        BY <1>3, <3>1, ConcatAdjacentSubSeq
      <3> QED BY <1>3, <3>2, SubSeqFull
    <2>3. i \in Seq(Piece)
      BY <1>3, <2>1, ConcatProperties
    <2>4. i \o v = http.input \o (SubSeq(w, 1, n) \o v)
      <3> DEFINE x == http.input
                 y == SubSeq(w, 1, n)
      <3>1. x \in Seq(Piece) /\ y \in Seq(Piece) /\ v \in Seq(Piece) /\ i = x \o y
        BY <1>3, <2>1
      <3> HIDE DEF x, y, v, i
      <3>2. (x \o y) \o v = x \o (y \o v)
        BY <3>1, ConcatAssociative
      <3> QED BY <3>1, <3>2 DEF x, y
    <2> QED BY <2>1, <2>2, <2>3, <2>4
  <1>8. << DoRead >> \o << >> = << DoRead >>
    <2>1. << DoRead >> \in Seq({DoRead})
      OBVIOUS
    <2> QED BY <2>1, ConcatEmptySeq
  <1> HIDE DEF i, v
  <1>9. /\ DOMAIN h = Names /\ h.peer = [http.peer EXCEPT !.wire = v] /\ h.input = i
        /\ h.queue = http.queue /\ h.copies = http.copies /\ h.fate = http.fate
        /\ h.got = http.got /\ h.todo = http.todo /\ h.state = http.state
        /\ h.freed = http.freed /\ h.aborted = http.aborted
        /\ h.connecting = http.connecting /\ h.detect = http.detect
        /\ h.reading = http.reading /\ h.writing = http.writing
        /\ h.deferred = http.deferred
    BY <1>2 DEF Typed, Names
  <1> HIDE DEF h, g
  <1>10. /\ DOMAIN g = Names /\ g.peer = h.peer /\ g.input = i
         /\ g.queue = http.queue /\ g.copies = http.copies /\ g.fate = http.fate
         /\ g.got = http.got /\ g.todo = << DoRead >> /\ g.state = http.state
         /\ g.freed = http.freed /\ g.aborted = http.aborted
         /\ g.connecting = http.connecting /\ g.detect = http.detect
         /\ g.reading = http.reading /\ g.writing = http.writing
         /\ g.deferred = http.deferred
    BY ZenonT(30), <1>1, <1>6, <1>8, <1>9 DEF Call, Names
  <1>11. g.peer \in Peers /\ g.peer.wire = v /\ g.peer.asked = http.peer.asked
    BY <1>3, <1>7, <1>9, <1>10 DEF Peers
  <1>12. StreamOK(g)
    <2>1. Stream(g) = Stream(http)
      BY <1>7, <1>10, <1>11 DEF Stream
    <2> QED BY <1>2, <1>10, <1>11, <2>1 DEF StreamOK
  <1>13. Sound(g) /\ Kept(http, g)
    <2>1. g.todo \in {<< >>, << DoRead >>} /\ g.reading \in BOOLEAN /\ g.state \in Reading
      BY <1>4, <1>5, <1>10
    <2> QED BY <1>1, <1>2, <1>5, <1>7, <1>10, <1>11, <1>12, <2>1, ReadingSound
  <1> QED BY <1>2, <1>5, <1>13, ChangesAreMoves DEF g

\* A callback that was put off is called.
LEMMA DeferredSound ==
    ASSUME HttpInv, Deferred
    PROVE  Sound(http') /\ Moves(http, http')
  <1> DEFINE g == http'
  <1>1. /\ http.todo = << >> /\ http.deferred
        /\ g = Call([http EXCEPT !.deferred = FALSE], << DoRead >>)
    BY DEF Deferred
  <1>2. http.state = "firstline" /\ http.state \in Reading /\ Typed(http) /\ StreamOK(http)
    BY <1>1 DEF HttpInv, Sound, Settled, StateOK, Reading
  <1>3. /\ QueueOK(http) /\ http.queue # << >> /\ http.state \in Busy
        /\ ~http.freed /\ ~http.aborted /\ http.detect = FALSE
        /\ http.connecting = FALSE /\ http.writing = FALSE /\ http.reading = TRUE
        /\ http.got \in [Requests -> SUBSET Requests]
        /\ \A r \in Requests : http.got[r] \subseteq {r}
        /\ http.input \in Seq(Piece) /\ http.peer \in Peers
    BY <1>1, <1>2, ReadingState
  <1>4. << DoRead >> \o << >> = << DoRead >>
    <2>1. << DoRead >> \in Seq({DoRead})
      OBVIOUS
    <2> QED BY <2>1, ConcatEmptySeq
  <1>5. /\ DOMAIN g = Names /\ g.peer = http.peer /\ g.input = http.input
        /\ g.queue = http.queue /\ g.copies = http.copies /\ g.fate = http.fate
        /\ g.got = http.got /\ g.todo = << DoRead >> /\ g.state = http.state
        /\ g.freed = http.freed /\ g.aborted = http.aborted
        /\ g.connecting = http.connecting /\ g.detect = http.detect
        /\ g.reading = http.reading /\ g.writing = http.writing
        /\ g.deferred = FALSE
    BY <1>1, <1>2, <1>4 DEF Typed, Names, Call
  <1> HIDE DEF g
  <1>6. StreamOK(g)
    <2>1. Stream(g) = Stream(http)
      BY <1>5 DEF Stream
    <2> QED BY <1>2, <1>5, <2>1 DEF StreamOK
  <1>7. Sound(g) /\ Kept(http, g)
    <2>1. g.todo \in {<< >>, << DoRead >>} /\ g.reading \in BOOLEAN /\ g.state \in Reading
      BY <1>2, <1>3, <1>5
    <2> QED BY <1>2, <1>3, <1>5, <1>6, <2>1, ReadingSound
  <1> QED BY <1>2, <1>3, <1>7, ChangesAreMoves DEF g

\* The pieces of a reply, of which only the last one ends it.
LEMMA ReplyFacts ==
    ASSUME NEW r \in Requests, NEW f \in AllFramings
    PROVE  /\ Reply(r, f) \in Seq(Piece)
           /\ \A i \in DOMAIN Reply(r, f) :
                 /\ Reply(r, f)[i].of = r
                 /\ Ends(Reply(r, f)[i]) => i = Len(Reply(r, f)) /\ f # "continue"
  <1> DEFINE k == Pieces(f)
             s == Reply(r, f)
  <1>1. /\ Len(k) \in Nat /\ DOMAIN k = 1..Len(k)
        /\ \A i \in DOMAIN k : k[i] = LastOf(f) => i = Len(k)
    <2>1. CASE f = "nobody"
      <3>1. k = << "line", "head" >>
        BY <2>1 DEF Pieces
      <3>2. LastOf(f) = "head"
        BY <3>1 DEF LastOf
      <3> HIDE DEF k
      <3>3. Len(k) = 2 /\ DOMAIN k = 1..2
        BY <3>1
      <3> QED BY <3>1, <3>2, <3>3
    <2>2. CASE f = "length"
      <3>1. k = << "line", "head", "body" >>
        BY <2>2 DEF Pieces
      <3>2. LastOf(f) = "body"
        BY <3>1 DEF LastOf
      <3> HIDE DEF k
      <3>3. Len(k) = 3 /\ DOMAIN k = 1..3
        BY <3>1
      <3> QED BY <3>1, <3>2, <3>3
    <2>3. CASE f = "chunked"
      <3>1. k = << "line", "head", "chunk", "last", "trailer" >>
        BY <2>3 DEF Pieces
      <3>2. LastOf(f) = "trailer"
        BY <3>1 DEF LastOf
      <3> HIDE DEF k
      <3>3. Len(k) = 5 /\ DOMAIN k = 1..5
        BY <3>1
      <3> QED BY <3>1, <3>2, <3>3
    <2>4. CASE f = "close"
      <3>1. k = << "line", "head", "rest" >>
        BY <2>4 DEF Pieces
      <3>2. LastOf(f) = "rest"
        BY <3>1 DEF LastOf
      <3> HIDE DEF k
      <3>3. Len(k) = 3 /\ DOMAIN k = 1..3
        BY <3>1
      <3> QED BY <3>1, <3>2, <3>3
    <2>5. CASE f = "bad"
      <3>1. k = << "line", "junk" >>
        BY <2>5 DEF Pieces
      <3>2. LastOf(f) = "junk"
        BY <3>1 DEF LastOf
      <3> HIDE DEF k
      <3>3. Len(k) = 2 /\ DOMAIN k = 1..2
        BY <3>1
      <3> QED BY <3>1, <3>2, <3>3
    <2>6. CASE f = "continue"
      <3>1. k = << "line", "head" >>
        BY <2>6 DEF Pieces
      <3>2. LastOf(f) = "head"
        BY <3>1 DEF LastOf
      <3> HIDE DEF k
      <3>3. Len(k) = 2 /\ DOMAIN k = 1..2
        BY <3>1
      <3> QED BY <3>1, <3>2, <3>3
    <2> QED BY <2>1, <2>2, <2>3, <2>4, <2>5, <2>6 DEF AllFramings
  <1>2. s = [i \in 1..Len(k) |-> PieceOf(r, f, k[i])]
    BY DEF Reply
  <1> HIDE DEF k, s
  <1>3. Len(k) \in Nat /\ DOMAIN k = 1..Len(k)
    BY <1>1
  <1>4. ASSUME NEW i \in 1..Len(k)
        PROVE  /\ s[i] \in Piece /\ s[i].of = r /\ s[i].framing = f /\ s[i].kind = k[i]
    <2>1. k[i] \in ToSet(k)
      BY <1>3 DEF ToSet
    <2>2. s[i] = [of |-> r, framing |-> f, kind |-> k[i]]
      BY <1>2 DEF PieceOf
    <2>3. s[i] \in PiecesOf(f)
      BY <2>1, <2>2 DEF PiecesOf, k
    <2> QED BY <2>2, <2>3 DEF Piece
  <1>5. s \in Seq(Piece) /\ Len(s) = Len(k) /\ DOMAIN s = 1..Len(k)
    <2>1. s \in [1..Len(k) -> Piece]
      BY <1>2, <1>4
    <2> QED BY <1>3, <2>1
  <1>6. \A i \in DOMAIN s : s[i].of = r /\ (Ends(s[i]) => i = Len(s) /\ f # "continue")
    BY <1>1, <1>3, <1>4, <1>5 DEF Ends
  <1> QED BY <1>5, <1>6 DEF s

\* The server answers: the reply is to the oldest request.
LEMMA AnswersSound ==
    ASSUME EvHttpAssumption, HttpInv, NEW f \in Framings \cup {"continue"}, Answers(f)
    PROVE  Sound(http') /\ Moves(http, http')
  <1> DEFINE r == Head(http.queue)
             w == http.peer.wire
             reply == Reply(r, f)
             a == IF f = "continue" THEN http.peer.asked ELSE Tail(http.peer.asked)
             c == IF f = "continue" THEN http.peer.continued + 1 ELSE http.peer.continued
             p == [http.peer EXCEPT !.wire = w \o reply, !.asked = a, !.continued = c,
                                    !.closed = (f = "close")]
             g == http'
  <1>1. Waiting /\ http.todo = << >> /\ ~http.deferred /\ http.peer.asked # << >>
    BY DEF Answers, Waiting
  <1>2. http.state \in Reading /\ Typed(http) /\ StreamOK(http)
    BY <1>1 DEF HttpInv, Sound, Settled, StreamOK
  <1>3. /\ QueueOK(http) /\ http.queue # << >> /\ http.state \in Busy
        /\ ~http.freed /\ ~http.aborted /\ http.detect = FALSE
        /\ http.connecting = FALSE /\ http.writing = FALSE /\ http.reading = TRUE
        /\ http.got \in [Requests -> SUBSET Requests]
        /\ \A x \in Requests : http.got[x] \subseteq {x}
        /\ http.input \in Seq(Piece) /\ http.peer \in Peers /\ w \in Seq(Piece)
        /\ r \in Requests
    BY <1>1, <1>2, ReadingState
  <1>4. http.peer.asked = << r >> /\ f \in AllFramings
    <2>1. http.peer.asked = << r >>
      BY <1>1, <1>2 DEF StreamOK
    <2> QED BY <2>1 DEF EvHttpAssumption, AllFramings
  <1>5. Head(http.peer.asked) = r /\ a = IF f = "continue" THEN << r >> ELSE << >>
    BY <1>4
  <1>6. g = [http EXCEPT !.peer = p]
    BY <1>2, <1>3, <1>5 DEF Answers, Typed, Names, Peers
  <1>7. /\ reply \in Seq(Piece)
        /\ \A i \in DOMAIN reply : /\ reply[i].of = r
                                   /\ Ends(reply[i]) => i = Len(reply) /\ f # "continue"
    BY <1>3, <1>4, ReplyFacts
  <1> HIDE DEF reply
  <1>8. w \o reply \in Seq(Piece) /\ a \in Seq(Requests) /\ c \in Nat
    <2>1. w \o reply \in Seq(Piece)
      BY <1>3, <1>7, ConcatProperties
    <2>2. a \in Seq(Requests)
      <3>1. << r >> \in Seq(Requests) /\ << >> \in Seq(Requests)
        BY <1>3
      <3> QED BY <1>5, <3>1
    <2>3. c \in Nat
      BY <1>3 DEF Peers
    <2> QED BY <2>1, <2>2, <2>3
  <1>9. p \in Peers /\ p.wire = w \o reply /\ p.asked = a
    <2> HIDE DEF a, c
    <2> QED BY <1>3, <1>8 DEF Peers
  <1> HIDE DEF a, c, p
  <1>10. /\ DOMAIN g = Names /\ g.peer = p /\ g.input = http.input
         /\ g.queue = http.queue /\ g.copies = http.copies /\ g.fate = http.fate
         /\ g.got = http.got /\ g.todo = << >> /\ g.state = http.state
         /\ g.freed = http.freed /\ g.aborted = http.aborted
         /\ g.connecting = http.connecting /\ g.detect = http.detect
         /\ g.reading = http.reading /\ g.writing = http.writing
         /\ g.deferred = http.deferred
    BY <1>1, <1>2, <1>6 DEF Typed, Names
  <1> HIDE DEF g
  <1>11. StreamOK(g)
    <2> DEFINE s == Stream(http)
               t == s \o reply
    <2>1. Stream(g) = t
      <3>1. Stream(g) = http.input \o (w \o reply)
        BY <1>9, <1>10 DEF Stream
      <3>2. http.input \o (w \o reply) = (http.input \o w) \o reply
        <4> DEFINE x == http.input
        <4>1. x \in Seq(Piece) /\ w \in Seq(Piece) /\ reply \in Seq(Piece)
          BY <1>3, <1>7
        <4> HIDE DEF x, w
        <4>2. (x \o w) \o reply = x \o (w \o reply)
          BY <4>1, ConcatAssociative
        <4> QED BY <4>2 DEF x, w
      <3> QED BY <3>1, <3>2 DEF Stream
    <2>2. s \in Seq(Piece)
      BY <1>3, ConcatProperties DEF Stream
    <2>3. \A i \in DOMAIN s : s[i].of = r /\ ~Ends(s[i])
      BY <1>1, <1>2 DEF StreamOK
    <2> HIDE DEF s
    <2>4. /\ Len(t) = Len(s) + Len(reply) /\ Len(s) \in Nat /\ Len(reply) \in Nat
          /\ DOMAIN t = 1..(Len(s) + Len(reply)) /\ DOMAIN s = 1..Len(s)
          /\ DOMAIN reply = 1..Len(reply)
          /\ \A i \in 1..Len(s) : t[i] = s[i]
          /\ \A i \in 1..Len(reply) : t[Len(s) + i] = reply[i]
      BY <1>7, <2>2
    <2>5. ASSUME NEW i \in DOMAIN t
          PROVE  t[i].of = r /\ (Ends(t[i]) => i = Len(t) /\ f # "continue")
      <3> HIDE DEF t
      <3>1. CASE i \in 1..Len(s)
        BY <2>3, <2>4, <3>1
      <3>2. CASE i \notin 1..Len(s)
        <4> DEFINE j == i - Len(s)
        <4>1. j \in 1..Len(reply) /\ i = Len(s) + j
          BY <2>4, <3>2
        <4> HIDE DEF j
        <4>2. t[i] = reply[j] /\ j \in DOMAIN reply
          BY <2>4, <4>1
        <4>3. reply[j].of = r /\ (Ends(reply[j]) => j = Len(reply) /\ f # "continue")
          BY <1>7, <4>2
        <4>4. j = Len(reply) => i = Len(t)
          BY <2>4, <4>1
        <4> QED BY <4>2, <4>3, <4>4
      <3> QED BY <3>1, <3>2
    <2> HIDE DEF t
    <2>6. f # "continue" => a = << >>
      BY <1>5
    <2>7. a \in {<< >>, << r >>}
      BY <1>5
    <2> QED BY <1>2, <1>9, <1>10, <2>1, <2>5, <2>6, <2>7 DEF StreamOK
  <1>12. Sound(g) /\ Kept(http, g)
    <2>1. g.todo \in {<< >>, << DoRead >>} /\ g.reading \in BOOLEAN /\ g.state \in Reading
      BY <1>2, <1>3, <1>10
    <2> QED BY <1>1, <1>2, <1>3, <1>9, <1>10, <1>11, <2>1, ReadingSound
  <1> QED BY <1>2, <1>3, <1>12, ChangesAreMoves DEF g

\* The server hangs up: the connection has not noticed yet.
LEMMA HangsUpSound ==
    ASSUME HttpInv, HangsUp
    PROVE  Sound(http') /\ Moves(http, http')
  <1> DEFINE p == [http.peer EXCEPT !.closed = TRUE]
             g == http'
  <1>1. /\ Typed(http) /\ QueueOK(http) /\ CallsOK(http) /\ TopOK(http) /\ StateOK(http)
        /\ StreamOK(http) /\ Attempted(http)
    BY DEF HttpInv, Sound, Settled
  <1>2. g = [http EXCEPT !.peer = p]
    BY <1>1 DEF HangsUp, Typed, Names, Peers
  <1>3. p \in Peers /\ p.wire = http.peer.wire /\ p.asked = http.peer.asked
    BY <1>1 DEF Typed, Peers
  <1> HIDE DEF p
  <1>4. /\ DOMAIN g = Names /\ g.peer = p /\ g.input = http.input
        /\ g.queue = http.queue /\ g.copies = http.copies /\ g.fate = http.fate
        /\ g.got = http.got /\ g.todo = http.todo /\ g.state = http.state
        /\ g.freed = http.freed /\ g.aborted = http.aborted
        /\ g.connecting = http.connecting /\ g.detect = http.detect
        /\ g.reading = http.reading /\ g.writing = http.writing
        /\ g.deferred = http.deferred /\ g.unattempted = http.unattempted
    BY <1>1, <1>2 DEF Typed, Names
  <1> HIDE DEF g
  <1>5. Typed(g) /\ QueueOK(g)
    <2>1. Typed(g)
      BY <1>1, <1>3, <1>4 DEF Typed
    <2>2. QueueOK(g)
      BY <1>1, <1>4 DEF QueueOK
    <2> QED BY <2>1, <2>2
  <1>6. CallsOK(g) /\ TopOK(g) /\ Attempted(g)
    BY <1>1, <1>4 DEF CallsOK, TopOK, Top, Attempted
  <1>7. StateOK(g)
    BY <1>1, <1>4 DEF StateOK
  <1>8. StreamOK(g)
    <2>1. Stream(g) = Stream(http)
      BY <1>3, <1>4 DEF Stream
    <2> QED BY <1>1, <1>3, <1>4, <2>1 DEF StreamOK
  <1>9. Kept(http, g)
    BY <1>4 DEF Kept
  <1> QED BY <1>1, <1>5, <1>6, <1>7, <1>8, <1>9, ChangesAreMoves DEF Sound, Settled, g

-----------------------------------------------------------------------------
\* A connection that was just made promises nothing yet.
LEMMA FreshSound ==
    ASSUME Init
    PROVE  HttpInv /\ Promise!Init
  <1>1. /\ DOMAIN http = Names /\ http.state = "disconnected" /\ http.peer = NoPeer
        /\ http.input = << >> /\ http.reading = FALSE
        /\ http.writing = FALSE /\ http.connecting = FALSE
        /\ http.queue = << >> /\ http.detect = FALSE /\ ~http.deferred
        /\ http.todo = << >> /\ ~http.freed /\ ~http.aborted
        /\ http.copies = [r \in Requests |-> 0] /\ http.fate = [r \in Requests |-> "new"]
        /\ http.got = [r \in Requests |-> {}]
    BY DEF Init, Fresh, Names
  <1>2. Typed(http)
    <2>1. http.peer \in Peers /\ http.state \in States
      BY <1>1 DEF NoPeer, Peers, States
    <2>2. /\ http.copies \in [Requests -> Nat] /\ http.fate \in [Requests -> Fates]
          /\ http.got \in [Requests -> SUBSET Requests]
      BY <1>1 DEF Fates
    <2>3. /\ http.queue \in Seq(Requests) /\ http.input \in Seq(Piece)
          /\ http.todo \in Seq(Frame)
      BY <1>1
    <2> QED BY <1>1, <2>1, <2>2, <2>3 DEF Typed
  <1>3. QueueOK(http)
    <2>1. ToSet(http.queue) = {} /\ IsInjective(http.queue)
      BY <1>1 DEF ToSet, IsInjective
    <2> QED BY <1>1, <2>1 DEF QueueOK
  <1>4. CallsOK(http) /\ TopOK(http)
    BY <1>1 DEF CallsOK, TopOK, Top, Distinct, ToSet
  <1>5. StateOK(http) /\ Attempted(http)
    BY <1>1 DEF StateOK, Attempted, Busy, Reading
  <1>6. StreamOK(http)
    BY <1>1 DEF StreamOK, Stream, Reading, NoPeer
  <1>7. Promise!Init
    <2>1. \A r \in Requests : EndOf(http.fate[r]) = "new"
      BY <1>1, EndOfValues
    <2> QED BY <1>1, <2>1 DEF Promise!Init
  <1> QED BY <1>2, <1>3, <1>4, <1>5, <1>6, <1>7 DEF HttpInv, Sound, Settled

\* Every step keeps the invariant, and is one the promise allows.
LEMMA StepSound ==
    ASSUME EvHttpAssumption, HttpInv, [Next]_http
    PROVE  HttpInv' /\ [Promise!Next]_Promise!vars
  <1>1. CASE UNCHANGED http
    BY <1>1 DEF HttpInv, Promise!vars
  <1>2. CASE Next
    <2>1. ASSUME NEW a \in Attempts, Connect(a)
          PROVE  Sound(http') /\ Moves(http, http')
      BY <2>1, ConnectSound
    <2>2. ASSUME ConnectReturns \/ ReadSome \/ UserReturns \/ Deferred
                 \/ ConnectSucceeds \/ Written
          PROVE  Sound(http') /\ Moves(http, http')
      BY <2>2, ConnectReturnsSound, ReadSound, UserSound, DeferredSound,
         ConnectSucceedsSound, WrittenSound
    <2>3. ASSUME NEW w, ConnectFails(w) \/ WriteFails(w) \/ ReadEnds(w)
          PROVE  Sound(http') /\ Moves(http, http')
      BY <2>3, ConnectFailsSound, WriteFailsSound, ReadEndsSound
    <2>4. ASSUME NEW n \in 1..5, Arrive(n)
          PROVE  Sound(http') /\ Moves(http, http')
      BY <2>4, ArriveSound
    <2>5. ASSUME NEW r \in Requests, Ask(r) \/ UserAsks(r)
          PROVE  Sound(http') /\ Moves(http, http')
      BY <2>5, AskSound, UserSound
    <2>6. ASSUME NEW f \in Framings \cup {"continue"}, Answers(f)
          PROVE  Sound(http') /\ Moves(http, http')
      BY <2>6, AnswersSound
    <2>7. ASSUME UserFrees \/ HangsUp
          PROVE  Sound(http') /\ Moves(http, http')
      BY <2>7, UserSound, HangsUpSound
    <2>8. Sound(http') /\ Moves(http, http')
      BY <1>2, <2>1, <2>2, <2>3, <2>4, <2>5, <2>6, <2>7 DEF Next, Loop
    <2> QED BY <2>8, MovesKeepPromise DEF HttpInv
  <1> QED BY <1>1, <1>2

\* The invariant of the connection holds throughout.
LEMMA HttpInvariant == Spec => []HttpInv
  <1>1. HttpInv /\ [Next]_http => HttpInv'
    BY EvHttpAssumption, StepSound
  <1> QED BY <1>1, FreshSound, PTL DEF Spec

\* What the invariant says of a connection between events.
LEMMA BetweenEvents ==
    ASSUME HttpInv
    PROVE  RequestDriven /\ IdleWatched /\ AssertionsHold /\ ReplyMatches
  <1>1. /\ Typed(http) /\ QueueOK(http) /\ StateOK(http) /\ Attempted(http)
    BY DEF HttpInv, Sound, Settled
  <1>2. RequestDriven
    <2> SUFFICES ASSUME http.todo = << >>, http.queue # << >>, ~http.unattempted
                 PROVE  /\ http.state \notin {"idle", "disconnected"}
                        /\ http.connecting = (http.state = "connecting")
                        /\ http.writing = (http.state = "writing")
                        /\ http.reading = (http.state \in Connected \ {"writing"})
      BY DEF RequestDriven
    <2>1. http.state \notin {"idle", "disconnected"}
      BY <1>1 DEF StateOK, Attempted, Top
    <2>2. http.connecting <=> http.state = "connecting"
      BY <1>1 DEF StateOK
    <2>3. http.reading <=> http.state \in Connected \ {"writing"}
      BY <1>1, <2>1 DEF StateOK, Reading, Connected
    <2> QED BY <1>1, <2>1, <2>2, <2>3 DEF StateOK, Typed
  <1>3. IdleWatched
    BY <1>1 DEF IdleWatched, StateOK
  <1>4. AssertionsHold
    <2>1. http.got \in [Requests -> SUBSET (Requests \cup {None})]
      BY <1>1 DEF Typed
    <2> QED BY <1>1, <2>1 DEF AssertionsHold, TypeOK, Typed, QueueOK, StateOK
  <1>5. ReplyMatches
    BY <1>1 DEF ReplyMatches, QueueOK
  <1> QED BY <1>2, <1>3, <1>4, <1>5

\* While a request is queued and no call is in progress, the connection waits
\* for exactly the event its state calls for: evhttp_connection never forgets
\* to arm the read, the write or the connect of a request it holds.
THEOREM EventAwaited == Spec => []RequestDriven
  <1>1. HttpInv => RequestDriven
    BY BetweenEvents
  <1> QED BY <1>1, HttpInvariant, PTL

\* evhttp_connection_start_detectclose and stop_detectclose: an idle kept
\* connection is watched, and no other one takes an error for its end.
THEOREM ClosingNoticed == Spec => []IdleWatched
  <1>1. HttpInv => IdleWatched
    BY BetweenEvents
  <1> QED BY <1>1, HttpInvariant, PTL

\* No EVUTIL_ASSERT of http.c fails and no illegal state is read in, in any
\* order of events, calls and callbacks; the queue and the fates agree.
THEOREM NeverAborts == Spec => []AssertionsHold
  <1>1. HttpInv => AssertionsHold
    BY BetweenEvents
  <1> QED BY <1>1, HttpInvariant, PTL

\* evhttp_connection_done takes the oldest request off the queue: the reply it
\* is given is its own, also on a kept connection and after failures.
THEOREM OwnReply == Spec => []ReplyMatches
  <1>1. HttpInv => ReplyMatches
    BY BetweenEvents
  <1> QED BY <1>1, HttpInvariant, PTL

\* The connection implements HttpPromise: a request goes out at most once, one
\* at a time and in order, and ends in exactly one way.
THEOREM PromiseKept == Spec => KeepsPromise
  <1>1. HttpInv /\ [Next]_http => [Promise!Next]_Promise!vars
    BY EvHttpAssumption, StepSound
  <1>2. Init => Promise!Init
    BY FreshSound
  <1> QED BY <1>1, <1>2, HttpInvariant, PTL DEF Spec, KeepsPromise, Promise!Spec

=============================================================================
