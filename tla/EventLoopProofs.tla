--------------------------- MODULE EventLoopProofs ---------------------------
(***************************************************************************)
(* What the loop's queues keep, for any events and descriptors: the counts  *)
(* it decides by are those of the queues, and no callback hears of a        *)
(* timeout before its time.                                                 *)
(***************************************************************************)
EXTENDS EventLoop, TLAPS, FiniteSetTheorems, SequenceTheorems,
        WellFoundedInduction

-----------------------------------------------------------------------------
(***************************************************************************)
(* Queues, as sequences whose elements are all different.                  *)
(***************************************************************************)

\* A set of numbers that is not empty has a least element.
LEMMA LeastExists ==
    ASSUME NEW S \in SUBSET Nat, S # {}
    PROVE  Min(S) \in S /\ \A y \in S : Min(S) <= y
  <1>1. PICK x \in S : \A y \in S : ~(<<y, x>> \in OpToRel(<, Nat))
    BY NatLessThanWellFounded, WFMin
  <1>2. ASSUME NEW y \in S, y < x
        PROVE  FALSE
    <2>1. <<y, x>> \in Nat \X Nat /\ <<y, x>>[1] < <<y, x>>[2]
      BY <1>2
    <2>2. <<y, x>> \in OpToRel(<, Nat)
      BY <2>1, Zenon DEF OpToRel
    <2> QED BY <1>1, <2>2
  <1>3. \A y \in S : x <= y
    BY <1>2
  <1> QED BY <1>3 DEF Min

\* Induction on the numbers, as a fact about sets.
LEMMA SetInduction ==
    ASSUME NEW S, 0 \in S, \A n \in Nat : n \in S => n + 1 \in S
    PROVE  Nat \subseteq S
  <1> DEFINE T == Nat \ S
  <1>1. CASE T # {}
    <2>1. T \in SUBSET Nat
      OBVIOUS
    <2>2. PICK x \in T : \A y \in T : x <= y
      <3> HIDE DEF T
      <3> QED BY <1>1, <2>1, LeastExists
    <2>3. x # 0 /\ x \in Nat
      OBVIOUS
    <2>4. x - 1 \in Nat /\ x - 1 \notin T
      BY <2>2, <2>3
    <2> QED BY <2>3, <2>4
  <1> QED BY <1>1

\* The position of an element that is in the queue.
LEMMA PositionOf ==
    ASSUME NEW S, NEW s \in Seq(S), NEW e, e \in ToSet(s)
    PROVE  \E i \in 1..Len(s) : s[i] = e /\ RemoveFirst(s, e) = RemoveAt(s, i)
  <1> DEFINE I == {i \in 1..Len(s) : s[i] = e}
  <1>1. \E i \in 1..Len(s) : s[i] = e
    BY DEF ToSet
  <1>2. I # {} /\ I \in SUBSET Nat
    BY <1>1
  <1>3. Min(I) \in I
    <2> HIDE DEF I
    <2> QED BY <1>2, LeastExists
  <1>4. RemoveFirst(s, e) = RemoveAt(s, Min(I))
    BY <1>1, <1>2 DEF RemoveFirst, SelectInSeq
  <1> QED BY <1>3, <1>4

\* What taking out the element at a position leaves.
LEMMA RemoveAtFacts ==
    ASSUME NEW S, NEW s \in Seq(S), NEW i \in 1..Len(s)
    PROVE  /\ RemoveAt(s, i) \in Seq(S) /\ Len(RemoveAt(s, i)) = Len(s) - 1
           /\ \A j \in 1..(Len(s) - 1) :
                 RemoveAt(s, i)[j] = IF j < i THEN s[j] ELSE s[j + 1]
  <1> DEFINE a == SubSeq(s, 1, i - 1)
             b == SubSeq(s, i + 1, Len(s))
  <1>1. Len(s) \in Nat /\ i \in Nat /\ 1 <= i /\ i <= Len(s)
    OBVIOUS
  <1>2. a \in Seq(S) /\ Len(a) = i - 1 /\ \A j \in 1..(i - 1) : a[j] = s[j]
    BY <1>1
  <1>3. /\ b \in Seq(S) /\ Len(b) = Len(s) - i
        /\ \A j \in 1..(Len(s) - i) : b[j] = s[i + j]
    BY <1>1
  <1>4. RemoveAt(s, i) = a \o b
    BY DEF RemoveAt
  <1> HIDE DEF a, b
  <1>5. /\ a \o b \in Seq(S) /\ Len(a \o b) = Len(a) + Len(b)
        /\ \A j \in 1..(Len(a) + Len(b)) :
              (a \o b)[j] = IF j <= Len(a) THEN a[j] ELSE b[j - Len(a)]
    BY <1>2, <1>3, ConcatProperties
  <1>6. Len(a) + Len(b) = Len(s) - 1
    BY <1>1, <1>2, <1>3
  <1>7. ASSUME NEW j \in 1..(Len(s) - 1)
        PROVE  (a \o b)[j] = IF j < i THEN s[j] ELSE s[j + 1]
    <2>1. CASE j < i
      BY <1>1, <1>2, <1>5, <1>6, <2>1
    <2>2. CASE ~(j < i)
      <3>1. j - Len(a) \in 1..(Len(s) - i) /\ i + (j - Len(a)) = j + 1
        BY <1>1, <1>2, <2>2
      <3>2. (a \o b)[j] = b[j - Len(a)]
        BY <1>1, <1>2, <1>5, <1>6, <2>2
      <3> QED BY <1>3, <2>2, <3>1, <3>2
    <2> QED BY <2>1, <2>2
  <1> QED BY <1>4, <1>5, <1>6, <1>7

\* Taking an element out of a queue of different elements.
LEMMA RemoveFacts ==
    ASSUME NEW S, NEW s \in Seq(S), IsInjective(s), NEW e, e \in ToSet(s)
    PROVE  /\ RemoveFirst(s, e) \in Seq(S)
           /\ Len(RemoveFirst(s, e)) = Len(s) - 1
           /\ IsInjective(RemoveFirst(s, e))
           /\ ToSet(RemoveFirst(s, e)) = ToSet(s) \ {e}
  <1>1. PICK i \in 1..Len(s) : s[i] = e /\ RemoveFirst(s, e) = RemoveAt(s, i)
    BY PositionOf
  <1> DEFINE r == RemoveAt(s, i)
  <1>2. /\ r \in Seq(S) /\ Len(r) = Len(s) - 1
        /\ \A j \in 1..(Len(s) - 1) : r[j] = IF j < i THEN s[j] ELSE s[j + 1]
    BY RemoveAtFacts
  <1> HIDE DEF r
  <1>3. DOMAIN r = 1..(Len(s) - 1) /\ DOMAIN s = 1..Len(s)
        /\ Len(s) \in Nat /\ i \in Nat /\ 1 <= i /\ i <= Len(s)
    BY <1>2
  <1>4. \A j, k \in DOMAIN s : s[j] = s[k] => j = k
    BY DEF IsInjective
  <1>5. IsInjective(r)
    <2> SUFFICES ASSUME NEW j \in DOMAIN r, NEW k \in DOMAIN r, r[j] = r[k]
                 PROVE  j = k
      BY DEF IsInjective
    <2>1. j \in DOMAIN s /\ j + 1 \in DOMAIN s /\ k \in DOMAIN s /\ k + 1 \in DOMAIN s
      BY <1>3
    <2>2. /\ r[j] = IF j < i THEN s[j] ELSE s[j + 1]
          /\ r[k] = IF k < i THEN s[k] ELSE s[k + 1]
      BY <1>2, <1>3
    <2>3. j \in Int /\ k \in Int
      BY <1>3
    <2>4. CASE j < i /\ k < i
      BY <1>4, <2>1, <2>2, <2>4
    <2>5. CASE ~(j < i) /\ ~(k < i)
      <3>1. j + 1 = k + 1
        BY <1>4, <2>1, <2>2, <2>5
      <3> QED BY <2>3, <3>1
    <2>6. CASE j < i /\ ~(k < i)
      <3>1. j = k + 1
        BY <1>4, <2>1, <2>2, <2>6
      <3> QED BY <1>3, <2>3, <2>6, <3>1
    <2>7. CASE ~(j < i) /\ k < i
      <3>1. j + 1 = k
        BY <1>4, <2>1, <2>2, <2>7
      <3> QED BY <1>3, <2>3, <2>7, <3>1
    <2> QED BY <2>4, <2>5, <2>6, <2>7
  <1>6. ToSet(r) = ToSet(s) \ {e}
    <2>1. ASSUME NEW x \in ToSet(r)
          PROVE  x \in ToSet(s) /\ x # e
      <3>1. PICK j \in DOMAIN r : x = r[j]
        BY <2>1 DEF ToSet
      <3>2. j \in DOMAIN s /\ j + 1 \in DOMAIN s /\ i \in DOMAIN s /\ j \in Int
        BY <1>3
      <3>3. r[j] = IF j < i THEN s[j] ELSE s[j + 1]
        BY <1>2, <1>3
      <3>4. x \in ToSet(s)
        BY <3>1, <3>2, <3>3 DEF ToSet
      <3>5. CASE j < i
        <4>1. j # i
          BY <1>3, <3>2, <3>5
        <4> QED BY <1>1, <1>4, <3>1, <3>2, <3>3, <3>4, <3>5, <4>1
      <3>6. CASE ~(j < i)
        <4>1. j + 1 # i
          BY <1>3, <3>2, <3>6
        <4> QED BY <1>1, <1>4, <3>1, <3>2, <3>3, <3>4, <3>6, <4>1
      <3> QED BY <3>5, <3>6
    <2>2. ASSUME NEW x \in ToSet(s), x # e
          PROVE  x \in ToSet(r)
      <3>1. PICK j \in DOMAIN s : x = s[j]
        BY <2>2 DEF ToSet
      <3>2. j # i /\ j \in Int
        BY <1>1, <1>3, <2>2, <3>1
      <3>3. CASE j < i
        <4>1. j \in DOMAIN r /\ r[j] = s[j]
          BY <1>2, <1>3, <3>1, <3>3
        <4> QED BY <3>1, <4>1 DEF ToSet
      <3>4. CASE j > i
        <4>1. j - 1 \in 1..(Len(s) - 1) /\ ~(j - 1 < i) /\ (j - 1) + 1 = j
          BY <1>3, <3>1, <3>4
        <4>2. r[j - 1] = s[(j - 1) + 1]
          BY <1>2, <4>1
        <4>3. r[j - 1] = s[j]
          BY <4>1, <4>2
        <4> QED BY <1>3, <3>1, <4>1, <4>3 DEF ToSet
      <3> QED BY <1>3, <3>2, <3>3, <3>4
    <2> QED BY <2>1, <2>2
  <1> QED BY <1>1, <1>2, <1>5, <1>6 DEF r

\* Adding an element that is not in the queue.
LEMMA AppendFacts ==
    ASSUME NEW S, NEW s \in Seq(S), NEW e \in S
    PROVE  /\ Append(s, e) \in Seq(S) /\ Len(Append(s, e)) = Len(s) + 1
           /\ ToSet(Append(s, e)) = ToSet(s) \cup {e}
           /\ IsInjective(s) /\ e \notin ToSet(s) => IsInjective(Append(s, e))
  <1> DEFINE r == Append(s, e)
  <1>1. /\ r \in Seq(S) /\ Len(r) = Len(s) + 1 /\ Len(s) \in Nat
        /\ \A j \in 1..Len(s) : r[j] = s[j]
        /\ r[Len(s) + 1] = e
    OBVIOUS
  <1> HIDE DEF r
  <1>2. DOMAIN r = 1..(Len(s) + 1) /\ DOMAIN s = 1..Len(s)
    BY <1>1
  <1>3. \A j \in DOMAIN r : j \in DOMAIN s \/ j = Len(s) + 1
    BY <1>1, <1>2
  <1>4. ToSet(r) = ToSet(s) \cup {e}
    <2>1. \A j \in DOMAIN r : r[j] \in ToSet(s) \cup {e}
      BY <1>1, <1>2, <1>3 DEF ToSet
    <2>2. Len(s) + 1 \in DOMAIN r
      BY <1>1, <1>2
    <2>3. \A j \in DOMAIN s : j \in DOMAIN r /\ s[j] = r[j]
      BY <1>1, <1>2
    <2> QED BY <1>1, <2>1, <2>2, <2>3 DEF ToSet
  <1>5. ASSUME IsInjective(s), e \notin ToSet(s)
        PROVE  IsInjective(r)
    <2> SUFFICES ASSUME NEW j \in DOMAIN r, NEW k \in DOMAIN r, r[j] = r[k]
                 PROVE  j = k
      BY DEF IsInjective
    <2>1. \A h \in DOMAIN s : r[h] = s[h] /\ s[h] # e
      BY <1>1, <1>2, <1>5 DEF ToSet
    <2>2. CASE j \in DOMAIN s /\ k \in DOMAIN s
      BY <1>5, <2>1, <2>2 DEF IsInjective
    <2>3. CASE j = Len(s) + 1 \/ k = Len(s) + 1
      BY <1>1, <1>3, <2>1, <2>3
    <2> QED BY <1>3, <2>2, <2>3
  <1> QED BY <1>1, <1>4, <1>5 DEF r

\* The oldest element, and the rest.
LEMMA HeadTailFacts ==
    ASSUME NEW S, NEW s \in Seq(S), s # << >>, IsInjective(s)
    PROVE  /\ Head(s) \in ToSet(s) /\ Head(s) \in S /\ Tail(s) \in Seq(S)
           /\ Len(Tail(s)) = Len(s) - 1
           /\ IsInjective(Tail(s)) /\ ToSet(Tail(s)) = ToSet(s) \ {Head(s)}
  <1> DEFINE r == Tail(s)
  <1>1. /\ r \in Seq(S) /\ Len(s) \in Nat /\ Len(s) >= 1 /\ Len(r) = Len(s) - 1
        /\ \A j \in 1..(Len(s) - 1) : r[j] = s[j + 1]
        /\ Head(s) = s[1] /\ Head(s) \in S
    OBVIOUS
  <1> HIDE DEF r
  <1>2. DOMAIN r = 1..(Len(s) - 1) /\ DOMAIN s = 1..Len(s)
    BY <1>1
  <1>3. \A j, k \in DOMAIN s : s[j] = s[k] => j = k
    BY DEF IsInjective
  <1>4. 1 \in DOMAIN s /\ \A j \in DOMAIN r : j + 1 \in DOMAIN s /\ j + 1 # 1 /\ j \in Int
    BY <1>1, <1>2
  <1>5. IsInjective(r)
    <2> SUFFICES ASSUME NEW j \in DOMAIN r, NEW k \in DOMAIN r, r[j] = r[k]
                 PROVE  j = k
      BY DEF IsInjective
    <2>1. r[j] = s[j + 1] /\ r[k] = s[k + 1]
      BY <1>1, <1>2
    <2>2. j + 1 = k + 1
      BY <1>3, <1>4, <2>1
    <2> QED BY <1>4, <2>2
  <1>6. ToSet(r) = ToSet(s) \ {Head(s)}
    <2>1. ASSUME NEW x \in ToSet(r)
          PROVE  x \in ToSet(s) /\ x # Head(s)
      <3>1. PICK j \in DOMAIN r : x = r[j]
        BY <2>1 DEF ToSet
      <3>2. r[j] = s[j + 1]
        BY <1>1, <1>2
      <3>3. s[j + 1] # s[1]
        BY <1>3, <1>4
      <3> QED BY <1>1, <1>4, <3>1, <3>2, <3>3 DEF ToSet
    <2>2. ASSUME NEW x \in ToSet(s), x # Head(s)
          PROVE  x \in ToSet(r)
      <3>1. PICK j \in DOMAIN s : x = s[j]
        BY <2>2 DEF ToSet
      <3>2. j # 1
        BY <1>1, <2>2, <3>1
      <3>3. j - 1 \in 1..(Len(s) - 1) /\ (j - 1) + 1 = j
        BY <1>1, <1>2, <3>1, <3>2
      <3>4. r[j - 1] = s[(j - 1) + 1]
        BY <1>1, <3>3
      <3>5. r[j - 1] = s[j]
        BY <3>3, <3>4
      <3> QED BY <1>2, <3>1, <3>3, <3>5 DEF ToSet
    <2> QED BY <2>1, <2>2
  <1>7. Head(s) \in ToSet(s)
    BY <1>1, <1>4 DEF ToSet
  <1> QED BY <1>1, <1>5, <1>6, <1>7 DEF r

\* Induction up to a bound.
LEMMA BoundedInduction ==
    ASSUME NEW n \in Nat, NEW P, 0 \in P, \A i \in 1..n : i - 1 \in P => i \in P
    PROVE  0..n \subseteq P
  <1> DEFINE S == {i \in Nat : i <= n => i \in P}
  <1>1. 0 \in S
    OBVIOUS
  <1>2. \A i \in Nat : i \in S => i + 1 \in S
    OBVIOUS
  <1>3. Nat \subseteq S
    <2> HIDE DEF S
    <2> QED BY <1>1, <1>2, SetInduction
  <1> QED BY <1>3

\* A recursion along a sequence: Q[i] are the values it may have after i steps,
\* step[i] what the i-th step does.
Stays(n, Q, step) == \A i \in 1..n : \A x \in Q[i - 1] : step[i][x] \in Q[i]
Solves(f, n, Q, q, step) ==
    /\ f[0] = q /\ \A i \in 1..n : f[i] = step[i][f[i - 1]]
    /\ \A i \in 0..n : f[i] \in Q[i]

\* It has a solution.
LEMMA RecursionExists ==
    ASSUME NEW n \in Nat, NEW Q, NEW q \in Q[0], NEW step, Stays(n, Q, step)
    PROVE  \E f : Solves(f, n, Q, q, step)
  <1>0. \A i \in 1..n : \A x \in Q[i - 1] : step[i][x] \in Q[i]
    BY DEF Stays
  <1> DEFINE Sol(m, f) == /\ f[0] = q /\ \A i \in 1..m : f[i] = step[i][f[i - 1]]
                          /\ \A i \in 0..m : f[i] \in Q[i]
             P == {m \in 0..n : \E f : Sol(m, f)}
  <1>1. 0 \in P
    <2> DEFINE f0 == [i \in 0..0 |-> q]
    <2>1. Sol(0, f0)
      OBVIOUS
    <2>2. \E f : Sol(0, f)
      <3> HIDE DEF f0, Sol
      <3> QED BY <2>1
    <2> HIDE DEF Sol
    <2> QED BY <2>2
  <1>2. ASSUME NEW m \in 1..n, m - 1 \in P
        PROVE  m \in P
    <2>1. PICK f : Sol(m - 1, f)
      BY <1>2
    <2> DEFINE g == [i \in 0..m |-> IF i = m THEN step[m][f[m - 1]] ELSE f[i]]
    <2>2. m \in Nat /\ m - 1 \in Nat /\ m - 1 \in 0..(m - 1) /\ m # 0
      OBVIOUS
    <2>3. \A i \in 0..(m - 1) : g[i] = f[i] /\ i \in 0..m
      BY <2>2
    <2>4. g[m] = step[m][f[m - 1]]
      BY <2>2
    <2> HIDE DEF g
    <2>5. g[0] = q
      BY <2>1, <2>2, <2>3
    <2>6. \A i \in 0..m : g[i] \in Q[i]
      <3>1. g[m] \in Q[m]
        BY <1>0, <2>1, <2>2, <2>4
      <3>2. \A i \in 0..m : i = m \/ i \in 0..(m - 1)
        BY <2>2
      <3> QED BY <2>1, <2>3, <3>1, <3>2
    <2>7. \A i \in 1..m : g[i] = step[i][g[i - 1]]
      <3> TAKE i \in 1..m
      <3>1. i - 1 \in 0..(m - 1) /\ (i = m \/ (i \in 0..(m - 1) /\ i \in 1..(m - 1)))
        BY <2>2
      <3>2. g[i - 1] = f[i - 1]
        BY <2>3, <3>1
      <3> QED BY <2>1, <2>3, <2>4, <3>1, <3>2
    <2>8. Sol(m, g)
      BY <2>5, <2>6, <2>7
    <2> HIDE DEF Sol
    <2> QED BY <2>8
  <1>3. n \in P
    <2> HIDE DEF P
    <2> QED BY <1>1, <1>2, BoundedInduction
  <1> QED BY <1>3 DEF Solves

-----------------------------------------------------------------------------

\* The queues as the record the operations work on.
QueueTypes ==
    [ins : SUBSET Events, tim : SUBSET Events, left : [Events -> Int],
     act : Seq(Events), res : [Events -> SUBSET Reasons], n : Int,
     w : [Fds -> [Ways -> Int]], p : [Fds -> SUBSET Ways]]

\* The inserted events that wait for w on f, and what is kept of them.
There(ins, f, w) == {e \in ins : Fd(e) = f /\ w \in Wants(e)}
Watching(q) ==
    \A f \in Fds, w \in Ways :
        /\ q.w[f][w] = Cardinality(There(q.ins, f, w))
        /\ w \in q.p[f] <=> There(q.ins, f, w) # {}
Counted(q) ==
    /\ IsFiniteSet(q.ins) /\ IsFiniteSet(q.tim) /\ IsInjective(q.act)
    /\ q.n = Cardinality(q.ins) + Cardinality(q.tim) + Len(q.act)
OnTime(q) ==
    \A e \in ToSet(q.act) : "timeout" \in q.res[e] => q.left[e] <= 0 /\ e \notin q.tim
Sound(q) == q \in QueueTypes /\ Counted(q) /\ Watching(q) /\ OnTime(q)

\* Nothing is active while the loop waits or runs deferred callbacks.
Idle ==
    /\ pc \in {"deferred", "wait"} => active = << >>
    /\ pc = "top" => active = << >> \/ stop
    /\ pc = "callback" /\ current[1] \notin Events => active = << >>
Rest ==
    /\ asked \subseteq Events /\ period \in [Events -> Delays \cup {0}]
    /\ deferred \in Seq(Deferreds) /\ IsInjective(deferred)
    /\ lag \in Nat
    /\ pc \in {"callback", "process", "deferred", "top", "wait", "ended"}
LoopInv == Sound(Queues) /\ Idle /\ Rest

-----------------------------------------------------------------------------
\* A descriptor gains a watcher: its count is one more, and the kernel is told
\* with the first.
LEMMA WatchSound ==
    ASSUME EventLoopAssumption, NEW q, Sound(q), NEW e \in Events \ q.ins
    PROVE  /\ Sound(Watch(q, e)) /\ Watch(q, e).act = q.act
           /\ Watch(q, e).tim = q.tim /\ Watch(q, e).res = q.res
           /\ Watch(q, e).left = q.left
  <1> DEFINE r == Watch(q, e)
             f == Fd(e)
             w == [x \in Ways |-> q.w[f][x] + IF x \in Wants(e) THEN 1 ELSE 0]
  <1>1. f \in Fds /\ Wants(e) \subseteq Ways
    BY DEF EventLoopAssumption
  <1>2. q \in QueueTypes /\ q.ins \subseteq Events
    BY DEF Sound, QueueTypes
  <1>3. w \in [Ways -> Int]
    BY <1>1, <1>2 DEF QueueTypes
  <1>4. r = [q EXCEPT !.ins = @ \cup {e}, !.n = @ + 1, !.w[f] = w,
                      !.p[f] = @ \cup {x \in Wants(e) : w[x] = 1}]
    BY DEF Watch
  <1>a. {x \in Wants(e) : w[x] = 1} \subseteq Ways
    BY <1>1
  <1>5. /\ r \in QueueTypes
        /\ r.ins = q.ins \cup {e} /\ r.n = q.n + 1
        /\ r.w = [q.w EXCEPT ![f] = w]
        /\ r.p = [q.p EXCEPT ![f] = @ \cup {x \in Wants(e) : w[x] = 1}]
        /\ r.act = q.act /\ r.tim = q.tim /\ r.res = q.res /\ r.left = q.left
    <2> DEFINE v == {x \in Wants(e) : w[x] = 1}
    <2>1. v \subseteq Ways /\ r = [q EXCEPT !.ins = @ \cup {e}, !.n = @ + 1,
                                         !.w[f] = w, !.p[f] = @ \cup v]
      BY <1>a, <1>4
    <2> HIDE DEF r, f, w, v
    <2>2. /\ r.ins = q.ins \cup {e} /\ r.n = q.n + 1
          /\ r.w = [q.w EXCEPT ![f] = w] /\ r.p = [q.p EXCEPT ![f] = @ \cup v]
          /\ r.act = q.act /\ r.tim = q.tim /\ r.res = q.res /\ r.left = q.left
      BY <1>2, <2>1 DEF QueueTypes
    <2>3. r.w \in [Fds -> [Ways -> Int]] /\ r.p \in [Fds -> SUBSET Ways]
      BY <1>1, <1>2, <1>3, <2>1, <2>2 DEF QueueTypes
    <2>4. r = [ins |-> r.ins, tim |-> r.tim, left |-> r.left, act |-> r.act,
               res |-> r.res, n |-> r.n, w |-> r.w, p |-> r.p]
      BY <1>2, <2>1 DEF QueueTypes
    <2>5. r \in QueueTypes
      <3>1. r.ins \in SUBSET Events /\ r.n \in Int
        BY <1>2, <2>2 DEF QueueTypes
      <3>2. /\ r.tim \in SUBSET Events /\ r.left \in [Events -> Int]
            /\ r.act \in Seq(Events) /\ r.res \in [Events -> SUBSET Reasons]
        BY <1>2, <2>2 DEF QueueTypes
      <3> QED BY <2>3, <2>4, <3>1, <3>2 DEF QueueTypes
    <2> QED BY <2>2, <2>5 DEF v
  <1>6. Counted(r)
    <2>1. /\ IsFiniteSet(q.ins) /\ IsFiniteSet(q.tim) /\ IsInjective(q.act)
          /\ q.n = Cardinality(q.ins) + Cardinality(q.tim) + Len(q.act)
      BY DEF Sound, Counted
    <2>2. /\ IsFiniteSet(r.ins) /\ Cardinality(r.ins) = Cardinality(q.ins) + 1
          /\ Cardinality(q.ins) \in Nat /\ Cardinality(q.tim) \in Nat
      BY SMTT(30), <1>5, <2>1, FS_AddElement, FS_CardinalityType
    <2>3. Len(q.act) \in Nat
      BY <1>2 DEF QueueTypes
    <2>4. r.n = Cardinality(r.ins) + Cardinality(r.tim) + Len(r.act)
      BY <1>5, <2>1, <2>2, <2>3
    <2> QED BY <1>5, <2>1, <2>2, <2>4 DEF Counted
  <1>7. Watching(r)
    <2> SUFFICES ASSUME NEW g \in Fds, NEW x \in Ways
                 PROVE  /\ r.w[g][x] = Cardinality(There(r.ins, g, x))
                        /\ x \in r.p[g] <=> There(r.ins, g, x) # {}
      BY DEF Watching
    <2> DEFINE T == There(q.ins, g, x)
    <2>1. IsFiniteSet(T) /\ Cardinality(T) \in Nat
      BY FS_Subset, FS_CardinalityType DEF Sound, Counted, There
    <2>2. q.w[g][x] = Cardinality(T) /\ (x \in q.p[g] <=> T # {})
      BY DEF Sound, Watching
    <2>3. CASE g = f /\ x \in Wants(e)
      <3>1. There(r.ins, g, x) = T \cup {e} /\ e \notin T
        BY <1>5, <2>3 DEF There
      <3>2. r.w[g][x] = q.w[g][x] + 1 /\ w[x] = q.w[g][x] + 1
        <4>1. w[x] = q.w[g][x] + 1
          BY <1>5, <2>3
        <4>2. r.w[g] = w
          <5> HIDE DEF w, r, f
          <5> QED BY <1>1, <1>2, <1>5, <2>3 DEF QueueTypes
        <4> QED BY <4>1, <4>2
      <3>3. x \in r.p[g] <=> x \in q.p[g] \/ w[x] = 1
        <4> HIDE DEF w, r, f
        <4> QED BY <1>1, <1>2, <1>5, <2>3 DEF QueueTypes
      <3>4. Cardinality(T \cup {e}) = Cardinality(T) + 1
        BY <2>1, <3>1, FS_AddElement
      <3>5. Cardinality(T) = 0 <=> T = {}
        BY <2>1, FS_EmptySet
      <3> HIDE DEF w, r, f, T
      <3> QED BY <2>1, <2>2, <3>1, <3>2, <3>3, <3>4, <3>5
    <2>4. CASE ~(g = f /\ x \in Wants(e))
      <3>1. There(r.ins, g, x) = T
        BY <1>5, <2>4 DEF There
      <3>2. r.w[g][x] = q.w[g][x]
        <4>1. CASE g = f
          <5>1. w[x] = q.w[g][x]
            BY <1>2, <2>4, <4>1 DEF QueueTypes
          <5>2. r.w[g] = w
            <6> HIDE DEF w, r, f
            <6> QED BY <1>1, <1>2, <1>5, <4>1 DEF QueueTypes
          <5> QED BY <5>1, <5>2
        <4>2. CASE g # f
          <5> HIDE DEF w, r, f
          <5> QED BY <1>1, <1>2, <1>5, <4>2 DEF QueueTypes
        <4> QED BY <4>1, <4>2
      <3>3. x \in r.p[g] <=> x \in q.p[g]
        <4> HIDE DEF w, r, f
        <4> QED BY <1>1, <1>2, <1>5, <2>4 DEF QueueTypes
      <3> QED BY <2>2, <3>1, <3>2, <3>3
    <2> QED BY <2>3, <2>4
  <1>8. OnTime(r)
    BY <1>5 DEF Sound, OnTime
  <1> QED BY <1>5, <1>6, <1>7, <1>8 DEF Sound

\* A descriptor loses a watcher: its count is one less, and the kernel is told
\* with the last.
LEMMA UnwatchSound ==
    ASSUME EventLoopAssumption, NEW q, Sound(q), NEW e \in Events
    PROVE  /\ Sound(Unwatch(q, e)) /\ Unwatch(q, e).act = q.act
           /\ Unwatch(q, e).ins = q.ins \ {e}
           /\ Unwatch(q, e).tim = q.tim /\ Unwatch(q, e).res = q.res
           /\ Unwatch(q, e).left = q.left
  <1> DEFINE r == Unwatch(q, e)
             f == Fd(e)
             w == [x \in Ways |-> q.w[f][x] - IF x \in Wants(e) THEN 1 ELSE 0]
  <1>0. CASE e \notin q.ins
    <2>1. Unwatch(q, e) = q
      BY <1>0 DEF Unwatch
    <2> QED BY <1>0, <2>1
  <1> SUFFICES ASSUME e \in q.ins
               PROVE  /\ Sound(r) /\ r.act = q.act /\ r.ins = q.ins \ {e}
                      /\ r.tim = q.tim /\ r.res = q.res /\ r.left = q.left
    BY <1>0
  <1>1. f \in Fds /\ Wants(e) \subseteq Ways
    BY DEF EventLoopAssumption
  <1>2. q \in QueueTypes /\ q.ins \subseteq Events
    BY DEF Sound, QueueTypes
  <1>3. w \in [Ways -> Int]
    BY <1>1, <1>2 DEF QueueTypes
  <1>4. r = [q EXCEPT !.ins = @ \ {e}, !.n = @ - 1, !.w[f] = w,
                      !.p[f] = @ \ {x \in Wants(e) : w[x] = 0}]
    BY DEF Unwatch
  <1>a. {x \in Wants(e) : w[x] = 0} \subseteq Ways
    BY <1>1
  <1>5. /\ r \in QueueTypes
        /\ r.ins = q.ins \ {e} /\ r.n = q.n - 1
        /\ r.w = [q.w EXCEPT ![f] = w]
        /\ r.p = [q.p EXCEPT ![f] = @ \ {x \in Wants(e) : w[x] = 0}]
        /\ r.act = q.act /\ r.tim = q.tim /\ r.res = q.res /\ r.left = q.left
    <2> DEFINE v == {x \in Wants(e) : w[x] = 0}
    <2>1. v \subseteq Ways /\ r = [q EXCEPT !.ins = @ \ {e}, !.n = @ - 1,
                                         !.w[f] = w, !.p[f] = @ \ v]
      BY <1>a, <1>4
    <2> HIDE DEF r, f, w, v
    <2>2. /\ r.ins = q.ins \ {e} /\ r.n = q.n - 1
          /\ r.w = [q.w EXCEPT ![f] = w] /\ r.p = [q.p EXCEPT ![f] = @ \ v]
          /\ r.act = q.act /\ r.tim = q.tim /\ r.res = q.res /\ r.left = q.left
      BY <1>2, <2>1 DEF QueueTypes
    <2>3. r.w \in [Fds -> [Ways -> Int]] /\ r.p \in [Fds -> SUBSET Ways]
      BY <1>1, <1>2, <1>3, <2>1, <2>2 DEF QueueTypes
    <2>4. r = [ins |-> r.ins, tim |-> r.tim, left |-> r.left, act |-> r.act,
               res |-> r.res, n |-> r.n, w |-> r.w, p |-> r.p]
      BY <1>2, <2>1 DEF QueueTypes
    <2>5. r \in QueueTypes
      <3>1. r.ins \in SUBSET Events /\ r.n \in Int
        BY <1>2, <2>2 DEF QueueTypes
      <3>2. /\ r.tim \in SUBSET Events /\ r.left \in [Events -> Int]
            /\ r.act \in Seq(Events) /\ r.res \in [Events -> SUBSET Reasons]
        BY <1>2, <2>2 DEF QueueTypes
      <3> QED BY <2>3, <2>4, <3>1, <3>2 DEF QueueTypes
    <2> QED BY <2>2, <2>5 DEF v
  <1>6. Counted(r)
    <2>1. /\ IsFiniteSet(q.ins) /\ IsFiniteSet(q.tim) /\ IsInjective(q.act)
          /\ q.n = Cardinality(q.ins) + Cardinality(q.tim) + Len(q.act)
      BY DEF Sound, Counted
    <2>2. /\ IsFiniteSet(r.ins) /\ Cardinality(r.ins) = Cardinality(q.ins) - 1
          /\ Cardinality(q.ins) \in Nat /\ Cardinality(q.tim) \in Nat
      BY SMTT(30), <1>5, <2>1, FS_RemoveElement, FS_CardinalityType
    <2>3. Len(q.act) \in Nat
      BY <1>2 DEF QueueTypes
    <2>4. r.n = Cardinality(r.ins) + Cardinality(r.tim) + Len(r.act)
      BY <1>5, <2>1, <2>2, <2>3
    <2> QED BY <1>5, <2>1, <2>2, <2>4 DEF Counted
  <1>7. Watching(r)
    <2> SUFFICES ASSUME NEW g \in Fds, NEW x \in Ways
                 PROVE  /\ r.w[g][x] = Cardinality(There(r.ins, g, x))
                        /\ x \in r.p[g] <=> There(r.ins, g, x) # {}
      BY DEF Watching
    <2> DEFINE T == There(q.ins, g, x)
    <2>1. IsFiniteSet(T) /\ Cardinality(T) \in Nat
      BY FS_Subset, FS_CardinalityType DEF Sound, Counted, There
    <2>2. q.w[g][x] = Cardinality(T) /\ (x \in q.p[g] <=> T # {})
      BY DEF Sound, Watching
    <2>3. CASE g = f /\ x \in Wants(e)
      <3>1. There(r.ins, g, x) = T \ {e} /\ e \in T
        BY <1>5, <2>3 DEF There
      <3>2. r.w[g][x] = q.w[g][x] - 1 /\ w[x] = q.w[g][x] - 1
        <4>1. w[x] = q.w[g][x] - 1
          BY <1>5, <2>3
        <4>2. r.w[g] = w
          <5> HIDE DEF w, r, f
          <5> QED BY <1>1, <1>2, <1>5, <2>3 DEF QueueTypes
        <4> QED BY <4>1, <4>2
      <3>3. x \in r.p[g] <=> x \in q.p[g] /\ w[x] # 0
        <4> HIDE DEF w, r, f
        <4> QED BY <1>1, <1>2, <1>5, <2>3 DEF QueueTypes
      <3>4. Cardinality(T \ {e}) = Cardinality(T) - 1
        BY ZenonT(30), <2>1, <3>1, FS_RemoveElement
      <3>5. Cardinality(T \ {e}) = 0 <=> T \ {e} = {}
        BY <2>1, FS_RemoveElement, FS_EmptySet
      <3> HIDE DEF w, r, f, T
      <3> QED BY <2>1, <2>2, <3>1, <3>2, <3>3, <3>4, <3>5
    <2>4. CASE ~(g = f /\ x \in Wants(e))
      <3>1. There(r.ins, g, x) = T
        BY <1>5, <2>4 DEF There
      <3>2. r.w[g][x] = q.w[g][x]
        <4>1. CASE g = f
          <5>1. w[x] = q.w[g][x]
            BY <1>2, <2>4, <4>1 DEF QueueTypes
          <5>2. r.w[g] = w
            <6> HIDE DEF w, r, f
            <6> QED BY <1>1, <1>2, <1>5, <4>1 DEF QueueTypes
          <5> QED BY <5>1, <5>2
        <4>2. CASE g # f
          <5> HIDE DEF w, r, f
          <5> QED BY <1>1, <1>2, <1>5, <4>2 DEF QueueTypes
        <4> QED BY <4>1, <4>2
      <3>3. x \in r.p[g] <=> x \in q.p[g]
        <4> HIDE DEF w, r, f
        <4> QED BY <1>1, <1>2, <1>5, <2>4 DEF QueueTypes
      <3> QED BY <2>2, <3>1, <3>2, <3>3
    <2> QED BY <2>3, <2>4
  <1>8. OnTime(r)
    BY <1>5 DEF Sound, OnTime
  <1> QED BY <1>5, <1>6, <1>7, <1>8 DEF Sound

\* An event leaves the heap.
LEMMA UntimedSound ==
    ASSUME NEW q, Sound(q), NEW e \in Events
    PROVE  /\ Sound(Untimed(q, e)) /\ Untimed(q, e).act = q.act
           /\ Untimed(q, e).ins = q.ins /\ Untimed(q, e).tim = q.tim \ {e}
           /\ Untimed(q, e).res = q.res /\ Untimed(q, e).left = q.left
           /\ Untimed(q, e).n = IF e \in q.tim THEN q.n - 1 ELSE q.n
  <1>0. CASE e \notin q.tim
    BY <1>0 DEF Untimed
  <1>1. CASE e \in q.tim
    <2> DEFINE r == [q EXCEPT !.tim = @ \ {e}, !.n = @ - 1]
    <2>1. Untimed(q, e) = r
      BY <1>1 DEF Untimed
    <2>2. /\ q \in QueueTypes
          /\ IsFiniteSet(q.ins) /\ IsFiniteSet(q.tim) /\ IsInjective(q.act)
          /\ q.n = Cardinality(q.ins) + Cardinality(q.tim) + Len(q.act)
      BY DEF Sound, Counted
    <2>3. /\ r.ins = q.ins /\ r.tim = q.tim \ {e} /\ r.n = q.n - 1 /\ r.w = q.w
          /\ r.p = q.p /\ r.act = q.act /\ r.res = q.res /\ r.left = q.left
      BY <2>2 DEF QueueTypes
    <2>4. r \in QueueTypes
      <3>0. r = [q EXCEPT !.tim = @ \ {e}, !.n = @ - 1]
        OBVIOUS
      <3> HIDE DEF r
      <3>1. r = [ins |-> r.ins, tim |-> r.tim, left |-> r.left, act |-> r.act,
                 res |-> r.res, n |-> r.n, w |-> r.w, p |-> r.p]
        BY <3>0, <2>2 DEF QueueTypes
      <3>2. /\ q.ins \in SUBSET Events /\ q.tim \in SUBSET Events /\ q.n \in Int
            /\ q.left \in [Events -> Int] /\ q.act \in Seq(Events)
            /\ q.res \in [Events -> SUBSET Reasons]
            /\ q.w \in [Fds -> [Ways -> Int]] /\ q.p \in [Fds -> SUBSET Ways]
        BY <2>2 DEF QueueTypes
      <3>3. /\ r.ins \in SUBSET Events /\ r.tim \in SUBSET Events /\ r.n \in Int
            /\ r.left \in [Events -> Int] /\ r.act \in Seq(Events)
        BY <2>3, <3>2
      <3> QED BY <2>3, <3>1, <3>2, <3>3 DEF QueueTypes
    <2> HIDE DEF r
    <2>5. /\ IsFiniteSet(r.tim) /\ Cardinality(r.tim) = Cardinality(q.tim) - 1
          /\ Cardinality(q.ins) \in Nat /\ Cardinality(q.tim) \in Nat
      BY <1>1, <2>2, <2>3, FS_RemoveElement, FS_CardinalityType
    <2>6. Len(q.act) \in Nat
      BY <2>2 DEF QueueTypes
    <2>7. Counted(r)
      BY <2>2, <2>3, <2>5, <2>6 DEF Counted
    <2>8. Watching(r) /\ OnTime(r)
      BY <2>3 DEF Sound, Watching, OnTime
    <2> QED BY <1>1, <2>1, <2>3, <2>4, <2>7, <2>8 DEF Sound
  <1> QED BY <1>0, <1>1

\* An event leaves the active queue.
LEMMA InactiveSound ==
    ASSUME NEW q, Sound(q), NEW e \in Events
    PROVE  /\ Sound(Inactive(q, e)) /\ Inactive(q, e).ins = q.ins
           /\ ToSet(Inactive(q, e).act) = ToSet(q.act) \ {e}
           /\ q.act = << >> => Inactive(q, e).act = << >>
           /\ Inactive(q, e).tim = q.tim
           /\ Inactive(q, e).res = q.res /\ Inactive(q, e).left = q.left
  <1>0. CASE e \notin ToSet(q.act)
    BY <1>0 DEF Inactive
  <1>1. CASE e \in ToSet(q.act)
    <2> DEFINE s == RemoveFirst(q.act, e)
               r == [q EXCEPT !.act = s, !.n = @ - 1]
    <2>1. Inactive(q, e) = r
      BY <1>1 DEF Inactive
    <2>2. /\ q \in QueueTypes
          /\ IsFiniteSet(q.ins) /\ IsFiniteSet(q.tim) /\ IsInjective(q.act)
          /\ q.n = Cardinality(q.ins) + Cardinality(q.tim) + Len(q.act)
      BY DEF Sound, Counted
    <2>3. q.act \in Seq(Events)
      BY <2>2 DEF QueueTypes
    <2>4. /\ s \in Seq(Events) /\ Len(s) = Len(q.act) - 1 /\ IsInjective(s)
          /\ ToSet(s) = ToSet(q.act) \ {e}
      BY <1>1, <2>2, <2>3, RemoveFacts
    <2> HIDE DEF s
    <2>5. /\ r.ins = q.ins /\ r.tim = q.tim /\ r.n = q.n - 1 /\ r.w = q.w
          /\ r.p = q.p /\ r.act = s /\ r.res = q.res /\ r.left = q.left
      BY <2>2 DEF QueueTypes
    <2>6. r \in QueueTypes
      <3>0. r = [q EXCEPT !.act = s, !.n = @ - 1]
        OBVIOUS
      <3> HIDE DEF r
      <3>1. r = [ins |-> r.ins, tim |-> r.tim, left |-> r.left, act |-> r.act,
                 res |-> r.res, n |-> r.n, w |-> r.w, p |-> r.p]
        BY <3>0, <2>2 DEF QueueTypes
      <3>2. /\ q.ins \in SUBSET Events /\ q.tim \in SUBSET Events /\ q.n \in Int
            /\ q.left \in [Events -> Int] /\ q.act \in Seq(Events)
            /\ q.res \in [Events -> SUBSET Reasons]
            /\ q.w \in [Fds -> [Ways -> Int]] /\ q.p \in [Fds -> SUBSET Ways]
        BY <2>2 DEF QueueTypes
      <3>3. /\ r.ins \in SUBSET Events /\ r.tim \in SUBSET Events /\ r.n \in Int
            /\ r.left \in [Events -> Int] /\ r.act \in Seq(Events)
        BY <2>4, <2>5, <3>2
      <3> QED BY <2>4, <2>5, <3>1, <3>2, <3>3 DEF QueueTypes
    <2> HIDE DEF r
    <2>7. Cardinality(q.ins) \in Nat /\ Cardinality(q.tim) \in Nat /\ Len(q.act) \in Nat
      BY <2>2, <2>3, FS_CardinalityType
    <2>8. Counted(r)
      BY <2>2, <2>4, <2>5, <2>7 DEF Counted
    <2>9. Watching(r) /\ OnTime(r)
      BY <2>4, <2>5 DEF Sound, Watching, OnTime
    <2>10. q.act # << >>
      BY <1>1 DEF ToSet
    <2> QED BY <2>1, <2>4, <2>5, <2>6, <2>8, <2>9, <2>10 DEF Sound
  <1> QED BY <1>0, <1>1

\* event_del leaves the event on no queue.
LEMMA DeleteSound ==
    ASSUME EventLoopAssumption, NEW q, Sound(q), NEW e \in Events
    PROVE  /\ Sound(Delete(q, e))
           /\ ToSet(Delete(q, e).act) = ToSet(q.act) \ {e}
           /\ q.act = << >> => Delete(q, e).act = << >>
           /\ Delete(q, e).ins = q.ins \ {e} /\ Delete(q, e).tim = q.tim \ {e}
           /\ Delete(q, e).res = q.res /\ Delete(q, e).left = q.left
  <1> DEFINE a == Untimed(q, e)
             b == Inactive(a, e)
  <1>1. Sound(a) /\ a.act = q.act /\ a.ins = q.ins /\ a.tim = q.tim \ {e}
        /\ a.res = q.res /\ a.left = q.left
    BY UntimedSound
  <1> HIDE DEF a
  <1>2. Sound(b) /\ ToSet(b.act) = ToSet(q.act) \ {e} /\ b.ins = q.ins
        /\ (q.act = << >> => b.act = << >>)
        /\ b.tim = q.tim \ {e} /\ b.res = q.res /\ b.left = q.left
    BY <1>1, InactiveSound
  <1>3. Delete(q, e) = Unwatch(b, e)
    BY DEF Delete, a, b
  <1> HIDE DEF b
  <1> QED BY <1>2, <1>3, UnwatchSound

\* event_add watches the descriptor of an event that is on no queue for it.
LEMMA InsertSound ==
    ASSUME EventLoopAssumption, NEW q, Sound(q), NEW e \in Events
    PROVE  /\ Sound(Insert(q, e)) /\ Insert(q, e).act = q.act
           /\ Insert(q, e).tim = q.tim /\ Insert(q, e).res = q.res
           /\ Insert(q, e).left = q.left
  BY WatchSound DEF Insert

\* event_add with a timeout: an event that is active for an earlier one is not
\* any more.
LEMMA TimeoutSound ==
    ASSUME EventLoopAssumption, NEW q, Sound(q), NEW e \in Events, NEW t \in Int
    PROVE  /\ Sound(Timeout(q, e, t))
           /\ q.act = << >> => Timeout(q, e, t).act = << >>
  <1> DEFINE g == Untimed(Insert(q, e), e)
             h == IF "timeout" \in q.res[e] THEN Inactive(g, e) ELSE g
             r == [h EXCEPT !.tim = @ \cup {e}, !.left[e] = t, !.n = @ + 1]
  <1>1. Timeout(q, e, t) = r
    BY DEF Timeout
  <1>2. Sound(g) /\ g.act = q.act /\ g.res = q.res /\ e \notin g.tim
    BY InsertSound, UntimedSound
  <1> HIDE DEF g
  <1>3. /\ Sound(h) /\ h.res = q.res /\ e \notin h.tim
        /\ q.act = << >> => h.act = << >>
        /\ "timeout" \in q.res[e] => e \notin ToSet(h.act)
    BY <1>2, InactiveSound
  <1> HIDE DEF h
  <1>4. /\ h \in QueueTypes
        /\ IsFiniteSet(h.ins) /\ IsFiniteSet(h.tim) /\ IsInjective(h.act)
        /\ h.n = Cardinality(h.ins) + Cardinality(h.tim) + Len(h.act)
    BY <1>3 DEF Sound, Counted
  <1>5. /\ r.ins = h.ins /\ r.tim = h.tim \cup {e} /\ r.n = h.n + 1 /\ r.w = h.w
        /\ r.p = h.p /\ r.act = h.act /\ r.res = h.res
        /\ r.left = [h.left EXCEPT ![e] = t]
    BY <1>4 DEF QueueTypes
  <1>6. r \in QueueTypes
    <2>0. r = [h EXCEPT !.tim = @ \cup {e}, !.left[e] = t, !.n = @ + 1]
      OBVIOUS
    <2> HIDE DEF r
    <2>1. r = [ins |-> r.ins, tim |-> r.tim, left |-> r.left, act |-> r.act,
               res |-> r.res, n |-> r.n, w |-> r.w, p |-> r.p]
      BY <2>0, <1>4 DEF QueueTypes
    <2>2. /\ h.ins \in SUBSET Events /\ h.tim \in SUBSET Events /\ h.n \in Int
          /\ h.left \in [Events -> Int] /\ h.act \in Seq(Events)
          /\ h.res \in [Events -> SUBSET Reasons]
          /\ h.w \in [Fds -> [Ways -> Int]] /\ h.p \in [Fds -> SUBSET Ways]
      BY <1>4 DEF QueueTypes
    <2>3. /\ r.ins \in SUBSET Events /\ r.tim \in SUBSET Events /\ r.n \in Int
          /\ r.left \in [Events -> Int] /\ r.act \in Seq(Events)
      BY <1>5, <2>2
    <2> QED BY <1>5, <2>1, <2>2, <2>3 DEF QueueTypes
  <1> HIDE DEF r
  <1>7. /\ IsFiniteSet(r.tim) /\ Cardinality(r.tim) = Cardinality(h.tim) + 1
        /\ Cardinality(h.ins) \in Nat /\ Cardinality(h.tim) \in Nat
    BY <1>3, <1>4, <1>5, FS_AddElement, FS_CardinalityType
  <1>8. Len(h.act) \in Nat
    BY <1>4 DEF QueueTypes
  <1>9. Counted(r)
    BY <1>4, <1>5, <1>7, <1>8 DEF Counted
  <1>10. Watching(r)
    BY <1>3, <1>5 DEF Sound, Watching
  <1>11. OnTime(r)
    <2> SUFFICES ASSUME NEW x \in ToSet(r.act), "timeout" \in r.res[x]
                 PROVE  r.left[x] <= 0 /\ x \notin r.tim
      BY DEF OnTime
    <2>1. x # e /\ h.left[x] <= 0 /\ x \notin h.tim
      BY <1>3, <1>5 DEF Sound, OnTime
    <2>2. r.left[x] = h.left[x]
      <3>1. x \in Events
        BY <1>4, <1>5 DEF QueueTypes, ToSet
      <3> QED BY <1>4, <1>5, <2>1, <3>1 DEF QueueTypes
    <2> QED BY <1>5, <2>1, <2>2
  <1> QED BY <1>1, <1>3, <1>5, <1>6, <1>9, <1>10, <1>11 DEF Sound

\* An event that was not active is, at the end of the queue.
LEMMA ActivateSound ==
    ASSUME NEW q, Sound(q), NEW e \in Events, e \notin ToSet(q.act),
           NEW why \in SUBSET Reasons,
           "timeout" \in why => q.left[e] <= 0 /\ e \notin q.tim
    PROVE  Sound(Activate(q, e, why)) /\ Activate(q, e, why).left = q.left
  <1> DEFINE s == Append(q.act, e)
             r == [q EXCEPT !.act = s, !.res[e] = why, !.n = @ + 1]
  <1>1. Activate(q, e, why) = r
    BY DEF Activate
  <1>2. /\ q \in QueueTypes
        /\ IsFiniteSet(q.ins) /\ IsFiniteSet(q.tim) /\ IsInjective(q.act)
        /\ q.n = Cardinality(q.ins) + Cardinality(q.tim) + Len(q.act)
    BY DEF Sound, Counted
  <1>3. q.act \in Seq(Events)
    BY <1>2 DEF QueueTypes
  <1>4. /\ s \in Seq(Events) /\ Len(s) = Len(q.act) + 1 /\ IsInjective(s)
        /\ ToSet(s) = ToSet(q.act) \cup {e}
    BY <1>2, <1>3, AppendFacts
  <1> HIDE DEF s
  <1>5. /\ r.ins = q.ins /\ r.tim = q.tim /\ r.n = q.n + 1 /\ r.w = q.w
        /\ r.p = q.p /\ r.act = s /\ r.left = q.left
        /\ r.res = [q.res EXCEPT ![e] = why]
    BY <1>2 DEF QueueTypes
  <1>6. r \in QueueTypes
    <2>0. r = [q EXCEPT !.act = s, !.res[e] = why, !.n = @ + 1]
      OBVIOUS
    <2> HIDE DEF r
    <2>1. r = [ins |-> r.ins, tim |-> r.tim, left |-> r.left, act |-> r.act,
               res |-> r.res, n |-> r.n, w |-> r.w, p |-> r.p]
      BY <1>2, <2>0 DEF QueueTypes
    <2>2. /\ q.ins \in SUBSET Events /\ q.tim \in SUBSET Events /\ q.n \in Int
          /\ q.left \in [Events -> Int] /\ q.res \in [Events -> SUBSET Reasons]
          /\ q.w \in [Fds -> [Ways -> Int]] /\ q.p \in [Fds -> SUBSET Ways]
      BY <1>2 DEF QueueTypes
    <2>3. r.n \in Int /\ r.res \in [Events -> SUBSET Reasons]
      BY <1>5, <2>2
    <2> QED BY <1>4, <1>5, <2>1, <2>2, <2>3 DEF QueueTypes
  <1> HIDE DEF r
  <1>7. Cardinality(q.ins) \in Nat /\ Cardinality(q.tim) \in Nat /\ Len(q.act) \in Nat
    BY <1>2, <1>3, FS_CardinalityType
  <1>8. Counted(r)
    <2>0. /\ r.n = q.n + 1 /\ Len(r.act) = Len(q.act) + 1
          /\ Cardinality(r.ins) = Cardinality(q.ins)
          /\ Cardinality(r.tim) = Cardinality(q.tim)
      BY <1>4, <1>5
    <2>1. r.n = Cardinality(r.ins) + Cardinality(r.tim) + Len(r.act)
      BY <1>2, <1>7, <2>0
    <2> QED BY <1>2, <1>4, <1>5, <2>1 DEF Counted
  <1>9. Watching(r)
    BY <1>5 DEF Sound, Watching
  <1>10. OnTime(r)
    <2> SUFFICES ASSUME NEW x \in ToSet(r.act), "timeout" \in r.res[x]
                 PROVE  r.left[x] <= 0 /\ x \notin r.tim
      BY DEF OnTime
    <2>1. CASE x = e
      <3>1. r.res[x] = why
        BY <1>2, <1>5, <2>1 DEF QueueTypes
      <3> QED BY <1>5, <2>1, <3>1
    <2>2. CASE x # e
      <3>1. x \in ToSet(q.act)
        BY <1>4, <1>5, <2>2
      <3>2. r.res[x] = q.res[x]
        BY <1>2, <1>5, <2>2 DEF QueueTypes
      <3> QED BY <1>5, <3>1, <3>2 DEF Sound, OnTime
    <2> QED BY <2>1, <2>2
  <1> QED BY <1>1, <1>5, <1>6, <1>8, <1>9, <1>10 DEF Sound

\* What the kernel reports is activated for what it reports, never for a
\* timeout.
LEMMA HearSound ==
    ASSUME EventLoopAssumption, NEW q, Sound(q), q.act = << >>,
           NEW s \in Seq(Events), IsInjective(s)
    PROVE  Sound(Hear(q, s)) /\ Hear(q, s).left = q.left /\ Hear(q, s).act = s
  <1> DEFINE why == [e \in Events |-> IF e \in ToSet(s) THEN Seen(e) ELSE q.res[e]]
             r == [q EXCEPT !.act = s, !.n = @ + Len(s), !.res = why]
  <1>1. /\ q \in QueueTypes
        /\ IsFiniteSet(q.ins) /\ IsFiniteSet(q.tim)
        /\ q.n = Cardinality(q.ins) + Cardinality(q.tim) + Len(q.act)
    BY DEF Sound, Counted
  <1>2. Hear(q, s) = r
    <2>1. q.act \o s = s
      OBVIOUS
    <2>2. Hear(q, s) = [q EXCEPT !.act = q.act \o s, !.n = q.n + Len(s), !.res = why]
      BY <1>1 DEF Hear, QueueTypes
    <2> QED BY <1>1, <2>1, <2>2 DEF QueueTypes
  <1>3. \A e \in Events : Seen(e) \subseteq Ways
    BY DEF Seen, EventLoopAssumption
  <1>4. why \in [Events -> SUBSET Reasons]
    BY <1>1, <1>3 DEF QueueTypes, Reasons
  <1>5. \A e \in Events : e \in ToSet(s) => "timeout" \notin why[e]
    BY <1>3 DEF Ways
  <1> HIDE DEF why
  <1>6. /\ r.ins = q.ins /\ r.tim = q.tim /\ r.n = q.n + Len(s) /\ r.w = q.w
        /\ r.p = q.p /\ r.act = s /\ r.left = q.left /\ r.res = why
    BY <1>1 DEF QueueTypes
  <1>7. r \in QueueTypes
    <2>0. r = [q EXCEPT !.act = s, !.n = @ + Len(s), !.res = why]
      OBVIOUS
    <2> HIDE DEF r
    <2>1. r = [ins |-> r.ins, tim |-> r.tim, left |-> r.left, act |-> r.act,
               res |-> r.res, n |-> r.n, w |-> r.w, p |-> r.p]
      BY <1>1, <2>0 DEF QueueTypes
    <2>2. /\ q.ins \in SUBSET Events /\ q.tim \in SUBSET Events /\ q.n \in Int
          /\ q.left \in [Events -> Int]
          /\ q.w \in [Fds -> [Ways -> Int]] /\ q.p \in [Fds -> SUBSET Ways]
      BY <1>1 DEF QueueTypes
    <2>3. r.n \in Int
      BY <1>6, <2>2
    <2> QED BY <1>4, <1>6, <2>1, <2>2, <2>3 DEF QueueTypes
  <1> HIDE DEF r
  <1>8. Counted(r)
    <2>1. Cardinality(q.ins) \in Nat /\ Cardinality(q.tim) \in Nat /\ Len(s) \in Nat
          /\ Len(q.act) = 0
      BY <1>1, FS_CardinalityType
    <2> QED BY <1>1, <1>6, <2>1 DEF Counted
  <1>9. Watching(r)
    BY <1>6 DEF Sound, Watching
  <1>10. OnTime(r)
    BY <1>5, <1>6 DEF OnTime, ToSet
  <1> QED BY <1>2, <1>6, <1>7, <1>8, <1>9, <1>10 DEF Sound

\* A due event runs for its timeout alone, whatever it was active for.
LEMMA TimeOutSound ==
    ASSUME EventLoopAssumption, NEW q, Sound(q), NEW e \in Events, q.left[e] <= 0
    PROVE  Sound(TimeOut(q, e)) /\ TimeOut(q, e).left = q.left
  <1> DEFINE d == Delete(q, e)
  <1>1. /\ Sound(d) /\ e \notin ToSet(d.act) /\ e \notin d.tim /\ d.left = q.left
    BY DeleteSound
  <1>2. TimeOut(q, e) = Activate(d, e, {"timeout"})
    BY DEF TimeOut
  <1>3. {"timeout"} \in SUBSET Reasons
    BY DEF Reasons
  <1> HIDE DEF d
  <1> QED BY <1>1, <1>2, <1>3, ActivateSound

\* All that are due, one after the other.
LEMMA ExpireSound ==
    ASSUME EventLoopAssumption, NEW q, Sound(q), NEW s \in Seq(Events),
           \A i \in 1..Len(s) : q.left[s[i]] <= 0
    PROVE  /\ Sound(Expire(q, s)) /\ Expire(q, s).left = q.left
           /\ s = << >> => Expire(q, s) = q
  <1> DEFINE n == Len(s)
             S == {x \in QueueTypes : Sound(x) /\ x.left = q.left}
             Q == [i \in 0..n |-> S]
             step == [i \in 1..n |-> [x \in S |-> TimeOut(x, s[i])]]
             after == CHOOSE f : f = [i \in 0..n |-> IF i = 0 THEN q
                                                  ELSE TimeOut(f[i - 1], s[i])]
  <1>1. n \in Nat
    OBVIOUS
  <1>2. q \in S
    BY DEF Sound
  <1>3. \A i \in 1..n : \A x \in S : TimeOut(x, s[i]) \in S
    <2> SUFFICES ASSUME NEW i \in 1..n, NEW x \in S
                 PROVE  TimeOut(x, s[i]) \in S
      OBVIOUS
    <2>1. s[i] \in Events /\ Sound(x) /\ x.left = q.left /\ x.left[s[i]] <= 0
      OBVIOUS
    <2>2. Sound(TimeOut(x, s[i])) /\ TimeOut(x, s[i]).left = x.left
      BY <2>1, TimeOutSound
    <2> QED BY <2>1, <2>2 DEF Sound
  <1> HIDE DEF S
  <1>4. \E f : f = [i \in 0..n |-> IF i = 0 THEN q ELSE TimeOut(f[i - 1], s[i])]
    <2>1. Stays(n, Q, step)
      BY <1>1, <1>3 DEF Stays
    <2>2. q \in Q[0]
      BY <1>1, <1>2
    <2>3. PICK f : Solves(f, n, Q, q, step)
      <3> HIDE DEF n, Q, step
      <3> QED BY <1>1, <2>1, <2>2, RecursionExists
    <2>4. /\ f[0] = q /\ \A i \in 1..n : f[i] = step[i][f[i - 1]]
          /\ \A i \in 0..n : f[i] \in Q[i]
      <3> HIDE DEF n, Q, step
      <3> QED BY <2>3 DEF Solves
    <2> DEFINE h == [i \in 0..n |-> f[i]]
    <2>5. \A i \in 1..n : f[i] = TimeOut(f[i - 1], s[i])
      <3> TAKE i \in 1..n
      <3>1. i - 1 \in 0..n
        BY <1>1
      <3>2. f[i - 1] \in S
        BY <2>4, <3>1
      <3>3. step[i][f[i - 1]] = TimeOut(f[i - 1], s[i])
        BY <3>2
      <3> HIDE DEF step
      <3> QED BY <2>4, <3>3
    <2>6. h = [i \in 0..n |-> IF i = 0 THEN q ELSE TimeOut(h[i - 1], s[i])]
      <3> HIDE DEF Q, step
      <3>1. \A i \in 0..n : i = 0 \/ (i \in 1..n /\ i - 1 \in 0..n)
        BY <1>1
      <3>2. \A i \in 0..n : f[i] = IF i = 0 THEN q ELSE TimeOut(h[i - 1], s[i])
        BY <2>4, <2>5, <3>1
      <3> QED BY <3>2
    <2> QED BY <2>6
  <1>5. after = [i \in 0..n |-> IF i = 0 THEN q ELSE TimeOut(after[i - 1], s[i])]
    BY <1>4
  <1>6. Expire(q, s) = after[n]
    BY DEF Expire
  <1> HIDE DEF after
  <1>7. after[0] = q
    BY <1>5
  <1> DEFINE P == {i \in 0..n : after[i] \in S}
  <1>8. 0..n \subseteq P
    <2>1. 0 \in P
      BY <1>1, <1>2, <1>7
    <2>2. ASSUME NEW i \in 1..n, i - 1 \in P
          PROVE  i \in P
      <3>1. i \in 0..n /\ i # 0 /\ after[i - 1] \in S
        BY <1>1, <2>2
      <3> QED BY <1>3, <1>5, <3>1
    <2> HIDE DEF P
    <2> QED BY <1>1, <2>1, <2>2, BoundedInduction
  <1>9. after[n] \in S
    <2> HIDE DEF P
    <2>1. n \in P
      BY <1>1, <1>8
    <2> QED BY <2>1 DEF P
  <1>10. s = << >> => Expire(q, s) = q
    BY <1>6, <1>7
  <1> QED BY <1>6, <1>9, <1>10 DEF S

-----------------------------------------------------------------------------
\* What an operation leaves is what the variables become; the timeouts and
\* reasons that are cleared are of events on no queue.
LEMMA BecomeSound ==
    ASSUME NEW q, Sound(q), Become(q)
    PROVE  Sound(Queues)' /\ active' = q.act
  <1>1. /\ q \in QueueTypes
        /\ IsFiniteSet(q.ins) /\ IsFiniteSet(q.tim) /\ IsInjective(q.act)
        /\ q.n = Cardinality(q.ins) + Cardinality(q.tim) + Len(q.act)
    BY DEF Sound, Counted
  <1>2. /\ inserted' = q.ins /\ timed' = q.tim /\ active' = q.act /\ count' = q.n
        /\ watchers' = q.w /\ polled' = q.p
        /\ left' = [e \in Events |->
                      IF e \in q.tim \cup ToSet(q.act) THEN q.left[e] ELSE 0]
        /\ res' = [e \in Events |-> IF e \in ToSet(q.act) THEN q.res[e] ELSE {}]
    BY DEF Become
  <1>3. left' \in [Events -> Int] /\ res' \in [Events -> SUBSET Reasons]
    BY <1>1, <1>2 DEF QueueTypes
  <1> DEFINE r == [ins |-> q.ins, tim |-> q.tim, left |-> left', act |-> q.act,
                   res |-> res', n |-> q.n, w |-> q.w, p |-> q.p]
  <1>4. Queues' = r
    BY <1>2 DEF Queues
  <1>5. r \in QueueTypes
    BY <1>1, <1>3 DEF QueueTypes
  <1>6. Counted(r)
    BY <1>1 DEF Counted
  <1>7. Watching(r)
    BY DEF Sound, Watching
  <1>8. OnTime(r)
    <2> SUFFICES ASSUME NEW e \in ToSet(q.act), "timeout" \in res'[e]
                 PROVE  left'[e] <= 0 /\ e \notin q.tim
      BY DEF OnTime
    <2>1. e \in Events
      BY <1>1 DEF QueueTypes, ToSet
    <2>2. res'[e] = q.res[e] /\ left'[e] = q.left[e]
      BY <1>2, <2>1
    <2> QED BY <2>2 DEF Sound, OnTime
  <1>9. Sound(r)
    BY <1>5, <1>6, <1>7, <1>8 DEF Sound
  <1> QED BY <1>2, <1>4, <1>9 DEF Sound, Counted, Watching, OnTime

\* What a callback does: to the queues.
LEMMA CallbackKeepsQueues ==
    ASSUME EventLoopAssumption, LoopInv, NEW e \in Events,
           Del(e) \/ AddUntimed(e) \/ \E d \in Delays : AddTimed(e, d)
    PROVE  LoopInv'
  <1>1. /\ Sound(Queues) /\ Queues.act = active
        /\ asked \subseteq Events /\ period \in [Events -> Delays \cup {0}]
        /\ deferred \in Seq(Deferreds) /\ IsInjective(deferred)
        /\ lag \in Nat /\ pc = "callback"
    BY DEF LoopInv, Rest, Queues, Del, AddUntimed, AddTimed, Call
  <1>2. \E q : Become(q) /\ Sound(q) /\ (active = << >> => q.act = << >>)
    <2>1. CASE Del(e)
      <3>1. Sound(Delete(Queues, e)) /\ (active = << >> => Delete(Queues, e).act = << >>)
        BY <1>1, DeleteSound
      <3> QED BY <2>1, <3>1 DEF Del
    <2>2. CASE AddUntimed(e)
      <3>1. Sound(Insert(Queues, e)) /\ Insert(Queues, e).act = active
        BY <1>1, InsertSound
      <3> QED BY <2>2, <3>1 DEF AddUntimed
    <2>3. ASSUME NEW d \in Delays, AddTimed(e, d)
          PROVE  \E q : Become(q) /\ Sound(q) /\ (active = << >> => q.act = << >>)
      <3>1. d - lag \in Int
        BY <1>1 DEF EventLoopAssumption
      <3>2. /\ Sound(Timeout(Queues, e, d - lag))
            /\ active = << >> => Timeout(Queues, e, d - lag).act = << >>
        BY <1>1, <3>1, TimeoutSound
      <3> QED BY <2>3, <3>2 DEF AddTimed
    <2> QED BY <2>1, <2>2, <2>3
  <1>3. Sound(Queues)' /\ (active = << >> => active' = << >>)
    BY <1>2, BecomeSound
  <1>4. /\ pc' = pc /\ current' = current /\ lag' = lag /\ deferred' = deferred
        /\ stop' = stop /\ asked' \subseteq Events
        /\ period' \in [Events -> Delays \cup {0}]
    BY <1>1 DEF Del, AddUntimed, AddTimed, Others
  <1> QED BY <1>1, <1>3, <1>4 DEF LoopInv, Idle, Rest

\* What a callback does besides.
LEMMA CallbackKeeps ==
    ASSUME EventLoopAssumption, LoopInv, Callback
    PROVE  LoopInv'
  <1>1. ASSUME NEW c \in Deferreds, Schedule(c) \/ Cancel(c)
        PROVE  LoopInv'
    <2>1. deferred \in Seq(Deferreds) /\ IsInjective(deferred)
      BY DEF LoopInv, Rest
    <2>2. deferred' \in Seq(Deferreds) /\ IsInjective(deferred')
      <3>1. CASE c \in ToSet(deferred)
        <4>1. /\ RemoveFirst(deferred, c) \in Seq(Deferreds)
              /\ IsInjective(RemoveFirst(deferred, c))
          BY <2>1, <3>1, RemoveFacts
        <4> QED BY <1>1, <2>1, <3>1, <4>1 DEF Schedule, Cancel
      <3>2. CASE c \notin ToSet(deferred)
        <4>1. /\ Append(deferred, c) \in Seq(Deferreds)
              /\ IsInjective(Append(deferred, c))
          BY <2>1, <3>2, AppendFacts
        <4> QED BY <1>1, <3>2, <4>1 DEF Schedule, Cancel
      <3> QED BY <3>1, <3>2
    <2>3. UNCHANGED << queues, pc, current, lag, stop, asked, period >>
      BY <1>1 DEF Schedule, Cancel, Others
    <2> QED BY <2>2, <2>3 DEF LoopInv, Idle, Rest, Queues, queues
  <1>2. ASSUME Break \/ \E f \in Fds, w \in Ways : Consume(f, w)
        PROVE  LoopInv'
    <2>1. /\ UNCHANGED << queues, pc, current, lag, asked, period, deferred >>
          /\ stop' = TRUE \/ stop' = stop
      BY <1>2 DEF Break, Consume, Others
    <2> QED BY <2>1 DEF LoopInv, Idle, Rest, Queues, queues
  <1> QED BY <1>1, <1>2, CallbackKeepsQueues DEF Callback

\* The callbacks of the active events.
LEMMA RunKeeps ==
    ASSUME EventLoopAssumption, LoopInv, RunOnce \/ RunPersistent
    PROVE  LoopInv'
  <1> DEFINE e == Head(active)
             q == Inactive(Queues, e)
             from == IF "timeout" \in res[e] THEN left[e] ELSE 0 - lag
  <1>1. /\ Sound(Queues) /\ period \in [Events -> Delays \cup {0}] /\ lag \in Nat
        /\ active \in Seq(Events) /\ IsInjective(active)
        /\ left \in [Events -> Int]
    BY DEF LoopInv, Rest, Sound, Queues, QueueTypes, Counted
  <1>2. e \in Events
    BY <1>1, HeadTailFacts DEF RunOnce, RunPersistent
  <1>3. PICK r : Sound(r) /\ Run(e, r, period)
    <2>1. CASE RunOnce
      BY <1>1, <1>2, <2>1, DeleteSound DEF RunOnce
    <2>2. CASE RunPersistent
      <3>1. Sound(q)
        BY <1>1, <1>2, InactiveSound
      <3>2. from + period[e] \in Int
        <4>1. Delays \subseteq Nat
          BY DEF EventLoopAssumption
        <4> HIDE DEF e
        <4>2. period[e] \in Nat
          <5>1. period[e] = 0 \/ period[e] \in Delays
            BY <1>1, <1>2
          <5>2. CASE period[e] = 0
            BY <5>2
          <5>3. CASE period[e] \in Delays
            BY <4>1, <5>3
          <5> QED BY <5>1, <5>2, <5>3
        <4>3. left[e] \in Int /\ 0 - lag \in Int
          BY <1>1, <1>2
        <4> QED BY <4>2, <4>3
      <3>3. Sound(IF period[e] = 0 THEN q ELSE Timeout(q, e, from + period[e]))
        <4> HIDE DEF q, from, e
        <4> QED BY <1>2, <3>1, <3>2, TimeoutSound
      <3> QED BY <2>2, <3>3 DEF RunPersistent
    <2> QED BY <2>1, <2>2
  <1>4. Sound(Queues)'
    BY <1>3, BecomeSound DEF Run
  <1>5. /\ pc' = "callback" /\ current'[1] \in Events /\ period' = period
        /\ UNCHANGED << asked, deferred, lag >>
    BY <1>2, <1>3 DEF Run
  <1> QED BY <1>4, <1>5 DEF LoopInv, Idle, Rest

\* The poll of the kernel and of the clock.
LEMMA DispatchKeeps ==
    ASSUME EventLoopAssumption, LoopInv, Dispatch
    PROVE  LoopInv'
  <1>1. /\ Sound(Queues) /\ Queues.act = active /\ active = << >>
        /\ inserted \subseteq Events /\ timed \subseteq Events
        /\ IsFiniteSet(inserted) /\ IsFiniteSet(timed)
    BY DEF LoopInv, Idle, Dispatch, Sound, Counted, Queues, QueueTypes
  <1>2. PICK io \in Orders(Heard), late \in Orders(Due) :
          Become(Expire(Hear(Queues, io), late))
    BY DEF Dispatch
  <1>3. /\ Heard \subseteq Events /\ IsFiniteSet(Heard) /\ Cardinality(Heard) \in Nat
        /\ Due \subseteq Events /\ IsFiniteSet(Due) /\ Cardinality(Due) \in Nat
    BY <1>1, FS_Subset, FS_CardinalityType DEF Heard, Due
  <1>4. /\ io \in Seq(Events) /\ IsInjective(io) /\ Len(io) = Cardinality(Heard)
        /\ late \in Seq(Due) /\ Len(late) = Cardinality(Due)
    BY <1>3 DEF Orders
  <1> DEFINE h == Hear(Queues, io)
  <1>5. Sound(h) /\ h.left = left /\ h.act = io
    BY <1>1, <1>4, HearSound DEF Queues
  <1> HIDE DEF h
  <1>6. late \in Seq(Events) /\ \A i \in 1..Len(late) : h.left[late[i]] <= 0
    <2>1. late \in Seq(Events) /\ \A i \in 1..Len(late) : late[i] \in Due
      BY <1>3, <1>4
    <2> QED BY <1>5, <2>1 DEF Due
  <1>7. Sound(Expire(h, late)) /\ (late = << >> => Expire(h, late) = h)
    BY <1>5, <1>6, ExpireSound
  <1>8. Sound(Queues)' /\ active' = Expire(h, late).act
    BY <1>2, <1>7, BecomeSound DEF h
  <1>9. pc' = "top" => active' = << >>
    <2> SUFFICES ASSUME Heard = {} /\ Due = {}
                 PROVE  active' = << >>
      BY DEF Dispatch
    <2>1. Len(io) = 0 /\ Len(late) = 0
      BY <1>4, FS_EmptySet
    <2>2. io = << >> /\ late = << >>
      BY <1>4, <2>1
    <2> QED BY <1>5, <1>7, <1>8, <2>2
  <1>10. /\ pc' \in {"process", "top"} /\ lag' = 0
         /\ UNCHANGED << period, asked, deferred >>
    BY DEF Dispatch
  <1> QED BY <1>8, <1>9, <1>10 DEF LoopInv, Idle, Rest

\* The rest of the loop, the clock and the kernel.
LEMMA OthersKeep ==
    ASSUME EventLoopAssumption, LoopInv,
           \/ Processed \/ RunDeferred \/ DeferredDone \/ Return \/ Wait \/ Ends
           \/ Tick \/ \E f \in Fds, w \in Ways : Arrive(f, w)
    PROVE  LoopInv'
  <1>1. deferred \in Seq(Deferreds) /\ IsInjective(deferred)
    BY DEF LoopInv, Rest
  <1>2. CASE Processed \/ DeferredDone \/ Ends \/ Return \/ Wait
    <2>1. UNCHANGED << queues, period, asked, deferred >>
      BY <1>2 DEF Processed, DeferredDone, Ends, Return, Wait
    <2>2. Sound(Queues)'
      BY <2>1 DEF LoopInv, Queues, queues
    <2>3. Idle'
      BY <1>2 DEF LoopInv, Idle, Processed, DeferredDone, Ends, Return, Wait, Busy,
                  queues, EventLoopAssumption
    <2>4. Rest'
      BY <1>2, <2>1 DEF LoopInv, Rest, Processed, DeferredDone, Ends, Return, Wait
    <2> QED BY <2>2, <2>3, <2>4 DEF LoopInv
  <1>3. CASE RunDeferred
    <2>1. /\ Head(deferred) \in Deferreds /\ deferred' \in Seq(Deferreds)
          /\ IsInjective(deferred')
      BY <1>1, <1>3, HeadTailFacts DEF RunDeferred
    <2>2. /\ pc = "deferred" /\ pc' = "callback" /\ current'[1] = Head(deferred)
          /\ UNCHANGED << queues, period, asked, lag, stop >>
      BY <1>3 DEF RunDeferred
    <2> QED BY <2>1, <2>2 DEF LoopInv, Idle, Rest, Queues, queues, EventLoopAssumption
  <1>4. CASE Tick
    <2>1. /\ UNCHANGED << inserted, timed, active, count, watchers, polled, pc,
                          current, period, asked, res, deferred, stop >>
          /\ left' = [e \in Events |-> IF e \in timed \cup Active THEN left[e] - 1
                                       ELSE left[e]]
      BY <1>4 DEF Tick
    <2>2. Queues \in QueueTypes /\ left \in [Events -> Int] /\ active \in Seq(Events)
      BY DEF LoopInv, Sound, Queues, QueueTypes
    <2>3. Queues' \in QueueTypes
      <3>1. left' \in [Events -> Int]
        BY <2>1, <2>2
      <3> QED BY <2>1, <2>2, <3>1 DEF Queues, QueueTypes
    <2>4. Counted(Queues)' /\ Watching(Queues)'
      BY <2>1 DEF LoopInv, Sound, Counted, Watching, Queues
    <2>5. OnTime(Queues)'
      <3> SUFFICES ASSUME NEW e \in ToSet(active), "timeout" \in res[e]
                   PROVE  left'[e] <= 0 /\ e \notin timed
        BY <2>1 DEF OnTime, Queues
      <3>1. left[e] <= 0 /\ e \notin timed
        BY DEF LoopInv, Sound, OnTime, Queues
      <3>2. e \in Events /\ left[e] \in Int /\ left'[e] = left[e] - 1
        <4>1. e \in Events
          BY <2>2 DEF ToSet
        <4> QED BY <2>1, <2>2, <4>1 DEF Active
      <3> QED BY <3>1, <3>2
    <2>6. lag' \in Nat
      BY <1>4 DEF LoopInv, Rest, Tick
    <2> QED BY <2>1, <2>3, <2>4, <2>5, <2>6 DEF LoopInv, Sound, Idle, Rest
  <1>5. ASSUME NEW f \in Fds, NEW w \in Ways, Arrive(f, w)
        PROVE  LoopInv'
    BY <1>5 DEF Arrive, LoopInv, Idle, Rest, Queues, queues, loop
  <1> QED BY <1>2, <1>3, <1>4, <1>5

-----------------------------------------------------------------------------
\* The loop begins with nothing added.
LEMMA InitLoop == EventLoopAssumption /\ Init => LoopInv
  <1> SUFFICES ASSUME EventLoopAssumption, Init
               PROVE  LoopInv
    OBVIOUS
  <1>1. Queues = [ins |-> {}, tim |-> {}, left |-> [e \in Events |-> 0],
                  act |-> << >>, res |-> [e \in Events |-> {}], n |-> 0,
                  w |-> [f \in Fds |-> [w \in Ways |-> 0]], p |-> [f \in Fds |-> {}]]
    BY DEF Init, Queues
  <1>2. Queues \in QueueTypes
    BY <1>1 DEF QueueTypes
  <1>3. Counted(Queues) /\ OnTime(Queues)
    BY <1>1, FS_EmptySet DEF Counted, OnTime, IsInjective, ToSet
  <1>4. Watching(Queues)
    <2>1. \A f \in Fds, w \in Ways : There({}, f, w) = {}
      BY DEF There
    <2> QED BY <1>1, <2>1, FS_EmptySet DEF Watching
  <1>5. Idle /\ Rest
    BY DEF Init, Idle, Rest, IsInjective
  <1> QED BY <1>2, <1>3, <1>4, <1>5 DEF LoopInv, Sound

\* Every step of the loop keeps its invariant.
LEMMA NextKeepsLoop == EventLoopAssumption /\ LoopInv /\ [Next]_vars => LoopInv'
  <1> SUFFICES ASSUME EventLoopAssumption, LoopInv, [Next]_vars
               PROVE  LoopInv'
    OBVIOUS
  <1>1. CASE UNCHANGED vars
    BY <1>1 DEF vars, queues, loop, LoopInv, Idle, Rest, Queues
  <1>2. CASE Next
    BY <1>2, CallbackKeeps, RunKeeps, DispatchKeeps, OthersKeep DEF Next, Loop
  <1> QED BY <1>1, <1>2

\* The invariant of the loop holds throughout.
LEMMA LoopInvariant == Spec => []LoopInv
  <1>1. Init => LoopInv
    BY InitLoop, EventLoopAssumption
  <1>2. LoopInv /\ [Next]_vars => LoopInv'
    BY NextKeepsLoop, EventLoopAssumption
  <1> QED BY <1>1, <1>2, PTL DEF Spec

\* event_count is the number of places the events are queued at, and the kernel
\* watches a descriptor for exactly what some inserted event waits for: the
\* loop neither ends early nor waits for what it was not told of.
THEOREM CountsAreRight == Spec => []CountersAgree
  <1>1. LoopInv => CountersAgree
    <2> SUFFICES ASSUME LoopInv
                 PROVE  CountersAgree
      OBVIOUS
    <2>1. Sound(Queues) /\ Rest
      BY DEF LoopInv
    <2>2. /\ inserted \subseteq Events /\ timed \subseteq Events
          /\ active \in Seq(Events) /\ res \in [Events -> SUBSET Reasons]
      BY <2>1 DEF Sound, Queues, QueueTypes
    <2>3. /\ IsInjective(active)
          /\ count = Cardinality(inserted) + Cardinality(timed) + Len(active)
      BY <2>1 DEF Sound, Counted, Queues
    <2>4. Active \subseteq Events /\ ToSet(deferred) \subseteq Deferreds
      BY <2>1, <2>2 DEF Active, ToSet, Rest
    <2>5. TypeOK
      BY <2>1, <2>2, <2>3, <2>4 DEF TypeOK, Rest
    <2>6. \A f \in Fds, w \in Ways :
            LET there == {e \in inserted : Fd(e) = f /\ w \in Wants(e)}
            IN  /\ watchers[f][w] = Cardinality(there)
                /\ w \in polled[f] <=> there # {}
      BY <2>1 DEF Sound, Watching, There, Queues
    <2> QED BY <2>3, <2>5, <2>6 DEF CountersAgree
  <1> QED BY <1>1, LoopInvariant, PTL

\* A callback that is told of a timeout is told when it has come: to add an
\* active event again takes it off the active queue.
THEOREM TimeoutsAreDue == Spec => []NotBeforeItsTime
  <1>1. LoopInv => NotBeforeItsTime
    BY DEF LoopInv, Sound, OnTime, Queues, NotBeforeItsTime, Active
  <1> QED BY <1>1, LoopInvariant, PTL
=============================================================================
