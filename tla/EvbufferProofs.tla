--------------------------- MODULE EvbufferProofs ---------------------------
(***************************************************************************)
(* Where nothing is added behind a chain that was left empty (~Spares), any *)
(* buffers keep their lengths and their pointer to the last chain with data *)
(* in order, and what they hold is what queues of bytes would hold: Evbuffer *)
(* implements ByteQueues, each operation as one step of the queues or none. *)
(* The invariant is Evbuffer's WellFormed together with what the chains are *)
(* made of.  Each operation of buffer.c has a lemma about what its function *)
(* makes of a buffer, and one about the step.                               *)
(***************************************************************************)
EXTENDS Evbuffer, TLAPS, SequenceTheorems, WellFoundedInduction

\* A set of numbers that is not empty has a least element.
LEMMA LeastExists ==
    ASSUME NEW S \in SUBSET Nat, S # {}
    PROVE  Min(S) \in S /\ \A y \in S : Min(S) <= y
  <1>1. PICK x \in S : \A y \in S : ~(<<y, x>> \in OpToRel(<, Nat))
    BY NatLessThanWellFounded, WFMin, Zenon
  <1>2. ASSUME NEW y \in S, y < x
        PROVE  FALSE
    <2>1. <<y, x>> \in Nat \X Nat /\ <<y, x>>[1] < <<y, x>>[2]
      BY <1>2
    <2>2. <<y, x>> \in OpToRel(<, Nat)
      BY <2>1, Zenon DEF OpToRel
    <2> QED BY <1>1, <2>2, Zenon
  <1>3. \A y \in S : x <= y
    BY <1>2
  <1> QED BY <1>3, Zenon DEF Min

\* Induction on the numbers, as a fact about sets.
LEMMA SetInduction ==
    ASSUME NEW S, 0 \in S, \A n \in Nat : n \in S => n + 1 \in S
    PROVE  Nat \subseteq S
  <1> DEFINE T == Nat \ S
  <1>1. CASE T # {}
    <2>1. T \in SUBSET Nat
      OBVIOUS
    <2>2. PICK x \in T : \A y \in T : x <= y
      <3> HIDE DEF T
      <3> QED BY <1>1, <2>1, LeastExists, Zenon
    <2>3. x # 0 /\ x \in Nat
      OBVIOUS
    <2>4. x - 1 \in Nat /\ x - 1 \notin T
      BY <2>2, <2>3
    <2> QED BY <2>3, <2>4
  <1> QED BY <1>1

\* Induction up to a bound.
LEMMA BoundedInduction ==
    ASSUME NEW n \in Nat, NEW P, 0 \in P, \A i \in 1..n : i - 1 \in P => i \in P
    PROVE  0..n \subseteq P
  <1> DEFINE S == {i \in Nat : i <= n => i \in P}
  <1>1. 0 \in S
    OBVIOUS
  <1>2. \A i \in Nat : i \in S => i + 1 \in S
    OBVIOUS
  <1>3. Nat \subseteq S
    <2> HIDE DEF S
    <2> QED BY <1>1, <1>2, SetInduction
  <1> QED BY <1>3

\* A recursion along a sequence: Q[i] are the values it may have after i steps,
\* step[i] what the i-th step does.
Stays(n, Q, step) == \A i \in 1..n : \A x \in Q[i - 1] : step[i][x] \in Q[i]
Solves(f, n, Q, q, step) ==
    /\ f[0] = q /\ \A i \in 1..n : f[i] = step[i][f[i - 1]]
    /\ \A i \in 0..n : f[i] \in Q[i]

\* It has a solution.
LEMMA RecursionExists ==
    ASSUME NEW n \in Nat, NEW Q, NEW q \in Q[0], NEW step, Stays(n, Q, step)
    PROVE  \E f : Solves(f, n, Q, q, step)
  <1>0. \A i \in 1..n : \A x \in Q[i - 1] : step[i][x] \in Q[i]
    BY DEF Stays
  <1> DEFINE Sol(m, f) == /\ f[0] = q /\ \A i \in 1..m : f[i] = step[i][f[i - 1]]
                          /\ \A i \in 0..m : f[i] \in Q[i]
             P == {m \in 0..n : \E f : Sol(m, f)}
  <1>1. 0 \in P
    <2> DEFINE f0 == [i \in 0..0 |-> q]
    <2>1. Sol(0, f0)
      OBVIOUS
    <2>2. \E f : Sol(0, f)
      <3> HIDE DEF f0, Sol
      <3> QED BY <2>1
    <2> HIDE DEF Sol
    <2> QED BY <2>2
  <1>2. ASSUME NEW m \in 1..n, m - 1 \in P
        PROVE  m \in P
    <2>1. PICK f : Sol(m - 1, f)
      BY <1>2
    <2> DEFINE g == [i \in 0..m |-> IF i = m THEN step[m][f[m - 1]] ELSE f[i]]
    <2>2. m \in Nat /\ m - 1 \in Nat /\ m - 1 \in 0..(m - 1) /\ m # 0
      OBVIOUS
    <2>3. \A i \in 0..(m - 1) : g[i] = f[i] /\ i \in 0..m
      BY <2>2
    <2>4. g[m] = step[m][f[m - 1]]
      BY <2>2
    <2> HIDE DEF g
    <2>5. g[0] = q
      BY <2>1, <2>2, <2>3
    <2>6. \A i \in 0..m : g[i] \in Q[i]
      <3>1. g[m] \in Q[m]
        BY <1>0, <2>1, <2>2, <2>4
      <3>2. \A i \in 0..m : i = m \/ i \in 0..(m - 1)
        BY <2>2
      <3> QED BY <2>1, <2>3, <3>1, <3>2
    <2>7. \A i \in 1..m : g[i] = step[i][g[i - 1]]
      <3> TAKE i \in 1..m
      <3>1. i - 1 \in 0..(m - 1) /\ (i = m \/ (i \in 0..(m - 1) /\ i \in 1..(m - 1)))
        BY <2>2
      <3>2. g[i - 1] = f[i - 1]
        BY <2>3, <3>1
      <3> QED BY <2>1, <2>3, <2>4, <3>1, <3>2
    <2>8. Sol(m, g)
      BY <2>5, <2>6, <2>7
    <2> HIDE DEF Sol
    <2> QED BY <2>8
  <1>3. n \in P
    <2> HIDE DEF P
    <2> QED BY <1>1, <1>2, BoundedInduction
  <1> QED BY <1>3 DEF Solves


-----------------------------------------------------------------------------
\* What is allocated.
SizeRun(f, n) ==
    f = [i \in 0..n |-> IF i = 0 THEN MinSize
                        ELSE IF f[i - 1] < n THEN 2 * f[i - 1] ELSE f[i - 1]]

\* The bytes a chain is made for fit into it.
LEMMA SizeFacts ==
    ASSUME NEW n \in Nat
    PROVE  NewSize(n) \in Nat \ {0} /\ NewSize(n) >= n
  <1> DEFINE Q == [i \in 0..n |-> {x \in Nat : x > i \/ x >= n}]
             step == [i \in 1..n |-> [x \in Nat |-> IF x < n THEN 2 * x ELSE x]]
  <1>1. MinSize \in Nat /\ MinSize > 0
    BY EvbufferAssumption
  <1>2. \A i \in 0..n : Q[i] = {x \in Nat : x > i \/ x >= n}
    OBVIOUS
  <1>3. \A i \in 1..n : \A x \in Nat : step[i][x] = IF x < n THEN 2 * x ELSE x
    OBVIOUS
  <1> HIDE DEF Q, step
  <1>4. MinSize \in Q[0]
    BY <1>1, <1>2
  <1>5. Stays(n, Q, step)
    <2> SUFFICES ASSUME NEW i \in 1..n, NEW x \in Q[i - 1]
                 PROVE  step[i][x] \in Q[i]
      BY DEF Stays
    <2>1. x \in Nat /\ (x > i - 1 \/ x >= n)
      BY <1>2
    <2>2. step[i][x] = IF x < n THEN 2 * x ELSE x
      BY <1>3, <2>1
    <2>3. step[i][x] \in Nat /\ (step[i][x] > i \/ step[i][x] >= n)
      BY <2>1, <2>2
    <2> QED BY <1>2, <2>3
  <1>6. PICK g : Solves(g, n, Q, MinSize, step)
    BY <1>4, <1>5, RecursionExists
  <1>7. /\ g[0] = MinSize
        /\ \A i \in 1..n : g[i] = IF g[i - 1] < n THEN 2 * g[i - 1] ELSE g[i - 1]
        /\ \A i \in 0..n : g[i] \in Nat /\ (g[i] > i \/ g[i] >= n)
    BY <1>2, <1>3, <1>6 DEF Solves
  <1> DEFINE f0 == [i \in 0..n |-> g[i]]
  <1>8. SizeRun(f0, n)
    <2>1. \A i \in 0..n : f0[i] = IF i = 0 THEN MinSize
                          ELSE IF f0[i - 1] < n THEN 2 * f0[i - 1] ELSE f0[i - 1]
      BY <1>7
    <2> QED BY <2>1 DEF SizeRun
  <1>9. \E f : SizeRun(f, n)
    <2> HIDE DEF f0
    <2> QED BY <1>8
  <1> DEFINE f == CHOOSE f : SizeRun(f, n)
  <1>10. SizeRun(f, n)
    BY <1>9
  <1>11. NewSize(n) = f[n]
    BY DEF NewSize, SizeRun
  <1> HIDE DEF f
  <1>12. /\ f[0] = MinSize
         /\ \A i \in 1..n : f[i] = IF f[i - 1] < n THEN 2 * f[i - 1] ELSE f[i - 1]
    <2>1. \A i \in 0..n : f[i] = IF i = 0 THEN MinSize
                          ELSE IF f[i - 1] < n THEN 2 * f[i - 1] ELSE f[i - 1]
      BY <1>10 DEF SizeRun
    <2> QED BY <2>1
  <1> DEFINE P == {i \in 0..n : f[i] \in Nat /\ f[i] > 0 /\ (f[i] > i \/ f[i] >= n)}
  <1>13. 0 \in P
    BY <1>1, <1>12
  <1>14. \A i \in 1..n : i - 1 \in P => i \in P
    BY <1>12
  <1>15. 0..n \subseteq P
    <2> HIDE DEF P
    <2> QED BY <1>13, <1>14, BoundedInduction
  <1> QED BY <1>11, <1>15

-----------------------------------------------------------------------------
\* The sum along a list.
SumRun(f, ns, i) ==
    f = [j \in 0..Len(ns) |-> IF j < i THEN 0 ELSE f[j - 1] + ns[j]]

\* It grows by one number at a time.
LEMMA SumFacts ==
    ASSUME NEW ns \in Seq(Nat), NEW i \in Nat \ {0}
    PROVE  /\ \A k \in 0..Len(ns) : SumOf(ns, i, k) \in Nat
           /\ \A k \in 0..Len(ns) : k < i => SumOf(ns, i, k) = 0
           /\ \A k \in 1..Len(ns) : k >= i =>
                 SumOf(ns, i, k) = SumOf(ns, i, k - 1) + ns[k]
  <1> DEFINE n == Len(ns)
             Q == [j \in 0..n |-> Nat]
             step == [j \in 1..n |-> [x \in Nat |-> IF j < i THEN 0 ELSE x + ns[j]]]
  <1>1. n \in Nat /\ \A j \in 1..n : ns[j] \in Nat
    OBVIOUS
  <1>2. \A j \in 0..n : Q[j] = Nat
    OBVIOUS
  <1>3. \A j \in 1..n : \A x \in Nat : step[j][x] = IF j < i THEN 0 ELSE x + ns[j]
    OBVIOUS
  <1> HIDE DEF Q, step, n
  <1>4. 0 \in Q[0]
    BY <1>1, <1>2
  <1>5. Stays(n, Q, step)
    <2> SUFFICES ASSUME NEW j \in 1..n, NEW x \in Q[j - 1]
                 PROVE  step[j][x] \in Q[j]
      BY DEF Stays
    <2>1. x \in Nat
      BY <1>1, <1>2
    <2>2. step[j][x] = IF j < i THEN 0 ELSE x + ns[j]
      BY <1>3, <2>1
    <2>3. step[j][x] \in Nat
      BY <1>1, <2>1, <2>2
    <2> QED BY <1>1, <1>2, <2>3
  <1>6. PICK g : Solves(g, n, Q, 0, step)
    BY <1>1, <1>4, <1>5, RecursionExists, Zenon
  <1>7. /\ g[0] = 0
        /\ \A j \in 1..n : g[j] = IF j < i THEN 0 ELSE g[j - 1] + ns[j]
    <2>1. \A j \in 0..n : g[j] \in Nat
      BY <1>2, <1>6 DEF Solves
    <2>2. \A j \in 1..n : g[j - 1] \in Nat
      BY <1>1, <2>1
    <2> QED BY <1>3, <1>6, <2>2, Zenon DEF Solves
  <1> DEFINE f0 == [j \in 0..n |-> g[j]]
  <1>8. SumRun(f0, ns, i)
    <2>1. \A j \in 0..n : f0[j] = IF j < i THEN 0 ELSE f0[j - 1] + ns[j]
      BY <1>1, <1>7
    <2> QED BY <2>1, Zenon DEF SumRun, n
  <1>9. \E f : SumRun(f, ns, i)
    <2> HIDE DEF f0
    <2> QED BY <1>8
  <1> DEFINE f == CHOOSE f : SumRun(f, ns, i)
  <1>10. SumRun(f, ns, i)
    BY <1>9
  <1>11. \A k : SumOf(ns, i, k) = f[k]
    BY DEF SumOf, SumRun
  <1> HIDE DEF f
  <1>12. \A j \in 0..n : f[j] = IF j < i THEN 0 ELSE f[j - 1] + ns[j]
    BY <1>10, Zenon DEF SumRun, n
  <1> DEFINE P == {j \in 0..n : f[j] \in Nat}
  <1>13. 0 \in P
    BY <1>1, <1>12
  <1>14. \A j \in 1..n : j - 1 \in P => j \in P
    BY <1>1, <1>12
  <1>15. 0..n \subseteq P
    <2> HIDE DEF P
    <2> QED BY <1>1, <1>13, <1>14, BoundedInduction, Zenon
  <1>16. \A k \in 0..n : SumOf(ns, i, k) \in Nat
    BY <1>11, <1>15
  <1>17. \A k \in 0..n : k < i => SumOf(ns, i, k) = 0
    BY <1>11, <1>12
  <1>18. \A k \in 1..n : k >= i => SumOf(ns, i, k) = SumOf(ns, i, k - 1) + ns[k]
    BY <1>1, <1>11, <1>12
  <1> QED BY <1>16, <1>17, <1>18 DEF n

\* It does not shrink, and leaving out a first number that is 0 changes nothing.
LEMMA SumMonotone ==
    ASSUME NEW ns \in Seq(Nat), NEW i \in 1..Len(ns), NEW k \in 0..Len(ns)
    PROVE  /\ \A j \in 0..k : SumOf(ns, i, j) <= SumOf(ns, i, k)
           /\ ns[i] = 0 => SumOf(ns, i + 1, k) = SumOf(ns, i, k)
  <1> DEFINE F(j) == SumOf(ns, i, j)
             G(j) == SumOf(ns, i + 1, j)
             n == Len(ns)
  <1>1. n \in Nat /\ \A j \in 1..n : ns[j] \in Nat
    OBVIOUS
  <1>2. /\ \A j \in 0..n : F(j) \in Nat
        /\ \A j \in 0..n : j < i => F(j) = 0
        /\ \A j \in 1..n : j >= i => F(j) = F(j - 1) + ns[j]
    <2>1. i \in Nat \ {0}
      OBVIOUS
    <2> QED BY <2>1, SumFacts
  <1>3. /\ \A j \in 0..n : G(j) \in Nat
        /\ \A j \in 0..n : j < i + 1 => G(j) = 0
        /\ \A j \in 1..n : j >= i + 1 => G(j) = G(j - 1) + ns[j]
    <2>1. i + 1 \in Nat \ {0}
      OBVIOUS
    <2> QED BY <2>1, SumFacts, Zenon
  <1>4. i \in 1..n /\ k \in 0..n
    OBVIOUS
  <1> HIDE DEF F, G, n
  <1> DEFINE P == {m \in 0..n : \A j \in 0..m : F(j) <= F(m)}
             R == {m \in 0..n : ns[i] = 0 => G(m) = F(m)}
  <1>5. 0 \in P /\ 0 \in R
    BY <1>1, <1>2, <1>3, <1>4
  <1>6. ASSUME NEW m \in 1..n, m - 1 \in P
        PROVE  m \in P
    <2>1. F(m - 1) <= F(m) /\ F(m - 1) \in Nat /\ F(m) \in Nat
      <3>1. m - 1 \in 0..n /\ m \in 0..n /\ m \in Nat
        BY <1>1
      <3>2. CASE m < i
        BY <1>2, <1>4, <3>1, <3>2
      <3>3. CASE m >= i
        <4>1. F(m) = F(m - 1) + ns[m]
          BY <1>2, <3>3
        <4> QED BY <1>1, <1>2, <3>1, <4>1
      <3> QED BY <1>4, <3>1, <3>2, <3>3
    <2>2. \A j \in 0..(m - 1) : F(j) <= F(m - 1) /\ F(j) \in Nat
      BY <1>1, <1>2, <1>6
    <2>3. \A j \in 0..m : j = m \/ j \in 0..(m - 1)
      BY <1>1
    <2>4. ASSUME NEW j \in 0..m
          PROVE  F(j) <= F(m)
      <3>1. CASE j = m
        BY <2>1, <3>1
      <3>2. CASE j \in 0..(m - 1)
        <4>1. F(j) <= F(m - 1) /\ F(j) \in Nat
          BY <2>2, <3>2
        <4> QED BY <2>1, <4>1
      <3> QED BY <2>3, <3>1, <3>2
    <2>5. m \in 0..n
      BY <1>1
    <2> QED BY <2>4, <2>5
  <1>7. ASSUME NEW m \in 1..n, m - 1 \in R
        PROVE  m \in R
    <2>1. m \in 0..n /\ m - 1 \in 0..n
      BY <1>1
    <2> SUFFICES ASSUME ns[i] = 0 PROVE G(m) = F(m)
      BY <2>1
    <2>2. G(m - 1) = F(m - 1) /\ F(m - 1) \in Nat
      BY <1>2, <1>7, <2>1
    <2>3. CASE m < i
      BY <1>2, <1>3, <1>4, <2>1, <2>3
    <2>4. CASE m = i
      <3>1. i - 1 \in 0..n /\ i - 1 < i /\ i >= i
        BY <1>1, <1>4
      <3>2. F(i - 1) = 0 /\ F(i) = F(i - 1) + ns[i]
        BY <1>2, <1>4, <3>1, Zenon
      <3> QED BY <1>2, <1>3, <1>4, <2>1, <2>4, <3>2
    <2>5. CASE m > i
      BY <1>1, <1>2, <1>3, <1>4, <2>1, <2>2, <2>5
    <2> QED BY <1>4, <2>1, <2>3, <2>4, <2>5
  <1>8. 0..n \subseteq P /\ 0..n \subseteq R
    <2> HIDE DEF P, R
    <2>1. 0..n \subseteq P
      BY <1>1, <1>5, <1>6, BoundedInduction, Zenon
    <2>2. 0..n \subseteq R
      BY <1>1, <1>5, <1>7, BoundedInduction, Zenon
    <2> QED BY <2>1, <2>2
  <1>9. \A j \in 0..k : F(j) <= F(k)
    BY <1>4, <1>8
  <1>10. ns[i] = 0 => G(k) = F(k)
    BY <1>4, <1>8
  <1> QED BY <1>9, <1>10 DEF F, G

-----------------------------------------------------------------------------
\* What the chains hold, one behind the other.
FlatRun(f, ds) ==
    f = [i \in 1..Len(ds) |-> IF i = 1 THEN ds[i] ELSE f[i - 1] \o ds[i]]

\* It is what any function says that adds one piece at a time.
LEMMA FlattenIs ==
    ASSUME NEW B, NEW ds \in Seq(Seq(B)), NEW g, g[0] = << >>,
           \A i \in 0..Len(ds) : g[i] \in Seq(B),
           \A i \in 1..Len(ds) : g[i] = g[i - 1] \o ds[i]
    PROVE  FlattenSeq(ds) = g[Len(ds)]
  <1> DEFINE n == Len(ds)
             f0 == [i \in 1..n |-> g[i]]
  <1>1. n \in Nat /\ \A i \in 1..n : ds[i] \in Seq(B)
    OBVIOUS
  <1>2. CASE n = 0
    <2>1. ds = << >>
      BY <1>2
    <2>2. FlattenSeq(ds) = ds
      BY <1>2 DEF FlattenSeq
    <2> QED BY <1>2, <2>1, <2>2
  <1>3. CASE n # 0
    <2>1. g[1] = ds[1]
      <3>1. 1 \in 1..n
        BY <1>1, <1>3
      <3>2. g[1] = g[1 - 1] \o ds[1]
        BY <3>1, Zenon
      <3>3. g[1 - 1] = << >> /\ ds[1] \in Seq(B)
        BY <1>1, <3>1
      <3>4. << >> \o ds[1] = ds[1]
        BY <3>3, ConcatEmptySeq
      <3> QED BY <3>2, <3>3, <3>4, Zenon
    <2>2. FlatRun(f0, ds)
      <3>1. \A i \in 1..n : f0[i] = IF i = 1 THEN ds[i] ELSE f0[i - 1] \o ds[i]
        <4> TAKE i \in 1..n
        <4>1. CASE i = 1
          BY <2>1, <4>1
        <4>2. CASE i # 1
          <5>1. i - 1 \in 1..n
            BY <1>1, <4>2
          <5> QED BY <4>2, <5>1, Zenon
        <4> QED BY <4>1, <4>2
      <3> QED BY <3>1, Zenon DEF FlatRun
    <2>3. \E f : FlatRun(f, ds)
      <3> HIDE DEF f0
      <3> QED BY <2>2
    <2> DEFINE f == CHOOSE f : FlatRun(f, ds)
    <2>4. FlatRun(f, ds)
      BY <2>3
    <2>5. FlattenSeq(ds) = f[n]
      BY <1>3 DEF FlattenSeq, FlatRun
    <2> HIDE DEF f
    <2>6. \A i \in 1..n : f[i] = IF i = 1 THEN ds[i] ELSE f[i - 1] \o ds[i]
      BY <2>4, Zenon DEF FlatRun
    <2> HIDE DEF n, f0
    <2> DEFINE P == {i \in 0..n : i # 0 => f[i] = g[i]}
    <2>7. 0 \in P
      BY <1>1
    <2>8. ASSUME NEW i \in 1..n, i - 1 \in P
          PROVE  i \in P
      <3>1. CASE i = 1
        BY <1>1, <2>1, <2>6, <3>1
      <3>2. CASE i # 1
        <4>1. f[i - 1] = g[i - 1]
          BY <1>1, <2>8, <3>2
        <4>2. f[i] = f[i - 1] \o ds[i]
          BY <2>6, <3>2, Zenon
        <4>3. g[i] = g[i - 1] \o ds[i]
          BY Zenon DEF n
        <4>4. f[i] = g[i]
          BY <4>1, <4>2, <4>3, Zenon
        <4> QED BY <1>1, <4>4
      <3> QED BY <3>1, <3>2
    <2>9. 0..n \subseteq P
      <3> HIDE DEF P
      <3> QED BY <1>1, <2>7, <2>8, BoundedInduction, Zenon
    <2>10. n \in 0..n
      BY <1>1
    <2>11. f[n] = g[n]
      BY <1>3, <2>9, <2>10
    <2> QED BY <2>5, <2>11 DEF n
  <1> QED BY <1>2, <1>3

\* One piece more.
LEMMA FlattenAppend ==
    ASSUME NEW B, NEW ds \in Seq(Seq(B)), NEW d \in Seq(B)
    PROVE  /\ FlattenSeq(ds) \in Seq(B)
           /\ FlattenSeq(Append(ds, d)) = FlattenSeq(ds) \o d
  <1> DEFINE es == Append(ds, d)
             n == Len(es)
             Q == [i \in 0..n |-> Seq(B)]
             step == [i \in 1..n |-> [x \in Seq(B) |-> x \o es[i]]]
  <1>1. /\ es \in Seq(Seq(B)) /\ n = Len(ds) + 1 /\ Len(ds) \in Nat
        /\ \A i \in 1..Len(ds) : es[i] = ds[i]
        /\ es[Len(ds) + 1] = d
    BY AppendProperties
  <1> HIDE DEF es
  <1>2. n \in Nat /\ n # 0 /\ \A i \in 1..n : es[i] \in Seq(B)
    BY <1>1
  <1>3. \A i \in 0..n : Q[i] = Seq(B)
    OBVIOUS
  <1>4. \A i \in 1..n : \A x \in Seq(B) : step[i][x] = x \o es[i]
    OBVIOUS
  <1> HIDE DEF Q, step, n
  <1>5. << >> \in Q[0]
    <2>1. 0 \in 0..n
      BY <1>2
    <2> QED BY <1>3, <2>1, EmptySeq, Zenon
  <1>6. Stays(n, Q, step)
    <2> SUFFICES ASSUME NEW i \in 1..n, NEW x \in Q[i - 1]
                 PROVE  step[i][x] \in Q[i]
      BY Zenon DEF Stays
    <2>1. i - 1 \in 0..n /\ i \in 0..n
      BY <1>2
    <2>2. x \in Seq(B)
      BY <1>3, <2>1
    <2>3. x \o es[i] \in Seq(B)
      BY <1>2, <2>2, ConcatProperties
    <2> QED BY <1>3, <1>4, <2>1, <2>2, <2>3, Zenon
  <1>7. PICK g : Solves(g, n, Q, << >>, step)
    BY <1>2, <1>5, <1>6, RecursionExists
  <1>8. /\ g[0] = << >>
        /\ \A i \in 0..n : g[i] \in Seq(B)
    BY <1>3, <1>7 DEF Solves
  <1>9. \A i \in 1..n : g[i] = g[i - 1] \o es[i]
    <2> TAKE i \in 1..n
    <2>1. i - 1 \in 0..n
      BY <1>2
    <2>2. g[i] = step[i][g[i - 1]]
      BY <1>7 DEF Solves
    <2> QED BY <1>4, <1>8, <2>1, <2>2, Zenon
  <1>10. FlattenSeq(es) = g[n]
    BY <1>1, <1>8, <1>9, FlattenIs, Zenon DEF n
  <1>11. \A i \in 0..Len(ds) : g[i] \in Seq(B)
    BY <1>1, <1>8
  <1>12. \A i \in 1..Len(ds) : g[i] = g[i - 1] \o ds[i]
    <2> TAKE i \in 1..Len(ds)
    <2>1. i \in 1..n /\ es[i] = ds[i]
      BY <1>1
    <2>2. g[i] = g[i - 1] \o es[i]
      BY <1>9, <2>1, Zenon
    <2> QED BY <2>1, <2>2, Zenon
  <1>13. FlattenSeq(ds) = g[Len(ds)]
    BY <1>8, <1>11, <1>12, FlattenIs, Zenon
  <1>14. n \in 1..n /\ n - 1 = Len(ds) /\ es[n] = d
    BY <1>1, <1>2
  <1>15. g[n] = g[Len(ds)] \o d
    BY <1>9, <1>14, Zenon
  <1>16. Len(ds) \in 0..Len(ds)
    BY <1>1
  <1> QED BY <1>10, <1>11, <1>13, <1>15, <1>16 DEF es

-----------------------------------------------------------------------------
\* A chain: its data lies within it; an empty one is as good as new; one made
\* by evbuffer_add_reference is full to its end.
ChainRec(B) == [size : Nat \ {0}, mis : Nat, data : Seq(B), fixed : BOOLEAN]
Chain(B) ==
    {c \in ChainRec(B) :
        /\ c.mis + Len(c.data) <= c.size
        /\ c.data = << >> => c.mis = 0 /\ ~c.fixed
        /\ c.fixed => c.mis + Len(c.data) = c.size}

\* No chains hold nothing, one chain more holds its data more.
LEMMA ContentsAppend ==
    ASSUME NEW B, NEW cs \in Seq(Chain(B)), NEW c \in Chain(B)
    PROVE  /\ Contents(<< >>) = << >> /\ Contents(cs) \in Seq(B)
           /\ Contents(Append(cs, c)) = Contents(cs) \o c.data
           /\ Contents(<< c >>) = c.data
  <1> DEFINE D(x) == [i \in DOMAIN x |-> x[i].data]
  <1>1. \A x \in Chain(B) : x.data \in Seq(B)
    BY DEF Chain, ChainRec
  <1>2. ASSUME NEW x \in Seq(Chain(B))
        PROVE  D(x) \in Seq(Seq(B)) /\ Len(D(x)) = Len(x)
               /\ \A i \in 1..Len(x) : D(x)[i] = x[i].data
    <2>1. DOMAIN x = 1..Len(x) /\ Len(x) \in Nat /\ \A i \in 1..Len(x) : x[i] \in Chain(B)
      OBVIOUS
    <2>2. \A i \in 1..Len(x) : x[i].data \in Seq(B)
      BY <1>1, <2>1
    <2> QED BY <2>1, <2>2
  <1>3. ASSUME NEW x \in Seq(Chain(B))
        PROVE  /\ D(Append(x, c)) = Append(D(x), c.data)
    <2>1. /\ Append(x, c) \in Seq(Chain(B)) /\ Len(Append(x, c)) = Len(x) + 1
          /\ \A i \in 1..Len(x) : Append(x, c)[i] = x[i]
          /\ Append(x, c)[Len(x) + 1] = c
      BY AppendProperties
    <2> DEFINE y == Append(x, c)
               e == Append(D(x), c.data)
    <2>2. D(y) \in Seq(Seq(B)) /\ Len(D(y)) = Len(y)
          /\ \A i \in 1..Len(y) : D(y)[i] = y[i].data
      BY <1>2, <2>1, Zenon
    <2>3. /\ D(x) \in Seq(Seq(B)) /\ Len(D(x)) = Len(x)
          /\ \A i \in 1..Len(x) : D(x)[i] = x[i].data
      BY <1>2
    <2>4. c.data \in Seq(B)
      BY <1>1
    <2> HIDE DEF D
    <2>5. /\ e \in Seq(Seq(B)) /\ Len(e) = Len(x) + 1
          /\ \A i \in 1..Len(x) : e[i] = D(x)[i]
          /\ e[Len(x) + 1] = c.data
      BY <2>3, <2>4, AppendProperties
    <2>6. Len(x) \in Nat /\ \A i \in 1..(Len(x) + 1) : i \in 1..Len(x) \/ i = Len(x) + 1
      OBVIOUS
    <2> HIDE DEF y, e
    <2>7. \A i \in 1..Len(D(y)) : D(y)[i] = e[i]
      BY <2>1, <2>2, <2>3, <2>5, <2>6, Zenon DEF y
    <2>8. D(y) = e
      BY <2>1, <2>2, <2>5, <2>7, SeqEqual DEF y
    <2> QED BY <2>8 DEF y, e
  <1>4. \A x : Contents(x) = FlattenSeq(D(x))
    BY DEF Contents
  <1>5. c.data \in Seq(B)
    BY <1>1
  <1>6. ASSUME NEW x \in Seq(Chain(B))
        PROVE  /\ Contents(x) \in Seq(B)
               /\ Contents(Append(x, c)) = Contents(x) \o c.data
    <2>1. D(x) \in Seq(Seq(B)) /\ D(Append(x, c)) = Append(D(x), c.data)
      BY <1>2, <1>3
    <2> HIDE DEF D
    <2> QED BY <1>4, <1>5, <2>1, FlattenAppend, Zenon
  <1>7. Contents(<< >>) = << >>
    <2>1. D(<< >>) = << >> /\ Len(D(<< >>)) = 0
      OBVIOUS
    <2> HIDE DEF D
    <2> QED BY <1>4, <2>1, Zenon DEF FlattenSeq
  <1>8. Contents(<< c >>) = c.data
    <2>1. << >> \in Seq(Chain(B)) /\ Append(<< >>, c) = << c >>
      OBVIOUS
    <2>2. Contents(<< c >>) = Contents(<< >>) \o c.data
      BY <1>6, <2>1, Zenon
    <2> QED BY <1>5, <1>7, <2>2, ConcatEmptySeq, Zenon
  <1> QED BY <1>6, <1>7, <1>8

\* The part up to a place.
LEMMA UptoFacts ==
    ASSUME NEW S, NEW s \in Seq(S), NEW k \in 0..Len(s)
    PROVE  /\ Upto(s, k) \in Seq(S) /\ Len(Upto(s, k)) = k
           /\ \A i \in 1..k : Upto(s, k)[i] = s[i]
  BY DEF Upto

\* The part beyond a place.
LEMMA BeyondFacts ==
    ASSUME NEW S, NEW s \in Seq(S), NEW k \in 0..Len(s)
    PROVE  /\ Beyond(s, k) \in Seq(S) /\ Len(Beyond(s, k)) = Len(s) - k
           /\ \A i \in 1..(Len(s) - k) : Beyond(s, k)[i] = s[k + i]
  BY DEF Beyond

\* The part up to a place ends with the element at that place.
LEMMA UptoNext ==
    ASSUME NEW S, NEW s \in Seq(S), NEW k \in 1..Len(s)
    PROVE  Upto(s, k) = Append(Upto(s, k - 1), s[k])
  <1>1. 1 \in 1..Len(s) /\ k \in 1..Len(s) /\ s[k] \in S
    OBVIOUS
  <1>2. SubSeq(s, 1, k) = SubSeq(s, 1, k - 1) \o << s[k] >>
    BY <1>1, SubSeqRecursiveSecond
  <1>3. SubSeq(s, 1, k - 1) \in Seq(S)
    BY <1>1
  <1> QED BY <1>1, <1>2, <1>3, AppendIsConcat DEF Upto

\* The chains in front, the one at a place, and those behind.
LEMMA SplitAt ==
    ASSUME NEW S, NEW s \in Seq(S), NEW k \in 0..Len(s)
    PROVE  /\ Upto(s, k) \in Seq(S) /\ Len(Upto(s, k)) = k
           /\ \A i \in 1..k : Upto(s, k)[i] = s[i]
           /\ Beyond(s, k) \in Seq(S) /\ Len(Beyond(s, k)) = Len(s) - k
           /\ \A i \in 1..(Len(s) - k) : Beyond(s, k)[i] = s[k + i]
           /\ s = Upto(s, k) \o Beyond(s, k)
           /\ k > 0 => Upto(s, k) = Append(Upto(s, k - 1), s[k])
           /\ k < Len(s) => Beyond(s, k) = << s[k + 1] >> \o Beyond(s, k + 1)
           /\ Upto(s, Len(s)) = s /\ Beyond(s, Len(s)) = << >>
           /\ Upto(s, 0) = << >> /\ Beyond(s, 0) = s
  <1>1. Len(s) \in Nat /\ k \in Nat /\ k <= Len(s)
    OBVIOUS
  <1>2. /\ Upto(s, k) \in Seq(S) /\ Len(Upto(s, k)) = k
        /\ \A i \in 1..k : Upto(s, k)[i] = s[i]
    BY UptoFacts, Zenon
  <1>3. /\ Beyond(s, k) \in Seq(S) /\ Len(Beyond(s, k)) = Len(s) - k
        /\ \A i \in 1..(Len(s) - k) : Beyond(s, k)[i] = s[k + i]
    BY BeyondFacts, Zenon
  <1>4. s = Upto(s, k) \o Beyond(s, k)
    <2>1. 1 \in 1..(Len(s) + 1) /\ k \in (1 - 1)..Len(s) /\ Len(s) \in k..Len(s)
      BY <1>1
    <2>2. SubSeq(s, 1, k) \o SubSeq(s, k + 1, Len(s)) = SubSeq(s, 1, Len(s))
      BY <2>1, ConcatAdjacentSubSeq, Zenon
    <2> QED BY <2>2, SubSeqFull, Zenon DEF Upto, Beyond
  <1>5. ASSUME k > 0 PROVE Upto(s, k) = Append(Upto(s, k - 1), s[k])
    <2>1. k \in 1..Len(s)
      BY <1>1, <1>5
    <2> QED BY <2>1, UptoNext, Zenon
  <1>6. ASSUME k < Len(s) PROVE Beyond(s, k) = << s[k + 1] >> \o Beyond(s, k + 1)
    <2>1. k + 1 \in 1..Len(s) /\ Len(s) \in (k + 1)..Len(s)
      BY <1>1, <1>6
    <2> QED BY <2>1, SubSeqRecursiveFirst DEF Beyond
  <1>7. Upto(s, Len(s)) = s /\ Beyond(s, Len(s)) = << >>
    BY <1>1, SubSeqFull, SubSeqEmpty DEF Upto, Beyond
  <1>8. Upto(s, 0) = << >> /\ Beyond(s, 0) = s
    BY <1>1, SubSeqFull, SubSeqEmpty DEF Upto, Beyond
  <1> QED BY <1>2, <1>3, <1>4, <1>5, <1>6, <1>7, <1>8, Zenon

\* It does not matter in which order three pieces are put together.
Associates(x, y, z) == (x \o y) \o z = x \o (y \o z)

\* \o is associative.
LEMMA AssociatesAll ==
    ASSUME NEW B, NEW x \in Seq(B), NEW y \in Seq(B), NEW z \in Seq(B)
    PROVE  Associates(x, y, z)
  BY ConcatAssociative DEF Associates

\* One part behind the other is the sequence.
LEMMA HalvesFacts ==
    ASSUME NEW S, NEW s \in Seq(S), NEW k \in 0..Len(s)
    PROVE  s = Upto(s, k) \o Beyond(s, k)
  BY SplitAt, Zenon

\* Chains behind chains hold what is in the ones and then what is in the others.
LEMMA ContentsConcat ==
    ASSUME NEW B, NEW cs \in Seq(Chain(B)), NEW ds \in Seq(Chain(B))
    PROVE  /\ Contents(cs) \in Seq(B) /\ Contents(ds) \in Seq(B)
           /\ Contents(cs \o ds) = Contents(cs) \o Contents(ds)
  <1> DEFINE n == Len(ds)
             P == {k \in 0..n : Contents(cs \o Upto(ds, k))
                                  = Contents(cs) \o Contents(Upto(ds, k))}
  <1>1. n \in Nat /\ \A i \in 1..n : ds[i] \in Chain(B)
    OBVIOUS
  <1>2. \A x \in Seq(Chain(B)) : Contents(x) \in Seq(B)
    <2> TAKE x \in Seq(Chain(B))
    <2>1. CASE x = << >>
      <3>1. Contents(<< >>) = << >>
        BY DEF Contents, FlattenSeq
      <3> QED BY <2>1, <3>1, EmptySeq, Zenon
    <2>2. CASE x # << >>
      <3>1. x[1] \in Chain(B)
        BY <2>2
      <3> QED BY <3>1, ContentsAppend, Zenon
    <2> QED BY <2>1, <2>2
  <1>3. Contents(<< >>) = << >>
    BY DEF Contents, FlattenSeq
  <1>4. 0 \in P
    <2>1. 0 \in 0..Len(ds)
      BY <1>1
    <2>2. Upto(ds, 0) = << >>
      BY <2>1, SplitAt, Zenon
    <2>3. cs \o << >> = cs
      BY ConcatEmptySeq
    <2>4. Contents(cs) \o << >> = Contents(cs)
      BY <1>2, ConcatEmptySeq
    <2>5. Contents(cs \o Upto(ds, 0)) = Contents(cs) \o Contents(Upto(ds, 0))
      BY <1>3, <2>2, <2>3, <2>4, Zenon
    <2> QED BY <2>1, <2>5
  <1>5. ASSUME NEW k \in 1..n, k - 1 \in P
        PROVE  k \in P
    <2>1. k \in 0..Len(ds) /\ k - 1 \in 0..Len(ds) /\ k > 0 /\ k \in 0..n
      BY <1>1
    <2>2. Upto(ds, k) = Append(Upto(ds, k - 1), ds[k]) /\ ds[k] \in Chain(B)
      <3>1. k \in 1..Len(ds)
        BY <1>1
      <3>2. Upto(ds, k) = Append(Upto(ds, k - 1), ds[k])
        BY ONLY <3>1, ds \in Seq(Chain(B)), UptoNext, Zenon
      <3> QED BY <3>1, <3>2
    <2>3. Upto(ds, k - 1) \in Seq(Chain(B))
      BY <2>1, SplitAt, Zenon
    <2> DEFINE u == Upto(ds, k - 1)
               d == ds[k]
    <2>4. Contents(cs \o u) = Contents(cs) \o Contents(u)
      BY <1>5
    <2>5. u \in Seq(Chain(B)) /\ d \in Chain(B)
      BY <2>2, <2>3
    <2>6. Upto(ds, k) = Append(u, d)
      BY <2>2
    <2> HIDE DEF u, d
    <2>7. cs \o Append(u, d) = Append(cs \o u, d) /\ cs \o u \in Seq(Chain(B))
      <3>1. Append(u, d) = u \o << d >> /\ << d >> \in Seq(Chain(B))
        BY <2>5, AppendIsConcat
      <3>2. cs \o u \in Seq(Chain(B))
        BY <2>5, ConcatProperties
      <3>3. Append(cs \o u, d) = (cs \o u) \o << d >>
        BY <2>5, <3>2, AppendIsConcat
      <3>4. (cs \o u) \o << d >> = cs \o (u \o << d >>)
        <4> DEFINE one == << d >>
        <4>1. one \in Seq(Chain(B))
          BY <3>1
        <4> HIDE DEF one
        <4>2. Associates(cs, u, one)
          BY ONLY <2>5, <4>1, cs \in Seq(Chain(B)), AssociatesAll
        <4> QED BY <4>2 DEF Associates, one
      <3> QED BY <3>1, <3>2, <3>3, <3>4, Zenon
    <2>8. Contents(Append(cs \o u, d)) = Contents(cs \o u) \o d.data
      BY <2>5, <2>7, ContentsAppend, Zenon
    <2>9. Contents(Append(u, d)) = Contents(u) \o d.data
      BY <2>5, ContentsAppend, Zenon
    <2>10. d.data \in Seq(B)
      BY <2>5 DEF Chain, ChainRec
    <2>11. (Contents(cs) \o Contents(u)) \o d.data = Contents(cs) \o (Contents(u) \o d.data)
      <3>1. Contents(cs) \in Seq(B) /\ Contents(u) \in Seq(B)
        BY <1>2, <2>5
      <3> DEFINE p == Contents(cs)
                 q == Contents(u)
                 r == d.data
      <3> HIDE DEF p, q, r
      <3>2. (p \o q) \o r = p \o (q \o r)
        <4>1. p \in Seq(B) /\ q \in Seq(B) /\ r \in Seq(B)
          BY <2>10, <3>1 DEF p, q, r
        <4> HIDE DEF p, q, r
        <4> QED BY ONLY <4>1, AssociatesAll DEF Associates
      <3> QED BY <3>2 DEF p, q, r
    <2>12. Contents(cs \o Append(u, d)) = Contents(cs) \o Contents(Append(u, d))
      BY <2>4, <2>7, <2>8, <2>9, <2>11, Zenon
    <2> QED BY <2>1, <2>6, <2>12, Zenon
  <1>6. n \in P
    <2> HIDE DEF P, n
    <2>1. 0..n \subseteq P
      BY <1>1, <1>4, <1>5, BoundedInduction, Zenon
    <2> QED BY <1>1, <2>1
  <1>7. Upto(ds, n) = ds
    <2>1. Len(ds) \in 0..Len(ds)
      BY <1>1
    <2> QED BY <2>1, SplitAt, Zenon
  <1> QED BY <1>2, <1>6, <1>7

\* What a list of chains holds, around one of them.
LEMMA ContentsAround ==
    ASSUME NEW B, NEW cs \in Seq(Chain(B)), NEW k \in 1..Len(cs)
    PROVE  /\ Contents(Upto(cs, k - 1)) \in Seq(B) /\ cs[k].data \in Seq(B)
           /\ Contents(Beyond(cs, k)) \in Seq(B)
           /\ Contents(Upto(cs, k)) = Contents(Upto(cs, k - 1)) \o cs[k].data
           /\ Contents(cs) = (Contents(Upto(cs, k - 1)) \o cs[k].data)
                               \o Contents(Beyond(cs, k))
  <1>1. k \in 0..Len(cs) /\ k - 1 \in 0..Len(cs) /\ k > 0
    OBVIOUS
  <1>2. /\ Upto(cs, k) \in Seq(Chain(B)) /\ Beyond(cs, k) \in Seq(Chain(B))
        /\ cs = Upto(cs, k) \o Beyond(cs, k)
        /\ Upto(cs, k) = Append(Upto(cs, k - 1), cs[k])
    BY <1>1, UptoFacts, BeyondFacts, HalvesFacts, UptoNext, Zenon
  <1>3. Upto(cs, k - 1) \in Seq(Chain(B))
    BY <1>1, UptoFacts, Zenon
  <1>9. cs[k] \in Chain(B)
    OBVIOUS
  <1> DEFINE u == Upto(cs, k)
             v == Upto(cs, k - 1)
             w == Beyond(cs, k)
             c == cs[k]
  <1>4. /\ u \in Seq(Chain(B)) /\ v \in Seq(Chain(B)) /\ w \in Seq(Chain(B))
        /\ c \in Chain(B) /\ u = Append(v, c) /\ cs = u \o w
    BY <1>2, <1>3, <1>9, Zenon
  <1> HIDE DEF u, v, w, c
  <1>5. Contents(u) = Contents(v) \o c.data /\ Contents(v) \in Seq(B)
    BY <1>4, ContentsAppend, Zenon
  <1>6. Contents(u \o w) = Contents(u) \o Contents(w) /\ Contents(w) \in Seq(B)
    BY <1>4, ContentsConcat, Zenon
  <1>7. c.data \in Seq(B)
    BY <1>4 DEF Chain, ChainRec
  <1>8. Contents(cs) = (Contents(v) \o c.data) \o Contents(w)
    BY <1>4, <1>5, <1>6, Zenon
  <1> QED BY <1>5, <1>6, <1>7, <1>8, Zenon DEF u, v, w, c

\* Chains with the same data hold the same; what one of them is changed to shows
\* in its place.
LEMMA ContentsReplaced ==
    ASSUME NEW B, NEW cs \in Seq(Chain(B)), NEW ds \in Seq(Chain(B)),
           Len(ds) = Len(cs), NEW k \in 1..Len(cs),
           \A i \in 1..Len(cs) : i # k => ds[i].data = cs[i].data
    PROVE  Contents(ds) = (Contents(Upto(cs, k - 1)) \o ds[k].data)
                            \o Contents(Beyond(cs, k))
  <1>1. /\ Len(cs) \in Nat /\ Len(ds) = Len(cs) /\ k \in 1..Len(ds)
        /\ k - 1 \in 0..Len(cs) /\ k \in 0..Len(cs)
        /\ k - 1 \in 0..Len(ds) /\ k \in 0..Len(ds)
    OBVIOUS
  <1>2. Contents(ds) = (Contents(Upto(ds, k - 1)) \o ds[k].data)
                         \o Contents(Beyond(ds, k))
    BY <1>1, ContentsAround, Zenon
  <1>5. ASSUME NEW j \in 0..Len(ds)
        PROVE  /\ Upto(ds, j) \in Seq(Chain(B)) /\ Len(Upto(ds, j)) = j
               /\ \A i \in 1..j : Upto(ds, j)[i] = ds[i]
               /\ Beyond(ds, j) \in Seq(Chain(B)) /\ Len(Beyond(ds, j)) = Len(ds) - j
               /\ \A i \in 1..(Len(ds) - j) : Beyond(ds, j)[i] = ds[j + i]
    <2>1. /\ Upto(ds, j) \in Seq(Chain(B)) /\ Len(Upto(ds, j)) = j
          /\ \A i \in 1..j : Upto(ds, j)[i] = ds[i]
      BY UptoFacts, Zenon
    <2>2. /\ Beyond(ds, j) \in Seq(Chain(B)) /\ Len(Beyond(ds, j)) = Len(ds) - j
          /\ \A i \in 1..(Len(ds) - j) : Beyond(ds, j)[i] = ds[j + i]
      BY BeyondFacts, Zenon
    <2> QED BY <2>1, <2>2, Zenon
  <1>3. Contents(Upto(ds, k - 1)) = Contents(Upto(cs, k - 1))
    <2>1. /\ Upto(ds, k - 1) \in Seq(Chain(B)) /\ Len(Upto(ds, k - 1)) = k - 1
          /\ \A i \in 1..(k - 1) : Upto(ds, k - 1)[i] = ds[i]
      BY <1>1, <1>5, Zenon
    <2>2. /\ Upto(cs, k - 1) \in Seq(Chain(B)) /\ Len(Upto(cs, k - 1)) = k - 1
          /\ \A i \in 1..(k - 1) : Upto(cs, k - 1)[i] = cs[i]
      BY <1>1, UptoFacts, Zenon
    <2>3. \A i \in 1..(k - 1) : i \in 1..Len(cs) /\ i # k
      OBVIOUS
    <2> DEFINE u == Upto(ds, k - 1)
               v == Upto(cs, k - 1)
    <2> HIDE DEF u, v
    <2>4. DOMAIN u = 1..(k - 1) /\ DOMAIN v = 1..(k - 1)
      BY <2>1, <2>2 DEF u, v
    <2>5. \A i \in 1..(k - 1) : u[i].data = v[i].data
      BY <2>1, <2>2, <2>3 DEF u, v
    <2>6. [i \in DOMAIN u |-> u[i].data] = [i \in DOMAIN v |-> v[i].data]
      BY <2>4, <2>5
    <2> QED BY <2>6, Zenon DEF Contents, u, v
  <1>4. Contents(Beyond(ds, k)) = Contents(Beyond(cs, k))
    <2>1. /\ Beyond(ds, k) \in Seq(Chain(B)) /\ Len(Beyond(ds, k)) = Len(cs) - k
          /\ \A i \in 1..(Len(cs) - k) : Beyond(ds, k)[i] = ds[k + i]
      BY <1>1, <1>5, Zenon
    <2>2. /\ Beyond(cs, k) \in Seq(Chain(B)) /\ Len(Beyond(cs, k)) = Len(cs) - k
          /\ \A i \in 1..(Len(cs) - k) : Beyond(cs, k)[i] = cs[k + i]
      BY <1>1, SplitAt, Zenon
    <2>3. \A i \in 1..(Len(cs) - k) : k + i \in 1..Len(cs) /\ k + i # k
      BY <1>1
    <2> DEFINE u == Beyond(ds, k)
               v == Beyond(cs, k)
    <2> HIDE DEF u, v
    <2>4. DOMAIN u = 1..(Len(cs) - k) /\ DOMAIN v = 1..(Len(cs) - k)
      BY <2>1, <2>2 DEF u, v
    <2>5. \A i \in 1..(Len(cs) - k) : u[i].data = v[i].data
      BY <2>1, <2>2, <2>3 DEF u, v
    <2>6. [i \in DOMAIN u |-> u[i].data] = [i \in DOMAIN v |-> v[i].data]
      BY <2>4, <2>5
    <2> QED BY <2>6 DEF Contents, u, v
  <1> QED BY <1>2, <1>3, <1>4, Zenon

\* Chains that hold the same data one by one have the same bytes.
LEMMA ContentsSame ==
    ASSUME NEW S, NEW cs \in Seq(S), NEW ds \in Seq(S), Len(ds) = Len(cs),
           \A i \in 1..Len(cs) : ds[i].data = cs[i].data
    PROVE  Contents(ds) = Contents(cs)
  <1>1. DOMAIN cs = 1..Len(cs) /\ DOMAIN ds = 1..Len(cs)
    OBVIOUS
  <1>2. [i \in DOMAIN ds |-> ds[i].data] = [i \in DOMAIN cs |-> cs[i].data]
    BY <1>1
  <1> QED BY <1>2, Zenon DEF Contents

\* Chains hold nothing if and only if all of them are empty.
LEMMA ContentsOfNone ==
    ASSUME NEW B, NEW cs \in Seq(Chain(B))
    PROVE  AllEmpty(cs) <=> Contents(cs) = << >>
  <1>1. Len(cs) \in Nat /\ DOMAIN cs = 1..Len(cs)
    OBVIOUS
  <1>2. ASSUME AllEmpty(cs) PROVE Contents(cs) = << >>
    <2> DEFINE P == {k \in 0..Len(cs) : Contents(Upto(cs, k)) = << >>}
    <2>1. 0 \in P
      <3>1. 0 \in 0..Len(cs)
        BY <1>1
      <3>2. Upto(cs, 0) = << >>
        BY <3>1, SplitAt, Zenon
      <3>3. Contents(<< >>) = << >>
        BY DEF Contents, FlattenSeq
      <3> QED BY <3>1, <3>2, <3>3
    <2>2. ASSUME NEW k \in 1..Len(cs), k - 1 \in P
          PROVE  k \in P
      <3>1. Contents(Upto(cs, k)) = Contents(Upto(cs, k - 1)) \o cs[k].data
        BY ContentsAround, Zenon
      <3>2. cs[k].data = << >> /\ Contents(Upto(cs, k - 1)) = << >>
        BY <1>1, <1>2, <2>2 DEF AllEmpty
      <3>3. << >> \o << >> = << >>
        BY EmptySeq, ConcatEmptySeq
      <3>4. Contents(Upto(cs, k)) = << >>
        BY <3>1, <3>2, <3>3, Zenon
      <3> QED BY <1>1, <3>4
    <2>3. Len(cs) \in P
      <3> HIDE DEF P
      <3>1. 0..Len(cs) \subseteq P
        BY <1>1, <2>1, <2>2, BoundedInduction, Zenon
      <3> QED BY <1>1, <3>1
    <2>4. Upto(cs, Len(cs)) = cs
      <3>1. Len(cs) \in 0..Len(cs)
        BY <1>1
      <3> QED BY <3>1, SplitAt, Zenon
    <2> QED BY <2>3, <2>4
  <1>3. ASSUME NEW k \in 1..Len(cs), Contents(cs) = << >> PROVE cs[k].data = << >>
    <2> DEFINE p == Contents(Upto(cs, k - 1))
               d == cs[k].data
               q == Contents(Beyond(cs, k))
    <2>1. /\ p \in Seq(B) /\ d \in Seq(B) /\ q \in Seq(B)
          /\ Contents(cs) = (p \o d) \o q
      BY ContentsAround, Zenon
    <2> HIDE DEF p, d, q
    <2>2. p \o d \in Seq(B)
      BY <2>1, ConcatProperties
    <2>3. (p \o d) \o q = << >>
      BY <1>3, <2>1, Zenon
    <2>4. p \o d = << >>
      BY <2>1, <2>2, <2>3, ConcatEqualIffEmpty
    <2>5. d = << >>
      BY <2>1, <2>4, ConcatEqualIffEmpty
    <2> QED BY <2>5 DEF d
  <1>4. ASSUME Contents(cs) = << >> PROVE AllEmpty(cs)
    BY <1>1, <1>3, <1>4 DEF AllEmpty
  <1> QED BY <1>2, <1>4

\* Chains without the empty ones at their end hold the same.
LEMMA ContentsUpto ==
    ASSUME NEW B, NEW cs \in Seq(Chain(B)), NEW k \in 0..Len(cs),
           \A i \in (k + 1)..Len(cs) : cs[i].data = << >>
    PROVE  /\ AllEmpty(Beyond(cs, k)) /\ Contents(Beyond(cs, k)) = << >>
           /\ Contents(Upto(cs, k)) = Contents(cs)
  <1>1. /\ Beyond(cs, k) \in Seq(Chain(B)) /\ Len(Beyond(cs, k)) = Len(cs) - k
        /\ \A i \in 1..(Len(cs) - k) : Beyond(cs, k)[i] = cs[k + i]
        /\ Upto(cs, k) \in Seq(Chain(B)) /\ cs = Upto(cs, k) \o Beyond(cs, k)
    BY UptoFacts, BeyondFacts, HalvesFacts, Zenon
  <1>2. AllEmpty(Beyond(cs, k))
    <2>1. DOMAIN Beyond(cs, k) = 1..(Len(cs) - k)
      BY <1>1
    <2>2. \A i \in 1..(Len(cs) - k) : k + i \in (k + 1)..Len(cs)
      OBVIOUS
    <2> QED BY <1>1, <2>1, <2>2, Zenon DEF AllEmpty
  <1> DEFINE u == Upto(cs, k)
             w == Beyond(cs, k)
  <1>3. u \in Seq(Chain(B)) /\ w \in Seq(Chain(B)) /\ AllEmpty(w) /\ cs = u \o w
    BY <1>1, <1>2, Zenon
  <1> HIDE DEF u, w
  <1>4. Contents(w) = << >>
    BY <1>3, ContentsOfNone
  <1>5. Contents(u \o w) = Contents(u) \o Contents(w) /\ Contents(u) \in Seq(B)
    BY <1>3, ContentsConcat
  <1>6. Contents(u) \o << >> = Contents(u)
    BY <1>5, ConcatEmptySeq
  <1> QED BY <1>2, <1>3, <1>4, <1>5, <1>6, Zenon DEF u, w

-----------------------------------------------------------------------------
\* A buffer in order: nothing is behind the chain that lwd says, and that chain
\* has data unless it is the first; its counter is right; no assertion failed.
Sane(h) ==
    /\ ~h.bad /\ h.total = Len(Contents(h.chains))
    /\ \A i \in DOMAIN h.chains : i > h.lwd => h.chains[i].data = << >>
    /\ h.lwd = 1 \/ (h.lwd \in DOMAIN h.chains /\ h.chains[h.lwd].data # << >>)

BufferRec(B) == [chains : Seq(Chain(B)), lwd : Nat, total : Nat,
                 frozen : SUBSET {"start", "end"}, bad : BOOLEAN]
Buffer(B) == {h \in BufferRec(B) : Sane(h)}

\* What a chain is.
LEMMA ChainFacts ==
    ASSUME NEW B, NEW c \in Chain(B)
    PROVE  /\ c.size \in Nat /\ c.size > 0 /\ c.mis \in Nat /\ c.data \in Seq(B)
           /\ c.fixed \in BOOLEAN /\ Len(c.data) \in Nat
           /\ c.mis + Len(c.data) <= c.size
           /\ c.data = << >> => c.mis = 0 /\ ~c.fixed
           /\ c.fixed => c.mis + Len(c.data) = c.size
           /\ Space(c) \in Nat /\ c.mis + Len(c.data) + Space(c) <= c.size
           /\ ~c.fixed => c.mis + Len(c.data) + Space(c) = c.size
           /\ Space(c) > 0 => ~c.fixed
           /\ c.data = << >> => Space(c) = c.size
           /\ c.data = << >> <=> Len(c.data) = 0
  <1>1. /\ c.size \in Nat /\ c.size > 0 /\ c.mis \in Nat /\ c.data \in Seq(B)
        /\ c.fixed \in BOOLEAN /\ Len(c.data) \in Nat
        /\ c.mis + Len(c.data) <= c.size
        /\ c.data = << >> => c.mis = 0 /\ ~c.fixed
        /\ c.fixed => c.mis + Len(c.data) = c.size
    BY DEF Chain, ChainRec
  <1>2. c.data = << >> <=> Len(c.data) = 0
    BY <1>1, EmptySeq
  <1>3. Space(c) = IF c.fixed THEN 0 ELSE c.size - c.mis - Len(c.data)
    BY DEF Space, Off
  <1>4. CASE c.fixed
    BY <1>1, <1>2, <1>3, <1>4
  <1>5. CASE ~c.fixed
    BY <1>1, <1>2, <1>3, <1>5
  <1> QED BY <1>4, <1>5

\* A new chain has room for what it is made for.
LEMMA NewChainFacts ==
    ASSUME NEW B, NEW n \in Nat
    PROVE  /\ NewChain(n) \in Chain(B) /\ NewChain(n).data = << >>
           /\ ~NewChain(n).fixed /\ Space(NewChain(n)) >= n
           /\ NewChain(n).size >= n /\ NewChain(n).mis = 0
           /\ NewChain(n).size = NewSize(n)
           /\ \A s \in Seq(B) : Len(s) <= n =>
                /\ [NewChain(n) EXCEPT !.data = s] \in Chain(B)
                /\ [NewChain(n) EXCEPT !.data = s].data = s
                /\ [NewChain(n) EXCEPT !.data = s].mis = 0
                /\ [NewChain(n) EXCEPT !.data = s].size = NewSize(n)
                /\ ~[NewChain(n) EXCEPT !.data = s].fixed
  <1> DEFINE m == NewSize(n)
             c == NewChain(n)
  <1>1. m \in Nat \ {0} /\ m >= n
    BY SizeFacts
  <1>2. c = [size |-> m, mis |-> 0, data |-> << >>, fixed |-> FALSE]
    BY DEF NewChain
  <1> HIDE DEF m, c
  <1>3. /\ c.size = m /\ c.mis = 0 /\ c.data = << >> /\ c.fixed = FALSE
        /\ << >> \in Seq(B) /\ Len(<< >>) = 0
    BY <1>2, EmptySeq
  <1>4. c \in Chain(B)
    <2>1. c \in [size : Nat \ {0}, mis : Nat, data : Seq(B), fixed : BOOLEAN]
      BY <1>1, <1>2, <1>3
    <2> QED BY <1>1, <1>3, <2>1 DEF Chain, ChainRec
  <1>5. Space(c) = m
    BY <1>1, <1>3 DEF Space, Off
  <1>6. ASSUME NEW s \in Seq(B), Len(s) <= n
        PROVE  /\ [c EXCEPT !.data = s] \in Chain(B)
               /\ [c EXCEPT !.data = s].data = s
               /\ [c EXCEPT !.data = s].mis = 0
               /\ [c EXCEPT !.data = s].size = m
               /\ ~[c EXCEPT !.data = s].fixed
    <2> DEFINE d == [c EXCEPT !.data = s]
    <2>1. d.data = s /\ d.mis = 0 /\ d.size = m /\ d.fixed = FALSE
          /\ d \in [size : Nat \ {0}, mis : Nat, data : Seq(B), fixed : BOOLEAN]
      BY <1>1, <1>2, Zenon
    <2> HIDE DEF d
    <2>2. d \in Chain(B)
      BY <1>1, <1>6, <2>1 DEF Chain, ChainRec
    <2> QED BY <2>1, <2>2 DEF d
  <1> QED BY <1>1, <1>3, <1>4, <1>5, <1>6 DEF c, m

\* A chain of evbuffer_add_reference.
LEMMA ReferenceFacts ==
    ASSUME NEW B, NEW s \in Seq(B), s # << >>
    PROVE  Reference(s) \in Chain(B) /\ Reference(s).data = s
  <1> DEFINE c == Reference(s)
  <1>1. Len(s) \in Nat \ {0}
    BY EmptySeq
  <1>2. c = [size |-> Len(s), mis |-> 0, data |-> s, fixed |-> TRUE]
    BY DEF Reference
  <1> HIDE DEF c
  <1>3. c.size = Len(s) /\ c.mis = 0 /\ c.data = s /\ c.fixed = TRUE
        /\ c \in [size : Nat \ {0}, mis : Nat, data : Seq(B), fixed : BOOLEAN]
    BY <1>1, <1>2
  <1>4. c \in Chain(B)
    BY <1>1, <1>3 DEF Chain, ChainRec
  <1> QED BY <1>3, <1>4 DEF c

\* What a buffer in order is.
LEMMA BufferFacts ==
    ASSUME NEW B, NEW h \in Buffer(B)
    PROVE  /\ h \in BufferRec(B) /\ h.chains \in Seq(Chain(B)) /\ h.lwd \in Nat
           /\ h.total \in Nat /\ h.bad = FALSE /\ h.frozen \in SUBSET {"start", "end"}
           /\ Len(h.chains) \in Nat /\ DOMAIN h.chains = 1..Len(h.chains)
           /\ \A i \in 1..Len(h.chains) : h.chains[i] \in Chain(B)
           /\ h.total = Len(Contents(h.chains)) /\ Contents(h.chains) \in Seq(B)
           /\ \A i \in (h.lwd + 1)..Len(h.chains) : h.chains[i].data = << >>
           /\ h.lwd >= 1
           /\ h.chains = << >> => h.lwd = 1 /\ Contents(h.chains) = << >>
           /\ h.chains # << >> => h.lwd \in 1..Len(h.chains) /\ Len(h.chains) >= 1
           /\ h.lwd > 1 => h.chains[h.lwd].data # << >>
           /\ AllEmpty(h.chains) <=> h.total = 0
           /\ h.lwd > 1 => h.total > 0
  <1>1. /\ h \in BufferRec(B) /\ h.chains \in Seq(Chain(B)) /\ h.lwd \in Nat
        /\ h.total \in Nat /\ h.bad \in BOOLEAN
        /\ h.frozen \in SUBSET {"start", "end"} /\ Sane(h)
    BY DEF Buffer, BufferRec
  <1>2. /\ ~h.bad /\ h.total = Len(Contents(h.chains))
        /\ \A i \in DOMAIN h.chains : i > h.lwd => h.chains[i].data = << >>
        /\ h.lwd = 1 \/ (h.lwd \in DOMAIN h.chains /\ h.chains[h.lwd].data # << >>)
    BY <1>1 DEF Sane
  <1>3. /\ Len(h.chains) \in Nat /\ DOMAIN h.chains = 1..Len(h.chains)
        /\ \A i \in 1..Len(h.chains) : h.chains[i] \in Chain(B)
        /\ h.chains # << >> => Len(h.chains) >= 1
        /\ h.chains = << >> => Len(h.chains) = 0
    BY <1>1, EmptySeq
  <1>4. Contents(h.chains) \in Seq(B) /\ Contents(<< >>) = << >>
    <2>1. Contents(h.chains) \in Seq(B)
      BY <1>1, ContentsConcat
    <2>2. Contents(<< >>) = << >>
      BY DEF Contents, FlattenSeq
    <2> QED BY <2>1, <2>2
  <1>5. \A i \in (h.lwd + 1)..Len(h.chains) : h.chains[i].data = << >>
    BY <1>1, <1>2, <1>3
  <1>6. AllEmpty(h.chains) <=> h.total = 0
    <2>1. Contents(h.chains) = << >> <=> Len(Contents(h.chains)) = 0
      BY <1>4, EmptySeq
    <2> QED BY <1>1, <1>2, <2>1, ContentsOfNone
  <1>7. h.lwd > 1 => h.chains[h.lwd].data # << >> /\ h.lwd \in DOMAIN h.chains
    BY <1>1, <1>2
  <1>8. h.lwd > 1 => h.total > 0
    BY <1>1, <1>6, <1>7 DEF AllEmpty
  <1>9. h.lwd >= 1
    BY <1>1, <1>2, <1>3
  <1>10. h.chains = << >> => h.lwd = 1 /\ Contents(h.chains) = << >>
    BY <1>2, <1>3, <1>4
  <1>11. h.chains # << >> => h.lwd \in 1..Len(h.chains) /\ Len(h.chains) >= 1
    BY <1>1, <1>2, <1>3
  <1>12. h.bad = FALSE
    BY <1>1, <1>2
  <1> QED BY <1>1, <1>2, <1>3, <1>4, <1>5, <1>6, <1>7, <1>8, <1>9, <1>10, <1>11, <1>12

\* To be in order.
LEMMA BufferIs ==
    ASSUME NEW B, NEW h \in BufferRec(B), ~h.bad,
           h.total = Len(Contents(h.chains)),
           \A i \in (h.lwd + 1)..Len(h.chains) : h.chains[i].data = << >>,
           h.lwd = 1 \/ (h.lwd \in 1..Len(h.chains) /\ h.chains[h.lwd].data # << >>)
    PROVE  h \in Buffer(B)
  <1>1. h.chains \in Seq(Chain(B)) /\ h.lwd \in Nat
    BY DEF BufferRec
  <1>2. DOMAIN h.chains = 1..Len(h.chains) /\ Len(h.chains) \in Nat
    BY <1>1
  <1>3. \A i \in DOMAIN h.chains : i > h.lwd => i \in (h.lwd + 1)..Len(h.chains)
    BY <1>1, <1>2
  <1>4. Sane(h)
    BY <1>2, <1>3 DEF Sane
  <1> QED BY <1>4 DEF Buffer

\* r is h with the chain c put in behind the data.
Inserted(B, h, c, r) ==
    /\ r \in Buffer(B) /\ r.frozen = h.frozen
    /\ Contents(r.chains) = Contents(h.chains) \o c.data
    /\ Len(r.chains) \in 1..(Len(h.chains) + 1)
    /\ r.chains[Len(r.chains)] = c
    /\ \/ Len(r.chains) = h.lwd
       \/ Len(r.chains) = h.lwd + 1 /\ h.chains[h.lwd].data # << >>
    /\ c.data = << >> => r.lwd = h.lwd
    /\ c.data # << >> => r.lwd = Len(r.chains)
    /\ \A i \in 1..(Len(r.chains) - 1) : r.chains[i] = h.chains[i]

\* A chain is put in behind the data, in place of the empty ones.
LEMMA InsertFacts ==
    ASSUME NEW B, NEW h \in Buffer(B), NEW c \in Chain(B),
           c.data = << >> \/ Tight(h)
    PROVE  Inserted(B, h, c, Insert(h, c))
  <1> DEFINE n == Len(h.chains)
             r == Insert(h, c)
             t == h.total + Off(c)
             grown == [h EXCEPT !.total = @ + Off(c)]
             victims == {i \in h.lwd..n : h.chains[i].data = << >>}
             v == CHOOSE i \in victims : \A j \in victims : i <= j
  <1>1. /\ h \in BufferRec(B) /\ h.chains \in Seq(Chain(B)) /\ h.lwd \in Nat
        /\ h.total \in Nat /\ h.bad = FALSE
        /\ h.frozen \in SUBSET {"start", "end"}
        /\ n \in Nat /\ h.lwd >= 1
        /\ h.total = Len(Contents(h.chains)) /\ Contents(h.chains) \in Seq(B)
        /\ \A i \in (h.lwd + 1)..n : h.chains[i].data = << >>
        /\ h.chains = << >> => h.lwd = 1 /\ Contents(h.chains) = << >>
        /\ h.chains # << >> => h.lwd \in 1..n
        /\ h.lwd > 1 => h.chains[h.lwd].data # << >>
    BY BufferFacts, Zenon
  <1>2. /\ c.data \in Seq(B) /\ Off(c) \in Nat /\ Off(c) = Len(c.data)
    BY ChainFacts DEF Off
  <1>0. h.total \in Nat /\ h.lwd \in Nat /\ h.lwd >= 1 /\ n \in Nat
    BY <1>1
  <1>3. t \in Nat
    BY <1>0, <1>2
  \* A buffer whose chains are x, with its pointer at l.
  <1> DEFINE Fits(g, x, l) ==
               /\ g.chains = x /\ g.lwd = l /\ g.total = t /\ g.bad = FALSE
               /\ g.frozen = h.frozen /\ g \in BufferRec(B)
  <1>4. ASSUME NEW g, NEW x \in Seq(Chain(B)), NEW l \in Nat, Fits(g, x, l),
               Contents(x) = Contents(h.chains) \o c.data,
               \A i \in (l + 1)..Len(x) : x[i].data = << >>,
               l = 1 \/ (l \in 1..Len(x) /\ x[l].data # << >>)
        PROVE  g \in Buffer(B)
    <2>1. Len(Contents(x)) = t
      BY <1>1, <1>2, <1>4, ConcatProperties
    <2> QED BY <1>4, <2>1, BufferIs, Zenon
  <1>5. grown.chains = h.chains /\ grown.lwd = h.lwd /\ grown.total = t
        /\ grown.bad = FALSE /\ grown.frozen = h.frozen /\ grown \in BufferRec(B)
    BY <1>1, <1>3 DEF BufferRec
  <1>6. CASE h.chains = << >>
    <2> DEFINE g == [grown EXCEPT !.chains = << c >>]
    <2>1. r = g
      BY <1>6 DEF Insert
    <2> HIDE DEF grown
    <2>2. << c >> \in Seq(Chain(B)) /\ Len(<< c >>) = 1 /\ << c >>[1] = c
      OBVIOUS
    <2>3. Fits(g, << c >>, 1)
      BY <1>1, <1>5, <1>6, <2>2, Zenon DEF BufferRec
    <2>4. Contents(<< c >>) = Contents(h.chains) \o c.data
      <3>1. Contents(<< c >>) = c.data
        BY <1>1, ContentsAppend
      <3>2. << >> \o c.data = c.data
        BY <1>2, ConcatEmptySeq
      <3> QED BY <1>1, <1>6, <3>1, <3>2, Zenon
    <2> HIDE DEF g, r
    <2>5. g \in Buffer(B)
      <3>1. 1 \in Nat /\ \A i \in (1 + 1)..Len(<< c >>) : << c >>[i].data = << >>
        BY <2>2
      <3> HIDE DEF Fits
      <3> QED BY <1>4, <2>2, <2>3, <2>4, <3>1, Zenon
    <2>6. n = 0
      BY <1>6
    <2>7. r.chains = << c >> /\ r.lwd = 1 /\ r.frozen = h.frozen /\ r \in Buffer(B)
      BY <2>1, <2>3, <2>5
    <2>8. Contents(r.chains) = Contents(h.chains) \o c.data
      BY <2>4, <2>7, Zenon
    <2>9. Len(r.chains) = 1 /\ r.chains[1] = c /\ h.lwd = 1
      BY <1>1, <1>6, <2>2, <2>7
    <2>10. /\ Len(r.chains) \in 1..(n + 1) /\ r.chains[Len(r.chains)] = c
           /\ Len(r.chains) = h.lwd /\ Len(r.chains) - 1 = 0
           /\ c.data = << >> => r.lwd = h.lwd
           /\ c.data # << >> => r.lwd = Len(r.chains)
      BY <2>6, <2>7, <2>9
    <2>11. \A i \in 1..(Len(r.chains) - 1) : r.chains[i] = h.chains[i]
      BY <2>10
    <2> HIDE DEF n
    <2> QED BY <2>7, <2>8, <2>10, <2>11, Zenon DEF r, n, Inserted
  <1>7. CASE h.chains # << >> /\ victims = {}
    <2> DEFINE x == Append(h.chains, c)
               l == IF c.data = << >> THEN h.lwd ELSE n + 1
               g == [grown EXCEPT !.chains = Append(@, c),
                                  !.lwd = IF c.data = << >> THEN @ ELSE n + 1]
    <2>1. r = g
      BY <1>7 DEF Insert
    <2>2. /\ x \in Seq(Chain(B)) /\ Len(x) = n + 1 /\ x[n + 1] = c
          /\ \A i \in 1..n : x[i] = h.chains[i]
      BY <1>1, AppendProperties
    <2>3. h.lwd = n /\ h.chains[h.lwd].data # << >>
      <3>1. h.lwd \in h.lwd..n /\ n \in h.lwd..n /\ n >= 1
        BY <1>1, <1>7
      <3>2. h.chains[h.lwd].data # << >>
        BY <1>7, <3>1
      <3>3. h.chains[n].data # << >>
        BY <1>7, <3>1
      <3> QED BY <1>1, <3>1, <3>2, <3>3
    <2> HIDE DEF grown, victims
    <2>4. Fits(g, x, l)
      <3>1. l \in Nat
        BY <1>1
      <3> HIDE DEF x, l
      <3>2. g = [grown EXCEPT !.chains = x, !.lwd = l]
        BY <1>5 DEF x, l, BufferRec
      <3> HIDE DEF g
      <3> QED BY <1>5, <2>2, <3>1, <3>2, Zenon DEF BufferRec
    <2>5. Contents(x) = Contents(h.chains) \o c.data
      BY <1>1, ContentsAppend, Zenon
    <2> HIDE DEF g, r, x
    <2>6. l \in Nat /\ l >= 1
      BY <1>1
    <2>7. \A i \in (l + 1)..Len(x) : x[i].data = << >>
      BY <1>1, <2>2, <2>3
    <2>8. l = 1 \/ (l \in 1..Len(x) /\ x[l].data # << >>)
      BY <1>1, <2>2, <2>3
    <2> HIDE DEF l
    <2>9. g \in Buffer(B)
      BY <1>4, <2>2, <2>4, <2>5, <2>6, <2>7, <2>8, Zenon
    <2> QED BY <1>1, <1>7, <2>1, <2>2, <2>3, <2>4, <2>5, <2>9 DEF r, l, Inserted
  <1>8. CASE h.chains # << >> /\ victims # {}
    <2>1. /\ v = h.lwd \/ (v = h.lwd + 1 /\ h.chains[h.lwd].data # << >>)
          /\ v \in 1..n
          /\ c.data # << >> => v = h.lwd
          /\ \A i \in v..n : h.chains[i].data = << >>
      <3>1. PICK w \in {h.lwd, h.lwd + 1} :
              w \in victims /\ (w = h.lwd + 1 => h.chains[h.lwd].data # << >>)
        <4>1. CASE h.chains[h.lwd].data = << >>
          BY <1>1, <1>8, <4>1
        <4>2. CASE h.chains[h.lwd].data # << >>
          <5>1. PICK i \in victims : TRUE
            BY <1>8
          <5>2. i # h.lwd /\ i \in h.lwd..n
            BY <4>2, <5>1
          <5>3. h.lwd + 1 \in h.lwd..n /\ h.lwd + 1 \in (h.lwd + 1)..n
            BY <1>1, <5>2
          <5> QED BY <1>1, <4>2, <5>3, Zenon
        <4> QED BY <4>1, <4>2
      <3>2. \A j \in victims : w <= j
        <4> TAKE j \in victims
        <4>1. j \in h.lwd..n /\ h.chains[j].data = << >>
          OBVIOUS
        <4> QED BY <1>1, <3>1, <4>1
      <3>3. v \in victims /\ \A j \in victims : v <= j
        BY <3>1, <3>2, Zenon
      <3>4. v = w
        <4> HIDE DEF v
        <4>1. v <= w /\ w <= v
          BY <3>1, <3>2, <3>3
        <4>2. v \in Nat
          <5>1. v \in h.lwd..n
            BY <3>3
          <5> QED BY <1>0, <5>1
        <4>3. w \in Nat
          BY <1>0
        <4> QED BY <4>1, <4>2, <4>3
      <3> HIDE DEF v
      <3>5. v \in h.lwd..n /\ h.chains[v].data = << >>
        BY <3>3
      <3>6. ASSUME c.data # << >> PROVE v = h.lwd
        <4>1. h.lwd >= n
          BY <3>6 DEF Tight
        <4> QED BY <1>1, <3>5, <4>1
      <3>7. \A i \in v..n : h.chains[i].data = << >>
        BY <1>1, <3>5
      <3> QED BY <1>1, <3>1, <3>4, <3>5, <3>6, <3>7
    <2> DEFINE x == Append(Upto(h.chains, v - 1), c)
               bad == ~AllEmpty(Beyond(h.chains, v - 1))
               g == [grown EXCEPT !.chains = Append(Upto(@, v - 1), c),
                                  !.bad = @ \/ ~AllEmpty(Beyond(h.chains, v - 1))]
    <2>2. r = g
      BY <1>8 DEF Insert
    <2> HIDE DEF v, victims
    <2>3. v - 1 \in 0..n /\ v \in Nat
      <3>1. v \in 1..n
        BY <2>1
      <3> QED BY <1>0, <3>1
    <2>4. /\ AllEmpty(Beyond(h.chains, v - 1))
          /\ Contents(Upto(h.chains, v - 1)) = Contents(h.chains)
      <3>1. \A i \in ((v - 1) + 1)..n : h.chains[i].data = << >>
        BY <2>1, <2>3
      <3> QED BY <1>1, <2>3, <3>1, ContentsUpto, Zenon
    <2>5. /\ Upto(h.chains, v - 1) \in Seq(Chain(B)) /\ Len(Upto(h.chains, v - 1)) = v - 1
          /\ \A i \in 1..(v - 1) : Upto(h.chains, v - 1)[i] = h.chains[i]
      <3>1. h.chains \in Seq(Chain(B))
        BY <1>1
      <3> QED BY <2>3, <3>1, SplitAt, Zenon
    <2>6. /\ x \in Seq(Chain(B)) /\ Len(x) = v /\ x[v] = c
          /\ \A i \in 1..(v - 1) : x[i] = h.chains[i]
      BY <2>3, <2>5, AppendProperties
    <2>7. Contents(x) = Contents(h.chains) \o c.data
      <3>1. Contents(x) = Contents(Upto(h.chains, v - 1)) \o c.data
        BY <2>5, ContentsAppend, Zenon
      <3> QED BY <2>4, <3>1, Zenon
    <2>8. Fits(g, x, h.lwd)
      <3> HIDE DEF grown
      <3>1. g = [grown EXCEPT !.chains = x, !.bad = FALSE]
        <4>1. (grown.bad \/ ~AllEmpty(Beyond(h.chains, v - 1))) = FALSE
          BY <1>5, <2>4
        <4>2. Append(Upto(grown.chains, v - 1), c) = x
          BY <1>5
        <4> HIDE DEF x
        <4> QED BY <4>1, <4>2, Zenon
      <3> HIDE DEF g, x
      <3> QED BY <1>1, <1>5, <2>6, <3>1, Zenon DEF BufferRec
    <2> HIDE DEF g, r, x, grown
    <2>9. \A i \in (h.lwd + 1)..Len(x) : x[i].data = << >>
      <3>1. CASE v = h.lwd
        BY <1>1, <2>6, <3>1
      <3>2. CASE v = h.lwd + 1
        <4>1. v # h.lwd
          BY <1>0, <3>2
        <4>2. c.data = << >>
          BY <2>1, <4>1
        <4>3. \A i \in (h.lwd + 1)..v : i = v
          BY <1>0, <3>2
        <4> QED BY <2>6, <4>2, <4>3
      <3> QED BY <2>1, <3>1, <3>2
    <2>10. h.lwd = 1 \/ (h.lwd \in 1..Len(x) /\ x[h.lwd].data # << >>)
      <3> SUFFICES ASSUME h.lwd # 1
                   PROVE  h.lwd \in 1..Len(x) /\ x[h.lwd].data # << >>
        OBVIOUS
      <3>1. h.chains[h.lwd].data # << >> /\ h.lwd > 1
        BY <1>1
      <3>2. v = h.lwd + 1
        <4>1. v # h.lwd
          <5>1. v \in v..n
            BY <1>0, <2>1, <2>3
          <5> QED BY <2>1, <3>1, <5>1
        <4> QED BY <2>1, <4>1
      <3>3. h.lwd \in 1..(v - 1) /\ h.lwd \in 1..v
        BY <1>0, <3>2
      <3> QED BY <2>6, <3>1, <3>3
    <2>11. g \in Buffer(B)
      BY <1>1, <1>4, <2>6, <2>7, <2>8, <2>9, <2>10, Zenon
    <2>12. r.chains = x /\ r.lwd = h.lwd /\ r.frozen = h.frozen
      BY <2>2, <2>8
    <2>13. r.lwd = IF c.data = << >> THEN h.lwd ELSE Len(r.chains)
      <3>1. c.data # << >> => v = h.lwd
        BY <2>1
      <3> QED BY <2>6, <2>12, <3>1
    <2>14. Len(r.chains) \in 1..(n + 1) /\ Len(r.chains) - 1 <= n
           /\ (Len(r.chains) = h.lwd
               \/ (Len(r.chains) = h.lwd + 1 /\ h.chains[h.lwd].data # << >>))
      <3>1. v \in 1..n /\ (v = h.lwd \/ (v = h.lwd + 1 /\ h.chains[h.lwd].data # << >>))
        BY <2>1
      <3>2. Len(r.chains) = v
        BY <2>6, <2>12
      <3> QED BY <1>0, <3>1, <3>2
    <2>15. r.chains[Len(r.chains)] = c
           /\ \A i \in 1..(Len(r.chains) - 1) : r.chains[i] = h.chains[i]
      BY <2>6, <2>12
    <2>16. Contents(r.chains) = Contents(h.chains) \o c.data
      BY <2>7, <2>12, Zenon
    <2>17. r \in Buffer(B)
      BY <2>2, <2>11
    <2> QED BY <2>12, <2>13, <2>14, <2>15, <2>16, <2>17 DEF r, Inserted
  <1> QED BY <1>6, <1>7, <1>8

\* A chain with more data, where it is or moved to its start.
LEMMA ChainGrown ==
    ASSUME NEW B, NEW c \in Chain(B), NEW x \in Seq(B), NEW d \in ChainRec(B),
           d.size = c.size, d.fixed = c.fixed, d.data = c.data \o x,
           \/ d.mis = c.mis /\ Len(x) <= Space(c)
           \/ d.mis = 0 /\ ~c.fixed /\ Len(c.data) + Len(x) <= c.size
    PROVE  d \in Chain(B)
  <1>1. /\ c.size \in Nat /\ c.mis \in Nat /\ Len(c.data) \in Nat
        /\ c.mis + Len(c.data) <= c.size
        /\ c.data = << >> => c.mis = 0 /\ ~c.fixed
        /\ c.fixed => c.mis + Len(c.data) = c.size
    BY ChainFacts
  <1>2. /\ Space(c) \in Nat /\ c.mis + Len(c.data) + Space(c) <= c.size
        /\ Space(c) > 0 => ~c.fixed
    BY ChainFacts
  <1>3. c.data \in Seq(B) /\ Len(x) \in Nat /\ d.mis \in Nat
    BY ChainFacts DEF ChainRec
  <1>4. /\ Len(d.data) = Len(c.data) + Len(x)
        /\ d.data = << >> => c.data = << >>
    BY <1>3, ConcatProperties, ConcatEqualIffEmpty
  <1>5. d.mis + Len(d.data) <= d.size
    BY <1>1, <1>2, <1>3, <1>4
  <1>6. d.data = << >> => d.mis = 0 /\ ~d.fixed
    BY <1>1, <1>4, Zenon
  <1>7. d.fixed => d.mis + Len(d.data) = d.size
    BY <1>1, <1>2, <1>3, <1>4
  <1> QED BY <1>5, <1>6, <1>7, Zenon DEF Chain

\* What is put in at the end of the second of two sequences is at their end;
\* what is put in at the front of the first is at their front.
LEMMA AtTheEnd ==
    ASSUME NEW B, NEW u \in Seq(B), NEW v \in Seq(B), NEW x \in Seq(B)
    PROVE  (u \o (v \o x)) \o << >> = ((u \o v) \o << >>) \o x
  <1>1. u \o v \in Seq(B) /\ v \o x \in Seq(B) /\ u \o (v \o x) \in Seq(B)
    BY ConcatProperties
  <1>2. (u \o v) \o << >> = u \o v /\ (u \o (v \o x)) \o << >> = u \o (v \o x)
    BY <1>1, ConcatEmptySeq
  <1>3. (u \o v) \o x = u \o (v \o x)
    BY ConcatAssociative
  <1> QED BY <1>2, <1>3, Zenon

\* The same at the front.
LEMMA AtTheFront ==
    ASSUME NEW B, NEW v \in Seq(B), NEW w \in Seq(B), NEW x \in Seq(B)
    PROVE  (<< >> \o (x \o v)) \o w = x \o ((<< >> \o v) \o w)
  <1>1. x \o v \in Seq(B)
    BY ConcatProperties
  <1>2. << >> \o v = v /\ << >> \o (x \o v) = x \o v
    BY <1>1, ConcatEmptySeq
  <1>3. (x \o v) \o w = x \o (v \o w)
    BY ConcatAssociative
  <1> QED BY <1>2, <1>3, Zenon

\* Data that is put into a chain with nothing behind it is at the end.
LEMMA ContentsGrown ==
    ASSUME NEW B, NEW cs \in Seq(Chain(B)), NEW ds \in Seq(Chain(B)),
           Len(ds) = Len(cs), NEW p \in 1..Len(cs), NEW x \in Seq(B),
           \A i \in (p + 1)..Len(cs) : cs[i].data = << >>,
           \A i \in 1..Len(cs) : i # p => ds[i].data = cs[i].data,
           ds[p].data = cs[p].data \o x
    PROVE  /\ Contents(ds) = Contents(cs) \o x
           /\ Len(Contents(ds)) = Len(Contents(cs)) + Len(x)
  <1> DEFINE u == Contents(Upto(cs, p - 1))
             v == cs[p].data
             w == Contents(Beyond(cs, p))
  <1>2. /\ u \in Seq(B) /\ v \in Seq(B) /\ w \in Seq(B)
        /\ Contents(cs) = (u \o v) \o w
    BY ContentsAround, Zenon
  <1>4. Contents(ds) = (u \o ds[p].data) \o w
    BY ContentsReplaced, Zenon
  <1>5. w = << >>
    <2>1. p \in 0..Len(cs)
      OBVIOUS
    <2> QED BY <2>1, ContentsUpto
  <1> HIDE DEF u, v, w
  <1>6. (u \o (v \o x)) \o << >> = ((u \o v) \o << >>) \o x
    <2>1. u \in Seq(B) /\ v \in Seq(B) /\ x \in Seq(B)
      BY <1>2
    <2> QED BY ONLY <2>1, AtTheEnd
  <1>7. Contents(ds) = Contents(cs) \o x
    BY <1>2, <1>4, <1>5, <1>6, Zenon DEF v
  <1>8. Contents(cs) \in Seq(B)
    BY ContentsConcat
  <1>9. Len(Contents(ds)) = Len(Contents(cs)) + Len(x)
    <2> DEFINE c == Contents(cs)
    <2>1. c \in Seq(B) /\ x \in Seq(B)
      BY <1>8
    <2> HIDE DEF c
    <2>2. Len(c \o x) = Len(c) + Len(x)
      BY ONLY <2>1, ConcatProperties
    <2> QED BY <1>7, <2>2, Zenon DEF c
  <1> QED BY <1>7, <1>9

\* Data that is put before that of the first chain is at the front.
LEMMA ContentsGrownFirst ==
    ASSUME NEW B, NEW cs \in Seq(Chain(B)), NEW ds \in Seq(Chain(B)),
           Len(ds) = Len(cs), 1 \in 1..Len(cs), NEW x \in Seq(B),
           \A i \in 1..Len(cs) : i # 1 => ds[i].data = cs[i].data,
           ds[1].data = x \o cs[1].data
    PROVE  /\ Contents(ds) = x \o Contents(cs)
           /\ Len(Contents(ds)) = Len(Contents(cs)) + Len(x)
  <1> DEFINE u == Contents(Upto(cs, 1 - 1))
             v == cs[1].data
             w == Contents(Beyond(cs, 1))
  <1>2. /\ u \in Seq(B) /\ v \in Seq(B) /\ w \in Seq(B)
        /\ Contents(cs) = (u \o v) \o w
    BY ContentsAround, Zenon
  <1>4. Contents(ds) = (u \o ds[1].data) \o w
    BY ContentsReplaced, Zenon
  <1>5. u = << >>
    <2>0. 0 \in 0..Len(cs) /\ 1 - 1 = 0
      OBVIOUS
    <2>1. Upto(cs, 0) = << >>
      BY <2>0, SplitAt, Zenon
    <2>2. Contents(<< >>) = << >>
      BY DEF Contents, FlattenSeq
    <2> QED BY <2>0, <2>1, <2>2
  <1> HIDE DEF u, v, w
  <1>6. (<< >> \o (x \o v)) \o w = x \o ((<< >> \o v) \o w)
    <2>1. v \in Seq(B) /\ w \in Seq(B) /\ x \in Seq(B)
      BY <1>2
    <2> QED BY ONLY <2>1, AtTheFront
  <1>7. Contents(ds) = x \o Contents(cs)
    BY <1>2, <1>4, <1>5, <1>6, Zenon DEF v
  <1>8. Contents(cs) \in Seq(B)
    BY ContentsConcat
  <1>9. Len(Contents(ds)) = Len(Contents(cs)) + Len(x)
    <2> DEFINE c == Contents(cs)
    <2>1. c \in Seq(B) /\ x \in Seq(B) /\ Len(c) \in Nat /\ Len(x) \in Nat
      BY <1>8
    <2> HIDE DEF c
    <2>2. Len(x \o c) = Len(x) + Len(c)
      BY ONLY <2>1, ConcatProperties
    <2>3. Len(Contents(ds)) = Len(x \o c)
      BY <1>7, Zenon DEF c
    <2>4. Len(c) = Len(Contents(cs))
      BY DEF c
    <2>5. Len(x) + Len(c) = Len(c) + Len(x)
      BY ONLY <2>1
    <2> QED BY <2>2, <2>3, <2>4, <2>5, Zenon
  <1> QED BY <1>7, <1>9

\* r is h with x behind the data of its chain p, the last with data or an empty
\* one behind it.
IsGrown(h, r, p, x) ==
    /\ p \in 1..Len(h.chains) /\ p >= h.lwd
    /\ ~r.bad /\ r.total = h.total + Len(x) /\ Len(r.chains) = Len(h.chains)
    /\ \A i \in 1..Len(h.chains) : i # p => r.chains[i].data = h.chains[i].data
    /\ r.chains[p].data = h.chains[p].data \o x
    /\ \/ r.lwd = h.lwd /\ (p = h.lwd \/ x = << >>)
       \/ r.lwd = p /\ x # << >>

\* It is in order.
LEMMA GrownFacts ==
    ASSUME NEW B, NEW h \in Buffer(B), NEW r \in BufferRec(B), NEW x \in Seq(B),
           NEW p, IsGrown(h, r, p, x)
    PROVE  r \in Buffer(B) /\ Contents(r.chains) = Contents(h.chains) \o x
  <1>0. /\ p \in 1..Len(h.chains) /\ p >= h.lwd
        /\ ~r.bad /\ r.total = h.total + Len(x) /\ Len(r.chains) = Len(h.chains)
        /\ \A i \in 1..Len(h.chains) : i # p => r.chains[i].data = h.chains[i].data
        /\ r.chains[p].data = h.chains[p].data \o x
        /\ \/ r.lwd = h.lwd /\ (p = h.lwd \/ x = << >>)
           \/ r.lwd = p /\ x # << >>
    BY DEF IsGrown
  <1> DEFINE cs == h.chains
             ds == r.chains
             l == r.lwd
  <1>1. cs \in Seq(Chain(B)) /\ h.total = Len(Contents(cs))
    BY BufferFacts, Zenon
  <1>2. h.lwd \in Nat /\ h.total \in Nat /\ Len(cs) \in Nat /\ h.lwd >= 1
    BY BufferFacts, Zenon
  <1>3. /\ \A i \in (h.lwd + 1)..Len(cs) : cs[i].data = << >>
        /\ h.lwd > 1 => cs[h.lwd].data # << >>
    BY BufferFacts, Zenon
  <1>4. \A i \in (p + 1)..Len(cs) : cs[i].data = << >>
    <2>1. \A i \in (p + 1)..Len(cs) : i \in (h.lwd + 1)..Len(cs)
      BY <1>0, <1>2
    <2> QED BY <1>3, <2>1
  <1>5. ds \in Seq(Chain(B)) /\ l \in Nat
    BY DEF BufferRec
  <1>6. /\ p \in 1..Len(cs) /\ p \in Nat /\ p >= h.lwd /\ Len(ds) = Len(cs)
        /\ \A i \in 1..Len(cs) : i # p => ds[i].data = cs[i].data
        /\ ds[p].data = cs[p].data \o x
        /\ \/ l = h.lwd /\ (p = h.lwd \/ x = << >>)
           \/ l = p /\ x # << >>
    BY <1>0, <1>2
  <1> HIDE DEF cs, ds, l
  <1>7. /\ Contents(ds) = Contents(cs) \o x
        /\ Len(Contents(ds)) = Len(Contents(cs)) + Len(x)
    BY <1>1, <1>4, <1>5, <1>6, ContentsGrown, Zenon
  <1>8. cs[p].data \in Seq(B)
    <2>1. cs[p] \in Chain(B)
      BY <1>1, <1>6
    <2> QED BY <2>1, ChainFacts
  <1>9. \A i \in (l + 1)..Len(ds) : ds[i].data = << >>
    <2>1. CASE l = p
      <3>1. \A i \in (l + 1)..Len(cs) : i # p /\ i \in (p + 1)..Len(cs) /\ i \in 1..Len(cs)
        BY <1>2, <1>6, <2>1
      <3> QED BY <1>4, <1>6, <3>1
    <2>2. CASE l = h.lwd /\ x = << >>
      <3>1. ds[p].data = cs[p].data
        BY <1>6, <1>8, <2>2, ConcatEmptySeq
      <3>2. \A i \in 1..Len(cs) : ds[i].data = cs[i].data
        BY <1>6, <3>1
      <3>3. \A i \in (l + 1)..Len(cs) : i \in (h.lwd + 1)..Len(cs) /\ i \in 1..Len(cs)
        BY <1>2, <2>2
      <3> QED BY <1>3, <1>6, <3>2, <3>3
    <2> QED BY <1>6, <2>1, <2>2
  <1>10. l = 1 \/ (l \in 1..Len(ds) /\ ds[l].data # << >>)
    <2>1. CASE l = p /\ x # << >>
      <3>1. ds[p].data # << >>
        BY <1>6, <1>8, <2>1, ConcatEqualIffEmpty
      <3> QED BY <1>6, <2>1, <3>1
    <2>2. CASE l = h.lwd /\ h.lwd # 1
      <3>1. h.lwd > 1 /\ h.lwd \in 1..Len(cs)
        BY <1>2, <1>6, <2>2
      <3>2. cs[h.lwd].data # << >>
        BY <1>3, <3>1
      <3>3. CASE h.lwd = p
        <4>1. ds[p].data # << >>
          BY <1>6, <1>8, <3>2, <3>3, ConcatEqualIffEmpty
        <4> QED BY <1>6, <2>2, <3>1, <3>3, <4>1
      <3>4. CASE h.lwd # p
        <4>1. ds[h.lwd].data = cs[h.lwd].data
          BY <1>6, <3>1, <3>4, Zenon
        <4> QED BY <1>6, <2>2, <3>1, <3>2, <4>1
      <3> QED BY <3>3, <3>4
    <2> QED BY <1>6, <2>1, <2>2
  <1>11. r \in Buffer(B)
    <2>1. r.total = Len(Contents(r.chains))
      BY <1>0, <1>1, <1>7 DEF ds
    <2>2. \A i \in (r.lwd + 1)..Len(r.chains) : r.chains[i].data = << >>
      BY <1>9 DEF ds, l
    <2>3. r.lwd = 1 \/ (r.lwd \in 1..Len(r.chains) /\ r.chains[r.lwd].data # << >>)
      BY <1>10 DEF ds, l
    <2> QED BY <1>0, <2>1, <2>2, <2>3, BufferIs
  <1> QED BY <1>7, <1>11 DEF cs, ds

\* A buffer with a chain to begin with.
Started(h, n) == IF h.chains = << >> THEN Insert(h, NewChain(n)) ELSE h
IsStarted(B, h, g) ==
    /\ g \in Buffer(B) /\ g.frozen = h.frozen
    /\ Contents(g.chains) = Contents(h.chains) /\ Len(g.chains) >= 1
    /\ Tight(h) => g.lwd = Len(g.chains)

\* It has a chain, and the same bytes as before.
LEMMA StartedFacts ==
    ASSUME NEW B, NEW h \in Buffer(B), NEW n \in Nat
    PROVE  IsStarted(B, h, Started(h, n))
  <1> DEFINE g == Started(h, n)
             k == Len(g.chains)
  <1>1. CASE h.chains = << >>
    <2> DEFINE new == NewChain(n)
    <2>1. new \in Chain(B) /\ new.data = << >>
      BY NewChainFacts
    <2>2. g = Insert(h, new)
      BY <1>1 DEF Started
    <2> HIDE DEF new
    <2>3. Inserted(B, h, new, Insert(h, new))
      BY ONLY <2>1, h \in Buffer(B), InsertFacts
    <2> HIDE DEF g
    <2>4. /\ g \in Buffer(B) /\ g.frozen = h.frozen
          /\ Contents(g.chains) = Contents(h.chains) \o new.data
          /\ k \in 1..(Len(h.chains) + 1) /\ g.lwd = h.lwd
      BY <2>1, <2>2, <2>3 DEF Inserted
    <2>5. h.lwd = 1 /\ Len(h.chains) = 0 /\ Contents(h.chains) \in Seq(B)
      BY <1>1, BufferFacts, Zenon
    <2>6. Contents(h.chains) \o << >> = Contents(h.chains)
      BY <2>5, ConcatEmptySeq
    <2> HIDE DEF k
    <2>7. k = 1 /\ g.lwd = 1
      BY <2>4, <2>5
    <2>8. Contents(g.chains) = Contents(h.chains)
      BY <2>1, <2>4, <2>6, Zenon
    <2> QED BY <2>4, <2>7, <2>8 DEF IsStarted, g, k
  <1>2. CASE h.chains # << >>
    <2>1. h.lwd \in 1..Len(h.chains) /\ Len(h.chains) \in Nat
      BY <1>2, BufferFacts, Zenon
    <2>2. g = h
      BY <1>2 DEF Started
    <2> HIDE DEF g
    <2> QED BY <2>1, <2>2 DEF Tight, IsStarted, g
  <1> QED BY <1>1, <1>2

\* evbuffer_add puts the bytes at the end.
LEMMA PutFacts ==
    ASSUME NEW B, NEW h \in Buffer(B), Tight(h), NEW s \in Seq(B)
    PROVE  /\ Put(h, s) \in Buffer(B) /\ Put(h, s).frozen = h.frozen
           /\ Contents(Put(h, s).chains) = Contents(h.chains) \o s
  <1> DEFINE g == IF h.chains = << >> THEN Insert(h, NewChain(Len(s))) ELSE h
             k == Len(g.chains)
             c == g.chains[k]
             n == Len(s)
             room == Space(c)
             double == IF c.size <= AutoSize \div 2 THEN 2 * c.size ELSE c.size
             m == IF n > double THEN n ELSE double
             whole == [g EXCEPT !.chains[k].data = @ \o s, !.total = @ + n]
             moved == [g EXCEPT !.chains[k].data = @ \o s, !.chains[k].mis = 0,
                                !.total = @ + n]
             filled == [g EXCEPT !.chains[k].data = @ \o SubSeq(s, 1, room),
                                 !.total = @ + room]
             new == [NewChain(m) EXCEPT !.data = SubSeq(s, room + 1, n)]
  <1>1. Put(h, s) = IF ~c.fixed /\ room >= n THEN whole
                    ELSE IF ~c.fixed /\ Realigns(c, n) THEN moved
                    ELSE Insert(filled, new)
    BY DEF Put
  <1>2. n \in Nat
    OBVIOUS
  <1>3. /\ g \in Buffer(B) /\ g.frozen = h.frozen
        /\ Contents(g.chains) = Contents(h.chains) /\ g.lwd = k /\ k >= 1
    <2>1. g = Started(h, n)
      BY DEF Started
    <2>2. IsStarted(B, h, Started(h, n))
      BY <1>2, StartedFacts
    <2> HIDE DEF g
    <2> QED BY <2>1, <2>2 DEF IsStarted
  <1> HIDE DEF g
  <1>4. /\ g \in BufferRec(B) /\ g.chains \in Seq(Chain(B)) /\ g.total \in Nat
        /\ g.bad = FALSE /\ k \in Nat /\ k \in 1..k /\ k >= g.lwd
        /\ c \in Chain(B)
    <2>1. /\ g \in BufferRec(B) /\ g.chains \in Seq(Chain(B)) /\ g.total \in Nat
          /\ g.bad = FALSE
      BY <1>3, BufferFacts, Zenon
    <2>2. k \in Nat /\ k \in 1..k /\ k >= g.lwd
      BY <1>3, <2>1
    <2> QED BY <2>1, <2>2
  <1>5. /\ room \in Nat /\ c.fixed \in BOOLEAN
        /\ room > 0 => ~c.fixed
        /\ c.size \in Nat /\ c.data \in Seq(B) /\ Len(c.data) \in Nat
    <2> HIDE DEF c
    <2> QED BY <1>4, ChainFacts
  <1> HIDE DEF c, n, room, k
  \* More in the last chain, which becomes d.
  <1>6. ASSUME NEW x \in Seq(B), NEW d \in Chain(B), d.data = c.data \o x,
               NEW r \in BufferRec(B), r.chains = [g.chains EXCEPT ![k] = d],
               r.total = g.total + Len(x), r.lwd = g.lwd, r.bad = g.bad,
               r.frozen = g.frozen
        PROVE  /\ r \in Buffer(B) /\ r.frozen = h.frozen
               /\ Contents(r.chains) = Contents(h.chains) \o x
               /\ Len(r.chains) = k /\ r.lwd = k
    <2>1. /\ Len(r.chains) = k /\ r.chains[k] = d
          /\ \A i \in 1..k : i # k => r.chains[i] = g.chains[i]
      <3>1. k \in 1..Len(g.chains)
        BY <1>4 DEF k
      <3>2. g.chains \in Seq(Chain(B)) /\ d \in Chain(B) /\ Len(g.chains) = k
        BY <1>4 DEF k
      <3>3. r.chains = [g.chains EXCEPT ![k] = d]
        BY <1>6
      <3> QED BY ONLY <3>1, <3>2, <3>3
    <2>2. /\ ~r.bad /\ Len(r.chains) = Len(g.chains) /\ k \in 1..Len(g.chains)
          /\ \A i \in 1..Len(g.chains) : i # k => r.chains[i].data = g.chains[i].data
          /\ r.chains[k].data = g.chains[k].data \o x /\ k = g.lwd
      BY <1>3, <1>4, <1>6, <2>1, Zenon DEF k, c
    <2>3. r \in Buffer(B) /\ Contents(r.chains) = Contents(g.chains) \o x
      <3>1. x \in Seq(B) /\ r \in BufferRec(B) /\ g \in Buffer(B)
        BY <1>3, <1>6
      <3>2. IsGrown(g, r, k, x)
        <4>1. r.lwd = g.lwd /\ r.total = g.total + Len(x) /\ k >= g.lwd
          BY <1>4, <1>6
        <4> QED BY <2>2, <4>1 DEF IsGrown
      <3> QED BY ONLY <3>1, <3>2, GrownFacts
    <2> QED BY <1>3, <1>6, <2>1, <2>3, Zenon
  <1>7. c \in ChainRec(B)
    BY <1>4 DEF Chain
  <1>8. CASE ~c.fixed /\ room >= n
    <2> DEFINE d == [c EXCEPT !.data = @ \o s]
    <2>1. /\ d.size = c.size /\ d.fixed = c.fixed /\ d.data = c.data \o s
          /\ d.mis = c.mis /\ d \in ChainRec(B)
      <3>1. c.data \o s \in Seq(B)
        BY <1>5, ConcatProperties
      <3> QED BY <1>7, <3>1, Zenon DEF ChainRec
    <2>2. whole.chains = [g.chains EXCEPT ![k] = d] /\ whole.total = g.total + n
          /\ whole.lwd = g.lwd /\ whole.bad = g.bad /\ whole.frozen = g.frozen
      BY <1>4 DEF BufferRec, c
    <2> HIDE DEF d
    <2>3. d \in Chain(B)
      <3>1. Len(s) <= Space(c) /\ c \in Chain(B)
        BY <1>4, <1>8 DEF n, room
      <3> QED BY <2>1, <3>1, ChainGrown
    <2>4. whole \in BufferRec(B)
      <3>1. g.total + n \in Nat
        BY <1>2, <1>4
      <3>2. [g.chains EXCEPT ![k] = d] \in Seq(Chain(B))
        BY <1>4, <2>3 DEF k
      <3> QED BY <1>4, <2>2, <3>1, <3>2, Zenon DEF BufferRec
    <2> HIDE DEF whole
    <2>5. Put(h, s) = whole
      BY <1>1, <1>8
    <2> QED BY <1>6, <2>1, <2>2, <2>3, <2>4, <2>5 DEF n
  <1>9. CASE ~(~c.fixed /\ room >= n) /\ ~c.fixed /\ Realigns(c, n)
    <2> DEFINE d == [c EXCEPT !.data = @ \o s, !.mis = 0]
    <2>1. /\ d.size = c.size /\ d.fixed = c.fixed /\ d.data = c.data \o s
          /\ d.mis = 0 /\ d \in ChainRec(B)
      <3>1. c.data \o s \in Seq(B)
        BY <1>5, ConcatProperties
      <3> QED BY <1>7, <3>1, Zenon DEF ChainRec
    <2>2. moved.chains = [g.chains EXCEPT ![k] = d] /\ moved.total = g.total + n
          /\ moved.lwd = g.lwd /\ moved.bad = g.bad /\ moved.frozen = g.frozen
      BY <1>4, Zenon DEF BufferRec, c
    <2> HIDE DEF d
    <2>3. d \in Chain(B)
      <3>1. ~c.fixed /\ Len(c.data) + Len(s) <= c.size /\ c \in Chain(B)
        BY <1>2, <1>4, <1>5, <1>9 DEF n, Realigns, Off
      <3> QED BY <2>1, <3>1, ChainGrown
    <2>4. moved \in BufferRec(B)
      <3>1. g.total + n \in Nat
        BY <1>2, <1>4
      <3>2. [g.chains EXCEPT ![k] = d] \in Seq(Chain(B))
        BY <1>4, <2>3 DEF k
      <3> QED BY <1>4, <2>2, <3>1, <3>2, Zenon DEF BufferRec
    <2> HIDE DEF moved
    <2>5. Put(h, s) = moved
      BY <1>1, <1>9
    <2> QED BY <1>6, <2>1, <2>2, <2>3, <2>4, <2>5, Zenon DEF n
  <1>10. CASE ~(~c.fixed /\ room >= n) /\ ~(~c.fixed /\ Realigns(c, n))
    <2> DEFINE x == SubSeq(s, 1, room)
               y == SubSeq(s, room + 1, n)
               d == [c EXCEPT !.data = @ \o x]
    <2>1. room <= n
      BY <1>2, <1>5, <1>10
    <2>2. /\ x \in Seq(B) /\ y \in Seq(B) /\ Len(x) = room /\ Len(y) = n - room
          /\ x \o y = s
      <3>1. n = Len(s) /\ n \in Nat /\ room \in Nat /\ s \in Seq(B)
        BY <1>2, <1>5 DEF n
      <3>2. 1 \in 1..(Len(s) + 1) /\ room \in (1 - 1)..Len(s) /\ Len(s) \in room..Len(s)
        BY <2>1, <3>1
      <3>3. SubSeq(s, 1, room) \o SubSeq(s, room + 1, Len(s)) = SubSeq(s, 1, Len(s))
        BY <3>2, ConcatAdjacentSubSeq, Zenon
      <3>4. SubSeq(s, 1, Len(s)) = s
        BY SubSeqFull
      <3>5. /\ x \in Seq(B) /\ y \in Seq(B) /\ Len(x) = room /\ Len(y) = n - room
        BY <2>1, <3>1
      <3> QED BY <3>1, <3>3, <3>4, <3>5, Zenon
    <2> HIDE DEF x, y
    <2>3. /\ d.size = c.size /\ d.fixed = c.fixed /\ d.data = c.data \o x
          /\ d.mis = c.mis /\ d \in ChainRec(B)
      <3>1. c.data \o x \in Seq(B)
        BY <1>5, <2>2, ConcatProperties
      <3> QED BY <1>7, <3>1, Zenon DEF ChainRec
    <2>4. filled.chains = [g.chains EXCEPT ![k] = d] /\ filled.total = g.total + room
          /\ filled.lwd = g.lwd /\ filled.bad = g.bad /\ filled.frozen = g.frozen
      BY <1>4 DEF BufferRec, c, x
    <2> HIDE DEF d
    <2>5. d \in Chain(B)
      <3>1. Len(x) <= Space(c) /\ c \in Chain(B)
        BY <1>4, <1>5, <2>2 DEF room
      <3> QED BY <2>2, <2>3, <3>1, ChainGrown, Zenon
    <2>6. filled \in BufferRec(B)
      <3>1. g.total + room \in Nat
        BY <1>4, <1>5
      <3>2. [g.chains EXCEPT ![k] = d] \in Seq(Chain(B))
        BY <1>4, <2>5 DEF k
      <3> QED BY <1>4, <2>4, <3>1, <3>2, Zenon DEF BufferRec
    <2> HIDE DEF filled
    <2>7. /\ filled \in Buffer(B) /\ filled.frozen = h.frozen
          /\ Contents(filled.chains) = Contents(h.chains) \o x
          /\ Len(filled.chains) = k /\ filled.lwd = k
      BY <1>6, <2>2, <2>3, <2>4, <2>5, <2>6, Zenon
    <2>8. /\ new \in Chain(B) /\ new.data = y
      <3>1. m \in Nat /\ n <= m
        BY <1>2, <1>5
      <3>2. Len(y) <= m
        BY <1>2, <1>5, <2>1, <2>2, <3>1
      <3> HIDE DEF m
      <3> QED BY <2>2, <3>1, <3>2, NewChainFacts, Zenon DEF y
    <2> HIDE DEF new
    <2>9. Tight(filled)
      BY <1>4, <2>7 DEF Tight
    <2>10. Inserted(B, filled, new, Insert(filled, new))
      BY ONLY <2>7, <2>8, <2>9, InsertFacts
    <2>11. /\ Insert(filled, new) \in Buffer(B) /\ Insert(filled, new).frozen = h.frozen
           /\ Contents(Insert(filled, new).chains) = (Contents(h.chains) \o x) \o y
      BY <2>7, <2>8, <2>10, Zenon DEF Inserted
    <2>12. (Contents(h.chains) \o x) \o y = Contents(h.chains) \o s
      <3>1. Contents(h.chains) \in Seq(B)
        BY BufferFacts, Zenon
      <3> DEFINE w == Contents(h.chains)
      <3>2. w \in Seq(B) /\ x \in Seq(B) /\ y \in Seq(B)
        BY <2>2, <3>1
      <3> HIDE DEF w
      <3>3. (w \o x) \o y = w \o (x \o y)
        BY ONLY <3>2, ConcatAssociative
      <3> QED BY <2>2, <3>3, Zenon DEF w
    <2>13. Put(h, s) = Insert(filled, new)
      BY <1>1, <1>10
    <2> QED BY <2>11, <2>12, <2>13, Zenon
  <1> QED BY <1>8, <1>9, <1>10

\* ds is cs with the chain c in front.
Headed(B, c, cs, ds) ==
    /\ ds \in Seq(Chain(B)) /\ Len(ds) = Len(cs) + 1 /\ ds[1] = c
    /\ \A i \in 1..Len(cs) : ds[i + 1] = cs[i]
    /\ Contents(ds) = c.data \o Contents(cs)

\* A chain put in front of the others puts its data in front of their bytes.
LEMMA ContentsFront ==
    ASSUME NEW B, NEW cs \in Seq(Chain(B)), NEW c \in Chain(B)
    PROVE  Headed(B, c, cs, << c >> \o cs)
  <1>1. << c >> \in Seq(Chain(B)) /\ Len(<< c >>) = 1 /\ << c >>[1] = c
    OBVIOUS
  <1> DEFINE one == << c >>
  <1>2. one \in Seq(Chain(B)) /\ Len(one) = 1 /\ one[1] = c
    BY <1>1
  <1>3. Contents(one) = c.data
    BY ContentsAppend
  <1> HIDE DEF one
  <1>4. Contents(one \o cs) = Contents(one) \o Contents(cs)
    BY <1>2, ContentsConcat
  <1>5. Contents(one \o cs) = c.data \o Contents(cs)
    BY <1>3, <1>4, Zenon
  <1>6. /\ one \o cs \in Seq(Chain(B)) /\ Len(one \o cs) = Len(cs) + 1
        /\ (one \o cs)[1] = c
        /\ \A i \in 1..Len(cs) : (one \o cs)[i + 1] = cs[i]
    <2>1. Len(cs) \in Nat
      OBVIOUS
    <2>2. one \o cs \in Seq(Chain(B)) /\ Len(one \o cs) = Len(one) + Len(cs)
      BY <1>2, ConcatProperties
    <2>3. \A i \in 1..(Len(one) + Len(cs)) :
            (one \o cs)[i] = IF i <= Len(one) THEN one[i] ELSE cs[i - Len(one)]
      BY <1>2, ConcatProperties, Zenon
    <2> QED BY <1>2, <2>1, <2>2, <2>3
  <1> QED BY <1>5, <1>6, Zenon DEF one, Headed

\* A chain made for its data.
LEMMA HoldingFacts ==
    ASSUME NEW B, NEW s \in Seq(B)
    PROVE  /\ Holding(s) \in Chain(B) /\ Holding(s).data = s
           /\ Holding(s).size = NewSize(Len(s)) /\ ~Holding(s).fixed
  <1> DEFINE n == Len(s)
  <1>1. n \in Nat /\ Len(s) <= n
    OBVIOUS
  <1>2. Holding(s) = [NewChain(n) EXCEPT !.data = s]
    BY DEF Holding
  <1> HIDE DEF n
  <1> QED BY <1>1, <1>2, NewChainFacts DEF n

\* evbuffer_prepend puts the bytes at the front.
LEMMA PutFirstFacts ==
    ASSUME NEW B, NEW h \in Buffer(B), NEW s \in Seq(B), s # << >>
    PROVE  /\ PutFirst(h, s) \in Buffer(B) /\ PutFirst(h, s).frozen = h.frozen
           /\ Contents(PutFirst(h, s).chains) = s \o Contents(h.chains)
  <1> DEFINE n == Len(s)
             g == Started(h, n)
             c == g.chains[1]
             gap == IF c.fixed THEN 0 ELSE IF c.data = << >> THEN c.size ELSE c.mis
             fit == IF gap >= n THEN n ELSE gap
             y == SubSeq(s, n - fit + 1, n)
             x == SubSeq(s, 1, n - fit)
             into == IF c.fixed THEN c
                     ELSE [c EXCEPT !.mis = gap - fit, !.data = y \o @]
             front == [Holding(x) EXCEPT !.mis = NewSize(Len(x)) - Len(x)]
             put == [g EXCEPT !.chains[1] = into, !.total = @ + n]
             both == [put EXCEPT !.chains = << front >> \o @, !.lwd = @ + 1]
  <1>1. PutFirst(h, s) = IF fit = n THEN put ELSE both
    BY DEF PutFirst, Started
  <1>2. n \in Nat /\ n > 0
    BY EmptySeq
  <1>3. /\ g \in Buffer(B) /\ g.frozen = h.frozen
        /\ Contents(g.chains) = Contents(h.chains) /\ Len(g.chains) >= 1
    <2>1. IsStarted(B, h, Started(h, n))
      BY <1>2, StartedFacts
    <2> QED BY <2>1 DEF IsStarted
  <1> HIDE DEF g
  <1>4. /\ g \in BufferRec(B) /\ g.chains \in Seq(Chain(B)) /\ g.total \in Nat
        /\ g.bad = FALSE /\ g.lwd \in Nat /\ g.lwd >= 1
        /\ g.total = Len(Contents(g.chains)) /\ Contents(g.chains) \in Seq(B)
        /\ 1 \in 1..Len(g.chains) /\ Len(g.chains) \in Nat
        /\ g.frozen \in SUBSET {"start", "end"}
    <2>1. /\ g \in BufferRec(B) /\ g.chains \in Seq(Chain(B)) /\ g.total \in Nat
          /\ g.bad = FALSE /\ g.lwd \in Nat /\ g.lwd >= 1
      BY <1>3, BufferFacts, Zenon
    <2>2. /\ g.total = Len(Contents(g.chains)) /\ Contents(g.chains) \in Seq(B)
          /\ Len(g.chains) \in Nat /\ g.frozen \in SUBSET {"start", "end"}
      BY <1>3, BufferFacts, Zenon
    <2> QED BY <1>3, <2>1, <2>2
  <1>5. /\ g.lwd \in 1..Len(g.chains)
        /\ \A i \in (g.lwd + 1)..Len(g.chains) : g.chains[i].data = << >>
        /\ g.lwd > 1 => g.chains[g.lwd].data # << >>
    <2>1. g.chains # << >>
      BY <1>3, EmptySeq
    <2> QED BY <1>3, <2>1, BufferFacts, Zenon
  <1>6. c \in Chain(B) /\ c \in ChainRec(B)
    BY <1>4 DEF Chain
  <1> HIDE DEF c
  <1>7. /\ c.size \in Nat /\ c.size > 0 /\ c.mis \in Nat /\ c.data \in Seq(B)
        /\ c.fixed \in BOOLEAN /\ Len(c.data) \in Nat
        /\ c.mis + Len(c.data) <= c.size
        /\ c.data = << >> => ~c.fixed
        /\ c.data = << >> => Len(c.data) = 0
    BY <1>6, ChainFacts
  <1>8. /\ gap \in Nat /\ fit \in Nat /\ fit <= n /\ fit <= gap
        /\ fit = n \/ fit = gap
        /\ c.data = << >> => fit > 0
        /\ ~c.fixed => gap + Len(c.data) <= c.size
        /\ c.fixed => fit = 0
    BY <1>2, <1>7
  <1> HIDE DEF gap, fit
  <1>9. /\ x \in Seq(B) /\ y \in Seq(B) /\ Len(x) = n - fit /\ Len(y) = fit
        /\ x \o y = s
    <2>1. n = Len(s) /\ n \in Nat /\ fit \in Nat /\ s \in Seq(B) /\ fit <= n
          /\ n - fit \in Nat
      BY <1>2, <1>8
    <2> DEFINE k == n - fit
    <2>2. k \in Nat /\ k <= n
      BY <2>1
    <2> HIDE DEF k
    <2>3. /\ 1 \in 1..(Len(s) + 1) /\ k \in (1 - 1)..Len(s) /\ Len(s) \in k..Len(s)
      BY <2>1, <2>2
    <2>4. SubSeq(s, 1, k) \o SubSeq(s, k + 1, Len(s)) = SubSeq(s, 1, Len(s))
      BY <2>3, ConcatAdjacentSubSeq, Zenon
    <2>5. SubSeq(s, 1, Len(s)) = s
      BY SubSeqFull
    <2>6. /\ SubSeq(s, 1, k) \in Seq(B) /\ SubSeq(s, k + 1, n) \in Seq(B)
          /\ Len(SubSeq(s, 1, k)) = k /\ Len(SubSeq(s, k + 1, n)) = n - k
      BY <2>1, <2>2
    <2>7. n - k = fit
      BY <2>1 DEF k
    <2> QED BY <2>1, <2>4, <2>5, <2>6, <2>7, Zenon DEF k
  <1> HIDE DEF n, x, y
  <1>10. into \in Chain(B) /\ into.data = y \o c.data /\ (c.data = << >> => into.data # << >>)
    <2>1. CASE c.fixed
      <3>1. Len(y) = 0
        BY <1>8, <1>9, <2>1
      <3>2. y = << >>
        BY <1>9, <3>1, EmptySeq
      <3>3. << >> \o c.data = c.data
        BY <1>7, ConcatEmptySeq
      <3>4. into = c
        BY <2>1
      <3> HIDE DEF into
      <3> QED BY <1>6, <1>7, <2>1, <3>2, <3>3, <3>4
    <2>2. CASE ~c.fixed
      <3> DEFINE d == [c EXCEPT !.mis = gap - fit, !.data = y \o @]
      <3>0. y \o c.data \in Seq(B) /\ gap - fit \in Nat
        BY <1>7, <1>8, <1>9, ConcatProperties
      <3>1. /\ d.size = c.size /\ d.fixed = c.fixed /\ d.data = y \o c.data
            /\ d.mis = gap - fit /\ d \in ChainRec(B)
        BY <1>6, <3>0, Zenon DEF ChainRec
      <3>2. into = d
        BY <2>2
      <3> HIDE DEF d, into
      <3>3. Len(y \o c.data) = Len(y) + Len(c.data)
            /\ (y \o c.data = << >> => y = << >> /\ c.data = << >>)
        <4> DEFINE e == c.data
        <4>1. y \in Seq(B) /\ e \in Seq(B)
          BY <1>7, <1>9
        <4> HIDE DEF e
        <4>2. Len(y \o e) = Len(y) + Len(e)
          BY ONLY <4>1, ConcatProperties
        <4>3. y \o e = << >> => y = << >> /\ e = << >>
          BY ONLY <4>1, ConcatEqualIffEmpty
        <4> QED BY <4>2, <4>3 DEF e
      <3>4. d.mis + Len(d.data) <= d.size
        BY <1>7, <1>8, <1>9, <2>2, <3>1, <3>3
      <3>5. d.data # << >>  \/ (d.mis = 0 /\ c.data # << >>)
        <4>1. y = << >> => fit = 0
          BY <1>9
        <4> QED BY <1>8, <3>1, <3>3, <4>1
      <3>6. d.data # << >>
        BY <1>8, <1>9, <3>1, <3>3, <3>5
      <3>7. d \in Chain(B)
        BY <2>2, <3>1, <3>4, <3>6, Zenon DEF Chain
      <3> QED BY <3>1, <3>2, <3>6, <3>7
    <2> QED BY <1>7, <2>1, <2>2, Zenon
  <1> HIDE DEF into
  <1>11. /\ put.chains = [g.chains EXCEPT ![1] = into] /\ put.total = g.total + n
         /\ put.lwd = g.lwd /\ put.bad = g.bad /\ put.frozen = g.frozen
    BY <1>4 DEF BufferRec
  <1>12. /\ put.chains \in Seq(Chain(B)) /\ Len(put.chains) = Len(g.chains)
         /\ put.chains[1] = into
         /\ \A i \in 1..Len(g.chains) : i # 1 => put.chains[i] = g.chains[i]
    BY ONLY <1>4, <1>10, <1>11
  <1>13. put \in BufferRec(B)
    <2>1. g.total + n \in Nat
      BY <1>2, <1>4
    <2>2. [g.chains EXCEPT ![1] = into] \in Seq(Chain(B))
      BY <1>11, <1>12
    <2> QED BY <1>4, <2>1, <2>2, Zenon DEF BufferRec
  <1> HIDE DEF put
  <1>14. /\ Contents(put.chains) = y \o Contents(g.chains)
         /\ Len(Contents(put.chains)) = Len(Contents(g.chains)) + Len(y)
    <2>1. /\ \A i \in 1..Len(g.chains) : i # 1 => put.chains[i].data = g.chains[i].data
          /\ put.chains[1].data = y \o g.chains[1].data
      BY <1>10, <1>12 DEF c
    <2> QED BY ONLY <1>4, <1>9, <1>12, <2>1, ContentsGrownFirst, Zenon
  <1>15. \A i \in (g.lwd + 1)..Len(put.chains) : put.chains[i].data = << >>
    <2>1. \A i \in (g.lwd + 1)..Len(g.chains) : i \in 1..Len(g.chains) /\ i # 1
      BY <1>4
    <2> QED BY <1>5, <1>12, <2>1
  <1>16. CASE fit = n
    <2>1. x = << >>
      BY <1>9, <1>16, <1>2, EmptySeq
    <2>2. y = s
      BY <1>9, <2>1, ConcatEmptySeq
    <2>3. put \in Buffer(B)
      <3>1. ~put.bad /\ put.total = Len(Contents(put.chains))
        BY <1>4, <1>9, <1>11, <1>14, <1>16
      <3>2. put.lwd = 1 \/ (put.lwd \in 1..Len(put.chains) /\ put.chains[put.lwd].data # << >>)
        <4>1. g.lwd # 1 => put.chains[g.lwd] = g.chains[g.lwd] /\ g.lwd > 1
          BY <1>4, <1>5, <1>12
        <4> QED BY <1>5, <1>11, <1>12, <4>1
      <3> QED BY <1>11, <1>13, <1>15, <3>1, <3>2, BufferIs, Zenon
    <2>4. Contents(put.chains) = s \o Contents(h.chains)
      BY <1>3, <1>14, <2>2, Zenon
    <2> QED BY <1>1, <1>3, <1>11, <1>16, <2>3, <2>4, Zenon
  <1>17. CASE fit # n
    <2>1. front \in Chain(B) /\ front.data = x
      <3> DEFINE l == Len(x)
      <3>1. l \in Nat /\ l > 0 /\ x # << >>
        BY <1>2, <1>8, <1>9, <1>17
      <3>2. NewSize(l) \in Nat /\ NewSize(l) >= l
        BY <3>1, SizeFacts
      <3>3. /\ Holding(x) \in Chain(B) /\ Holding(x).data = x
            /\ Holding(x).size = NewSize(l) /\ ~Holding(x).fixed
        BY <1>9, <3>1, HoldingFacts
      <3> DEFINE a == Holding(x)
      <3>4. a \in ChainRec(B)
        BY <3>3 DEF Chain
      <3> HIDE DEF a, l
      <3>5. /\ front.data = x /\ front.mis = NewSize(l) - l /\ front.fixed = a.fixed
            /\ front.size = NewSize(l) /\ front \in ChainRec(B)
        <4>1. NewSize(l) - l \in Nat
          BY <3>1, <3>2
        <4> QED BY <3>3, <3>4, <4>1 DEF ChainRec, a, l
      <3>6. front.mis + Len(front.data) <= front.size
        BY <3>1, <3>2, <3>5 DEF l
      <3> HIDE DEF front
      <3>7. front \in Chain(B)
        BY <3>1, <3>3, <3>5, <3>6 DEF Chain, a
      <3> QED BY <3>5, <3>7
    <2> HIDE DEF front
    <2>2. /\ both.chains = << front >> \o put.chains /\ both.total = g.total + n
          /\ both.lwd = g.lwd + 1 /\ both.bad = g.bad /\ both.frozen = g.frozen
      BY <1>11, <1>13 DEF BufferRec
    <2>3. /\ both.chains \in Seq(Chain(B)) /\ Len(both.chains) = Len(put.chains) + 1
          /\ \A i \in 1..Len(put.chains) : both.chains[i + 1] = put.chains[i]
          /\ Contents(both.chains) = x \o Contents(put.chains)
      <3> DEFINE cs == put.chains
                 ds == << front >> \o cs
      <3>1. cs \in Seq(Chain(B)) /\ front \in Chain(B)
        BY <1>12, <2>1
      <3> HIDE DEF cs
      <3>2. Headed(B, front, cs, ds)
        BY ONLY <3>1, ContentsFront
      <3>3. both.chains = ds
        BY <2>2 DEF cs
      <3> HIDE DEF ds, both
      <3> QED BY <2>1, <3>2, <3>3 DEF cs, Headed
    <2>4. both \in BufferRec(B)
      <3>1. g.lwd + 1 \in Nat
        BY <1>4
      <3>2. << front >> \o put.chains \in Seq(Chain(B))
        BY <2>2, <2>3
      <3> QED BY <1>11, <1>13, <3>1, <3>2, Zenon DEF BufferRec
    <2> HIDE DEF both
    <2>5. Contents(both.chains) = s \o Contents(h.chains)
      <3> DEFINE w == Contents(h.chains)
      <3>1. w \in Seq(B) /\ x \in Seq(B) /\ y \in Seq(B)
        BY <1>3, <1>4, <1>9
      <3>2. Contents(both.chains) = x \o (y \o w)
        BY <1>3, <1>14, <2>3
      <3> HIDE DEF w
      <3>3. (x \o y) \o w = x \o (y \o w)
        BY ONLY <3>1, ConcatAssociative
      <3> QED BY <1>9, <3>2, <3>3, Zenon DEF w
    <2>6. both.total = Len(Contents(both.chains))
      <3> DEFINE w == Contents(put.chains)
      <3>1. w \in Seq(B) /\ x \in Seq(B)
        BY <1>9, <1>12, ContentsConcat
      <3>2. Contents(both.chains) = x \o w /\ Len(w) = Len(Contents(g.chains)) + Len(y)
        BY <1>14, <2>3
      <3> HIDE DEF w
      <3>3. Len(x \o w) = Len(x) + Len(w)
        BY ONLY <3>1, ConcatProperties
      <3>4. Len(Contents(both.chains)) = Len(x) + Len(w)
        BY <3>2, <3>3, Zenon
      <3> QED BY <1>2, <1>4, <1>8, <1>9, <2>2, <3>2, <3>4
    <2>7. \A i \in (both.lwd + 1)..Len(both.chains) : both.chains[i].data = << >>
      <3> SUFFICES ASSUME NEW i \in (both.lwd + 1)..Len(both.chains)
                   PROVE  both.chains[i].data = << >>
        OBVIOUS
      <3> DEFINE j == i - 1
      <3>1. j \in (g.lwd + 1)..Len(put.chains) /\ j \in 1..Len(put.chains) /\ i = j + 1
        BY <1>4, <1>12, <2>2, <2>3
      <3> HIDE DEF j
      <3> QED BY <1>15, <2>3, <3>1, Zenon
    <2>8. both.lwd \in 1..Len(both.chains) /\ both.chains[both.lwd].data # << >>
      <3>1. g.lwd \in 1..Len(put.chains) /\ g.lwd + 1 \in 1..Len(both.chains)
        BY <1>4, <1>5, <1>12, <2>3
      <3>2. both.chains[g.lwd + 1] = put.chains[g.lwd]
        BY <2>3, <3>1, Zenon
      <3>3. put.chains[g.lwd].data # << >>
        <4>1. CASE g.lwd = 1
          <5>1. into.data # << >>
            BY <1>7, <1>9, <1>10, ConcatEqualIffEmpty
          <5> QED BY <1>12, <4>1, <5>1
        <4>2. CASE g.lwd > 1
          BY <1>4, <1>5, <1>12, <4>2
        <4> QED BY <1>4, <4>1, <4>2
      <3> QED BY <2>2, <3>1, <3>2, <3>3, Zenon
    <2>9. both \in Buffer(B)
      BY <1>4, <2>2, <2>4, <2>6, <2>7, <2>8, BufferIs, Zenon
    <2> QED BY <1>1, <1>3, <1>17, <2>2, <2>5, <2>9, Zenon
  <1> QED BY <1>16, <1>17

\* How many whole chains hold n bytes at most; the next is used in part.
IsWhole(cs, n, k) ==
    /\ k \in 0..Len(cs) /\ Len(Contents(Upto(cs, k))) <= n
    /\ k < Len(cs) => Len(Contents(Upto(cs, k + 1))) > n

\* Whole finds that number.
LEMMA WholeFacts ==
    ASSUME NEW B, NEW cs \in Seq(Chain(B)), NEW n \in Nat
    PROVE  IsWhole(cs, n, Whole(cs, n))
  <1> DEFINE L(j) == Len(Contents(Upto(cs, j)))
             S == {j \in 0..Len(cs) : L(j) > n}
  <1>1. Len(cs) \in Nat
    OBVIOUS
  <1>2. L(0) = 0
    <2>1. 0 \in 0..Len(cs)
      BY <1>1
    <2>2. Upto(cs, 0) = << >>
      BY <2>1, SplitAt, Zenon
    <2>3. Contents(<< >>) = << >>
      BY DEF Contents, FlattenSeq
    <2>4. Len(<< >>) = 0
      OBVIOUS
    <2> QED BY <2>2, <2>3, <2>4, Zenon
  <1>3. \A j \in 0..Len(cs) : L(j) \in Nat
    <2> TAKE j \in 0..Len(cs)
    <2> DEFINE u == Upto(cs, j)
    <2>1. u \in Seq(Chain(B))
      BY SplitAt, Zenon
    <2> HIDE DEF u
    <2>2. Contents(u) \in Seq(B)
      BY <2>1, ContentsConcat
    <2> QED BY <2>2 DEF u
  <1> HIDE DEF L
  <1>4. \E k \in 0..Len(cs) : L(k) <= n /\ (k < Len(cs) => L(k + 1) > n)
    <2>1. CASE S = {}
      <3>1. Len(cs) \in 0..Len(cs)
        BY <1>1
      <3>2. ~(L(Len(cs)) > n) /\ L(Len(cs)) \in Nat
        BY <1>3, <2>1, <3>1
      <3>3. L(Len(cs)) <= n
        BY <3>2
      <3> QED BY <1>1, <3>1, <3>3
    <2>2. CASE S # {}
      <3>1. S \in SUBSET Nat
        OBVIOUS
      <3> DEFINE m == Min(S)
      <3>2. m \in S /\ \A j \in S : m <= j
        <4> HIDE DEF S
        <4> QED BY <2>2, <3>1, LeastExists
      <3> HIDE DEF m
      <3>3. m \in 1..Len(cs) /\ L(m) > n
        BY <1>1, <1>2, <3>2
      <3>4. m - 1 \in 0..Len(cs) /\ m - 1 \notin S /\ (m - 1) + 1 = m
        BY <1>1, <3>2, <3>3
      <3>5. L(m - 1) <= n
        BY <1>3, <3>4
      <3> QED BY <3>3, <3>4, <3>5
    <2> QED BY <2>1, <2>2
  <1>5. Whole(cs, n) = CHOOSE k \in 0..Len(cs) : L(k) <= n /\ (k < Len(cs) => L(k + 1) > n)
    BY DEF Whole, L
  <1> QED BY <1>4, <1>5 DEF IsWhole, L

\* y is x with w behind it.
IsJoined(B, x, w, y) ==
    /\ y \in Seq(B) /\ Len(y) = Len(x) + Len(w)
    /\ \A i \in 1..Len(x) : y[i] = x[i]
    /\ \A i \in 1..Len(w) : y[Len(x) + i] = w[i]

\* \o joins two sequences so.
LEMMA Joined ==
    ASSUME NEW B, NEW x \in Seq(B), NEW w \in Seq(B)
    PROVE  IsJoined(B, x, w, x \o w)
  BY ConcatProperties DEF IsJoined

\* Three pieces without what is in the first and in part of the second.
Skips(u, d, w, o) ==
    SubSeq((u \o d) \o w, (Len(u) + o) + 1, Len((u \o d) \o w))
      = SubSeq(d, o + 1, Len(d)) \o w

\* What SubSeq leaves when the cut is in the second of three pieces.
LEMMA Skip ==
    ASSUME NEW B, NEW u \in Seq(B), NEW d \in Seq(B), NEW w \in Seq(B),
           NEW o \in 0..Len(d)
    PROVE  Skips(u, d, w, o)
  <1> DEFINE a == Len(u)
             b == Len(d)
             c == Len(w)
             s == (u \o d) \o w
             x == SubSeq(d, o + 1, b)
  <1>1. a \in Nat /\ b \in Nat /\ c \in Nat /\ o \in Nat /\ o <= b
    OBVIOUS
  <1>2. u \o d \in Seq(B) /\ Len(u \o d) = a + b
    BY ConcatProperties
  <1>3. s \in Seq(B) /\ Len(s) = (a + b) + c
    BY <1>2, ConcatProperties
  <1>4. \A i \in 1..b : (u \o d)[a + i] = d[i]
    BY ConcatProperties
  <1>5. /\ \A i \in 1..(a + b) : s[i] = (u \o d)[i]
        /\ \A i \in 1..c : s[(a + b) + i] = w[i]
    BY <1>2, ConcatProperties
  <1>6. x \in Seq(B) /\ Len(x) = b - o /\ \A i \in 1..(b - o) : x[i] = d[o + i]
    BY <1>1
  <1> HIDE DEF x
  <1>7. x \o w \in Seq(B) /\ Len(x \o w) = (b - o) + c
        /\ (\A i \in 1..(b - o) : (x \o w)[i] = x[i])
        /\ (\A i \in 1..c : (x \o w)[(b - o) + i] = w[i])
    <2>1. x \in Seq(B) /\ w \in Seq(B) /\ Len(x) = b - o /\ Len(w) = c
      BY <1>6
    <2> HIDE DEF a, b, c, s
    <2>2. IsJoined(B, x, w, x \o w)
      BY ONLY <2>1, Joined
    <2> QED BY <2>1, <2>2, Zenon DEF IsJoined
  <1> DEFINE z == SubSeq(s, (a + o) + 1, Len(s))
  <1> HIDE DEF s, a, b, c
  <1>8. z \in Seq(B) /\ Len(z) = (b - o) + c
        /\ \A i \in 1..((b - o) + c) : z[i] = s[(a + o) + i]
    BY <1>1, <1>3
  <1> HIDE DEF z
  <1>9. ASSUME NEW i \in 1..((b - o) + c)
        PROVE  z[i] = (x \o w)[i]
    <2>1. CASE i <= b - o
      <3>1. o + i \in 1..b /\ i \in 1..(b - o) /\ (a + o) + i \in 1..(a + b)
            /\ (a + o) + i = a + (o + i)
        BY <1>1, <2>1
      <3>2. s[(a + o) + i] = d[o + i]
        BY <1>4, <1>5, <3>1, Zenon
      <3> QED BY <1>6, <1>7, <1>8, <3>1, <3>2, Zenon
    <2>2. CASE i > b - o
      <3> DEFINE j == i - (b - o)
      <3>1. j \in 1..c /\ i = (b - o) + j /\ (a + o) + i = (a + b) + j
        BY <1>1, <2>2
      <3> HIDE DEF j
      <3> QED BY <1>5, <1>7, <1>8, <3>1, Zenon
    <2>3. i <= b - o \/ i > b - o
      BY <1>1
    <2> QED BY <2>1, <2>2, <2>3, Zenon
  <1>10. z = x \o w
    BY <1>7, <1>8, <1>9, SeqEqual, Zenon
  <1> QED BY <1>10, Zenon DEF z, x, s, a, b, Skips

\* The part of a sequence up to a place, and the part behind it.
IsSplit(S, s, k, u, w) ==
    /\ u \in Seq(S) /\ Len(u) = k /\ \A i \in 1..k : u[i] = s[i]
    /\ w \in Seq(S) /\ Len(w) = Len(s) - k
    /\ \A i \in 1..(Len(s) - k) : w[i] = s[k + i]
    /\ s = u \o w

\* Upto and Beyond are these parts.
LEMMA Split ==
    ASSUME NEW S, NEW s \in Seq(S), NEW k \in 0..Len(s)
    PROVE  IsSplit(S, s, k, Upto(s, k), Beyond(s, k))
  <1>1. /\ Upto(s, k) \in Seq(S) /\ Len(Upto(s, k)) = k
        /\ \A i \in 1..k : Upto(s, k)[i] = s[i]
        /\ s = Upto(s, k) \o Beyond(s, k)
    BY UptoFacts, HalvesFacts, Zenon
  <1>2. /\ Beyond(s, k) \in Seq(S) /\ Len(Beyond(s, k)) = Len(s) - k
        /\ \A i \in 1..(Len(s) - k) : Beyond(s, k)[i] = s[k + i]
    BY BeyondFacts, Zenon
  <1> QED BY <1>1, <1>2 DEF IsSplit

\* Nothing is in front of the first.
LEMMA NoneBefore ==
    ASSUME NEW S, NEW s \in Seq(S)
    PROVE  Upto(s, 0) = << >> /\ Contents(Upto(s, 0)) = << >>
  <1>1. 0 \in 0..Len(s)
    OBVIOUS
  <1>2. Upto(s, 0) = << >>
    BY <1>1, SplitAt, Zenon
  <1>3. Contents(<< >>) = << >>
    BY DEF Contents, FlattenSeq
  <1> QED BY <1>2, <1>3

\* The chains without their first n bytes.
IsCut(B, cs, n, k, ds) ==
    /\ ds \in Seq(Chain(B)) /\ Len(ds) = Len(cs) - k
    /\ Contents(ds) = SubSeq(Contents(cs), n + 1, Len(Contents(cs)))
    /\ \A i \in 2..(Len(cs) - k) : ds[i] = cs[k + i]
    /\ k < Len(cs) => ds[1].data # << >> /\ cs[k + 1].data # << >>

\* Cut takes the first n bytes from the front of the chains, as evbuffer_drain.
LEMMA CutFacts ==
    ASSUME NEW B, NEW cs \in Seq(Chain(B)), NEW n \in Nat
    PROVE  IsCut(B, cs, n, Whole(cs, n), Cut(cs, n))
  <1> DEFINE k == Whole(cs, n)
             rest == Beyond(cs, k)
             over == n - Len(Contents(Upto(cs, k)))
             ds == [rest EXCEPT ![1].mis = @ + over,
                                ![1].data = SubSeq(@, over + 1, Len(@))]
  <1>1. Cut(cs, n) = IF k = Len(cs) THEN << >> ELSE ds
    BY DEF Cut
  <1>2. /\ k \in 0..Len(cs) /\ Len(Contents(Upto(cs, k))) <= n
        /\ k < Len(cs) => Len(Contents(Upto(cs, k + 1))) > n
    BY WholeFacts DEF IsWhole
  <1> SUFFICES IsCut(B, cs, n, k, Cut(cs, n))
    OBVIOUS
  <1> HIDE DEF k
  <1>3. Len(cs) \in Nat /\ k \in Nat /\ Contents(cs) \in Seq(B)
    BY <1>2, ContentsConcat
  <1>4. CASE k = Len(cs)
    <2>1. Upto(cs, k) = cs
      BY <1>2, <1>4, SplitAt, Zenon
    <2>2. Len(Contents(cs)) <= n /\ Len(Contents(cs)) \in Nat
      BY <1>2, <1>3, <2>1
    <2>3. SubSeq(Contents(cs), n + 1, Len(Contents(cs))) = << >>
      BY <2>2, SubSeqEmpty
    <2>4. Contents(<< >>) = << >> /\ << >> \in Seq(Chain(B)) /\ Len(<< >>) = 0
      BY DEF Contents, FlattenSeq
    <2>5. Cut(cs, n) = << >>
      BY <1>1, <1>4
    <2>6. Len(cs) - k = 0 /\ ~(k < Len(cs))
      BY <1>3, <1>4
    <2>7. \A i \in 2..(Len(cs) - k) : Cut(cs, n)[i] = cs[k + i]
      BY <2>6
    <2> QED BY <2>3, <2>4, <2>5, <2>6, <2>7, Zenon DEF IsCut
  <1>5. CASE k # Len(cs)
    <2> DEFINE c == cs[k + 1]
               d == c.data
               u == Contents(Upto(cs, k))
               w == Contents(Beyond(cs, k + 1))
    <2>1. k < Len(cs) /\ k + 1 \in 1..Len(cs) /\ (k + 1) - 1 = k /\ k + 1 \in 0..Len(cs)
      BY <1>2, <1>3, <1>5
    <2>2. /\ u \in Seq(B) /\ d \in Seq(B) /\ w \in Seq(B)
          /\ Contents(Upto(cs, k + 1)) = u \o d
          /\ Contents(cs) = (u \o d) \o w
      <3> DEFINE j == k + 1
      <3>1. j \in 1..Len(cs) /\ j - 1 = k
        BY <2>1
      <3> HIDE DEF j
      <3>2. /\ Contents(Upto(cs, j - 1)) \in Seq(B) /\ cs[j].data \in Seq(B)
            /\ Contents(Beyond(cs, j)) \in Seq(B)
            /\ Contents(Upto(cs, j)) = Contents(Upto(cs, j - 1)) \o cs[j].data
            /\ Contents(cs) = (Contents(Upto(cs, j - 1)) \o cs[j].data)
                                 \o Contents(Beyond(cs, j))
        BY <3>1, ContentsAround, Zenon
      <3> QED BY <3>1, <3>2, Zenon DEF j
    <2>3. c \in Chain(B) /\ c \in ChainRec(B)
      BY <2>1 DEF Chain
    <2>4. /\ rest \in Seq(Chain(B)) /\ Len(rest) = Len(cs) - k
          /\ \A i \in 1..(Len(cs) - k) : rest[i] = cs[k + i]
      BY <1>2, SplitAt, Zenon
    <2>5. 1 \in 1..(Len(cs) - k) /\ rest[1] = c
      BY <1>3, <2>1, <2>4
    <2>6. Beyond(rest, 1) = Beyond(cs, k + 1)
      <3>1. 1 \in 0..Len(rest) /\ Len(rest) - 1 = Len(cs) - (k + 1)
        BY <1>3, <2>1, <2>4
      <3> HIDE DEF rest
      <3>2. IsSplit(Chain(B), rest, 1, Upto(rest, 1), Beyond(rest, 1))
        BY ONLY <2>4, <3>1, Split
      <3>3. /\ Beyond(cs, k + 1) \in Seq(Chain(B))
            /\ Len(Beyond(cs, k + 1)) = Len(cs) - (k + 1)
            /\ \A i \in 1..(Len(cs) - (k + 1)) : Beyond(cs, k + 1)[i] = cs[(k + 1) + i]
        BY <2>1, BeyondFacts, Zenon
      <3>4. \A i \in 1..(Len(rest) - 1) : rest[1 + i] = cs[(k + 1) + i]
        <4> TAKE i \in 1..(Len(rest) - 1)
        <4>1. 1 + i \in 1..(Len(cs) - k) /\ k + (1 + i) = (k + 1) + i
          BY <1>3, <2>4
        <4> QED BY <2>4, <4>1
      <3> DEFINE a == Beyond(rest, 1)
                 b == Beyond(cs, k + 1)
      <3> HIDE DEF a, b
      <3>5. a \in Seq(Chain(B)) /\ b \in Seq(Chain(B)) /\ Len(a) = Len(b)
            /\ \A i \in 1..Len(a) : a[i] = b[i]
        BY <3>1, <3>2, <3>3, <3>4, Zenon DEF a, b, IsSplit
      <3>6. a = b
        BY ONLY <3>5, SeqEqual
      <3> QED BY <3>6 DEF a, b
    <2>7. /\ over \in Nat /\ over < Len(d) /\ n = Len(u) + over /\ Len(d) \in Nat
          /\ d # << >>
      <3>1. Len(u) \in Nat /\ Len(d) \in Nat /\ Len(u) <= n
        BY <1>2, <2>2
      <3>2. Len(u) + Len(d) > n
        <4>1. Len(u \o d) > n
          BY <1>2, <2>1, <2>2
        <4>2. IsJoined(B, u, d, u \o d)
          BY <2>2, Joined
        <4> QED BY <4>1, <4>2 DEF IsJoined
      <3>3. over = n - Len(u)
        OBVIOUS
      <3> HIDE DEF over, d, u
      <3>4. d # << >>
        BY <3>1, <3>2
      <3> QED BY <3>1, <3>2, <3>3, <3>4
    <2> HIDE DEF over, rest
    <2> DEFINE x == SubSeq(d, over + 1, Len(d))
               e == [c EXCEPT !.mis = @ + over, !.data = SubSeq(@, over + 1, Len(@))]
    <2>8. x \in Seq(B) /\ Len(x) = Len(d) - over /\ x # << >>
      <3> HIDE DEF d
      <3>1. x \in Seq(B) /\ Len(x) = Len(d) - over
        BY <2>2, <2>7
      <3>2. Len(d) - over # 0
        BY <2>7
      <3> QED BY <3>1, <3>2, Zenon
    <2>9. e \in Chain(B) /\ e.data = x
      <3>1. /\ c.size \in Nat /\ c.mis \in Nat /\ c.mis + Len(d) <= c.size
            /\ c.fixed \in BOOLEAN
            /\ c.fixed => c.mis + Len(d) = c.size
        BY <2>3, ChainFacts
      <3>2. c.mis + over \in Nat
        BY <2>7, <3>1
      <3> HIDE DEF x, c
      <3>3. /\ e.size = c.size /\ e.fixed = c.fixed /\ e.data = x
            /\ e.mis = c.mis + over /\ e \in ChainRec(B)
        BY <2>3, <2>8, <3>2, Zenon DEF ChainRec, x
      <3> HIDE DEF e, d
      <3>4. e.mis + Len(e.data) = c.mis + Len(d)
        <4>1. /\ e.mis = c.mis + over /\ Len(e.data) = Len(d) - over
              /\ c.mis \in Nat /\ over \in Nat /\ Len(d) \in Nat
          BY <2>7, <2>8, <3>1, <3>3
        <4> QED BY ONLY <4>1
      <3> QED BY <2>8, <3>1, <3>3, <3>4 DEF Chain
    <2>10. ds = [rest EXCEPT ![1] = e]
      BY <2>4, <2>5, Zenon
    <2>11. /\ ds \in Seq(Chain(B)) /\ Len(ds) = Len(rest) /\ ds[1] = e
           /\ \A i \in 1..Len(rest) : i # 1 => ds[i] = rest[i]
      <3> HIDE DEF e, ds
      <3> QED BY ONLY <2>4, <2>5, <2>9, <2>10
    <2> HIDE DEF e, ds
    <2>12. Contents(ds) = x \o w
      <3>1. 1 \in 1..Len(rest) /\ Len(ds) = Len(rest)
            /\ \A i \in 1..Len(rest) : i # 1 => ds[i].data = rest[i].data
        BY <2>4, <2>5, <2>11
      <3>2. Contents(ds) = (Contents(Upto(rest, 1 - 1)) \o ds[1].data)
                             \o Contents(Beyond(rest, 1))
        BY <2>4, <2>11, <3>1, ContentsReplaced, Zenon
      <3>3. 1 - 1 = 0
        OBVIOUS
      <3>4. Contents(Upto(rest, 0)) = << >>
        BY <2>4, NoneBefore
      <3>5. << >> \o x = x
        BY <2>8, ConcatEmptySeq
      <3> HIDE DEF x
      <3> QED BY <2>6, <2>9, <2>11, <3>2, <3>3, <3>4, <3>5, Zenon
    <2>13. SubSeq(Contents(cs), n + 1, Len(Contents(cs))) = x \o w
      <3>1. over \in 0..Len(d)
        BY <2>7
      <3> HIDE DEF u, d, w
      <3>2. Skips(u, d, w, over)
        <4>1. u \in Seq(B) /\ d \in Seq(B) /\ w \in Seq(B)
          BY <2>2
        <4> QED BY ONLY <3>1, <4>1, Skip
      <3> QED BY <2>2, <2>7, <3>2, Zenon DEF Skips
    <2>14. \A i \in 2..(Len(cs) - k) : ds[i] = cs[k + i]
      <3> TAKE i \in 2..(Len(cs) - k)
      <3>1. i \in 1..(Len(cs) - k) /\ i # 1
        BY <1>3
      <3> QED BY <2>4, <2>11, <3>1
    <2>15. Cut(cs, n) = ds
      BY <1>1, <1>5
    <2>16. ds[1].data # << >> /\ cs[k + 1].data # << >>
      BY <2>7, <2>8, <2>9, <2>11
    <2> HIDE DEF c, u, w, x
    <2> QED BY <2>4, <2>11, <2>12, <2>13, <2>14, <2>15, <2>16, Zenon DEF IsCut
  <1> QED BY <1>4, <1>5

\* A buffer without chains.
LEMMA NoChains ==
    ASSUME NEW B, NEW r \in BufferRec(B), r.chains = << >>, r.lwd = 1, r.total = 0, ~r.bad
    PROVE  r \in Buffer(B) /\ Contents(r.chains) = << >> /\ Len(r.chains) = 0
  <1>1. Contents(<< >>) = << >>
    BY DEF Contents, FlattenSeq
  <1>2. Len(<< >>) = 0
    OBVIOUS
  <1>3. r.total = Len(Contents(r.chains))
    BY <1>1, <1>2
  <1>4. \A i \in (r.lwd + 1)..Len(r.chains) : r.chains[i].data = << >>
    BY <1>2
  <1>5. r \in Buffer(B)
    BY <1>3, <1>4, BufferIs
  <1> QED BY <1>1, <1>2, <1>5

\* r is h without its first n bytes.
IsDropped(B, h, n, r) ==
    /\ r \in Buffer(B) /\ r.frozen = h.frozen /\ Len(r.chains) <= Len(h.chains)
    /\ Contents(r.chains)
         = SubSeq(Contents(h.chains), n + 1, Len(Contents(h.chains)))

\* evbuffer_drain takes bytes from the front.
LEMMA DropFacts ==
    ASSUME NEW B, NEW h \in Buffer(B), NEW n \in Nat
    PROVE  IsDropped(B, h, n, Drop(h, n))
  <1> DEFINE cs == h.chains
             C == Contents(cs)
             k == Whole(cs, n)
             ds == Cut(cs, n)
             l == IF h.lwd <= k + 1 THEN 1 ELSE h.lwd - k
             none == [h EXCEPT !.chains = << >>, !.lwd = 1, !.total = 0]
             some == [h EXCEPT !.chains = Cut(@, n), !.total = @ - n,
                               !.lwd = IF @ <= k + 1 THEN 1 ELSE @ - k]
  <1>1. Drop(h, n) = IF n >= h.total THEN none ELSE some
    BY DEF Drop
  <1>2. /\ h \in BufferRec(B) /\ cs \in Seq(Chain(B)) /\ h.bad = FALSE
        /\ h.lwd \in Nat /\ h.total \in Nat /\ Len(cs) \in Nat
    BY BufferFacts, Zenon
  <1>3. h.total = Len(C) /\ C \in Seq(B) /\ h.lwd >= 1
    BY BufferFacts, Zenon
  <1>4. /\ \A i \in (h.lwd + 1)..Len(cs) : cs[i].data = << >>
        /\ h.lwd > 1 => cs[h.lwd].data # << >>
        /\ cs # << >> => h.lwd \in 1..Len(cs)
    BY BufferFacts, Zenon
  <1>5. CASE n >= h.total
    <2>1. /\ none \in BufferRec(B) /\ none.chains = << >> /\ none.lwd = 1
          /\ none.total = 0 /\ none.bad = h.bad /\ none.frozen = h.frozen
      <3>1. << >> \in Seq(Chain(B)) /\ 0 \in Nat /\ 1 \in Nat
        OBVIOUS
      <3> QED BY <1>2, <3>1, Zenon DEF BufferRec
    <2> HIDE DEF none
    <2>2. none \in Buffer(B) /\ Contents(none.chains) = << >> /\ Len(none.chains) = 0
      BY <1>2, <2>1, NoChains
    <2>3. SubSeq(C, n + 1, Len(C)) = << >>
      BY <1>3, <1>5, SubSeqEmpty
    <2>4. Drop(h, n) = none /\ 0 <= Len(cs)
      BY <1>1, <1>2, <1>5
    <2>5. IsDropped(B, h, n, none)
      BY <2>1, <2>2, <2>3, <2>4, Zenon DEF IsDropped
    <2> QED BY <2>4, <2>5
  <1>6. CASE n < h.total
    <2>1. IsWhole(cs, n, k)
      BY <1>2, WholeFacts
    <2>2. IsCut(B, cs, n, k, ds)
      BY <1>2, CutFacts
    <2> HIDE DEF k, ds
    <2>3. k \in 0..Len(cs) /\ k < Len(cs)
      <3>1. k \in 0..Len(cs) /\ Len(Contents(Upto(cs, k))) <= n
        BY <2>1 DEF IsWhole
      <3>2. Upto(cs, Len(cs)) = cs
        <4>1. Len(cs) \in 0..Len(cs)
          BY <1>2
        <4> QED BY <1>2, <4>1, SplitAt, Zenon
      <3>3. k # Len(cs)
        BY <1>2, <1>3, <1>6, <3>1, <3>2
      <3> QED BY <1>2, <3>1, <3>3
    <2>4. /\ ds \in Seq(Chain(B)) /\ Len(ds) = Len(cs) - k
          /\ Contents(ds) = SubSeq(C, n + 1, Len(C))
          /\ \A i \in 2..(Len(cs) - k) : ds[i] = cs[k + i]
          /\ ds[1].data # << >> /\ cs[k + 1].data # << >>
      BY <2>2, <2>3 DEF IsCut
    <2>5. h.lwd >= k + 1
      <3>1. h.lwd < k + 1 => k + 1 \in (h.lwd + 1)..Len(cs)
        BY <1>2, <2>3
      <3> QED BY <1>2, <1>4, <2>3, <2>4, <3>1
    <2>6. /\ some.chains = ds /\ some.total = h.total - n /\ some.lwd = l
          /\ some.bad = h.bad /\ some.frozen = h.frozen /\ some \in BufferRec(B)
      <3>1. h.total - n \in Nat /\ l \in Nat
        BY <1>2, <1>6, <2>3, <2>5
      <3> QED BY <1>2, <2>4, <3>1, Zenon DEF BufferRec, ds
    <2> HIDE DEF some
    <2>7. Len(Contents(ds)) = h.total - n
      <3>1. n + 1 \in 1..(Len(C) + 1) /\ Len(C) \in Nat
        BY <1>2, <1>3, <1>6
      <3>2. Len(SubSeq(C, n + 1, Len(C))) = Len(C) - n
        BY <1>3, <3>1
      <3> QED BY <1>3, <2>4, <3>2
    <2>8. \A i \in (l + 1)..Len(ds) : ds[i].data = << >>
      <3> TAKE i \in (l + 1)..Len(ds)
      <3>1. i \in 2..(Len(cs) - k) /\ k + i \in (h.lwd + 1)..Len(cs)
        <4>1. /\ h.lwd \in Nat /\ Len(cs) \in Nat /\ k \in 0..Len(cs)
              /\ Len(ds) = Len(cs) - k /\ i \in (l + 1)..Len(ds)
          BY <1>2, <2>3, <2>4
        <4> QED BY ONLY <2>5, <4>1
      <3> QED BY <1>4, <2>4, <3>1, Zenon
    <2>9. l = 1 \/ (l \in 1..Len(ds) /\ ds[l].data # << >>)
      <3> SUFFICES ASSUME l # 1 PROVE l \in 1..Len(ds) /\ ds[l].data # << >>
        OBVIOUS
      <3>1. cs # << >>
        BY <1>2, <2>3
      <3>2. h.lwd > k + 1 /\ l = h.lwd - k /\ h.lwd \in 1..Len(cs) /\ h.lwd > 1
        BY <1>2, <1>4, <2>3, <3>1
      <3>3. l \in 2..(Len(cs) - k) /\ k + l = h.lwd
        BY <1>2, <2>3, <3>2
      <3> QED BY <1>4, <2>4, <3>2, <3>3
    <2> HIDE DEF l
    <2>10. some \in Buffer(B)
      BY <1>2, <2>6, <2>7, <2>8, <2>9, BufferIs, Zenon
    <2>11. Drop(h, n) = some
      BY <1>1, <1>2, <1>6
    <2>12. Len(ds) <= Len(cs)
      BY <1>2, <2>3, <2>4
    <2> QED BY <2>4, <2>6, <2>10, <2>11, <2>12 DEF IsDropped
  <1> QED BY <1>2, <1>5, <1>6

\* Two pieces without what is in the first and in part of the second.
SkipsOne(u, d, o) ==
    SubSeq(u \o d, (Len(u) + o) + 1, Len(u \o d)) = SubSeq(d, o + 1, Len(d))

\* What SubSeq leaves when the cut is in the second of two pieces.
LEMMA SkipOne ==
    ASSUME NEW B, NEW u \in Seq(B), NEW d \in Seq(B), NEW o \in 0..Len(d)
    PROVE  SkipsOne(u, d, o)
  <1>1. << >> \in Seq(B)
    BY EmptySeq
  <1> DEFINE w == << >>
             x == SubSeq(d, o + 1, Len(d))
  <1>2. Skips(u, d, w, o)
    <2>1. w \in Seq(B)
      BY <1>1
    <2> HIDE DEF w
    <2> QED BY <2>1, Skip
  <1>3. u \o d \in Seq(B) /\ x \in Seq(B)
    BY ConcatProperties
  <1>4. (u \o d) \o << >> = u \o d /\ x \o << >> = x
    BY <1>3, ConcatEmptySeq
  <1> QED BY <1>2, <1>4, Zenon DEF Skips, SkipsOne

\* A new chain with data for which it has room.
LEMMA FilledNew ==
    ASSUME NEW B, NEW n \in Nat, NEW s \in Seq(B), Len(s) <= n,
           NEW d, d = [NewChain(n) EXCEPT !.data = s]
    PROVE  d \in Chain(B) /\ d.data = s
  BY NewChainFacts

\* r is h with other chains for the same bytes, and no more of them.
IsPulled(B, h, r) ==
    /\ r \in Buffer(B) /\ r.frozen = h.frozen /\ Len(r.chains) <= Len(h.chains)
    /\ Contents(r.chains) = Contents(h.chains)

\* evbuffer_pullup moves bytes, and none from its place.
LEMMA PullUpFacts ==
    ASSUME NEW B, NEW h \in Buffer(B), NEW n \in Nat \ {0}
    PROVE  IsPulled(B, h, PullUp(h, n))
  <1> DEFINE cs == h.chains
             C == Contents(cs)
             c == cs[1]
             inplace == c.size - c.mis >= n
             from == IF inplace THEN 2 ELSE 1
             need == IF inplace THEN n - Off(c) ELSE n
             rest == Beyond(cs, from - 1)
             gone == Whole(rest, need)
             ds == Cut(rest, need)
             one == [(IF inplace THEN c ELSE NewChain(n)) EXCEPT !.data = SubSeq(C, 1, n)]
             xs == << one >> \o ds
             second == Len(xs) > 1 /\ xs[2].data # << >>
             l == IF h.lwd \in from..from + gone - 1 THEN 1
                  ELSE IF gone > 0 /\ h.lwd = from + gone
                  THEN IF second THEN 2 ELSE 1
                  ELSE h.lwd - gone + 2 - from
             r == [h EXCEPT !.chains = xs,
                     !.lwd = IF @ \in from..from + gone - 1 THEN 1
                             ELSE IF gone > 0 /\ @ = from + gone
                             THEN IF second THEN 2 ELSE 1
                             ELSE @ - gone + 2 - from]
  <1>1. PullUp(h, n) = IF n > h.total \/ Off(c) >= n THEN h ELSE r
    BY DEF PullUp
  <1>2. /\ h \in BufferRec(B) /\ cs \in Seq(Chain(B)) /\ h.bad = FALSE
        /\ h.lwd \in Nat /\ h.total \in Nat /\ Len(cs) \in Nat
    BY BufferFacts, Zenon
  <1>3. h.total = Len(C) /\ C \in Seq(B) /\ h.lwd >= 1
    BY BufferFacts, Zenon
  <1>4. /\ \A i \in (h.lwd + 1)..Len(cs) : cs[i].data = << >>
        /\ h.lwd > 1 => cs[h.lwd].data # << >>
        /\ cs # << >> => h.lwd \in 1..Len(cs)
        /\ cs = << >> => C = << >>
    BY BufferFacts, Zenon
  <1>5. CASE n > h.total \/ Off(c) >= n
    <2>1. PullUp(h, n) = h
      BY <1>1, <1>5
    <2> QED BY <1>2, <2>1 DEF IsPulled
  <1>6. CASE ~(n > h.total \/ Off(c) >= n)
    <2>1. Len(C) >= n /\ Len(C) \in Nat /\ cs # << >> /\ Len(cs) >= 1 /\ h.lwd \in 1..Len(cs)
      <3>1. Len(C) >= n /\ Len(C) \in Nat
        BY <1>2, <1>3, <1>6
      <3>2. C # << >>
        BY <3>1
      <3> QED BY <1>2, <1>4, <3>1, <3>2
    <2>2. c \in Chain(B) /\ c \in ChainRec(B)
      BY <1>2, <2>1 DEF Chain
    <2>3. /\ c.size \in Nat /\ c.mis \in Nat /\ c.data \in Seq(B)
          /\ Len(c.data) \in Nat /\ c.mis + Len(c.data) <= c.size
          /\ c.fixed \in BOOLEAN
          /\ c.fixed => c.mis + Len(c.data) = c.size
      BY <2>2, ChainFacts
    <2> HIDE DEF c
    <2>4. Off(c) = Len(c.data) /\ Len(c.data) < n
      BY <1>6, <2>3 DEF Off
    <2> HIDE DEF C
    \* The first chain of the result.
    <2>5. one \in Chain(B) /\ one.data = SubSeq(C, 1, n)
      <3> DEFINE x == SubSeq(C, 1, n)
      <3>1. x \in Seq(B) /\ Len(x) = n /\ x # << >>
        <4>1. x \in Seq(B) /\ Len(x) = n
          BY <1>3, <2>1
        <4> QED BY <4>1, Zenon
      <3> HIDE DEF x
      <3>2. CASE inplace
        <4> DEFINE d == [c EXCEPT !.data = x]
        <4>1. /\ d.size = c.size /\ d.mis = c.mis /\ d.data = x /\ d.fixed = c.fixed
              /\ d \in ChainRec(B)
          BY <2>2, <3>1 DEF ChainRec
        <4>2. one = d
          BY <3>2 DEF x
        <4> HIDE DEF d
        <4>3. ~c.fixed /\ c.mis + n <= c.size
          BY <2>3, <2>4, <3>2
        <4>4. d \in Chain(B)
          BY <3>1, <4>1, <4>3 DEF Chain
        <4> QED BY <4>1, <4>2, <4>4, Zenon DEF x
      <3>3. CASE ~inplace
        <4>1. one = [NewChain(n) EXCEPT !.data = x]
          BY <3>3 DEF x
        <4>2. n \in Nat /\ Len(x) <= n /\ x \in Seq(B)
          BY <3>1
        <4> HIDE DEF one
        <4>3. one \in Chain(B) /\ one.data = x
          BY ONLY <4>1, <4>2, n \in Nat, FilledNew
        <4> QED BY <4>3 DEF x
      <3> QED BY <3>2, <3>3
    <2> HIDE DEF one
    <2>6. /\ n >= 1 /\ n \in Nat
          /\ from \in {1, 2} /\ need \in Nat /\ need >= 1
          /\ from = 1 => need = n
          /\ from = 2 => need = n - Len(c.data)
      BY <2>3, <2>4
    <2> HIDE DEF from, need, inplace
    <2>7. from - 1 \in 0..Len(cs) /\ from \in Nat
      BY <1>2, <2>1, <2>6
    \* The chains that the other bytes come from.
    <2>8. /\ rest \in Seq(Chain(B)) /\ Len(rest) = Len(cs) - (from - 1)
          /\ \A i \in 1..(Len(cs) - (from - 1)) : rest[i] = cs[(from - 1) + i]
      <3> DEFINE j == from - 1
      <3>1. j \in 0..Len(cs) /\ cs \in Seq(Chain(B))
        BY <1>2, <2>7
      <3> HIDE DEF j, cs
      <3>2. IsSplit(Chain(B), cs, j, Upto(cs, j), Beyond(cs, j))
        BY ONLY <3>1, Split
      <3> QED BY <3>2 DEF IsSplit, j
    <2>9. /\ need <= Len(Contents(rest)) /\ Len(Contents(rest)) \in Nat
          /\ SubSeq(Contents(rest), need + 1, Len(Contents(rest))) = SubSeq(C, n + 1, Len(C))
      <3>1. CASE from = 1
        <4>1. rest = cs
          <5>1. from - 1 = 0 /\ 0 \in 0..Len(cs)
            BY <1>2, <3>1
          <5>2. Beyond(cs, 0) = cs
            BY <1>2, <5>1, SplitAt, Zenon
          <5> QED BY <5>1, <5>2
        <4> QED BY <1>2, <2>1, <2>6, <3>1, <4>1 DEF C
      <3>2. CASE from = 2
        <4> DEFINE u == c.data
                   w == Contents(rest)
        <4>1. u \in Seq(B) /\ w \in Seq(B) /\ C = u \o w
          <5>1. from - 1 = 1 /\ 1 \in 1..Len(cs) /\ 1 - 1 = 0
            BY <1>2, <2>1, <3>2
          <5>2. /\ Contents(Upto(cs, 1 - 1)) \in Seq(B) /\ cs[1].data \in Seq(B)
                /\ Contents(Beyond(cs, 1)) \in Seq(B)
                /\ Contents(cs) = (Contents(Upto(cs, 1 - 1)) \o cs[1].data)
                                     \o Contents(Beyond(cs, 1))
            BY <1>2, <5>1, ContentsAround, Zenon
          <5>3. Contents(Upto(cs, 0)) = << >>
            BY <1>2, NoneBefore
          <5>4. << >> \o cs[1].data = cs[1].data
            BY <5>2, ConcatEmptySeq
          <5> QED BY <5>1, <5>2, <5>3, <5>4, Zenon DEF c, C
        <4> HIDE DEF u, w, C, rest
        <4>2. IsJoined(B, u, w, u \o w)
          BY ONLY <4>1, Joined
        <4>3. Len(C) = Len(u) + Len(w) /\ Len(u) \in Nat /\ Len(w) \in Nat
          BY <4>1, <4>2 DEF IsJoined
        <4>4. need = n - Len(u)
          BY <2>6, <3>2 DEF u
        <4>5. need \in 0..Len(w) /\ Len(u) + need = n
          BY <2>1, <2>6, <4>3, <4>4
        <4>6. SkipsOne(u, w, need)
          BY ONLY <4>1, <4>5, SkipOne
        <4>7. SubSeq(C, n + 1, Len(C)) = SubSeq(w, need + 1, Len(w))
          BY <4>1, <4>5, <4>6, Zenon DEF SkipsOne
        <4> QED BY <4>3, <4>5, <4>7 DEF w
      <3> QED BY <2>6, <3>1, <3>2, Zenon
    <2>10. IsWhole(rest, need, gone) /\ IsCut(B, rest, need, gone, ds)
      BY <2>6, <2>8, WholeFacts, CutFacts
    <2> HIDE DEF gone, ds
    <2>11. /\ gone \in 0..Len(rest) /\ gone \in Nat
           /\ ds \in Seq(Chain(B)) /\ Len(ds) = Len(rest) - gone
           /\ Contents(ds) = SubSeq(C, n + 1, Len(C))
           /\ \A i \in 2..(Len(rest) - gone) : ds[i] = rest[gone + i]
           /\ gone < Len(rest) => ds[1].data # << >> /\ rest[gone + 1].data # << >>
      <3>1. gone \in 0..Len(rest) /\ Len(rest) \in Nat
        BY <2>8, <2>10 DEF IsWhole
      <3> HIDE DEF rest
      <3>2. /\ ds \in Seq(Chain(B)) /\ Len(ds) = Len(rest) - gone
            /\ Contents(ds) = SubSeq(C, n + 1, Len(C))
            /\ \A i \in 2..(Len(rest) - gone) : ds[i] = rest[gone + i]
            /\ gone < Len(rest) => ds[1].data # << >> /\ rest[gone + 1].data # << >>
        BY <2>9, <2>10, Zenon DEF IsCut
      <3> QED BY <3>1, <3>2
    <2> HIDE DEF rest
    <2> DEFINE f == from - 1
               G == gone
               m == Len(rest)
    <2>12. f \in {0, 1} /\ from = f + 1 /\ G \in Nat /\ m \in Nat /\ G <= m
           /\ m = Len(cs) - f
      BY <1>2, <2>6, <2>8, <2>11
    <2>13. from <= h.lwd
      <3>1. CASE from = 1
        BY <1>3, <3>1
      <3>2. CASE from = 2 /\ h.lwd = 1
        <4>1. \A i \in 1..m : rest[i].data = << >>
          <5> TAKE i \in 1..m
          <5>1. i \in 1..(Len(cs) - (from - 1)) /\ (from - 1) + i \in (h.lwd + 1)..Len(cs)
            BY <1>2, <2>12, <3>2
          <5> QED BY <1>4, <2>8, <5>1
        <4>2. AllEmpty(rest)
          BY <2>8, <4>1 DEF AllEmpty
        <4>3. Contents(rest) = << >>
          BY <2>8, <4>2, ContentsOfNone
        <4> QED BY <2>6, <2>9, <4>3
      <3> QED BY <1>2, <1>3, <2>6, <3>1, <3>2
    <2>14. from = 1 => G >= 1
      <3> SUFFICES ASSUME from = 1, G = 0 PROVE FALSE
        BY <2>12
      <3>1. m = Len(cs) /\ 0 < m /\ rest = cs
        <4>1. from - 1 = 0 /\ 0 \in 0..Len(cs)
          BY <1>2
        <4>2. Beyond(cs, 0) = cs
          BY <1>2, <4>1, SplitAt, Zenon
        <4> QED BY <1>2, <2>1, <2>12, <4>1, <4>2 DEF rest
      <3>2. Len(Contents(Upto(rest, 0 + 1))) > need
        BY <2>10, <3>1 DEF IsWhole
      <3>3. Contents(Upto(cs, 1)) = c.data
        <4>1. 1 \in 1..Len(cs) /\ 1 - 1 = 0
          BY <1>2, <2>1
        <4>2. /\ cs[1].data \in Seq(B)
              /\ Contents(Upto(cs, 1)) = Contents(Upto(cs, 1 - 1)) \o cs[1].data
          BY <1>2, <4>1, ContentsAround, Zenon
        <4>3. Contents(Upto(cs, 0)) = << >>
          BY <1>2, NoneBefore
        <4>4. << >> \o cs[1].data = cs[1].data
          BY <4>2, ConcatEmptySeq
        <4> QED BY <4>1, <4>2, <4>3, <4>4, Zenon DEF c
      <3>4. 0 + 1 = 1
        OBVIOUS
      <3>5. Len(c.data) > need
        BY <3>1, <3>2, <3>3, <3>4
      <3> QED BY <2>3, <2>4, <2>6, <3>5
    <2>15. /\ xs \in Seq(Chain(B)) /\ Len(xs) = Len(ds) + 1 /\ xs[1] = one
           /\ \A i \in 1..Len(ds) : xs[i + 1] = ds[i]
           /\ Contents(xs) = one.data \o Contents(ds)
      <3>1. Headed(B, one, ds, xs)
        BY ONLY <2>5, <2>11, ContentsFront
      <3> QED BY <3>1, Zenon DEF Headed
    <2> HIDE DEF xs
    <2>16. Contents(xs) = C
      <3>1. 1 \in 1..(Len(C) + 1) /\ n \in (1 - 1)..Len(C) /\ Len(C) \in n..Len(C)
        BY <2>1, <2>6
      <3>2. SubSeq(C, 1, n) \o SubSeq(C, n + 1, Len(C)) = SubSeq(C, 1, Len(C))
        BY <1>3, <3>1, ConcatAdjacentSubSeq, Zenon
      <3>3. SubSeq(C, 1, Len(C)) = C
        BY <1>3, SubSeqFull
      <3> QED BY <2>5, <2>11, <2>15, <3>2, <3>3, Zenon
    <2>17. Len(xs) = (m - G) + 1 /\ Len(xs) <= Len(cs)
      <3>1. Len(xs) = Len(ds) + 1 /\ Len(ds) = m - G
        BY <2>11, <2>15
      <3>2. f = 0 => G >= 1
        BY <2>12, <2>14
      <3>3. Len(cs) \in Nat
        BY <1>2
      <3> HIDE DEF f, G, m
      <3> QED BY ONLY <2>12, <3>1, <3>2, <3>3
    \* What becomes of the chains that stay.
    <2>18. \A i \in 3..((m - G) + 1) : xs[i] = cs[((f + G) + i) - 1]
      <3> TAKE i \in 3..((m - G) + 1)
      <3> DEFINE j == i - 1
      <3>1. j \in 2..(m - G) /\ j \in 1..Len(ds) /\ j + 1 = i
            /\ G + j \in 1..(Len(cs) - (from - 1))
            /\ (from - 1) + (G + j) = ((f + G) + i) - 1
        BY <1>2, <2>11, <2>12
      <3> HIDE DEF j, f, m
      <3>2. xs[j + 1] = ds[j] /\ ds[j] = rest[G + j]
        BY <2>11, <2>15, <3>1, Zenon DEF m
      <3>3. rest[G + j] = cs[(from - 1) + (G + j)]
        BY <2>8, <3>1
      <3> QED BY <3>1, <3>2, <3>3
    <2>19. G < m => /\ xs[2].data # << >> /\ cs[(f + G) + 1].data # << >>
                    /\ (f + G) + 1 \in 1..Len(cs) /\ second
      <3> SUFFICES ASSUME G < m
                   PROVE  /\ xs[2].data # << >> /\ cs[(f + G) + 1].data # << >>
                          /\ (f + G) + 1 \in 1..Len(cs) /\ second
        OBVIOUS
      <3>1. 1 \in 1..Len(ds) /\ G + 1 \in 1..(Len(cs) - (from - 1)) /\ 1 + 1 = 2
            /\ (from - 1) + (G + 1) = (f + G) + 1 /\ (f + G) + 1 \in 1..Len(cs)
        BY <1>2, <2>11, <2>12
      <3>2. xs[2] = ds[1] /\ ds[1].data # << >> /\ rest[G + 1].data # << >>
        BY <2>11, <2>15, <3>1
      <3>3. rest[G + 1] = cs[(from - 1) + (G + 1)]
        BY <2>8, <3>1
      <3>4. Len(xs) > 1
        BY <2>12, <2>17
      <3> QED BY <3>1, <3>2, <3>3, <3>4
    <2> HIDE DEF second, f
    \* Where the pointer goes.
    <2>20. /\ l = 1 \/ (l \in 1..Len(xs) /\ xs[l].data # << >>)
           /\ \A i \in (l + 1)..Len(xs) : xs[i].data = << >>
           /\ l \in Nat
      <3>1. CASE h.lwd < from + G
        <4>1. l = 1
          <5>1. h.lwd \in from..from + gone - 1
            BY <1>2, <2>12, <2>13, <3>1
          <5> QED BY <5>1
        <4>2. G = m
          <5>1. (f + G) + 1 > h.lwd
            BY <1>2, <2>12, <3>1
          <5>2. (f + G) + 1 \in 1..Len(cs) => (f + G) + 1 \in (h.lwd + 1)..Len(cs)
            BY <1>2, <2>12, <5>1
          <5> QED BY <1>4, <2>12, <2>19, <5>2
        <4>3. Len(xs) = 1
          BY <2>12, <2>17, <4>2
        <4> QED BY <4>1, <4>3
      <3>2. CASE h.lwd = from + G
        <4>1. G < m
          BY <1>2, <2>1, <2>12, <3>2
        <4>2. l = 2
          <5>1. h.lwd \notin from..from + gone - 1
            BY <1>2, <2>12, <3>2
          <5>2. CASE gone > 0
            BY <2>19, <3>2, <4>1, <5>1, <5>2
          <5>3. CASE gone = 0
            BY <2>12, <3>2, <5>1, <5>3
          <5> QED BY <2>12, <5>2, <5>3
        <4>3. xs[2].data # << >> /\ 2 \in 1..Len(xs)
          BY <2>12, <2>17, <2>19, <4>1
        <4>4. \A i \in 3..Len(xs) : xs[i].data = << >>
          <5> TAKE i \in 3..Len(xs)
          <5>1. i \in 3..((m - G) + 1) /\ ((f + G) + i) - 1 \in (h.lwd + 1)..Len(cs)
            BY <1>2, <2>12, <2>17, <3>2
          <5> QED BY <1>4, <2>18, <5>1
        <4>5. 2 + 1 = 3
          OBVIOUS
        <4> HIDE DEF l
        <4> QED BY <4>2, <4>3, <4>4, <4>5
      <3>3. CASE h.lwd > from + G
        <4>1. l = (h.lwd - (f + G)) + 1
          <5>1. h.lwd \notin from..from + gone - 1 /\ h.lwd # from + gone
            BY <1>2, <2>12, <3>3
          <5>2. l = h.lwd - gone + 2 - from
            BY <5>1
          <5> QED BY <1>2, <2>12, <5>2
        <4> HIDE DEF l
        <4>2. l \in 3..((m - G) + 1) /\ ((f + G) + l) - 1 = h.lwd /\ h.lwd > 1
          <5>1. h.lwd \in Nat /\ Len(cs) \in Nat /\ h.lwd <= Len(cs)
            BY <1>2, <2>1
          <5> QED BY ONLY <2>12, <3>3, <4>1, <5>1
        <4>3. xs[l].data # << >> /\ l \in 1..Len(xs)
          BY <1>4, <2>17, <2>18, <4>2
        <4>4. \A i \in (l + 1)..Len(xs) : xs[i].data = << >>
          <5> TAKE i \in (l + 1)..Len(xs)
          <5>1. i \in 3..((m - G) + 1) /\ ((f + G) + i) - 1 \in (h.lwd + 1)..Len(cs)
            BY <1>2, <2>12, <2>17, <4>2
          <5> QED BY <1>4, <2>18, <5>1, Zenon
        <4> QED BY <4>2, <4>3, <4>4
      <3> QED BY <1>2, <2>12, <3>1, <3>2, <3>3
    <2>21. /\ r.chains = xs /\ r.total = h.total /\ r.lwd = l /\ r.bad = h.bad
           /\ r.frozen = h.frozen /\ r \in BufferRec(B)
      <3> HIDE DEF l
      <3>1. r = [h EXCEPT !.chains = xs, !.lwd = l]
        BY <1>2 DEF BufferRec, l
      <3> HIDE DEF r
      <3> QED BY <1>2, <2>15, <2>20, <3>1, Zenon DEF BufferRec
    <2> HIDE DEF r, l
    <2>22. r \in Buffer(B)
      BY <1>2, <1>3, <2>16, <2>20, <2>21, BufferIs, Zenon
    <2>23. PullUp(h, n) = r
      BY <1>1, <1>6
    <2>24. IsPulled(B, h, r)
      BY <2>16, <2>17, <2>21, <2>22 DEF IsPulled, C
    <2> QED BY <2>23, <2>24
  <1> QED BY <1>5, <1>6

\* The same data in chains that are otherwise changed.
LEMMA RearrangedFacts ==
    ASSUME NEW B, NEW h \in Buffer(B), NEW r \in BufferRec(B), r.lwd = h.lwd,
           r.total = h.total, ~r.bad, Len(r.chains) = Len(h.chains),
           \A i \in 1..Len(h.chains) : r.chains[i].data = h.chains[i].data
    PROVE  r \in Buffer(B) /\ Contents(r.chains) = Contents(h.chains)
  <1>1. /\ h.chains \in Seq(Chain(B)) /\ r.chains \in Seq(Chain(B))
        /\ h.lwd \in Nat /\ h.lwd >= 1 /\ Len(h.chains) \in Nat
    BY BufferFacts, Zenon DEF BufferRec
  <1>2. /\ h.total = Len(Contents(h.chains))
        /\ \A i \in (h.lwd + 1)..Len(h.chains) : h.chains[i].data = << >>
        /\ h.lwd > 1 => h.chains[h.lwd].data # << >>
    BY BufferFacts, Zenon
  <1>3. Contents(r.chains) = Contents(h.chains)
    <2> DEFINE cs == h.chains
               ds == r.chains
    <2>1. /\ cs \in Seq(Chain(B)) /\ ds \in Seq(Chain(B)) /\ Len(ds) = Len(cs)
          /\ \A i \in 1..Len(cs) : ds[i].data = cs[i].data
      BY <1>1
    <2> HIDE DEF cs, ds
    <2>2. Contents(ds) = Contents(cs)
      BY ONLY <2>1, ContentsSame
    <2> QED BY <2>2 DEF cs, ds
  <1>4. \A i \in (r.lwd + 1)..Len(r.chains) : r.chains[i].data = << >>
    <2>1. \A i \in (h.lwd + 1)..Len(h.chains) : i \in 1..Len(h.chains)
      BY <1>1
    <2> QED BY <1>2, <2>1
  <1>5. r.lwd = 1 \/ (r.lwd \in 1..Len(r.chains) /\ r.chains[r.lwd].data # << >>)
    <2> SUFFICES ASSUME h.lwd # 1
                 PROVE  h.lwd \in 1..Len(h.chains) /\ r.chains[h.lwd].data # << >>
      OBVIOUS
    <2>1. h.lwd \in 1..Len(h.chains)
      <3>1. h.chains # << >>
        BY BufferFacts, Zenon
      <3> QED BY <3>1, BufferFacts, Zenon
    <2> QED BY <1>1, <1>2, <2>1
  <1>6. r \in Buffer(B)
    BY <1>2, <1>3, <1>4, <1>5, BufferIs
  <1> QED BY <1>3, <1>6

\* advance_last_with_data goes to the chain before the first that is empty.
LEMMA AdvanceFacts ==
    ASSUME NEW B, NEW h \in BufferRec(B), h.lwd \in 1..Len(h.chains),
           NEW at \in h.lwd..Len(h.chains),
           \A i \in (h.lwd + 1)..at : h.chains[i].data # << >>,
           at < Len(h.chains) => h.chains[at + 1].data = << >>
    PROVE  Advance(h) = [h EXCEPT !.lwd = at]
  <1> DEFINE m == Len(h.chains)
             Reaches(k) == \A i \in h.lwd + 1..k : h.chains[i].data # << >>
             K == CHOOSE k \in h.lwd..m : Reaches(k) /\ (k < m => ~Reaches(k + 1))
  <1>1. h.lwd \in Nat /\ m \in Nat /\ h.lwd <= m /\ at \in Nat /\ h.lwd <= at /\ at <= m
    BY DEF BufferRec
  <1>2. Reaches(at) /\ (at < m => ~Reaches(at + 1))
    <2>1. at < m => at + 1 \in h.lwd + 1..at + 1
      BY <1>1
    <2> QED BY <2>1
  <1>3. K \in h.lwd..m /\ Reaches(K) /\ (K < m => ~Reaches(K + 1))
    <2> HIDE DEF Reaches, m
    <2>1. at \in h.lwd..m
      BY <1>1
    <2> QED BY <1>2, <2>1
  <1> HIDE DEF K
  <1>4. K = at
    <2>1. K \in Nat /\ h.lwd <= K /\ K <= m
      BY <1>1, <1>3
    <2>2. CASE K < at
      <3>1. \A i \in h.lwd + 1..K + 1 : i \in (h.lwd + 1)..at
        BY <1>1, <2>1, <2>2
      <3>2. Reaches(K + 1)
        BY <3>1
      <3> QED BY <1>1, <1>3, <2>1, <2>2, <3>2
    <2>3. CASE K > at
      <3>1. at < m /\ at + 1 \in h.lwd + 1..K
        BY <1>1, <2>1, <2>3
      <3> QED BY <1>3, <3>1
    <2> QED BY <1>1, <2>1, <2>2, <2>3
  <1>5. ~(h.lwd > Len(h.chains))
    BY <1>1
  <1>6. Advance(h) = [h EXCEPT !.lwd = K]
    BY <1>5 DEF Advance, K
  <1> QED BY <1>4, <1>6

\* e is h with room for n bytes in the last chain with data, or in the one
\* behind it.
IsExpanded(B, h, n, e) ==
    /\ e.h \in Buffer(B) /\ e.h.frozen = h.frozen /\ e.h.lwd = h.lwd
    /\ Contents(e.h.chains) = Contents(h.chains)
    /\ e.at \in 1..Len(e.h.chains) /\ Space(e.h.chains[e.at]) >= n
    /\ e.at = h.lwd \/ (e.at = h.lwd + 1 /\ e.h.chains[h.lwd].data # << >>)

\* evbuffer_expand leaves the bytes as they are and finds the room it promises.
LEMMA ExpandFacts ==
    ASSUME NEW B, NEW h \in Buffer(B), NEW n \in Nat
    PROVE  IsExpanded(B, h, n, Expand(h, n))
  <1> DEFINE cs == h.chains
             p == IF h.lwd <= Len(cs) /\ Space(cs[h.lwd]) = 0 THEN h.lwd + 1 ELSE h.lwd
             c == cs[p]
             g == Insert(h, NewChain(n))
             new == [h |-> g, at |-> Len(g.chains)]
             resized == [NewChain(Off(c) + n) EXCEPT !.data = c.data]
             aligned == [h EXCEPT !.chains[p].mis = 0]
             bigger == [h EXCEPT !.chains[p] = resized]
  <1>1. Expand(h, n) =
          IF p > Len(cs) THEN new
          ELSE IF c.fixed THEN new
          ELSE IF Space(c) >= n THEN [h |-> h, at |-> p]
          ELSE IF c.data = << >> THEN new
          ELSE IF Realigns(c, n) THEN [h |-> aligned, at |-> p]
          ELSE IF Space(c) < c.size \div 8 \/ Off(c) > CopyMax
          THEN IF p < Len(cs) /\ Space(cs[p + 1]) >= n
               THEN [h |-> h, at |-> p + 1] ELSE new
          ELSE [h |-> bigger, at |-> p]
    BY DEF Expand
  <1>2. /\ h \in BufferRec(B) /\ cs \in Seq(Chain(B)) /\ h.bad = FALSE
        /\ h.lwd \in Nat /\ h.total \in Nat /\ Len(cs) \in Nat /\ h.lwd >= 1
    BY BufferFacts, Zenon
  <1>3. /\ \A i \in (h.lwd + 1)..Len(cs) : cs[i].data = << >>
        /\ h.frozen \in SUBSET {"start", "end"}
    BY BufferFacts, Zenon
  <1>4. /\ p = h.lwd \/ (p = h.lwd + 1 /\ cs[h.lwd].data # << >> /\ h.lwd <= Len(cs))
        /\ p \in Nat /\ p >= 1
    <2>1. ASSUME h.lwd <= Len(cs), Space(cs[h.lwd]) = 0
          PROVE  cs[h.lwd].data # << >>
      <3> DEFINE d == cs[h.lwd]
      <3>1. d \in Chain(B)
        BY <1>2, <2>1
      <3> HIDE DEF d
      <3>2. d.data = << >> => Space(d) = d.size
        BY <3>1, ChainFacts
      <3>3. d.size \in Nat /\ d.size > 0
        BY <3>1, ChainFacts
      <3> QED BY <2>1, <3>2, <3>3 DEF d
    <2> QED BY <1>2, <2>1
  <1> HIDE DEF p
  \* A new chain.
  <1>5. IsExpanded(B, h, n, new)
    <2> DEFINE x == NewChain(n)
    <2>1. x \in Chain(B) /\ x.data = << >> /\ Space(x) >= n
      BY NewChainFacts
    <2> HIDE DEF x
    <2>2. Inserted(B, h, x, Insert(h, x))
      <3>1. h \in Buffer(B)
        OBVIOUS
      <3> QED BY ONLY <2>1, <3>1, InsertFacts
    <2>3. Inserted(B, h, x, g)
      BY <2>2 DEF x
    <2> DEFINE k == Len(g.chains)
    <2>4. new.h = g /\ new.at = k
      OBVIOUS
    <2> HIDE DEF g, new
    <2>5. /\ g \in Buffer(B) /\ g.frozen = h.frozen /\ g.lwd = h.lwd
          /\ Contents(g.chains) = Contents(h.chains) \o << >>
          /\ k \in 1..(Len(cs) + 1) /\ g.chains[k] = x
          /\ k = h.lwd \/ (k = h.lwd + 1 /\ cs[h.lwd].data # << >>)
          /\ \A i \in 1..(k - 1) : g.chains[i] = cs[i]
      BY <2>1, <2>3 DEF Inserted
    <2>6. Contents(h.chains) \o << >> = Contents(h.chains)
      <3>1. Contents(h.chains) \in Seq(B)
        BY BufferFacts, Zenon
      <3> QED BY <3>1, ConcatEmptySeq
    <2> HIDE DEF k
    <2>7. k = h.lwd + 1 => h.lwd \in 1..(k - 1)
      BY <1>2
    <2>8. k \in 1..k
      BY <2>5
    <2> QED BY <2>1, <2>4, <2>5, <2>6, <2>7, <2>8, Zenon DEF IsExpanded, k
  <1> HIDE DEF new
  \* A chain that is there.
  <1>6. ASSUME p <= Len(cs)
        PROVE  p \in 1..Len(cs) /\ c \in Chain(B)
    BY <1>2, <1>4, <1>6
  <1> HIDE DEF c
  <1>7. ASSUME p <= Len(cs), c.data # << >>
        PROVE  p = h.lwd
    <2>1. p = h.lwd + 1 => p \in (h.lwd + 1)..Len(cs)
      BY <1>2, <1>7
    <2> QED BY <1>3, <1>4, <1>7, <2>1 DEF c
  <1>8. ASSUME p <= Len(cs), Space(c) >= n
        PROVE  IsExpanded(B, h, n, [h |-> h, at |-> p])
    <2>1. p \in 1..Len(cs)
      BY <1>6, <1>8
    <2> QED BY <1>4, <1>8, <2>1 DEF IsExpanded, c
  \* The chain becomes d.
  <1>9. ASSUME p <= Len(cs), c.data # << >>, NEW d \in Chain(B), d.data = c.data,
               Space(d) >= n, NEW r \in BufferRec(B), r.chains = [cs EXCEPT ![p] = d],
               r.lwd = h.lwd, r.total = h.total, r.bad = h.bad, r.frozen = h.frozen
        PROVE  IsExpanded(B, h, n, [h |-> r, at |-> p])
    <2>1. p \in 1..Len(cs) /\ p = h.lwd
      BY <1>6, <1>7, <1>9
    <2>2. /\ Len(r.chains) = Len(cs) /\ r.chains[p] = d
          /\ \A i \in 1..Len(cs) : i # p => r.chains[i] = cs[i]
      <3>1. cs \in Seq(Chain(B)) /\ d \in Chain(B) /\ r.chains = [cs EXCEPT ![p] = d]
        BY <1>2, <1>9
      <3> QED BY ONLY <2>1, <3>1
    <2>3. \A i \in 1..Len(cs) : r.chains[i].data = cs[i].data
      BY <1>9, <2>2 DEF c
    <2>4. r \in Buffer(B) /\ Contents(r.chains) = Contents(cs)
      <3>1. ~r.bad /\ r \in BufferRec(B) /\ h \in Buffer(B)
        BY <1>2, <1>9
      <3> QED BY <1>9, <2>2, <2>3, <3>1, RearrangedFacts
    <2> QED BY <1>9, <2>1, <2>2, <2>4 DEF IsExpanded
  <1>10. ASSUME p <= Len(cs), ~c.fixed, c.data # << >>, Realigns(c, n)
         PROVE  IsExpanded(B, h, n, [h |-> aligned, at |-> p])
    <2> DEFINE d == [c EXCEPT !.mis = 0]
    <2>1. c \in Chain(B) /\ c \in ChainRec(B) /\ p \in 1..Len(cs)
      BY <1>6, <1>10 DEF Chain
    <2>2. /\ d.size = c.size /\ d.mis = 0 /\ d.data = c.data /\ d.fixed = c.fixed
          /\ d \in ChainRec(B)
      BY <2>1 DEF ChainRec
    <2>3. aligned.chains = [cs EXCEPT ![p] = d] /\ aligned.lwd = h.lwd
          /\ aligned.total = h.total /\ aligned.bad = h.bad /\ aligned.frozen = h.frozen
      BY <1>2 DEF BufferRec, c
    <2> HIDE DEF d
    <2>4. /\ c.size \in Nat /\ Len(c.data) \in Nat /\ c.mis \in Nat
          /\ c.mis + Len(c.data) <= c.size
      BY <2>1, ChainFacts
    <2>5. d \in Chain(B)
      <3>1. d.mis + Len(d.data) <= d.size
        BY <2>2, <2>4
      <3> QED BY <1>10, <2>2, <3>1 DEF Chain
    <2>6. Space(d) >= n
      <3>1. Space(d) = c.size - 0 - Len(c.data) /\ c.size - Len(c.data) >= n
        BY <1>10, <2>2 DEF Space, Off, Realigns
      <3> QED BY <2>4, <3>1
    <2>7. aligned \in BufferRec(B)
      <3>1. [cs EXCEPT ![p] = d] \in Seq(Chain(B))
        BY <1>2, <2>1, <2>5
      <3> QED BY <1>2, <2>3, <3>1, Zenon DEF BufferRec
    <2> HIDE DEF aligned
    <2> QED BY <1>9, <1>10, <2>2, <2>3, <2>5, <2>6, <2>7
  <1>11. ASSUME p <= Len(cs), c.data # << >>
         PROVE  IsExpanded(B, h, n, [h |-> bigger, at |-> p])
    <2> DEFINE m == Off(c) + n
    <2>1. c \in Chain(B) /\ p \in 1..Len(cs)
      BY <1>6, <1>11
    <2>2. c.data \in Seq(B) /\ Len(c.data) \in Nat /\ m \in Nat /\ Len(c.data) <= m
          /\ m = Len(c.data) + n
      BY <2>1, ChainFacts DEF Off
    <2>3. resized = [NewChain(m) EXCEPT !.data = c.data]
      OBVIOUS
    <2> HIDE DEF resized, m
    <2>4. resized \in Chain(B) /\ resized.data = c.data
      BY ONLY <2>2, <2>3, FilledNew
    <2>5. Space(resized) >= n
      <3> DEFINE x == NewChain(m)
      <3>1. x.size >= m /\ x.mis = 0 /\ ~x.fixed /\ x \in Chain(B)
        BY <2>2, NewChainFacts
      <3> HIDE DEF x
      <3>2. x \in ChainRec(B)
        BY <3>1 DEF Chain
      <3>3. resized.size = x.size /\ resized.mis = 0 /\ ~resized.fixed /\ x.size \in Nat
        BY <2>3, <3>1, <3>2 DEF ChainRec, x
      <3>4. Space(resized) = x.size - 0 - Len(c.data)
        BY <2>4, <3>3 DEF Space, Off
      <3> QED BY <2>2, <3>1, <3>3, <3>4
    <2>6. bigger.chains = [cs EXCEPT ![p] = resized] /\ bigger.lwd = h.lwd
          /\ bigger.total = h.total /\ bigger.bad = h.bad /\ bigger.frozen = h.frozen
      BY <1>2 DEF BufferRec
    <2>7. bigger \in BufferRec(B)
      <3>1. [cs EXCEPT ![p] = resized] \in Seq(Chain(B))
        BY <1>2, <2>1, <2>4
      <3> QED BY <1>2, <2>6, <3>1, Zenon DEF BufferRec
    <2> HIDE DEF bigger
    <2> QED BY <1>9, <1>11, <2>4, <2>5, <2>6, <2>7
  <1>12. ASSUME p < Len(cs), Space(cs[p + 1]) >= n, c.data # << >>
         PROVE  IsExpanded(B, h, n, [h |-> h, at |-> p + 1])
    <2>1. p <= Len(cs) /\ p + 1 \in 1..Len(cs)
      BY <1>2, <1>4, <1>12
    <2>2. p = h.lwd
      BY <1>7, <1>12, <2>1
    <2> QED BY <1>12, <2>1, <2>2 DEF IsExpanded, c
  <1>13. CASE p > Len(cs) \/ c.fixed
    BY <1>1, <1>5, <1>13
  <1>14. CASE p <= Len(cs) /\ ~c.fixed /\ Space(c) >= n
    BY <1>1, <1>2, <1>4, <1>8, <1>14
  <1>15. CASE p <= Len(cs) /\ ~c.fixed /\ ~(Space(c) >= n) /\ c.data = << >>
    BY <1>1, <1>5, <1>15
  <1>16. CASE /\ p <= Len(cs) /\ ~c.fixed /\ ~(Space(c) >= n) /\ c.data # << >>
              /\ Realigns(c, n)
    BY <1>1, <1>2, <1>4, <1>10, <1>16
  <1>17. CASE /\ p <= Len(cs) /\ ~c.fixed /\ ~(Space(c) >= n) /\ c.data # << >>
              /\ ~Realigns(c, n)
    <2>1. ~(p > Len(cs))
      BY <1>2, <1>4, <1>17
    <2> QED BY <1>1, <1>5, <1>11, <1>12, <1>17, <2>1
  <1>18. p > Len(cs) \/ p <= Len(cs)
    BY <1>2, <1>4
  <1> QED BY <1>13, <1>14, <1>15, <1>16, <1>17, <1>18

\* evbuffer_add_vprintf puts the bytes at the end.
LEMMA FormatFacts ==
    ASSUME NEW B, NEW h \in Buffer(B), NEW s \in Seq(B), s # << >>
    PROVE  /\ Format(h, s) \in Buffer(B) /\ Format(h, s).frozen = h.frozen
           /\ Contents(Format(h, s).chains) = Contents(h.chains) \o s
  <1> DEFINE n == Len(s)
             first == Expand(h, PrintRoom)
             e == IF Space(first.h.chains[first.at]) > n THEN first
                  ELSE Expand(first.h, n + 1)
             x == [e.h EXCEPT !.chains[e.at].data = @ \o s, !.total = @ + n]
  <1>1. Format(h, s) = Advance(x)
    BY DEF Format
  <1>2. n \in Nat /\ n > 0 /\ PrintRoom \in Nat
    BY EvbufferAssumption
  <1> HIDE DEF n
  <1>3. IsExpanded(B, h, n, e)
    <2>1. IsExpanded(B, h, PrintRoom, first)
      BY <1>2, ExpandFacts
    <2> HIDE DEF first
    <2>2. CASE Space(first.h.chains[first.at]) > n
      <3>1. e = first
        BY <2>2
      <3> HIDE DEF e
      <3>2. Space(e.h.chains[e.at]) \in Nat
        <4>1. e.h \in Buffer(B) /\ e.at \in 1..Len(e.h.chains)
          BY <2>1, <3>1 DEF IsExpanded
        <4>2. e.h.chains[e.at] \in Chain(B)
          BY <4>1, BufferFacts, Zenon
        <4> DEFINE d == e.h.chains[e.at]
        <4> HIDE DEF d
        <4>3. d \in Chain(B)
          BY <4>2 DEF d
        <4>4. Space(d) \in Nat
          BY <4>3, ChainFacts
        <4> QED BY <4>4 DEF d
      <3>3. Space(e.h.chains[e.at]) >= n
        BY <1>2, <2>2, <3>1, <3>2
      <3> QED BY <2>1, <3>1, <3>3 DEF IsExpanded
    <2>3. CASE ~(Space(first.h.chains[first.at]) > n)
      <3>1. e = Expand(first.h, n + 1)
        BY <2>3
      <3>2. /\ first.h \in Buffer(B) /\ first.h.frozen = h.frozen /\ first.h.lwd = h.lwd
            /\ Contents(first.h.chains) = Contents(h.chains)
        BY <2>1 DEF IsExpanded
      <3> DEFINE f == first.h
      <3>3. IsExpanded(B, f, n + 1, Expand(f, n + 1))
        <4>1. f \in Buffer(B) /\ n + 1 \in Nat
          BY <1>2, <3>2
        <4> HIDE DEF f
        <4> QED BY ONLY <4>1, ExpandFacts
      <3> HIDE DEF e, f
      <3>4. IsExpanded(B, f, n + 1, e)
        BY <3>1, <3>3 DEF f
      <3>5. Space(e.h.chains[e.at]) >= n
        <4>1. Space(e.h.chains[e.at]) >= n + 1 /\ e.h \in Buffer(B)
              /\ e.at \in 1..Len(e.h.chains)
          BY <3>4 DEF IsExpanded
        <4>2. e.h.chains[e.at] \in Chain(B)
          BY <4>1, BufferFacts, Zenon
        <4> DEFINE d == e.h.chains[e.at]
        <4>3. d \in Chain(B)
          BY <4>2
        <4> HIDE DEF d
        <4>4. Space(d) \in Nat
          BY <4>3, ChainFacts
        <4> QED BY <1>2, <4>1, <4>4 DEF d
      <3>6. f.frozen = h.frozen /\ f.lwd = h.lwd /\ Contents(f.chains) = Contents(h.chains)
        BY <3>2 DEF f
      <3> QED BY <3>4, <3>5, <3>6 DEF IsExpanded
    <2> QED BY <2>2, <2>3
  <1> HIDE DEF e
  <1> DEFINE g == e.h
             k == e.at
             cs == g.chains
             c == cs[k]
             d == [c EXCEPT !.data = @ \o s]
  <1>4. /\ g \in Buffer(B) /\ g.frozen = h.frozen /\ g.lwd = h.lwd
        /\ Contents(g.chains) = Contents(h.chains)
        /\ k \in 1..Len(g.chains) /\ Space(c) >= n
        /\ k = g.lwd \/ (k = g.lwd + 1 /\ g.chains[g.lwd].data # << >>)
    BY <1>3 DEF IsExpanded
  <1> HIDE DEF g, k
  <1>5. /\ g \in BufferRec(B) /\ cs \in Seq(Chain(B)) /\ g.bad = FALSE
        /\ g.lwd \in Nat /\ g.total \in Nat /\ Len(cs) \in Nat /\ g.lwd >= 1
    BY <1>4, BufferFacts, Zenon
  <1>6. /\ \A i \in (g.lwd + 1)..Len(cs) : cs[i].data = << >>
        /\ g.frozen \in SUBSET {"start", "end"}
    BY <1>4, BufferFacts, Zenon
  <1>7. c \in Chain(B) /\ c \in ChainRec(B)
    BY <1>4, <1>5 DEF Chain
  <1> HIDE DEF c
  <1>8. c.data \in Seq(B)
    BY <1>7, ChainFacts
  <1>9. c.data \o s \in Seq(B) /\ c.data \o s # << >>
    BY <1>8, ConcatProperties, ConcatEqualIffEmpty
  <1>10. /\ d.size = c.size /\ d.fixed = c.fixed /\ d.data = c.data \o s
         /\ d.mis = c.mis /\ d \in ChainRec(B)
    BY <1>7, <1>9, Zenon DEF ChainRec
  <1>11. x.chains = [cs EXCEPT ![k] = d] /\ x.total = g.total + n /\ x.lwd = g.lwd
         /\ x.bad = g.bad /\ x.frozen = g.frozen
    BY <1>5 DEF BufferRec, c, g, k
  <1> HIDE DEF d
  <1>12. d \in Chain(B)
    <2>1. Len(s) <= Space(c)
      <3>1. Space(c) \in Nat
        BY <1>7, ChainFacts
      <3> QED BY <1>2, <1>4, <3>1 DEF n
    <2> QED BY <1>7, <1>10, <2>1, ChainGrown
  <1>13. x \in BufferRec(B)
    <2>1. g.total + n \in Nat
      BY <1>2, <1>5
    <2>2. [cs EXCEPT ![k] = d] \in Seq(Chain(B))
      BY <1>4, <1>5, <1>12
    <2> QED BY <1>5, <1>11, <2>1, <2>2, Zenon DEF BufferRec, g
  <1> HIDE DEF x
  <1>14. /\ x.chains \in Seq(Chain(B)) /\ Len(x.chains) = Len(cs) /\ x.chains[k] = d
         /\ \A i \in 1..Len(cs) : i # k => x.chains[i] = cs[i]
    BY ONLY <1>4, <1>5, <1>11, <1>12
  <1> DEFINE r == [x EXCEPT !.lwd = k]
  <1>15. Advance(x) = r
    <2>1. /\ x.lwd \in 1..Len(x.chains) /\ k \in x.lwd..Len(x.chains) /\ k \in Nat
      BY <1>4, <1>5, <1>11, <1>14
    <2>2. \A i \in (x.lwd + 1)..k : x.chains[i].data # << >>
      <3>1. \A i \in (x.lwd + 1)..k : i = k
        BY <1>4, <1>5, <1>11
      <3> QED BY <1>9, <1>10, <1>14, <3>1
    <2>3. k < Len(x.chains) => x.chains[k + 1].data = << >>
      <3>1. k < Len(cs) => k + 1 \in (g.lwd + 1)..Len(cs) /\ k + 1 \in 1..Len(cs) /\ k + 1 # k
        BY <1>4, <1>5
      <3> QED BY <1>6, <1>14, <3>1
    <2> QED BY <1>13, <2>1, <2>2, <2>3, AdvanceFacts
  <1>16. /\ r.chains = x.chains /\ r.total = x.total /\ r.lwd = k /\ r.bad = x.bad
         /\ r.frozen = x.frozen /\ r \in BufferRec(B)
    <2>1. k \in Nat
      BY <1>4
    <2> QED BY <1>13, <2>1, Zenon DEF BufferRec
  <1> HIDE DEF r
  <1>17. r \in Buffer(B) /\ Contents(r.chains) = Contents(g.chains) \o s
    <2>1. /\ g \in Buffer(B) /\ r \in BufferRec(B) /\ ~r.bad /\ s \in Seq(B)
          /\ r.total = g.total + Len(s) /\ Len(r.chains) = Len(g.chains)
          /\ k \in 1..Len(g.chains) /\ k >= g.lwd /\ r.lwd = k /\ s # << >>
      BY <1>4, <1>5, <1>11, <1>14, <1>16 DEF n
    <2>2. /\ \A i \in 1..Len(g.chains) : i # k => r.chains[i].data = g.chains[i].data
          /\ r.chains[k].data = g.chains[k].data \o s
      BY <1>10, <1>14, <1>16, Zenon DEF c
    <2>3. \/ r.lwd = g.lwd /\ (k = g.lwd \/ s = << >>)
          \/ r.lwd = k /\ s # << >>
      BY <2>1
    <2> HIDE DEF n
    <2>4. IsGrown(g, r, k, s)
      BY <2>1, <2>2, <2>3 DEF IsGrown
    <2> QED BY ONLY <2>1, <2>4, GrownFacts
  <1> QED BY <1>1, <1>4, <1>11, <1>15, <1>16, <1>17, Zenon

-----------------------------------------------------------------------------
\* Lists that begin alike have the same sums there.
LEMMA SumSame ==
    ASSUME NEW ns \in Seq(Nat), NEW ms \in Seq(Nat), NEW i \in Nat \ {0},
           NEW k \in Nat, k <= Len(ns), k <= Len(ms),
           \A j \in 1..k : ms[j] = ns[j]
    PROVE  SumOf(ms, i, k) = SumOf(ns, i, k)
  <1> DEFINE F(j) == SumOf(ns, i, j)
             G(j) == SumOf(ms, i, j)
             P == {j \in 0..k : F(j) = G(j)}
  <1>1. /\ \A j \in 0..Len(ns) : F(j) \in Nat
        /\ \A j \in 0..Len(ns) : j < i => F(j) = 0
        /\ \A j \in 1..Len(ns) : j >= i => F(j) = F(j - 1) + ns[j]
    BY SumFacts
  <1>2. /\ \A j \in 0..Len(ms) : G(j) \in Nat
        /\ \A j \in 0..Len(ms) : j < i => G(j) = 0
        /\ \A j \in 1..Len(ms) : j >= i => G(j) = G(j - 1) + ms[j]
    BY SumFacts
  <1> HIDE DEF F, G
  <1>3. 0 \in P
    <2>1. 0 \in 0..Len(ns) /\ 0 \in 0..Len(ms) /\ 0 \in 0..k /\ 0 < i
      OBVIOUS
    <2> QED BY <1>1, <1>2, <2>1, Zenon
  <1>4. ASSUME NEW j \in 1..k, j - 1 \in P
        PROVE  j \in P
    <2>1. j \in 0..Len(ns) /\ j \in 0..Len(ms) /\ j \in 1..Len(ns) /\ j \in 1..Len(ms)
          /\ ms[j] = ns[j] /\ F(j - 1) = G(j - 1)
      BY <1>4
    <2>2. CASE j < i
      BY <1>1, <1>2, <2>1, <2>2
    <2>3. CASE j >= i
      BY <1>1, <1>2, <2>1, <2>3
    <2> QED BY <2>1, <2>2, <2>3
  <1>5. 0..k \subseteq P
    <2> HIDE DEF P
    <2> QED BY <1>3, <1>4, BoundedInduction, Zenon
  <1> QED BY <1>5 DEF F, G

\* The space in each chain of a list.
Spaces(cs) == [j \in DOMAIN cs |-> Space(cs[j])]

\* It is a sequence of numbers, one for each chain.
LEMMA SpacesFacts ==
    ASSUME NEW B, NEW cs \in Seq(Chain(B))
    PROVE  /\ Spaces(cs) \in Seq(Nat) /\ Len(Spaces(cs)) = Len(cs)
           /\ \A j \in 1..Len(cs) : Spaces(cs)[j] = Space(cs[j]) /\ Space(cs[j]) \in Nat
  <1>1. DOMAIN cs = 1..Len(cs) /\ Len(cs) \in Nat
    OBVIOUS
  <1>2. \A j \in 1..Len(cs) : Space(cs[j]) \in Nat
    <2> TAKE j \in 1..Len(cs)
    <2>1. cs[j] \in Chain(B)
      OBVIOUS
    <2> QED BY <2>1, ChainFacts
  <1> QED BY <1>1, <1>2 DEF Spaces

\* Room for n bytes, from the chain that lwd says on, and nothing else changed.
IsRoom(B, h, n, r) ==
    /\ r \in Buffer(B) /\ r.frozen = h.frozen /\ r.lwd = h.lwd
    /\ Contents(r.chains) = Contents(h.chains)
    /\ r.lwd \in 1..Len(r.chains)
    /\ SumOf(Spaces(r.chains), r.lwd, Len(r.chains)) >= n

\* A last chain with that much space is enough.
LEMMA RoomAtLast ==
    ASSUME NEW B, NEW cs \in Seq(Chain(B)), NEW i \in 1..Len(cs), NEW k \in Nat,
           k = Len(cs), NEW n \in Nat, NEW m \in Nat,
           SumOf(Spaces(cs), i, k - 1) >= m, m + Space(cs[k]) >= n
    PROVE  SumOf(Spaces(cs), i, Len(cs)) >= n
  <1> DEFINE ns == Spaces(cs)
  <1>1. /\ ns \in Seq(Nat) /\ Len(ns) = k /\ k >= 1 /\ k - 1 \in 0..k
        /\ ns[k] = Space(cs[k]) /\ Space(cs[k]) \in Nat
    BY SpacesFacts
  <1> HIDE DEF ns
  <1>2. SumOf(ns, i, k) = SumOf(ns, i, k - 1) + ns[k] /\ SumOf(ns, i, k - 1) \in Nat
    <2>1. i \in Nat \ {0} /\ k \in 1..Len(ns) /\ k >= i /\ k - 1 \in 0..Len(ns)
      BY <1>1
    <2> QED BY ONLY <1>1, <2>1, SumFacts, Zenon
  <1>3. SumOf(ns, i, k - 1) >= m
    BY DEF ns
  <1> DEFINE u == SumOf(ns, i, k - 1)
  <1> HIDE DEF u
  <1>4. SumOf(ns, i, k) >= n
    BY <1>1, <1>2, <1>3 DEF u
  <1> QED BY <1>4 DEF ns

\* r is h with the empty chain c in place of those behind k, which are empty.
Trailed(h, k, c, r) ==
    /\ k \in 0..Len(h.chains) /\ c.data = << >>
    /\ \A i \in (k + 1)..Len(h.chains) : h.chains[i].data = << >>
    /\ k >= h.lwd \/ h.lwd = 1
    /\ r.chains = Append(Upto(h.chains, k), c) /\ r.lwd = h.lwd
    /\ r.total = h.total /\ r.bad = FALSE

\* It is in order.
LEMMA TrailedFacts ==
    ASSUME NEW B, NEW h \in Buffer(B), NEW c \in Chain(B), NEW k, NEW r \in BufferRec(B),
           Trailed(h, k, c, r)
    PROVE  /\ r \in Buffer(B) /\ Contents(r.chains) = Contents(h.chains)
           /\ Len(r.chains) = k + 1 /\ r.chains[k + 1] = c
           /\ \A i \in 1..k : r.chains[i] = h.chains[i]
  <1> DEFINE cs == h.chains
             u == Upto(cs, k)
  <1>1. /\ k \in 0..Len(cs) /\ k \in Nat /\ c.data = << >>
        /\ \A i \in (k + 1)..Len(cs) : cs[i].data = << >>
        /\ k >= h.lwd \/ h.lwd = 1
        /\ r.chains = Append(u, c) /\ r.lwd = h.lwd
        /\ r.total = h.total /\ r.bad = FALSE
    BY DEF Trailed
  <1>2. /\ cs \in Seq(Chain(B)) /\ h.lwd \in Nat /\ h.lwd >= 1
        /\ h.total = Len(Contents(cs))
        /\ \A i \in (h.lwd + 1)..Len(cs) : cs[i].data = << >>
        /\ h.lwd > 1 => cs[h.lwd].data # << >>
    BY BufferFacts, Zenon
  <1>3. u \in Seq(Chain(B)) /\ Len(u) = k /\ \A i \in 1..k : u[i] = cs[i]
    <2>1. cs \in Seq(Chain(B)) /\ k \in 0..Len(cs)
      BY <1>1, <1>2
    <2> HIDE DEF cs
    <2> QED BY ONLY <2>1, SplitAt, Zenon
  <1>4. Contents(u) = Contents(cs)
    BY <1>1, <1>2, ContentsUpto, Zenon
  <1> HIDE DEF u
  <1>5. Contents(Append(u, c)) = Contents(u) \o c.data /\ Contents(u) \in Seq(B)
    BY <1>3, ContentsAppend, Zenon
  <1>6. Contents(r.chains) = Contents(cs)
    <2>1. Contents(u) \o << >> = Contents(u)
      BY <1>5, ConcatEmptySeq
    <2> QED BY <1>1, <1>4, <1>5, <2>1, Zenon
  <1>7. /\ Len(r.chains) = k + 1 /\ r.chains[k + 1] = c
        /\ \A i \in 1..k : r.chains[i] = cs[i]
    BY <1>1, <1>3
  <1>8. \A i \in (r.lwd + 1)..Len(r.chains) : r.chains[i].data = << >>
    <2> TAKE i \in (r.lwd + 1)..Len(r.chains)
    <2>1. i = k + 1 \/ (i \in 1..k /\ i \in (h.lwd + 1)..Len(cs))
      BY <1>1, <1>2, <1>7
    <2> QED BY <1>1, <1>2, <1>7, <2>1, Zenon
  <1>9. r.lwd = 1 \/ (r.lwd \in 1..Len(r.chains) /\ r.chains[r.lwd].data # << >>)
    <2> SUFFICES ASSUME h.lwd # 1
                 PROVE  r.lwd \in 1..Len(r.chains) /\ r.chains[r.lwd].data # << >>
      BY <1>1
    <2>1. h.lwd > 1 /\ h.lwd \in 1..k /\ h.lwd \in 1..Len(r.chains)
      BY <1>1, <1>2, <1>7
    <2> QED BY <1>1, <1>2, <1>7, <2>1
  <1>10. r.total = Len(Contents(r.chains)) /\ ~r.bad
    BY <1>1, <1>2, <1>6
  <1>11. r \in Buffer(B)
    BY <1>8, <1>9, <1>10, BufferIs
  <1> QED BY <1>6, <1>7, <1>11

\* _evbuffer_expand_fast makes room for n bytes and moves no data; its assertions
\* hold.
LEMMA ExpandFastFacts ==
    ASSUME NEW B, NEW h \in Buffer(B), NEW n \in Nat
    PROVE  IsRoom(B, h, n, ExpandFast(h, n))
  <1> DEFINE cs == h.chains
             last == Len(cs)
             RoomOf == [i \in DOMAIN cs |->
                          IF cs[i].data = << >> THEN cs[i].size ELSE Space(cs[i])]
             Room(k) == SumOf(RoomOf, h.lwd, k)
             InUse(k) == Cardinality({i \in h.lwd..k :
                                        cs[i].data = << >> \/ Space(cs[i]) > 0})
             stops == {k \in h.lwd..last : Room(k) >= n \/ InUse(k) = Vecs}
             stop == IF stops = {} THEN last
                     ELSE CHOOSE k \in stops : \A j \in stops : k <= j
             aligned ==
                 [h EXCEPT !.chains = [i \in DOMAIN cs |->
                             IF i \in h.lwd..stop /\ cs[i].data = << >>
                             THEN [cs[i] EXCEPT !.mis = 0] ELSE cs[i]],
                           !.bad = @ \/ \E i \in h.lwd + 1..stop : cs[i].data # << >>]
             kept == IF cs[h.lwd].data = << >> THEN 0 ELSE h.lwd
             avail == IF kept = 0 THEN 0 ELSE Space(cs[h.lwd])
             behind == [aligned EXCEPT !.chains = Append(@, NewChain(n - Room(stop)))]
             instead == [aligned EXCEPT
                           !.chains = Append(Upto(@, kept), NewChain(n - avail)),
                           !.bad = @ \/ ~AllEmpty(Beyond(cs, kept))]
  <1>1. ExpandFast(h, n) =
            IF cs = << >> THEN Insert(h, NewChain(n))
            ELSE IF cs[last].fixed THEN Insert(h, NewChain(n))
            ELSE IF Room(stop) >= n THEN aligned
            ELSE IF InUse(stop) < Vecs THEN behind
            ELSE instead
    BY DEF ExpandFast
  <1>2. /\ h \in BufferRec(B) /\ cs \in Seq(Chain(B)) /\ h.lwd \in Nat /\ h.lwd >= 1
        /\ h.total \in Nat /\ h.bad = FALSE /\ h.frozen \in SUBSET {"start", "end"}
        /\ last \in Nat /\ DOMAIN cs = 1..last
        /\ \A i \in 1..last : cs[i] \in Chain(B)
    BY BufferFacts, Zenon
  <1>3. /\ \A i \in (h.lwd + 1)..last : cs[i].data = << >>
        /\ cs # << >> => h.lwd \in 1..last
        /\ h.lwd > 1 => cs[h.lwd].data # << >>
    BY BufferFacts, Zenon
  \* A chain put in, with all the room in it.
  <1>4. IsRoom(B, h, n, Insert(h, NewChain(n)))
    <2> DEFINE c == NewChain(n)
               r == Insert(h, c)
    <2>1. c \in Chain(B) /\ c.data = << >> /\ Space(c) >= n
      BY NewChainFacts
    <2> HIDE DEF c
    <2>2. Inserted(B, h, c, r)
      BY ONLY h \in Buffer(B), <2>1, InsertFacts
    <2> HIDE DEF r
    <2>3. /\ r \in Buffer(B) /\ r.frozen = h.frozen /\ r.lwd = h.lwd
          /\ Contents(r.chains) = Contents(h.chains) \o << >>
          /\ Len(r.chains) = h.lwd \/ Len(r.chains) = h.lwd + 1
          /\ r.chains[Len(r.chains)] = c
      BY <2>1, <2>2 DEF Inserted
    <2>4. Contents(r.chains) = Contents(h.chains)
      <3>1. Contents(h.chains) \in Seq(B)
        BY BufferFacts, Zenon
      <3>2. Contents(h.chains) \o << >> = Contents(h.chains)
        BY ONLY <3>1, ConcatEmptySeq
      <3> QED BY <2>3, <3>2
    <2> DEFINE ds == r.chains
               k == Len(ds)
    <2>5. ds \in Seq(Chain(B)) /\ k \in Nat /\ r.lwd \in 1..k
      <3>1. ds \in Seq(Chain(B)) /\ k \in Nat
        BY <2>3, BufferFacts, Zenon
      <3> QED BY <1>2, <2>3, <3>1
    <2>6. SumOf(Spaces(ds), r.lwd, k) >= n
      <3> DEFINE m == SumOf(Spaces(ds), r.lwd, k - 1)
      <3>1. m \in Nat
        <4>1. Spaces(ds) \in Seq(Nat) /\ Len(Spaces(ds)) = k
          BY <2>5, SpacesFacts
        <4>2. k - 1 \in 0..Len(Spaces(ds)) /\ r.lwd \in Nat \ {0}
          BY <2>5, <4>1
        <4> HIDE DEF ds, k
        <4> QED BY ONLY <4>1, <4>2, SumFacts, Zenon
      <3>2. m + Space(ds[k]) >= n
        <4>1. Space(c) \in Nat
          BY <2>1, ChainFacts
        <4> HIDE DEF m
        <4> QED BY <2>1, <2>3, <3>1, <4>1
      <3>3. m >= m
        <4> HIDE DEF m
        <4> QED BY <3>1
      <3>4. r.lwd \in 1..Len(ds) /\ k \in Nat /\ k = Len(ds) /\ n \in Nat
        BY <2>5
      <3> QED BY ONLY <2>5, <3>1, <3>2, <3>3, <3>4, RoomAtLast, Zenon
    <2>7. IsRoom(B, h, n, r)
      BY <2>3, <2>4, <2>5, <2>6 DEF IsRoom
    <2> QED BY <2>7 DEF r, c
  <1>5. CASE cs = << >>
    BY <1>1, <1>4, <1>5
  <1>6. ASSUME cs # << >>, ~cs[last].fixed
        PROVE  IsRoom(B, h, n, ExpandFast(h, n))
    <2> DEFINE ns == Spaces(cs)
    <2>1. h.lwd \in 1..last /\ last \in 1..last
      BY <1>2, <1>3, <1>6
    <2>2. ns \in Seq(Nat) /\ Len(ns) = last
          /\ \A j \in 1..last : ns[j] = Space(cs[j]) /\ Space(cs[j]) \in Nat
      BY <1>2, SpacesFacts
    <2>3. RoomOf = ns
      <3>1. \A i \in 1..last : cs[i].data = << >> => Space(cs[i]) = cs[i].size
        BY <1>2, ChainFacts, Zenon
      <3>2. ns = [i \in 1..last |-> Space(cs[i])]
        BY <1>2 DEF Spaces
      <3>3. RoomOf = [i \in 1..last |->
                       IF cs[i].data = << >> THEN cs[i].size ELSE Space(cs[i])]
        BY <1>2
      <3> HIDE DEF ns, RoomOf
      <3> QED BY <3>1, <3>2, <3>3
    <2> HIDE DEF ns, RoomOf
    <2>4. \A k \in 0..last : Room(k) \in Nat
      <3>1. h.lwd \in Nat \ {0}
        BY <2>1
      <3> QED BY <2>2, <2>3, <3>1, SumFacts
    <2>5. \A k \in 1..last : k >= h.lwd => Room(k) = Room(k - 1) + Space(cs[k])
      <3>1. h.lwd \in Nat \ {0}
        BY <2>1
      <3>2. \A k \in 1..Len(ns) : k >= h.lwd =>
              SumOf(ns, h.lwd, k) = SumOf(ns, h.lwd, k - 1) + ns[k]
        BY <2>2, <3>1, SumFacts, Zenon
      <3> QED BY <2>2, <2>3, <3>2
    <2>6. \A k \in 0..last : \A j \in 0..k : Room(j) <= Room(k)
      <3> TAKE k \in 0..last
      <3>1. h.lwd \in 1..Len(ns) /\ k \in 0..Len(ns)
        BY <2>1, <2>2
      <3> QED BY <2>2, <2>3, <3>1, SumMonotone
    <2>7. \A k : k < h.lwd /\ k \in 0..last => Room(k) = 0
      <3>1. h.lwd \in Nat \ {0}
        BY <2>1
      <3> QED BY <2>2, <2>3, <3>1, SumFacts
    <2>8. stop \in h.lwd..last /\ (stops = {} => stop = last)
      <3>1. CASE stops = {}
        <4> HIDE DEF stops
        <4> QED BY <1>2, <2>1, <3>1
      <3>2. CASE stops # {}
        <4>1. stops \in SUBSET Nat
          BY <1>2
        <4>2. stops \subseteq h.lwd..last
          OBVIOUS
        <4> HIDE DEF stops
        <4>3. \E k \in stops : \A j \in stops : k <= j
          BY <3>2, <4>1, LeastExists, Zenon
        <4>4. stop \in stops
          BY <3>2, <4>3
        <4> QED BY <3>2, <4>2, <4>4, Zenon
      <3> QED BY <3>1, <3>2, Zenon
    <2>9. ~(Room(stop) >= n) /\ InUse(stop) < Vecs => stop = last
      <3>1. ASSUME ~(Room(stop) >= n), InUse(stop) < Vecs, stops # {}
            PROVE  FALSE
        <4>1. stops \in SUBSET Nat
          BY <1>2
        <4>2. \A k \in stops : Room(k) >= n \/ InUse(k) = Vecs
          OBVIOUS
        <4> HIDE DEF stops
        <4>3. \E k \in stops : \A j \in stops : k <= j
          BY <3>1, <4>1, LeastExists, Zenon
        <4>4. stop \in stops
          BY <3>1, <4>3
        <4>5. Vecs \in Nat
          BY EvbufferAssumption
        <4> HIDE DEF stop, Room, InUse
        <4>6. InUse(stop) = Vecs
          BY <3>1, <4>2, <4>4
        <4> QED BY <3>1, <4>5, <4>6
      <3> HIDE DEF stop, Room, InUse, stops
      <3> QED BY <2>8, <3>1
    <2> HIDE DEF stop, stops, InUse
    \* Nothing is there to be aligned.
    <2>10. /\ aligned.chains = cs /\ aligned.lwd = h.lwd /\ aligned.total = h.total
           /\ aligned.frozen = h.frozen /\ aligned.bad = FALSE /\ aligned \in BufferRec(B)
      <3> DEFINE as == [i \in DOMAIN cs |->
                          IF i \in h.lwd..stop /\ cs[i].data = << >>
                          THEN [cs[i] EXCEPT !.mis = 0] ELSE cs[i]]
                 b == \E i \in h.lwd + 1..stop : cs[i].data # << >>
      <3>1. \A i \in 1..last : cs[i].data = << >> => [cs[i] EXCEPT !.mis = 0] = cs[i]
        <4> TAKE i \in 1..last
        <4> DEFINE c == cs[i]
        <4>1. c \in Chain(B)
          BY <1>2
        <4> HIDE DEF c
        <4>2. c.data = << >> => c.mis = 0
          BY <4>1, ChainFacts
        <4>3. c \in ChainRec(B)
          BY <4>1 DEF Chain
        <4>4. c.data = << >> => [c EXCEPT !.mis = 0] = c
          BY <4>2, <4>3 DEF ChainRec
        <4> QED BY <4>4 DEF c
      <3>2. as = cs
        <4>1. \A i \in 1..last : as[i] = cs[i]
          BY <1>2, <3>1
        <4>2. as = [i \in 1..last |-> as[i]]
          BY <1>2
        <4>3. cs = [i \in 1..last |-> cs[i]]
          BY <1>2
        <4> HIDE DEF as, cs
        <4> QED BY <4>1, <4>2, <4>3, Zenon
      <3>3. b = FALSE
        <4>1. \A i \in (h.lwd + 1)..stop : i \in (h.lwd + 1)..last
          BY <1>2, <2>8
        <4> QED BY <1>3, <4>1
      <3> HIDE DEF as, b
      <3>4. aligned = [h EXCEPT !.chains = as, !.bad = @ \/ b]
        BY DEF as, b
      <3> HIDE DEF aligned
      <3> QED BY <1>2, <3>2, <3>3, <3>4, Zenon DEF BufferRec
    <2> HIDE DEF aligned
    <2>11. CASE Room(stop) >= n
      <3>1. ExpandFast(h, n) = aligned
        BY <1>1, <1>6, <2>11
      <3>2. aligned \in Buffer(B)
        <4>1. h \in Buffer(B) /\ Sane(h)
          BY DEF Buffer
        <4>2. Sane(aligned)
          BY <1>2, <2>10, <4>1, Zenon DEF Sane
        <4> QED BY <2>10, <4>2 DEF Buffer
      <3>3. Room(last) >= n
        <4>1. stop \in 0..last /\ last \in 0..last
          BY <1>2, <2>8
        <4>2. Room(stop) <= Room(last) /\ Room(stop) \in Nat /\ Room(last) \in Nat
          BY <2>4, <2>6, <4>1
        <4> HIDE DEF Room
        <4> QED BY <2>11, <4>2
      <3>4. SumOf(Spaces(aligned.chains), aligned.lwd, Len(aligned.chains)) >= n
        BY <2>3, <2>10, <3>3 DEF ns
      <3>5. IsRoom(B, h, n, aligned)
        BY <2>1, <2>10, <3>2, <3>4 DEF IsRoom
      <3> QED BY <3>1, <3>5
    \* A chain behind k, with what room was missing before it.
    <2>12. ASSUME NEW k \in 0..last, NEW m \in Nat, NEW r \in BufferRec(B),
                  r.chains = Append(Upto(cs, k), NewChain(m)), r.lwd = h.lwd,
                  r.total = h.total, r.bad = FALSE, r.frozen = h.frozen,
                  \A i \in (k + 1)..last : cs[i].data = << >>,
                  k >= h.lwd \/ (h.lwd = 1 /\ k = 0), Room(k) + m >= n
           PROVE  IsRoom(B, h, n, r)
      <3> DEFINE c == NewChain(m)
                 ds == r.chains
      <3>1. c \in Chain(B) /\ c.data = << >> /\ Space(c) >= m /\ Space(c) \in Nat
        <4>1. c \in Chain(B) /\ c.data = << >> /\ Space(c) >= m
          BY NewChainFacts
        <4> HIDE DEF c
        <4> QED BY <4>1, ChainFacts
      <3> HIDE DEF c
      <3>2. Trailed(h, k, c, r)
        BY <2>12, <3>1 DEF Trailed, c
      <3>3. /\ r \in Buffer(B) /\ Contents(r.chains) = Contents(h.chains)
            /\ Len(ds) = k + 1 /\ ds[k + 1] = c
            /\ \A i \in 1..k : ds[i] = cs[i]
        <4>1. h \in Buffer(B) /\ r \in BufferRec(B)
          BY <2>12
        <4> QED BY ONLY <3>1, <3>2, <4>1, TrailedFacts
      <3>4. ds \in Seq(Chain(B)) /\ h.lwd \in 1..Len(ds) /\ k \in Nat
        <4>1. ds \in Seq(Chain(B))
          BY <3>3, BufferFacts, Zenon
        <4> QED BY <1>2, <2>1, <2>12, <3>3, <4>1
      <3> HIDE DEF ds
      <3>5. SumOf(Spaces(ds), h.lwd, k) = Room(k)
        <4>1. Spaces(ds) \in Seq(Nat) /\ Len(Spaces(ds)) = k + 1
              /\ \A j \in 1..(k + 1) : Spaces(ds)[j] = Space(ds[j])
          BY <3>3, <3>4, SpacesFacts, Zenon
        <4>2. \A j \in 1..k : Spaces(ds)[j] = ns[j]
          <5>1. \A j \in 1..k : j \in 1..last /\ j \in 1..(k + 1)
            BY <1>2, <2>12, <3>4
          <5> QED BY <2>2, <3>3, <4>1, <5>1
        <4>3. h.lwd \in Nat \ {0} /\ k \in Nat /\ k <= Len(ns) /\ k <= Len(Spaces(ds))
              /\ ns \in Seq(Nat) /\ Spaces(ds) \in Seq(Nat)
          <5>1. h.lwd \in Nat \ {0} /\ k \in Nat /\ k <= Len(ns)
            BY <2>1, <2>2, <2>12
          <5> QED BY <2>2, <4>1, <5>1
        <4>4. SumOf(Spaces(ds), h.lwd, k) = SumOf(ns, h.lwd, k)
          BY ONLY <4>2, <4>3, SumSame, Zenon
        <4> QED BY <2>3, <4>4
      <3>6. SumOf(Spaces(ds), h.lwd, Len(ds)) >= n
        <4>1. Room(k) \in Nat
          BY <2>4, <2>12
        <4> DEFINE u == Room(k)
                   j == k + 1
        <4>2. u \in Nat /\ u + m >= n
          BY <2>12, <4>1
        <4>3. SumOf(Spaces(ds), h.lwd, j - 1) >= u
          <5>1. j - 1 = k
            BY <3>4
          <5>2. SumOf(Spaces(ds), h.lwd, j - 1) = u
            BY <3>5, <5>1
          <5> HIDE DEF u, j
          <5> QED BY <4>2, <5>2
        <4>4. u + Space(ds[j]) >= n
          <5> HIDE DEF u
          <5> QED BY <3>1, <3>3, <4>2
        <4>5. ds \in Seq(Chain(B)) /\ h.lwd \in 1..Len(ds) /\ j \in Nat /\ j = Len(ds)
              /\ n \in Nat
          BY <3>3, <3>4
        <4> HIDE DEF u, j
        <4> QED BY ONLY <4>2, <4>3, <4>4, <4>5, RoomAtLast, Zenon
      <3>7. r.lwd \in 1..Len(r.chains)
        BY <2>12, <3>4 DEF ds
      <3> QED BY <2>12, <3>3, <3>6, <3>7 DEF IsRoom, ds
    <2>13. CASE ~(Room(stop) >= n) /\ InUse(stop) < Vecs
      <3>1. ExpandFast(h, n) = behind
        BY <1>1, <1>6, <2>13
      <3>2. stop = last /\ Room(last) \in Nat
        BY <1>2, <2>4, <2>9, <2>13
      <3> DEFINE m == n - Room(last)
      <3>3. m \in Nat /\ Room(last) + m >= n
        <4>1. ~(Room(last) >= n)
          BY <2>13, <3>2
        <4> HIDE DEF Room
        <4> QED BY <3>2, <4>1
      <3>4. behind = [aligned EXCEPT !.chains = Append(@, NewChain(m))]
        BY <3>2
      <3> HIDE DEF behind, m
      <3>5. Upto(cs, last) = cs
        <4>1. last \in 0..Len(cs) /\ cs \in Seq(Chain(B))
          BY <1>2
        <4> QED BY ONLY <4>1, SplitAt, Zenon
      <3>6. NewChain(m) \in Chain(B)
        BY <3>3, NewChainFacts
      <3>7. Append(cs, NewChain(m)) \in Seq(Chain(B))
        BY <1>2, <3>6
      <3>8. /\ behind.chains = Append(cs, NewChain(m)) /\ behind.lwd = h.lwd
            /\ behind.total = h.total /\ behind.bad = FALSE /\ behind.frozen = h.frozen
            /\ behind \in BufferRec(B)
        BY <1>2, <2>10, <3>4, <3>7, Zenon DEF BufferRec
      <3>9. \A i \in (last + 1)..last : cs[i].data = << >>
        BY <1>2
      <3>10. last \in 0..last /\ last >= h.lwd
        BY <1>2, <2>1
      <3>11. IsRoom(B, h, n, behind)
        BY <2>12, <3>3, <3>5, <3>8, <3>9, <3>10, Zenon
      <3> QED BY <3>1, <3>11
    <2>14. CASE ~(Room(stop) >= n) /\ ~(InUse(stop) < Vecs)
      <3>1. ExpandFast(h, n) = instead
        BY <1>1, <1>6, <2>14
      <3>2. /\ kept \in 0..last /\ \A i \in (kept + 1)..last : cs[i].data = << >>
            /\ kept >= h.lwd \/ (h.lwd = 1 /\ kept = 0)
        <4>1. CASE cs[h.lwd].data = << >>
          <5>1. h.lwd = 1 /\ kept = 0
            BY <1>2, <1>3, <4>1
          <5>2. \A i \in 1..last : i = 1 \/ i \in 2..last
            BY <1>2
          <5> QED BY <1>2, <1>3, <4>1, <5>1, <5>2
        <4>2. CASE cs[h.lwd].data # << >>
          BY <1>2, <1>3, <2>1, <4>2
        <4> QED BY <4>1, <4>2
      <3>3. avail = Room(kept) /\ avail \in Nat /\ avail <= n
        <4>1. CASE kept = 0
          BY <1>2, <2>1, <2>7, <4>1
        <4>2. CASE kept # 0
          <5>1. kept = h.lwd /\ avail = Space(cs[h.lwd])
            BY <4>2
          <5>2. h.lwd - 1 \in 0..last /\ h.lwd - 1 < h.lwd /\ h.lwd >= h.lwd
            BY <2>1
          <5>3. Room(h.lwd - 1) = 0
            BY <2>7, <5>2
          <5>4. Room(h.lwd) = Room(h.lwd - 1) + Space(cs[h.lwd]) /\ Space(cs[h.lwd]) \in Nat
            BY <2>1, <2>2, <2>5, <5>2, Zenon
          <5>5. Room(h.lwd) = avail /\ avail \in Nat
            <6> DEFINE u == Room(h.lwd - 1)
                       v == Room(h.lwd)
            <6>1. u = 0 /\ v = u + avail /\ avail \in Nat
              BY <5>1, <5>3, <5>4
            <6> HIDE DEF u, v, avail
            <6>2. v = avail
              BY ONLY <6>1
            <6> QED BY <6>1, <6>2 DEF v
          <5>6. Room(h.lwd) <= Room(stop) /\ Room(stop) \in Nat
            <6>1. stop \in 0..last /\ h.lwd \in 0..stop
              BY <1>2, <2>1, <2>8
            <6> QED BY <2>4, <2>6, <6>1
          <5> HIDE DEF Room
          <5> QED BY <2>14, <5>1, <5>5, <5>6
        <4> QED BY <4>1, <4>2
      <3> DEFINE m == n - avail
                 e == ~AllEmpty(Beyond(cs, kept))
      <3>4. m \in Nat /\ Room(kept) + m >= n
        <4> HIDE DEF Room, avail, kept
        <4> QED BY <3>3
      <3>5. e = FALSE
        <4>1. cs \in Seq(Chain(B)) /\ kept \in 0..Len(cs)
          BY <1>2, <3>2
        <4>2. \A i \in (kept + 1)..Len(cs) : cs[i].data = << >>
          BY <3>2
        <4> HIDE DEF kept, cs
        <4>3. AllEmpty(Beyond(cs, kept))
          BY ONLY <4>1, <4>2, ContentsUpto
        <4> QED BY <4>3
      <3>6. instead = [aligned EXCEPT !.chains = Append(Upto(@, kept), NewChain(m)),
                                      !.bad = @ \/ e]
        OBVIOUS
      <3> HIDE DEF instead, m, e, kept, avail
      <3>7. NewChain(m) \in Chain(B) /\ Upto(cs, kept) \in Seq(Chain(B))
        <4>1. cs \in Seq(Chain(B)) /\ kept \in 0..Len(cs)
          BY <1>2, <3>2
        <4>2. NewChain(m) \in Chain(B)
          BY <3>4, NewChainFacts
        <4>3. Upto(cs, kept) \in Seq(Chain(B))
          BY ONLY <4>1, SplitAt, Zenon
        <4> QED BY <4>2, <4>3
      <3>8. Append(Upto(cs, kept), NewChain(m)) \in Seq(Chain(B))
        BY <3>7
      <3>9. /\ instead.chains = Append(Upto(cs, kept), NewChain(m))
            /\ instead.lwd = h.lwd /\ instead.total = h.total
            /\ instead.bad = FALSE /\ instead.frozen = h.frozen
            /\ instead \in BufferRec(B)
        BY <1>2, <2>10, <3>5, <3>6, <3>8, Zenon DEF BufferRec
      <3>10. IsRoom(B, h, n, instead)
        BY <2>12, <3>2, <3>4, <3>9, Zenon
      <3> QED BY <3>1, <3>10
    <2> QED BY <2>11, <2>13, <2>14
  <1>7. CASE cs # << >> /\ cs[last].fixed
    BY <1>1, <1>4, <1>7
  <1> QED BY <1>5, <1>6, <1>7

\* What of s comes to be between the places a and b, when s ends before b or not.
Piece(s, a, b) == SubSeq(s, a + 1, IF b < Len(s) THEN b ELSE Len(s))
CapTo(s, a) == IF a < Len(s) THEN a ELSE Len(s)
IsPiece(B, s, a, b, x) ==
    /\ x \in Seq(B) /\ Len(x) <= b - a
    /\ Upto(s, CapTo(s, a)) \o x = Upto(s, CapTo(s, b))
    /\ a < Len(s) /\ b >= Len(s) => x # << >>
    /\ a >= Len(s) => x = << >>

\* It follows what came before it.
LEMMA PieceFacts ==
    ASSUME NEW B, NEW s \in Seq(B), NEW a \in Nat, NEW b \in Nat, a <= b
    PROVE  IsPiece(B, s, a, b, Piece(s, a, b))
  <1> DEFINE n == Len(s)
             c == CapTo(s, b)
             x == SubSeq(s, a + 1, c)
  <1>1. n \in Nat /\ c \in Nat /\ c <= n /\ c <= b /\ (b >= n => c = n)
        /\ (a <= n => a <= c)
    BY DEF CapTo
  <1>2. Piece(s, a, b) = x
    BY DEF Piece, CapTo
  <1>3. CASE a < n
    <2>1. CapTo(s, a) = a /\ a <= c
      BY <1>1, <1>3 DEF CapTo
    <2> HIDE DEF c
    <2>2. x \in Seq(B) /\ Len(x) = c - a
      BY <1>1, <1>3, <2>1
    <2>3. 1 \in 1..(Len(s) + 1) /\ a \in (1 - 1)..Len(s) /\ c \in a..Len(s)
      BY <1>1, <1>3, <2>1
    <2>4. SubSeq(s, 1, a) \o SubSeq(s, a + 1, c) = SubSeq(s, 1, c)
      BY ONLY s \in Seq(B), <2>3, ConcatAdjacentSubSeq
    <2>5. b >= n => x # << >>
      BY <1>1, <1>3, <2>2
    <2>6. Len(x) <= b - a
      BY <1>1, <2>2
    <2>7. IsPiece(B, s, a, b, x)
      <3>1. Upto(s, CapTo(s, a)) \o x = Upto(s, CapTo(s, b))
        BY <2>1, <2>4, Zenon DEF Upto, c
      <3>2. ~(a >= n)
        BY <1>3
      <3> QED BY <2>2, <2>5, <2>6, <3>1, <3>2, Zenon DEF IsPiece
    <2> QED BY <1>2, <2>7
  <1>4. CASE a >= n
    <2>1. CapTo(s, a) = n /\ c = n
      BY <1>1, <1>4 DEF CapTo
    <2> HIDE DEF c
    <2>2. x = << >>
      <3>1. a + 1 > n
        BY <1>1, <1>4
      <3> QED BY <1>1, <2>1, <3>1
    <2>3. Upto(s, n) \in Seq(B)
      BY DEF Upto
    <2>4. Upto(s, n) \o << >> = Upto(s, n)
      BY ONLY <2>3, ConcatEmptySeq
    <2>5. << >> \in Seq(B) /\ Len(<< >>) = 0
      BY EmptySeq
    <2>6. Upto(s, CapTo(s, a)) \o x = Upto(s, CapTo(s, b))
      BY <2>1, <2>2, <2>4, Zenon DEF c
    <2>7. /\ x \in Seq(B) /\ Len(x) <= b - a
          /\ ~(a < Len(s))
      BY <1>1, <1>4, <2>2, <2>5
    <2>8. IsPiece(B, s, a, b, x)
      BY <2>2, <2>6, <2>7, Zenon DEF IsPiece
    <2> QED BY <1>2, <2>8
  <1> QED BY <1>1, <1>3, <1>4

\* evbuffer_read: what arrived is at the end, if there is room for it.
IsFilled(B, h, s, r) ==
    /\ r \in Buffer(B) /\ r.frozen = h.frozen
    /\ Contents(r.chains) = Contents(h.chains) \o s

\* Fill spreads what arrived over the chains in order and loses none of it.
LEMMA FillFacts ==
    ASSUME NEW B, NEW h \in Buffer(B), NEW s \in Seq(B), s # << >>,
           h.lwd \in 1..Len(h.chains),
           SumOf(Spaces(h.chains), h.lwd, Len(h.chains)) >= Len(s)
    PROVE  IsFilled(B, h, s, Fill(h, s))
  <1> DEFINE cs == h.chains
             last == Len(cs)
             ns == Spaces(cs)
             n == Len(s)
             first == IF Space(cs[h.lwd]) = 0 THEN h.lwd + 1 ELSE h.lwd
             To(i) == SumOf([j \in DOMAIN cs |-> Space(cs[j])], first, i)
             Part(i) == SubSeq(s, To(i - 1) + 1, IF To(i) < Len(s) THEN To(i) ELSE Len(s))
             at == CHOOSE i \in first..last : To(i) >= Len(s) /\ To(i - 1) < Len(s)
             ds == [i \in DOMAIN cs |-> IF i < first THEN cs[i]
                                        ELSE [cs[i] EXCEPT !.data = @ \o Part(i)]]
             r == [h EXCEPT !.total = @ + Len(s), !.lwd = at, !.chains = ds]
  <1>1. Fill(h, s) = r
    BY DEF Fill
  <1>2. /\ h \in BufferRec(B) /\ cs \in Seq(Chain(B)) /\ h.lwd \in Nat /\ h.lwd >= 1
        /\ h.total \in Nat /\ h.bad = FALSE /\ h.frozen \in SUBSET {"start", "end"}
        /\ last \in Nat /\ DOMAIN cs = 1..last
        /\ \A i \in 1..last : cs[i] \in Chain(B)
    BY BufferFacts, Zenon
  <1>3. /\ \A i \in (h.lwd + 1)..last : cs[i].data = << >>
        /\ h.total = Len(Contents(cs)) /\ h.lwd \in 1..last
    BY BufferFacts, Zenon
  <1>4. n \in Nat /\ n > 0
    BY EmptySeq
  <1>5. ns \in Seq(Nat) /\ Len(ns) = last
        /\ \A j \in 1..last : ns[j] = Space(cs[j]) /\ Space(cs[j]) \in Nat
    BY <1>2, SpacesFacts
  <1>6. \A i : To(i) = SumOf(ns, first, i)
    BY DEF Spaces
  <1> HIDE DEF ns, To
  <1>7. first \in 1..last /\ first >= h.lwd /\ To(last) >= n
    <2>1. SumOf(ns, h.lwd, last) >= n
      BY DEF ns
    <2>2. CASE Space(cs[h.lwd]) = 0
      <3>1. first = h.lwd + 1 /\ ns[h.lwd] = 0
        BY <1>3, <1>5, <2>2
      <3>2. SumOf(ns, h.lwd + 1, last) = SumOf(ns, h.lwd, last)
        <4>1. h.lwd \in 1..Len(ns) /\ last \in 0..Len(ns)
          BY <1>2, <1>3, <1>5
        <4> HIDE DEF cs, last
        <4> QED BY ONLY <1>5, <3>1, <4>1, SumMonotone
      <3>3. To(last) >= n
        BY <1>6, <2>1, <3>1, <3>2
      <3>4. ASSUME h.lwd = last PROVE FALSE
        <4>1. last \in 0..Len(ns) /\ h.lwd + 1 \in Nat \ {0} /\ last < h.lwd + 1
          BY <1>2, <1>5, <3>4
        <4>2. SumOf(ns, h.lwd + 1, last) = 0
          <5> HIDE DEF cs, last
          <5> QED BY ONLY <1>5, <4>1, SumFacts
        <4> QED BY <1>4, <2>1, <3>2, <4>2
      <3> QED BY <1>2, <1>3, <3>1, <3>3, <3>4
    <2>3. CASE Space(cs[h.lwd]) # 0
      <3>1. first = h.lwd
        BY <2>3
      <3> QED BY <1>2, <1>3, <1>6, <2>1, <3>1
    <2> QED BY <2>2, <2>3
  <1> HIDE DEF first
  <1>8. /\ \A i \in 0..last : To(i) \in Nat
        /\ \A i \in 0..last : i < first => To(i) = 0
        /\ \A i \in 1..last : i >= first => To(i) = To(i - 1) + Space(cs[i])
    <2>1. first \in Nat \ {0}
      BY <1>7
    <2>2. /\ \A i \in 0..Len(ns) : SumOf(ns, first, i) \in Nat
          /\ \A i \in 0..Len(ns) : i < first => SumOf(ns, first, i) = 0
          /\ \A i \in 1..Len(ns) : i >= first =>
                SumOf(ns, first, i) = SumOf(ns, first, i - 1) + ns[i]
      <3> HIDE DEF cs, last
      <3> QED BY ONLY <1>5, <2>1, SumFacts, Zenon
    <2> QED BY <1>5, <1>6, <2>2, Zenon
  <1>9. \A i \in 0..last : \A j \in 0..i : To(j) <= To(i)
    <2> TAKE i \in 0..last
    <2>1. first \in 1..Len(ns) /\ i \in 0..Len(ns) /\ ns \in Seq(Nat)
      BY <1>5, <1>7
    <2>2. \A j \in 0..i : SumOf(ns, first, j) <= SumOf(ns, first, i)
      BY ONLY <2>1, SumMonotone
    <2> QED BY <1>6, <2>2
  \* What goes into each chain.
  <1>10. ASSUME NEW i \in first..last
         PROVE  /\ IsPiece(B, s, To(i - 1), To(i), Part(i))
                /\ Len(Part(i)) <= Space(cs[i])
    <2>1. /\ i \in 1..last /\ i - 1 \in 0..last /\ i \in 0..last /\ i >= first
      BY <1>2, <1>7
    <2>2. /\ To(i - 1) \in Nat /\ To(i) \in Nat /\ To(i) = To(i - 1) + Space(cs[i])
          /\ Space(cs[i]) \in Nat
      BY <1>5, <1>8, <2>1, Zenon
    <2> DEFINE a == To(i - 1)
               b == To(i)
               x == Part(i)
    <2>3. a \in Nat /\ b \in Nat /\ a <= b /\ b - a = Space(cs[i])
      <3> DEFINE z == Space(cs[i])
      <3>1. a \in Nat /\ b \in Nat /\ z \in Nat /\ b = a + z
        BY <2>2
      <3> HIDE DEF a, b, z
      <3>2. a <= b /\ b - a = z
        BY ONLY <3>1
      <3> QED BY <3>1, <3>2 DEF z
    <2>4. x = Piece(s, a, b)
      BY DEF Piece
    <2> HIDE DEF a, b, x
    <2>5. IsPiece(B, s, a, b, x)
      BY <2>3, <2>4, PieceFacts
    <2>6. Len(x) <= Space(cs[i])
      BY <2>3, <2>5 DEF IsPiece
    <2> QED BY <2>5, <2>6, Zenon DEF a, b, x
  <1> HIDE DEF Part
  <1>11. ASSUME NEW i \in first..last
         PROVE  ds[i].data = cs[i].data \o Part(i) /\ ds[i] \in Chain(B)
    <2> DEFINE c == cs[i]
               x == Part(i)
               d == [c EXCEPT !.data = @ \o x]
    <2>1. i \in 1..last /\ ~(i < first)
      BY <1>2, <1>7
    <2>2. ds[i] = d
      BY <1>2, <2>1
    <2>3. c \in Chain(B) /\ x \in Seq(B) /\ Len(x) <= Space(c)
      BY <1>2, <1>10, <2>1 DEF IsPiece
    <2> HIDE DEF c, x
    <2>4. c \in ChainRec(B) /\ c.data \in Seq(B)
      BY <2>3, ChainFacts DEF Chain
    <2>5. c.data \o x \in Seq(B)
      BY <2>3, <2>4, ConcatProperties
    <2>6. /\ d.size = c.size /\ d.fixed = c.fixed /\ d.data = c.data \o x
          /\ d.mis = c.mis /\ d \in ChainRec(B)
      BY <2>4, <2>5, Zenon DEF ChainRec
    <2> HIDE DEF d
    <2>7. d \in Chain(B)
      BY <2>3, <2>6, ChainGrown, Zenon
    <2> QED BY <2>2, <2>6, <2>7, Zenon DEF c, x
  <1>12. ASSUME NEW i \in 1..last, i < first PROVE ds[i] = cs[i]
    BY <1>2, <1>12
  <1>13. ds \in Seq(Chain(B)) /\ Len(ds) = last
    <2>1. \A i \in 1..last : ds[i] \in Chain(B)
      <3> TAKE i \in 1..last
      <3>1. CASE i < first
        BY <1>2, <1>12, <3>1
      <3>2. CASE ~(i < first)
        <4>1. i \in first..last
          BY <1>2, <1>7, <3>2
        <4> QED BY <1>11, <4>1, Zenon
      <3> QED BY <3>1, <3>2
    <2>2. ds = [i \in 1..last |-> ds[i]]
      BY <1>2
    <2> HIDE DEF ds, cs
    <2> QED BY <1>2, <2>1, <2>2
  <1>14. \A i \in (first + 1)..last : cs[i].data = << >>
    <2>1. \A i \in (first + 1)..last : i \in (h.lwd + 1)..last
      BY <1>2, <1>7
    <2> QED BY <1>3, <2>1
  <1> HIDE DEF ds
  <1> DEFINE U(k) == Contents(Upto(cs, k))
             V(k) == Contents(Upto(ds, k))
             W(k) == Upto(s, CapTo(s, To(k)))
             P == {k \in 0..last : V(k) = U(k) \o W(k)}
  <1>15. \A k \in 0..last : /\ U(k) \in Seq(B) /\ W(k) \in Seq(B)
                            /\ k < first => W(k) = << >>
    <2> TAKE k \in 0..last
    <2>1. U(k) \in Seq(B)
      <3>1. cs \in Seq(Chain(B)) /\ k \in 0..Len(cs)
        BY <1>2
      <3> HIDE DEF cs
      <3>2. Upto(cs, k) \in Seq(Chain(B))
        BY ONLY <3>1, SplitAt, Zenon
      <3> QED BY <3>2, ContentsConcat
    <2>2. CapTo(s, To(k)) \in 0..Len(s) /\ (k < first => CapTo(s, To(k)) = 0)
      <3>1. To(k) \in Nat /\ (k < first => To(k) = 0)
        BY <1>8
      <3> DEFINE t == To(k)
      <3> HIDE DEF t
      <3>2. t \in Nat /\ (k < first => t = 0)
        BY <3>1 DEF t
      <3>3. CapTo(s, t) \in 0..Len(s) /\ (k < first => CapTo(s, t) = 0)
        BY <1>4, <3>2 DEF CapTo
      <3> QED BY <3>3 DEF t
    <2> DEFINE t == CapTo(s, To(k))
    <2> HIDE DEF t
    <2>3. t \in 0..Len(s) /\ (k < first => t = 0)
      BY <2>2 DEF t
    <2>4. Upto(s, t) \in Seq(B) /\ Upto(s, 0) = << >>
      BY <2>3, SplitAt, Zenon
    <2>5. Upto(s, t) \in Seq(B) /\ (k < first => Upto(s, t) = << >>)
      BY <2>3, <2>4
    <2> QED BY <2>1, <2>5 DEF t
  <1>16. \A k \in 1..last : /\ cs[k].data \in Seq(B)
                            /\ U(k) = U(k - 1) \o cs[k].data
                            /\ V(k) = V(k - 1) \o ds[k].data
    <2> TAKE k \in 1..last
    <2>1. /\ cs \in Seq(Chain(B)) /\ k \in 1..Len(cs)
          /\ ds \in Seq(Chain(B)) /\ k \in 1..Len(ds)
      BY <1>2, <1>13
    <2>2. cs[k].data \in Seq(B)
          /\ Contents(Upto(cs, k)) = Contents(Upto(cs, k - 1)) \o cs[k].data
      <3> HIDE DEF cs
      <3> QED BY ONLY <2>1, ContentsAround, Zenon
    <2>3. Contents(Upto(ds, k)) = Contents(Upto(ds, k - 1)) \o ds[k].data
      <3> HIDE DEF cs
      <3> QED BY ONLY <2>1, ContentsAround, Zenon
    <2> QED BY <2>2, <2>3
  <1>17. V(0) = << >> /\ U(0) = << >>
    <2>1. 0 \in 0..Len(cs) /\ 0 \in 0..Len(ds)
      BY <1>2, <1>13
    <2>2. Upto(cs, 0) = << >>
      BY <1>2, <2>1, SplitAt, Zenon
    <2>3. Upto(ds, 0) = << >>
      BY <1>13, <2>1, SplitAt, Zenon
    <2>4. Contents(<< >>) = << >>
      BY DEF Contents, FlattenSeq
    <2> QED BY <2>2, <2>3, <2>4
  <1>18. \A k \in first..last : W(k - 1) \o Part(k) = W(k) /\ Part(k) \in Seq(B)
    BY <1>10 DEF IsPiece
  <1> HIDE DEF U, V, W
  <1>19. 0 \in P
    <2>1. 0 \in 0..last /\ 0 < first
      BY <1>2, <1>7
    <2>2. W(0) = << >>
      BY <1>15, <2>1
    <2>3. << >> \o << >> = << >>
      BY EmptySeq, ConcatEmptySeq
    <2> QED BY <1>17, <2>1, <2>2, <2>3, Zenon
  <1>20. ASSUME NEW k \in 1..last, k - 1 \in P
         PROVE  k \in P
    <2> DEFINE u == U(k - 1)
               v == cs[k].data
               w == W(k - 1)
               x == Part(k)
    <2>1. k \in 0..last /\ k - 1 \in 0..last
      BY <1>2
    <2>2. /\ V(k - 1) = u \o w /\ u \in Seq(B) /\ v \in Seq(B) /\ w \in Seq(B)
          /\ U(k) = u \o v /\ V(k) = (u \o w) \o ds[k].data
      BY <1>15, <1>16, <1>20, <2>1, Zenon
    <2> HIDE DEF u, v, w
    <2>3. CASE k < first
      <3>1. ds[k].data = v /\ w = << >> /\ W(k) = << >>
        <4>1. k - 1 < first
          BY <1>7, <2>3
        <4> QED BY <1>12, <1>15, <2>1, <2>3, <4>1, Zenon DEF v, w
      <3>2. (u \o << >>) \o v = (u \o v) \o << >>
        <4>1. u \o << >> = u
          BY ONLY <2>2, ConcatEmptySeq
        <4>2. u \o v \in Seq(B)
          BY ONLY <2>2, ConcatProperties
        <4>3. (u \o v) \o << >> = u \o v
          BY ONLY <4>2, ConcatEmptySeq
        <4> QED BY <4>1, <4>3
      <3> QED BY <2>1, <2>2, <3>1, <3>2, Zenon
    <2>4. CASE k >= first
      <3>1. k \in first..last
        BY <1>2, <1>7, <2>4
      <3>2. /\ ds[k].data = v \o x /\ x \in Seq(B) /\ w \o x = W(k)
        BY <1>11, <1>18, <3>1, Zenon DEF v, w
      <3> HIDE DEF x
      <3>5. u \in Seq(B) /\ v \in Seq(B) /\ w \in Seq(B) /\ x \in Seq(B)
        BY <2>2, <3>2
      <3>3. CASE k = first
        <4>1. w = << >>
          <5>1. k - 1 < first
            BY <1>7, <3>3
          <5> QED BY <1>15, <2>1, <5>1 DEF w
        <4>2. << >> \o x = x
          BY ONLY <3>2, ConcatEmptySeq
        <4>3. (u \o << >>) \o (v \o x) = (u \o v) \o x
          <5>1. u \o << >> = u
            BY ONLY <3>5, ConcatEmptySeq
          <5>2. Associates(u, v, x)
            BY ONLY <3>5, AssociatesAll
          <5> QED BY <5>1, <5>2 DEF Associates
        <4>4. V(k) = U(k) \o W(k)
          BY <2>2, <3>2, <4>1, <4>2, <4>3, Zenon
        <4> QED BY <2>1, <4>4
      <3>4. CASE k # first
        <4>1. v = << >>
          <5>1. k \in (first + 1)..last
            BY <1>2, <1>7, <3>1, <3>4
          <5> QED BY <1>14, <5>1 DEF v
        <4>2. (u \o w) \o (<< >> \o x) = (u \o << >>) \o (w \o x)
          <5>1. u \o << >> = u /\ << >> \o x = x
            BY ONLY <3>5, ConcatEmptySeq
          <5>2. Associates(u, w, x)
            BY ONLY <3>5, AssociatesAll
          <5> QED BY <5>1, <5>2, Zenon DEF Associates
        <4>3. V(k) = U(k) \o W(k)
          BY <2>2, <3>2, <4>1, <4>2, Zenon
        <4> QED BY <2>1, <4>3
      <3> QED BY <3>3, <3>4
    <2> QED BY <1>7, <2>3, <2>4
  <1>21. Contents(ds) = Contents(cs) \o s
    <2>1. last \in P
      <3> HIDE DEF P
      <3>1. 0..last \subseteq P
        BY <1>2, <1>19, <1>20, BoundedInduction, Zenon
      <3> QED BY <1>2, <3>1
    <2>2. V(last) = U(last) \o W(last)
      BY <2>1, Zenon
    <2>3. CapTo(s, To(last)) = n
      <3>1. To(last) \in Nat
        BY <1>2, <1>8
      <3> DEFINE t == To(last)
      <3>2. t \in Nat /\ t >= n
        BY <1>7, <3>1
      <3> HIDE DEF t
      <3>3. CapTo(s, t) = n
        BY <1>4, <3>2 DEF CapTo
      <3> QED BY <3>3 DEF t
    <2>4. Upto(s, Len(s)) = s
      <3>1. Len(s) \in 0..Len(s)
        BY <1>4
      <3> QED BY <3>1, SplitAt, Zenon
    <2>5. W(last) = s
      BY <2>3, <2>4 DEF W
    <2>6. Upto(cs, last) = cs
      <3>1. last \in 0..Len(cs) /\ cs \in Seq(Chain(B))
        BY <1>2
      <3> QED BY ONLY <3>1, SplitAt, Zenon
    <2>7. Upto(ds, last) = ds
      <3>1. last \in 0..Len(ds) /\ ds \in Seq(Chain(B)) /\ Len(ds) = last
        BY <1>2, <1>13
      <3>2. Upto(ds, Len(ds)) = ds
        BY ONLY <3>1, SplitAt, Zenon
      <3> QED BY <3>1, <3>2
    <2> QED BY <2>2, <2>5, <2>6, <2>7 DEF U, V
  \* The last chain to get something.
  <1>22. /\ at \in first..last /\ To(at) >= n /\ To(at - 1) < n
    <2> DEFINE T == {i \in first..last : To(i) >= n}
    <2>1. T \in SUBSET Nat /\ last \in T
      BY <1>2, <1>7
    <2>2. PICK l \in T : \A j \in T : l <= j
      <3> HIDE DEF T
      <3> QED BY <2>1, LeastExists, Zenon
    <2>3. l \in first..last /\ To(l) >= n /\ l \in Nat
      BY <1>7
    <2>4. To(l - 1) < n
      <3>1. l - 1 \in 0..last
        BY <1>2, <1>7, <2>3
      <3>2. CASE l = first
        <4>1. To(l - 1) = 0
          BY <1>7, <1>8, <3>1, <3>2
        <4> QED BY <1>4, <4>1
      <3>3. CASE l # first
        <4>1. l - 1 \in first..last /\ ~(l <= l - 1)
          BY <1>2, <1>7, <2>3, <3>3
        <4>2. l - 1 \notin T
          BY <2>2, <4>1
        <4>3. ~(To(l - 1) >= n) /\ To(l - 1) \in Nat
          BY <1>8, <3>1, <4>1, <4>2
        <4> DEFINE t == To(l - 1)
        <4> HIDE DEF t
        <4>4. ~(t >= n) /\ t \in Nat
          BY <4>3 DEF t
        <4>5. t < n
          BY <1>4, <4>4
        <4> QED BY <4>5 DEF t
      <3> QED BY <3>2, <3>3
    <2>5. \E i \in first..last : To(i) >= Len(s) /\ To(i - 1) < Len(s)
      BY <2>3, <2>4
    <2> QED BY <2>5
  <1> HIDE DEF at
  <1>23. at \in 1..last /\ at \in Nat /\ at >= first /\ at >= h.lwd
    BY <1>2, <1>7, <1>22
  <1>24. ds[at].data # << >>
    <2>1. at - 1 \in 0..last /\ at \in 0..last
      BY <1>2, <1>23
    <2>2. Part(at) # << >>
      <3>1. IsPiece(B, s, To(at - 1), To(at), Part(at))
        BY <1>10, <1>22
      <3> QED BY <1>22, <3>1 DEF IsPiece
    <2>3. ds[at].data = cs[at].data \o Part(at) /\ Part(at) \in Seq(B)
      BY <1>11, <1>18, <1>22
    <2>4. cs[at].data \in Seq(B)
      BY <1>16, <1>23, Zenon
    <2> QED BY <2>2, <2>3, <2>4, ConcatEqualIffEmpty
  <1>25. ASSUME NEW i \in (at + 1)..last
         PROVE  ds[i].data = << >>
    <2>1. i \in first..last /\ i \in (first + 1)..last /\ i - 1 \in 0..last
          /\ at \in 0..(i - 1)
      BY <1>2, <1>7, <1>23
    <2>2. To(i - 1) >= n
      <3>1. To(at) <= To(i - 1) /\ To(at) \in Nat /\ To(i - 1) \in Nat
        <4>1. at \in 0..last
          BY <1>2, <1>23
        <4> QED BY <1>8, <1>9, <2>1, <4>1
      <3> DEFINE t == To(at)
                 u == To(i - 1)
      <3>2. t <= u /\ t \in Nat /\ u \in Nat /\ t >= n
        BY <1>22, <3>1
      <3> HIDE DEF t, u
      <3>3. u >= n
        BY <1>4, <3>2
      <3> QED BY <3>3 DEF u
    <2>3. Part(i) = << >>
      BY <1>10, <2>1, <2>2 DEF IsPiece
    <2>4. ds[i].data = << >> \o << >>
      BY <1>11, <1>14, <2>1, <2>3, Zenon
    <2>5. << >> \o << >> = << >>
      BY EmptySeq, ConcatEmptySeq
    <2> QED BY <2>4, <2>5
  <1>26. /\ r.chains = ds /\ r.total = h.total + n /\ r.lwd = at /\ r.bad = FALSE
         /\ r.frozen = h.frozen /\ r \in BufferRec(B)
    <2>1. h.total + n \in Nat
      BY <1>2, <1>4
    <2> QED BY <1>2, <1>13, <1>23, <2>1, Zenon DEF BufferRec
  <1> HIDE DEF r
  <1>27. Len(Contents(cs) \o s) = Len(Contents(cs)) + Len(s)
    <2>1. Contents(cs) \in Seq(B)
      BY BufferFacts, Zenon
    <2> DEFINE t == Contents(cs)
    <2>2. t \in Seq(B) /\ s \in Seq(B)
      BY <2>1
    <2> HIDE DEF t
    <2>3. Len(t \o s) = Len(t) + Len(s)
      BY ONLY <2>2, ConcatProperties
    <2> QED BY <2>3 DEF t
  <1>28. r \in Buffer(B)
    <2>1. r.total = Len(Contents(r.chains)) /\ ~r.bad
      BY <1>3, <1>21, <1>26, <1>27
    <2>2. \A i \in (r.lwd + 1)..Len(r.chains) : r.chains[i].data = << >>
      BY <1>13, <1>25, <1>26
    <2>3. r.lwd \in 1..Len(r.chains) /\ r.chains[r.lwd].data # << >>
      BY <1>13, <1>23, <1>24, <1>26
    <2> QED BY <1>26, <2>1, <2>2, <2>3, BufferIs, Zenon
  <1>29. IsFilled(B, h, s, r)
    BY <1>21, <1>26, <1>28 DEF IsFilled
  <1> QED BY <1>1, <1>29

-----------------------------------------------------------------------------
\* r has the chains of h and then those of g.
IsBoth(h, g, r) ==
    /\ r.chains = h.chains \o g.chains /\ r.lwd = Len(h.chains) + g.lwd
    /\ r.total = h.total + g.total /\ r.bad = FALSE

\* It is in order if there is data in g.
LEMMA BothFacts ==
    ASSUME NEW B, NEW h \in Buffer(B), NEW g \in Buffer(B), g.total > 0,
           NEW r \in BufferRec(B), IsBoth(h, g, r)
    PROVE  r \in Buffer(B) /\ Contents(r.chains) = Contents(h.chains) \o Contents(g.chains)
  <1> DEFINE cs == h.chains
             ds == g.chains
             es == r.chains
             k == Len(cs)
             n == Len(ds)
  <1>1. /\ es = cs \o ds /\ r.lwd = k + g.lwd
        /\ r.total = h.total + g.total /\ r.bad = FALSE
    BY DEF IsBoth
  <1>2. /\ cs \in Seq(Chain(B)) /\ k \in Nat /\ h.total \in Nat
        /\ h.total = Len(Contents(cs)) /\ Contents(cs) \in Seq(B)
    BY BufferFacts, Zenon
  <1>3. /\ ds \in Seq(Chain(B)) /\ n \in Nat /\ g.total \in Nat
        /\ g.total = Len(Contents(ds)) /\ Contents(ds) \in Seq(B)
        /\ g.lwd \in Nat /\ g.lwd >= 1 /\ DOMAIN ds = 1..n
    BY BufferFacts, Zenon
  <1>4. \A i \in (g.lwd + 1)..n : ds[i].data = << >>
    BY BufferFacts, Zenon
  <1>5. g.lwd \in 1..n /\ ds[g.lwd].data # << >>
    <2>1. /\ ds # << >> => g.lwd \in 1..n
          /\ g.lwd > 1 => ds[g.lwd].data # << >>
          /\ AllEmpty(ds) <=> g.total = 0
      BY BufferFacts, Zenon
    <2>2. ~AllEmpty(ds)
      BY <1>3, <2>1
    <2>3. PICK i \in 1..n : ds[i].data # << >>
      BY <1>3, <2>2 DEF AllEmpty
    <2>4. g.lwd \in 1..n
      <3>1. ds # << >>
        BY <1>3, <2>3
      <3> QED BY <2>1, <3>1
    <2>5. CASE g.lwd = 1
      <3>1. ~(i \in (g.lwd + 1)..n)
        BY <1>4, <2>3
      <3>2. i = 1
        BY <1>3, <2>5, <3>1
      <3> QED BY <2>3, <2>4, <2>5, <3>2
    <2>6. CASE g.lwd # 1
      BY <1>3, <2>1, <2>4, <2>6
    <2> QED BY <2>5, <2>6
  <1> HIDE DEF cs, ds, es
  <1>6. Contents(es) = Contents(cs) \o Contents(ds)
    <2>1. Contents(cs \o ds) = Contents(cs) \o Contents(ds)
      BY ONLY <1>2, <1>3, ContentsConcat
    <2> QED BY <1>1, <2>1
  <1>7. Len(es) = k + n /\ \A i \in 1..n : es[k + i] = ds[i]
    <2>1. IsJoined(Chain(B), cs, ds, cs \o ds)
      BY <1>2, <1>3, Joined
    <2> QED BY <1>1, <2>1 DEF IsJoined
  <1>8. Len(Contents(es)) = h.total + g.total
    <2> DEFINE x == Contents(cs)
               y == Contents(ds)
    <2>1. x \in Seq(B) /\ y \in Seq(B)
      BY <1>2, <1>3
    <2> HIDE DEF x, y
    <2>2. Len(x \o y) = Len(x) + Len(y)
      BY ONLY <2>1, ConcatProperties
    <2> QED BY <1>2, <1>3, <1>6, <2>2 DEF x, y
  <1>9. \A i \in (r.lwd + 1)..Len(es) : es[i].data = << >>
    <2> TAKE i \in (r.lwd + 1)..Len(es)
    <2>1. i - k \in 1..n /\ i - k \in (g.lwd + 1)..n /\ k + (i - k) = i
      BY <1>1, <1>2, <1>3, <1>7
    <2> DEFINE j == i - k
    <2>2. j \in 1..n /\ j \in (g.lwd + 1)..n /\ k + j = i
      BY <2>1
    <2> HIDE DEF j
    <2>3. es[k + j] = ds[j] /\ ds[j].data = << >>
      BY <1>4, <1>7, <2>2
    <2> QED BY <2>2, <2>3
  <1>10. r.lwd \in 1..Len(es) /\ es[r.lwd].data # << >>
    BY <1>1, <1>2, <1>3, <1>5, <1>7
  <1>11. r \in Buffer(B)
    <2>1. r.total = Len(Contents(r.chains)) /\ ~r.bad
      BY <1>1, <1>8 DEF es
    <2>2. \A i \in (r.lwd + 1)..Len(r.chains) : r.chains[i].data = << >>
      BY <1>9 DEF es
    <2>3. r.lwd \in 1..Len(r.chains) /\ r.chains[r.lwd].data # << >>
      BY <1>10 DEF es
    <2> QED BY <2>1, <2>2, <2>3, BufferIs
  <1> QED BY <1>6, <1>11 DEF cs, ds, es

\* r is h with the bytes s in it.
IsWith(B, h, s, r) ==
    r \in Buffer(B) /\ r.frozen = h.frozen /\ Contents(r.chains) = s

\* The chains of g in h, which holds nothing.
LEMMA TakenFacts ==
    ASSUME NEW B, NEW h \in Buffer(B), NEW g \in Buffer(B)
    PROVE  IsWith(B, h, Contents(g.chains),
                  [h EXCEPT !.chains = g.chains, !.lwd = g.lwd, !.total = g.total])
  <1> DEFINE r == [h EXCEPT !.chains = g.chains, !.lwd = g.lwd, !.total = g.total]
  <1>1. h \in BufferRec(B) /\ g \in BufferRec(B) /\ h.bad = FALSE /\ g.bad = FALSE
    BY BufferFacts, Zenon
  <1>2. /\ r.chains = g.chains /\ r.lwd = g.lwd /\ r.total = g.total /\ r.bad = FALSE
        /\ r.frozen = h.frozen /\ r \in BufferRec(B)
    BY <1>1, Zenon DEF BufferRec
  <1> HIDE DEF r
  <1>3. Sane(r)
    <2>1. Sane(g)
      BY DEF Buffer
    <2> QED BY <1>1, <1>2, <2>1 DEF Sane
  <1>4. IsWith(B, h, Contents(g.chains), r)
    BY <1>2, <1>3 DEF IsWith, Buffer
  <1> QED BY <1>4 DEF r

\* evbuffer_add_buffer and evbuffer_prepend_buffer: the bytes of g are behind
\* those of h, or in front of them.
LEMMA TogetherFacts ==
    ASSUME NEW B, NEW h \in Buffer(B), NEW g \in Buffer(B), g.total > 0
    PROVE  /\ IsWith(B, h, Contents(h.chains) \o Contents(g.chains), Append2(h, g))
           /\ IsWith(B, h, Contents(g.chains) \o Contents(h.chains), Prepend2(h, g))
  <1> DEFINE taken == [h EXCEPT !.chains = g.chains, !.lwd = g.lwd, !.total = g.total]
             behind == [h EXCEPT !.chains = @ \o g.chains, !.lwd = Len(h.chains) + g.lwd,
                                 !.total = @ + g.total]
             before == [h EXCEPT !.chains = g.chains \o @, !.lwd = Len(g.chains) + @,
                                 !.total = @ + g.total]
             x == Contents(h.chains)
             y == Contents(g.chains)
  <1>1. /\ h \in BufferRec(B) /\ h.chains \in Seq(Chain(B)) /\ Len(h.chains) \in Nat
        /\ h.lwd \in Nat /\ h.total \in Nat /\ h.bad = FALSE /\ x \in Seq(B)
        /\ h.total = Len(x)
    BY BufferFacts, Zenon
  <1>2. /\ g.chains \in Seq(Chain(B)) /\ Len(g.chains) \in Nat
        /\ g.lwd \in Nat /\ g.total \in Nat /\ y \in Seq(B)
    BY BufferFacts, Zenon
  <1>3. CASE h.total = 0
    <2>1. Append2(h, g) = taken /\ Prepend2(h, g) = taken
      BY <1>3 DEF Append2, Prepend2
    <2>2. IsWith(B, h, y, taken)
      BY TakenFacts, Zenon
    <2> HIDE DEF taken, x, y
    <2>3. x = << >>
      BY <1>1, <1>3, EmptySeq, Zenon
    <2>4. << >> \o y = y /\ y \o << >> = y
      BY <1>2, ConcatEmptySeq
    <2>5. x \o y = y /\ y \o x = y
      BY <2>3, <2>4
    <2>6. IsWith(B, h, x \o y, Append2(h, g)) /\ IsWith(B, h, y \o x, Prepend2(h, g))
      BY <2>1, <2>2, <2>5
    <2> QED BY <2>6 DEF x, y
  <1>4. CASE h.total # 0
    <2>1. Append2(h, g) = behind /\ Prepend2(h, g) = before
      BY <1>4 DEF Append2, Prepend2
    <2>2. /\ behind.chains = h.chains \o g.chains /\ behind.lwd = Len(h.chains) + g.lwd
          /\ behind.total = h.total + g.total /\ behind.bad = FALSE
          /\ behind.frozen = h.frozen /\ behind \in BufferRec(B)
      <3>1. /\ h.chains \o g.chains \in Seq(Chain(B))
            /\ Len(h.chains) + g.lwd \in Nat /\ h.total + g.total \in Nat
        BY <1>1, <1>2
      <3> QED BY <1>1, <3>1, Zenon DEF BufferRec
    <2>3. /\ before.chains = g.chains \o h.chains /\ before.lwd = Len(g.chains) + h.lwd
          /\ before.total = g.total + h.total /\ before.bad = FALSE
          /\ before.frozen = h.frozen /\ before \in BufferRec(B)
      <3>1. /\ g.chains \o h.chains \in Seq(Chain(B)) /\ h.total + g.total = g.total + h.total
            /\ Len(g.chains) + h.lwd \in Nat /\ h.total + g.total \in Nat
        BY <1>1, <1>2
      <3> QED BY <1>1, <3>1, Zenon DEF BufferRec
    <2> HIDE DEF behind, before
    <2>4. IsBoth(h, g, behind) /\ IsBoth(g, h, before)
      BY <2>2, <2>3 DEF IsBoth
    <2>5. h.total > 0 /\ g.total > 0
      BY <1>1, <1>4
    <2>6. behind \in Buffer(B) /\ Contents(behind.chains) = x \o y
      <3>1. h \in Buffer(B) /\ g \in Buffer(B) /\ behind \in BufferRec(B)
        BY <2>2
      <3> QED BY ONLY <2>4, <2>5, <3>1, BothFacts
    <2>7. before \in Buffer(B) /\ Contents(before.chains) = y \o x
      <3>1. h \in Buffer(B) /\ g \in Buffer(B) /\ before \in BufferRec(B)
        BY <2>3
      <3> QED BY ONLY <2>4, <2>5, <3>1, BothFacts
    <2> QED BY <2>1, <2>2, <2>3, <2>6, <2>7 DEF IsWith
  <1> QED BY <1>3, <1>4

\* ZERO_CHAIN: nothing is left.
LEMMA ZeroFacts ==
    ASSUME NEW B, NEW h \in Buffer(B)
    PROVE  IsWith(B, h, << >>, Zero(h)) /\ Len(Zero(h).chains) = 0
  <1> DEFINE r == Zero(h)
  <1>1. h \in BufferRec(B) /\ h.bad = FALSE
    BY BufferFacts, Zenon
  <1>2. << >> \in Seq(Chain(B))
    OBVIOUS
  <1>3. /\ r.chains = << >> /\ r.lwd = 1 /\ r.total = 0 /\ r.bad = FALSE
        /\ r.frozen = h.frozen /\ r \in BufferRec(B)
    BY <1>1, <1>2, Zenon DEF Zero, BufferRec
  <1> HIDE DEF r
  <1>4. r \in Buffer(B) /\ Contents(r.chains) = << >> /\ Len(r.chains) = 0
    BY <1>3, NoChains
  <1> QED BY <1>3, <1>4 DEF IsWith, r

\* The first k chains of g, which all have data, put behind those of h.
Shifted(h, g, k) ==
    Advance([h EXCEPT !.chains = @ \o Upto(g.chains, k),
                      !.total = @ + Len(Contents(Upto(g.chains, k)))])
IsShifted(B, h, g, k, r) ==
    /\ IsWith(B, h, Contents(h.chains) \o Contents(Upto(g.chains, k)), r)
    /\ Tight(r)

\* It is in order, and so is the pointer, which advances over them.
LEMMA ShiftedFacts ==
    ASSUME NEW B, NEW h \in Buffer(B), Tight(h), NEW g \in Buffer(B),
           NEW k \in 1..Len(g.chains), \A i \in 1..k : g.chains[i].data # << >>
    PROVE  IsShifted(B, h, g, k, Shifted(h, g, k))
  <1> DEFINE cs == h.chains
             ds == Upto(g.chains, k)
             some == Len(Contents(ds))
             m == Len(cs)
             x == [h EXCEPT !.chains = @ \o ds, !.total = @ + some]
             r == [x EXCEPT !.lwd = m + k]
  <1>1. /\ h \in BufferRec(B) /\ cs \in Seq(Chain(B)) /\ m \in Nat
        /\ h.lwd \in Nat /\ h.lwd >= 1 /\ h.total \in Nat /\ h.bad = FALSE
        /\ h.total = Len(Contents(cs)) /\ Contents(cs) \in Seq(B)
    BY ONLY h \in Buffer(B), BufferFacts, Zenon
  <1>0. /\ cs = << >> => h.lwd = 1
        /\ cs # << >> => h.lwd \in 1..m
    BY ONLY h \in Buffer(B), BufferFacts, Zenon
  <1>2. g.chains \in Seq(Chain(B)) /\ Len(g.chains) \in Nat /\ k \in Nat /\ k >= 1
    <2>1. g.chains \in Seq(Chain(B)) /\ Len(g.chains) \in Nat
      BY ONLY g \in Buffer(B), BufferFacts, Zenon
    <2> QED BY <2>1
  <1>3. ds \in Seq(Chain(B)) /\ Len(ds) = k /\ \A i \in 1..k : ds[i] = g.chains[i]
    <2>1. k \in 0..Len(g.chains)
      BY <1>2
    <2> QED BY ONLY <1>2, <2>1, UptoFacts, Zenon
  <1>4. \A i \in 1..k : ds[i].data # << >>
    BY <1>3
  <1>5. some \in Nat /\ Contents(ds) \in Seq(B)
    <2>1. Contents(ds) \in Seq(B)
      BY <1>3, ContentsConcat
    <2> QED BY <2>1
  <1>6. Shifted(h, g, k) = Advance(x)
    BY DEF Shifted
  <1> HIDE DEF cs, ds
  <1>7. /\ cs \o ds \in Seq(Chain(B)) /\ Len(cs \o ds) = m + k
        /\ \A i \in 1..k : (cs \o ds)[m + i] = ds[i]
    <2>1. IsJoined(Chain(B), cs, ds, cs \o ds)
      BY <1>1, <1>3, Joined
    <2> QED BY <1>3, <2>1 DEF IsJoined
  <1>8. Contents(cs \o ds) = Contents(cs) \o Contents(ds)
    BY ONLY <1>1, <1>3, ContentsConcat
  <1>9. Len(Contents(cs) \o Contents(ds)) = h.total + some
    <2> DEFINE u == Contents(cs)
               v == Contents(ds)
    <2>1. u \in Seq(B) /\ v \in Seq(B)
      BY <1>1, <1>5
    <2> HIDE DEF u, v
    <2>2. Len(u \o v) = Len(u) + Len(v)
      BY ONLY <2>1, ConcatProperties
    <2> QED BY <1>1, <2>2 DEF u, v
  <1>10. /\ x.chains = cs \o ds /\ x.total = h.total + some /\ x.lwd = h.lwd
         /\ x.bad = FALSE /\ x.frozen = h.frozen /\ x \in BufferRec(B)
    <2>1. h.total + some \in Nat
      BY <1>1, <1>5
    <2> QED BY <1>1, <1>7, <2>1, Zenon DEF BufferRec, cs
  <1> HIDE DEF x, some
  <1>11. h.lwd >= m
    BY DEF Tight, cs
  <1>12. h.lwd \in 1..(m + k) /\ (h.lwd = m \/ (m = 0 /\ h.lwd = 1))
    <2>1. CASE cs = << >>
      <3>1. m = 0 /\ h.lwd = 1
        BY <1>0, <2>1, EmptySeq
      <3> QED BY <1>2, <3>1
    <2>2. CASE cs # << >>
      BY <1>0, <1>1, <1>2, <1>11, <2>2
    <2> QED BY <2>1, <2>2
  <1>13. Advance(x) = r
    <2>1. x.lwd \in 1..Len(x.chains) /\ m + k \in x.lwd..Len(x.chains)
          /\ ~(m + k < Len(x.chains))
      BY <1>1, <1>2, <1>7, <1>10, <1>12
    <2>2. \A i \in (x.lwd + 1)..(m + k) : x.chains[i].data # << >>
      <3> TAKE i \in (x.lwd + 1)..(m + k)
      <3>1. i - m \in 1..k /\ m + (i - m) = i
        BY <1>1, <1>2, <1>10, <1>12
      <3> DEFINE j == i - m
      <3>2. j \in 1..k /\ m + j = i
        BY <3>1
      <3> HIDE DEF j
      <3> QED BY <1>4, <1>7, <1>10, <3>2
    <2>3. m + k < Len(x.chains) => x.chains[m + k + 1].data = << >>
      BY <2>1
    <2> QED BY <1>10, <2>1, <2>2, <2>3, AdvanceFacts, Zenon
  <1>14. /\ r.chains = cs \o ds /\ r.total = h.total + some /\ r.lwd = m + k
         /\ r.bad = FALSE /\ r.frozen = h.frozen /\ r \in BufferRec(B)
    <2>1. m + k \in Nat
      BY <1>1, <1>2
    <2> QED BY <1>10, <2>1, Zenon DEF BufferRec
  <1> HIDE DEF r
  <1>15. r \in Buffer(B)
    <2>1. r.total = Len(Contents(r.chains)) /\ ~r.bad
      BY <1>8, <1>9, <1>14
    <2>2. \A i \in (r.lwd + 1)..Len(r.chains) : r.chains[i].data = << >>
      BY <1>1, <1>2, <1>7, <1>14
    <2>3. r.lwd \in 1..Len(r.chains) /\ r.chains[r.lwd].data # << >>
      <3>1. k \in 1..k
        BY <1>2
      <3> QED BY <1>1, <1>2, <1>4, <1>7, <1>14, <3>1
    <2> QED BY <1>14, <2>1, <2>2, <2>3, BufferIs, Zenon
  <1>16. Tight(r)
    BY <1>1, <1>2, <1>7, <1>14 DEF Tight
  <1>17. IsShifted(B, h, g, k, r)
    BY <1>8, <1>14, <1>15, <1>16 DEF IsShifted, IsWith, cs, ds
  <1> QED BY <1>6, <1>13, <1>17

\* evbuffer_remove_buffer moves the first n bytes of g behind those of h.
LEMMA MovedFacts ==
    ASSUME NEW B, NEW h \in Buffer(B), NEW g \in Buffer(B), Tight(h), Gapless(g),
           g.total > 0, NEW n \in Nat
    PROVE  IsWith(B, h, Contents(h.chains)
                          \o SubSeq(Contents(g.chains), 1, CapTo(Contents(g.chains), n)),
                  MovedTo(h, g, n))
  <1> DEFINE ds == g.chains
             y == Contents(ds)
             k == Whole(ds, n)
             u == Contents(Upto(ds, k))
             w == Contents(Beyond(ds, k))
             some == Len(u)
             copied == SubSeq(w, 1, n - some)
             moved == IF some = 0 THEN h ELSE Shifted(h, g, k)
             x == Contents(h.chains)
  <1>1. MovedTo(h, g, n) = IF n >= g.total THEN Append2(h, g) ELSE Put(moved, copied)
    BY DEF MovedTo, Shifted
  <1>2. /\ ds \in Seq(Chain(B)) /\ Len(ds) \in Nat /\ g.total \in Nat /\ y \in Seq(B)
        /\ g.total = Len(y) /\ DOMAIN ds = 1..Len(ds)
        /\ g.lwd \in Nat /\ g.lwd >= 1
        /\ \A i \in (g.lwd + 1)..Len(ds) : ds[i].data = << >>
    BY BufferFacts, Zenon
  <1>3. x \in Seq(B)
    BY BufferFacts, Zenon
  <1>4. CASE n >= g.total
    <2>1. CapTo(y, n) = Len(y)
      BY <1>2, <1>4 DEF CapTo
    <2>2. SubSeq(y, 1, Len(y)) = y
      BY ONLY <1>2, SubSeqFull
    <2>3. IsWith(B, h, x \o y, Append2(h, g))
      BY TogetherFacts
    <2>4. MovedTo(h, g, n) = Append2(h, g)
      BY <1>1, <1>4
    <2>5. SubSeq(y, 1, CapTo(y, n)) = y
      BY <2>1, <2>2
    <2> HIDE DEF x, y
    <2>6. IsWith(B, h, x \o SubSeq(y, 1, CapTo(y, n)), MovedTo(h, g, n))
      BY <2>3, <2>4, <2>5, Zenon
    <2> QED BY <2>6 DEF x, y
  <1>5. CASE ~(n >= g.total)
    <2>1. n < g.total /\ MovedTo(h, g, n) = Put(moved, copied)
      BY <1>1, <1>2, <1>5
    <2>2. IsWhole(ds, n, k)
      BY <1>2, WholeFacts
    <2> HIDE DEF k
    <2>3. /\ k \in 0..Len(ds) /\ some <= n
          /\ k < Len(ds) => Len(Contents(Upto(ds, k + 1))) > n
      BY <2>2 DEF IsWhole
    <2>4. IsSplit(Chain(B), ds, k, Upto(ds, k), Beyond(ds, k))
      BY ONLY <1>2, <2>3, Split
    <2>5. /\ Upto(ds, k) \in Seq(Chain(B)) /\ Beyond(ds, k) \in Seq(Chain(B))
          /\ ds = Upto(ds, k) \o Beyond(ds, k)
      BY <2>4 DEF IsSplit
    <2>6. /\ u \in Seq(B) /\ w \in Seq(B) /\ y = u \o w
      <3> DEFINE a == Upto(ds, k)
                 b == Beyond(ds, k)
      <3>1. a \in Seq(Chain(B)) /\ b \in Seq(Chain(B)) /\ ds = a \o b
        BY <2>5
      <3> HIDE DEF a, b
      <3>2. Contents(a) \in Seq(B) /\ Contents(b) \in Seq(B)
            /\ Contents(a \o b) = Contents(a) \o Contents(b)
        BY ONLY <3>1, ContentsConcat
      <3> HIDE DEF ds
      <3> QED BY <3>1, <3>2, Zenon DEF a, b
    <2>7. some \in Nat /\ Len(w) \in Nat /\ Len(y) = some + Len(w)
      <3> HIDE DEF u, w, y
      <3>1. u \in Seq(B) /\ w \in Seq(B)
        BY <2>6
      <3>2. Len(u \o w) = Len(u) + Len(w)
        BY ONLY <3>1, ConcatProperties
      <3> QED BY <2>6, <3>2
    <2>8. k < Len(ds)
      <3> SUFFICES ASSUME k = Len(ds) PROVE FALSE
        BY <1>2, <2>3
      <3>1. Upto(ds, Len(ds)) = ds
        <4>1. Len(ds) \in 0..Len(ds)
          BY <1>2
        <4> QED BY ONLY <1>2, <4>1, SplitAt, Zenon
      <3>2. some = g.total
        BY <1>2, <3>1
      <3> HIDE DEF some
      <3> QED BY <1>2, <2>1, <2>3, <3>2
    \* The whole chains all have data.
    <2>9. ds[k + 1].data # << >>
      <3>1. k + 1 \in 1..Len(ds) /\ (k + 1) - 1 = k
        BY <1>2, <2>3, <2>8
      <3>2. Contents(Upto(ds, k + 1)) = Contents(Upto(ds, (k + 1) - 1)) \o ds[k + 1].data
        BY ONLY <1>2, <3>1, ContentsAround, Zenon
      <3>3. Contents(Upto(ds, k + 1)) = u \o ds[k + 1].data
        BY <3>1, <3>2, Zenon
      <3>4. ASSUME ds[k + 1].data = << >> PROVE FALSE
        <4>1. u \o << >> = u
          BY ONLY <2>6, ConcatEmptySeq
        <4>2. Len(Contents(Upto(ds, k + 1))) = some
          BY <3>3, <3>4, <4>1
        <4> HIDE DEF some
        <4> QED BY <2>3, <2>7, <2>8, <4>2
      <3> QED BY <3>4
    <2>10. \A i \in 1..k : ds[i].data # << >>
      <3>1. k + 1 <= g.lwd
        <4> SUFFICES ASSUME k + 1 > g.lwd PROVE FALSE
          BY <1>2, <2>3
        <4>1. k + 1 \in (g.lwd + 1)..Len(ds)
          BY <1>2, <2>3, <2>8
        <4> QED BY <1>2, <2>9, <4>1
      <3>2. \A i \in 1..k : i \in 1..g.lwd - 1
        BY <1>2, <2>3, <3>1
      <3> QED BY <3>2 DEF Gapless
    <2>11. moved \in Buffer(B) /\ moved.frozen = h.frozen
           /\ Contents(moved.chains) = x \o u /\ Tight(moved)
      <3>1. CASE some = 0
        <4>1. moved = h
          BY <3>1
        <4>2. u = << >>
          BY <2>6, <3>1, EmptySeq
        <4> HIDE DEF u, x, moved
        <4>3. x \o << >> = x
          BY ONLY <1>3, ConcatEmptySeq
        <4>4. x \o u = x
          BY <4>2, <4>3
        <4> QED BY <4>1, <4>4 DEF x
      <3>2. CASE some # 0
        <4>1. moved = Shifted(h, g, k)
          BY <3>2
        <4>2. k \in 1..Len(ds)
          <5>1. k # 0
            <6> SUFFICES ASSUME k = 0 PROVE FALSE
              OBVIOUS
            <6>1. Contents(Upto(ds, 0)) = << >>
              BY ONLY <1>2, NoneBefore
            <6>2. u = << >>
              BY <6>1
            <6> HIDE DEF u
            <6> QED BY <3>2, <6>2
          <5> QED BY <1>2, <2>3, <5>1
        <4>3. IsShifted(B, h, g, k, Shifted(h, g, k))
          BY <2>10, <4>2, ShiftedFacts
        <4> HIDE DEF moved
        <4> QED BY <4>1, <4>3 DEF IsShifted, IsWith
      <3> QED BY <3>1, <3>2
    <2>12. copied \in Seq(B) /\ u \o copied = SubSeq(y, 1, n)
      <3> HIDE DEF y, u, w
      <3>1. n - some \in 0..Len(w)
        BY <1>2, <2>1, <2>3, <2>7
      <3> DEFINE o == n - some
      <3>2. copied \in Seq(B) /\ Len(copied) = o /\ \A i \in 1..o : copied[i] = w[i]
        BY <2>6, <3>1
      <3>3. IsJoined(B, u, w, u \o w)
        BY ONLY <2>6, Joined
      <3>4. /\ y \in Seq(B) /\ Len(y) = some + Len(w)
            /\ \A i \in 1..some : y[i] = u[i]
            /\ \A i \in 1..Len(w) : y[some + i] = w[i]
        BY <2>6, <3>3 DEF IsJoined
      <3> HIDE DEF copied
      <3>5. IsJoined(B, u, copied, u \o copied)
        <4>1. u \in Seq(B) /\ copied \in Seq(B)
          BY <2>6, <3>2
        <4> QED BY ONLY <4>1, Joined
      <3> DEFINE z == u \o copied
      <3>6. /\ z \in Seq(B) /\ Len(z) = some + o
            /\ \A i \in 1..some : z[i] = u[i]
            /\ \A i \in 1..o : z[some + i] = copied[i]
        BY <3>2, <3>5 DEF IsJoined
      <3> HIDE DEF z, some
      <3>7. Len(z) = n
        BY <2>7, <3>6
      <3>8. \A i \in 1..n : z[i] = y[i]
        <4> TAKE i \in 1..n
        <4>1. CASE i <= some
          <5>1. i \in 1..some
            BY <2>7, <4>1
          <5> QED BY <3>4, <3>6, <5>1
        <4>2. CASE ~(i <= some)
          <5> DEFINE j == i - some
          <5>1. j \in 1..o /\ j \in 1..Len(w) /\ some + j = i
            BY <2>7, <3>1, <4>2
          <5> HIDE DEF j, o
          <5>2. z[some + j] = copied[j] /\ copied[j] = w[j] /\ y[some + j] = w[j]
            BY <3>2, <3>4, <3>6, <5>1
          <5> QED BY <5>1, <5>2
        <4> QED BY <4>1, <4>2
      <3>9. SubSeq(y, 1, n) = z
        <4>1. n <= Len(y)
          BY <1>2, <2>1
        <4>2. SubSeq(y, 1, n) \in Seq(B) /\ Len(SubSeq(y, 1, n)) = n
              /\ \A i \in 1..n : SubSeq(y, 1, n)[i] = y[i]
          BY <3>4, <4>1
        <4> DEFINE v == SubSeq(y, 1, n)
        <4> HIDE DEF v
        <4>3. v \in Seq(B) /\ Len(v) = n /\ \A i \in 1..n : v[i] = z[i]
          BY <3>8, <4>2 DEF v
        <4>4. v = z
          BY ONLY <3>6, <3>7, <4>3, SeqEqual
        <4> QED BY <4>4 DEF v
      <3> QED BY <3>2, <3>9 DEF z
    <2>13. CapTo(y, n) = n
      BY <1>2, <2>1 DEF CapTo
    <2> HIDE DEF moved, copied, x, y, u, w
    <2>14. /\ Put(moved, copied) \in Buffer(B) /\ Put(moved, copied).frozen = moved.frozen
           /\ Contents(Put(moved, copied).chains) = Contents(moved.chains) \o copied
      BY ONLY <2>11, <2>12, PutFacts, Zenon
    <2>15. (x \o u) \o copied = x \o (u \o copied)
      <3>1. x \in Seq(B) /\ u \in Seq(B) /\ copied \in Seq(B)
        BY <1>3, <2>6, <2>12
      <3>2. Associates(x, u, copied)
        BY ONLY <3>1, AssociatesAll
      <3> QED BY <3>2 DEF Associates
    <2>16. IsWith(B, h, x \o SubSeq(y, 1, CapTo(y, n)), Put(moved, copied))
      BY <2>11, <2>12, <2>13, <2>14, <2>15 DEF IsWith
    <2>17. IsWith(B, h, x \o SubSeq(y, 1, CapTo(y, n)), MovedTo(h, g, n))
      BY <2>1, <2>16
    <2> QED BY <2>17 DEF x, y
  <1> QED BY <1>4, <1>5

\* What stays behind.
LEMMA MovedFromFacts ==
    ASSUME NEW B, NEW g \in Buffer(B), NEW n \in Nat
    PROVE  IsDropped(B, g, CapTo(Contents(g.chains), n), MovedFrom(g, n))
  <1> DEFINE y == Contents(g.chains)
  <1>1. g.total = Len(y) /\ y \in Seq(B) /\ Len(y) \in Nat /\ Len(g.chains) \in Nat
    BY BufferFacts, Zenon
  <1>2. CASE n >= g.total
    <2>1. CapTo(y, n) = Len(y) /\ MovedFrom(g, n) = Zero(g)
      BY <1>1, <1>2 DEF CapTo, MovedFrom
    <2>2. IsWith(B, g, << >>, Zero(g)) /\ Len(Zero(g).chains) = 0
      BY ZeroFacts
    <2>3. SubSeq(y, Len(y) + 1, Len(y)) = << >>
      <3> HIDE DEF y
      <3> QED BY <1>1
    <2>4. IsDropped(B, g, Len(y), Zero(g))
      BY <1>1, <2>2, <2>3 DEF IsDropped, IsWith
    <2> QED BY <2>1, <2>4
  <1>3. CASE ~(n >= g.total)
    <2>1. CapTo(y, n) = n /\ MovedFrom(g, n) = Drop(g, n)
      BY <1>1, <1>3 DEF CapTo, MovedFrom
    <2> QED BY <2>1, DropFacts
  <1> QED BY <1>2, <1>3

-----------------------------------------------------------------------------
\* The buffers are in order, and their bytes were put into them.
IInv ==
    /\ used \in 0..MaxBytes
    /\ buf \in [Buffers -> Buffer(1..used)]
    /\ \A b \in Buffers : Len(buf[b].chains) <= MaxChains

\* It is what the run checks, and more.
LEMMA IInvIsWellFormed == IInv => WellFormed
  <1> SUFFICES ASSUME IInv PROVE WellFormed
    OBVIOUS
  <1>1. ASSUME NEW b \in Buffers
        PROVE  /\ buf[b].total = Len(Contents(buf[b].chains))
               /\ buf[b].lwd \in 1..MaxChains
               /\ \A i \in DOMAIN buf[b].chains :
                     buf[b].chains[i].mis >= 0
                     /\ buf[b].chains[i].mis + Off(buf[b].chains[i]) <= buf[b].chains[i].size
               /\ ~buf[b].bad
               /\ AllEmpty(buf[b].chains) => buf[b].lwd = 1
               /\ ~AllEmpty(buf[b].chains) =>
                    /\ buf[b].lwd <= Len(buf[b].chains)
                    /\ buf[b].chains[buf[b].lwd].data # << >>
                    /\ AllEmpty(Beyond(buf[b].chains, buf[b].lwd))
    <2> DEFINE h == buf[b]
               B == 1..used
               cs == h.chains
    <2>1. h \in Buffer(B) /\ Len(cs) <= MaxChains /\ MaxChains \in Nat \ {0}
      BY EvbufferAssumption DEF IInv
    <2> HIDE DEF h, B
    <2>2. /\ cs \in Seq(Chain(B)) /\ h.lwd \in Nat /\ h.lwd >= 1 /\ h.bad = FALSE
          /\ h.total \in Nat /\ h.total = Len(Contents(cs)) /\ Len(cs) \in Nat
          /\ DOMAIN cs = 1..Len(cs)
          /\ \A i \in 1..Len(cs) : cs[i] \in Chain(B)
      BY ONLY <2>1, BufferFacts, Zenon
    <2>3. /\ \A i \in (h.lwd + 1)..Len(cs) : cs[i].data = << >>
          /\ cs = << >> => h.lwd = 1
          /\ cs # << >> => h.lwd \in 1..Len(cs)
          /\ h.lwd > 1 => cs[h.lwd].data # << >>
          /\ AllEmpty(cs) <=> h.total = 0
          /\ h.lwd > 1 => h.total > 0
      BY ONLY <2>1, BufferFacts, Zenon
    <2> HIDE DEF cs
    <2>4. h.lwd \in 1..MaxChains
      BY <2>1, <2>2, <2>3
    <2>5. \A i \in DOMAIN cs : cs[i].mis >= 0 /\ cs[i].mis + Off(cs[i]) <= cs[i].size
      <3> TAKE i \in DOMAIN cs
      <3>1. cs[i] \in Chain(B)
        BY <2>2
      <3> DEFINE c == cs[i]
      <3> HIDE DEF c
      <3>2. c \in Chain(B)
        BY <3>1 DEF c
      <3>3. c.mis >= 0 /\ c.mis + Off(c) <= c.size
        BY <3>2, ChainFacts DEF Off
      <3> QED BY <3>3 DEF c
    <2>6. AllEmpty(cs) => h.lwd = 1
      BY <2>2, <2>3
    <2>7. ASSUME ~AllEmpty(cs)
          PROVE  /\ h.lwd <= Len(cs) /\ cs[h.lwd].data # << >>
                 /\ AllEmpty(Beyond(cs, h.lwd))
      <3>1. PICK i \in 1..Len(cs) : cs[i].data # << >>
        BY <2>2, <2>7 DEF AllEmpty
      <3>2. h.lwd \in 1..Len(cs)
        <4>1. cs # << >>
          BY <2>2, <3>1
        <4> QED BY <2>3, <4>1
      <3>3. cs[h.lwd].data # << >>
        <4>1. CASE h.lwd = 1
          <5>1. ~(i \in (h.lwd + 1)..Len(cs))
            BY <2>3, <3>1
          <5>2. i = 1
            BY <2>2, <4>1, <5>1
          <5> QED BY <3>1, <4>1, <5>2
        <4>2. CASE h.lwd # 1
          BY <2>2, <2>3, <4>2
        <4> QED BY <4>1, <4>2
      <3>4. AllEmpty(Beyond(cs, h.lwd))
        <4>1. cs \in Seq(Chain(B)) /\ h.lwd \in 0..Len(cs)
              /\ \A j \in (h.lwd + 1)..Len(cs) : cs[j].data = << >>
          BY <2>2, <2>3, <3>2
        <4> QED BY ONLY <4>1, ContentsUpto
      <3> QED BY <3>2, <3>3, <3>4
    <2> QED BY <2>2, <2>4, <2>5, <2>6, <2>7 DEF h, cs
  <1>2. used \in 0..MaxBytes
    BY DEF IInv
  <1>3. TypeOK
    BY <1>1, <1>2 DEF TypeOK
  <1>4. LastWithData
    BY <1>1 DEF LastWithData
  <1> QED BY <1>3, <1>4 DEF WellFormed

\* It holds of buffers that are empty.
LEMMA InitIInv == Init => IInv
  <1> SUFFICES ASSUME Init PROVE IInv
    OBVIOUS
  <1>1. used = 0 /\ buf = [b \in Buffers |-> Empty] /\ MaxBytes \in Nat
        /\ MaxChains \in Nat
    BY EvbufferAssumption DEF Init
  <1>2. << >> \in Seq(Chain(1..0)) /\ 1 \in Nat /\ 0 \in Nat
    OBVIOUS
  <1>3. /\ Empty.chains = << >> /\ Empty.lwd = 1 /\ Empty.total = 0
        /\ Empty.bad = FALSE /\ Empty \in BufferRec(1..0)
    BY <1>2 DEF Empty, BufferRec
  <1>4. Empty \in Buffer(1..0) /\ Len(Empty.chains) = 0
    BY <1>3, NoChains
  <1> QED BY <1>1, <1>4 DEF IInv

\* What is in order stays so when more bytes are put in elsewhere.
LEMMA Widened ==
    ASSUME NEW B, NEW C, B \subseteq C, NEW h \in Buffer(B)
    PROVE  h \in Buffer(C)
  <1>1. ASSUME NEW S, NEW T, S \subseteq T, NEW s \in Seq(S)
        PROVE  s \in Seq(T)
    <2>1. Len(s) \in Nat /\ s = [i \in 1..Len(s) |-> s[i]] /\ \A i \in 1..Len(s) : s[i] \in T
      BY <1>1
    <2> QED BY ONLY <2>1
  <1>2. Chain(B) \subseteq Chain(C)
    <2> SUFFICES ASSUME NEW c \in Chain(B) PROVE c \in Chain(C)
      OBVIOUS
    <2>1. c \in ChainRec(B) /\ c.data \in Seq(B)
      BY DEF Chain, ChainRec
    <2>2. c.data \in Seq(C)
      BY <1>1, <2>1
    <2>3. c \in ChainRec(C)
      BY <2>1, <2>2 DEF ChainRec
    <2> QED BY <2>3 DEF Chain
  <1>3. h \in BufferRec(B) /\ h.chains \in Seq(Chain(B)) /\ Sane(h)
    BY DEF Buffer, BufferRec
  <1>4. h.chains \in Seq(Chain(C))
    BY <1>1, <1>2, <1>3
  <1>5. h \in BufferRec(C)
    BY <1>3, <1>4 DEF BufferRec
  <1> QED BY <1>3, <1>5 DEF Buffer

\* One buffer is changed to r, which is in order.
LEMMA ChangeFacts ==
    ASSUME IInv, NEW b \in Buffers, NEW r, used' \in used..MaxBytes,
           r \in Buffer(1..used'), Len(r.chains) <= MaxChains, Change(b, r)
    PROVE  /\ IInv' /\ buf'[b] = r
           /\ \A c \in Buffers \ {b} : buf'[c] = buf[c]
  <1>1. /\ used \in 0..MaxBytes /\ MaxBytes \in Nat
        /\ buf \in [Buffers -> Buffer(1..used)]
        /\ \A c \in Buffers : Len(buf[c].chains) <= MaxChains
    BY EvbufferAssumption DEF IInv
  <1>2. buf' = [buf EXCEPT ![b] = r]
    BY DEF Change
  <1>3. buf'[b] = r /\ \A c \in Buffers \ {b} : buf'[c] = buf[c]
    BY <1>1, <1>2
  <1>4. used' \in 0..MaxBytes /\ 1..used \subseteq 1..used'
    BY <1>1
  <1>5. \A c \in Buffers : buf[c] \in Buffer(1..used')
    <2> TAKE c \in Buffers
    <2>1. buf[c] \in Buffer(1..used)
      BY <1>1
    <2> QED BY ONLY <1>4, <2>1, Widened, Zenon
  <1>6. buf' \in [Buffers -> Buffer(1..used')]
    BY <1>1, <1>2, <1>5
  <1>7. \A c \in Buffers : Len(buf'[c].chains) <= MaxChains
    BY <1>1, <1>3
  <1>8. IInv'
    BY <1>4, <1>6, <1>7 DEF IInv
  <1> QED BY <1>3, <1>8

\* The bytes put in are numbered on from those that were.
IsNew(n, s) ==
    /\ s \in Seq(1..(used + n)) /\ Len(s) = n /\ s # << >>
    /\ \A i, j \in DOMAIN s : s[i] = s[j] => i = j
    /\ \A i \in DOMAIN s : s[i] > used

\* New makes such bytes.
LEMMA NewFacts ==
    ASSUME used \in Nat, NEW n \in Nat \ {0}
    PROVE  IsNew(n, New(n))
  <1> DEFINE s == New(n)
  <1>1. s = [i \in 1..n |-> used + i]
    BY DEF New
  <1> HIDE DEF s
  <1>2. s \in Seq(1..(used + n)) /\ Len(s) = n /\ DOMAIN s = 1..n
    <2>1. \A i \in 1..n : used + i \in 1..(used + n)
      OBVIOUS
    <2>2. s \in [1..n -> 1..(used + n)]
      BY <1>1, <2>1
    <2>3. n \in Nat
      OBVIOUS
    <2> QED BY <2>2, <2>3
  <1>3. s # << >>
    BY <1>2, EmptySeq
  <1>4. \A i, j \in DOMAIN s : s[i] = s[j] => i = j
    BY <1>1, <1>2
  <1>5. \A i \in DOMAIN s : s[i] > used
    BY <1>1, <1>2
  <1>6. IsNew(n, s)
    BY <1>2, <1>3, <1>4, <1>5 DEF IsNew
  <1> QED BY <1>6 DEF s

\* The bytes in a buffer are those that were put in.
LEMMA HeldFacts ==
    ASSUME IInv, NEW b \in Buffers
    PROVE  /\ buf[b] \in Buffer(1..used) /\ Contents(buf[b].chains) \in Seq(1..used)
           /\ buf[b].total = Len(Contents(buf[b].chains))
           /\ Len(buf[b].chains) <= MaxChains /\ buf[b].frozen \subseteq {"start", "end"}
  <1>1. buf[b] \in Buffer(1..used) /\ Len(buf[b].chains) <= MaxChains
    BY DEF IInv
  <1> QED BY <1>1, BufferFacts, Zenon

\* What the queue of b is, and what it becomes.
Now(b)  == Contents(buf[b].chains)
Then(b) == Contents(buf'[b].chains)
Same(bs) == \A c \in Buffers \ bs : Then(c) = Now(c)

\* No queue changes.
LEMMA NothingMoves ==
    ASSUME Same({})
    PROVE  UNCHANGED [b \in Buffers |-> Contents(buf[b].chains)]
  BY DEF Same, Now, Then

\* Bytes that were in no buffer.
LEMMA NewToAll ==
    ASSUME IInv, NEW n \in Nat \ {0}, NEW s, IsNew(n, s)
    PROVE  Queues!New(s)
  <1>1. IsInjective(s)
    BY DEF IsInjective, IsNew
  <1>2. ASSUME NEW b \in Buffers, NEW x \in ToSet(Now(b)), x \in ToSet(s)
        PROVE  FALSE
    <2>1. Now(b) \in Seq(1..used) /\ used \in Nat
      BY HeldFacts DEF IInv, Now
    <2>2. PICK i \in DOMAIN Now(b) : x = Now(b)[i]
      BY DEF ToSet
    <2>3. x \in 1..used
      BY <2>1, <2>2
    <2>4. PICK j \in DOMAIN s : x = s[j]
      BY <1>2 DEF ToSet
    <2>5. x > used
      BY <2>4 DEF IsNew
    <2> QED BY <2>1, <2>3, <2>5
  <1>3. Queues!Held = UNION {ToSet(Now(b)) : b \in Buffers}
    <2>1. \A b \in Buffers : Queues!ToSet(Now(b)) = ToSet(Now(b))
      BY DEF Queues!ToSet, ToSet
    <2>2. Queues!Held = UNION {Queues!ToSet(Now(b)) : b \in Buffers}
      BY DEF Queues!Held, Now
    <2> QED BY <2>1, <2>2
  <1>4. ToSet(s) \cap Queues!Held = {}
    BY <1>2, <1>3
  <1>5. Queues!IsInjective(s) /\ Queues!ToSet(s) = ToSet(s)
    BY <1>1 DEF Queues!IsInjective, IsInjective, Queues!ToSet, ToSet
  <1> QED BY <1>4, <1>5 DEF Queues!New

\* Bytes come in at the end.
LEMMA AddsToQueue ==
    ASSUME IInv, NEW b \in Buffers, NEW n \in Nat \ {0}, NEW s, IsNew(n, s),
           Then(b) = Now(b) \o s, Same({b})
    PROVE  Queues!Add(b)
  <1> DEFINE x == Now(b)
             y == Then(b)
             B == 1..(used + n)
  <1>1. x \in Seq(B) /\ s \in Seq(B) /\ Len(s) = n
    <2>1. x \in Seq(1..used) /\ used \in Nat
      BY HeldFacts DEF IInv, Now
    <2>2. \A i \in 1..Len(x) : x[i] \in B
      BY <2>1
    <2>3. x \in Seq(B)
      <3>1. Len(x) \in Nat /\ x = [i \in 1..Len(x) |-> x[i]]
        BY <2>1
      <3> HIDE DEF x, B
      <3> QED BY <2>2, <3>1
    <2> QED BY <2>3 DEF IsNew
  <1> HIDE DEF x, y, B
  <1>2. IsJoined(B, x, s, y)
    <2>1. y = x \o s
      BY DEF x, y
    <2>2. IsJoined(B, x, s, x \o s)
      BY ONLY <1>1, Joined
    <2> QED BY <2>1, <2>2
  <1>3. /\ y \in Seq(B) /\ Len(y) = Len(x) + n /\ Len(x) \in Nat
        /\ \A i \in 1..Len(x) : y[i] = x[i]
        /\ \A i \in 1..n : y[Len(x) + i] = s[i]
    <2>1. Len(x) \in Nat
      BY <1>1
    <2> QED BY <1>1, <1>2, <2>1, Zenon DEF IsJoined
  <1>4. SubSeq(y, 1, Len(x)) = x
    BY <1>1, <1>3
  <1>5. SubSeq(y, Len(x) + 1, Len(y)) = s
    BY <1>1, <1>3
  <1>6. Queues!New(s)
    BY NewToAll
  <1>7. Len(y) - Len(x) > 0
    BY <1>3
  <1>8. Queues!Grown(b) = Len(y) - Len(x)
    BY Zenon DEF Queues!Grown, Now, Then, x, y
  <1>9. Queues!Others({b})
    BY DEF Queues!Others, Same, Now, Then
  <1>10. Queues!First(y, Len(x)) = x /\ Queues!New(Queues!Rest(y, Len(x)))
    BY <1>4, <1>5, <1>6, Zenon DEF Queues!First, Queues!Rest
  <1> QED BY <1>7, <1>8, <1>9, <1>10, Zenon DEF Queues!Add, Now, Then, x, y

\* Bytes come in at the front.
LEMMA PrependsToQueue ==
    ASSUME IInv, NEW b \in Buffers, NEW n \in Nat \ {0}, NEW s, IsNew(n, s),
           Then(b) = s \o Now(b), Same({b})
    PROVE  Queues!Prepend(b)
  <1> DEFINE x == Now(b)
             y == Then(b)
             B == 1..(used + n)
  <1>1. x \in Seq(B) /\ s \in Seq(B) /\ Len(s) = n
    <2>1. x \in Seq(1..used) /\ used \in Nat
      BY HeldFacts DEF IInv, Now
    <2>2. \A i \in 1..Len(x) : x[i] \in B
      BY <2>1
    <2>3. x \in Seq(B)
      <3>1. Len(x) \in Nat /\ x = [i \in 1..Len(x) |-> x[i]]
        BY <2>1
      <3> HIDE DEF x, B
      <3> QED BY <2>2, <3>1
    <2> QED BY <2>3 DEF IsNew
  <1> HIDE DEF x, y, B
  <1>2. IsJoined(B, s, x, y)
    <2>1. y = s \o x
      BY DEF x, y
    <2>2. IsJoined(B, s, x, s \o x)
      BY ONLY <1>1, Joined
    <2> QED BY <2>1, <2>2
  <1>3. /\ y \in Seq(B) /\ Len(y) = n + Len(x) /\ Len(x) \in Nat
        /\ \A i \in 1..n : y[i] = s[i]
        /\ \A i \in 1..Len(x) : y[n + i] = x[i]
    BY <1>1, <1>2 DEF IsJoined
  <1>4. SubSeq(y, 1, n) = s
    BY <1>1, <1>3
  <1>5. SubSeq(y, n + 1, Len(y)) = x
    BY <1>1, <1>3
  <1>6. Queues!New(s)
    BY NewToAll
  <1>7. Len(y) - Len(x) = n /\ n > 0
    BY <1>3
  <1>8. Queues!Grown(b) = Len(y) - Len(x)
    BY Zenon DEF Queues!Grown, Now, Then, x, y
  <1>9. Queues!Others({b})
    BY DEF Queues!Others, Same, Now, Then
  <1>10. Queues!Rest(y, n) = x /\ Queues!New(Queues!First(y, n))
    BY <1>4, <1>5, <1>6, Zenon DEF Queues!First, Queues!Rest
  <1>11. Queues!Grown(b) = n
    BY <1>7, <1>8
  <1> QED BY <1>7, <1>9, <1>10, <1>11, Zenon DEF Queues!Prepend, Now, Then, x, y

\* Bytes leave from the front.
LEMMA DrainsQueue ==
    ASSUME IInv, NEW b \in Buffers, NEW n \in Nat \ {0}, Now(b) # << >>,
           Then(b) = SubSeq(Now(b), n + 1, Len(Now(b))), Same({b})
    PROVE  Queues!Drain(b)
  <1> DEFINE x == Now(b)
             y == Then(b)
             m == IF n < Len(x) THEN n ELSE Len(x)
  <1>1. x \in Seq(1..used) /\ Len(x) \in Nat /\ Len(x) > 0
    <2>1. x \in Seq(1..used)
      BY HeldFacts DEF Now
    <2> QED BY <2>1, EmptySeq
  <1>2. y = SubSeq(x, n + 1, Len(x))
    OBVIOUS
  <1> HIDE DEF x, y
  <1>3. y = SubSeq(x, m + 1, Len(x)) /\ Len(y) = Len(x) - m /\ m \in Nat /\ m > 0
    <2>1. CASE n < Len(x)
      BY <1>1, <1>2, <2>1
    <2>2. CASE ~(n < Len(x))
      <3>1. m = Len(x)
        BY <2>2
      <3>2. SubSeq(x, n + 1, Len(x)) = << >> /\ SubSeq(x, Len(x) + 1, Len(x)) = << >>
        BY <1>1, <2>2
      <3>3. Len(y) = 0 /\ Len(x) - m = 0 /\ m \in Nat /\ m > 0
        BY <1>1, <1>2, <3>1, <3>2
      <3>4. y = SubSeq(x, m + 1, Len(x))
        BY <1>2, <3>1, <3>2, Zenon
      <3> HIDE DEF m
      <3> QED BY <3>3, <3>4
    <2> QED BY <2>1, <2>2, Zenon
  <1> HIDE DEF m
  <1>4. Queues!Grown(b) = Len(y) - Len(x)
    BY Zenon DEF Queues!Grown, Now, Then, x, y
  <1>5. Queues!Grown(b) < 0 /\ 0 - Queues!Grown(b) = m
    BY <1>1, <1>3, <1>4
  <1>6. Queues!Others({b})
    BY DEF Queues!Others, Same, Now, Then
  <1>7. y = Queues!Rest(x, m)
    BY <1>3 DEF Queues!Rest
  <1> QED BY <1>5, <1>6, <1>7 DEF Queues!Drain, Now, Then, x, y

\* Bytes move from the front of a to the end of b.
LEMMA MovesInQueues ==
    ASSUME IInv, NEW a \in Buffers, NEW b \in Buffers, a # b, NEW m \in Nat \ {0},
           m <= Len(Now(a)), Then(b) = Now(b) \o SubSeq(Now(a), 1, m),
           Then(a) = SubSeq(Now(a), m + 1, Len(Now(a))), Same({a, b})
    PROVE  Queues!Move(a, b)
  <1> DEFINE x == Now(a)
             z == Now(b)
             y == SubSeq(x, 1, m)
             B == 1..used
  <1>1. x \in Seq(B) /\ z \in Seq(B) /\ Len(x) \in Nat
    BY HeldFacts DEF Now
  <1>2. Then(b) = z \o y /\ Then(a) = SubSeq(x, m + 1, Len(x)) /\ m <= Len(x)
    OBVIOUS
  <1> HIDE DEF x, z, B
  <1>3. y \in Seq(B) /\ Len(y) = m
    BY <1>1, <1>2
  <1> HIDE DEF y
  <1>4. Len(z \o y) = Len(z) + m /\ Len(z) \in Nat
    <2>1. Len(z \o y) = Len(z) + Len(y)
      BY ONLY <1>1, <1>3, ConcatProperties, Zenon
    <2> QED BY <1>1, <1>3, <2>1
  <1>5. Queues!Grown(b) = Len(z \o y) - Len(z)
    BY <1>2, Zenon DEF Queues!Grown, Now, Then, z
  <1>6. Queues!Grown(b) = m
    BY <1>4, <1>5
  <1>7. Queues!Others({a, b})
    BY DEF Queues!Others, Same, Now, Then
  <1>8. Then(a) = Queues!Rest(x, m) /\ Then(b) = z \o Queues!First(x, m)
    BY <1>2, Zenon DEF Queues!Rest, Queues!First, y
  <1> QED BY <1>6, <1>7, <1>8 DEF Queues!Move, Now, Then, x, z

\* All of a comes to be in front of b.
LEMMA MovesBeforeInQueues ==
    ASSUME NEW a \in Buffers, NEW b \in Buffers,
           Then(b) = Now(a) \o Now(b), Then(a) = << >>, Same({a, b})
    PROVE  Queues!MoveBefore(a, b)
  BY DEF Queues!MoveBefore, Queues!Others, Same, Now, Then

-----------------------------------------------------------------------------
\* A step of the queues, or none; the buffers stay in order.
Kept == IInv' /\ (Queues!Next \/ Same({}))

\* A buffer becomes h.
IsNow(b, h) == IInv' /\ Then(b) = Contents(h.chains) /\ Same({b})

\* A buffer that changes and takes in no new byte keeps the invariant.
LEMMA BecomesFacts ==
    ASSUME IInv, NEW b \in Buffers, NEW h, h \in Buffer(1..used), Change(b, h),
           used' = used, Len(h.chains) <= MaxChains
    PROVE  IsNow(b, h)
  <1>1. used' \in used..MaxBytes /\ h \in Buffer(1..used')
    BY EvbufferAssumption DEF IInv
  <1>2. /\ IInv' /\ buf'[b] = h
        /\ \A c \in Buffers \ {b} : buf'[c] = buf[c]
    BY <1>1, ChangeFacts
  <1>3. Then(b) = Contents(h.chains) /\ Same({b})
    BY <1>2 DEF Then, Now, Same
  <1> QED BY <1>2, <1>3 DEF IsNow

\* So does a buffer that takes in n bytes.
LEMMA EnteringFacts ==
    ASSUME IInv, NEW b \in Buffers, NEW n \in Nat, NEW h, NEW end,
           h \in Buffer(1..(used + n)), Entering(b, n, h, end)
    PROVE  IsNow(b, h)
  <1>1. /\ used' = used + n /\ used + n <= MaxBytes /\ Change(b, h) /\ Within(b)
    BY DEF Entering
  <1>2. used' \in used..MaxBytes /\ h \in Buffer(1..used')
    BY <1>1, EvbufferAssumption DEF IInv
  <1>3. Len(h.chains) <= MaxChains
    <2>1. buf' = [buf EXCEPT ![b] = h] /\ buf \in [Buffers -> Buffer(1..used)]
      BY <1>1 DEF Change, IInv
    <2>2. buf'[b] = h
      BY <2>1
    <2> QED BY <1>1, <2>2 DEF Within
  <1>4. /\ IInv' /\ buf'[b] = h
        /\ \A c \in Buffers \ {b} : buf'[c] = buf[c]
    BY <1>1, <1>2, <1>3, ChangeFacts
  <1>5. Then(b) = Contents(h.chains) /\ Same({b})
    BY <1>4 DEF Then, Now, Same
  <1> QED BY <1>4, <1>5 DEF IsNow

\* A buffer with the same bytes in other chains.
LEMMA StaysFacts ==
    ASSUME NEW b \in Buffers, NEW h, IsNow(b, h), Contents(h.chains) = Now(b)
    PROVE  Kept
  BY DEF IsNow, Same, Kept

\* New bytes at the end, or at the front.
LEMMA EntersFacts ==
    ASSUME IInv, NEW b \in Buffers, NEW h, IsNow(b, h), NEW n \in Nat \ {0}, NEW s,
           IsNew(n, s), \/ Contents(h.chains) = Now(b) \o s
                        \/ Contents(h.chains) = s \o Now(b)
    PROVE  Kept
  <1>1. IInv' /\ Then(b) = Contents(h.chains) /\ Same({b})
    BY DEF IsNow
  <1>2. CASE Contents(h.chains) = Now(b) \o s
    <2>1. Then(b) = Now(b) \o s
      BY <1>1, <1>2
    <2>2. Queues!Add(b)
      BY <1>1, <2>1, AddsToQueue
    <2> QED BY <1>1, <2>2 DEF Kept, Queues!Next
  <1>3. CASE Contents(h.chains) = s \o Now(b)
    <2>1. Then(b) = s \o Now(b)
      BY <1>1, <1>3
    <2>2. Queues!Prepend(b)
      BY <1>1, <2>1, PrependsToQueue
    <2> QED BY <1>1, <2>2 DEF Kept, Queues!Next
  <1> QED BY <1>2, <1>3

\* What is put in, and where.
IsGiven(b, n, s) ==
    /\ IsNew(n, s) /\ s \in Seq(1..(used + n)) /\ s # << >> /\ n \in Nat
    /\ buf[b] \in Buffer(1..(used + n))

\* New bytes fit the buffer they are put into.
LEMMA GivenFacts ==
    ASSUME IInv, NEW b \in Buffers, NEW n \in Nat \ {0}
    PROVE  IsGiven(b, n, New(n))
  <1>1. used \in Nat /\ buf[b] \in Buffer(1..used)
    BY HeldFacts DEF IInv
  <1>2. IsNew(n, New(n))
    BY <1>1, NewFacts
  <1>3. 1..used \subseteq 1..(used + n)
    BY <1>1
  <1>4. buf[b] \in Buffer(1..(used + n))
    BY ONLY <1>1, <1>3, Widened
  <1> QED BY <1>2, <1>4 DEF IsGiven, IsNew

\* evbuffer_add.
LEMMA AddStep ==
    ASSUME IInv, ~Spares, NEW b \in Buffers, NEW n \in Nat \ {0}, Add(b, n)
    PROVE  Kept
  <1> DEFINE s == New(n)
             h == buf[b]
             B == 1..(used + n)
             r == Put(h, s)
  <1>1. Tight(h) /\ Entering(b, n, r, "end")
    BY DEF Add
  <1>2. IsGiven(b, n, s)
    BY GivenFacts
  <1> HIDE DEF s, h, B
  <1>3. s \in Seq(B) /\ h \in Buffer(B) /\ IsNew(n, s) /\ n \in Nat
    BY <1>2 DEF IsGiven, h, B
  <1>4. r \in Buffer(B) /\ Contents(r.chains) = Contents(h.chains) \o s
    BY ONLY <1>1, <1>3, PutFacts
  <1> HIDE DEF r
  <1>5. IsNow(b, r)
    BY <1>1, <1>3, <1>4, EnteringFacts DEF B
  <1>6. Contents(r.chains) = Now(b) \o s
    BY <1>4 DEF Now, h
  <1> QED BY <1>3, <1>5, <1>6, EntersFacts, Zenon

\* evbuffer_add_printf.
LEMMA PrintfStep ==
    ASSUME IInv, NEW b \in Buffers, NEW n \in Nat \ {0}, Printf(b, n)
    PROVE  Kept
  <1> DEFINE s == New(n)
             h == buf[b]
             B == 1..(used + n)
             r == Format(h, s)
  <1>1. Entering(b, n, r, "end")
    BY DEF Printf
  <1>2. IsGiven(b, n, s)
    BY GivenFacts
  <1> HIDE DEF s, h, B
  <1>3. s \in Seq(B) /\ h \in Buffer(B) /\ IsNew(n, s) /\ n \in Nat /\ s # << >>
    BY <1>2 DEF IsGiven, h, B
  <1>4. r \in Buffer(B) /\ Contents(r.chains) = Contents(h.chains) \o s
    BY ONLY <1>3, FormatFacts
  <1> HIDE DEF r
  <1>5. IsNow(b, r)
    BY <1>1, <1>3, <1>4, EnteringFacts DEF B
  <1>6. Contents(r.chains) = Now(b) \o s
    BY <1>4 DEF Now, h
  <1> QED BY <1>3, <1>5, <1>6, EntersFacts, Zenon

\* evbuffer_add_reference.
LEMMA ReferenceStep ==
    ASSUME IInv, ~Spares, NEW b \in Buffers, NEW n \in Nat \ {0}, AddReference(b, n)
    PROVE  Kept
  <1> DEFINE s == New(n)
             h == buf[b]
             B == 1..(used + n)
             c == Reference(s)
             r == Insert(h, c)
  <1>1. Tight(h) /\ Entering(b, n, r, "end")
    BY DEF AddReference
  <1>2. IsGiven(b, n, s)
    BY GivenFacts
  <1> HIDE DEF s, h, B
  <1>3. s \in Seq(B) /\ h \in Buffer(B) /\ IsNew(n, s) /\ n \in Nat /\ s # << >>
    BY <1>2 DEF IsGiven, h, B
  <1>4. c \in Chain(B) /\ c.data = s
    BY ONLY <1>3, ReferenceFacts
  <1> HIDE DEF c
  <1>5. Inserted(B, h, c, r)
    BY ONLY <1>1, <1>3, <1>4, InsertFacts
  <1>6. r \in Buffer(B) /\ Contents(r.chains) = Contents(h.chains) \o s
    BY <1>4, <1>5 DEF Inserted
  <1> HIDE DEF r
  <1>7. IsNow(b, r)
    BY <1>1, <1>3, <1>6, EnteringFacts DEF B
  <1>8. Contents(r.chains) = Now(b) \o s
    BY <1>6 DEF Now, h
  <1> QED BY <1>3, <1>7, <1>8, EntersFacts, Zenon

\* evbuffer_prepend.
LEMMA PrependStep ==
    ASSUME IInv, NEW b \in Buffers, NEW n \in Nat \ {0}, Prepend(b, n)
    PROVE  Kept
  <1> DEFINE s == New(n)
             h == buf[b]
             B == 1..(used + n)
             r == PutFirst(h, s)
  <1>1. Entering(b, n, r, "start")
    BY DEF Prepend
  <1>2. IsGiven(b, n, s)
    BY GivenFacts
  <1> HIDE DEF s, h, B
  <1>3. s \in Seq(B) /\ h \in Buffer(B) /\ IsNew(n, s) /\ n \in Nat /\ s # << >>
    BY <1>2 DEF IsGiven, h, B
  <1>4. r \in Buffer(B) /\ Contents(r.chains) = s \o Contents(h.chains)
    BY ONLY <1>3, PutFirstFacts
  <1> HIDE DEF r
  <1>5. IsNow(b, r)
    BY <1>1, <1>3, <1>4, EnteringFacts DEF B
  <1>6. Contents(r.chains) = s \o Now(b)
    BY <1>4 DEF Now, h
  <1> QED BY <1>3, <1>5, <1>6, EntersFacts, Zenon

\* evbuffer_read.
LEMMA ReadStep ==
    ASSUME IInv, NEW b \in Buffers, NEW n \in Nat \ {0}, NEW got \in 0..n, Read(b, n, got)
    PROVE  Kept
  <1> DEFINE h == buf[b]
             room == ExpandFast(h, n)
  <1>1. CASE got = 0
    <2>1. Entering(b, got, room, "end")
      BY <1>1 DEF Read
    <2>2. h \in Buffer(1..used) /\ used \in Nat
      BY HeldFacts DEF IInv
    <2>3. IsRoom(1..used, h, n, room)
      BY <2>2, ExpandFastFacts
    <2> HIDE DEF room
    <2>4. room \in Buffer(1..used) /\ Contents(room.chains) = Now(b)
      BY <2>3 DEF IsRoom, Now
    <2>5. 1..(used + got) = 1..used /\ got \in Nat
      BY <1>1, <2>2
    <2>6. IsNow(b, room)
      BY <2>1, <2>4, <2>5, EnteringFacts
    <2> QED BY <2>4, <2>6, StaysFacts
  <1>2. CASE got # 0
    <2> DEFINE s == New(got)
               B == 1..(used + got)
               r == Fill(room, s)
    <2>1. Entering(b, got, r, "end")
      BY <1>2 DEF Read
    <2>2. got \in Nat \ {0} /\ got <= n
      BY <1>2
    <2>3. IsGiven(b, got, s)
      BY <2>2, GivenFacts
    <2> HIDE DEF s, h, B
    <2>4. s \in Seq(B) /\ h \in Buffer(B) /\ IsNew(got, s) /\ s # << >> /\ Len(s) = got
      BY <2>3 DEF IsGiven, IsNew, h, B
    <2>5. IsRoom(B, h, n, room)
      <3>1. n \in Nat
        OBVIOUS
      <3> QED BY ONLY <2>4, <3>1, ExpandFastFacts
    <2> HIDE DEF room
    <2>6. /\ room \in Buffer(B) /\ room.lwd \in 1..Len(room.chains)
          /\ Contents(room.chains) = Contents(h.chains)
          /\ SumOf(Spaces(room.chains), room.lwd, Len(room.chains)) >= n
      BY <2>5 DEF IsRoom
    <2>7. SumOf(Spaces(room.chains), room.lwd, Len(room.chains)) >= Len(s)
      <3> DEFINE cs == room.chains
                 t == SumOf(Spaces(cs), room.lwd, Len(cs))
      <3>1. cs \in Seq(Chain(B)) /\ Len(cs) \in Nat
        BY <2>6, BufferFacts, Zenon
      <3>2. t \in Nat
        <4>1. Spaces(cs) \in Seq(Nat) /\ Len(Spaces(cs)) = Len(cs)
          BY <3>1, SpacesFacts
        <4>2. room.lwd \in Nat \ {0} /\ Len(cs) \in 0..Len(Spaces(cs))
          BY <2>6, <3>1, <4>1
        <4> HIDE DEF cs
        <4> QED BY ONLY <4>1, <4>2, SumFacts, Zenon
      <3>3. t >= n
        BY <2>6
      <3> HIDE DEF t
      <3>4. t >= got
        BY <2>2, <3>2, <3>3
      <3> QED BY <2>4, <3>4 DEF t
    <2>8. IsFilled(B, room, s, r)
      BY ONLY <2>4, <2>6, <2>7, FillFacts
    <2> HIDE DEF r
    <2>9. r \in Buffer(B) /\ Contents(r.chains) = Now(b) \o s
      BY <2>6, <2>8 DEF IsFilled, Now, h
    <2>10. IsNow(b, r)
      BY <2>1, <2>2, <2>9, EnteringFacts DEF B
    <2> QED BY <2>2, <2>4, <2>9, <2>10, EntersFacts, Zenon
  <1> QED BY <1>1, <1>2

\* evbuffer_drain, and evbuffer_write_atmost, which drains what was written.
LEMMA DrainStep ==
    ASSUME IInv, NEW b \in Buffers, NEW n \in Nat \ {0}, Drain(b, n)
    PROVE  Kept
  <1> DEFINE h == buf[b]
             r == Drop(h, n)
  <1>1. h.total > 0 /\ Change(b, r) /\ used' = used
    BY DEF Drain
  <1>2. /\ h \in Buffer(1..used) /\ Now(b) \in Seq(1..used) /\ h.total = Len(Now(b))
        /\ Len(h.chains) <= MaxChains
    BY HeldFacts DEF Now
  <1>3. IsDropped(1..used, h, n, r)
    BY <1>2, DropFacts
  <1>4. Len(h.chains) \in Nat /\ MaxChains \in Nat
    BY <1>2, BufferFacts, EvbufferAssumption, Zenon
  <1> HIDE DEF r
  <1>5. /\ r \in Buffer(1..used) /\ Len(r.chains) <= Len(h.chains)
        /\ Contents(r.chains) = SubSeq(Now(b), n + 1, Len(Now(b)))
    BY <1>3 DEF IsDropped, Now
  <1>6. Len(r.chains) <= MaxChains
    <2>1. Len(r.chains) \in Nat
      BY <1>5, BufferFacts
    <2> HIDE DEF h
    <2> QED BY <1>2, <1>4, <1>5, <2>1
  <1>7. IsNow(b, r)
    BY <1>1, <1>5, <1>6, BecomesFacts
  <1>8. Now(b) # << >>
    BY <1>1, <1>2
  <1>9. IInv' /\ Then(b) = SubSeq(Now(b), n + 1, Len(Now(b))) /\ Same({b})
    BY <1>5, <1>7 DEF IsNow
  <1>10. Queues!Drain(b)
    BY <1>8, <1>9, DrainsQueue, Zenon
  <1> QED BY <1>9, <1>10 DEF Kept, Queues!Next

\* evbuffer_pullup.
LEMMA PullupStep ==
    ASSUME IInv, NEW b \in Buffers, NEW n \in Nat \ {0}, Pullup(b, n)
    PROVE  Kept
  <1> DEFINE h == buf[b]
             r == PullUp(h, n)
  <1>1. Change(b, r) /\ used' = used
    BY DEF Pullup
  <1>2. h \in Buffer(1..used) /\ Len(h.chains) <= MaxChains
    BY HeldFacts
  <1>3. IsPulled(1..used, h, r)
    BY <1>2, PullUpFacts
  <1>4. Len(h.chains) \in Nat /\ MaxChains \in Nat
    BY <1>2, BufferFacts, EvbufferAssumption
  <1> HIDE DEF r
  <1>5. /\ r \in Buffer(1..used) /\ Len(r.chains) <= Len(h.chains)
        /\ Contents(r.chains) = Now(b)
    BY <1>3 DEF IsPulled, Now
  <1>6. Len(r.chains) <= MaxChains
    <2>1. Len(r.chains) \in Nat
      BY <1>5, BufferFacts
    <2> HIDE DEF h
    <2> QED BY <1>2, <1>4, <1>5, <2>1
  <1>7. IsNow(b, r)
    BY <1>1, <1>5, <1>6, BecomesFacts
  <1> QED BY <1>5, <1>7, StaysFacts

\* evbuffer_freeze and evbuffer_unfreeze.
LEMMA FreezeStep ==
    ASSUME IInv, NEW b \in Buffers, NEW end \in {"start", "end"},
           Freeze(b, end) \/ Unfreeze(b, end)
    PROVE  Kept
  <1> DEFINE h == buf[b]
  <1>1. h \in Buffer(1..used) /\ Len(h.chains) <= MaxChains
    BY HeldFacts
  <1>2. h \in BufferRec(1..used) /\ h.frozen \subseteq {"start", "end"} /\ Sane(h)
    BY <1>1 DEF Buffer, BufferRec
  <1>3. ASSUME NEW f, f \subseteq {"start", "end"}, NEW r, r = [h EXCEPT !.frozen = f],
               Change(b, r), used' = used
        PROVE  Kept
    <2>1. /\ r.chains = h.chains /\ r.lwd = h.lwd /\ r.total = h.total /\ r.bad = h.bad
          /\ r \in BufferRec(1..used)
      BY <1>2, <1>3 DEF BufferRec
    <2>2. Sane(r)
      BY <1>2, <2>1 DEF Sane
    <2>3. r \in Buffer(1..used) /\ Len(r.chains) <= MaxChains /\ Contents(r.chains) = Now(b)
      BY <1>1, <2>1, <2>2 DEF Buffer, Now
    <2>4. IsNow(b, r)
      BY <1>3, <2>3, BecomesFacts, Zenon
    <2> QED BY <2>3, <2>4, StaysFacts
  <1>4. CASE Freeze(b, end)
    <2>1. Change(b, [h EXCEPT !.frozen = h.frozen \cup {end}]) /\ used' = used
      BY <1>4 DEF Freeze
    <2>2. h.frozen \cup {end} \subseteq {"start", "end"}
      BY <1>2
    <2> QED BY <1>3, <2>1, <2>2, Zenon
  <1>5. CASE Unfreeze(b, end)
    <2>1. Change(b, [h EXCEPT !.frozen = h.frozen \ {end}]) /\ used' = used
      BY <1>5 DEF Unfreeze
    <2>2. h.frozen \ {end} \subseteq {"start", "end"}
      BY <1>2
    <2> QED BY <1>3, <2>1, <2>2
  <1> QED BY <1>4, <1>5

\* Two buffers become ha and hb.
LEMMA BetweenFacts ==
    ASSUME IInv, NEW a \in Buffers, NEW b \in Buffers, a # b, NEW ha, NEW hb,
           ha \in Buffer(1..used), hb \in Buffer(1..used), Len(ha.chains) <= MaxChains,
           buf' = [buf EXCEPT ![b] = hb, ![a] = ha], Within(b), used' = used
    PROVE  /\ IInv' /\ Then(a) = Contents(ha.chains) /\ Then(b) = Contents(hb.chains)
           /\ Same({a, b})
  <1>1. /\ used \in 0..MaxBytes /\ buf \in [Buffers -> Buffer(1..used)]
        /\ \A c \in Buffers : Len(buf[c].chains) <= MaxChains
    BY DEF IInv
  <1>2. /\ buf'[a] = ha /\ buf'[b] = hb
        /\ \A c \in Buffers \ {a, b} : buf'[c] = buf[c]
        /\ buf' \in [Buffers -> Buffer(1..used)]
    BY <1>1
  <1>3. \A c \in Buffers : Len(buf'[c].chains) <= MaxChains
    BY <1>1, <1>2 DEF Within
  <1>4. IInv'
    BY <1>1, <1>2, <1>3 DEF IInv
  <1>5. Then(a) = Contents(ha.chains) /\ Then(b) = Contents(hb.chains) /\ Same({a, b})
    BY <1>2 DEF Then, Now, Same
  <1> QED BY <1>4, <1>5

\* What is known of two buffers.
LEMMA PairFacts ==
    ASSUME IInv, NEW a \in Buffers, NEW b \in Buffers, NEW end, Between(a, b, end)
    PROVE  /\ buf[a] \in Buffer(1..used) /\ buf[b] \in Buffer(1..used) /\ a # b
           /\ used' = used /\ Now(a) \in Seq(1..used) /\ Now(b) \in Seq(1..used)
           /\ buf[a].total = Len(Now(a)) /\ buf[a].total > 0 /\ Len(Now(a)) \in Nat \ {0}
           /\ Len(buf[a].chains) <= MaxChains /\ MaxChains \in Nat
           /\ Len(buf[a].chains) \in Nat
  <1>1. /\ buf[a] \in Buffer(1..used) /\ buf[b] \in Buffer(1..used)
        /\ Now(a) \in Seq(1..used) /\ Now(b) \in Seq(1..used)
        /\ buf[a].total = Len(Now(a)) /\ Len(buf[a].chains) <= MaxChains
    BY HeldFacts DEF Now
  <1>2. a # b /\ used' = used /\ buf[a].total > 0
    BY DEF Between
  <1>3. MaxChains \in Nat
    BY EvbufferAssumption
  <1>4. Len(buf[a].chains) \in Nat
    BY <1>1, BufferFacts
  <1>5. Len(Now(a)) \in Nat \ {0}
    BY <1>1, <1>2
  <1> QED BY <1>1, <1>2, <1>3, <1>4, <1>5

\* evbuffer_add_buffer and evbuffer_prepend_buffer.
LEMMA AddBufferStep ==
    ASSUME IInv, NEW a \in Buffers, NEW b \in Buffers, AddBuffer(a, b)
    PROVE  Kept
  <1> DEFINE g == buf[a]
             h == buf[b]
             ha == Zero(g)
             hb == Append2(h, g)
             m == Len(Now(a))
  <1>1. Between(a, b, "end") /\ Within(b)
    BY DEF AddBuffer
  <1>2. /\ g \in Buffer(1..used) /\ h \in Buffer(1..used) /\ a # b /\ used' = used
        /\ Now(a) \in Seq(1..used) /\ Now(b) \in Seq(1..used) /\ g.total > 0
        /\ m \in Nat \ {0} /\ MaxChains \in Nat
    BY <1>1, PairFacts
  <1>3. buf' = [buf EXCEPT ![b] = hb, ![a] = ha]
    BY <1>2 DEF AddBuffer
  <1>4. IsWith(1..used, h, Now(b) \o Now(a), hb)
    BY <1>2, TogetherFacts DEF Now
  <1>5. IsWith(1..used, g, << >>, ha) /\ Len(ha.chains) = 0
    BY <1>2, ZeroFacts
  <1> HIDE DEF g, h, ha, hb
  <1>6. /\ IInv' /\ Then(a) = << >> /\ Then(b) = Now(b) \o Now(a) /\ Same({a, b})
    <2>1. Len(ha.chains) <= MaxChains
      BY <1>2, <1>5
    <2> QED BY <1>1, <1>2, <1>3, <1>4, <1>5, <2>1, BetweenFacts, Zenon DEF IsWith
  <1>7. SubSeq(Now(a), 1, m) = Now(a) /\ SubSeq(Now(a), m + 1, m) = << >>
    <2>1. SubSeq(Now(a), 1, Len(Now(a))) = Now(a)
      BY ONLY <1>2, SubSeqFull
    <2>2. SubSeq(Now(a), m + 1, m) = << >>
      BY <1>2
    <2> QED BY <2>1, <2>2
  <1>8. Queues!Move(a, b)
    <2>1. /\ Then(b) = Now(b) \o SubSeq(Now(a), 1, m) /\ m <= Len(Now(a))
          /\ Then(a) = SubSeq(Now(a), m + 1, Len(Now(a)))
      BY <1>2, <1>6, <1>7
    <2> QED BY <1>2, <1>6, <2>1, MovesInQueues, Zenon
  <1>9. a \in Buffers \ {b}
    BY <1>2
  <1> QED BY <1>6, <1>8, <1>9 DEF Kept, Queues!Next

\* evbuffer_prepend_buffer: the bytes of one buffer come in front of another.
LEMMA PrependBufferStep ==
    ASSUME IInv, NEW a \in Buffers, NEW b \in Buffers, PrependBuffer(a, b)
    PROVE  Kept
  <1> DEFINE g == buf[a]
             h == buf[b]
             ha == Zero(g)
             hb == Prepend2(h, g)
  <1>1. Between(a, b, "start") /\ Within(b)
    BY DEF PrependBuffer
  <1>2. /\ g \in Buffer(1..used) /\ h \in Buffer(1..used) /\ a # b /\ used' = used
        /\ g.total > 0 /\ MaxChains \in Nat
    BY <1>1, PairFacts
  <1>3. buf' = [buf EXCEPT ![b] = hb, ![a] = ha]
    BY <1>2 DEF PrependBuffer
  <1>4. IsWith(1..used, h, Now(a) \o Now(b), hb)
    BY <1>2, TogetherFacts DEF Now
  <1>5. IsWith(1..used, g, << >>, ha) /\ Len(ha.chains) = 0
    BY <1>2, ZeroFacts
  <1> HIDE DEF g, h, ha, hb
  <1>6. /\ IInv' /\ Then(a) = << >> /\ Then(b) = Now(a) \o Now(b) /\ Same({a, b})
    <2>1. Len(ha.chains) <= MaxChains
      BY <1>2, <1>5
    <2> QED BY <1>1, <1>2, <1>3, <1>4, <1>5, <2>1, BetweenFacts, Zenon DEF IsWith
  <1>7. Queues!MoveBefore(a, b)
    BY <1>6, MovesBeforeInQueues
  <1>8. a \in Buffers \ {b}
    BY <1>2
  <1> QED BY <1>6, <1>7, <1>8 DEF Kept, Queues!Next

\* evbuffer_remove_buffer.
LEMMA RemoveBufferStep ==
    ASSUME IInv, ~Spares, NEW a \in Buffers, NEW b \in Buffers, NEW n \in Nat \ {0},
           RemoveBuffer(a, b, n)
    PROVE  Kept
  <1> DEFINE g == buf[a]
             h == buf[b]
             ha == MovedFrom(g, n)
             hb == MovedTo(h, g, n)
             m == CapTo(Now(a), n)
  <1>1. Between(a, b, "end") /\ Within(b) /\ Tight(h) /\ Gapless(g)
    BY DEF RemoveBuffer
  <1>2. /\ g \in Buffer(1..used) /\ h \in Buffer(1..used) /\ a # b /\ used' = used
        /\ Now(a) \in Seq(1..used) /\ g.total > 0 /\ Len(Now(a)) \in Nat \ {0}
        /\ Len(g.chains) <= MaxChains /\ MaxChains \in Nat /\ Len(g.chains) \in Nat
    BY <1>1, PairFacts
  <1>3. buf' = [buf EXCEPT ![b] = hb, ![a] = ha]
    BY <1>2 DEF RemoveBuffer
  <1>4. IsWith(1..used, h, Now(b) \o SubSeq(Now(a), 1, m), hb)
    BY <1>1, <1>2, MovedFacts DEF Now
  <1>5. IsDropped(1..used, g, m, ha)
    BY <1>2, MovedFromFacts DEF Now
  <1>6. m \in Nat \ {0} /\ m <= Len(Now(a))
    BY <1>2 DEF CapTo
  <1> HIDE DEF h, ha, hb, m
  <1>7. /\ ha \in Buffer(1..used) /\ Len(ha.chains) <= Len(g.chains)
        /\ Contents(ha.chains) = SubSeq(Now(a), m + 1, Len(Now(a)))
    BY <1>5 DEF IsDropped, Now
  <1>8. Len(ha.chains) <= MaxChains
    <2>1. Len(ha.chains) \in Nat
      BY <1>7, BufferFacts
    <2> HIDE DEF g
    <2> QED BY <1>2, <1>7, <2>1
  <1> HIDE DEF g
  <1>9. /\ IInv' /\ Then(a) = SubSeq(Now(a), m + 1, Len(Now(a)))
        /\ Then(b) = Now(b) \o SubSeq(Now(a), 1, m) /\ Same({a, b})
    BY <1>1, <1>2, <1>3, <1>4, <1>7, <1>8, BetweenFacts, Zenon DEF IsWith
  <1>10. Queues!Move(a, b)
    BY <1>2, <1>6, <1>9, MovesInQueues, Zenon
  <1>11. a \in Buffers \ {b}
    BY <1>2
  <1> QED BY <1>9, <1>10, <1>11 DEF Kept, Queues!Next

\* Every step keeps the buffers in order and is one of the queues, if no data is
\* added behind a chain that was left empty.
LEMMA NextKeeps ==
    ASSUME ~Spares, IInv, [Next]_vars
    PROVE  Kept
  <1>1. CASE UNCHANGED vars
    <2>1. buf' = buf /\ used' = used
      BY <1>1 DEF vars
    <2>2. IInv' /\ Same({})
      BY <2>1 DEF IInv, Same, Then, Now
    <2> QED BY <2>2 DEF Kept
  <1>2. ASSUME NEW n \in Wants PROVE n \in Nat \ {0}
    BY EvbufferAssumption
  <1>3. ASSUME NEW b \in Buffers, NEW n \in Wants, Add(b, n) PROVE Kept
    BY <1>2, <1>3, AddStep
  <1>4. ASSUME NEW b \in Buffers, NEW n \in Wants, Printf(b, n) PROVE Kept
    BY <1>2, <1>4, PrintfStep
  <1>5. ASSUME NEW b \in Buffers, NEW n \in Wants, AddReference(b, n) PROVE Kept
    BY <1>2, <1>5, ReferenceStep
  <1>6. ASSUME NEW b \in Buffers, NEW n \in Wants, Prepend(b, n) PROVE Kept
    BY <1>2, <1>6, PrependStep
  <1>7. ASSUME NEW b \in Buffers, NEW n \in Wants, Drain(b, n) PROVE Kept
    BY <1>2, <1>7, DrainStep
  <1>8. ASSUME NEW b \in Buffers, NEW n \in Wants, Pullup(b, n) PROVE Kept
    BY <1>2, <1>8, PullupStep
  <1>9. ASSUME NEW b \in Buffers, NEW n \in Wants, NEW got \in 0..n, Read(b, n, got)
        PROVE  Kept
    BY <1>2, <1>9, ReadStep
  <1>10. ASSUME NEW b \in Buffers, NEW n \in Wants, NEW got \in 1..n, Write(b, n, got)
         PROVE  Kept
    <2>1. got \in Nat \ {0} /\ Drain(b, got)
      BY <1>2, <1>10 DEF Write
    <2> QED BY <2>1, DrainStep
  <1>11. ASSUME NEW b \in Buffers, NEW n \in Wants, NEW a \in Buffers, RemoveBuffer(a, b, n)
         PROVE  Kept
    BY <1>2, <1>11, RemoveBufferStep
  <1>12. ASSUME NEW b \in Buffers, NEW a \in Buffers, AddBuffer(a, b) \/ PrependBuffer(a, b)
         PROVE  Kept
    BY <1>12, AddBufferStep, PrependBufferStep
  <1>13. ASSUME NEW b \in Buffers, NEW end \in {"start", "end"},
                Freeze(b, end) \/ Unfreeze(b, end)
         PROVE  Kept
    BY <1>13, FreezeStep
  <1>14. CASE Next
    BY <1>3, <1>4, <1>5, <1>6, <1>7, <1>8, <1>9, <1>10, <1>11, <1>12, <1>13, <1>14 DEF Next
  <1> QED BY <1>1, <1>14

-----------------------------------------------------------------------------
\* In every state the counters, the place of the data in the chains and
\* last_with_data agree, and no assertion of the chain code has failed: the
\* pointer is to the last chain with data, with nothing but empty ones behind.
THEOREM BuffersWellFormed ==
    ASSUME ~Spares
    PROVE  Spec => []WellFormed
  <1>1. IInv /\ [Next]_vars => IInv'
    BY NextKeeps DEF Kept
  <1>2. Spec => []IInv
    BY <1>1, InitIInv, PTL DEF Spec
  <1> QED BY <1>2, IInvIsWellFormed, PTL

\* Whatever chains they are in, the bytes of a buffer stay in the order in which
\* they came, and leave, or move to another buffer, from its front.
THEOREM BytesKept ==
    ASSUME ~Spares
    PROVE  Spec => KeepsBytes
  <1>1. IInv /\ [Next]_vars => IInv'
    BY NextKeeps DEF Kept
  <1>2. Init => Queues!Init
    <2>1. Contents(Empty.chains) = << >>
      BY DEF Contents, FlattenSeq, Empty
    <2> QED BY <2>1 DEF Init, Queues!Init
  <1>3. IInv /\ [Next]_vars
          => [Queues!Next]_[b \in Buffers |-> Contents(buf[b].chains)]
    BY NextKeeps, NothingMoves DEF Kept
  <1> QED BY <1>1, <1>2, <1>3, InitIInv, PTL DEF Spec, KeepsBytes, Queues!Spec
=============================================================================
