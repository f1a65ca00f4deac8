--------------------------- MODULE DnsCacheProofs ---------------------------
(***************************************************************************)
(* The resolver and the cache for any servers, entries and limits: what is  *)
(* counted twice agrees, a server that is down is probed, a request comes   *)
(* to be looked at again, and the refresh of an entry neither stops nor     *)
(* doubles.                                                                 *)
(***************************************************************************)
EXTENDS DnsCache, TLAPS, FiniteSetTheorems, SequenceTheorems,
        WellFoundedInduction

-----------------------------------------------------------------------------
(***************************************************************************)
(* Queues, as sequences whose elements are all different.                  *)
(***************************************************************************)

\* A set of numbers that is not empty has a least element.
LEMMA LeastExists ==
    ASSUME NEW S \in SUBSET Nat, S # {}
    PROVE  Min(S) \in S /\ \A y \in S : Min(S) <= y
  <1>1. PICK x \in S : \A y \in S : ~(<<y, x>> \in OpToRel(<, Nat))
    BY NatLessThanWellFounded, WFMin
  <1>2. ASSUME NEW y \in S, y < x
        PROVE  FALSE
    <2>1. <<y, x>> \in Nat \X Nat /\ <<y, x>>[1] < <<y, x>>[2]
      BY <1>2
    <2>2. <<y, x>> \in OpToRel(<, Nat)
      BY <2>1, Zenon DEF OpToRel
    <2> QED BY <1>1, <2>2
  <1>3. \A y \in S : x <= y
    BY <1>2
  <1> QED BY <1>3 DEF Min

\* Induction on the numbers, as a fact about sets.
LEMMA SetInduction ==
    ASSUME NEW S, 0 \in S, \A n \in Nat : n \in S => n + 1 \in S
    PROVE  Nat \subseteq S
  <1> DEFINE T == Nat \ S
  <1>1. CASE T # {}
    <2>1. T \in SUBSET Nat
      OBVIOUS
    <2>2. PICK x \in T : \A y \in T : x <= y
      <3> HIDE DEF T
      <3> QED BY <1>1, <2>1, LeastExists
    <2>3. x # 0 /\ x \in Nat
      OBVIOUS
    <2>4. x - 1 \in Nat /\ x - 1 \notin T
      BY <2>2, <2>3
    <2> QED BY <2>3, <2>4
  <1> QED BY <1>1

\* The position of an element that is in the queue.
LEMMA PositionOf ==
    ASSUME NEW S, NEW s \in Seq(S), NEW e, e \in ToSet(s)
    PROVE  \E i \in 1..Len(s) : s[i] = e /\ RemoveFirst(s, e) = RemoveAt(s, i)
  <1> DEFINE I == {i \in 1..Len(s) : s[i] = e}
  <1>1. \E i \in 1..Len(s) : s[i] = e
    BY DEF ToSet
  <1>2. I # {} /\ I \in SUBSET Nat
    BY <1>1
  <1>3. Min(I) \in I
    <2> HIDE DEF I
    <2> QED BY <1>2, LeastExists
  <1>4. RemoveFirst(s, e) = RemoveAt(s, Min(I))
    BY <1>1, <1>2 DEF RemoveFirst, SelectInSeq
  <1> QED BY <1>3, <1>4

\* What taking out the element at a position leaves.
LEMMA RemoveAtFacts ==
    ASSUME NEW S, NEW s \in Seq(S), NEW i \in 1..Len(s)
    PROVE  /\ RemoveAt(s, i) \in Seq(S) /\ Len(RemoveAt(s, i)) = Len(s) - 1
           /\ \A j \in 1..(Len(s) - 1) :
                 RemoveAt(s, i)[j] = IF j < i THEN s[j] ELSE s[j + 1]
  <1> DEFINE a == SubSeq(s, 1, i - 1)
             b == SubSeq(s, i + 1, Len(s))
  <1>1. Len(s) \in Nat /\ i \in Nat /\ 1 <= i /\ i <= Len(s)
    OBVIOUS
  <1>2. a \in Seq(S) /\ Len(a) = i - 1 /\ \A j \in 1..(i - 1) : a[j] = s[j]
    BY <1>1
  <1>3. /\ b \in Seq(S) /\ Len(b) = Len(s) - i
        /\ \A j \in 1..(Len(s) - i) : b[j] = s[i + j]
    BY <1>1
  <1>4. RemoveAt(s, i) = a \o b
    BY DEF RemoveAt
  <1> HIDE DEF a, b
  <1>5. /\ a \o b \in Seq(S) /\ Len(a \o b) = Len(a) + Len(b)
        /\ \A j \in 1..(Len(a) + Len(b)) :
              (a \o b)[j] = IF j <= Len(a) THEN a[j] ELSE b[j - Len(a)]
    BY <1>2, <1>3, ConcatProperties
  <1>6. Len(a) + Len(b) = Len(s) - 1
    BY <1>1, <1>2, <1>3
  <1>7. ASSUME NEW j \in 1..(Len(s) - 1)
        PROVE  (a \o b)[j] = IF j < i THEN s[j] ELSE s[j + 1]
    <2>1. CASE j < i
      BY <1>1, <1>2, <1>5, <1>6, <2>1
    <2>2. CASE ~(j < i)
      <3>1. j - Len(a) \in 1..(Len(s) - i) /\ i + (j - Len(a)) = j + 1
        BY <1>1, <1>2, <2>2
      <3>2. (a \o b)[j] = b[j - Len(a)]
        BY <1>1, <1>2, <1>5, <1>6, <2>2
      <3> QED BY <1>3, <2>2, <3>1, <3>2
    <2> QED BY <2>1, <2>2
  <1> QED BY <1>4, <1>5, <1>6, <1>7

\* Taking an element out of a queue of different elements.
LEMMA RemoveFacts ==
    ASSUME NEW S, NEW s \in Seq(S), IsInjective(s), NEW e, e \in ToSet(s)
    PROVE  /\ RemoveFirst(s, e) \in Seq(S)
           /\ Len(RemoveFirst(s, e)) = Len(s) - 1
           /\ IsInjective(RemoveFirst(s, e))
           /\ ToSet(RemoveFirst(s, e)) = ToSet(s) \ {e}
  <1>1. PICK i \in 1..Len(s) : s[i] = e /\ RemoveFirst(s, e) = RemoveAt(s, i)
    BY PositionOf
  <1> DEFINE r == RemoveAt(s, i)
  <1>2. /\ r \in Seq(S) /\ Len(r) = Len(s) - 1
        /\ \A j \in 1..(Len(s) - 1) : r[j] = IF j < i THEN s[j] ELSE s[j + 1]
    BY RemoveAtFacts
  <1> HIDE DEF r
  <1>3. DOMAIN r = 1..(Len(s) - 1) /\ DOMAIN s = 1..Len(s)
        /\ Len(s) \in Nat /\ i \in Nat /\ 1 <= i /\ i <= Len(s)
    BY <1>2
  <1>4. \A j, k \in DOMAIN s : s[j] = s[k] => j = k
    BY DEF IsInjective
  <1>5. IsInjective(r)
    <2> SUFFICES ASSUME NEW j \in DOMAIN r, NEW k \in DOMAIN r, r[j] = r[k]
                 PROVE  j = k
      BY DEF IsInjective
    <2>1. j \in DOMAIN s /\ j + 1 \in DOMAIN s /\ k \in DOMAIN s /\ k + 1 \in DOMAIN s
      BY <1>3
    <2>2. /\ r[j] = IF j < i THEN s[j] ELSE s[j + 1]
          /\ r[k] = IF k < i THEN s[k] ELSE s[k + 1]
      BY <1>2, <1>3
    <2>3. j \in Int /\ k \in Int
      BY <1>3
    <2>4. CASE j < i /\ k < i
      BY <1>4, <2>1, <2>2, <2>4
    <2>5. CASE ~(j < i) /\ ~(k < i)
      <3>1. j + 1 = k + 1
        BY <1>4, <2>1, <2>2, <2>5
      <3> QED BY <2>3, <3>1
    <2>6. CASE j < i /\ ~(k < i)
      <3>1. j = k + 1
        BY <1>4, <2>1, <2>2, <2>6
      <3> QED BY <1>3, <2>3, <2>6, <3>1
    <2>7. CASE ~(j < i) /\ k < i
      <3>1. j + 1 = k
        BY <1>4, <2>1, <2>2, <2>7
      <3> QED BY <1>3, <2>3, <2>7, <3>1
    <2> QED BY <2>4, <2>5, <2>6, <2>7
  <1>6. ToSet(r) = ToSet(s) \ {e}
    <2>1. ASSUME NEW x \in ToSet(r)
          PROVE  x \in ToSet(s) /\ x # e
      <3>1. PICK j \in DOMAIN r : x = r[j]
        BY <2>1 DEF ToSet
      <3>2. j \in DOMAIN s /\ j + 1 \in DOMAIN s /\ i \in DOMAIN s /\ j \in Int
        BY <1>3
      <3>3. r[j] = IF j < i THEN s[j] ELSE s[j + 1]
        BY <1>2, <1>3
      <3>4. x \in ToSet(s)
        BY <3>1, <3>2, <3>3 DEF ToSet
      <3>5. CASE j < i
        <4>1. j # i
          BY <1>3, <3>2, <3>5
        <4> QED BY <1>1, <1>4, <3>1, <3>2, <3>3, <3>4, <3>5, <4>1
      <3>6. CASE ~(j < i)
        <4>1. j + 1 # i
          BY <1>3, <3>2, <3>6
        <4> QED BY <1>1, <1>4, <3>1, <3>2, <3>3, <3>4, <3>6, <4>1
      <3> QED BY <3>5, <3>6
    <2>2. ASSUME NEW x \in ToSet(s), x # e
          PROVE  x \in ToSet(r)
      <3>1. PICK j \in DOMAIN s : x = s[j]
        BY <2>2 DEF ToSet
      <3>2. j # i /\ j \in Int
        BY <1>1, <1>3, <2>2, <3>1
      <3>3. CASE j < i
        <4>1. j \in DOMAIN r /\ r[j] = s[j]
          BY <1>2, <1>3, <3>1, <3>3
        <4> QED BY <3>1, <4>1 DEF ToSet
      <3>4. CASE j > i
        <4>1. j - 1 \in 1..(Len(s) - 1) /\ ~(j - 1 < i) /\ (j - 1) + 1 = j
          BY <1>3, <3>1, <3>4
        <4>2. r[j - 1] = s[(j - 1) + 1]
          BY <1>2, <4>1
        <4>3. r[j - 1] = s[j]
          BY <4>1, <4>2
        <4> QED BY <1>3, <3>1, <4>1, <4>3 DEF ToSet
      <3> QED BY <1>3, <3>2, <3>3, <3>4
    <2> QED BY <2>1, <2>2
  <1> QED BY <1>1, <1>2, <1>5, <1>6 DEF r

\* Adding an element that is not in the queue.
LEMMA AppendFacts ==
    ASSUME NEW S, NEW s \in Seq(S), NEW e \in S
    PROVE  /\ Append(s, e) \in Seq(S) /\ Len(Append(s, e)) = Len(s) + 1
           /\ ToSet(Append(s, e)) = ToSet(s) \cup {e}
           /\ IsInjective(s) /\ e \notin ToSet(s) => IsInjective(Append(s, e))
  <1> DEFINE r == Append(s, e)
  <1>1. /\ r \in Seq(S) /\ Len(r) = Len(s) + 1 /\ Len(s) \in Nat
        /\ \A j \in 1..Len(s) : r[j] = s[j]
        /\ r[Len(s) + 1] = e
    OBVIOUS
  <1> HIDE DEF r
  <1>2. DOMAIN r = 1..(Len(s) + 1) /\ DOMAIN s = 1..Len(s)
    BY <1>1
  <1>3. \A j \in DOMAIN r : j \in DOMAIN s \/ j = Len(s) + 1
    BY <1>1, <1>2
  <1>4. ToSet(r) = ToSet(s) \cup {e}
    <2>1. \A j \in DOMAIN r : r[j] \in ToSet(s) \cup {e}
      BY <1>1, <1>2, <1>3 DEF ToSet
    <2>2. Len(s) + 1 \in DOMAIN r
      BY <1>1, <1>2
    <2>3. \A j \in DOMAIN s : j \in DOMAIN r /\ s[j] = r[j]
      BY <1>1, <1>2
    <2> QED BY <1>1, <2>1, <2>2, <2>3 DEF ToSet
  <1>5. ASSUME IsInjective(s), e \notin ToSet(s)
        PROVE  IsInjective(r)
    <2> SUFFICES ASSUME NEW j \in DOMAIN r, NEW k \in DOMAIN r, r[j] = r[k]
                 PROVE  j = k
      BY DEF IsInjective
    <2>1. \A h \in DOMAIN s : r[h] = s[h] /\ s[h] # e
      BY <1>1, <1>2, <1>5 DEF ToSet
    <2>2. CASE j \in DOMAIN s /\ k \in DOMAIN s
      BY <1>5, <2>1, <2>2 DEF IsInjective
    <2>3. CASE j = Len(s) + 1 \/ k = Len(s) + 1
      BY <1>1, <1>3, <2>1, <2>3
    <2> QED BY <1>3, <2>2, <2>3
  <1> QED BY <1>1, <1>4, <1>5 DEF r

\* The oldest element, and the rest.
LEMMA HeadTailFacts ==
    ASSUME NEW S, NEW s \in Seq(S), s # << >>, IsInjective(s)
    PROVE  /\ Head(s) \in ToSet(s) /\ Head(s) \in S /\ Tail(s) \in Seq(S)
           /\ Len(Tail(s)) = Len(s) - 1
           /\ IsInjective(Tail(s)) /\ ToSet(Tail(s)) = ToSet(s) \ {Head(s)}
  <1> DEFINE r == Tail(s)
  <1>1. /\ r \in Seq(S) /\ Len(s) \in Nat /\ Len(s) >= 1 /\ Len(r) = Len(s) - 1
        /\ \A j \in 1..(Len(s) - 1) : r[j] = s[j + 1]
        /\ Head(s) = s[1] /\ Head(s) \in S
    OBVIOUS
  <1> HIDE DEF r
  <1>2. DOMAIN r = 1..(Len(s) - 1) /\ DOMAIN s = 1..Len(s)
    BY <1>1
  <1>3. \A j, k \in DOMAIN s : s[j] = s[k] => j = k
    BY DEF IsInjective
  <1>4. 1 \in DOMAIN s /\ \A j \in DOMAIN r : j + 1 \in DOMAIN s /\ j + 1 # 1 /\ j \in Int
    BY <1>1, <1>2
  <1>5. IsInjective(r)
    <2> SUFFICES ASSUME NEW j \in DOMAIN r, NEW k \in DOMAIN r, r[j] = r[k]
                 PROVE  j = k
      BY DEF IsInjective
    <2>1. r[j] = s[j + 1] /\ r[k] = s[k + 1]
      BY <1>1, <1>2
    <2>2. j + 1 = k + 1
      BY <1>3, <1>4, <2>1
    <2> QED BY <1>4, <2>2
  <1>6. ToSet(r) = ToSet(s) \ {Head(s)}
    <2>1. ASSUME NEW x \in ToSet(r)
          PROVE  x \in ToSet(s) /\ x # Head(s)
      <3>1. PICK j \in DOMAIN r : x = r[j]
        BY <2>1 DEF ToSet
      <3>2. r[j] = s[j + 1]
        BY <1>1, <1>2
      <3>3. s[j + 1] # s[1]
        BY <1>3, <1>4
      <3> QED BY <1>1, <1>4, <3>1, <3>2, <3>3 DEF ToSet
    <2>2. ASSUME NEW x \in ToSet(s), x # Head(s)
          PROVE  x \in ToSet(r)
      <3>1. PICK j \in DOMAIN s : x = s[j]
        BY <2>2 DEF ToSet
      <3>2. j # 1
        BY <1>1, <2>2, <3>1
      <3>3. j - 1 \in 1..(Len(s) - 1) /\ (j - 1) + 1 = j
        BY <1>1, <1>2, <3>1, <3>2
      <3>4. r[j - 1] = s[(j - 1) + 1]
        BY <1>1, <3>3
      <3>5. r[j - 1] = s[j]
        BY <3>3, <3>4
      <3> QED BY <1>2, <3>1, <3>3, <3>5 DEF ToSet
    <2> QED BY <2>1, <2>2
  <1>7. Head(s) \in ToSet(s)
    BY <1>1, <1>4 DEF ToSet
  <1> QED BY <1>1, <1>5, <1>6, <1>7 DEF r

\* Induction up to a bound.
LEMMA BoundedInduction ==
    ASSUME NEW n \in Nat, NEW P, 0 \in P, \A i \in 1..n : i - 1 \in P => i \in P
    PROVE  0..n \subseteq P
  <1> DEFINE S == {i \in Nat : i <= n => i \in P}
  <1>1. 0 \in S
    OBVIOUS
  <1>2. \A i \in Nat : i \in S => i + 1 \in S
    OBVIOUS
  <1>3. Nat \subseteq S
    <2> HIDE DEF S
    <2> QED BY <1>1, <1>2, SetInduction
  <1> QED BY <1>3

-----------------------------------------------------------------------------

Reqs == [ns : Servers \cup {0}, tx : 0..MaxRetransmits, reissue : 0..MaxReissues,
         send : BOOLEAN, timer : BOOLEAN, search : {NoSearch} \cup (-1 .. Domains),
         sentTo : SUBSET Servers]
States == [up : BOOLEAN, timedout : 0..MaxTimeouts, timer : BOOLEAN,
           choked : BOOLEAN, writing : BOOLEAN, probing : BOOLEAN]
Results == {"ok", "notexist", "servfail", "refused", "timeout", "cancel"}
Calls == [handle : Handles, result : Results]
Bases == [server : [Servers -> States], head : Servers, good : Nat,
          req : [Handles -> Reqs], inflight : Seq(Handles), waiting : Seq(Handles),
          nin : Nat, nwait : Nat, deferred : Seq(Calls), dead : BOOLEAN]

Good(b) == {s \in Servers : b.server[s].up}
Counted(b) ==
    /\ IsInjective(b.inflight) /\ IsInjective(b.waiting)
    /\ InFlight(b) \cap ToSet(b.waiting) = {}
    /\ b.nin = Len(b.inflight) /\ b.nwait = Len(b.waiting)
    /\ b.good = Cardinality(Good(b))

\* A request in flight, but for those of X, has its timer or is marked for a
\* socket that is waited for.
Driven(b, X) ==
    /\ \A h \in InFlight(b) : b.req[h].ns \in Servers
    /\ \A h \in InFlight(b) \ X :
          /\ b.req[h].timer \/ b.req[h].send
          /\ b.req[h].send => b.req[h].tx < MaxRetransmits
          /\ b.req[h].send /\ ~b.req[h].timer => \E s \in Servers : b.server[s].writing
    /\ \A s \in Servers : b.server[s].choked => b.server[s].writing
    /\ \A h \in Handles \ InFlight(b) : ~b.req[h].timer /\ b.req[h].tx = 0

Kept(b, X) == b \in Bases /\ Counted(b) /\ Driven(b, X)

\* The callback of each handle is deferred at most once, and a server that is
\* down has one of timer, probe and callback to bring it up; but for those of
\* X, which a call in progress is about to finish.
Told(b, s) == \E i \in DOMAIN b.deferred :
                 b.deferred[i].handle = s /\ b.deferred[i].result = "cancel"
Watched(b, X) ==
    /\ \A i, j \in DOMAIN b.deferred :
          b.deferred[i].handle = b.deferred[j].handle => i = j
    /\ \A h \in Asking(b) \ X : h \notin Deferred(b)
    /\ \A s \in Servers : b.server[s].up => ~b.server[s].timer
    /\ \A s \in Servers \ X :
          /\ s \in Asking(b) => ~b.server[s].up /\ b.server[s].probing
          /\ ~b.server[s].up => s \in Deferred(b) \/ (b.server[s].timer # (s \in Asking(b)))
          /\ ~b.server[s].up /\ Told(b, s) => b.server[s].timer

\* A request only waits when the limit is reached, or one short of it.
Parked(b) == b.waiting # << >> => b.nin >= MaxInflight - 1
Full(b)   == b.waiting # << >> => b.nin >= MaxInflight

Sound(b) == Kept(b, {}) /\ Watched(b, {}) /\ Parked(b)

\* An entry is refreshed by one of its timer, its resolution and its callback.
Live(b) == Asking(b) \cup Deferred(b)
Refreshed ==
    /\ tree \in [Hosts \cup Numerics -> Clients \cup {None}]
    /\ entry \in [Clients -> [host : Hosts \cup Numerics \cup {None},
                              address : BOOLEAN, timer : BOOLEAN]]
    /\ acs \in Hosts \cup Numerics \cup {None}
    /\ \A c \in Clients : /\ c \in Named <=> entry[c].timer \/ c \in Live(base)
                          /\ entry[c].timer => c \notin Live(base)
DnsInv == Sound(base) /\ Refreshed

\* What sending may do on the way from b to c: the callbacks owed stay, and a
\* server is as it was, or has gone down with its timer armed.
Sent(b, c) ==
    /\ c.deferred = b.deferred
    /\ \A s \in Servers :
          /\ c.server[s].probing = b.server[s].probing
          /\ \/ /\ c.server[s].up = b.server[s].up
                /\ c.server[s].timer = b.server[s].timer
             \/ b.server[s].up /\ ~c.server[s].up /\ c.server[s].timer

\* What giving requests to other servers may do: the queues stay as well.
SameQueues(b, c) ==
    /\ c.inflight = b.inflight /\ c.waiting = b.waiting
    /\ c.nin = b.nin /\ c.nwait = b.nwait
Passed(b, c) ==
    /\ Sent(b, c) /\ SameQueues(b, c)
    /\ c.good = Cardinality(Good(c))
    /\ \A s \in Servers : /\ c.server[s].choked = b.server[s].choked
                          /\ c.server[s].writing = b.server[s].writing
    /\ \A h \in Handles :
          /\ c.req[h].tx = b.req[h].tx /\ c.req[h].send = b.req[h].send
          /\ c.req[h].timer = b.req[h].timer /\ c.req[h].reissue = b.req[h].reissue
          /\ c.req[h].ns = b.req[h].ns \/ c.req[h].ns \in Servers

-----------------------------------------------------------------------------
\* The parts of a base are of their types.
LEMMA BaseTypes ==
    ASSUME NEW b \in Bases
    PROVE  /\ b.server \in [Servers -> States] /\ b.head \in Servers /\ b.good \in Nat
           /\ b.req \in [Handles -> Reqs]
           /\ b.inflight \in Seq(Handles) /\ b.waiting \in Seq(Handles)
           /\ b.nin \in Nat /\ b.nwait \in Nat
           /\ b.deferred \in Seq(Calls) /\ b.dead \in BOOLEAN
           /\ b = [server |-> b.server, head |-> b.head, good |-> b.good,
                   req |-> b.req, inflight |-> b.inflight, waiting |-> b.waiting,
                   nin |-> b.nin, nwait |-> b.nwait, deferred |-> b.deferred,
                   dead |-> b.dead]
  BY DEF Bases

\* A record of the right fields, of the right types, is a base.
Shaped(b) ==
    b = [server |-> b.server, head |-> b.head, good |-> b.good, req |-> b.req,
         inflight |-> b.inflight, waiting |-> b.waiting, nin |-> b.nin,
         nwait |-> b.nwait, deferred |-> b.deferred, dead |-> b.dead]
LEMMA BaseOf ==
    ASSUME NEW b, Shaped(b),
           b.server \in [Servers -> States], b.head \in Servers, b.good \in Nat,
           b.req \in [Handles -> Reqs],
           b.inflight \in Seq(Handles), b.waiting \in Seq(Handles),
           b.nin \in Nat, b.nwait \in Nat,
           b.deferred \in Seq(Calls), b.dead \in BOOLEAN
    PROVE  b \in Bases
  BY DEF Bases, Shaped

\* So are those of a request and of a server.
LEMMA PartTypes ==
    ASSUME NEW b \in Bases
    PROVE  /\ \A h \in Handles :
                 /\ b.req[h] \in Reqs
                 /\ b.req[h].ns \in Servers \cup {0} /\ b.req[h].tx \in 0..MaxRetransmits
                 /\ b.req[h].reissue \in 0..MaxReissues
                 /\ b.req[h].send \in BOOLEAN /\ b.req[h].timer \in BOOLEAN
                 /\ b.req[h].search \in {NoSearch} \cup (-1 .. Domains)
                 /\ b.req[h].sentTo \in SUBSET Servers
           /\ \A s \in Servers :
                 /\ b.server[s] \in States
                 /\ b.server[s].up \in BOOLEAN /\ b.server[s].timer \in BOOLEAN
                 /\ b.server[s].timedout \in 0..MaxTimeouts
                 /\ b.server[s].choked \in BOOLEAN /\ b.server[s].writing \in BOOLEAN
                 /\ b.server[s].probing \in BOOLEAN
           /\ \A i \in DOMAIN b.deferred : /\ b.deferred[i].handle \in Handles
                                           /\ b.deferred[i].result \in Results
  <1>1. /\ b.req \in [Handles -> Reqs] /\ b.server \in [Servers -> States]
        /\ b.deferred \in Seq(Calls)
    BY BaseTypes
  <1>2. \A i \in DOMAIN b.deferred : b.deferred[i] \in Calls
    BY <1>1
  <1> QED BY <1>1, <1>2 DEF Reqs, States, Calls

\* The servers and the handles are finitely many.
LEMMA Finite ==
    ASSUME EvdnsAssumption
    PROVE  /\ IsFiniteSet(Servers) /\ IsFiniteSet(Handles)
           /\ N \in Nat \ {0} /\ Servers = 1..N /\ Servers \subseteq Nat
           /\ Servers \subseteq Handles /\ Clients \subseteq Handles
           /\ 0 \notin Servers
           /\ \A b : IsFiniteSet(Good(b)) /\ Cardinality(Good(b)) \in Nat
  <1>1. N \in Nat \ {0} /\ Servers = 1..N /\ IsFiniteSet(Clients)
    BY DEF EvdnsAssumption, Servers
  <1>2. IsFiniteSet(Servers)
    BY <1>1, FS_Interval
  <1>3. IsFiniteSet(Handles)
    BY <1>1, <1>2, FS_Union DEF Handles
  <1>4. \A b : Good(b) \in SUBSET Servers
    BY DEF Good
  <1>5. \A b : IsFiniteSet(Good(b)) /\ Cardinality(Good(b)) \in Nat
    BY <1>2, <1>4, FS_Subset, FS_CardinalityType
  <1> QED BY <1>1, <1>2, <1>3, <1>5 DEF Handles

\* No queue is longer than the handles are many.
LEMMA QueueFits ==
    ASSUME EvdnsAssumption, NEW q \in Seq(Handles), IsInjective(q)
    PROVE  Len(q) \in Rounds /\ Cardinality(Handles) \in Nat
  <1>1. IsFiniteSet(Handles) /\ Cardinality(Handles) \in Nat
    BY Finite, FS_CardinalityType
  <1>2. q \in [1..Len(q) -> Handles] /\ Len(q) \in Nat
    OBVIOUS
  <1>3. q \in Injection(1..Len(q), Handles)
    BY <1>2 DEF Injection, IsInjective
  <1>4. Cardinality(1..Len(q)) <= Cardinality(Handles)
    BY <1>1, <1>3, FS_Injection
  <1>5. Cardinality(1..Len(q)) = Len(q)
    <2> DEFINE n == Len(q)
    <2>1. n \in Nat /\ 1 \in Int /\ n \in Int
      BY <1>2
    <2> HIDE DEF n
    <2>2. Cardinality(1..n) = IF 1 > n THEN 0 ELSE n - 1 + 1
      BY <2>1, FS_Interval
    <2> QED BY <2>1, <2>2 DEF n
  <1> QED BY <1>1, <1>2, <1>4, <1>5 DEF Rounds

-----------------------------------------------------------------------------
(* Servers picked, passed on and failed.                                    *)

\* The invariants say little enough of servers and requests to survive this.
LEMMA PassedKept ==
    ASSUME NEW b, NEW c \in Bases, NEW X, Kept(b, X), Passed(b, c)
    PROVE  Kept(c, X)
  <1>1. /\ b \in Bases /\ Counted(b) /\ Driven(b, X)
        /\ c.inflight = b.inflight /\ c.waiting = b.waiting
        /\ c.nin = b.nin /\ c.nwait = b.nwait /\ c.good = Cardinality(Good(c))
    BY DEF Kept, Passed, SameQueues
  <1>2. InFlight(c) = InFlight(b)
    BY <1>1 DEF InFlight
  <1>3. Counted(c)
    BY <1>1, <1>2 DEF Counted
  <1>4. InFlight(b) \subseteq Handles
    BY <1>1, BaseTypes DEF InFlight, ToSet
  <1>5. Driven(c, X)
    <2>1. /\ \A s \in Servers : /\ c.server[s].choked = b.server[s].choked
                                /\ c.server[s].writing = b.server[s].writing
          /\ \A h \in Handles :
                /\ c.req[h].tx = b.req[h].tx /\ c.req[h].send = b.req[h].send
                /\ c.req[h].timer = b.req[h].timer
                /\ c.req[h].ns = b.req[h].ns \/ c.req[h].ns \in Servers
      BY DEF Passed
    <2> QED BY <1>1, <1>2, <1>4, <2>1 DEF Driven
  <1> QED BY <1>3, <1>5 DEF Kept

\* So does what is said of the servers that are down.
LEMMA SentWatched ==
    ASSUME NEW b \in Bases, NEW c \in Bases, NEW X, Watched(b, X), Sent(b, c),
           Asking(c) \ X = Asking(b) \ X
    PROVE  Watched(c, X)
  <1>1. c.deferred = b.deferred /\ Deferred(c) = Deferred(b)
    BY DEF Sent, Deferred
  <1>2. \A s : Told(c, s) = Told(b, s)
    BY <1>1 DEF Told
  <1>3. \A s \in Servers : /\ b.server[s].up \in BOOLEAN /\ b.server[s].timer \in BOOLEAN
                           /\ c.server[s].up \in BOOLEAN /\ c.server[s].timer \in BOOLEAN
    BY PartTypes
  <1>4. \A s \in Servers : c.server[s].up => ~c.server[s].timer
    BY <1>3 DEF Sent, Watched
  <1>5. ASSUME NEW s \in Servers \ X
        PROVE  /\ s \in Asking(c) => ~c.server[s].up /\ c.server[s].probing
               /\ ~c.server[s].up =>
                     s \in Deferred(c) \/ (c.server[s].timer # (s \in Asking(c)))
               /\ ~c.server[s].up /\ Told(c, s) => c.server[s].timer
    <2>1. /\ s \in Asking(b) => ~b.server[s].up /\ b.server[s].probing
          /\ ~b.server[s].up =>
                s \in Deferred(b) \/ (b.server[s].timer # (s \in Asking(b)))
          /\ ~b.server[s].up /\ Told(b, s) => b.server[s].timer
      BY DEF Watched
    <2>2. s \in Asking(c) <=> s \in Asking(b)
      OBVIOUS
    <2>3. c.server[s].probing = b.server[s].probing
      BY DEF Sent
    <2>4. CASE c.server[s].up = b.server[s].up /\ c.server[s].timer = b.server[s].timer
      BY <1>1, <1>2, <2>1, <2>2, <2>3, <2>4
    <2>5. CASE b.server[s].up /\ ~c.server[s].up /\ c.server[s].timer
      BY <1>3, <2>1, <2>2, <2>5
    <2> QED BY <2>4, <2>5 DEF Sent
  <1>6. /\ \A i, j \in DOMAIN c.deferred :
             c.deferred[i].handle = c.deferred[j].handle => i = j
        /\ \A h \in Asking(c) \ X : h \notin Deferred(c)
    BY <1>1 DEF Watched
  <1> QED BY <1>4, <1>5, <1>6 DEF Watched

\* Sending twice is sending.
LEMMA SentTwice ==
    ASSUME NEW a \in Bases, NEW b \in Bases, NEW c \in Bases, Sent(a, b), Sent(b, c)
    PROVE  Sent(a, c)
  <1>1. \A s \in Servers : /\ a.server[s].up \in BOOLEAN /\ b.server[s].up \in BOOLEAN
                           /\ c.server[s].up \in BOOLEAN
    BY PartTypes
  <1> QED BY <1>1 DEF Sent

\* Passing on twice is passing on.
LEMMA PassedTwice ==
    ASSUME NEW a \in Bases, NEW b \in Bases, NEW c \in Bases, Passed(a, b), Passed(b, c)
    PROVE  Passed(a, c)
  <1>1. Sent(a, c)
    BY SentTwice DEF Passed
  <1> QED BY <1>1 DEF Passed, SameQueues

\* nameserver_pick finds a server.
LEMMA PickIsServer ==
    ASSUME EvdnsAssumption, NEW b \in Bases, b.good = Cardinality(Good(b))
    PROVE  Pick(b) \in Servers /\ \A s \in Servers : After(s) \in Servers
  <1>1. \A s \in Servers : After(s) \in Servers
    <2> SUFFICES ASSUME NEW s \in Servers PROVE After(s) \in Servers
      OBVIOUS
    <2>1. s \in Int /\ N \in Nat \ {0} /\ Servers = 1..N
      BY Finite
    <2>2. s % N \in 0..(N - 1)
      BY <2>1
    <2> QED BY <2>1, <2>2 DEF After
  <1>2. CASE b.good = 0
    BY <1>1, <1>2, BaseTypes DEF Pick
  <1>3. CASE b.good # 0
    <2> DEFINE good == {s \in Servers : b.server[s].up}
               Ahead(s) == (s - b.head) % N
               D == {Ahead(s) : s \in good}
    <2>1. good # {}
      BY <1>3, Finite, FS_EmptySet DEF Good
    <2>2. \A s \in good : Ahead(s) \in Nat
      <3> TAKE s \in good
      <3>1. s - b.head \in Int /\ N \in Nat \ {0}
        BY Finite, BaseTypes
      <3>2. (s - b.head) % N \in 0..(N - 1)
        BY <3>1
      <3> QED BY <3>1, <3>2
    <2>3. D \in SUBSET Nat /\ D # {}
      BY <2>1, <2>2
    <2>4. PICK d \in D : \A e \in D : d <= e
      <3> HIDE DEF D
      <3> QED BY <2>3, LeastExists
    <2>5. \E s \in good : \A t \in good : Ahead(s) <= Ahead(t)
      BY <2>4
    <2>6. Pick(b) = CHOOSE s \in good : \A t \in good : Ahead(s) <= Ahead(t)
      BY <1>3 DEF Pick
    <2>7. Pick(b) \in good
      <3> HIDE DEF good, Ahead
      <3> QED BY <2>5, <2>6
    <2> QED BY <1>1, <2>7
  <1> QED BY <1>2, <1>3

\* What a request that is assigned changes.
LEMMA AssignFacts ==
    ASSUME EvdnsAssumption, NEW b \in Bases, b.good = Cardinality(Good(b)),
           NEW h \in Handles
    PROVE  /\ Assign(b, h) \in Bases /\ Passed(b, Assign(b, h))
           /\ Assign(b, h).req[h].ns \in Servers
           /\ Assign(b, h).server = b.server /\ Assign(b, h).dead = b.dead
           /\ Assign(b, h).deferred = b.deferred
           /\ \A k \in Handles : k # h => Assign(b, h).req[k] = b.req[k]
           /\ Assign(b, h).req[h].tx = b.req[h].tx
           /\ Assign(b, h).req[h].send = b.req[h].send
           /\ Assign(b, h).req[h].timer = b.req[h].timer
  <1> DEFINE s == Pick(b)
             c == Assign(b, h)
             q == [b.req EXCEPT ![h].ns = s]
  <1>1. s \in Servers /\ HeadAfter(b, s) \in Servers
    BY PickIsServer DEF HeadAfter
  <1>2. /\ c.server = b.server /\ c.head = HeadAfter(b, s) /\ c.good = b.good
        /\ c.req = q /\ c.inflight = b.inflight /\ c.waiting = b.waiting
        /\ c.nin = b.nin /\ c.nwait = b.nwait /\ c.deferred = b.deferred
        /\ c.dead = b.dead
    BY BaseTypes DEF Assign
  <1>7. Shaped(c)
    <2> DEFINE x == HeadAfter(b, s)
    <2>1. c = [[b EXCEPT !.req = q] EXCEPT !.head = x]
      BY BaseTypes DEF Assign
    <2> HIDE DEF q, x, c
    <2>2. Shaped(b)
      BY BaseTypes DEF Shaped
    <2> QED BY <2>1, <2>2 DEF Shaped
  <1> HIDE DEF c
  <1>3. q \in [Handles -> Reqs] /\ q[h].ns = s /\ q[h].tx = b.req[h].tx
        /\ q[h].send = b.req[h].send /\ q[h].timer = b.req[h].timer
        /\ q[h].reissue = b.req[h].reissue
        /\ \A k \in Handles : k # h => q[k] = b.req[k]
    <2>1. [b.req[h] EXCEPT !.ns = s] \in Reqs
      BY <1>1, PartTypes DEF Reqs
    <2>2. q = [b.req EXCEPT ![h] = [b.req[h] EXCEPT !.ns = s]]
      BY BaseTypes
    <2> DEFINE r == b.req[h]
    <2>3. /\ r \in Reqs /\ [r EXCEPT !.ns = s].ns = s
          /\ [r EXCEPT !.ns = s].tx = r.tx /\ [r EXCEPT !.ns = s].send = r.send
          /\ [r EXCEPT !.ns = s].timer = r.timer
          /\ [r EXCEPT !.ns = s].reissue = r.reissue
      BY PartTypes DEF Reqs
    <2>4. q[h] = [r EXCEPT !.ns = s] /\ \A k \in Handles : k # h => q[k] = b.req[k]
      BY <2>2, BaseTypes
    <2>5. q \in [Handles -> Reqs]
      BY <2>1, <2>2, BaseTypes
    <2> QED BY <2>3, <2>4, <2>5
  <1> HIDE DEF q, s
  <1>4. c \in Bases
    BY <1>1, <1>2, <1>3, <1>7, BaseTypes, BaseOf
  <1>5. Good(c) = Good(b)
    BY <1>2 DEF Good
  <1>6. Passed(b, c)
    BY <1>1, <1>2, <1>3, <1>5 DEF Passed, Sent, SameQueues
  <1> QED BY <1>1, <1>2, <1>3, <1>4, <1>6 DEF c

\* The rounds of nameserver_failed over the requests in flight: the recursion
\* has a solution.
MovedRun(f, n, c, q, s) ==
    f = [i \in 0..n |-> IF i = 0 THEN c ELSE Moved(f[i - 1], q[i], s)]

\* There is such a function for as many rounds as the loop makes.
LEMMA MovedRuns ==
    ASSUME NEW c, NEW q, NEW s, NEW n \in Nat
    PROVE  \E f : MovedRun(f, n, c, q, s)
  <1> DEFINE Run(f, m) == f = [i \in 0..m |-> IF i = 0 THEN c
                                              ELSE Moved(f[i - 1], q[i], s)]
             P == {m \in Nat : \E f : Run(f, m)}
  <1>1. 0 \in P
    <2>1. Run([i \in 0..0 |-> c], 0)
      OBVIOUS
    <2> HIDE DEF Run
    <2> QED BY <2>1
  <1>2. ASSUME NEW m \in Nat, m \in P
        PROVE  m + 1 \in P
    <2>1. PICK f : Run(f, m)
      BY <1>2
    <2> DEFINE last == Moved(f[m], q[m + 1], s)
               g == [i \in 0..(m + 1) |-> IF i = m + 1 THEN last ELSE f[i]]
    <2>2. \A i \in 0..m : /\ i \in 0..(m + 1) /\ g[i] = f[i]
                          /\ i # 0 => i - 1 \in 0..m
                          /\ f[i] = IF i = 0 THEN c ELSE Moved(f[i - 1], q[i], s)
      BY <2>1
    <2>3. /\ g[m + 1] = last /\ m \in 0..m /\ (m + 1) - 1 = m /\ m + 1 # 0
          /\ \A i \in 0..(m + 1) : i \in 0..m \/ i = m + 1
      OBVIOUS
    <2>4. \A i \in 0..(m + 1) :
             g[i] = IF i = 0 THEN c ELSE Moved(g[i - 1], q[i], s)
      <3> HIDE DEF g
      <3> QED BY <2>2, <2>3
    <2>5. Run(g, m + 1)
      <3>1. g = [i \in 0..(m + 1) |-> g[i]]
        OBVIOUS
      <3> HIDE DEF g
      <3> QED BY <2>4, <3>1
    <2> HIDE DEF Run
    <2> QED BY <2>5
  <1>3. Nat \subseteq P
    <2> HIDE DEF P
    <2> QED BY <1>1, <1>2, SetInduction
  <1> QED BY <1>3 DEF MovedRun

\* A server that has failed: what waited for it goes elsewhere, and it is down
\* with its timer armed.
LEMMA FailedPassed ==
    ASSUME EvdnsAssumption, NEW b \in Bases, Counted(b), NEW s \in Servers
    PROVE  /\ Failed(b, s) \in Bases /\ Passed(b, Failed(b, s))
           /\ Failed(b, s).dead = b.dead
  <1> DEFINE down == [b EXCEPT !.good = @ - 1,
                         !.server[s] = [@ EXCEPT !.up = FALSE, !.timer = TRUE]]
             n == Len(b.inflight)
             K == Cardinality(Handles)
             Over(x) == x \in Bases /\ Passed(b, x) /\ x.dead = b.dead
  <1>1. b.good = Cardinality(Good(b)) /\ IsInjective(b.inflight)
    BY DEF Counted
  <1>2. CASE ~b.server[s].up
    <2>1. Failed(b, s) = b
      BY <1>2 DEF Failed
    <2> QED BY <1>1, <2>1 DEF Passed, Sent, SameQueues
  <1>3. CASE b.server[s].up
    <2> DEFINE v == [b.server EXCEPT ![s] = [@ EXCEPT !.up = FALSE, !.timer = TRUE]]
    <2>1. /\ v \in [Servers -> States] /\ ~v[s].up /\ v[s].timer
          /\ v[s].probing = b.server[s].probing /\ v[s].choked = b.server[s].choked
          /\ v[s].writing = b.server[s].writing
          /\ \A t \in Servers : t # s => v[t] = b.server[t]
      <3> DEFINE r == b.server[s]
                 r2 == [r EXCEPT !.up = FALSE, !.timer = TRUE]
      <3>5. r \in States
        BY PartTypes
      <3>1. /\ r2 \in States /\ ~r2.up /\ r2.timer
            /\ r2.probing = r.probing /\ r2.choked = r.choked /\ r2.writing = r.writing
        <4> HIDE DEF r
        <4> QED BY <3>5 DEF States
      <3>2. v = [b.server EXCEPT ![s] = r2]
        BY BaseTypes
      <3>3. v[s] = r2 /\ \A t \in Servers : t # s => v[t] = b.server[t]
        BY <3>2, BaseTypes
      <3>4. v \in [Servers -> States]
        BY <3>1, <3>2, BaseTypes
      <3> QED BY <3>1, <3>3, <3>4
    <2> HIDE DEF v
    <2>2. /\ down.server = v /\ down.head = b.head /\ down.good = b.good - 1
          /\ down.req = b.req /\ down.inflight = b.inflight
          /\ down.waiting = b.waiting /\ down.nin = b.nin /\ down.nwait = b.nwait
          /\ down.deferred = b.deferred /\ down.dead = b.dead
      BY BaseTypes DEF v
    <2>3. Shaped(down)
      <3>1. down = [[b EXCEPT !.good = b.good - 1] EXCEPT !.server = v]
        BY BaseTypes DEF v
      <3>2. Shaped(b)
        BY BaseTypes DEF Shaped
      <3> HIDE DEF down
      <3> QED BY <3>1, <3>2 DEF Shaped
    <2> HIDE DEF down
    <2>4. Good(down) = Good(b) \ {s} /\ s \in Good(b)
      <3>1. \A t \in Servers : down.server[t].up <=> b.server[t].up /\ t # s
        BY <1>3, <2>1, <2>2
      <3> QED BY <1>3, <3>1 DEF Good
    <2>5. down.good = Cardinality(Good(down)) /\ down.good \in Nat
      <3>1. IsFiniteSet(Good(b)) /\ Cardinality(Good(down)) \in Nat
        BY Finite
      <3>3. Cardinality(Good(b) \ {s}) =
               IF s \in Good(b) THEN Cardinality(Good(b)) - 1 ELSE Cardinality(Good(b))
        BY <3>1, FS_RemoveElement
      <3>2. Cardinality(Good(down)) = Cardinality(Good(b)) - 1
        BY <2>4, <3>3
      <3> QED BY <1>1, <2>2, <3>1, <3>2
    <2>6. Over(down)
      <3>1. down \in Bases
        BY <2>1, <2>2, <2>3, <2>5, BaseTypes, BaseOf
      <3>2. Passed(b, down)
        BY <1>3, <2>1, <2>2, <2>5 DEF Passed, Sent, SameQueues
      <3> QED BY <2>2, <3>1, <3>2
    <2> DEFINE after == CHOOSE f : f = [i \in Rounds |->
                            IF i = 0 THEN down ELSE Moved(f[i - 1], b.inflight[i], s)]
    <2>7. Failed(b, s) = IF b.good = 1 THEN down ELSE after[n]
      BY <1>3, Zenon DEF Failed, down, Rounds
    <2>8. n \in 0..K /\ K \in Nat /\ n \in Nat /\ Rounds = 0..K
      BY <1>1, QueueFits, BaseTypes DEF Rounds
    <2>9. after = [i \in Rounds |->
                      IF i = 0 THEN down ELSE Moved(after[i - 1], b.inflight[i], s)]
      <3>1. \E f : f = [i \in 0..K |->
                           IF i = 0 THEN down ELSE Moved(f[i - 1], b.inflight[i], s)]
        <4>1. K \in Nat
          BY <2>8
        <4>2. PICK f : MovedRun(f, K, down, b.inflight, s)
          <5> HIDE DEF K
          <5> QED BY <4>1, MovedRuns
        <4> QED BY <4>2 DEF MovedRun
      <3> QED BY <2>8, <3>1
    <2> HIDE DEF after, K
    <2>10. /\ after[0] = down
           /\ \A i \in 1..n : after[i] = Moved(after[i - 1], b.inflight[i], s)
      BY <2>8, <2>9
    <2> DEFINE P == {i \in 0..n : Over(after[i])}
    <2>11. 0 \in P
      <3>1. 0 \in 0..n
        BY <2>8
      <3> HIDE DEF Over
      <3> QED BY <2>6, <2>10, <3>1
    <2>12. ASSUME NEW i \in 1..n, i - 1 \in P
           PROVE  i \in P
      <3> DEFINE x == after[i - 1]
                 h == b.inflight[i]
      <3>1. Over(x) /\ h \in Handles /\ i \in 0..n
        <4>1. b.inflight \in Seq(Handles) /\ i \in 1..Len(b.inflight)
          BY BaseTypes
        <4>2. h \in Handles
          BY <4>1
        <4> HIDE DEF Over, h
        <4> QED BY <2>8, <2>12, <4>2
      <3> HIDE DEF x, h
      <3>2. Over(Moved(x, h, s))
        <4>1. CASE Moved(x, h, s) = x
          BY <3>1, <4>1
        <4>2. CASE Moved(x, h, s) = Assign(x, h)
          <5> DEFINE y == Assign(x, h)
          <5>1. x.good = Cardinality(Good(x)) /\ x \in Bases /\ x.dead = b.dead
            BY <3>1 DEF Passed
          <5>2. y \in Bases /\ Passed(x, y) /\ y.dead = x.dead
            BY <3>1, <5>1, AssignFacts
          <5> HIDE DEF y
          <5>3. Passed(b, y)
            BY <3>1, <5>1, <5>2, PassedTwice
          <5> QED BY <4>2, <5>1, <5>2, <5>3 DEF y
        <4> QED BY <4>1, <4>2 DEF Moved
      <3>3. after[i] = Moved(x, h, s)
        BY <2>10 DEF x, h
      <3> HIDE DEF Over
      <3> QED BY <3>1, <3>2, <3>3
    <2>13. Over(after[n])
      <3> HIDE DEF P, Over
      <3>1. 0..n \subseteq P
        BY <2>8, <2>11, <2>12, BoundedInduction
      <3> QED BY <2>8, <3>1 DEF P
    <2> QED BY <2>6, <2>7, <2>13
  <1> QED BY <1>2, <1>3

-----------------------------------------------------------------------------
(* Requests sent.                                                           *)

\* A base with other requests, and one with other servers.
WithReq(b, q)    == [b EXCEPT !.req = q]
WithServer(b, v) == [b EXCEPT !.server = v]

\* Other requests leave the rest of the base as it was.
LEMMA WithReqFacts ==
    ASSUME NEW b \in Bases, NEW q \in [Handles -> Reqs]
    PROVE  /\ WithReq(b, q) \in Bases /\ WithReq(b, q).req = q
           /\ WithReq(b, q).server = b.server /\ WithReq(b, q).head = b.head
           /\ WithReq(b, q).good = b.good /\ WithReq(b, q).dead = b.dead
           /\ WithReq(b, q).inflight = b.inflight /\ WithReq(b, q).waiting = b.waiting
           /\ WithReq(b, q).nin = b.nin /\ WithReq(b, q).nwait = b.nwait
           /\ WithReq(b, q).deferred = b.deferred
  <1> DEFINE c == WithReq(b, q)
  <1>1. /\ c.server = b.server /\ c.head = b.head /\ c.good = b.good /\ c.req = q
        /\ c.inflight = b.inflight /\ c.waiting = b.waiting
        /\ c.nin = b.nin /\ c.nwait = b.nwait /\ c.deferred = b.deferred
        /\ c.dead = b.dead
    BY BaseTypes DEF WithReq
  <1>2. Shaped(c)
    <2>1. Shaped(b)
      BY BaseTypes DEF Shaped
    <2> QED BY <2>1 DEF Shaped, WithReq
  <1> HIDE DEF c
  <1>3. c \in Bases
    BY <1>1, <1>2, BaseTypes, BaseOf
  <1> QED BY <1>1, <1>3 DEF c

\* So do other servers.
LEMMA WithServerFacts ==
    ASSUME NEW b \in Bases, NEW v \in [Servers -> States]
    PROVE  /\ WithServer(b, v) \in Bases /\ WithServer(b, v).server = v
           /\ WithServer(b, v).req = b.req /\ WithServer(b, v).head = b.head
           /\ WithServer(b, v).good = b.good /\ WithServer(b, v).dead = b.dead
           /\ WithServer(b, v).inflight = b.inflight
           /\ WithServer(b, v).waiting = b.waiting
           /\ WithServer(b, v).nin = b.nin /\ WithServer(b, v).nwait = b.nwait
           /\ WithServer(b, v).deferred = b.deferred
  <1> DEFINE c == WithServer(b, v)
  <1>1. /\ c.server = v /\ c.head = b.head /\ c.good = b.good /\ c.req = b.req
        /\ c.inflight = b.inflight /\ c.waiting = b.waiting
        /\ c.nin = b.nin /\ c.nwait = b.nwait /\ c.deferred = b.deferred
        /\ c.dead = b.dead
    BY BaseTypes DEF WithServer
  <1>2. Shaped(c)
    <2>1. Shaped(b)
      BY BaseTypes DEF Shaped
    <2> QED BY <2>1 DEF Shaped, WithServer
  <1> HIDE DEF c
  <1>3. c \in Bases
    BY <1>1, <1>2, BaseTypes, BaseOf
  <1> QED BY <1>1, <1>3 DEF c

\* An EXCEPT of several parts makes one change after the other.
LEMMA OneByOne ==
    ASSUME NEW t, NEW h
    PROVE  /\ [t EXCEPT !.req[h].timer = TRUE, !.req[h].tx = @ + 1,
                        !.req[h].send = FALSE] =
                 [[[t EXCEPT !.req[h].timer = TRUE] EXCEPT !.req[h].tx = @ + 1]
                     EXCEPT !.req[h].send = FALSE]
           /\ [t EXCEPT ![h].timer = TRUE, ![h].tx = @ + 1, ![h].send = FALSE] =
                 [[[t EXCEPT ![h].timer = TRUE] EXCEPT ![h].tx = @ + 1]
                     EXCEPT ![h].send = FALSE]
  OBVIOUS

\* So does the one of nameserver_up.
LEMMA UpOneByOne ==
    ASSUME NEW q, NEW s
    PROVE  [q EXCEPT !.server[s].probing = FALSE, !.server[s].up = TRUE,
                     !.server[s].timedout = 0, !.good = @ + 1] =
           [[[[q EXCEPT !.server[s].probing = FALSE] EXCEPT !.server[s].up = TRUE]
                 EXCEPT !.server[s].timedout = 0] EXCEPT !.good = @ + 1]
  OBVIOUS

\* So does the one of request_reissue.
LEMMA RefusedOneByOne ==
    ASSUME NEW t, NEW h
    PROVE  /\ [t EXCEPT !.req[h].reissue = @ + 1, !.req[h].tx = 0,
                        !.req[h].send = TRUE] =
                 [[[t EXCEPT !.req[h].reissue = @ + 1] EXCEPT !.req[h].tx = 0]
                     EXCEPT !.req[h].send = TRUE]
           /\ [t EXCEPT ![h].reissue = @ + 1, ![h].tx = 0, ![h].send = TRUE] =
                 [[[t EXCEPT ![h].reissue = @ + 1] EXCEPT ![h].tx = 0]
                     EXCEPT ![h].send = TRUE]
  OBVIOUS

\* Exempting more requests asks less.
LEMMA KeptLess ==
    ASSUME NEW b, NEW X, Kept(b, {})
    PROVE  Kept(b, X)
  BY DEF Kept, Driven

\* A change of one request in flight leaves the others driven.
LEMMA OneRequest ==
    ASSUME NEW b, NEW h \in InFlight(b), Kept(b, {h}), NEW q \in [Handles -> Reqs],
           \A k \in Handles \ {h} : q[k] = b.req[k], q[h].ns \in Servers
    PROVE  /\ Kept(WithReq(b, q), {h}) /\ Sent(b, WithReq(b, q))
           /\ SameQueues(b, WithReq(b, q)) /\ WithReq(b, q).dead = b.dead
  <1> DEFINE c == WithReq(b, q)
  <1>1. b \in Bases /\ Counted(b) /\ Driven(b, {h})
    BY DEF Kept
  <1>2. /\ c \in Bases /\ c.req = q /\ c.server = b.server /\ c.good = b.good
        /\ c.inflight = b.inflight /\ c.waiting = b.waiting /\ c.nin = b.nin
        /\ c.nwait = b.nwait /\ c.deferred = b.deferred /\ c.dead = b.dead
    BY <1>1, WithReqFacts
  <1> HIDE DEF c
  <1>3. InFlight(c) = InFlight(b) /\ Good(c) = Good(b)
    BY <1>2 DEF InFlight, Good
  <1>4. InFlight(b) \subseteq Handles
    BY <1>1, BaseTypes DEF InFlight, ToSet
  <1>5. Counted(c)
    BY <1>1, <1>2, <1>3 DEF Counted
  <1>6. Driven(c, {h})
    BY <1>1, <1>2, <1>3, <1>4 DEF Driven
  <1>7. Sent(b, c) /\ SameQueues(b, c)
    BY <1>2 DEF Sent, SameQueues
  <1> QED BY <1>2, <1>5, <1>6, <1>7 DEF Kept, c

\* The one that was exempt is driven too.
LEMMA AllDriven ==
    ASSUME NEW b, NEW h \in InFlight(b), Kept(b, {h}),
           b.req[h].timer \/ b.req[h].send,
           b.req[h].send => b.req[h].tx < MaxRetransmits,
           b.req[h].send /\ ~b.req[h].timer => \E s \in Servers : b.server[s].writing
    PROVE  Kept(b, {})
  BY DEF Kept, Driven

\* evdns_request_transmit, for a request that may still be sent.
LEMMA TransmitFacts ==
    ASSUME EvdnsAssumption, NEW b, NEW h \in InFlight(b), Kept(b, {h}),
           b.req[h].tx < MaxRetransmits, NEW net \in Nets
    PROVE  /\ Kept(Transmit(b, h, net), {}) /\ Sent(b, Transmit(b, h, net))
           /\ SameQueues(b, Transmit(b, h, net)) /\ Transmit(b, h, net).dead = b.dead
  <1> DEFINE s == b.req[h].ns
             q1 == [b.req EXCEPT ![h].send = TRUE]
             m == WithReq(b, q1)
  <1>1. /\ b \in Bases /\ Counted(b) /\ Driven(b, {h}) /\ h \in Handles
        /\ s \in Servers /\ net[s] \in {"ok", "again", "error"}
    <2>1. b \in Bases /\ Counted(b) /\ Driven(b, {h})
      BY DEF Kept
    <2>2. h \in Handles
      BY <2>1, BaseTypes DEF InFlight, ToSet
    <2> QED BY <2>1, <2>2 DEF Driven, EvdnsAssumption
  <1>2. /\ q1 \in [Handles -> Reqs] /\ \A k \in Handles \ {h} : q1[k] = b.req[k]
        /\ q1[h].ns = s /\ q1[h].send /\ q1[h].tx = b.req[h].tx
    <2> DEFINE r == b.req[h]
               r2 == [r EXCEPT !.send = TRUE]
    <2>1. r \in Reqs
      BY <1>1, PartTypes
    <2>2. r2 \in Reqs /\ r2.ns = r.ns /\ r2.send /\ r2.tx = r.tx
      <3> HIDE DEF r
      <3> QED BY <2>1 DEF Reqs
    <2>3. q1 = [b.req EXCEPT ![h] = r2]
      BY <1>1, BaseTypes
    <2> HIDE DEF q1, r2
    <2> QED BY <1>1, <2>2, <2>3, BaseTypes
  <1>3. m = [b EXCEPT !.req[h].send = TRUE]
    BY <1>1, BaseTypes DEF WithReq
  <1> HIDE DEF s, q1
  <1>4. /\ Kept(m, {h}) /\ Sent(b, m) /\ SameQueues(b, m) /\ m.dead = b.dead
        /\ m \in Bases /\ m.req = q1 /\ m.server = b.server
    BY SMTT(30), <1>1, <1>2, OneRequest, WithReqFacts DEF Kept
  <1> HIDE DEF m
  <1>5. /\ m.req[h].ns = s /\ m.req[h].tx < MaxRetransmits /\ m.req[h].send
        /\ h \in InFlight(m) /\ Counted(m)
        /\ \A t \in Servers : m.server[t].choked => m.server[t].writing
    BY <1>2, <1>4 DEF SameQueues, InFlight, Kept, Driven
  <1>6. CASE m.server[s].choked
    <2>1. Transmit(b, h, net) = m
      BY <1>3, <1>6 DEF Transmit, s
    <2>2. Kept(m, {})
      BY <1>1, <1>4, <1>5, <1>6, AllDriven
    <2> QED BY <1>4, <2>1, <2>2
  <1>7. CASE ~m.server[s].choked /\ net[s] = "again"
    <2> DEFINE v == [m.server EXCEPT ![s].choked = TRUE, ![s].writing = TRUE]
               c == WithServer(m, v)
    <2>1. Transmit(b, h, net) = [m EXCEPT !.server[s].choked = TRUE,
                                          !.server[s].writing = TRUE]
      BY <1>3, <1>7 DEF Transmit, s
    <2>2. c = [m EXCEPT !.server[s].choked = TRUE, !.server[s].writing = TRUE]
      <3> DEFINE m1 == [m EXCEPT !.server[s].choked = TRUE]
                 v1 == [m.server EXCEPT ![s].choked = TRUE]
                 v2 == [v1 EXCEPT ![s].writing = TRUE]
      <3>1. Shaped(m)
        BY <1>4, BaseTypes DEF Shaped
      <3>2. m1 = WithServer(m, v1)
        BY <3>1 DEF Shaped, WithServer
      <3>3. [m EXCEPT !.server[s].choked = TRUE, !.server[s].writing = TRUE] =
            [m1 EXCEPT !.server[s].writing = TRUE]
        OBVIOUS
      <3>4. m1.server = v1 /\ Shaped(m1)
        <4> HIDE DEF m1, v1
        <4> QED BY <3>1, <3>2 DEF Shaped, WithServer
      <3>5. [m1 EXCEPT !.server[s].writing = TRUE] = WithServer(m1, v2)
        <4> HIDE DEF m1, v1
        <4> QED BY <3>4 DEF Shaped, WithServer
      <3>6. WithServer(m1, v2) = WithServer(m, v2)
        <4> HIDE DEF m1, v1, v2
        <4> QED BY <3>1, <3>2 DEF Shaped, WithServer
      <3>7. v = v2
        OBVIOUS
      <3> QED BY <3>3, <3>5, <3>6, <3>7
    <2>3. /\ v \in [Servers -> States] /\ v[s].choked /\ v[s].writing
          /\ v[s].probing = m.server[s].probing /\ v[s].up = m.server[s].up
          /\ v[s].timer = m.server[s].timer
          /\ \A t \in Servers \ {s} : v[t] = m.server[t]
      <3> DEFINE r == m.server[s]
                 r2 == [[r EXCEPT !.choked = TRUE] EXCEPT !.writing = TRUE]
      <3>1. r \in States
        BY <1>1, <1>4, PartTypes
      <3>2. /\ r2 \in States /\ r2.choked /\ r2.writing /\ r2.probing = r.probing
            /\ r2.up = r.up /\ r2.timer = r.timer
        <4> HIDE DEF r
        <4> QED BY <3>1 DEF States
      <3>3. v = [m.server EXCEPT ![s] = r2]
        <4> DEFINE f == m.server
        <4>1. f \in [Servers -> States]
          BY <1>4, BaseTypes
        <4> HIDE DEF f
        <4>2. [f EXCEPT ![s].choked = TRUE, ![s].writing = TRUE] =
                 [f EXCEPT ![s] = [[f[s] EXCEPT !.choked = TRUE] EXCEPT !.writing = TRUE]]
          BY <1>1, <4>1 DEF States
        <4> QED BY <4>2 DEF f
      <3> HIDE DEF v, r2
      <3> QED BY SMTT(30), <1>1, <1>4, <3>2, <3>3, BaseTypes
    <2> HIDE DEF v
    <2>4. /\ c \in Bases /\ c.server = v /\ c.req = m.req /\ c.good = m.good
          /\ c.dead = m.dead /\ c.inflight = m.inflight /\ c.waiting = m.waiting
          /\ c.nin = m.nin /\ c.nwait = m.nwait /\ c.deferred = m.deferred
      BY <1>4, <2>3, WithServerFacts
    <2> HIDE DEF c
    <2>5. InFlight(c) = InFlight(m)
      BY <2>4 DEF InFlight
    <2>6. Good(c) = Good(m)
      BY <1>1, <2>3, <2>4 DEF Good
    <2>7. Counted(c)
      BY <1>5, <2>4, <2>5, <2>6 DEF Counted
    <2>8. Driven(c, {h})
      BY <1>1, <1>4, <2>3, <2>4, <2>5 DEF Driven, Kept
    <2>9. Kept(c, {})
      BY <1>1, <1>5, <2>3, <2>4, <2>5, <2>7, <2>8, AllDriven DEF Kept
    <2>10. Sent(m, c)
      BY <1>1, <2>3, <2>4 DEF Sent
    <2> QED BY <1>1, <1>4, <2>1, <2>2, <2>4, <2>9, <2>10, SentTwice DEF SameQueues
  <1>8. CASE ~m.server[s].choked /\ net[s] # "again"
    <2> DEFINE t1 == [m EXCEPT !.req[h].sentTo = @ \cup {s}]
               t == IF net[s] = "error" THEN Failed(m, s) ELSE t1
               q2 == [t.req EXCEPT ![h].timer = TRUE, ![h].tx = @ + 1, ![h].send = FALSE]
               c == WithReq(t, q2)
    <2>1. Transmit(b, h, net) = [t EXCEPT !.req[h].timer = TRUE, !.req[h].tx = @ + 1,
                                          !.req[h].send = FALSE]
      BY <1>3, <1>8 DEF Transmit, s
    <2>2. Kept(t, {h}) /\ Sent(m, t) /\ SameQueues(m, t) /\ t.dead = m.dead /\ t.req[h].tx = m.req[h].tx
      <3>1. CASE net[s] = "error"
        <4>1. t = Failed(m, s) /\ t \in Bases /\ Passed(m, t) /\ t.dead = m.dead
          BY <1>1, <1>4, <1>5, <3>1, FailedPassed
        <4> HIDE DEF t
        <4>2. Kept(t, {h})
          BY <1>4, <4>1, PassedKept
        <4> QED BY <1>1, <4>1, <4>2 DEF Passed
      <3>2. CASE net[s] # "error"
        <4> DEFINE q3 == [m.req EXCEPT ![h].sentTo = @ \cup {s}]
        <4>1. /\ q3 \in [Handles -> Reqs] /\ \A k \in Handles \ {h} : q3[k] = m.req[k]
              /\ q3[h].ns = s /\ q3[h].tx = m.req[h].tx
          <5> DEFINE r == m.req[h]
                     r2 == [r EXCEPT !.sentTo = @ \cup {s}]
          <5>1. r \in Reqs
            BY <1>1, <1>4, PartTypes
          <5>2. r2 \in Reqs /\ r2.ns = r.ns /\ r2.tx = r.tx
            <6> HIDE DEF r
            <6> QED BY <1>1, <5>1 DEF Reqs
          <5>3. q3 = [m.req EXCEPT ![h] = r2]
            BY <1>1, <1>4, BaseTypes
          <5> HIDE DEF q3, r2
          <5> QED BY SMTT(30), <1>1, <1>4, <1>5, <5>2, <5>3, BaseTypes
        <4>2. t = WithReq(m, q3)
          BY <1>1, <1>4, <3>2, BaseTypes DEF WithReq
        <4> HIDE DEF q3, t
        <4>3. /\ Kept(t, {h}) /\ Sent(m, t) /\ SameQueues(m, t) /\ t.dead = m.dead
          BY <1>1, <1>4, <1>5, <4>1, <4>2, OneRequest
        <4>4. t.req = q3
          BY <1>4, <4>1, <4>2, WithReqFacts
        <4> QED BY <4>1, <4>3, <4>4
      <3> QED BY <3>1, <3>2
    <2> HIDE DEF t, t1
    <2>3. /\ q2 \in [Handles -> Reqs] /\ \A k \in Handles \ {h} : q2[k] = t.req[k]
          /\ q2[h].ns = t.req[h].ns /\ q2[h].timer /\ ~q2[h].send
      <3> DEFINE r == t.req[h]
                 r2 == [[[r EXCEPT !.timer = TRUE] EXCEPT !.tx = @ + 1] EXCEPT !.send = FALSE]
      <3>1. r \in Reqs /\ r.tx \in 0..MaxRetransmits /\ r.tx < MaxRetransmits
        BY <1>1, <1>5, <2>2, PartTypes DEF Kept
      <3>2. r2 \in Reqs /\ r2.ns = r.ns /\ r2.timer /\ ~r2.send
        <4>1. r.tx + 1 \in 0..MaxRetransmits
          BY <3>1 DEF EvdnsAssumption
        <4> HIDE DEF r
        <4> QED BY <3>1, <4>1 DEF Reqs
      <3>3. q2 = [t.req EXCEPT ![h] = r2]
        <4> DEFINE f == t.req
        <4>1. f \in [Handles -> Reqs]
          BY <2>2, BaseTypes DEF Kept
        <4> HIDE DEF f
        <4> DEFINE ra == [f[h] EXCEPT !.timer = TRUE]
                   fa == [f EXCEPT ![h].timer = TRUE]
                   rb == [ra EXCEPT !.tx = @ + 1]
                   fb == [fa EXCEPT ![h].tx = @ + 1]
                   fc == [fb EXCEPT ![h].send = FALSE]
        <4>2. fa = [k \in Handles |-> IF k = h THEN ra ELSE f[k]]
          BY <4>1
        <4> HIDE DEF fa, ra
        <4>3. fb = [k \in Handles |-> IF k = h THEN rb ELSE f[k]]
          BY <1>1, <4>2
        <4> HIDE DEF fb, rb
        <4>4. fc = [k \in Handles |-> IF k = h THEN [rb EXCEPT !.send = FALSE] ELSE f[k]]
          BY <1>1, <4>3
        <4> HIDE DEF fc
        <4>5. q2 = fc
          BY OneByOne DEF q2, f, fa, fb, fc
        <4>6. r2 = [rb EXCEPT !.send = FALSE]
          BY DEF r2, rb, ra, f
        <4> HIDE DEF r2
        <4>7. fc = [f EXCEPT ![h] = r2]
          BY <4>1, <4>4, <4>6
        <4> QED BY <4>5, <4>7 DEF f
      <3> HIDE DEF q2, r2
      <3> QED BY SMTT(30), <1>1, <2>2, <3>2, <3>3, BaseTypes DEF Kept
    <2>4. Transmit(b, h, net) = c
      <3>1. Shaped(t)
        BY <2>2, BaseTypes DEF Shaped, Kept
      <3>2. c = [t EXCEPT !.req[h].timer = TRUE, !.req[h].tx = @ + 1,
                          !.req[h].send = FALSE]
        <4> DEFINE p1 == [t.req EXCEPT ![h].timer = TRUE]
                   p2 == [p1 EXCEPT ![h].tx = @ + 1]
                   p3 == [p2 EXCEPT ![h].send = FALSE]
                   t1a == [t EXCEPT !.req[h].timer = TRUE]
                   t2a == [t1a EXCEPT !.req[h].tx = @ + 1]
        <4>1. t1a = WithReq(t, p1)
          BY <3>1 DEF Shaped, WithReq
        <4>2. t1a.req = p1 /\ Shaped(t1a)
          <5> HIDE DEF t1a, p1
          <5> QED BY <3>1, <4>1 DEF Shaped, WithReq
        <4>3. t2a = WithReq(t1a, p2)
          <5> HIDE DEF t1a, p1
          <5> QED BY <4>2 DEF Shaped, WithReq
        <4>4. t2a.req = p2 /\ Shaped(t2a)
          <5> HIDE DEF t1a, t2a, p1, p2
          <5> QED BY <4>2, <4>3 DEF Shaped, WithReq
        <4>5. [t2a EXCEPT !.req[h].send = FALSE] = WithReq(t2a, p3)
          <5> HIDE DEF t1a, t2a, p1, p2
          <5> QED BY <4>4 DEF Shaped, WithReq
        <4>6. WithReq(t2a, p3) = WithReq(t, p3)
          <5> HIDE DEF t1a, t2a, p1, p2, p3
          <5> QED BY <3>1, <4>1, <4>3 DEF Shaped, WithReq
        <4>7. [t EXCEPT !.req[h].timer = TRUE, !.req[h].tx = @ + 1,
                        !.req[h].send = FALSE] = [t2a EXCEPT !.req[h].send = FALSE]
          BY OneByOne
        <4>8. q2 = p3
          BY OneByOne DEF q2
        <4> QED BY <4>5, <4>6, <4>7, <4>8
      <3> QED BY <2>1, <3>2
    <2> HIDE DEF q2
    <2>5. h \in InFlight(t) /\ t.req[h].ns \in Servers /\ t \in Bases
      BY <1>5, <2>2 DEF SameQueues, InFlight, Kept, Driven
    <2>6. /\ Kept(c, {h}) /\ Sent(t, c) /\ SameQueues(t, c) /\ c.dead = t.dead
          /\ c.req = q2 /\ c \in Bases
      <3>1. Kept(t, {h}) /\ q2[h].ns \in Servers
        BY <2>2, <2>3, <2>5
      <3>2. c.req = q2 /\ c \in Bases
        BY <2>3, <2>5, WithReqFacts
      <3>3. Kept(c, {h}) /\ Sent(t, c) /\ SameQueues(t, c) /\ c.dead = t.dead
        BY <2>3, <2>5, <3>1, OneRequest
      <3> QED BY <3>2, <3>3
    <2> HIDE DEF c
    <2>7. h \in InFlight(c)
      BY <2>5, <2>6 DEF SameQueues, InFlight
    <2>8. Kept(c, {})
      BY <2>3, <2>6, <2>7, AllDriven
    <2>9. Sent(b, c)
      BY <1>1, <1>4, <2>2, <2>5, <2>6, SentTwice
    <2>10. SameQueues(b, c) /\ c.dead = b.dead
      BY <1>4, <2>2, <2>6 DEF SameQueues
    <2> QED BY <2>4, <2>8, <2>9, <2>10
  <1> QED BY <1>1, <1>6, <1>7, <1>8

\* The rounds of evdns_transmit.
ResentRun(f, n, c, q, net) ==
    f = [i \in 0..n |-> IF i = 0 THEN c ELSE Resent(f[i - 1], q[i], net)]

\* There is such a function for as many rounds as the loop makes.
LEMMA ResentRuns ==
    ASSUME NEW c, NEW q, NEW net, NEW n \in Nat
    PROVE  \E f : ResentRun(f, n, c, q, net)
  <1> DEFINE Run(f, m) == f = [i \in 0..m |-> IF i = 0 THEN c
                                              ELSE Resent(f[i - 1], q[i], net)]
             P == {m \in Nat : \E f : Run(f, m)}
  <1>1. 0 \in P
    <2>1. Run([i \in 0..0 |-> c], 0)
      OBVIOUS
    <2> HIDE DEF Run
    <2> QED BY <2>1
  <1>2. ASSUME NEW m \in Nat, m \in P
        PROVE  m + 1 \in P
    <2>1. PICK f : Run(f, m)
      BY <1>2
    <2> DEFINE last == Resent(f[m], q[m + 1], net)
               g == [i \in 0..(m + 1) |-> IF i = m + 1 THEN last ELSE f[i]]
    <2>2. \A i \in 0..m : /\ i \in 0..(m + 1) /\ g[i] = f[i]
                          /\ i # 0 => i - 1 \in 0..m
                          /\ f[i] = IF i = 0 THEN c ELSE Resent(f[i - 1], q[i], net)
      BY <2>1
    <2>3. /\ g[m + 1] = last /\ m \in 0..m /\ (m + 1) - 1 = m /\ m + 1 # 0
          /\ \A i \in 0..(m + 1) : i \in 0..m \/ i = m + 1
      OBVIOUS
    <2>4. \A i \in 0..(m + 1) :
             g[i] = IF i = 0 THEN c ELSE Resent(g[i - 1], q[i], net)
      <3> HIDE DEF g
      <3> QED BY <2>2, <2>3
    <2>5. Run(g, m + 1)
      <3>1. g = [i \in 0..(m + 1) |-> g[i]]
        OBVIOUS
      <3> HIDE DEF g
      <3> QED BY <2>4, <3>1
    <2> HIDE DEF Run
    <2> QED BY <2>5
  <1>3. Nat \subseteq P
    <2> HIDE DEF P
    <2> QED BY <1>1, <1>2, SetInduction
  <1> QED BY <1>3 DEF ResentRun

\* evdns_transmit: what is marked is sent, and all that is in flight stays driven.
LEMMA TransmitMarkedFacts ==
    ASSUME EvdnsAssumption, NEW b, Kept(b, {}), NEW net \in Nets
    PROVE  /\ Kept(TransmitMarked(b, net), {}) /\ Sent(b, TransmitMarked(b, net))
           /\ SameQueues(b, TransmitMarked(b, net))
           /\ TransmitMarked(b, net).dead = b.dead
  <1> DEFINE n == Len(b.inflight)
             K == Cardinality(Handles)
             Over(x) == Kept(x, {}) /\ Sent(b, x) /\ SameQueues(b, x) /\ x.dead = b.dead
             after == CHOOSE f : f = [i \in Rounds |->
                          IF i = 0 THEN b ELSE Resent(f[i - 1], b.inflight[i], net)]
  <1>1. b \in Bases /\ Counted(b) /\ Driven(b, {})
    BY DEF Kept
  <1>2. TransmitMarked(b, net) = after[n]
    BY Zenon DEF TransmitMarked, Rounds
  <1>3. n \in 0..K /\ K \in Nat /\ n \in Nat /\ Rounds = 0..K
    BY <1>1, QueueFits, BaseTypes DEF Rounds, Counted
  <1>4. after = [i \in Rounds |->
                    IF i = 0 THEN b ELSE Resent(after[i - 1], b.inflight[i], net)]
    <2>1. \E f : f = [i \in 0..K |->
                         IF i = 0 THEN b ELSE Resent(f[i - 1], b.inflight[i], net)]
      <3>1. K \in Nat
        BY <1>3
      <3>2. PICK f : ResentRun(f, K, b, b.inflight, net)
        <4> HIDE DEF K
        <4> QED BY <3>1, ResentRuns
      <3> QED BY <3>2 DEF ResentRun
    <2> QED BY <1>3, <2>1
  <1> HIDE DEF after, K
  <1>5. /\ after[0] = b
        /\ \A i \in 1..n : after[i] = Resent(after[i - 1], b.inflight[i], net)
    BY <1>3, <1>4
  <1> DEFINE P == {i \in 0..n : Over(after[i])}
  <1>6. 0 \in P
    <2>1. 0 \in 0..n
      BY <1>3
    <2>2. Over(b)
      BY DEF Sent, SameQueues
    <2> HIDE DEF Over
    <2> QED BY <1>5, <2>1, <2>2
  <1>7. ASSUME NEW i \in 1..n, i - 1 \in P
        PROVE  i \in P
    <2> DEFINE x == after[i - 1]
               h == b.inflight[i]
               y == Resent(x, h, net)
    <2>1. Over(x) /\ h \in InFlight(b) /\ i \in 0..n
      <3>1. b.inflight \in Seq(Handles) /\ i \in 1..Len(b.inflight)
        BY <1>1, BaseTypes
      <3>2. h \in InFlight(b)
        BY <3>1 DEF InFlight, ToSet
      <3> HIDE DEF Over, h
      <3> QED BY <1>3, <1>7, <3>2
    <2>2. after[i] = y
      BY <1>5
    <2> HIDE DEF x, h
    <2>3. /\ Kept(x, {}) /\ Sent(b, x) /\ SameQueues(b, x) /\ x.dead = b.dead
          /\ h \in InFlight(x) /\ x \in Bases
      BY <2>1 DEF InFlight, SameQueues, Kept
    <2>4. Over(y)
      <3>1. CASE ~x.req[h].send
        <4>1. y = x
          BY <3>1 DEF Resent
        <4> QED BY <2>3, <4>1
      <3>2. CASE x.req[h].send
        <4>1. y = Transmit(x, h, net)
          BY <3>2 DEF Resent
        <4>2. x.req[h].tx < MaxRetransmits
          BY <2>3, <3>2 DEF Kept, Driven
        <4>3. Kept(x, {h})
          BY <2>3, KeptLess
        <4>4. Kept(y, {}) /\ Sent(x, y) /\ SameQueues(x, y) /\ y.dead = x.dead
          BY <2>3, <4>1, <4>2, <4>3, TransmitFacts
        <4> HIDE DEF y
        <4>5. Sent(b, y)
          BY <1>1, <2>3, <4>4, SentTwice DEF Kept
        <4> QED BY <2>3, <4>4, <4>5 DEF SameQueues
      <3> QED BY <3>1, <3>2
    <2> HIDE DEF Over
    <2> QED BY <2>1, <2>2, <2>4
  <1>8. Over(after[n])
    <2> HIDE DEF P, Over
    <2>1. 0..n \subseteq P
      BY <1>3, <1>6, <1>7, BoundedInduction
    <2> QED BY <1>3, <2>1 DEF P
  <1> QED BY <1>2, <1>8

-----------------------------------------------------------------------------
(* Requests that wait are issued.                                           *)

\* A base with other queues.
WithQueues(b, f, w) == [b EXCEPT !.inflight = f, !.nin = Len(f),
                                 !.waiting = w, !.nwait = Len(w)]

\* Other queues, with their counters, leave the rest of the base as it was.
LEMMA WithQueuesFacts ==
    ASSUME NEW b \in Bases, NEW f \in Seq(Handles), NEW w \in Seq(Handles)
    PROVE  /\ WithQueues(b, f, w) \in Bases /\ WithQueues(b, f, w).req = b.req
           /\ WithQueues(b, f, w).server = b.server /\ WithQueues(b, f, w).head = b.head
           /\ WithQueues(b, f, w).good = b.good /\ WithQueues(b, f, w).dead = b.dead
           /\ WithQueues(b, f, w).inflight = f /\ WithQueues(b, f, w).waiting = w
           /\ WithQueues(b, f, w).nin = Len(f) /\ WithQueues(b, f, w).nwait = Len(w)
           /\ WithQueues(b, f, w).deferred = b.deferred
  <1> DEFINE c == WithQueues(b, f, w)
  <1>1. /\ c.server = b.server /\ c.head = b.head /\ c.good = b.good /\ c.req = b.req
        /\ c.inflight = f /\ c.waiting = w /\ c.nin = Len(f) /\ c.nwait = Len(w)
        /\ c.deferred = b.deferred /\ c.dead = b.dead
    BY BaseTypes DEF WithQueues
  <1>2. Shaped(c)
    <2>1. Shaped(b)
      BY BaseTypes DEF Shaped
    <2> DEFINE c1 == [b EXCEPT !.inflight = f]
               c2 == [c1 EXCEPT !.nin = Len(f)]
               c3 == [c2 EXCEPT !.waiting = w]
    <2>2. c = [c3 EXCEPT !.nwait = Len(w)]
      BY DEF WithQueues
    <2>3. Shaped(c1)
      BY <2>1 DEF Shaped
    <2>4. Shaped(c2)
      <3> HIDE DEF c1
      <3> QED BY <2>3 DEF Shaped
    <2>5. Shaped(c3)
      <3> HIDE DEF c2
      <3> QED BY <2>4 DEF Shaped
    <2> HIDE DEF c, c3
    <2> QED BY <2>2, <2>5 DEF Shaped
  <1>3. Len(f) \in Nat /\ Len(w) \in Nat
    OBVIOUS
  <1> HIDE DEF c
  <1>4. c \in Bases
    BY <1>1, <1>2, <1>3, BaseTypes, BaseOf
  <1> QED BY <1>1, <1>4 DEF c

\* The oldest request that waits goes into flight.
LEMMA IssuedFacts ==
    ASSUME EvdnsAssumption, NEW b, Kept(b, {}), b.waiting # << >>
    PROVE  LET h == Head(b.waiting)
               c == Issued(b, h)
           IN  /\ Kept(c, {h}) /\ h \in InFlight(c) /\ c.req[h].tx = 0 /\ Sent(b, c)
               /\ c.dead = b.dead /\ c.waiting = Tail(b.waiting) /\ c.nin = b.nin + 1
               /\ Asking(c) = Asking(b)
  <1> DEFINE h == Head(b.waiting)
             f == Append(b.inflight, h)
             w == Tail(b.waiting)
             m == WithQueues(b, f, w)
             c == Assign(m, h)
  <1>1. b \in Bases /\ Counted(b) /\ Driven(b, {})
    BY DEF Kept
  <1>2. /\ b.inflight \in Seq(Handles) /\ b.waiting \in Seq(Handles)
        /\ IsInjective(b.inflight) /\ IsInjective(b.waiting)
        /\ InFlight(b) \cap ToSet(b.waiting) = {}
        /\ b.nin = Len(b.inflight) /\ b.nwait = Len(b.waiting)
        /\ b.good = Cardinality(Good(b))
    BY <1>1, BaseTypes DEF Counted
  <1>3. /\ h \in ToSet(b.waiting) /\ h \in Handles /\ w \in Seq(Handles)
        /\ Len(w) = Len(b.waiting) - 1 /\ IsInjective(w)
        /\ ToSet(w) = ToSet(b.waiting) \ {h}
    BY <1>2, HeadTailFacts
  <1>4. h \notin InFlight(b)
    BY <1>2, <1>3
  <1>5. /\ f \in Seq(Handles) /\ Len(f) = Len(b.inflight) + 1 /\ IsInjective(f)
        /\ ToSet(f) = InFlight(b) \cup {h}
    BY <1>2, <1>3, <1>4, AppendFacts DEF InFlight
  <1>6. Issued(b, h) = c
    <2>1. Shaped(b) /\ b.nwait - 1 = Len(w) /\ b.nin + 1 = Len(f)
      BY <1>1, <1>2, <1>3, <1>5, BaseTypes DEF Shaped
    <2>2. [b EXCEPT !.waiting = Tail(@), !.nwait = @ - 1,
                    !.inflight = Append(@, h), !.nin = @ + 1] = m
      <3> HIDE DEF h
      <3> QED BY <2>1 DEF Shaped, WithQueues
    <2> QED BY <2>2 DEF Issued
  <1> HIDE DEF h, f, w
  <1>7. /\ m \in Bases /\ m.req = b.req /\ m.server = b.server /\ m.good = b.good
        /\ m.dead = b.dead /\ m.deferred = b.deferred /\ m.inflight = f
        /\ m.waiting = w /\ m.nin = Len(f) /\ m.nwait = Len(w)
    BY <1>1, <1>3, <1>5, WithQueuesFacts
  <1> HIDE DEF m
  <1>8. /\ InFlight(m) = InFlight(b) \cup {h} /\ Good(m) = Good(b)
        /\ Asking(m) = Asking(b)
    BY <1>3, <1>5, <1>7 DEF InFlight, Good, Asking
  <1>9. /\ c \in Bases /\ Passed(m, c) /\ c.req[h].ns \in Servers
        /\ c.server = m.server /\ c.dead = m.dead /\ c.deferred = m.deferred
        /\ \A k \in Handles : k # h => c.req[k] = m.req[k]
        /\ c.req[h].tx = m.req[h].tx
    BY <1>2, <1>3, <1>7, <1>8, AssignFacts
  <1> HIDE DEF c
  <1>10. /\ InFlight(c) = InFlight(m) /\ Asking(c) = Asking(m) /\ Good(c) = Good(m)
         /\ c.inflight = f /\ c.waiting = w /\ c.nin = Len(f) /\ c.nwait = Len(w)
    BY <1>7, <1>9 DEF Passed, SameQueues, InFlight, Asking, Good
  <1>11. Counted(c)
    <2>1. InFlight(c) \cap ToSet(w) = {}
      BY <1>2, <1>3, <1>8, <1>10
    <2>2. c.good = Cardinality(Good(c))
      BY <1>9 DEF Passed
    <2> QED BY <1>3, <1>5, <1>10, <2>1, <2>2 DEF Counted
  <1>12. Driven(c, {h})
    <2>1. InFlight(c) = InFlight(b) \cup {h} /\ InFlight(b) \subseteq Handles
      <3>1. InFlight(b) \subseteq Handles
        BY <1>1, BaseTypes DEF InFlight, ToSet
      <3> QED BY <1>8, <1>10, <3>1
    <2>2. \A k \in Handles \ {h} : c.req[k] = b.req[k]
      BY <1>7, <1>9
    <2>3. c.server = b.server
      BY <1>7, <1>9
    <2> QED BY <1>1, <1>9, <2>1, <2>2, <2>3 DEF Driven
  <1>13. c.req[h].tx = 0
    BY <1>1, <1>3, <1>4, <1>7, <1>9 DEF Driven
  <1>14. Sent(b, c)
    BY <1>7, <1>9 DEF Sent
  <1>15. Kept(c, {h}) /\ h \in InFlight(c) /\ c.dead = b.dead /\ Asking(c) = Asking(b)
    BY <1>7, <1>8, <1>9, <1>10, <1>11, <1>12 DEF Kept
  <1>16. c.waiting = Tail(b.waiting) /\ c.nin = b.nin + 1
    BY <1>2, <1>5, <1>10 DEF w
  <1> QED BY <1>6, <1>13, <1>14, <1>15, <1>16 DEF h

\* It is sent, and whatever else is marked.
LEMMA PromotedFacts ==
    ASSUME EvdnsAssumption, NEW b, Kept(b, {}), b.waiting # << >>,
           b.nin < MaxInflight, NEW net \in Nets
    PROVE  LET c == Promoted(b, net)
           IN  /\ Kept(c, {}) /\ Sent(b, c) /\ c.dead = b.dead
               /\ c.waiting = Tail(b.waiting) /\ c.nin = b.nin + 1
               /\ Asking(c) = Asking(b)
  <1> DEFINE h == Head(b.waiting)
             i == Issued(b, h)
             t == Transmit(i, h, net)
             c == TransmitMarked(t, net)
  <1>1. Promoted(b, net) = c
    BY DEF Promoted
  <1>2. /\ Kept(i, {h}) /\ h \in InFlight(i) /\ i.req[h].tx = 0 /\ Sent(b, i)
        /\ i.dead = b.dead /\ i.waiting = Tail(b.waiting) /\ i.nin = b.nin + 1
        /\ Asking(i) = Asking(b)
    BY IssuedFacts
  <1> HIDE DEF h, i
  <1>3. i.req[h].tx < MaxRetransmits
    BY <1>2 DEF EvdnsAssumption
  <1>4. Kept(t, {}) /\ Sent(i, t) /\ SameQueues(i, t) /\ t.dead = i.dead
    BY <1>2, <1>3, TransmitFacts
  <1> HIDE DEF t
  <1>5. Kept(c, {}) /\ Sent(t, c) /\ SameQueues(t, c) /\ c.dead = t.dead
    BY <1>4, TransmitMarkedFacts
  <1> HIDE DEF c
  <1>6. Sent(b, c)
    <2>1. b \in Bases /\ i \in Bases /\ t \in Bases /\ c \in Bases
      BY <1>2, <1>4, <1>5 DEF Kept
    <2>2. Sent(b, t)
      BY <1>2, <1>4, <2>1, SentTwice
    <2> QED BY <1>5, <2>1, <2>2, SentTwice
  <1>7. Asking(c) = Asking(i)
    BY <1>4, <1>5 DEF SameQueues, Asking, InFlight
  <1> QED BY <1>1, <1>2, <1>4, <1>5, <1>6, <1>7 DEF SameQueues

\* The rounds of evdns_requests_pump_waiting_queue.
PromotedRun(f, n, c, net) ==
    f = [i \in 0..n |-> IF i = 0 THEN c ELSE Promoted(f[i - 1], net)]

\* There is such a function for as many rounds as the loop makes.
LEMMA PromotedRuns ==
    ASSUME NEW c, NEW net, NEW n \in Nat
    PROVE  \E f : PromotedRun(f, n, c, net)
  <1> DEFINE Run(f, m) == f = [i \in 0..m |-> IF i = 0 THEN c
                                              ELSE Promoted(f[i - 1], net)]
             P == {m \in Nat : \E f : Run(f, m)}
  <1>1. 0 \in P
    <2>1. Run([i \in 0..0 |-> c], 0)
      OBVIOUS
    <2> HIDE DEF Run
    <2> QED BY <2>1
  <1>2. ASSUME NEW m \in Nat, m \in P
        PROVE  m + 1 \in P
    <2>1. PICK f : Run(f, m)
      BY <1>2
    <2> DEFINE last == Promoted(f[m], net)
               g == [i \in 0..(m + 1) |-> IF i = m + 1 THEN last ELSE f[i]]
    <2>2. \A i \in 0..m : /\ i \in 0..(m + 1) /\ g[i] = f[i]
                          /\ i # 0 => i - 1 \in 0..m
                          /\ f[i] = IF i = 0 THEN c ELSE Promoted(f[i - 1], net)
      BY <2>1
    <2>3. /\ g[m + 1] = last /\ m \in 0..m /\ (m + 1) - 1 = m /\ m + 1 # 0
          /\ \A i \in 0..(m + 1) : i \in 0..m \/ i = m + 1
      OBVIOUS
    <2>4. \A i \in 0..(m + 1) :
             g[i] = IF i = 0 THEN c ELSE Promoted(g[i - 1], net)
      <3> HIDE DEF g
      <3> QED BY <2>2, <2>3
    <2>5. Run(g, m + 1)
      <3>1. g = [i \in 0..(m + 1) |-> g[i]]
        OBVIOUS
      <3> HIDE DEF g
      <3> QED BY <2>4, <3>1
    <2> HIDE DEF Run
    <2> QED BY <2>5
  <1>3. Nat \subseteq P
    <2> HIDE DEF P
    <2> QED BY <1>1, <1>2, SetInduction
  <1> QED BY <1>3 DEF PromotedRun

\* evdns_requests_pump_waiting_queue: after it, a request that waits has found
\* the limit reached.
LEMMA PumpFacts ==
    ASSUME EvdnsAssumption, NEW b, Kept(b, {}), NEW net \in Nets
    PROVE  /\ Kept(Pump(b, net), {}) /\ Sent(b, Pump(b, net)) /\ Full(Pump(b, net))
           /\ Pump(b, net).dead = b.dead /\ Asking(Pump(b, net)) = Asking(b)
           /\ Pump(b, net).nin >= b.nin
  <1> DEFINE n == Len(b.waiting)
             K == Cardinality(Handles)
             Left(x, i) == Len(x.waiting) = n - i \/ x.nin >= MaxInflight
             Over(x) == /\ Kept(x, {}) /\ Sent(b, x) /\ x.dead = b.dead
                        /\ Asking(x) = Asking(b) /\ x.nin >= b.nin
             after == CHOOSE f : f = [i \in Rounds |->
                          IF i = 0 THEN b ELSE Promoted(f[i - 1], net)]
  <1>1. b \in Bases /\ Counted(b) /\ MaxInflight \in Nat
    BY DEF Kept, EvdnsAssumption
  <1>2. Pump(b, net) = after[n]
    BY Zenon DEF Pump, Rounds
  <1>3. n \in 0..K /\ K \in Nat /\ n \in Nat /\ Rounds = 0..K
    BY <1>1, QueueFits, BaseTypes DEF Rounds, Counted
  <1>4. after = [i \in Rounds |-> IF i = 0 THEN b ELSE Promoted(after[i - 1], net)]
    <2>1. \E f : f = [i \in 0..K |-> IF i = 0 THEN b ELSE Promoted(f[i - 1], net)]
      <3>1. K \in Nat
        BY <1>3
      <3>2. PICK f : PromotedRun(f, K, b, net)
        <4> HIDE DEF K
        <4> QED BY <3>1, PromotedRuns
      <3> QED BY <3>2 DEF PromotedRun
    <2> QED BY <1>3, <2>1
  <1> HIDE DEF after, K
  <1>5. after[0] = b /\ \A i \in 1..n : after[i] = Promoted(after[i - 1], net)
    BY <1>3, <1>4
  <1> DEFINE P == {i \in 0..n : Over(after[i]) /\ Left(after[i], i)}
  <1>6. 0 \in P
    <2>1. 0 \in 0..n
      BY <1>3
    <2>2. Over(b)
      BY <1>1, BaseTypes DEF Sent
    <2>3. Left(b, 0)
      BY <1>3
    <2> HIDE DEF Over, Left
    <2> QED BY <1>5, <2>1, <2>2, <2>3
  <1>7. ASSUME NEW i \in 1..n, i - 1 \in P
        PROVE  i \in P
    <2> DEFINE x == after[i - 1]
               y == Promoted(x, net)
    <2>1. Over(x) /\ Left(x, i - 1) /\ i \in 0..n
      <3> HIDE DEF Over, Left
      <3> QED BY <1>3, <1>7
    <2>2. after[i] = y
      BY <1>5
    <2> HIDE DEF x
    <2>3. /\ x \in Bases /\ x.nin \in Nat /\ x.waiting \in Seq(Handles) /\ b.nin \in Nat
          /\ Kept(x, {}) /\ x.nin >= b.nin
      BY <1>1, <2>1, BaseTypes DEF Kept
    <2>4. Over(y) /\ Left(y, i)
      <3>1. CASE ~(x.nin < MaxInflight)
        <4>1. y = x
          BY <3>1 DEF Promoted
        <4>2. Left(y, i)
          BY <1>1, <2>3, <3>1, <4>1
        <4> HIDE DEF Over, Left, y
        <4> QED BY <2>1, <4>1, <4>2
      <3>2. CASE x.nin < MaxInflight
        <4>1. Len(x.waiting) = n - (i - 1) /\ Len(x.waiting) \in Nat
          BY <1>1, <2>1, <2>3, <3>2
        <4>2. Len(x.waiting) # 0
          <5> DEFINE l == Len(x.waiting)
          <5>1. l = n - (i - 1) /\ i \in 1..n /\ n \in Nat
            BY <1>3, <4>1
          <5> HIDE DEF l, n
          <5>2. l # 0
            BY <5>1
          <5> QED BY <5>2 DEF l
        <4>3. x.waiting # << >>
          BY <4>2
        <4>4. /\ Kept(y, {}) /\ Sent(x, y) /\ y.dead = x.dead
              /\ y.waiting = Tail(x.waiting) /\ y.nin = x.nin + 1
              /\ Asking(y) = Asking(x)
          BY <2>3, <3>2, <4>3, PromotedFacts
        <4> HIDE DEF y
        <4>5. Sent(b, y)
          BY <1>1, <2>1, <2>3, <4>4, SentTwice DEF Kept
        <4>6. Over(y)
          BY <2>1, <2>3, <4>4, <4>5
        <4>7. Len(y.waiting) = Len(x.waiting) - 1
          BY <2>3, <4>3, <4>4
        <4>8. Left(y, i)
          BY <1>3, <4>1, <4>7
        <4> QED BY <4>6, <4>8
      <3> QED BY <3>1, <3>2
    <2> HIDE DEF Over, Left
    <2> QED BY <2>1, <2>2, <2>4
  <1>8. Over(after[n]) /\ Left(after[n], n)
    <2> HIDE DEF P, Over, Left
    <2>1. 0..n \subseteq P
      BY <1>3, <1>6, <1>7, BoundedInduction
    <2> QED BY <1>3, <2>1 DEF P
  <1> DEFINE c == after[n]
  <1>9. Full(c)
    <2>1. c.waiting \in Seq(Handles) /\ Left(c, n) /\ n \in Nat
      BY <1>3, <1>8, BaseTypes DEF Kept
    <2> HIDE DEF c
    <2>2. CASE c.nin >= MaxInflight
      BY <2>2 DEF Full
    <2>3. CASE Len(c.waiting) = n - n
      <3>1. Len(c.waiting) = 0
        BY <2>1, <2>3
      <3>2. c.waiting = << >>
        BY <2>1, <3>1
      <3> QED BY <3>2 DEF Full
    <2> QED BY <2>1, <2>2, <2>3
  <1> HIDE DEF Left
  <1> QED BY <1>2, <1>8, <1>9

-----------------------------------------------------------------------------
(* Requests that end.                                                       *)

\* Taking a request out of its queue.
LEMMA WithoutFacts ==
    ASSUME NEW q \in Seq(Handles), IsInjective(q), NEW h \in ToSet(q)
    PROVE  /\ Without(q, h) \in Seq(Handles) /\ Len(Without(q, h)) = Len(q) - 1
           /\ IsInjective(Without(q, h)) /\ ToSet(Without(q, h)) = ToSet(q) \ {h}
  <1>1. PICK i \in 1..Len(q) : q[i] = h /\ RemoveFirst(q, h) = RemoveAt(q, i)
    BY PositionOf
  <1>2. i \in DOMAIN q /\ \A j \in DOMAIN q : q[j] = h => j = i
    BY <1>1 DEF IsInjective
  <1>3. (CHOOSE j \in DOMAIN q : q[j] = h) = i
    BY <1>1, <1>2
  <1>4. Without(q, h) = RemoveFirst(q, h)
    BY <1>1, <1>3 DEF Without
  <1> QED BY <1>4, RemoveFacts

\* The first half of request_finished.
LEMMA RemovedFacts ==
    ASSUME EvdnsAssumption, NEW b, NEW h \in Asking(b), Kept(b, {h})
    PROVE  LET c == Removed(b, h)
           IN  /\ Kept(c, {}) /\ Sent(b, c) /\ c.dead = b.dead
               /\ Asking(c) = Asking(b) \ {h} /\ c.nin >= b.nin - 1
  <1> DEFINE q == [b.req EXCEPT ![h] = NoRequest]
             m == WithReq(b, q)
             f == IF h \in InFlight(b) THEN Without(b.inflight, h) ELSE b.inflight
             w == IF h \in InFlight(b) THEN b.waiting ELSE Without(b.waiting, h)
             c == WithQueues(m, f, w)
  <1>1. b \in Bases /\ Counted(b) /\ Driven(b, {h})
    BY DEF Kept
  <1>2. /\ b.inflight \in Seq(Handles) /\ b.waiting \in Seq(Handles)
        /\ IsInjective(b.inflight) /\ IsInjective(b.waiting)
        /\ InFlight(b) = ToSet(b.inflight)
        /\ InFlight(b) \cap ToSet(b.waiting) = {}
        /\ b.nin = Len(b.inflight) /\ b.nwait = Len(b.waiting)
        /\ b.good = Cardinality(Good(b))
        /\ Asking(b) = InFlight(b) \cup ToSet(b.waiting)
        /\ b.nin \in Nat /\ b.nwait \in Nat
    BY <1>1, BaseTypes DEF Counted, InFlight, Asking
  <1>3. h \in Handles /\ Asking(b) \subseteq Handles
    BY <1>2 DEF ToSet
  <1>4. /\ f \in Seq(Handles) /\ IsInjective(f) /\ ToSet(f) = InFlight(b) \ {h}
        /\ w \in Seq(Handles) /\ IsInjective(w) /\ ToSet(w) = ToSet(b.waiting) \ {h}
        /\ Len(f) = IF h \in InFlight(b) THEN b.nin - 1 ELSE b.nin
        /\ Len(w) = IF h \in InFlight(b) THEN b.nwait ELSE b.nwait - 1
    <2>1. CASE h \in InFlight(b)
      <3>1. f = Without(b.inflight, h) /\ w = b.waiting
        BY <2>1
      <3> HIDE DEF f, w
      <3>2. /\ f \in Seq(Handles) /\ IsInjective(f) /\ ToSet(f) = InFlight(b) \ {h}
            /\ Len(f) = Len(b.inflight) - 1
        BY <1>2, <2>1, <3>1, WithoutFacts
      <3> QED BY <1>2, <2>1, <3>1, <3>2
    <2>2. CASE h \notin InFlight(b)
      <3>1. f = b.inflight /\ w = Without(b.waiting, h) /\ h \in ToSet(b.waiting)
        BY <1>2, <2>2
      <3> HIDE DEF f, w
      <3>2. /\ w \in Seq(Handles) /\ IsInjective(w) /\ ToSet(w) = ToSet(b.waiting) \ {h}
            /\ Len(w) = Len(b.waiting) - 1
        BY <1>2, <3>1, WithoutFacts
      <3> QED BY <1>2, <2>2, <3>1, <3>2
    <2> QED BY <2>1, <2>2
  <1>5. /\ q \in [Handles -> Reqs] /\ q[h] = NoRequest
        /\ \A k \in Handles \ {h} : q[k] = b.req[k]
    <2>1. NoRequest \in Reqs
      BY DEF NoRequest, Reqs, EvdnsAssumption
    <2> QED BY <1>1, <1>3, <2>1, BaseTypes
  <1>6. /\ m \in Bases /\ m.req = q /\ m.server = b.server /\ m.good = b.good
        /\ m.dead = b.dead /\ m.deferred = b.deferred
        /\ m.inflight = b.inflight /\ m.waiting = b.waiting
        /\ m.nin = b.nin /\ m.nwait = b.nwait
    BY <1>1, <1>5, WithReqFacts
  <1>7. Removed(b, h) = c
    <2>1. m = [b EXCEPT !.req[h] = NoRequest]
      BY <1>1, BaseTypes DEF WithReq
    <2> HIDE DEF m
    <2>2. Shaped(m)
      BY <1>6, BaseTypes DEF Shaped
    <2>3. CASE h \in InFlight(b)
      <3>1. f = Without(m.inflight, h) /\ w = m.waiting /\ Len(f) = m.nin - 1 /\ Len(w) = m.nwait
        BY <1>4, <1>6, <2>3
      <3>2. Removed(b, h) = [m EXCEPT !.inflight = Without(@, h), !.nin = @ - 1]
        BY <2>1, <2>3 DEF Removed
      <3> HIDE DEF f, w
      <3>3. c = [m EXCEPT !.inflight = f, !.nin = m.nin - 1]
        BY <2>2, <3>1 DEF Shaped, WithQueues
      <3>4. [m EXCEPT !.inflight = Without(@, h), !.nin = @ - 1] =
               [m EXCEPT !.inflight = f, !.nin = m.nin - 1]
        BY <2>2, <3>1 DEF Shaped
      <3> QED BY <3>2, <3>3, <3>4
    <2>4. CASE h \notin InFlight(b)
      <3>1. w = Without(m.waiting, h) /\ f = m.inflight /\ Len(w) = m.nwait - 1 /\ Len(f) = m.nin
        BY <1>4, <1>6, <2>4
      <3>2. Removed(b, h) = [m EXCEPT !.waiting = Without(@, h), !.nwait = @ - 1]
        BY <2>1, <2>4 DEF Removed
      <3> HIDE DEF f, w
      <3>3. c = [m EXCEPT !.waiting = w, !.nwait = m.nwait - 1]
        BY <2>2, <3>1 DEF Shaped, WithQueues
      <3>4. [m EXCEPT !.waiting = Without(@, h), !.nwait = @ - 1] =
               [m EXCEPT !.waiting = w, !.nwait = m.nwait - 1]
        BY <2>2, <3>1 DEF Shaped
      <3> QED BY <3>2, <3>3, <3>4
    <2> QED BY <2>3, <2>4
  <1> HIDE DEF q, m, f, w
  <1>8. /\ c \in Bases /\ c.req = q /\ c.server = b.server /\ c.good = b.good
        /\ c.dead = b.dead /\ c.deferred = b.deferred /\ c.inflight = f
        /\ c.waiting = w /\ c.nin = Len(f) /\ c.nwait = Len(w)
    BY <1>4, <1>6, WithQueuesFacts
  <1> HIDE DEF c
  <1>9. InFlight(c) = InFlight(b) \ {h} /\ Asking(c) = Asking(b) \ {h}
    BY <1>2, <1>4, <1>8 DEF InFlight, Asking
  <1>10. Good(c) = Good(b)
    BY <1>8 DEF Good
  <1>11. Counted(c)
    <2>1. InFlight(c) \cap ToSet(w) = {}
      BY <1>2, <1>4, <1>9
    <2> QED BY <1>2, <1>4, <1>8, <1>10, <2>1 DEF Counted
  <1>12. Driven(c, {})
    <2>1. NoRequest.timer = FALSE /\ NoRequest.tx = 0
      BY DEF NoRequest
    <2>2. InFlight(b) \subseteq Handles
      BY <1>2, <1>3
    <2> QED BY <1>1, <1>3, <1>5, <1>8, <1>9, <2>1, <2>2 DEF Driven
  <1>13. Sent(b, c)
    BY <1>8 DEF Sent
  <1>14. c.nin >= b.nin - 1
    BY <1>2, <1>4, <1>8
  <1> QED BY <1>7, <1>8, <1>9, <1>11, <1>12, <1>13, <1>14 DEF Kept

\* request_finished: the request is gone, the others are driven, and those
\* that wait have been issued as far as there is room.
LEMMA FinishedFacts ==
    ASSUME EvdnsAssumption, NEW b, NEW h \in Asking(b), Kept(b, {h}), NEW net \in Nets
    PROVE  LET c == Finished(b, h, net)
           IN  /\ Kept(c, {}) /\ Sent(b, c) /\ Full(c) /\ c.dead = b.dead
               /\ Asking(c) = Asking(b) \ {h} /\ c.nin >= b.nin - 1
  <1> DEFINE r == Removed(b, h)
             c == Pump(r, net)
  <1>1. Finished(b, h, net) = c
    BY DEF Finished
  <1>2. /\ Kept(r, {}) /\ Sent(b, r) /\ r.dead = b.dead
        /\ Asking(r) = Asking(b) \ {h} /\ r.nin >= b.nin - 1
    BY RemovedFacts
  <1> HIDE DEF r
  <1>3. /\ Kept(c, {}) /\ Sent(r, c) /\ Full(c) /\ c.dead = r.dead
        /\ Asking(c) = Asking(r) /\ c.nin >= r.nin
    BY <1>2, PumpFacts
  <1> HIDE DEF c
  <1>4. b \in Bases /\ r \in Bases /\ c \in Bases
    BY <1>2, <1>3 DEF Kept
  <1>5. Sent(b, c)
    BY <1>2, <1>3, <1>4, SentTwice
  <1>6. c.nin >= b.nin - 1
    <2>1. b.nin \in Nat /\ r.nin \in Nat /\ c.nin \in Nat
      BY <1>4, BaseTypes
    <2> QED BY <1>2, <1>3, <2>1
  <1> QED BY <1>1, <1>2, <1>3, <1>5, <1>6

-----------------------------------------------------------------------------
(* Callbacks scheduled, and requests made.                                  *)

\* The callback of h is owed, and it is not that of a probe that was cancelled.
Owed(b, h) == h \in Deferred(b) /\ ~Told(b, h)

\* Sending leaves the callbacks alone.
LEMMA SentDeferred ==
    ASSUME NEW b, NEW c, Sent(b, c)
    PROVE  Deferred(c) = Deferred(b) /\ \A h : Told(c, h) <=> Told(b, h)
  BY DEF Sent, Deferred, Told

\* A base with other callbacks.
WithDeferred(b, d) == [b EXCEPT !.deferred = d]

\* Other callbacks leave the rest of the base, and what is kept, as it was.
LEMMA WithDeferredFacts ==
    ASSUME NEW b \in Bases, NEW d \in Seq(Calls)
    PROVE  LET c == WithDeferred(b, d)
           IN  /\ c \in Bases /\ c.deferred = d /\ c.req = b.req
               /\ c.server = b.server /\ c.head = b.head /\ c.good = b.good
               /\ SameQueues(b, c) /\ c.dead = b.dead /\ Asking(c) = Asking(b)
               /\ \A X : Kept(b, X) => Kept(c, X)
  <1> DEFINE c == WithDeferred(b, d)
  <1>1. /\ c.server = b.server /\ c.head = b.head /\ c.good = b.good /\ c.req = b.req
        /\ c.inflight = b.inflight /\ c.waiting = b.waiting /\ c.nin = b.nin
        /\ c.nwait = b.nwait /\ c.deferred = d /\ c.dead = b.dead
    BY BaseTypes DEF WithDeferred
  <1>2. Shaped(c)
    <2>1. Shaped(b)
      BY BaseTypes DEF Shaped
    <2>2. c = [b EXCEPT !.deferred = d]
      BY DEF WithDeferred
    <2> HIDE DEF c
    <2> QED BY <2>1, <2>2 DEF Shaped
  <1> HIDE DEF c
  <1>3. c \in Bases
    BY <1>1, <1>2, BaseTypes, BaseOf
  <1>4. InFlight(c) = InFlight(b) /\ Asking(c) = Asking(b) /\ Good(c) = Good(b)
    BY <1>1 DEF InFlight, Asking, Good
  <1>5. ASSUME NEW X, Kept(b, X)
        PROVE  Kept(c, X)
    <2>1. Counted(b) /\ Driven(b, X)
      BY <1>5 DEF Kept
    <2>2. Counted(c)
      BY <1>1, <1>4, <2>1 DEF Counted
    <2>3. Driven(c, X)
      BY <1>1, <1>4, <2>1 DEF Driven
    <2> QED BY <1>3, <2>2, <2>3 DEF Kept
  <1> QED BY <1>1, <1>3, <1>4, <1>5 DEF c, SameQueues

\* reply_schedule_callback.
LEMMA ScheduleFacts ==
    ASSUME NEW b \in Bases, NEW Y, Watched(b, Y), NEW h \in Handles,
           h \notin Deferred(b), NEW result \in Results
    PROVE  LET c == Schedule(b, h, result)
           IN  /\ c \in Bases /\ \A X : Kept(b, X) => Kept(c, X)
               /\ Watched(c, Y \cup {h}) /\ Asking(c) = Asking(b)
               /\ Deferred(c) = Deferred(b) \cup {h} /\ SameQueues(b, c)
               /\ c.server = b.server /\ c.dead = b.dead /\ c.req = b.req
               /\ c.good = b.good /\ c.head = b.head
               /\ result # "cancel" => Owed(c, h)
               /\ \A k : k # h => (Told(c, k) <=> Told(b, k))
  <1> DEFINE e == [handle |-> h, result |-> result]
             d == Append(b.deferred, e)
             c == WithDeferred(b, d)
  <1>1. Schedule(b, h, result) = c
    BY BaseTypes DEF Schedule, WithDeferred
  <1>2. /\ e \in Calls /\ e.handle = h /\ e.result = result
        /\ b.deferred \in Seq(Calls)
    BY BaseTypes DEF Calls
  <1> HIDE DEF e
  <1>3. /\ d \in Seq(Calls) /\ Len(b.deferred) \in Nat
        /\ DOMAIN b.deferred = 1..Len(b.deferred)
        /\ DOMAIN d = 1..(Len(b.deferred) + 1)
        /\ \A i \in DOMAIN b.deferred : i \in DOMAIN d /\ d[i] = b.deferred[i]
        /\ d[Len(b.deferred) + 1] = e
    BY <1>2
  <1> DEFINE n == Len(b.deferred) + 1
  <1>4. n \in DOMAIN d /\ d[n] = e /\ \A i \in DOMAIN d : i \in DOMAIN b.deferred \/ i = n
    BY <1>3
  <1> HIDE DEF d, n
  <1>5. /\ c \in Bases /\ c.deferred = d /\ c.req = b.req /\ c.server = b.server
        /\ c.good = b.good /\ c.head = b.head
        /\ SameQueues(b, c) /\ c.dead = b.dead /\ Asking(c) = Asking(b)
        /\ \A X : Kept(b, X) => Kept(c, X)
    BY <1>3, WithDeferredFacts
  <1> HIDE DEF c
  <1>6. \A i \in DOMAIN b.deferred : b.deferred[i].handle # h
    BY DEF Deferred
  <1>7. Deferred(c) = Deferred(b) \cup {h}
    <2>1. \A i \in DOMAIN d : d[i].handle \in Deferred(b) \cup {h}
      BY <1>2, <1>3, <1>4 DEF Deferred
    <2>2. h \in Deferred(c)
      BY <1>2, <1>4, <1>5 DEF Deferred
    <2>3. \A i \in DOMAIN b.deferred : b.deferred[i].handle \in Deferred(c)
      BY <1>3, <1>5 DEF Deferred
    <2> QED BY <1>5, <2>1, <2>2, <2>3 DEF Deferred
  <1>8. \A k : k # h => (Told(c, k) <=> Told(b, k))
    BY <1>2, <1>3, <1>4, <1>5 DEF Told
  <1>9. result # "cancel" => Owed(c, h)
    <2>1. ASSUME Told(c, h) PROVE result = "cancel"
      <3>1. PICK i \in DOMAIN d : d[i].handle = h /\ d[i].result = "cancel"
        BY <1>5, <2>1 DEF Told
      <3>2. i = n
        BY <1>3, <1>4, <1>6, <3>1
      <3> QED BY <1>2, <1>4, <3>1, <3>2
    <2> QED BY <1>7, <2>1 DEF Owed
  <1>10. Watched(c, Y \cup {h})
    <2>1. \A i, j \in DOMAIN d : d[i].handle = d[j].handle => i = j
      BY <1>2, <1>3, <1>4, <1>6 DEF Watched
    <2>2. \A k \in Asking(c) \ (Y \cup {h}) : k \notin Deferred(c)
      BY <1>5, <1>7 DEF Watched
    <2>3. \A s \in Servers : c.server[s].up => ~c.server[s].timer
      BY <1>5 DEF Watched
    <2>4. ASSUME NEW s \in Servers \ (Y \cup {h})
          PROVE  /\ s \in Asking(c) => ~c.server[s].up /\ c.server[s].probing
                 /\ ~c.server[s].up =>
                       s \in Deferred(c) \/ (c.server[s].timer # (s \in Asking(c)))
                 /\ ~c.server[s].up /\ Told(c, s) => c.server[s].timer
      BY <1>5, <1>7, <1>8, <2>4 DEF Watched
    <2> QED BY <1>5, <2>1, <2>2, <2>3, <2>4 DEF Watched
  <1> QED BY <1>1, <1>5, <1>7, <1>8, <1>9, <1>10

\* A handle that was exempt is watched once it has ended, and either is not
\* that of a probe, or its server is up, or its callback is owed.
LEMMA AllWatched ==
    ASSUME NEW b, NEW h, NEW X, Watched(b, X \cup {h}), h \notin Asking(b),
           h \in Servers => b.server[h].up \/ Owed(b, h)
    PROVE  Watched(b, X)
  BY DEF Watched, Owed

\* A request that ends with a callback.
LEMMA EndedFacts ==
    ASSUME EvdnsAssumption, NEW b, NEW h \in Asking(b), Kept(b, {h}),
           Watched(b, {h}), Owed(b, h), NEW net \in Nets
    PROVE  LET c == Finished(b, h, net)
           IN  Sound(c) /\ c.dead = b.dead /\ Live(c) = Live(b)
  <1> DEFINE c == Finished(b, h, net)
  <1>1. /\ Kept(c, {}) /\ Sent(b, c) /\ Full(c) /\ c.dead = b.dead
        /\ Asking(c) = Asking(b) \ {h}
    BY FinishedFacts
  <1> HIDE DEF c
  <1>2. b \in Bases /\ c \in Bases
    BY <1>1 DEF Kept
  <1>3. Watched(c, {h})
    BY <1>1, <1>2, SentWatched
  <1>4. Deferred(c) = Deferred(b) /\ Owed(c, h)
    BY <1>1, SentDeferred DEF Owed
  <1>5. Watched(c, {})
    <2>1. Watched(c, {} \cup {h})
      BY <1>3
    <2> QED BY <1>1, <1>4, <2>1, AllWatched
  <1>6. Parked(c)
    <2>1. c.nin \in Nat /\ MaxInflight \in Nat
      BY <1>2, BaseTypes DEF EvdnsAssumption
    <2> QED BY <1>1, <2>1 DEF Full, Parked
  <1>7. Live(c) = Live(b)
    BY <1>1, <1>4 DEF Live, Owed
  <1> QED BY <1>1, <1>5, <1>6, <1>7 DEF Sound, c

\* A request whose result is scheduled and which is finished then leaves a
\* base that is sound.
LEMMA ToldFacts ==
    ASSUME EvdnsAssumption, NEW b, NEW h \in Asking(b), Kept(b, {h}),
           Watched(b, {}), NEW result \in Results \ {"cancel"}, NEW net \in Nets
    PROVE  LET c == Finished(Schedule(b, h, result), h, net)
           IN  Sound(c) /\ c.dead = b.dead /\ Live(c) = Live(b) \cup {h}
  <1> DEFINE t == Schedule(b, h, result)
  <1>1. b \in Bases /\ h \in Handles /\ h \notin Deferred(b)
    <2>1. b \in Bases
      BY DEF Kept
    <2> QED BY <2>1, BaseTypes DEF Watched, Asking, InFlight, ToSet
  <1>2. /\ t \in Bases /\ Kept(t, {h}) /\ Watched(t, {} \cup {h})
        /\ Asking(t) = Asking(b) /\ Deferred(t) = Deferred(b) \cup {h}
        /\ t.dead = b.dead /\ Owed(t, h)
    BY <1>1, ScheduleFacts
  <1> HIDE DEF t
  <1>3. Watched(t, {h}) /\ h \in Asking(t) /\ Live(t) = Live(b) \cup {h}
    BY <1>2 DEF Live
  <1> QED BY <1>2, <1>3, EndedFacts DEF t

Searches == {NoSearch} \cup (-1 .. Domains)

\* request_new: at the limit the request gets no server.
LEMMA NewRequestFacts ==
    ASSUME EvdnsAssumption, NEW b \in Bases, b.good = Cardinality(Good(b)),
           NEW h \in Handles, NEW search \in Searches
    PROVE  LET c == NewRequest(b, h, search)
           IN  /\ c \in Bases /\ c.server = b.server /\ c.good = b.good
               /\ c.deferred = b.deferred /\ c.dead = b.dead /\ SameQueues(b, c)
               /\ \A k \in Handles : k # h => c.req[k] = b.req[k]
               /\ c.req[h].tx = 0 /\ ~c.req[h].timer
               /\ c.req[h].ns = 0 => b.nin >= MaxInflight
  <1> DEFINE r == [NoRequest EXCEPT !.search = search]
             q == [b.req EXCEPT ![h] = r]
             m == WithReq(b, q)
             c == NewRequest(b, h, search)
  <1>1. r \in Reqs /\ r.tx = 0 /\ r.timer = FALSE
    <2> DEFINE r0 == NoRequest
    <2>1. r0 \in Reqs /\ r0.tx = 0 /\ r0.timer = FALSE
      BY DEF NoRequest, Reqs, EvdnsAssumption
    <2> HIDE DEF r0
    <2>2. [r0 EXCEPT !.search = search] \in Reqs
      BY <2>1 DEF Reqs, Searches
    <2>3. [r0 EXCEPT !.search = search].tx = 0 /\ [r0 EXCEPT !.search = search].timer = FALSE
      BY <2>1 DEF Reqs
    <2> QED BY <2>2, <2>3 DEF r0
  <1> HIDE DEF r
  <1>2. q \in [Handles -> Reqs] /\ q[h] = r /\ \A k \in Handles : k # h => q[k] = b.req[k]
    BY <1>1, BaseTypes
  <1>3. m = [b EXCEPT !.req[h] = r]
    BY BaseTypes DEF WithReq
  <1> HIDE DEF q
  <1>4. /\ m \in Bases /\ m.req = q /\ m.server = b.server /\ m.good = b.good
        /\ m.dead = b.dead /\ m.deferred = b.deferred /\ SameQueues(b, m)
    BY <1>2, WithReqFacts DEF SameQueues
  <1> HIDE DEF m
  <1>5. c = IF b.nin < MaxInflight THEN Assign(m, h) ELSE m
    BY <1>3 DEF NewRequest, r
  <1>6. CASE b.nin < MaxInflight
    <2> DEFINE a == Assign(m, h)
    <2>1. m.good = Cardinality(Good(m))
      BY <1>4 DEF Good
    <2>2. /\ a \in Bases /\ Passed(m, a) /\ a.req[h].ns \in Servers
          /\ a.server = m.server /\ a.dead = m.dead /\ a.deferred = m.deferred
          /\ \A k \in Handles : k # h => a.req[k] = m.req[k]
          /\ a.req[h].tx = m.req[h].tx /\ a.req[h].timer = m.req[h].timer
      BY <1>4, <2>1, AssignFacts
    <2> HIDE DEF a
    <2>3. a.good = Cardinality(Good(a)) /\ Good(a) = Good(m) /\ SameQueues(m, a)
      BY <2>2 DEF Passed, Good
    <2>4. a.good = m.good /\ SameQueues(b, a)
      BY <1>4, <2>1, <2>3 DEF SameQueues
    <2>5. a.req[h].ns # 0
      BY <2>2, Finite
    <2>6. c = a
      BY <1>5, <1>6 DEF a
    <2> QED BY <1>1, <1>2, <1>4, <2>2, <2>4, <2>5, <2>6
  <1>7. CASE ~(b.nin < MaxInflight)
    <2>1. c = m /\ b.nin >= MaxInflight
      <3>1. b.nin \in Nat /\ MaxInflight \in Nat
        BY BaseTypes DEF EvdnsAssumption
      <3> QED BY <1>5, <1>7, <3>1
    <2> QED BY <1>1, <1>2, <1>4, <2>1
  <1> QED BY <1>6, <1>7

\* A request that is not in flight may change as long as it stays idle.
LEMMA IdleRequest ==
    ASSUME NEW b, NEW X, Kept(b, X), NEW c \in Bases, SameQueues(b, c),
           c.server = b.server, c.good = b.good, NEW h \in Handles \ InFlight(b),
           \A k \in Handles : k # h => c.req[k] = b.req[k],
           ~c.req[h].timer, c.req[h].tx = 0
    PROVE  Kept(c, X)
  <1>1. b \in Bases /\ Counted(b) /\ Driven(b, X)
    BY DEF Kept
  <1>2. InFlight(c) = InFlight(b) /\ Good(c) = Good(b)
    BY DEF SameQueues, InFlight, Good
  <1>3. Counted(c)
    BY <1>1, <1>2 DEF Counted, SameQueues
  <1>4. InFlight(b) \subseteq Handles
    BY <1>1, BaseTypes DEF InFlight, ToSet
  <1>5. Driven(c, X)
    BY <1>1, <1>2, <1>4 DEF Driven
  <1> QED BY <1>3, <1>5 DEF Kept

\* request_submit.
LEMMA SubmitFacts ==
    ASSUME EvdnsAssumption, NEW b, Kept(b, {}), NEW h \in Handles \ Asking(b),
           NEW net \in Nets
    PROVE  LET c == Submit(b, h, net)
           IN  /\ Kept(c, {}) /\ Sent(b, c) /\ c.dead = b.dead
               /\ Asking(c) = Asking(b) \cup {h}
               /\ Parked(b) /\ (b.req[h].ns = 0 => b.nin >= MaxInflight - 1) => Parked(c)
  <1> DEFINE c == Submit(b, h, net)
  <1>1. b \in Bases /\ Counted(b) /\ Driven(b, {}) /\ MaxInflight \in Nat
    BY DEF Kept, EvdnsAssumption
  <1>2. /\ b.inflight \in Seq(Handles) /\ b.waiting \in Seq(Handles)
        /\ IsInjective(b.inflight) /\ IsInjective(b.waiting)
        /\ InFlight(b) = ToSet(b.inflight)
        /\ InFlight(b) \cap ToSet(b.waiting) = {}
        /\ b.nin = Len(b.inflight) /\ b.nwait = Len(b.waiting)
        /\ b.good = Cardinality(Good(b))
        /\ Asking(b) = InFlight(b) \cup ToSet(b.waiting)
        /\ b.nin \in Nat /\ b.nwait \in Nat
        /\ h \notin ToSet(b.inflight) /\ h \notin ToSet(b.waiting)
    BY <1>1, BaseTypes DEF Counted, InFlight, Asking
  <1>3. b.req[h].tx = 0 /\ ~b.req[h].timer
    BY <1>1, <1>2 DEF Driven
  <1>4. CASE b.req[h].ns # 0
    <2> DEFINE f == Append(b.inflight, h)
               m == WithQueues(b, f, b.waiting)
               t == Transmit(m, h, net)
    <2>1. /\ f \in Seq(Handles) /\ Len(f) = Len(b.inflight) + 1 /\ IsInjective(f)
          /\ ToSet(f) = InFlight(b) \cup {h}
      BY <1>2, AppendFacts
    <2>2. m = [b EXCEPT !.inflight = Append(@, h), !.nin = @ + 1]
      <3>1. Shaped(b) /\ b.nin + 1 = Len(f) /\ b.nwait = Len(b.waiting)
        BY <1>1, <1>2, <2>1, BaseTypes DEF Shaped
      <3> QED BY <3>1 DEF Shaped, WithQueues
    <2>3. c = t
      BY <1>4, <2>2 DEF Submit
    <2> HIDE DEF f
    <2>4. /\ m \in Bases /\ m.req = b.req /\ m.server = b.server /\ m.good = b.good
          /\ m.dead = b.dead /\ m.deferred = b.deferred /\ m.inflight = f
          /\ m.waiting = b.waiting /\ m.nin = Len(f) /\ m.nwait = Len(b.waiting)
      <3> DEFINE w == b.waiting
      <3>1. w \in Seq(Handles) /\ f \in Seq(Handles)
        BY <1>2, <2>1
      <3> HIDE DEF w
      <3>2. LET x == WithQueues(b, f, w)
            IN  /\ x \in Bases /\ x.req = b.req /\ x.server = b.server
                /\ x.good = b.good /\ x.dead = b.dead /\ x.deferred = b.deferred
                /\ x.inflight = f /\ x.waiting = w /\ x.nin = Len(f)
                /\ x.nwait = Len(w)
        BY <1>1, <3>1, WithQueuesFacts
      <3> QED BY <3>2 DEF w
    <2> HIDE DEF m
    <2>5. /\ InFlight(m) = InFlight(b) \cup {h} /\ Good(m) = Good(b)
          /\ Asking(m) = Asking(b) \cup {h}
      BY <1>2, <2>1, <2>4 DEF InFlight, Good, Asking
    <2>6. Counted(m)
      <3>1. InFlight(m) \cap ToSet(m.waiting) = {}
        BY <1>2, <2>4, <2>5
      <3> QED BY <1>2, <2>1, <2>4, <2>5, <3>1 DEF Counted
    <2>7. m.req[h].ns \in Servers
      BY <1>1, <1>4, <2>4, PartTypes
    <2>8. Driven(m, {h})
      <3>1. InFlight(b) \subseteq Handles
        BY <1>2 DEF ToSet
      <3> QED BY <1>1, <2>4, <2>5, <2>7, <3>1 DEF Driven
    <2>9. m.req[h].tx < MaxRetransmits
      BY <1>3, <2>4 DEF EvdnsAssumption
    <2>10. /\ Kept(t, {}) /\ Sent(m, t) /\ SameQueues(m, t) /\ t.dead = m.dead
      <3>1. Kept(m, {h}) /\ h \in InFlight(m)
        BY <2>4, <2>5, <2>6, <2>8 DEF Kept
      <3> QED BY <2>9, <3>1, TransmitFacts
    <2> HIDE DEF t
    <2>11. Sent(b, t)
      <3>1. Sent(b, m)
        BY <2>4 DEF Sent
      <3> QED BY <1>1, <2>4, <2>10, <3>1, SentTwice DEF Kept
    <2>12. Asking(t) = Asking(m)
      BY <2>10 DEF SameQueues, Asking, InFlight
    <2>13. Parked(b) => Parked(t)
      <3>1. t.waiting = b.waiting /\ t.nin = b.nin + 1
        BY <1>2, <2>1, <2>4, <2>10 DEF SameQueues
      <3> QED BY <1>1, <1>2, <3>1 DEF Parked
    <2> QED BY <2>3, <2>4, <2>5, <2>10, <2>11, <2>12, <2>13
  <1>5. CASE b.req[h].ns = 0
    <2> DEFINE w == Append(b.waiting, h)
               m == WithQueues(b, b.inflight, w)
    <2>1. /\ w \in Seq(Handles) /\ Len(w) = Len(b.waiting) + 1 /\ IsInjective(w)
          /\ ToSet(w) = ToSet(b.waiting) \cup {h}
      BY <1>2, AppendFacts
    <2>2. m = [b EXCEPT !.waiting = Append(@, h), !.nwait = @ + 1]
      <3>1. Shaped(b) /\ b.nin = Len(b.inflight) /\ b.nwait + 1 = Len(w)
        BY <1>1, <1>2, <2>1, BaseTypes DEF Shaped
      <3> QED BY <3>1 DEF Shaped, WithQueues
    <2>3. c = m
      BY <1>5, <2>2 DEF Submit
    <2> HIDE DEF w
    <2>4. /\ m \in Bases /\ m.req = b.req /\ m.server = b.server /\ m.good = b.good
          /\ m.dead = b.dead /\ m.deferred = b.deferred /\ m.inflight = b.inflight
          /\ m.waiting = w /\ m.nin = Len(b.inflight) /\ m.nwait = Len(w)
      <3> DEFINE f == b.inflight
      <3>1. w \in Seq(Handles) /\ f \in Seq(Handles)
        BY <1>2, <2>1
      <3> HIDE DEF f
      <3>2. LET x == WithQueues(b, f, w)
            IN  /\ x \in Bases /\ x.req = b.req /\ x.server = b.server
                /\ x.good = b.good /\ x.dead = b.dead /\ x.deferred = b.deferred
                /\ x.inflight = f /\ x.waiting = w /\ x.nin = Len(f)
                /\ x.nwait = Len(w)
        BY <1>1, <3>1, WithQueuesFacts
      <3> QED BY <3>2 DEF f
    <2> HIDE DEF m
    <2>5. /\ InFlight(m) = InFlight(b) /\ Good(m) = Good(b)
          /\ Asking(m) = Asking(b) \cup {h}
      BY <1>2, <2>1, <2>4 DEF InFlight, Good, Asking
    <2>6. Counted(m)
      <3>1. InFlight(m) \cap ToSet(m.waiting) = {}
        BY <1>2, <2>1, <2>4, <2>5
      <3> QED BY <1>2, <2>1, <2>4, <2>5, <3>1 DEF Counted
    <2>7. Driven(m, {})
      BY <1>1, <2>4, <2>5 DEF Driven
    <2>8. Sent(b, m)
      BY <2>4 DEF Sent
    <2>9. b.nin >= MaxInflight - 1 => Parked(m)
      BY <1>2, <2>4 DEF Parked
    <2> QED BY <1>5, <2>3, <2>4, <2>5, <2>6, <2>7, <2>8, <2>9 DEF Kept
  <1> QED BY <1>4, <1>5

-----------------------------------------------------------------------------
(* Servers that come up.                                                    *)

\* Changes of the servers other than of their sockets leave the requests driven.
LEMMA ServersKept ==
    ASSUME NEW b, NEW X, Kept(b, X), NEW c \in Bases, SameQueues(b, c), c.req = b.req,
           c.good = Cardinality(Good(c)),
           \A s \in Servers : /\ c.server[s].choked = b.server[s].choked
                              /\ c.server[s].writing = b.server[s].writing
    PROVE  Kept(c, X)
  <1>1. b \in Bases /\ Counted(b) /\ Driven(b, X)
    BY DEF Kept
  <1>2. InFlight(c) = InFlight(b)
    BY DEF SameQueues, InFlight
  <1>3. Counted(c)
    BY <1>1, <1>2 DEF Counted, SameQueues
  <1>4. Driven(c, X)
    BY <1>1, <1>2 DEF Driven
  <1> QED BY <1>3, <1>4 DEF Kept

\* What the invariants say of one server only.
LEMMA OneServer ==
    ASSUME NEW b, NEW X, Watched(b, X), NEW c, NEW s \in Servers,
           c.deferred = b.deferred, Asking(c) = Asking(b),
           \A t \in Servers : t # s => c.server[t] = b.server[t],
           c.server[s].up => ~c.server[s].timer
    PROVE  Watched(c, X \cup {s})
  <1>1. Deferred(c) = Deferred(b) /\ \A t : Told(c, t) <=> Told(b, t)
    BY DEF Deferred, Told
  <1> QED BY <1>1 DEF Watched

\* A probe is cancelled when its server is found to be up.  Nothing is asked
\* by it any more; if it has ended its callback is owed already.
LEMMA CancelledFacts ==
    ASSUME EvdnsAssumption, NEW b, Kept(b, {}), NEW X, NEW s \in Servers, s \in X,
           Watched(b, X), s \in Deferred(b) => s \notin Asking(b),
           Parked(b), NEW net \in Nets
    PROVE  LET c == Cancelled(b, s, net)
           IN  /\ Kept(c, {}) /\ Watched(c, X) /\ Parked(c)
               /\ c.dead = b.dead /\ Live(c) = Live(b) /\ Asking(c) = Asking(b) \ {s}
               /\ \A h : h # s /\ Owed(b, h) => Owed(c, h)
               /\ ~b.server[s].up => /\ c.server[s].up = b.server[s].up
                                     /\ c.server[s].timer = b.server[s].timer
  <1> DEFINE c == Cancelled(b, s, net)
             t == Schedule(b, s, "cancel")
             d == Finished(t, s, net)
  <1>1. b \in Bases /\ s \in Handles
    BY Finite DEF Kept
  <1>2. CASE s \notin Asking(b) \/ s \in Deferred(b)
    <2>1. c = b /\ Asking(b) = Asking(b) \ {s}
      BY <1>2 DEF Cancelled
    <2> QED BY <1>1, <2>1
  <1>3. CASE s \in Asking(b) /\ s \notin Deferred(b)
    <2>1. c = d
      BY <1>3 DEF Cancelled
    <2>2. "cancel" \in Results
      BY DEF Results
    <2>3. /\ t \in Bases /\ Kept(t, {}) /\ Watched(t, X \cup {s})
          /\ Asking(t) = Asking(b) /\ Deferred(t) = Deferred(b) \cup {s}
          /\ t.server = b.server /\ t.dead = b.dead
          /\ \A k : k # s => (Told(t, k) <=> Told(b, k))
      BY <1>1, <1>3, <2>2, ScheduleFacts
    <2> HIDE DEF t
    <2>4. /\ Kept(d, {}) /\ Sent(t, d) /\ Full(d) /\ d.dead = t.dead
          /\ Asking(d) = Asking(t) \ {s}
      BY <1>3, <2>3, FinishedFacts, KeptLess
    <2> HIDE DEF d
    <2>5. d \in Bases /\ Asking(d) \ X = Asking(t) \ X
      BY <2>4 DEF Kept
    <2>6. Watched(d, X)
      <3>1. X \cup {s} = X
        OBVIOUS
      <3>2. Watched(t, X)
        BY <2>3, <3>1
      <3> QED BY <2>3, <2>4, <2>5, <3>2, SentWatched
    <2>7. Parked(d)
      <3>1. d.nin \in Nat /\ MaxInflight \in Nat
        BY <2>5, BaseTypes DEF EvdnsAssumption
      <3> QED BY <2>4, <3>1 DEF Full, Parked
    <2>8. Deferred(d) = Deferred(t) /\ \A k : Told(d, k) <=> Told(t, k)
      BY <2>4, SentDeferred
    <2>9. Live(d) = Live(b)
      BY <1>3, <2>3, <2>4, <2>8 DEF Live
    <2>10. \A h : h # s /\ Owed(b, h) => Owed(d, h)
      BY <2>3, <2>8 DEF Owed
    <2>11. ~b.server[s].up => /\ d.server[s].up = b.server[s].up
                              /\ d.server[s].timer = b.server[s].timer
      BY <2>3, <2>4 DEF Sent
    <2> QED BY <2>1, <2>3, <2>4, <2>6, <2>7, <2>9, <2>10, <2>11
  <1> QED BY <1>2, <1>3

\* nameserver_up.
LEMMA UpFacts ==
    ASSUME EvdnsAssumption, NEW b, Kept(b, {}), NEW X, Watched(b, X), Parked(b),
           NEW s \in Servers, s \in X => ~b.server[s].probing, NEW net \in Nets
    PROVE  LET c == Up(b, s, net)
           IN  /\ Kept(c, {}) /\ Watched(c, X) /\ Parked(c) /\ c.dead = b.dead
               /\ Live(c) = Live(b) /\ Asking(b) \ {s} \subseteq Asking(c)
               /\ s \in X => Asking(c) = Asking(b)
               /\ s \notin Asking(b) => s \notin Asking(c)
               /\ \A h : (h # s \/ s \in X) /\ Owed(b, h) => Owed(c, h)
               /\ c.server[s].up
  <1> DEFINE c == Up(b, s, net)
  <1>1. b \in Bases
    BY DEF Kept
  <1>2. CASE b.server[s].up
    <2>1. c = b
      BY <1>2 DEF Up
    <2> QED BY <1>2, <2>1
  <1>3. CASE ~b.server[s].up
    <2> DEFINE v1 == [b.server EXCEPT ![s].timer = FALSE]
               m == WithServer(b, v1)
               q == IF b.server[s].probing THEN Cancelled(m, s, net) ELSE m
               v2 == [[[q.server EXCEPT ![s].probing = FALSE] EXCEPT ![s].up = TRUE]
                         EXCEPT ![s].timedout = 0]
               e == WithServer(q, v2)
    <2>1. c = [q EXCEPT !.server[s].probing = FALSE, !.server[s].up = TRUE,
                        !.server[s].timedout = 0, !.good = @ + 1]
      <3>1. m = [b EXCEPT !.server[s].timer = FALSE]
        BY <1>1, BaseTypes DEF WithServer
      <3> HIDE DEF m
      <3> QED BY <1>3, <3>1 DEF Up
    <2>2. /\ v1 \in [Servers -> States] /\ v1[s].timer = FALSE
          /\ v1[s].up = FALSE /\ v1[s].probing = b.server[s].probing
          /\ v1[s].choked = b.server[s].choked /\ v1[s].writing = b.server[s].writing
          /\ \A t \in Servers : t # s => v1[t] = b.server[t]
      <3> DEFINE r == b.server[s]
                 r1 == [r EXCEPT !.timer = FALSE]
      <3>1. r \in States /\ r.up = FALSE
        BY <1>1, <1>3, PartTypes
      <3>2. /\ r1 \in States /\ r1.timer = FALSE /\ r1.up = FALSE
            /\ r1.probing = r.probing /\ r1.choked = r.choked /\ r1.writing = r.writing
        <4> HIDE DEF r
        <4> QED BY <3>1 DEF States
      <3>3. v1 = [b.server EXCEPT ![s] = r1]
        BY <1>1, BaseTypes
      <3> HIDE DEF v1, r1
      <3> QED BY <1>1, <3>2, <3>3, BaseTypes
    <2> HIDE DEF v1
    <2>3. /\ m \in Bases /\ m.server = v1 /\ m.req = b.req /\ m.good = b.good
          /\ m.dead = b.dead /\ m.deferred = b.deferred /\ SameQueues(b, m)
      BY <1>1, <2>2, WithServerFacts DEF SameQueues
    <2> HIDE DEF m
    <2>4. /\ Asking(m) = Asking(b) /\ Deferred(m) = Deferred(b) /\ Live(m) = Live(b)
          /\ \A h : Owed(b, h) <=> Owed(m, h)
      BY <2>3 DEF SameQueues, Asking, InFlight, Deferred, Live, Owed, Told
    <2>5. Kept(m, {})
      <3>1. Good(m) = Good(b)
        BY <1>3, <2>2, <2>3 DEF Good
      <3>2. m.good = Cardinality(Good(m))
        BY <2>3, <3>1 DEF Kept, Counted
      <3>3. \A t \in Servers : /\ m.server[t].choked = b.server[t].choked
                               /\ m.server[t].writing = b.server[t].writing
        BY <2>2, <2>3
      <3> QED BY <2>3, <3>2, <3>3, ServersKept
    <2>6. Watched(m, X \cup {s})
      BY <2>2, <2>3, <2>4, OneServer
    <2>7. Parked(m)
      BY <2>3 DEF Parked, SameQueues
    <2>8. s \notin X /\ s \in Asking(b) => b.server[s].probing /\ s \notin Deferred(b)
      BY DEF Watched
    <2>9. /\ Kept(q, {}) /\ Watched(q, X \cup {s}) /\ Parked(q) /\ q.dead = b.dead
          /\ Live(q) = Live(b) /\ Asking(b) \ {s} \subseteq Asking(q)
          /\ s \in X => Asking(q) = Asking(b)
          /\ s \notin X \/ s \notin Asking(b) => s \notin Asking(q)
          /\ \A h : (h # s \/ s \in X) /\ Owed(b, h) => Owed(q, h)
          /\ q.server[s].up = FALSE /\ q.server[s].timer = FALSE
      <3>1. CASE b.server[s].probing
        <4>1. q = Cancelled(m, s, net) /\ s \notin X
          BY <3>1
        <4> HIDE DEF q
        <4>2. (s \in Deferred(m) => s \notin Asking(m)) /\ s \in Servers \ X
          BY <2>4, <2>8, <4>1
        <4>3. /\ Kept(q, {}) /\ Watched(q, X \cup {s}) /\ Parked(q)
              /\ q.dead = m.dead /\ Live(q) = Live(m) /\ Asking(q) = Asking(m) \ {s}
              /\ \A h : h # s /\ Owed(m, h) => Owed(q, h)
              /\ ~m.server[s].up => /\ q.server[s].up = m.server[s].up
                                    /\ q.server[s].timer = m.server[s].timer
          <5> DEFINE Y == X \cup {s}
          <5>1. /\ Kept(m, {}) /\ Watched(m, Y) /\ Parked(m) /\ s \in Y
                /\ (s \in Deferred(m) => s \notin Asking(m))
            BY <2>5, <2>6, <2>7, <4>2
          <5> HIDE DEF Y
          <5>2. /\ Kept(q, {}) /\ Watched(q, Y) /\ Parked(q)
                /\ q.dead = m.dead /\ Live(q) = Live(m) /\ Asking(q) = Asking(m) \ {s}
                /\ \A h : h # s /\ Owed(m, h) => Owed(q, h)
                /\ ~m.server[s].up => /\ q.server[s].up = m.server[s].up
                                      /\ q.server[s].timer = m.server[s].timer
            BY <4>1, <5>1, CancelledFacts
          <5> QED BY <5>2 DEF Y
        <4> QED BY <2>2, <2>3, <2>4, <4>1, <4>3
      <3>2. CASE ~b.server[s].probing
        <4>1. q = m
          BY <3>2
        <4> HIDE DEF q
        <4> QED BY <2>2, <2>3, <2>4, <2>5, <2>6, <2>7, <2>8, <3>2, <4>1
      <3> QED BY <3>1, <3>2
    <2> HIDE DEF q
    <2>10. q \in Bases /\ q.good = Cardinality(Good(q)) /\ q.good \in Nat
      BY <2>9, BaseTypes DEF Kept, Counted
    <2>11. /\ v2 \in [Servers -> States] /\ v2[s].timer = FALSE
           /\ v2[s].up = TRUE /\ v2[s].choked = q.server[s].choked
           /\ v2[s].writing = q.server[s].writing
           /\ \A t \in Servers : t # s => v2[t] = q.server[t]
      <3> DEFINE r == q.server[s]
                 r2 == [[[r EXCEPT !.probing = FALSE] EXCEPT !.up = TRUE]
                           EXCEPT !.timedout = 0]
      <3>1. r \in States /\ r.timer = FALSE
        BY <2>9, <2>10, PartTypes
      <3>2. /\ r2 \in States /\ r2.timer = FALSE /\ r2.up = TRUE
            /\ r2.choked = r.choked /\ r2.writing = r.writing
        <4> DEFINE ra == [r EXCEPT !.probing = FALSE]
                   rb == [ra EXCEPT !.up = TRUE]
        <4>1. 0 \in 0..MaxTimeouts
          BY DEF EvdnsAssumption
        <4> HIDE DEF r
        <4>2. /\ ra \in States /\ ra.timer = FALSE /\ ra.choked = r.choked
              /\ ra.writing = r.writing
          BY <3>1 DEF States
        <4> HIDE DEF ra
        <4>3. /\ rb \in States /\ rb.timer = FALSE /\ rb.up = TRUE
              /\ rb.choked = r.choked /\ rb.writing = r.writing
          BY <4>2 DEF States
        <4> HIDE DEF rb
        <4>4. LET rc == [rb EXCEPT !.timedout = 0]
              IN  /\ rc \in States /\ rc.timer = FALSE /\ rc.up = TRUE
                  /\ rc.choked = r.choked /\ rc.writing = r.writing
          BY <4>1, <4>3 DEF States
        <4> QED BY <4>4 DEF ra, rb
      <3>3. v2 = [q.server EXCEPT ![s] = r2]
        <4> DEFINE f == q.server
        <4>1. f \in [Servers -> States]
          BY <2>10, BaseTypes
        <4> HIDE DEF f
        <4>2. [[[f EXCEPT ![s].probing = FALSE] EXCEPT ![s].up = TRUE]
                     EXCEPT ![s].timedout = 0] =
              [f EXCEPT ![s] = [[[f[s] EXCEPT !.probing = FALSE] EXCEPT !.up = TRUE]
                                   EXCEPT !.timedout = 0]]
          BY <4>1
        <4> QED BY <4>2 DEF f
      <3> HIDE DEF v2, r2
      <3> QED BY <2>10, <3>2, <3>3, BaseTypes
    <2>12. c = [e EXCEPT !.good = q.good + 1]
      <3> DEFINE p1 == [q.server EXCEPT ![s].probing = FALSE]
                 p2 == [p1 EXCEPT ![s].up = TRUE]
                 p3 == [p2 EXCEPT ![s].timedout = 0]
                 q1 == [q EXCEPT !.server[s].probing = FALSE]
                 q2 == [q1 EXCEPT !.server[s].up = TRUE]
                 q3 == [q2 EXCEPT !.server[s].timedout = 0]
      <3>1. Shaped(q)
        BY <2>10, BaseTypes DEF Shaped
      <3>2. q1 = WithServer(q, p1)
        BY <3>1 DEF Shaped, WithServer
      <3>3. q1.server = p1 /\ Shaped(q1)
        <4> HIDE DEF q1, p1
        <4> QED BY <3>1, <3>2 DEF Shaped, WithServer
      <3>4. q2 = WithServer(q1, p2)
        <4> HIDE DEF q1, p1
        <4> QED BY <3>3 DEF Shaped, WithServer
      <3>5. q2.server = p2 /\ Shaped(q2)
        <4> HIDE DEF q1, q2, p1, p2
        <4> QED BY <3>3, <3>4 DEF Shaped, WithServer
      <3>11. q3 = WithServer(q2, p3)
        <4> HIDE DEF q1, q2, p1, p2
        <4> QED BY <3>5 DEF Shaped, WithServer
      <3>6. q3 = WithServer(q2, v2)
        BY <3>11 DEF v2
      <3>7. q3 = e
        <4> HIDE DEF q1, q2, q3, p1, p2, v2
        <4> QED BY <3>1, <3>2, <3>4, <3>6 DEF Shaped, WithServer
      <3>8. c = [q3 EXCEPT !.good = @ + 1]
        BY <2>1, UpOneByOne
      <3>9. q3.good = q.good
        <4> HIDE DEF q3, v2
        <4> QED BY <3>1, <3>7 DEF Shaped, WithServer
      <3>10. Shaped(e)
        <4> HIDE DEF v2
        <4> QED BY <3>1 DEF Shaped, WithServer
      <3> HIDE DEF e, q3
      <3> QED BY <3>7, <3>8, <3>9, <3>10 DEF Shaped
    <2> HIDE DEF v2
    <2>13. /\ e \in Bases /\ e.server = v2 /\ e.req = q.req /\ e.dead = q.dead
           /\ e.deferred = q.deferred /\ SameQueues(q, e)
      BY <2>10, <2>11, WithServerFacts DEF SameQueues
    <2> HIDE DEF e, c
    <2>14. /\ c.server = v2 /\ c.req = q.req /\ c.dead = q.dead /\ c.good = q.good + 1
           /\ c.deferred = q.deferred /\ SameQueues(q, c) /\ c.head = e.head
           /\ Shaped(c)
      <3>1. Shaped(e)
        BY <2>13, BaseTypes DEF Shaped
      <3>2. /\ c.server = e.server /\ c.req = e.req /\ c.dead = e.dead
            /\ c.good = q.good + 1 /\ c.deferred = e.deferred /\ c.head = e.head
            /\ c.inflight = e.inflight /\ c.waiting = e.waiting /\ c.nin = e.nin
            /\ c.nwait = e.nwait
        BY <2>12, <3>1 DEF Shaped
      <3>3. Shaped(c)
        BY <2>12, <3>1 DEF Shaped
      <3> QED BY <2>13, <3>2, <3>3 DEF SameQueues
    <2>15. c \in Bases
      <3>1. q.good + 1 \in Nat
        BY <2>10
      <3> QED BY <2>10, <2>11, <2>13, <2>14, <3>1, BaseTypes, BaseOf DEF SameQueues
    <2>16. c.good = Cardinality(Good(c))
      <3>1. Good(c) = Good(q) \cup {s} /\ s \notin Good(q)
        BY <2>9, <2>11, <2>14 DEF Good
      <3>2. IsFiniteSet(Good(q))
        BY Finite
      <3>3. Cardinality(Good(q) \cup {s}) =
               IF s \in Good(q) THEN Cardinality(Good(q)) ELSE Cardinality(Good(q)) + 1
        BY <3>2, FS_AddElement
      <3> QED BY <2>10, <2>14, <3>1, <3>3
    <2>17. Kept(c, {})
      <3>1. \A t \in Servers : /\ c.server[t].choked = q.server[t].choked
                               /\ c.server[t].writing = q.server[t].writing
        BY <2>11, <2>14
      <3> QED BY <2>9, <2>14, <2>15, <2>16, <3>1, ServersKept
    <2>18. /\ Asking(c) = Asking(q) /\ Deferred(c) = Deferred(q) /\ Live(c) = Live(q)
           /\ \A h : Owed(q, h) <=> Owed(c, h)
      BY <2>14 DEF SameQueues, Asking, InFlight, Deferred, Live, Owed, Told
    <2>19. Watched(c, X)
      <3>1. Watched(c, (X \cup {s}) \cup {s})
        <4> DEFINE Y == X \cup {s}
        <4>1. /\ Watched(q, Y) /\ c.deferred = q.deferred /\ Asking(c) = Asking(q)
              /\ \A t \in Servers : t # s => c.server[t] = q.server[t]
              /\ (c.server[s].up => ~c.server[s].timer)
          BY <2>9, <2>11, <2>14, <2>18
        <4> HIDE DEF Y
        <4>2. Watched(c, Y \cup {s})
          BY <4>1, OneServer
        <4> QED BY <4>2 DEF Y
      <3>2. CASE s \in X
        <4>1. (X \cup {s}) \cup {s} = X
          BY <3>2
        <4> QED BY <3>1, <4>1
      <3>3. CASE s \notin X
        <4>1. (X \cup {s}) \cup {s} = X \cup {s}
          OBVIOUS
        <4>2. Watched(c, X \cup {s})
          BY <3>1, <4>1
        <4>3. s \notin Asking(c) /\ c.server[s].up
          BY <2>9, <2>11, <2>14, <2>18, <3>3
        <4> QED BY <4>2, <4>3, AllWatched
      <3> QED BY <3>2, <3>3
    <2>20. Parked(c)
      BY <2>9, <2>14 DEF Parked, SameQueues
    <2>21. c.server[s].up
      BY <2>11, <2>14
    <2> QED BY <2>9, <2>14, <2>17, <2>18, <2>19, <2>20, <2>21 DEF c
  <1> QED BY <1>2, <1>3

-----------------------------------------------------------------------------
(* Replies.                                                                 *)

\* Giving requests to other servers keeps the whole invariant.
LEMMA PassedSound ==
    ASSUME NEW b, Sound(b), NEW c \in Bases, Passed(b, c)
    PROVE  Sound(c) /\ Live(c) = Live(b) /\ InFlight(c) = InFlight(b)
  <1>1. Sent(b, c) /\ SameQueues(b, c) /\ b \in Bases
    BY DEF Passed, Sound, Kept
  <1>2. InFlight(c) = InFlight(b) /\ Asking(c) = Asking(b)
    BY <1>1 DEF SameQueues, InFlight, Asking
  <1>3. Deferred(c) = Deferred(b)
    BY <1>1, SentDeferred
  <1>4. Kept(c, {})
    BY PassedKept DEF Sound
  <1>5. Watched(c, {})
    BY <1>1, <1>2, SentWatched DEF Sound
  <1>6. Parked(c)
    BY <1>1 DEF Sound, Parked, SameQueues
  <1> QED BY <1>2, <1>3, <1>4, <1>5, <1>6 DEF Sound, Live

\* A base with another head of the ring.
WithHead(b, s) == [b EXCEPT !.head = s]

\* Another head keeps the invariants.
LEMMA WithHeadFacts ==
    ASSUME NEW b, NEW X, Kept(b, X), NEW s \in Servers
    PROVE  LET c == WithHead(b, s)
           IN  Kept(c, X) /\ Sent(b, c) /\ SameQueues(b, c) /\ c.req = b.req
  <1> DEFINE c == WithHead(b, s)
  <1>1. b \in Bases /\ b.good = Cardinality(Good(b))
    BY DEF Kept, Counted
  <1>2. /\ c.server = b.server /\ c.head = s /\ c.good = b.good /\ c.req = b.req
        /\ c.inflight = b.inflight /\ c.waiting = b.waiting /\ c.nin = b.nin
        /\ c.nwait = b.nwait /\ c.deferred = b.deferred /\ c.dead = b.dead
    BY <1>1, BaseTypes DEF WithHead
  <1>3. Shaped(c)
    <2>1. Shaped(b) /\ c = [b EXCEPT !.head = s]
      BY <1>1, BaseTypes DEF Shaped, WithHead
    <2> HIDE DEF c
    <2> QED BY <2>1 DEF Shaped
  <1> HIDE DEF c
  <1>4. c \in Bases
    BY <1>1, <1>2, <1>3, BaseTypes, BaseOf
  <1>5. Sent(b, c) /\ SameQueues(b, c) /\ Good(c) = Good(b)
    BY <1>2 DEF Sent, SameQueues, Good
  <1>6. Kept(c, X)
    BY <1>1, <1>2, <1>4, <1>5, ServersKept
  <1> QED BY <1>2, <1>5, <1>6 DEF c

\* search_try_next: the next request takes the place of the old one.
LEMMA TryNextFacts ==
    ASSUME EvdnsAssumption, NEW b, Sound(b), NEW h \in Asking(b), HasNext(b, h),
           NEW net \in Nets
    PROVE  Sound(TryNext(b, h, net)) /\ Live(TryNext(b, h, net)) = Live(b)
  <1> DEFINE i == b.req[h].search + 1
             search == IF i < Domains THEN i ELSE NoSearch
             made == NewRequest(b, h, search)
             bh == WithHead(b, made.head)
             old == Finished(bh, h, net)
             q == [old.req EXCEPT ![h] = made.req[h]]
             d == WithReq(old, q)
             c == Submit(d, h, net)
  <1>1. /\ b \in Bases /\ Kept(b, {}) /\ Watched(b, {}) /\ b.good = Cardinality(Good(b))
        /\ h \in Handles /\ MaxInflight \in Nat
    <2>1. b \in Bases
      BY DEF Sound, Kept
    <2>2. h \in Handles
      BY <2>1, BaseTypes DEF Asking, InFlight, ToSet
    <2> QED BY <2>1, <2>2 DEF Sound, Kept, Counted, EvdnsAssumption
  <1>2. search \in Searches
    <2>1. b.req[h].search \in {NoSearch} \cup (-1 .. Domains) /\ b.req[h].search # NoSearch
      BY <1>1, PartTypes DEF HasNext
    <2> QED BY <2>1 DEF Searches, EvdnsAssumption
  <1> HIDE DEF search
  <1>3. /\ made \in Bases /\ made.head \in Servers /\ made.req[h] \in Reqs
        /\ made.req[h].tx = 0 /\ ~made.req[h].timer
        /\ made.req[h].ns = 0 => b.nin >= MaxInflight
    BY <1>1, <1>2, NewRequestFacts, BaseTypes, PartTypes
  <1>4. TryNext(b, h, net) = Submit([old EXCEPT !.req[h] = made.req[h]], h, net)
    BY DEF TryNext, search, WithHead
  <1> HIDE DEF made
  <1>5. Kept(bh, {}) /\ Sent(b, bh) /\ SameQueues(b, bh)
    BY <1>1, <1>3, WithHeadFacts
  <1> HIDE DEF bh
  <1>6. /\ Asking(bh) = Asking(b) /\ bh.nin = b.nin /\ Kept(bh, {h}) /\ bh \in Bases
    BY <1>5, KeptLess DEF SameQueues, Asking, InFlight, Kept
  <1>7. /\ Kept(old, {}) /\ Sent(bh, old) /\ Full(old)
        /\ Asking(old) = Asking(bh) \ {h} /\ old.nin >= bh.nin - 1
    BY <1>6, FinishedFacts
  <1> HIDE DEF old
  <1>8. old \in Bases /\ old.nin \in Nat /\ b.nin \in Nat
    BY <1>1, <1>7, BaseTypes DEF Kept
  <1>9. /\ q \in [Handles -> Reqs] /\ q[h] = made.req[h]
        /\ \A k \in Handles : k # h => q[k] = old.req[k]
    <2>1. old.req \in [Handles -> Reqs] /\ made.req[h] \in Reqs /\ h \in Handles
      BY <1>1, <1>3, <1>8, BaseTypes
    <2> QED BY <2>1
  <1>10. d = [old EXCEPT !.req[h] = made.req[h]]
    BY <1>8, BaseTypes DEF WithReq
  <1> HIDE DEF q
  <1>11. /\ d \in Bases /\ d.req = q /\ d.server = old.server /\ d.good = old.good
         /\ d.deferred = old.deferred /\ SameQueues(old, d)
    BY <1>8, <1>9, WithReqFacts DEF SameQueues
  <1> HIDE DEF d
  <1>12. /\ Asking(d) = Asking(old) /\ InFlight(d) = InFlight(old)
         /\ h \notin Asking(old) /\ h \notin InFlight(old)
    BY <1>7, <1>11 DEF SameQueues, Asking, InFlight
  <1>13. Kept(d, {})
    <2>1. /\ h \in Handles \ InFlight(old) /\ ~d.req[h].timer /\ d.req[h].tx = 0
          /\ \A k \in Handles : k # h => d.req[k] = old.req[k]
      BY <1>1, <1>3, <1>9, <1>11, <1>12
    <2> QED BY <1>7, <1>11, <2>1, IdleRequest
  <1>14. Parked(d) /\ (d.req[h].ns = 0 => d.nin >= MaxInflight - 1)
    <2>1. d.nin = old.nin /\ d.waiting = old.waiting
      BY <1>11 DEF SameQueues
    <2>2. d.req[h].ns = 0 => d.nin >= MaxInflight - 1
      BY <1>1, <1>3, <1>6, <1>7, <1>8, <1>9, <1>11, <2>1
    <2> QED BY <1>1, <1>7, <1>8, <2>1, <2>2 DEF Full, Parked
  <1>15. /\ Kept(c, {}) /\ Sent(d, c) /\ Asking(c) = Asking(d) \cup {h} /\ Parked(c)
    BY <1>1, <1>12, <1>13, <1>14, SubmitFacts
  <1>16. c = TryNext(b, h, net)
    BY <1>4, <1>10
  <1> HIDE DEF c
  <1>17. Sent(b, c) /\ c \in Bases
    <2>1. c \in Bases
      BY <1>15 DEF Kept
    <2>2. Sent(old, d)
      BY <1>11 DEF Sent
    <2>3. Sent(b, old)
      BY <1>1, <1>5, <1>6, <1>7, <1>8, SentTwice
    <2>4. Sent(b, d)
      BY <1>1, <1>8, <1>11, <2>2, <2>3, SentTwice
    <2> QED BY <1>1, <1>11, <1>15, <2>1, <2>4, SentTwice
  <1>18. Asking(c) = Asking(b)
    BY <1>6, <1>7, <1>12, <1>15
  <1>19. Watched(c, {})
    BY <1>1, <1>17, <1>18, SentWatched
  <1>20. Live(c) = Live(b)
    BY <1>17, <1>18, SentDeferred DEF Live
  <1> QED BY <1>15, <1>16, <1>19, <1>20 DEF Sound

\* The end of a reply that is an error.
LEMMA UnresolvedFacts ==
    ASSUME EvdnsAssumption, NEW b, Sound(b), NEW h \in Asking(b),
           NEW code \in Results \ {"cancel"}, NEW net \in Nets
    PROVE  LET c == Unresolved(b, h, code, net)
           IN  Sound(c) /\ Live(c) = Live(b)
  <1> DEFINE c == Unresolved(b, h, code, net)
             d == Finished(Schedule(b, h, code), h, net)
  <1>1. CASE HasNext(b, h)
    <2>1. c = TryNext(b, h, net)
      BY <1>1 DEF Unresolved
    <2> QED BY <1>1, <2>1, TryNextFacts
  <1>2. CASE ~HasNext(b, h)
    <2>1. c = d
      BY <1>2 DEF Unresolved
    <2>2. Kept(b, {h}) /\ Watched(b, {})
      BY KeptLess DEF Sound
    <2>3. Sound(d) /\ Live(d) = Live(b) \cup {h}
      BY <2>2, ToldFacts
    <2> HIDE DEF c, d
    <2>4. Live(b) \cup {h} = Live(b)
      BY DEF Live
    <2> QED BY <2>1, <2>3, <2>4 DEF c
  <1> QED BY <1>1, <1>2

\* A server that refuses: it fails, and the request goes to another.
LEMMA RefusedFacts ==
    ASSUME EvdnsAssumption, NEW b, Sound(b), NEW h \in InFlight(b), NEW net \in Nets
    PROVE  Sound(Refused(b, h, net)) /\ Live(Refused(b, h, net)) = Live(b)
  <1> DEFINE failed == Failed(b, b.req[h].ns)
             other == Assign(failed, h)
             q == [other.req EXCEPT ![h].reissue = @ + 1, ![h].tx = 0, ![h].send = TRUE]
             c == WithReq(other, q)
  <1>1. /\ b \in Bases /\ Counted(b) /\ b.req[h].ns \in Servers /\ h \in Asking(b)
        /\ h \in Handles /\ "refused" \in Results \ {"cancel"}
    <2>1. b \in Bases /\ Counted(b) /\ Driven(b, {})
      BY DEF Sound, Kept
    <2>2. h \in Handles
      BY <2>1, BaseTypes DEF InFlight, ToSet
    <2> QED BY <2>1, <2>2 DEF Driven, Asking, Results
  <1>2. failed \in Bases /\ Passed(b, failed)
    BY <1>1, FailedPassed
  <1>3. /\ Refused(b, h, net) =
              IF b.req[h].reissue >= MaxReissues THEN Unresolved(b, h, "refused", net)
              ELSE IF other.req[h].ns = failed.req[h].ns
              THEN Unresolved(other, h, "refused", net)
              ELSE [other EXCEPT !.req[h].reissue = @ + 1, !.req[h].tx = 0,
                                 !.req[h].send = TRUE]
    BY DEF Refused
  <1> HIDE DEF failed
  <1>4. other \in Bases /\ Passed(failed, other)
    <2>1. failed.good = Cardinality(Good(failed))
      BY <1>2 DEF Passed
    <2> QED BY <1>1, <1>2, <2>1, AssignFacts
  <1> HIDE DEF other
  <1>5. Passed(b, other)
    BY <1>1, <1>2, <1>4, PassedTwice
  <1>6. Sound(other) /\ Live(other) = Live(b) /\ h \in InFlight(other) /\ h \in Asking(other)
    BY <1>4, <1>5, PassedSound DEF Asking
  <1>7. CASE b.req[h].reissue >= MaxReissues
    BY <1>1, <1>3, <1>7, UnresolvedFacts
  <1>8. CASE ~(b.req[h].reissue >= MaxReissues) /\ other.req[h].ns = failed.req[h].ns
    BY <1>1, <1>3, <1>6, <1>8, UnresolvedFacts
  <1>9. CASE ~(b.req[h].reissue >= MaxReissues) /\ other.req[h].ns # failed.req[h].ns
    <2>1. Refused(b, h, net) = [other EXCEPT !.req[h].reissue = @ + 1, !.req[h].tx = 0,
                                             !.req[h].send = TRUE]
      BY <1>3, <1>9
    <2>2. Kept(other, {}) /\ Kept(other, {h}) /\ Watched(other, {}) /\ Parked(other)
      BY <1>6, KeptLess DEF Sound
    <2>3. other.req[h].reissue + 1 \in 0..MaxReissues
      <3>1. /\ other.req[h].reissue = b.req[h].reissue
            /\ b.req[h].reissue \in 0..MaxReissues /\ MaxReissues \in Nat
        BY <1>1, <1>5, PartTypes DEF Passed, EvdnsAssumption
      <3> QED BY <1>9, <3>1
    <2>4. /\ q \in [Handles -> Reqs] /\ \A k \in Handles \ {h} : q[k] = other.req[k]
          /\ q[h].ns = other.req[h].ns /\ q[h].tx = 0 /\ q[h].send = TRUE
          /\ q[h].timer = other.req[h].timer
      <3> DEFINE r == other.req[h]
                 ra == [r EXCEPT !.reissue = @ + 1]
                 rb == [ra EXCEPT !.tx = 0]
                 rc == [rb EXCEPT !.send = TRUE]
      <3>1. r \in Reqs /\ r.reissue + 1 \in 0..MaxReissues /\ 0 \in 0..MaxRetransmits
        BY <1>1, <1>4, <2>3, PartTypes DEF EvdnsAssumption
      <3>2. /\ rc \in Reqs /\ rc.ns = r.ns /\ rc.tx = 0 /\ rc.send = TRUE
            /\ rc.timer = r.timer
        <4> HIDE DEF r
        <4>1. ra \in Reqs /\ ra.ns = r.ns /\ ra.timer = r.timer
          BY <3>1 DEF Reqs
        <4> HIDE DEF ra
        <4>2. rb \in Reqs /\ rb.ns = r.ns /\ rb.timer = r.timer /\ rb.tx = 0
          BY <3>1, <4>1 DEF Reqs
        <4> HIDE DEF rb
        <4> QED BY <4>2 DEF Reqs
      <3>3. q = [other.req EXCEPT ![h] = rc]
        <4> DEFINE f == other.req
        <4>1. f \in [Handles -> Reqs]
          BY <1>4, BaseTypes
        <4> HIDE DEF f
        <4>2. [f EXCEPT ![h].reissue = @ + 1, ![h].tx = 0, ![h].send = TRUE] =
              [f EXCEPT ![h] = [[[f[h] EXCEPT !.reissue = @ + 1] EXCEPT !.tx = 0]
                                   EXCEPT !.send = TRUE]]
          BY <1>1, <4>1 DEF Reqs
        <4> QED BY <4>2 DEF f
      <3> HIDE DEF q, rc
      <3> QED BY SMTT(30), <1>1, <1>4, <3>2, <3>3, BaseTypes
    <2>5. c = [other EXCEPT !.req[h].reissue = @ + 1, !.req[h].tx = 0,
                            !.req[h].send = TRUE]
      <3> DEFINE p1 == [other.req EXCEPT ![h].reissue = @ + 1]
                 p2 == [p1 EXCEPT ![h].tx = 0]
                 p3 == [p2 EXCEPT ![h].send = TRUE]
                 o1 == [other EXCEPT !.req[h].reissue = @ + 1]
                 o2 == [o1 EXCEPT !.req[h].tx = 0]
      <3>1. Shaped(other)
        BY <1>4, BaseTypes DEF Shaped
      <3>2. o1 = WithReq(other, p1)
        BY <3>1 DEF Shaped, WithReq
      <3>3. o1.req = p1 /\ Shaped(o1)
        <4> HIDE DEF o1, p1
        <4> QED BY <3>1, <3>2 DEF Shaped, WithReq
      <3>4. o2 = WithReq(o1, p2)
        <4> HIDE DEF o1, p1
        <4> QED BY <3>3 DEF Shaped, WithReq
      <3>5. o2.req = p2 /\ Shaped(o2)
        <4> HIDE DEF o1, o2, p1, p2
        <4> QED BY <3>3, <3>4 DEF Shaped, WithReq
      <3>6. [o2 EXCEPT !.req[h].send = TRUE] = WithReq(o2, p3)
        <4> HIDE DEF o1, o2, p1, p2
        <4> QED BY <3>5 DEF Shaped, WithReq
      <3>7. WithReq(o2, p3) = WithReq(other, p3)
        <4> HIDE DEF o1, o2, p1, p2, p3
        <4> QED BY <3>1, <3>2, <3>4 DEF Shaped, WithReq
      <3>8. /\ [other EXCEPT !.req[h].reissue = @ + 1, !.req[h].tx = 0,
                             !.req[h].send = TRUE] = [o2 EXCEPT !.req[h].send = TRUE]
            /\ q = p3
        BY RefusedOneByOne
      <3> QED BY <3>6, <3>7, <3>8
    <2> HIDE DEF q
    <2>6. /\ Kept(c, {h}) /\ Sent(other, c) /\ SameQueues(other, c) /\ c.req = q
          /\ c.server = other.server
      <3>1. q[h].ns \in Servers
        BY <1>6, <2>2, <2>4 DEF Kept, Driven
      <3>2. /\ other \in Bases /\ h \in InFlight(other) /\ Kept(other, {h})
            /\ q \in [Handles -> Reqs] /\ \A k \in Handles \ {h} : q[k] = other.req[k]
        BY <1>4, <1>6, <2>2, <2>4
      <3>3. c.req = q /\ c.server = other.server
        BY <3>2, WithReqFacts
      <3>4. Kept(c, {h}) /\ Sent(other, c) /\ SameQueues(other, c)
        BY <3>1, <3>2, OneRequest
      <3> QED BY <3>3, <3>4
    <2> HIDE DEF c
    <2>7. Kept(c, {})
      <3>1. ~other.req[h].timer => \E s \in Servers : other.server[s].writing
        BY <1>6, <2>2 DEF Kept, Driven
      <3>2. h \in InFlight(c)
        BY <1>6, <2>6 DEF SameQueues, InFlight
      <3>3. 0 < MaxRetransmits
        BY DEF EvdnsAssumption
      <3> QED BY <2>4, <2>6, <3>1, <3>2, <3>3, AllDriven
    <2>8. c \in Bases /\ Asking(c) = Asking(other)
      BY <2>6, <2>7 DEF Kept, SameQueues, Asking, InFlight
    <2>9. Watched(c, {})
      BY <1>4, <2>2, <2>6, <2>8, SentWatched
    <2>10. Parked(c)
      BY <2>2, <2>6 DEF Parked, SameQueues
    <2>11. Live(c) = Live(b)
      BY <1>6, <2>6, <2>8, SentDeferred DEF Live
    <2> QED BY <2>1, <2>5, <2>7, <2>9, <2>10, <2>11 DEF Sound
  <1> QED BY <1>7, <1>8, <1>9

\* A base with another state of one server, that is as much up and waited for
\* as before.
LEMMA SetServer ==
    ASSUME NEW b, NEW X, Kept(b, X), NEW s \in Servers, NEW r \in States,
           r.up = b.server[s].up, r.choked => r.writing,
           b.server[s].writing => r.writing
    PROVE  LET c == WithServer(b, [b.server EXCEPT ![s] = r])
           IN  /\ Kept(c, X) /\ c \in Bases /\ SameQueues(b, c) /\ c.req = b.req
               /\ c.deferred = b.deferred /\ c.server[s] = r
               /\ InFlight(c) = InFlight(b) /\ Asking(c) = Asking(b)
               /\ Deferred(c) = Deferred(b) /\ Live(c) = Live(b)
               /\ \A h : Told(c, h) <=> Told(b, h)
               /\ \A t \in Servers : t # s => c.server[t] = b.server[t]
  <1> DEFINE v == [b.server EXCEPT ![s] = r]
             c == WithServer(b, v)
  <1>1. b \in Bases /\ Counted(b) /\ Driven(b, X)
    BY DEF Kept
  <1>2. /\ v \in [Servers -> States] /\ v[s] = r
        /\ \A t \in Servers : t # s => v[t] = b.server[t]
    <2>1. b.server \in [Servers -> States]
      BY <1>1, BaseTypes
    <2> QED BY <2>1
  <1> HIDE DEF v
  <1>3. /\ c \in Bases /\ c.server = v /\ c.req = b.req /\ c.good = b.good
        /\ c.deferred = b.deferred /\ SameQueues(b, c)
    BY <1>1, <1>2, WithServerFacts DEF SameQueues
  <1> HIDE DEF c
  <1>4. InFlight(c) = InFlight(b) /\ Asking(c) = Asking(b)
    BY <1>3 DEF SameQueues, InFlight, Asking
  <1>5. /\ Deferred(c) = Deferred(b) /\ Live(c) = Live(b)
        /\ \A h : Told(c, h) <=> Told(b, h)
    BY <1>3, <1>4 DEF Deferred, Live, Told
  <1>6. Counted(c)
    <2>1. Good(c) = Good(b)
      BY <1>2, <1>3 DEF Good
    <2> QED BY <1>1, <1>3, <1>4, <2>1 DEF Counted, SameQueues
  <1>7. Driven(c, X)
    BY <1>1, <1>2, <1>3, <1>4 DEF Driven
  <1> QED BY <1>2, <1>3, <1>4, <1>5, <1>6, <1>7 DEF Kept, c, v

\* A name error: the server is up, and the search goes on or ends.  An answer
\* to a probe while its server is down is the case in which the code uses the
\* request it has just freed.
LEMMA NoSuchNameFacts ==
    ASSUME EvdnsAssumption, NEW b, Sound(b), NEW h \in InFlight(b), NEW net \in Nets
    PROVE  Sound(NoSuchName(b, h, net)) /\ Live(NoSuchName(b, h, net)) = Live(b)
  <1> DEFINE s == b.req[h].ns
             d == [b EXCEPT !.dead = TRUE]
             u == Up(b, s, net)
  <1>1. /\ b \in Bases /\ Kept(b, {}) /\ Counted(b) /\ Driven(b, {}) /\ Watched(b, {})
        /\ Parked(b) /\ s \in Servers /\ h \in Asking(b)
        /\ "notexist" \in Results \ {"cancel"}
    BY DEF Sound, Kept, Driven, Asking, Results
  <1> DEFINE own == h = s /\ b.server[s].probing /\ ~b.server[s].up
  <1>2. NoSuchName(b, h, net) =
           IF own THEN d ELSE Unresolved(u, h, "notexist", net)
    BY DEF NoSuchName
  <1>3. CASE own
    <2>1. /\ d.server = b.server /\ d.head = b.head /\ d.good = b.good /\ d.req = b.req
          /\ d.inflight = b.inflight /\ d.waiting = b.waiting /\ d.nin = b.nin
          /\ d.nwait = b.nwait /\ d.deferred = b.deferred /\ d.dead = TRUE
      BY <1>1, BaseTypes
    <2>2. Shaped(d)
      <3>1. Shaped(b) /\ d = [b EXCEPT !.dead = TRUE]
        BY <1>1, BaseTypes DEF Shaped
      <3> HIDE DEF d
      <3> QED BY <3>1 DEF Shaped
    <2>3. NoSuchName(b, h, net) = d
      BY <1>2, <1>3
    <2> HIDE DEF d
    <2>4. d \in Bases
      BY <1>1, <2>1, <2>2, BaseTypes, BaseOf
    <2>5. Passed(b, d)
      <3>1. Good(d) = Good(b)
        BY <2>1 DEF Good
      <3> QED BY <1>1, <2>1, <3>1 DEF Passed, Sent, SameQueues, Counted
    <2> QED BY <2>3, <2>4, <2>5, PassedSound
  <1>4. CASE ~own
    <2>1. NoSuchName(b, h, net) = Unresolved(u, h, "notexist", net)
      BY <1>2, <1>4
    <2>2. h # s
      BY <1>1, <1>4 DEF Watched
    <2> HIDE DEF s
    <2>3. /\ Kept(u, {}) /\ Watched(u, {}) /\ Parked(u) /\ Live(u) = Live(b)
          /\ Asking(b) \ {s} \subseteq Asking(u)
      BY <1>1, UpFacts
    <2> HIDE DEF u
    <2>4. Sound(u) /\ h \in Asking(u)
      BY <1>1, <2>2, <2>3 DEF Sound
    <2> QED BY <1>1, <2>1, <2>3, <2>4, UnresolvedFacts
  <1> QED BY <1>3, <1>4

\* An answer to a request that is about to be finished.
LEMMA AnsweredFacts ==
    ASSUME NEW b, Sound(b), NEW h \in Asking(b), NEW result \in Results \ {"cancel"}
    PROVE  LET c == Schedule(b, h, result)
           IN  /\ c \in Bases /\ Kept(c, {}) /\ Watched(c, {h}) /\ Parked(c)
               /\ Asking(c) = Asking(b) /\ Deferred(c) = Deferred(b) \cup {h}
               /\ Live(c) = Live(b) /\ SameQueues(b, c) /\ Owed(c, h)
  <1> DEFINE c == Schedule(b, h, result)
             Y == {}
  <1>1. /\ b \in Bases /\ Kept(b, {}) /\ Watched(b, Y) /\ Parked(b)
        /\ h \in Handles /\ h \notin Deferred(b) /\ result \in Results
        /\ result # "cancel"
    <2>1. b \in Bases /\ Kept(b, {}) /\ Watched(b, {}) /\ Parked(b)
      BY DEF Sound, Kept
    <2>2. h \in Handles
      BY <2>1, BaseTypes DEF Asking, InFlight, ToSet
    <2>3. h \notin Deferred(b)
      BY <2>1 DEF Watched
    <2> QED BY <2>1, <2>2, <2>3
  <1>2. {h} = Y \cup {h}
    OBVIOUS
  <1> HIDE DEF Y
  <1>3. /\ c \in Bases /\ \A X : Kept(b, X) => Kept(c, X)
        /\ Watched(c, Y \cup {h}) /\ Asking(c) = Asking(b)
        /\ Deferred(c) = Deferred(b) \cup {h} /\ SameQueues(b, c) /\ Owed(c, h)
    BY <1>1, ScheduleFacts
  <1> HIDE DEF c
  <1>4. Live(c) = Live(b) /\ Parked(c)
    BY <1>1, <1>3 DEF Live, Parked, SameQueues
  <1> QED BY <1>1, <1>2, <1>3, <1>4 DEF c

\* An answer.
LEMMA FoundFacts ==
    ASSUME EvdnsAssumption, NEW b, Sound(b), NEW h \in InFlight(b), NEW net \in Nets
    PROVE  Sound(Found(b, h, net)) /\ Live(Found(b, h, net)) = Live(b)
  <1> DEFINE s == b.req[h].ns
             told == Schedule(b, h, "ok")
             own == IF h = s THEN [told EXCEPT !.server[s].probing = FALSE] ELSE told
             u == Up(own, s, net)
             c == Finished(u, h, net)
  <1>1. /\ b \in Bases /\ Kept(b, {}) /\ Watched(b, {}) /\ Parked(b)
        /\ s \in Servers /\ h \in Asking(b) /\ "ok" \in Results /\ "ok" # "cancel"
        /\ h \in Handles /\ h \notin Deferred(b)
    <2>1. b \in Bases /\ Driven(b, {}) /\ Watched(b, {}) /\ h \in Asking(b)
      BY DEF Sound, Kept, Asking
    <2>2. h \in Handles
      BY <2>1, BaseTypes DEF InFlight, ToSet
    <2> QED BY <2>1, <2>2 DEF Sound, Driven, Watched, Results
  <1>2. Found(b, h, net) = c
    BY DEF Found
  <1>3. /\ told \in Bases /\ Kept(told, {}) /\ Watched(told, {h}) /\ Parked(told)
        /\ Asking(told) = Asking(b) /\ Deferred(told) = Deferred(b) \cup {h}
        /\ Live(told) = Live(b) /\ SameQueues(b, told) /\ Owed(told, h)
    <2> DEFINE result == "ok"
    <2>1. result \in Results \ {"cancel"} /\ told = Schedule(b, h, result)
      BY <1>1
    <2> HIDE DEF result, told
    <2> QED BY <1>1, <2>1, AnsweredFacts
  <1>4. Live(told) = Live(b) /\ Parked(told)
    BY <1>3
  <1> HIDE DEF s, told
  <1>5. /\ Kept(own, {}) /\ Watched(own, {h}) /\ Parked(own) /\ Asking(own) = Asking(b)
        /\ Live(own) = Live(b) /\ Owed(own, h)
        /\ h = s => ~own.server[s].probing
    <2>1. CASE h # s
      BY <1>3, <1>4, <2>1
    <2>2. CASE h = s
      <3> DEFINE r == [told.server[s] EXCEPT !.probing = FALSE]
                 o == WithServer(told, [told.server EXCEPT ![s] = r])
      <3>1. /\ r \in States /\ r.probing = FALSE /\ r.up = told.server[s].up
            /\ r.timer = told.server[s].timer
            /\ r.choked = told.server[s].choked /\ r.writing = told.server[s].writing
        <4> DEFINE r0 == told.server[s]
        <4>1. r0 \in States
          BY <1>1, <1>3, PartTypes
        <4> HIDE DEF r0
        <4>2. LET x == [r0 EXCEPT !.probing = FALSE]
              IN  /\ x \in States /\ x.probing = FALSE /\ x.up = r0.up
                  /\ x.timer = r0.timer /\ x.choked = r0.choked /\ x.writing = r0.writing
          BY <4>1 DEF States
        <4> QED BY <4>2 DEF r0
      <3>2. own = o
        BY <1>3, <2>2, BaseTypes DEF WithServer
      <3> HIDE DEF r, own
      <3> DEFINE Z == {}
      <3>3. /\ r.choked => r.writing
            /\ told.server[s].writing => r.writing
            /\ r \in States /\ r.up = told.server[s].up /\ Kept(told, Z)
            /\ s \in Servers
        BY <1>1, <1>3, <3>1 DEF Kept, Driven
      <3> HIDE DEF Z
      <3>4. /\ Kept(o, Z) /\ SameQueues(told, o) /\ o.deferred = told.deferred
            /\ o.server[s] = r /\ Asking(o) = Asking(told)
            /\ Deferred(o) = Deferred(told) /\ Live(o) = Live(told)
            /\ \A k : Told(o, k) <=> Told(told, k)
            /\ \A t \in Servers : t # s => o.server[t] = told.server[t]
        BY <3>3, SetServer
      <3> HIDE DEF o
      <3>5. Watched(o, {h})
        <4>1. o.server[s].up => ~o.server[s].timer
          BY <1>1, <1>3, <3>1, <3>4 DEF Watched
        <4>2. Watched(o, {h} \cup {s})
          BY <1>1, <1>3, <3>4, <4>1, OneServer
        <4>3. {h} \cup {s} = {h}
          BY <2>2
        <4> QED BY <4>2, <4>3
      <3>6. Parked(o)
        BY <1>4, <3>4 DEF Parked, SameQueues
      <3> QED BY <1>3, <1>4, <3>1, <3>2, <3>4, <3>5, <3>6 DEF Owed, Z
    <2> QED BY <2>1, <2>2
  <1> HIDE DEF own
  <1>6. /\ Kept(u, {}) /\ Watched(u, {h}) /\ Live(u) = Live(own)
        /\ Asking(own) \ {s} \subseteq Asking(u)
        /\ s \in {h} => Asking(u) = Asking(own)
        /\ \A k : (k # s \/ s \in {h}) /\ Owed(own, k) => Owed(u, k)
    <2> DEFINE X == {h}
    <2>1. Watched(own, X) /\ (s \in X => ~own.server[s].probing)
      BY <1>5
    <2> HIDE DEF X
    <2>2. /\ Kept(u, {}) /\ Watched(u, X) /\ Live(u) = Live(own)
          /\ Asking(own) \ {s} \subseteq Asking(u)
          /\ s \in X => Asking(u) = Asking(own)
          /\ \A k : (k # s \/ s \in X) /\ Owed(own, k) => Owed(u, k)
      BY <1>1, <1>5, <2>1, UpFacts
    <2> QED BY <2>2 DEF X
  <1> HIDE DEF u
  <1>7. h \in Asking(u) /\ Owed(u, h) /\ Kept(u, {h})
    BY <1>1, <1>5, <1>6, KeptLess
  <1>8. Sound(c) /\ Live(c) = Live(u)
    BY <1>6, <1>7, EndedFacts
  <1> QED BY <1>2, <1>5, <1>6, <1>8

\* reply_handle.
LEMMA HandledFacts ==
    ASSUME EvdnsAssumption, NEW b, Sound(b), NEW h \in InFlight(b),
           NEW code \in Codes, NEW net \in Nets
    PROVE  Sound(Handled(b, h, code, net)) /\ Live(Handled(b, h, code, net)) = Live(b)
  <1>1. code \in {"ok", "notexist", "servfail", "refused"}
    BY DEF EvdnsAssumption
  <1>2. CASE code = "ok"
    BY <1>2, FoundFacts DEF Handled
  <1>3. CASE code = "notexist"
    BY <1>3, NoSuchNameFacts DEF Handled
  <1>4. CASE code = "servfail"
    <2>1. "servfail" \in Results \ {"cancel"} /\ h \in Asking(b)
      BY DEF Results, Asking
    <2>2. Handled(b, h, code, net) = Unresolved(b, h, "servfail", net)
      BY <1>4 DEF Handled
    <2> QED BY <2>1, <2>2, UnresolvedFacts
  <1>5. CASE code = "refused"
    BY <1>5, RefusedFacts DEF Handled
  <1> QED BY <1>1, <1>2, <1>3, <1>4, <1>5

-----------------------------------------------------------------------------
(* A callback run, and a request made.                                      *)

\* A server that no request and no callback is about is watched when its timer
\* runs, or it is up.
LEMMA WatchedAlone ==
    ASSUME NEW b \in Bases, NEW h, Watched(b, {h}), h \notin Live(b),
           h \in Servers => b.server[h].up \/ b.server[h].timer
    PROVE  Watched(b, {})
  <1>1. /\ \A i, j \in DOMAIN b.deferred :
              b.deferred[i].handle = b.deferred[j].handle => i = j
        /\ \A k \in Asking(b) \ {} : k \notin Deferred(b)
        /\ \A s \in Servers : b.server[s].up => ~b.server[s].timer
    BY DEF Watched, Live
  <1>2. ASSUME NEW s \in Servers \ {}
        PROVE  /\ s \in Asking(b) => ~b.server[s].up /\ b.server[s].probing
               /\ ~b.server[s].up => s \in Deferred(b) \/ (b.server[s].timer # (s \in Asking(b)))
               /\ ~b.server[s].up /\ Told(b, s) => b.server[s].timer
    <2>1. CASE s # h
      BY <2>1 DEF Watched
    <2>2. CASE s = h
      <3>1. s \notin Asking(b) /\ b.server[s].timer \in BOOLEAN
        BY <2>2, PartTypes DEF Live
      <3>2. ~b.server[s].up => b.server[s].timer
        BY <2>2
      <3> QED BY <3>1, <3>2
    <2> QED BY <2>1, <2>2
  <1> QED BY <1>1, <1>2 DEF Watched

\* reply_run_callback takes the first callback off.
LEMMA DropFacts ==
    ASSUME NEW b, Sound(b), b.deferred # << >>
    PROVE  LET f == Head(b.deferred)
               c == DropDeferred(b)
           IN  /\ f.handle \in Handles /\ f.result \in Results
               /\ Kept(c, {}) /\ Watched(c, {f.handle}) /\ Parked(c)
               /\ f.handle \in Live(b) /\ Live(c) = Live(b) \ {f.handle}
               /\ c.server = b.server
               /\ f.handle \in Servers /\ f.result = "cancel" =>
                     b.server[f.handle].up \/ b.server[f.handle].timer
               /\ f.handle \notin Servers => Sound(c)
  <1> DEFINE d == b.deferred
             e == Tail(d)
             h == d[1].handle
             c == WithDeferred(b, e)
  <1>1. /\ b \in Bases /\ Kept(b, {}) /\ Watched(b, {}) /\ Parked(b)
        /\ d \in Seq(Calls) /\ d # << >>
    BY BaseTypes DEF Sound, Kept
  <1>2. /\ e \in Seq(Calls) /\ DropDeferred(b) = c /\ Head(d) = d[1]
        /\ Len(d) \in Nat /\ Len(d) > 0 /\ DOMAIN d = 1..Len(d)
        /\ DOMAIN e = 1..(Len(d) - 1) /\ \A i \in DOMAIN e : e[i] = d[i + 1]
    BY <1>1 DEF DropDeferred, WithDeferred
  <1>3. h \in Handles /\ d[1].result \in Results
    BY <1>1, <1>2, PartTypes
  <1> HIDE DEF e
  <1>4. /\ c \in Bases /\ c.deferred = e /\ c.server = b.server /\ c.req = b.req
        /\ SameQueues(b, c) /\ Asking(c) = Asking(b) /\ Kept(c, {})
    <2> DEFINE X == {}
    <2>1. Kept(b, X)
      BY <1>1
    <2> HIDE DEF X
    <2>2. /\ c \in Bases /\ c.deferred = e /\ c.server = b.server /\ c.req = b.req
          /\ SameQueues(b, c) /\ Asking(c) = Asking(b) /\ \A Y : Kept(b, Y) => Kept(c, Y)
      BY <1>1, <1>2, WithDeferredFacts
    <2> HIDE DEF c
    <2> QED BY <2>1, <2>2 DEF X
  <1> HIDE DEF c
  <1>5. \A i, j \in DOMAIN d : d[i].handle = d[j].handle => i = j
    BY <1>1 DEF Watched
  <1>6. \A i \in DOMAIN e : i + 1 \in DOMAIN d /\ i + 1 # 1 /\ i \in Nat
    BY <1>2
  <1>7. \A i \in DOMAIN d : i # 1 => i - 1 \in DOMAIN e /\ (i - 1) + 1 = i
    BY <1>2
  <1>8. 1 \in DOMAIN d
    BY <1>2
  <1>9. Deferred(c) = Deferred(b) \ {h} /\ h \in Deferred(b)
    <2>1. \A k : k \in Deferred(c) => k \in Deferred(b) \ {h}
      BY <1>2, <1>4, <1>5, <1>6, <1>8 DEF Deferred
    <2>2. \A k : k \in Deferred(b) \ {h} => k \in Deferred(c)
      BY <1>2, <1>4, <1>7 DEF Deferred
    <2> QED BY <1>8, <2>1, <2>2 DEF Deferred
  <1>10. \A s : Told(c, s) => Told(b, s)
    BY <1>2, <1>4, <1>6 DEF Told
  <1>11. d[1].result = "cancel" => Told(b, h)
    BY <1>8 DEF Told
  <1>12. Watched(c, {h})
    <2>1. \A i, j \in DOMAIN c.deferred :
              c.deferred[i].handle = c.deferred[j].handle => i = j
      <3> SUFFICES ASSUME NEW i \in DOMAIN e, NEW j \in DOMAIN e,
                          e[i].handle = e[j].handle
                   PROVE  i = j
        BY <1>4
      <3>1. i + 1 = j + 1
        BY <1>2, <1>5, <1>6
      <3> QED BY <1>6, <3>1
    <2>2. ASSUME NEW s \in Servers \ {h}
          PROVE  /\ s \in Asking(c) => ~c.server[s].up /\ c.server[s].probing
                 /\ ~c.server[s].up => s \in Deferred(c) \/ (c.server[s].timer # (s \in Asking(c)))
                 /\ ~c.server[s].up /\ Told(c, s) => c.server[s].timer
      <3>1. /\ s \in Asking(b) => ~b.server[s].up /\ b.server[s].probing
            /\ ~b.server[s].up => s \in Deferred(b) \/ (b.server[s].timer # (s \in Asking(b)))
            /\ ~b.server[s].up /\ Told(b, s) => b.server[s].timer
        BY <1>1 DEF Watched
      <3>2. s \in Deferred(c) <=> s \in Deferred(b)
        BY <1>9
      <3> QED BY <1>4, <1>10, <3>1, <3>2
    <2>3. \A s \in Servers : c.server[s].up => ~c.server[s].timer
      BY <1>1, <1>4 DEF Watched
    <2>4. \A k \in Asking(c) \ {h} : k \notin Deferred(c)
      BY <1>1, <1>4, <1>9 DEF Watched
    <2> QED BY <2>1, <2>2, <2>3, <2>4 DEF Watched
  <1>13. Parked(c)
    BY <1>1, <1>4 DEF Parked, SameQueues
  <1>14. h \notin Asking(b)
    BY <1>1, <1>9 DEF Watched
  <1>15. h \in Live(b) /\ Live(c) = Live(b) \ {h} /\ h \notin Live(c)
    BY <1>4, <1>9, <1>14 DEF Live
  <1>16. h \in Servers /\ d[1].result = "cancel" => b.server[h].up \/ b.server[h].timer
    BY <1>1, <1>11 DEF Watched
  <1>17. h \notin Servers => Sound(c)
    <2> SUFFICES ASSUME h \notin Servers PROVE Sound(c)
      OBVIOUS
    <2> HIDE DEF h
    <2>1. Watched(c, {})
      BY <1>4, <1>12, <1>15, WatchedAlone
    <2> QED BY <1>4, <1>13, <2>1 DEF Sound
  <1> HIDE DEF h
  <1> QED BY <1>2, <1>3, <1>4, <1>12, <1>13, <1>15, <1>16, <1>17 DEF h

\* The end of a probe.
LEMMA ProbedFacts ==
    ASSUME EvdnsAssumption, NEW b, Kept(b, {}), NEW s \in Servers, Watched(b, {s}),
           Parked(b), s \notin Live(b), NEW result \in Results,
           result = "cancel" => b.server[s].up \/ b.server[s].timer,
           NEW net \in Nets
    PROVE  LET c == Probed(b, s, result, net)
           IN  Sound(c) /\ Live(c) = Live(b)
  <1> DEFINE Z == {}
             W == {s}
             r0 == b.server[s]
             r == [r0 EXCEPT !.probing = FALSE]
             over == WithServer(b, [b.server EXCEPT ![s] = r])
  <1>1. b \in Bases /\ Driven(b, {}) /\ r0 \in States /\ Kept(b, Z) /\ Watched(b, W)
    BY PartTypes DEF Kept
  <1>2. /\ r \in States /\ r.probing = FALSE /\ r.up = r0.up /\ r.timer = r0.timer
        /\ r.choked = r0.choked /\ r.writing = r0.writing
    <2> HIDE DEF r0
    <2>1. LET x == [r0 EXCEPT !.probing = FALSE]
          IN  /\ x \in States /\ x.probing = FALSE /\ x.up = r0.up /\ x.timer = r0.timer
              /\ x.choked = r0.choked /\ x.writing = r0.writing
      BY <1>1 DEF States
    <2> QED BY <2>1
  <1>3. [b EXCEPT !.server[s].probing = FALSE] = over
    BY <1>1, BaseTypes DEF WithServer
  <1>4. /\ r.choked => r.writing
        /\ b.server[s].writing => r.writing
        /\ r.up = b.server[s].up
    BY <1>1, <1>2 DEF Driven
  <1>5. b.server[s].up => ~r.timer
    BY <1>2 DEF Watched
  <1> HIDE DEF r, r0, Z, W
  <1>6. /\ Kept(over, Z) /\ over \in Bases /\ SameQueues(b, over)
        /\ over.deferred = b.deferred /\ over.server[s] = r
        /\ Asking(over) = Asking(b) /\ Live(over) = Live(b)
        /\ \A t \in Servers : t # s => over.server[t] = b.server[t]
    BY SMTT(30), <1>1, <1>2, <1>4, SetServer
  <1> HIDE DEF over
  <1>7. Watched(over, W)
    <2>1. over.server[s].up => ~over.server[s].timer
      BY <1>4, <1>5, <1>6
    <2>2. Watched(over, W \cup {s})
      BY <1>1, <1>6, <2>1, OneServer
    <2>3. W \cup {s} = W
      BY DEF W
    <2> QED BY <2>2, <2>3
  <1>8. Parked(over) /\ s \notin Live(over)
    BY <1>6 DEF Parked, SameQueues
  <1>9. Probed(b, s, result, net) =
           CASE result = "cancel"             -> over
             [] result \in {"ok", "notexist"} -> Up(over, s, net)
             [] OTHER -> [over EXCEPT !.server[s].timer = ~b.server[s].up]
    BY <1>3 DEF Probed
  <1>10. CASE result = "cancel"
    <2>1. Probed(b, s, result, net) = over
      BY <1>9, <1>10
    <2>2. over.server[s].up \/ over.server[s].timer
      BY <1>2, <1>6, <1>10 DEF r0
    <2>3. Watched(over, {})
      BY <1>6, <1>7, <1>8, <2>2, WatchedAlone DEF W
    <2> QED BY <1>6, <1>8, <2>1, <2>3 DEF Sound, Z
  <1>11. CASE result \in {"ok", "notexist"}
    <2> DEFINE u == Up(over, s, net)
    <2>1. Probed(b, s, result, net) = u
      BY <1>9, <1>11
    <2>2. Kept(over, {}) /\ (s \in W => ~over.server[s].probing)
      BY <1>2, <1>6 DEF Z
    <2>3. /\ Kept(u, {}) /\ Watched(u, W) /\ Parked(u) /\ Live(u) = Live(over)
          /\ u.server[s].up
      BY <1>7, <1>8, <2>2, UpFacts
    <2> HIDE DEF u
    <2>4. u \in Bases /\ s \notin Live(u)
      BY <1>8, <2>3 DEF Kept
    <2>5. Watched(u, {})
      BY <2>3, <2>4, WatchedAlone DEF W
    <2> QED BY <1>6, <2>1, <2>3, <2>5 DEF Sound
  <1>12. CASE result \notin {"cancel", "ok", "notexist"}
    <2> DEFINE q == [r EXCEPT !.timer = ~b.server[s].up]
               o == WithServer(over, [over.server EXCEPT ![s] = q])
    <2>1. b.server[s].up \in BOOLEAN
      BY <1>1, PartTypes
    <2>2. /\ q \in States /\ q.up = r.up /\ q.timer = ~b.server[s].up
          /\ q.choked = r.choked /\ q.writing = r.writing
      <3> DEFINE v == ~b.server[s].up
      <3>1. v \in BOOLEAN
        BY <2>1
      <3> HIDE DEF v
      <3>2. LET x == [r EXCEPT !.timer = v]
            IN  /\ x \in States /\ x.up = r.up /\ x.timer = v
                /\ x.choked = r.choked /\ x.writing = r.writing
        BY <1>2, <3>1 DEF States
      <3> QED BY <3>2 DEF v
    <2>3. [over EXCEPT !.server[s].timer = ~b.server[s].up] = o
      BY <1>6, BaseTypes DEF WithServer
    <2>4. Probed(b, s, result, net) = o
      BY <1>9, <1>12, <2>3
    <2>5. q.up = over.server[s].up /\ (q.choked => q.writing)
          /\ (over.server[s].writing => q.writing)
      BY <1>4, <1>6, <2>2
    <2> HIDE DEF q
    <2>6. /\ Kept(o, Z) /\ o \in Bases /\ SameQueues(over, o)
          /\ o.deferred = over.deferred /\ o.server[s] = q
          /\ Asking(o) = Asking(over) /\ Live(o) = Live(over)
          /\ \A t \in Servers : t # s => o.server[t] = over.server[t]
      BY SMTT(30), <1>6, <2>2, <2>5, SetServer
    <2> HIDE DEF o
    <2>7. o.server[s].up = b.server[s].up /\ o.server[s].timer = ~b.server[s].up
      BY <1>4, <2>2, <2>6
    <2>8. Watched(o, W)
      <3>1. o.server[s].up => ~o.server[s].timer
        BY <2>7
      <3>2. Watched(o, W \cup {s})
        BY <1>7, <2>6, <3>1, OneServer
      <3>3. W \cup {s} = W
        BY DEF W
      <3> QED BY <3>2, <3>3
    <2>9. s \notin Live(o) /\ (o.server[s].up \/ o.server[s].timer)
      BY <1>8, <2>6, <2>7
    <2>10. Watched(o, {})
      BY <2>6, <2>8, <2>9, WatchedAlone DEF W
    <2>11. Parked(o)
      BY <1>8, <2>6 DEF Parked, SameQueues
    <2> QED BY <1>6, <2>4, <2>6, <2>10, <2>11 DEF Sound, Z
  <1> QED BY <1>10, <1>11, <1>12

\* A request that is made and submitted for a handle that is free.
LEMMA RequestedFacts ==
    ASSUME EvdnsAssumption, NEW b, Kept(b, {}), NEW h \in Handles \ Live(b),
           Watched(b, {h}), Parked(b),
           h \in Servers =>
              ~b.server[h].up /\ ~b.server[h].timer /\ b.server[h].probing,
           NEW m \in Bases, SameQueues(b, m), m.server = b.server, m.good = b.good,
           m.deferred = b.deferred, \A k \in Handles : k # h => m.req[k] = b.req[k],
           ~m.req[h].timer, m.req[h].tx = 0,
           m.req[h].ns = 0 => b.nin >= MaxInflight,
           NEW net \in Nets
    PROVE  LET c == Submit(m, h, net)
           IN  Sound(c) /\ Live(c) = Live(b) \cup {h}
  <1> DEFINE c == Submit(m, h, net)
             W == {h}
             Z == {}
  <1>1. /\ b \in Bases /\ h \in Handles \ InFlight(b) /\ h \notin Deferred(b)
        /\ h \notin Asking(b) /\ Kept(b, Z) /\ Watched(b, W)
        /\ b.nin \in Nat /\ MaxInflight \in Nat \ {0}
    BY BaseTypes DEF Kept, Live, Asking, EvdnsAssumption
  <1> HIDE DEF W, Z
  <1>2. Kept(m, Z)
    BY <1>1, IdleRequest
  <1>3. /\ InFlight(m) = InFlight(b) /\ Asking(m) = Asking(b) /\ Deferred(m) = Deferred(b)
        /\ Parked(m) /\ m.nin = b.nin
    BY DEF SameQueues, InFlight, Asking, Parked, Deferred
  <1>4. Kept(m, {}) /\ h \in Handles \ Asking(m)
    BY <1>1, <1>2, <1>3 DEF Z
  <1>5. /\ Kept(c, {}) /\ Sent(m, c) /\ Asking(c) = Asking(m) \cup {h}
        /\ Parked(m) /\ (m.req[h].ns = 0 => m.nin >= MaxInflight - 1) => Parked(c)
    BY <1>4, SubmitFacts
  <1> HIDE DEF c
  <1>6. m.req[h].ns = 0 => m.nin >= MaxInflight - 1
    BY <1>1, <1>3
  <1>7. c \in Bases
    BY <1>5 DEF Kept
  <1>8. Sent(b, c) /\ Deferred(c) = Deferred(b)
    BY <1>5 DEF Sent, Deferred
  <1>9. Asking(c) \ W = Asking(b) \ W
    BY <1>3, <1>5 DEF W
  <1>10. Watched(c, W)
    BY <1>1, <1>7, <1>8, <1>9, SentWatched
  <1>11. Watched(c, {})
    <2>1. ASSUME NEW s \in Servers \ {}
          PROVE  /\ s \in Asking(c) => ~c.server[s].up /\ c.server[s].probing
                 /\ ~c.server[s].up => s \in Deferred(c) \/ (c.server[s].timer # (s \in Asking(c)))
                 /\ ~c.server[s].up /\ Told(c, s) => c.server[s].timer
      <3>1. CASE s # h
        BY <1>10, <3>1 DEF Watched, W
      <3>2. CASE s = h
        <4>1. ~b.server[s].up /\ ~b.server[s].timer /\ b.server[s].probing
          BY <3>2
        <4>2. ~c.server[s].up /\ ~c.server[s].timer /\ c.server[s].probing
          BY <1>8, <4>1 DEF Sent
        <4>3. ~Told(c, s)
          BY <1>1, <1>8, <3>2 DEF Told, Deferred
        <4>4. s \in Asking(c)
          BY <1>5, <3>2
        <4> QED BY <1>7, <4>2, <4>3, <4>4, PartTypes
      <3> QED BY <3>1, <3>2
    <2>2. \A k \in Asking(c) \ {} : k \notin Deferred(c)
      BY <1>1, <1>8, <1>10 DEF Watched, W
    <2> QED BY <1>10, <2>1, <2>2 DEF Watched
  <1> QED BY <1>3, <1>5, <1>6, <1>8, <1>11 DEF Sound, Live, c

\* search_request_new, for a client that waits for nothing.
LEMMA ResolvedFacts ==
    ASSUME EvdnsAssumption, NEW b, Sound(b), NEW h \in Clients \ Live(b), NEW net \in Nets
    PROVE  LET c == Resolved(b, h, net)
           IN  Sound(c) /\ Live(c) = Live(b) \cup {h}
  <1> DEFINE search == FirstSearch
             m == NewRequest(b, h, search)
  <1>1. /\ b \in Bases /\ Kept(b, {}) /\ Parked(b) /\ Counted(b)
        /\ h \in Handles \ Live(b) /\ h \notin Servers
    BY DEF Sound, Kept, Handles, EvdnsAssumption
  <1>2. Watched(b, {h})
    BY DEF Sound, Watched
  <1>3. search \in Searches
    <2>1. Domains \in Nat
      BY DEF EvdnsAssumption
    <2> QED BY <2>1 DEF FirstSearch, Searches
  <1>4. Resolved(b, h, net) = Submit(m, h, net)
    BY DEF Resolved
  <1> HIDE DEF search
  <1>5. b.good = Cardinality(Good(b)) /\ h \in Handles
    BY <1>1 DEF Counted
  <1>6. /\ m \in Bases /\ m.server = b.server /\ m.good = b.good
        /\ m.deferred = b.deferred /\ SameQueues(b, m)
        /\ \A k \in Handles : k # h => m.req[k] = b.req[k]
        /\ m.req[h].tx = 0 /\ ~m.req[h].timer
        /\ m.req[h].ns = 0 => b.nin >= MaxInflight
    BY <1>1, <1>3, <1>5, NewRequestFacts
  <1> HIDE DEF m
  <1> QED BY <1>1, <1>2, <1>4, <1>6, RequestedFacts

-----------------------------------------------------------------------------
(* The events of the resolver.                                              *)

\* A step that only sends keeps what is owed to whom.
LEMMA QuietSound ==
    ASSUME NEW b \in Bases, Watched(b, {}), Parked(b), NEW c, Kept(c, {}), Sent(b, c),
           SameQueues(b, c)
    PROVE  Sound(c) /\ Live(c) = Live(b)
  <1> DEFINE Z == {}
  <1>1. c \in Bases /\ Watched(b, Z) /\ Asking(c) = Asking(b) /\ Deferred(c) = Deferred(b)
    BY DEF Kept, SameQueues, Asking, InFlight, Sent, Deferred
  <1> HIDE DEF Z
  <1>2. Watched(c, Z)
    BY <1>1, SentWatched
  <1>3. Parked(c)
    BY DEF Parked, SameQueues
  <1> QED BY <1>1, <1>2, <1>3 DEF Sound, Live, Z

\* Neither the count of timeouts nor a socket with room again changes it.
LEMMA SameServer ==
    ASSUME NEW b, Sound(b), NEW s \in Servers, NEW r \in States,
           r.up = b.server[s].up, r.timer = b.server[s].timer,
           r.probing = b.server[s].probing, r.choked => r.writing,
           b.server[s].writing => r.writing
    PROVE  LET c == WithServer(b, [b.server EXCEPT ![s] = r])
           IN  /\ Sound(c) /\ Live(c) = Live(b) /\ InFlight(c) = InFlight(b)
               /\ c.req = b.req /\ c.server[s] = r /\ c \in Bases
  <1> DEFINE Z == {}
             c == WithServer(b, [b.server EXCEPT ![s] = r])
  <1>1. b \in Bases /\ Kept(b, Z) /\ Watched(b, {}) /\ Parked(b)
    BY DEF Sound, Kept
  <1> HIDE DEF Z
  <1>2. /\ Kept(c, Z) /\ c \in Bases /\ SameQueues(b, c) /\ c.req = b.req
        /\ c.deferred = b.deferred /\ c.server[s] = r
        /\ InFlight(c) = InFlight(b) /\ Live(c) = Live(b)
        /\ \A t \in Servers : t # s => c.server[t] = b.server[t]
    BY <1>1, SetServer
  <1> HIDE DEF c
  <1>3. Sent(b, c)
    BY <1>2 DEF Sent
  <1>4. Kept(c, {})
    BY <1>2 DEF Z
  <1>5. Sound(c)
    BY <1>1, <1>2, <1>3, <1>4, QuietSound
  <1> QED BY <1>2, <1>5 DEF c

\* The count of a server's timeouts.
LEMMA TimedoutSet ==
    ASSUME NEW b, Sound(b), NEW s \in Servers, NEW n \in 0..MaxTimeouts
    PROVE  LET c == [b EXCEPT !.server[s].timedout = n]
           IN  /\ Sound(c) /\ Live(c) = Live(b) /\ InFlight(c) = InFlight(b)
               /\ c.req = b.req /\ c \in Bases
  <1> DEFINE r0 == b.server[s]
             r == [r0 EXCEPT !.timedout = n]
             c == WithServer(b, [b.server EXCEPT ![s] = r])
  <1>1. b \in Bases /\ r0 \in States /\ Driven(b, {})
    BY PartTypes DEF Sound, Kept
  <1>2. /\ r \in States /\ r.up = r0.up /\ r.timer = r0.timer /\ r.probing = r0.probing
        /\ r.choked = r0.choked /\ r.writing = r0.writing
    <2> HIDE DEF r0
    <2>1. LET x == [r0 EXCEPT !.timedout = n]
          IN  /\ x \in States /\ x.up = r0.up /\ x.timer = r0.timer
              /\ x.probing = r0.probing /\ x.choked = r0.choked /\ x.writing = r0.writing
      BY <1>1 DEF States
    <2> QED BY <2>1
  <1>3. [b EXCEPT !.server[s].timedout = n] = c
    BY <1>1, BaseTypes DEF WithServer
  <1>4. (r.choked => r.writing) /\ (b.server[s].writing => r.writing)
    BY <1>1, <1>2 DEF Driven
  <1>5. r.up = b.server[s].up /\ r.timer = b.server[s].timer /\ r.probing = b.server[s].probing
    BY <1>2
  <1> HIDE DEF r, r0
  <1>6. /\ Sound(c) /\ Live(c) = Live(b) /\ InFlight(c) = InFlight(b)
        /\ c.req = b.req /\ c \in Bases
    BY <1>2, <1>4, <1>5, SameServer
  <1> QED BY <1>3, <1>6

\* evdns_request_timeout_callback.
LEMMA TimesOutFacts ==
    ASSUME EvdnsAssumption, Sound(base), NEW h \in Handles, NEW net \in Nets,
           RequestTimesOut(h, net)
    PROVE  Sound(base') /\ Live(base') = Live(base)
  <1> DEFINE s == base.req[h].ns
             n == base.server[s].timedout
             late == n + 1 > MaxTimeouts
             k == IF late THEN 0 ELSE n + 1
             z == [base EXCEPT !.server[s].timedout = k]
             blamed == IF late THEN Failed(z, s) ELSE z
             fired == [blamed EXCEPT !.req[h].timer = FALSE]
  <1>1. base \in Bases /\ Driven(base, {}) /\ base.req[h].timer
    BY DEF Sound, Kept, RequestTimesOut
  <1>2. h \in InFlight(base) /\ s \in Servers
    BY <1>1 DEF Driven
  <1>3. n \in 0..MaxTimeouts /\ MaxTimeouts \in Nat
    BY <1>1, <1>2, PartTypes DEF EvdnsAssumption
  <1>4. base' = IF fired.req[h].tx >= MaxRetransmits
                THEN Finished(Schedule(fired, h, "timeout"), h, net)
                ELSE Transmit(fired, h, net)
    <2>1. blamed = IF late THEN Failed([base EXCEPT !.server[s].timedout = 0], s)
                   ELSE [base EXCEPT !.server[s].timedout = @ + 1]
      <3>1. CASE late
        BY <3>1
      <3>2. CASE ~late
        <4>1. [base EXCEPT !.server[s].timedout = @ + 1] =
                 [base EXCEPT !.server[s].timedout = n + 1]
          BY <1>1, <1>2, BaseTypes
        <4>2. k = n + 1 /\ blamed = z
          BY <3>2
        <4> HIDE DEF n
        <4> QED BY <3>2, <4>1, <4>2
      <3> QED BY <3>1, <3>2
    <2> DEFINE shown == IF late THEN Failed([base EXCEPT !.server[s].timedout = 0], s)
                        ELSE [base EXCEPT !.server[s].timedout = @ + 1]
               over == [shown EXCEPT !.req[h].timer = FALSE]
    <2>2. base' = IF over.req[h].tx >= MaxRetransmits
                  THEN Finished(Schedule(over, h, "timeout"), h, net)
                  ELSE Transmit(over, h, net)
      BY DEF RequestTimesOut
    <2>3. shown = blamed
      BY <2>1
    <2> HIDE DEF shown, blamed
    <2> QED BY <2>2, <2>3
  <1>5. k \in 0..MaxTimeouts
    BY <1>3
  <1> HIDE DEF s, n, k
  <1>6. /\ Sound(z) /\ Live(z) = Live(base) /\ InFlight(z) = InFlight(base)
        /\ z.req = base.req /\ z \in Bases
    BY <1>2, <1>5, TimedoutSet
  <1> HIDE DEF z
  <1>7. Sound(blamed) /\ Live(blamed) = Live(base) /\ InFlight(blamed) = InFlight(base)
    <2>1. CASE late
      <3> DEFINE f == Failed(z, s)
      <3>1. Counted(z)
        BY <1>6 DEF Sound, Kept
      <3>2. f \in Bases /\ Passed(z, f)
        BY <1>2, <1>6, <3>1, FailedPassed
      <3> HIDE DEF f
      <3>3. Sound(f) /\ Live(f) = Live(z) /\ InFlight(f) = InFlight(z)
        BY <1>6, <3>2, PassedSound
      <3> QED BY <1>6, <2>1, <3>3 DEF f
    <2>2. CASE ~late
      BY <1>6, <2>2
    <2> QED BY <2>1, <2>2
  <1> HIDE DEF blamed
  <1>8. /\ blamed \in Bases /\ Kept(blamed, {}) /\ Watched(blamed, {}) /\ Parked(blamed)
        /\ Driven(blamed, {}) /\ h \in InFlight(blamed)
    BY <1>2, <1>7 DEF Sound, Kept
  <1> DEFINE r0 == blamed.req[h]
             r == [r0 EXCEPT !.timer = FALSE]
             q == [blamed.req EXCEPT ![h] = r]
  <1>9. r0 \in Reqs /\ r0.ns \in Servers
    BY <1>8, PartTypes DEF Driven
  <1>10. r \in Reqs /\ r.ns \in Servers /\ r.tx = r0.tx
    <2> HIDE DEF r0
    <2>1. LET x == [r0 EXCEPT !.timer = FALSE]
          IN  x \in Reqs /\ x.ns = r0.ns /\ x.tx = r0.tx
      BY <1>9 DEF Reqs
    <2> QED BY <1>9, <2>1
  <1>11. fired = WithReq(blamed, q)
    BY <1>8, BaseTypes DEF WithReq
  <1> HIDE DEF r
  <1>12. /\ q \in [Handles -> Reqs] /\ \A j \in Handles \ {h} : q[j] = blamed.req[j]
         /\ q[h].ns \in Servers /\ q[h] = r
    <2>1. blamed.req \in [Handles -> Reqs]
      BY <1>8, BaseTypes
    <2> QED BY <1>10, <2>1
  <1> HIDE DEF q, fired
  <1>13. Kept(blamed, {h})
    BY <1>8, KeptLess
  <1>14. /\ Kept(fired, {h}) /\ Sent(blamed, fired) /\ SameQueues(blamed, fired)
    BY <1>8, <1>11, <1>12, <1>13, OneRequest
  <1>15. fired.req = q
    BY <1>8, <1>11, <1>12, WithReqFacts
  <1>16. /\ fired \in Bases /\ InFlight(fired) = InFlight(blamed)
         /\ Asking(fired) = Asking(blamed) /\ Deferred(fired) = Deferred(blamed)
         /\ Live(fired) = Live(blamed) /\ Parked(fired) /\ h \in Asking(fired)
    BY <1>8, <1>14 DEF Kept, SameQueues, Sent, InFlight, Asking, Deferred, Live, Parked
  <1>17. Watched(fired, {})
    <2> DEFINE Z == {}
    <2>1. Watched(blamed, Z) /\ Asking(fired) \ Z = Asking(blamed) \ Z
      BY <1>8, <1>16
    <2> HIDE DEF Z
    <2>2. Watched(fired, Z)
      BY <1>8, <1>14, <1>16, <2>1, SentWatched
    <2> QED BY <2>2 DEF Z
  <1>18. fired.req[h].tx \in Nat /\ MaxRetransmits \in Nat
    <2>1. fired.req[h].tx \in 0..MaxRetransmits /\ MaxRetransmits \in Nat
      BY <1>16, PartTypes DEF EvdnsAssumption
    <2> QED BY <2>1
  <1>19. CASE fired.req[h].tx >= MaxRetransmits
    <2> DEFINE result == "timeout"
               c == Finished(Schedule(fired, h, result), h, net)
    <2>1. base' = c /\ result \in Results \ {"cancel"}
      BY <1>4, <1>19 DEF Results
    <2> HIDE DEF result
    <2>2. Sound(c) /\ Live(c) = Live(fired) \cup {h}
      BY <1>14, <1>16, <1>17, <2>1, ToldFacts
    <2> HIDE DEF c
    <2>3. h \in Live(fired)
      BY <1>16 DEF Live
    <2> QED BY <1>7, <1>16, <2>1, <2>2, <2>3
  <1>20. CASE ~(fired.req[h].tx >= MaxRetransmits)
    <2> DEFINE c == Transmit(fired, h, net)
    <2>1. base' = c /\ fired.req[h].tx < MaxRetransmits /\ h \in InFlight(fired)
      BY <1>4, <1>8, <1>16, <1>18, <1>20
    <2>2. Kept(c, {}) /\ Sent(fired, c) /\ SameQueues(fired, c)
      BY <1>14, <2>1, TransmitFacts
    <2> HIDE DEF c
    <2>3. Sound(c) /\ Live(c) = Live(fired)
      BY <1>16, <1>17, <2>2, QuietSound
    <2> QED BY <1>7, <1>16, <2>1, <2>3
  <1> QED BY <1>19, <1>20

\* nameserver_prod_callback: the server is down, and nothing of it is out.
LEMMA ProbeFacts ==
    ASSUME EvdnsAssumption, Sound(base), NEW s \in Servers, NEW net \in Nets,
           ProbeTimer(s, net)
    PROVE  Sound(base') /\ Live(base') = Live(base) \cup {s}
  <1> DEFINE r0 == base.server[s]
             r == [r0 EXCEPT !.timer = FALSE, !.probing = TRUE]
             b == WithServer(base, [base.server EXCEPT ![s] = r])
             search == NoSearch
             made == NewRequest(b, s, search)
             p == [made.req[s] EXCEPT !.ns = s]
             q == [made.req EXCEPT ![s] = p]
             m == WithReq(made, q)
             Z == {}
             W == {s}
  <1>1. /\ base \in Bases /\ Kept(base, Z) /\ Driven(base, {}) /\ Watched(base, Z)
        /\ Watched(base, {}) /\ Parked(base) /\ r0 \in States /\ s \in Handles
    BY PartTypes, Finite DEF Sound, Kept
  <1>2. r0.timer /\ s \notin Deferred(base)
    BY DEF ProbeTimer
  <1>3. ~r0.up /\ s \notin Asking(base)
    BY <1>1, <1>2 DEF Watched
  <1>4. /\ r \in States /\ r.up = r0.up /\ ~r.timer /\ r.probing
        /\ r.choked = r0.choked /\ r.writing = r0.writing
    <2> HIDE DEF r0
    <2>1. LET x == [r0 EXCEPT !.timer = FALSE]
          IN  /\ x \in States /\ x.up = r0.up /\ x.timer = FALSE
              /\ x.choked = r0.choked /\ x.writing = r0.writing
      BY <1>1 DEF States
    <2> DEFINE x == [r0 EXCEPT !.timer = FALSE]
    <2>2. r = [x EXCEPT !.probing = TRUE]
      OBVIOUS
    <2> HIDE DEF x
    <2>3. LET y == [x EXCEPT !.probing = TRUE]
          IN  /\ y \in States /\ y.up = x.up /\ y.timer = x.timer /\ y.probing = TRUE
              /\ y.choked = x.choked /\ y.writing = x.writing
      BY <2>1 DEF States, x
    <2> QED BY <2>1, <2>2, <2>3 DEF x
  <1>5. [base EXCEPT !.server[s].timer = FALSE, !.server[s].probing = TRUE] = b
    <2>1. base.server \in [Servers -> States] /\ r0 \in States
      BY <1>1, BaseTypes
    <2> QED BY <2>1 DEF WithServer
  <1>6. base' = Submit([made EXCEPT !.req[s].ns = s], s, net)
    BY <1>5 DEF ProbeTimer
  <1>7. /\ r.choked => r.writing
        /\ base.server[s].writing => r.writing
        /\ r.up = base.server[s].up
    BY <1>1, <1>4 DEF Driven
  <1>8. ~base.server[s].up
    BY <1>3
  <1> HIDE DEF r, r0, Z, W
  <1>9. /\ Kept(b, Z) /\ b \in Bases /\ SameQueues(base, b) /\ b.req = base.req
        /\ b.deferred = base.deferred /\ b.server[s] = r
        /\ Asking(b) = Asking(base) /\ Live(b) = Live(base)
        /\ \A t \in Servers : t # s => b.server[t] = base.server[t]
    BY <1>1, <1>4, <1>7, SetServer
  <1> HIDE DEF b
  <1>10. Watched(b, W)
    <2>1. b.server[s].up => ~b.server[s].timer
      BY <1>4, <1>9
    <2>2. Watched(b, Z \cup {s})
      BY <1>1, <1>9, <2>1, OneServer
    <2>3. Z \cup {s} = W
      BY DEF Z, W
    <2> QED BY <2>2, <2>3
  <1>11. /\ ~b.server[s].up /\ ~b.server[s].timer /\ b.server[s].probing
         /\ s \in Handles \ Live(b) /\ Parked(b) /\ Counted(b)
         /\ b.good = Cardinality(Good(b)) /\ Kept(b, {})
    <2>1. s \notin Live(base)
      BY <1>2, <1>3 DEF Live
    <2> QED BY <1>1, <1>4, <1>7, <1>8, <1>9, <2>1
            DEF Parked, SameQueues, Kept, Counted, Z
  <1>12. search \in Searches
    BY DEF Searches
  <1> HIDE DEF search
  <1>13. /\ made \in Bases /\ made.server = b.server /\ made.good = b.good
         /\ made.deferred = b.deferred /\ SameQueues(b, made)
         /\ \A k \in Handles : k # s => made.req[k] = b.req[k]
         /\ made.req[s].tx = 0 /\ ~made.req[s].timer
    BY <1>1, <1>9, <1>11, <1>12, NewRequestFacts
  <1> HIDE DEF made
  <1>14. [made EXCEPT !.req[s].ns = s] = m
    BY <1>1, <1>13, BaseTypes DEF WithReq
  <1>15. p \in Reqs /\ p.ns = s /\ p.tx = 0 /\ ~p.timer
    <2> DEFINE p0 == made.req[s]
    <2>1. p0 \in Reqs
      BY <1>1, <1>13, PartTypes
    <2> HIDE DEF p0
    <2>2. LET x == [p0 EXCEPT !.ns = s]
          IN  x \in Reqs /\ x.ns = s /\ x.tx = p0.tx /\ x.timer = p0.timer
      BY <2>1 DEF Reqs
    <2> QED BY <1>13, <2>2 DEF p0
  <1> HIDE DEF p
  <1>16. q \in [Handles -> Reqs] /\ q[s] = p /\ \A k \in Handles : k # s => q[k] = made.req[k]
    <2>1. made.req \in [Handles -> Reqs]
      BY <1>13, BaseTypes
    <2> QED BY <1>1, <1>15, <2>1
  <1> HIDE DEF q
  <1>17. /\ m \in Bases /\ m.req = q /\ m.server = made.server /\ m.good = made.good
         /\ m.inflight = made.inflight /\ m.waiting = made.waiting
         /\ m.nin = made.nin /\ m.nwait = made.nwait /\ m.deferred = made.deferred
    BY <1>13, <1>16, WithReqFacts
  <1> HIDE DEF m
  <1>18. /\ SameQueues(b, m) /\ m.server = b.server /\ m.good = b.good
         /\ m.deferred = b.deferred /\ \A k \in Handles : k # s => m.req[k] = b.req[k]
         /\ ~m.req[s].timer /\ m.req[s].tx = 0
         /\ m.req[s].ns = 0 => b.nin >= MaxInflight
    <2>1. s # 0
      BY Finite
    <2> QED BY <1>13, <1>15, <1>16, <1>17, <2>1 DEF SameQueues
  <1> DEFINE c == Submit(m, s, net)
  <1>19. Sound(c) /\ Live(c) = Live(b) \cup {s}
    <2>1. Watched(b, {s})
      BY <1>10 DEF W
    <2> QED BY <1>11, <1>17, <1>18, <2>1, RequestedFacts
  <1>20. base' = c
    BY <1>6, <1>14
  <1> HIDE DEF c
  <1> QED BY <1>9, <1>19, <1>20

\* nameserver_ready_callback, writable: when nothing is marked, no request
\* waits for the socket.
LEMMA ReadyFacts ==
    ASSUME EvdnsAssumption, Sound(base), NEW s \in Servers, NEW net \in Nets,
           WriteReady(s, net)
    PROVE  Sound(base') /\ Live(base') = Live(base)
  <1> DEFINE r0 == base.server[s]
             r == [r0 EXCEPT !.choked = FALSE]
             free == WithServer(base, [base.server EXCEPT ![s] = r])
  <1>1. base \in Bases /\ r0 \in States /\ Driven(base, {})
    BY PartTypes DEF Sound, Kept
  <1>2. /\ r \in States /\ r.up = r0.up /\ r.timer = r0.timer /\ r.probing = r0.probing
        /\ ~r.choked /\ r.writing = r0.writing
    <2> HIDE DEF r0
    <2>1. LET x == [r0 EXCEPT !.choked = FALSE]
          IN  /\ x \in States /\ x.up = r0.up /\ x.timer = r0.timer
              /\ x.probing = r0.probing /\ x.choked = FALSE /\ x.writing = r0.writing
      BY <1>1 DEF States
    <2> QED BY <2>1
  <1>3. [base EXCEPT !.server[s].choked = FALSE] = free
    BY <1>1, BaseTypes DEF WithServer
  <1>4. base' = IF \E h \in InFlight(free) : free.req[h].send
                THEN TransmitMarked(free, net)
                ELSE [free EXCEPT !.server[s].writing = FALSE]
    <2> DEFINE shown == [base EXCEPT !.server[s].choked = FALSE]
    <2>1. base' = IF \E h \in InFlight(shown) : shown.req[h].send
                  THEN TransmitMarked(shown, net)
                  ELSE [shown EXCEPT !.server[s].writing = FALSE]
      BY DEF WriteReady
    <2>2. shown = free
      BY <1>3
    <2> HIDE DEF shown, free
    <2> QED BY <2>1, <2>2
  <1>5. (r.choked => r.writing) /\ (base.server[s].writing => r.writing)
    BY <1>2
  <1>6. /\ r.up = base.server[s].up /\ r.timer = base.server[s].timer
        /\ r.probing = base.server[s].probing
    BY <1>2
  <1> HIDE DEF r, r0
  <1>7. /\ Sound(free) /\ Live(free) = Live(base) /\ free.server[s] = r /\ free \in Bases
    BY <1>2, <1>5, <1>6, SameServer
  <1> HIDE DEF free
  <1>8. Kept(free, {}) /\ Watched(free, {}) /\ Parked(free) /\ Driven(free, {}) /\ Counted(free)
    BY <1>7 DEF Sound, Kept
  <1>9. CASE \E h \in InFlight(free) : free.req[h].send
    <2> DEFINE c == TransmitMarked(free, net)
    <2>1. base' = c
      BY <1>4, <1>9
    <2>2. Kept(c, {}) /\ Sent(free, c) /\ SameQueues(free, c)
      BY <1>8, TransmitMarkedFacts
    <2> HIDE DEF c
    <2>3. Sound(c) /\ Live(c) = Live(free)
      BY <1>7, <1>8, <2>2, QuietSound
    <2> QED BY <1>7, <2>1, <2>3
  <1>10. CASE ~ \E h \in InFlight(free) : free.req[h].send
    <2> DEFINE q == [r EXCEPT !.writing = FALSE]
               v == [free.server EXCEPT ![s] = q]
               c == WithServer(free, v)
    <2>1. /\ q \in States /\ q.up = r.up /\ q.timer = r.timer /\ q.probing = r.probing
          /\ ~q.choked
      BY <1>2 DEF States
    <2>2. [free EXCEPT !.server[s].writing = FALSE] = c
      BY <1>7, BaseTypes DEF WithServer
    <2>3. base' = c
      BY <1>4, <1>10, <2>2
    <2> HIDE DEF q
    <2>4. v \in [Servers -> States] /\ v[s] = q /\ \A t \in Servers : t # s => v[t] = free.server[t]
      <3>1. free.server \in [Servers -> States]
        BY <1>7, BaseTypes
      <3> QED BY <2>1, <3>1
    <2> HIDE DEF v
    <2>5. /\ c \in Bases /\ c.server = v /\ c.req = free.req /\ c.good = free.good
          /\ c.deferred = free.deferred /\ SameQueues(free, c)
      BY <1>7, <2>4, WithServerFacts DEF SameQueues
    <2> HIDE DEF c
    <2>6. Sent(free, c)
      BY <1>7, <2>1, <2>4, <2>5 DEF Sent
    <2>7. Counted(c)
      <3>1. Good(c) = Good(free)
        BY <1>7, <2>1, <2>4, <2>5 DEF Good
      <3> QED BY <1>8, <2>5, <3>1 DEF Counted, SameQueues, InFlight
    <2>8. Driven(c, {})
      <3>1. InFlight(c) = InFlight(free)
        BY <2>5 DEF InFlight, SameQueues
      <3>2. \A h \in InFlight(free) : ~free.req[h].send
        BY <1>10
      <3>3. \A t \in Servers : c.server[t].choked => c.server[t].writing
        BY <1>8, <2>1, <2>4, <2>5 DEF Driven
      <3> QED BY <1>8, <2>5, <3>1, <3>2, <3>3 DEF Driven
    <2>9. Sound(c) /\ Live(c) = Live(free)
      BY <1>7, <1>8, <2>5, <2>6, <2>7, <2>8, QuietSound DEF Kept
    <2> QED BY <1>7, <2>3, <2>9
  <1> QED BY <1>9, <1>10

\* nameserver_ready_callback, readable, when a reply is there.
LEMMA ReplyFacts ==
    ASSUME EvdnsAssumption, Sound(base), NEW s \in Servers, NEW h \in Handles,
           NEW code \in Codes, NEW net \in Nets, Reply(s, h, code, net)
    PROVE  Sound(base') /\ Live(base') = Live(base)
  <1> DEFINE n == 0
             b == [base EXCEPT !.server[s].timedout = n]
             c == Handled(b, h, code, net)
  <1>1. h \in InFlight(base) /\ base' = c
    BY DEF Reply
  <1>2. n \in 0..MaxTimeouts
    BY DEF EvdnsAssumption
  <1> HIDE DEF n
  <1>3. Sound(b) /\ Live(b) = Live(base) /\ InFlight(b) = InFlight(base)
    BY <1>2, TimedoutSet
  <1> HIDE DEF b
  <1>4. Sound(c) /\ Live(c) = Live(b)
    BY <1>1, <1>3, HandledFacts
  <1> HIDE DEF c
  <1> QED BY <1>1, <1>3, <1>4

\* The same, when the socket reports an error.
LEMMA ReadFailsFacts ==
    ASSUME EvdnsAssumption, Sound(base), NEW s \in Servers, ReadFails(s)
    PROVE  Sound(base') /\ Live(base') = Live(base)
  <1> DEFINE c == Failed(base, s)
  <1>1. base' = c /\ base \in Bases /\ Counted(base)
    BY DEF ReadFails, Sound, Kept
  <1>2. c \in Bases /\ Passed(base, c)
    BY <1>1, FailedPassed
  <1> HIDE DEF c
  <1>3. Sound(c) /\ Live(c) = Live(base)
    BY <1>2, PassedSound
  <1> QED BY <1>1, <1>3

\* reply_run_callback, for a probe.
LEMMA RunProbeFacts ==
    ASSUME EvdnsAssumption, Sound(base), NEW net \in Nets, RunProbe(net)
    PROVE  Sound(base') /\ \E s \in Servers : Live(base') = Live(base) \ {s}
  <1> DEFINE s == FirstDeferred.handle
             result == FirstDeferred.result
             b == DropDeferred(base)
             c == Probed(b, s, result, net)
  <1>1. base' = c /\ s \in Servers /\ base.deferred # << >>
    BY DEF RunProbe
  <1>2. /\ result \in Results /\ Kept(b, {}) /\ Watched(b, {s}) /\ Parked(b)
        /\ Live(b) = Live(base) \ {s} /\ b.server = base.server
        /\ s \in Servers /\ result = "cancel" => base.server[s].up \/ base.server[s].timer
    <2>1. LET f == Head(base.deferred)
          IN  /\ f.handle \in Handles /\ f.result \in Results
              /\ Kept(b, {}) /\ Watched(b, {f.handle}) /\ Parked(b)
              /\ Live(b) = Live(base) \ {f.handle} /\ b.server = base.server
              /\ f.handle \in Servers /\ f.result = "cancel" =>
                    base.server[f.handle].up \/ base.server[f.handle].timer
      <3> HIDE DEF b
      <3> QED BY <1>1, DropFacts DEF b
    <2> HIDE DEF b
    <2> QED BY <2>1 DEF FirstDeferred
  <1> HIDE DEF s, result, b
  <1>3. s \notin Live(b) /\ (result = "cancel" => b.server[s].up \/ b.server[s].timer)
    BY <1>1, <1>2
  <1>4. Sound(c) /\ Live(c) = Live(b)
    BY <1>1, <1>2, <1>3, ProbedFacts
  <1> HIDE DEF c
  <1> QED BY <1>1, <1>2, <1>4

\* Whatever the event loop does with the resolver leaves it sound, and each
\* client where it was.
LEMMA ResolverFacts ==
    ASSUME EvdnsAssumption, Sound(base), NEW net \in Nets, ResolverSteps(net)
    PROVE  Sound(base') /\ \A c \in Clients : c \in Live(base') <=> c \in Live(base)
  <1>1. \A c \in Clients : c \notin Servers
    BY DEF EvdnsAssumption
  <1>2. CASE \E h \in Handles : RequestTimesOut(h, net)
    BY <1>2, TimesOutFacts
  <1>3. CASE \E s \in Servers : ProbeTimer(s, net)
    <2>1. PICK s \in Servers : ProbeTimer(s, net)
      BY <1>3
    <2>2. Sound(base') /\ Live(base') = Live(base) \cup {s}
      BY <2>1, ProbeFacts
    <2> QED BY <1>1, <2>2
  <1>4. CASE \E s \in Servers : WriteReady(s, net)
    BY <1>4, ReadyFacts
  <1>5. CASE \E s \in Servers, h \in Handles, c \in Codes : Reply(s, h, c, net)
    <2>1. PICK s \in Servers, h \in Handles, c \in Codes : Reply(s, h, c, net)
      BY <1>5
    <2>2. Sound(base') /\ Live(base') = Live(base)
      BY <2>1, ReplyFacts
    <2> QED BY <2>2
  <1>6. CASE \E s \in Servers : ReadFails(s)
    BY <1>6, ReadFailsFacts
  <1>7. CASE RunProbe(net)
    <2>1. Sound(base') /\ \E s \in Servers : Live(base') = Live(base) \ {s}
      BY <1>7, RunProbeFacts
    <2> QED BY <1>1, <2>1
  <1> QED BY <1>2, <1>3, <1>4, <1>5, <1>6, <1>7 DEF ResolverSteps

-----------------------------------------------------------------------------
(* The cache on top of the resolver.                                        *)

\* evdns_base_new: every server is up, and nothing is asked.
LEMMA InitSound ==
    ASSUME EvdnsAssumption
    PROVE  /\ Sound(EmptyBase)
           /\ \A h : h \notin Live(EmptyBase)
  <1> DEFINE b == EmptyBase
  <1>1. /\ b.server = [s \in Servers |-> GoodServer] /\ b.head = 1 /\ b.good = N
        /\ b.req = [h \in Handles |-> NoRequest] /\ b.inflight = << >>
        /\ b.waiting = << >> /\ b.nin = 0 /\ b.nwait = 0 /\ b.deferred = << >>
        /\ b.dead = FALSE /\ Shaped(b)
    BY DEF EmptyBase, Shaped
  <1>2. /\ N \in Nat \ {0} /\ MaxRetransmits \in Nat \ {0} /\ MaxReissues \in Nat
        /\ MaxTimeouts \in Nat /\ Domains \in Nat
    BY DEF EvdnsAssumption
  <1>3. NoRequest \in Reqs /\ NoRequest.tx = 0 /\ ~NoRequest.timer
    BY <1>2 DEF NoRequest, Reqs
  <1>4. GoodServer \in States /\ GoodServer.up /\ ~GoodServer.timer /\ ~GoodServer.choked
    BY <1>2 DEF GoodServer, States
  <1>5. 1 \in Servers
    BY <1>2 DEF Servers
  <1> HIDE DEF b
  <1>6. b \in Bases
    <2>1. b.server \in [Servers -> States] /\ b.req \in [Handles -> Reqs]
      BY <1>1, <1>3, <1>4
    <2>2. b.inflight \in Seq(Handles) /\ b.waiting \in Seq(Handles) /\ b.deferred \in Seq(Calls)
      BY <1>1
    <2>3. b.head \in Servers /\ b.good \in Nat /\ b.nin \in Nat /\ b.nwait \in Nat
      BY <1>1, <1>2, <1>5
    <2>4. b.dead \in BOOLEAN
      BY <1>1
    <2> QED BY <1>1, <2>1, <2>2, <2>3, <2>4, BaseOf
  <1>7. /\ InFlight(b) = {} /\ ToSet(b.waiting) = {} /\ Asking(b) = {} /\ Deferred(b) = {}
        /\ DOMAIN b.deferred = {}
    BY <1>1 DEF InFlight, Asking, Deferred, ToSet
  <1>8. Counted(b)
    <2>1. Good(b) = 1..N
      BY <1>1, <1>4 DEF Good, Servers
    <2>2. Cardinality(1..N) = N
      <3>1. 1 \in Int /\ N \in Int
        BY <1>2
      <3>2. Cardinality(1..N) = IF 1 > N THEN 0 ELSE N - 1 + 1
        BY <3>1, FS_Interval
      <3> QED BY <1>2, <3>2
    <2>3. IsInjective(b.inflight) /\ IsInjective(b.waiting)
      BY <1>1 DEF IsInjective
    <2>4. b.nin = Len(b.inflight) /\ b.nwait = Len(b.waiting)
      BY <1>1
    <2> QED BY <1>1, <1>7, <2>1, <2>2, <2>3, <2>4 DEF Counted
  <1>9. Driven(b, {})
    BY <1>1, <1>3, <1>4, <1>7 DEF Driven
  <1>10. Watched(b, {})
    BY <1>1, <1>4, <1>7 DEF Watched
  <1>11. Parked(b)
    BY <1>1 DEF Parked
  <1> QED BY <1>6, <1>7, <1>8, <1>9, <1>10, <1>11 DEF Sound, Kept, Live, b

\* The invariant holds at the start, when the cache is empty.
LEMMA InitInv ==
    ASSUME EvdnsAssumption, Init
    PROVE  DnsInv
  <1>1. /\ base = EmptyBase /\ acs = None
        /\ tree = [h \in Hosts \cup Numerics |-> None]
        /\ entry = [c \in Clients |-> Unused]
    BY DEF Init
  <1>2. Sound(base) /\ \A h : h \notin Live(base)
    BY <1>1, InitSound
  <1>3. \A c \in Clients : c \notin Named /\ ~entry[c].timer
    BY <1>1 DEF Named, InUse, Unused
  <1>4. entry \in [Clients -> [host : Hosts \cup Numerics \cup {None},
                               address : BOOLEAN, timer : BOOLEAN]]
    BY <1>1 DEF Unused
  <1> QED BY <1>1, <1>2, <1>3, <1>4 DEF DnsInv, Refreshed

\* evcpe_dns_add: the new entry had no request and no callback.
LEMMA AcsUrlSetKeeps ==
    ASSUME EvdnsAssumption, DnsCacheAssumption, DnsInv,
           NEW host \in Hosts \cup Numerics, NEW net \in Nets, AcsUrlSet(host, net)
    PROVE  DnsInv'
  <1>1. PICK c \in Clients \ InUse :
           /\ acs' = host
           /\ tree' = [tree EXCEPT ![host] = IF @ = None THEN c ELSE @]
           /\ entry' = [entry EXCEPT ![c] =
                 [host |-> host, timer |-> FALSE, address |-> host \in Numerics]]
           /\ base' = IF host \in Numerics THEN base ELSE Resolved(base, c, net)
    BY DEF AcsUrlSet
  <1>2. Sound(base) /\ Refreshed /\ c \in Clients
    BY DEF DnsInv
  <1> DEFINE e == [host |-> host, timer |-> FALSE, address |-> host \in Numerics]
  <1>3. e \in [host : Hosts \cup Numerics \cup {None}, address : BOOLEAN, timer : BOOLEAN]
        /\ e.host = host /\ e.timer = FALSE
    OBVIOUS
  <1>4. host # None /\ (host \in Hosts <=> host \notin Numerics)
    BY DEF DnsCacheAssumption
  <1>5. c \notin Live(base) /\ ~entry[c].timer
    BY <1>2 DEF Refreshed, Named
  <1> HIDE DEF e
  <1>6. /\ entry' \in [Clients -> [host : Hosts \cup Numerics \cup {None},
                                   address : BOOLEAN, timer : BOOLEAN]]
        /\ entry'[c] = e /\ \A d \in Clients : d # c => entry'[d] = entry[d]
    <2>1. entry' = [entry EXCEPT ![c] = e]
      BY <1>1 DEF e
    <2> QED BY <1>2, <1>3, <2>1 DEF Refreshed
  <1>7. tree' \in [Hosts \cup Numerics -> Clients \cup {None}]
    BY <1>1, <1>2 DEF Refreshed
  <1>8. Sound(base') /\ Live(base') = IF host \in Hosts THEN Live(base) \cup {c} ELSE Live(base)
    <2>1. CASE host \in Numerics
      BY <1>1, <1>2, <1>4, <2>1
    <2>2. CASE host \notin Numerics
      <3> DEFINE b == Resolved(base, c, net)
      <3>1. base' = b /\ c \in Clients \ Live(base)
        BY <1>1, <1>5, <2>2
      <3>2. Sound(b) /\ Live(b) = Live(base) \cup {c}
        BY <1>2, <3>1, ResolvedFacts
      <3> HIDE DEF b
      <3> QED BY <1>4, <2>2, <3>1, <3>2
    <2> QED BY <2>1, <2>2
  <1>9. ASSUME NEW d \in Clients
        PROVE  /\ (d \in Named)' <=> entry'[d].timer \/ d \in Live(base')
               /\ entry'[d].timer => d \notin Live(base')
    <2>1. CASE d = c
      BY <1>3, <1>4, <1>5, <1>6, <1>8, <2>1 DEF Named, InUse
    <2>2. CASE d # c
      <3>1. entry'[d] = entry[d] /\ (d \in Live(base') <=> d \in Live(base))
        BY <1>6, <1>8, <2>2
      <3>2. /\ d \in Named <=> entry[d].timer \/ d \in Live(base)
            /\ entry[d].timer => d \notin Live(base)
        BY <1>2 DEF Refreshed
      <3> QED BY <3>1, <3>2 DEF Named, InUse
    <2> QED BY <2>1, <2>2
  <1>10. acs' \in Hosts \cup Numerics \cup {None}
    BY <1>1
  <1> QED BY <1>6, <1>7, <1>8, <1>9, <1>10 DEF DnsInv, Refreshed

\* What the steps of an entry have in common.
LEMMA EntryKeeps ==
    ASSUME Refreshed, Sound(base'), NEW c \in Clients, c \in Named,
           NEW e \in [host : Hosts \cup Numerics \cup {None},
                      address : BOOLEAN, timer : BOOLEAN],
           entry' = [entry EXCEPT ![c] = e], e.host = entry[c].host,
           e.timer # (c \in Live(base')), e.timer \in BOOLEAN,
           \A d \in Clients : d # c => (d \in Live(base') <=> d \in Live(base)),
           UNCHANGED <<tree, acs>>
    PROVE  DnsInv'
  <1>1. /\ entry' \in [Clients -> [host : Hosts \cup Numerics \cup {None},
                                   address : BOOLEAN, timer : BOOLEAN]]
        /\ entry'[c] = e /\ \A d \in Clients : d # c => entry'[d] = entry[d]
    BY DEF Refreshed
  <1>2. \A d \in Clients : entry'[d].host = entry[d].host
    BY <1>1
  <1>3. \A d \in Clients : (d \in Named)' <=> d \in Named
    BY <1>2 DEF Named, InUse
  <1>4. ASSUME NEW d \in Clients
        PROVE  /\ (d \in Named)' <=> entry'[d].timer \/ d \in Live(base')
               /\ entry'[d].timer => d \notin Live(base')
    <2>1. CASE d = c
      BY <1>1, <1>3, <2>1
    <2>2. CASE d # c
      <3>1. /\ d \in Named <=> entry[d].timer \/ d \in Live(base)
            /\ entry[d].timer => d \notin Live(base)
        BY DEF Refreshed
      <3> QED BY <1>1, <1>3, <2>2, <3>1
    <2> QED BY <2>1, <2>2
  <1>5. /\ tree' \in [Hosts \cup Numerics -> Clients \cup {None}]
        /\ acs' \in Hosts \cup Numerics \cup {None}
    BY DEF Refreshed
  <1> QED BY <1>1, <1>4, <1>5 DEF DnsInv, Refreshed

\* evcpe_dns_timer_cb: the timer gives way to a resolution.
LEMMA EntryTimerKeeps ==
    ASSUME EvdnsAssumption, DnsInv, NEW c \in Clients, NEW net \in Nets, EntryTimer(c, net)
    PROVE  DnsInv'
  <1> DEFINE b == Resolved(base, c, net)
             e0 == entry[c]
             e == [e0 EXCEPT !.timer = FALSE]
  <1>1. Sound(base) /\ Refreshed
    BY DEF DnsInv
  <1>2. base' = b /\ entry[c].timer /\ UNCHANGED <<tree, acs>>
    BY DEF EntryTimer
  <1>3. c \in Named /\ c \in Clients \ Live(base)
    BY <1>1, <1>2 DEF Refreshed
  <1>4. Sound(b) /\ Live(b) = Live(base) \cup {c}
    BY <1>1, <1>3, ResolvedFacts
  <1>5. e0 \in [host : Hosts \cup Numerics \cup {None}, address : BOOLEAN, timer : BOOLEAN]
    BY <1>1 DEF Refreshed
  <1>6. entry' = [entry EXCEPT ![c] = e]
    BY <1>1 DEF EntryTimer, Refreshed
  <1> HIDE DEF b, e0
  <1>7. /\ e \in [host : Hosts \cup Numerics \cup {None}, address : BOOLEAN, timer : BOOLEAN]
        /\ e.host = e0.host /\ e.timer = FALSE
    BY <1>5
  <1> HIDE DEF e
  <1>8. /\ Sound(base') /\ e.host = entry[c].host /\ e.timer \in BOOLEAN
        /\ e.timer # (c \in Live(base'))
        /\ \A d \in Clients : d # c => (d \in Live(base') <=> d \in Live(base))
    BY <1>2, <1>4, <1>7 DEF e0
  <1> QED BY <1>1, <1>2, <1>3, <1>6, <1>7, <1>8, EntryKeeps

\* evcpe_dns_cb: the callback gives way to the timer.
LEMMA EntryCallbackKeeps ==
    ASSUME EvdnsAssumption, DnsInv, NEW c \in Clients, EntryCallback(c)
    PROVE  DnsInv'
  <1> DEFINE b == DropDeferred(base)
             e0 == entry[c]
             a == e0.address \/ FirstDeferred.result = "ok"
             e == [[e0 EXCEPT !.timer = TRUE] EXCEPT !.address = a]
  <1>1. Sound(base) /\ Refreshed /\ c \notin Servers
    BY DEF DnsInv, EvdnsAssumption
  <1>2. /\ base' = b /\ base.deferred # << >> /\ FirstDeferred.handle = c
        /\ UNCHANGED <<tree, acs>>
    BY DEF EntryCallback
  <1>3. Sound(b) /\ c \in Live(base) /\ Live(b) = Live(base) \ {c}
    <2>1. LET f == Head(base.deferred)
          IN  /\ f.handle \in Live(base) /\ Live(b) = Live(base) \ {f.handle}
              /\ f.handle \notin Servers => Sound(b)
      <3> HIDE DEF b
      <3> QED BY <1>1, <1>2, DropFacts DEF b
    <2> HIDE DEF b
    <2> QED BY <1>1, <1>2, <2>1 DEF FirstDeferred
  <1>4. c \in Named
    BY <1>1, <1>3 DEF Refreshed
  <1>5. e0 \in [host : Hosts \cup Numerics \cup {None}, address : BOOLEAN, timer : BOOLEAN]
    BY <1>1 DEF Refreshed
  <1>6. entry' = [entry EXCEPT ![c] = e]
    <2>1. entry' = [entry EXCEPT ![c].timer = TRUE,
                                 ![c].address = @ \/ FirstDeferred.result = "ok"]
      BY DEF EntryCallback
    <2> HIDE DEF b
    <2> QED BY <1>1, <1>5, <2>1 DEF Refreshed
  <1> HIDE DEF b, e0
  <1>7. a \in BOOLEAN
    OBVIOUS
  <1> HIDE DEF a
  <1>8. /\ e \in [host : Hosts \cup Numerics \cup {None}, address : BOOLEAN, timer : BOOLEAN]
        /\ e.host = e0.host /\ e.timer = TRUE
    BY <1>5, <1>7
  <1> HIDE DEF e
  <1>9. /\ Sound(base') /\ e.host = entry[c].host /\ e.timer \in BOOLEAN
        /\ e.timer # (c \in Live(base'))
        /\ \A d \in Clients : d # c => (d \in Live(base') <=> d \in Live(base))
    BY <1>2, <1>3, <1>8 DEF e0
  <1> QED BY <1>1, <1>2, <1>4, <1>6, <1>8, <1>9, EntryKeeps

\* evcpe_dns_cache_get only fills in an address.
LEMMA GetKeeps ==
    ASSUME DnsInv, Get
    PROVE  DnsInv'
  <1> DEFINE k == tree[acs]
  <1>1. Sound(base) /\ Refreshed /\ base' = base /\ tree' = tree /\ acs' = acs
        /\ entry' = [entry EXCEPT ![k].address = TRUE]
    BY DEF DnsInv, Get
  <1> HIDE DEF k
  <1>2. /\ entry' \in [Clients -> [host : Hosts \cup Numerics \cup {None},
                                   address : BOOLEAN, timer : BOOLEAN]]
        /\ \A d \in Clients : entry'[d].host = entry[d].host /\ entry'[d].timer = entry[d].timer
    <2>1. entry \in [Clients -> [host : Hosts \cup Numerics \cup {None},
                                 address : BOOLEAN, timer : BOOLEAN]]
      BY <1>1 DEF Refreshed
    <2>2. CASE k \in Clients
      <3> DEFINE e0 == entry[k]
                 e == [e0 EXCEPT !.address = TRUE]
      <3>1. entry' = [entry EXCEPT ![k] = e]
        BY <1>1, <2>1, <2>2
      <3>2. e0 \in [host : Hosts \cup Numerics \cup {None}, address : BOOLEAN, timer : BOOLEAN]
        BY <2>1, <2>2
      <3> HIDE DEF e0
      <3>3. e \in [host : Hosts \cup Numerics \cup {None}, address : BOOLEAN, timer : BOOLEAN]
            /\ e.host = e0.host /\ e.timer = e0.timer
        BY <3>2
      <3> HIDE DEF e
      <3> QED BY <2>1, <2>2, <3>1, <3>3 DEF e0
    <2>3. CASE k \notin Clients
      <3>1. entry' = entry
        BY <1>1, <2>1, <2>3
      <3> QED BY <2>1, <3>1
    <2> QED BY <2>2, <2>3
  <1>3. Named' = Named
    BY <1>2 DEF Named, InUse
  <1> QED BY <1>1, <1>2, <1>3 DEF DnsInv, Refreshed

\* Every step keeps the invariant.
LEMMA NextKeeps ==
    ASSUME EvdnsAssumption, DnsCacheAssumption, DnsInv, [Next]_vars
    PROVE  DnsInv'
  <1>1. CASE \E host \in Hosts \cup Numerics, net \in Nets : AcsUrlSet(host, net)
    BY <1>1, AcsUrlSetKeeps
  <1>2. CASE \E c \in Clients, net \in Nets : EntryTimer(c, net)
    BY <1>2, EntryTimerKeeps
  <1>3. CASE \E c \in Clients : EntryCallback(c)
    BY <1>3, EntryCallbackKeeps
  <1>4. CASE Get
    BY <1>4, GetKeeps
  <1>5. CASE Resolver
    <2>1. PICK net \in Nets : ResolverSteps(net) /\ UNCHANGED <<tree, entry, acs>>
      BY <1>5 DEF Resolver
    <2>2. Sound(base') /\ \A c \in Clients : c \in Live(base') <=> c \in Live(base)
      BY <2>1, ResolverFacts DEF DnsInv
    <2>3. Named' = Named
      BY <2>1 DEF Named, InUse
    <2> QED BY <2>1, <2>2, <2>3 DEF DnsInv, Refreshed
  <1>6. CASE UNCHANGED vars
    <2>1. base' = base /\ tree' = tree /\ entry' = entry /\ acs' = acs
      BY <1>6 DEF vars
    <2>2. Named' = Named
      BY <2>1 DEF Named, InUse
    <2> QED BY <2>1, <2>2 DEF DnsInv, Refreshed
  <1> QED BY <1>1, <1>2, <1>3, <1>4, <1>5, <1>6 DEF Next

-----------------------------------------------------------------------------
(* What the invariant means.                                                *)

\* The counters and the types.
LEMMA InvConsistent ==
    ASSUME EvdnsAssumption, DnsInv
    PROVE  Consistent
  <1>1. /\ base \in Bases /\ Counted(base) /\ Refreshed
    BY DEF DnsInv, Sound, Kept
  <1>2. TypeOK
    <2>1. /\ base.server \in [Servers -> States] /\ base.head \in Servers
          /\ base.req \in [Handles -> Reqs]
      BY <1>1, BaseTypes
    <2>2. /\ tree \in [Hosts \cup Numerics -> Clients \cup {None}]
          /\ entry \in [Clients -> [host : Hosts \cup Numerics \cup {None},
                                    address : BOOLEAN, timer : BOOLEAN]]
      BY <1>1 DEF Refreshed
    <2> QED BY <2>1, <2>2 DEF TypeOK, States, Reqs
  <1>3. IsInjective(base.inflight \o base.waiting)
    <2> DEFINE p == base.inflight
               q == base.waiting
               m == Len(p)
               n == Len(q)
    <2>1. p \in Seq(Handles) /\ q \in Seq(Handles) /\ m \in Nat /\ n \in Nat
      BY <1>1, BaseTypes
    <2>2. DOMAIN p = 1..m /\ DOMAIN q = 1..n
      BY <2>1
    <2>3. \A i, j \in 1..m : p[i] = p[j] => i = j
      BY <1>1, <2>2 DEF Counted, IsInjective
    <2>4. \A i, j \in 1..n : q[i] = q[j] => i = j
      BY <1>1, <2>2 DEF Counted, IsInjective
    <2>5. \A i \in 1..m, j \in 1..n : p[i] # q[j]
      <3>1. \A i \in 1..m : p[i] \in InFlight(base)
        BY <2>2 DEF InFlight, ToSet
      <3>2. \A j \in 1..n : q[j] \in ToSet(base.waiting)
        BY <2>2 DEF ToSet
      <3> QED BY <1>1, <3>1, <3>2 DEF Counted
    <2> HIDE DEF p, q
    <2>6. /\ p \o q \in Seq(Handles) /\ Len(p \o q) = m + n
          /\ \A i \in 1..(m + n) : (p \o q)[i] = IF i <= m THEN p[i] ELSE q[i - m]
      BY <2>1, ConcatProperties
    <2>7. DOMAIN (p \o q) = 1..(m + n)
      BY <2>6
    <2> HIDE DEF m, n
    <2>8. ASSUME NEW i \in 1..(m + n), NEW j \in 1..(m + n),
                 (p \o q)[i] = (p \o q)[j]
          PROVE  i = j
      <3>1. CASE i <= m /\ j <= m
        BY <2>1, <2>3, <2>6, <2>8, <3>1
      <3>2. CASE i <= m /\ ~(j <= m)
        <4>1. i \in 1..m /\ j - m \in 1..n
          BY <2>1, <3>2
        <4>2. p[i] = q[j - m]
          BY <2>6, <2>8, <3>2
        <4> QED BY <2>5, <4>1, <4>2
      <3>3. CASE ~(i <= m) /\ j <= m
        <4>1. j \in 1..m /\ i - m \in 1..n
          BY <2>1, <3>3
        <4>2. p[j] = q[i - m]
          BY <2>6, <2>8, <3>3
        <4> QED BY <2>5, <4>1, <4>2
      <3>4. CASE ~(i <= m) /\ ~(j <= m)
        <4>1. i - m \in 1..n /\ j - m \in 1..n
          BY <2>1, <3>4
        <4>2. q[i - m] = q[j - m]
          BY <2>6, <2>8, <3>4
        <4>3. i - m = j - m
          BY <2>4, <4>1, <4>2
        <4> QED BY <2>1, <4>3
      <3> QED BY <3>1, <3>2, <3>3, <3>4
    <2> QED BY <2>7, <2>8 DEF IsInjective, p, q
  <1>4. CountersAgree
    BY <1>1, <1>3 DEF CountersAgree, Counted, Good
  <1> QED BY <1>2, <1>4 DEF Consistent

\* The probes.
LEMMA InvProbed ==
    ASSUME DnsInv
    PROVE  DownServerIsProbed
  <1>1. Watched(base, {})
    BY DEF DnsInv, Sound
  <1> QED BY <1>1 DEF Watched, DownServerIsProbed

\* The requests in flight.
LEMMA InvDriven ==
    ASSUME EvdnsAssumption, MaxInflight > 1, DnsInv
    PROVE  RequestIsDriven
  <1>1. base \in Bases /\ Driven(base, {}) /\ Counted(base) /\ Parked(base)
    BY DEF DnsInv, Sound, Kept
  <1>2. \A h \in InFlight(base) :
           base.req[h].timer \/ (base.req[h].send /\ \E s \in Servers : base.server[s].writing)
    BY <1>1 DEF Driven
  <1>3. base.nwait > 0 => base.nin > 0
    <2> SUFFICES ASSUME base.nwait > 0 PROVE base.nin > 0
      OBVIOUS
    <2>1. base.waiting # << >>
      BY <1>1 DEF Counted
    <2>2. base.nin >= MaxInflight - 1 /\ base.nin \in Nat /\ MaxInflight \in Nat
      BY <1>1, <2>1, BaseTypes DEF Parked, EvdnsAssumption
    <2> QED BY <2>2
  <1> QED BY <1>2, <1>3 DEF RequestIsDriven

\* The entries.
LEMMA InvOneRefresh ==
    ASSUME DnsInv
    PROVE  OneRefresh
  <1> SUFFICES ASSUME NEW c \in Named
               PROVE  Cardinality({i \in DOMAIN base.deferred : base.deferred[i].handle = c})
                      + (IF c \in Asking(base) THEN 1 ELSE 0)
                      + (IF entry[c].timer THEN 1 ELSE 0) = 1
    BY DEF OneRefresh
  <1> DEFINE D == {i \in DOMAIN base.deferred : base.deferred[i].handle = c}
  <1>1. /\ Watched(base, {}) /\ c \in Clients /\ entry[c].timer \in BOOLEAN
        /\ entry[c].timer \/ c \in Live(base)
        /\ entry[c].timer => c \notin Live(base)
    BY DEF DnsInv, Sound, Refreshed, Named, InUse
  <1>2. c \in Asking(base) => c \notin Deferred(base)
    BY <1>1 DEF Watched
  <1>3. c \in Live(base) <=> c \in Asking(base) \/ c \in Deferred(base)
    BY DEF Live
  <1>4. c \notin Deferred(base) => Cardinality(D) = 0
    <2>1. c \notin Deferred(base) => D = {}
      BY DEF Deferred
    <2> QED BY <2>1, FS_EmptySet
  <1>5. c \in Deferred(base) => Cardinality(D) = 1
    <2> SUFFICES ASSUME c \in Deferred(base) PROVE Cardinality(D) = 1
      OBVIOUS
    <2>1. PICK i \in DOMAIN base.deferred : base.deferred[i].handle = c
      BY DEF Deferred
    <2>2. D = {i}
      BY <1>1, <2>1 DEF Watched
    <2> QED BY <2>2, FS_Singleton
  <1> HIDE DEF D
  <1> DEFINE n == Cardinality(D)
             a == IF c \in Asking(base) THEN 1 ELSE 0
             e == IF entry[c].timer THEN 1 ELSE 0
  <1>6. n + a + e = 1
    <2>1. CASE entry[c].timer
      <3>1. n = 0 /\ a = 0 /\ e = 1
        BY <1>1, <1>3, <1>4, <2>1
      <3> HIDE DEF n, a, e
      <3> QED BY <3>1
    <2>2. CASE ~entry[c].timer /\ c \in Asking(base)
      <3>1. n = 0 /\ a = 1 /\ e = 0
        BY <1>2, <1>4, <2>2
      <3> HIDE DEF n, a, e
      <3> QED BY <3>1
    <2>3. CASE ~entry[c].timer /\ c \notin Asking(base)
      <3>1. n = 1 /\ a = 0 /\ e = 0
        BY <1>1, <1>3, <1>5, <2>3
      <3> HIDE DEF n, a, e
      <3> QED BY <3>1
    <2> QED BY <2>1, <2>2, <2>3
  <1> QED BY <1>6 DEF D

-----------------------------------------------------------------------------
\* The invariant holds in every state.
THEOREM DnsInvariant == Spec => []DnsInv
  <1>1. Init => DnsInv
    BY InitInv, EvdnsAssumption
  <1>2. DnsInv /\ [Next]_vars => DnsInv'
    BY NextKeeps, EvdnsAssumption, DnsCacheAssumption
  <1> QED BY <1>1, <1>2, PTL DEF Spec

\* The resolver's counters are what its queues and servers say, however a
\* request is issued, parked, retried, finished or cancelled.
THEOREM CountersAreKept == Spec => []Consistent
  <1>1. DnsInv => Consistent
    BY InvConsistent, EvdnsAssumption
  <1> QED BY <1>1, DnsInvariant, PTL

\* A server that is down comes to be probed, by one of its timer, its probe
\* and its probe's callback.
THEOREM ProbesGoOn == Spec => []DownServerIsProbed
  <1>1. DnsInv => DownServerIsProbed
    BY InvProbed
  <1> QED BY <1>1, DnsInvariant, PTL

\* No request in flight is forgotten, and none waits for nothing.  With room
\* for one request only, search_try_next, which makes the next before the last
\* has left, parks it with nothing in flight.
THEOREM RequestsAreDriven ==
    ASSUME MaxInflight > 1
    PROVE  Spec => []RequestIsDriven
  <1>1. DnsInv => RequestIsDriven
    BY InvDriven, EvdnsAssumption
  <1> QED BY <1>1, DnsInvariant, PTL

\* Each entry of the cache has one of resolution, callback and timer.
THEOREM RefreshIsOne == Spec => []OneRefresh
  <1>1. DnsInv => OneRefresh
    BY InvOneRefresh
  <1> QED BY <1>1, DnsInvariant, PTL
=============================================================================
