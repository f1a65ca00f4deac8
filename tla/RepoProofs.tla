----------------------------- MODULE RepoProofs -----------------------------
(***************************************************************************)
(* Proofs about Repo: the counter of the list is right and the marks agree *)
(* with the instances, for any limit, any values and any number of calls.  *)
(***************************************************************************)
EXTENDS Repo, TLAPS, FiniteSetTheorems, WellFoundedInduction

-----------------------------------------------------------------------------
(* Least and greatest elements.                                            *)
LEMMA LeastExists ==
    ASSUME NEW S \in SUBSET Nat, S # {}
    PROVE  Min(S) \in S /\ \A y \in S : Min(S) <= y
  <1>1. PICK x \in S : \A y \in S : ~(<<y, x>> \in OpToRel(<, Nat))
    BY NatLessThanWellFounded, WFMin
  <1>2. ASSUME NEW y \in S, y < x
        PROVE  FALSE
    <2>1. <<y, x>> \in Nat \X Nat /\ <<y, x>>[1] < <<y, x>>[2]
      BY <1>2
    <2>2. <<y, x>> \in OpToRel(<, Nat)
      BY <2>1, Zenon DEF OpToRel
    <2> QED BY <1>1, <2>2
  <1>3. \A y \in S : x <= y
    BY <1>2
  <1> QED BY <1>3 DEF Min

\* A set of numbers with a bound has a greatest element.
LEMMA GreatestExists ==
    ASSUME NEW n \in Nat, NEW S \in SUBSET (0..n), S # {}
    PROVE  Max(S) \in S /\ \A y \in S : y <= Max(S)
  <1> DEFINE T == {n - x : x \in S}
  <1>1. T \in SUBSET Nat /\ T # {}
    <2>1. \A x \in S : n - x \in Nat
      OBVIOUS
    <2>2. T # {}
      OBVIOUS
    <2> QED BY <2>1, <2>2
  <1>2. Min(T) \in T /\ \A y \in T : Min(T) <= y
    BY <1>1, LeastExists
  <1>3. PICK x \in S : Min(T) = n - x
    BY <1>2
  <1>4. \A y \in S : y <= x
    <2> TAKE y \in S
    <2>1. n - y \in T
      OBVIOUS
    <2>2. n - x <= n - y
      BY <2>1, <1>2, <1>3
    <2>3. x \in Int /\ y \in Int
      OBVIOUS
    <2> HIDE DEF T
    <2> QED BY <2>2, <2>3
  <1> QED BY <1>4 DEF Max

-----------------------------------------------------------------------------
(* Types.                                                                  *)

\* The bounds are numbers.
LEMMA Bounds == /\ MaxNum \in Nat /\ MaxNum >= 1 /\ MaxSettings \in Nat
                /\ MaxRestarts \in Nat
  <1>1. MaxNum \in Nat /\ MaxNum # 0
    BY RepoAssumption
  <1>2. MaxSettings \in Nat /\ MaxRestarts \in Nat
    BY RepoAssumption
  <1> QED BY <1>1, <1>2

\* The first k numbers are k numbers.
LEMMA UpTo ==
    ASSUME NEW n \in Nat
    PROVE  IsFiniteSet(1..n) /\ Cardinality(1..n) = n
  <1>1. CASE n = 0
    <2>1. 1..n = {}
      BY <1>1
    <2> QED BY <1>1, <2>1, FS_EmptySet
  <1>2. CASE n # 0
    <2>1. 1 \in Int /\ n \in Int /\ 1 <= n
      BY <1>2
    <2> QED BY <2>1, FS_Interval
  <1> QED BY <1>1, <1>2

\* The item a new object gets.
LEMMA NewSlotFree ==
    ASSUME slots \in Nat, instances \subseteq 1..slots
    PROVE  /\ NewSlot \in 1..(slots + 1) /\ NewSlot \notin instances
           /\ FreeSlots # {} => NewSlot \in 1..slots
  <1>1. CASE FreeSlots = {}
    BY <1>1 DEF NewSlot
  <1>2. CASE FreeSlots # {}
    <2>1. FreeSlots \in SUBSET Nat
      BY DEF FreeSlots
    <2>2. Min(FreeSlots) \in FreeSlots
      BY <1>2, <2>1, LeastExists
    <2> QED BY <1>2, <2>2 DEF NewSlot, FreeSlots
  <1> QED BY <1>1, <1>2

\* A full list has no room: the counter tells.
LEMMA CountFits ==
    ASSUME TypeOK, SizeCounts
    PROVE  /\ IsFiniteSet(instances) /\ size <= slots
           /\ size >= MaxNum => instances = Numbers
           /\ FreeSlots = {} => size = slots
  <1>1. /\ slots \in Nat /\ slots <= MaxNum /\ instances \in SUBSET (1..slots)
        /\ MaxNum \in Nat
    <2>1. slots \in 0..MaxNum /\ instances \subseteq 1..slots
      BY DEF TypeOK
    <2> QED BY <2>1, Bounds
  <1>2. IsFiniteSet(1..slots) /\ Cardinality(1..slots) = slots
    BY <1>1, UpTo
  <1>3. IsFiniteSet(Numbers) /\ Cardinality(Numbers) = MaxNum
    BY <1>1, UpTo DEF Numbers
  <1>4. IsFiniteSet(instances) /\ Cardinality(instances) <= slots
    BY <1>1, <1>2, FS_Subset
  <1>5. instances \in SUBSET Numbers
    BY <1>1 DEF Numbers
  <1>6. Cardinality(Numbers) = Cardinality(instances) => Numbers = instances
    BY <1>3, <1>5, FS_Subset
  <1>7. size = Cardinality(instances) /\ size \in Int
    <2>1. size = Cardinality(instances) /\ size \in 0..MaxNum
      BY DEF SizeCounts, TypeOK
    <2> QED BY <1>1, <2>1
  <1>8. size >= MaxNum => instances = Numbers
    <2>1. size >= MaxNum => size = MaxNum
      BY <1>1, <1>4, <1>7
    <2> QED BY <2>1, <1>3, <1>6, <1>7
  <1>9. FreeSlots = {} => instances = 1..slots
    BY <1>1 DEF FreeSlots
  <1> QED BY <1>2, <1>4, <1>7, <1>8, <1>9

\* What one SetParameterValues leaves behind is what the parameter was, or a
\* value of the call that it takes, for a number that names an instance.
LEMMA AfterSet ==
    ASSUME NEW list \in Lists, NEW p, NEW i, NEW old
    PROVE  \/ After(list, p, i, old) = old
           \/ \E s \in Settings : /\ s.param = p /\ s.number = i
                                  /\ Takes(s) /\ Located(s)
                                  /\ After(list, p, i, old) = s.value
  <1>1. PICK k \in 1..MaxSettings : list \in [1..k -> Settings]
    BY DEF Lists
  <1>k. k \in Nat /\ DOMAIN list = 1..k
    BY <1>1, Bounds
  <1> DEFINE W == {j \in Reached(list) : /\ list[j].param = p
                                         /\ list[j].number = i
                                         /\ Takes(list[j])}
  <1>2. \A j \in W : j \in 1..k /\ \A h \in 1..j : Located(list[h])
    BY <1>k DEF Reached
  <1>3. CASE W = {}
    BY <1>3 DEF After
  <1>4. CASE W # {}
    <2>a. W \in SUBSET (0..k)
      BY <1>2, <1>k
    <2>1. Max(W) \in W
      <3> HIDE DEF W
      <3> QED BY <2>a, <1>4, <1>k, GreatestExists
    <2> DEFINE m == Max(W)
    <2>2. m \in 1..k /\ \A h \in 1..m : Located(list[h])
      <3> HIDE DEF W
      <3> QED BY <2>1, <1>2
    <2>3. list[m].param = p /\ list[m].number = i /\ Takes(list[m])
      BY <2>1
    <2>4. list[m] \in Settings /\ Located(list[m])
      <3> HIDE DEF m
      <3>1. m \in 1..m
        BY <2>2, <1>k
      <3> QED BY <2>2, <3>1, <1>1
    <2>5. After(list, p, i, old) = list[m].value
      BY <1>4 DEF After
    <2> QED BY <2>3, <2>4, <2>5
  <1> QED BY <1>3, <1>4

\* What boot builds.
LEMMA LoadedFits ==
    Loaded \in Nat /\ Loaded <= MaxNum /\ Dropped \in SUBSET (1..Loaded)
  <1> DEFINE S == {a \in 0..MaxNum : Enough(a) \/ a = MaxNum}
  <1>1. MaxNum \in 0..MaxNum
    BY Bounds
  <1>2. S \in SUBSET Nat /\ S # {}
    <2>1. MaxNum \in S
      BY <1>1
    <2>2. \A a \in S : a \in Nat
      BY Bounds
    <2> QED BY <2>1, <2>2
  <1>3. Min(S) \in S
    <2> HIDE DEF S
    <2> QED BY <1>2, LeastExists
  <1>4. Loaded \in 0..MaxNum
    BY <1>3 DEF Loaded
  <1>5. \A i \in Dropped : i \in 1..Loaded
    BY DEF Dropped
  <1> QED BY <1>4, <1>5, Bounds

\* The counter is right for what a restart builds.
LEMMA RestartCounts ==
    ASSUME Restart
    PROVE  /\ slots' \in 0..MaxNum /\ instances' \subseteq 1..slots'
           /\ size' \in 0..MaxNum /\ size' = Cardinality(instances')
  <1> DEFINE All == 1..Loaded
  <1>1. Loaded \in Nat /\ Loaded <= MaxNum /\ Dropped \in SUBSET All
    BY LoadedFits
  <1>2. IsFiniteSet(All) /\ Cardinality(All) = Loaded
    BY <1>1, UpTo
  <1> HIDE DEF All
  <1>3. All \cap Dropped = Dropped /\ All \ Dropped \in SUBSET All
    BY <1>1
  <1>4. Cardinality(All \ Dropped) = Loaded - Cardinality(Dropped)
    BY <1>2, <1>3, FS_Difference
  <1>5. IsFiniteSet(All \ Dropped) /\ Cardinality(All \ Dropped) <= Loaded
    BY <1>2, <1>3, FS_Subset
  <1>6. Cardinality(All \ Dropped) \in Nat
    BY <1>5, FS_CardinalityType
  <1>7. /\ slots' = Loaded /\ instances' = All \ Dropped
        /\ size' = Loaded - Cardinality(Dropped)
    BY DEF Restart, All
  <1>8. size' \in 0..MaxNum /\ slots' \in 0..MaxNum
    BY <1>1, <1>4, <1>5, <1>6, <1>7, Bounds
  <1>9. instances' \subseteq 1..slots'
    BY <1>3, <1>7 DEF All
  <1> QED BY <1>4, <1>7, <1>8, <1>9

-----------------------------------------------------------------------------
(* The invariant.                                                          *)
IInv == TypeOK /\ SizeCounts /\ RefusedOnlyWhenFull /\ MarksFollowInstances

Answers == [call : Calls, number : 0..MaxNum,
            rc : {"ok", "internal", "resources", "invalid_name"}]

\* What a path is answered, and the types of the answers.
LEMMA LocateType ==
    ASSUME NEW path
    PROVE  Locate(path) \in {"ok", "internal", "invalid_name"}
  BY DEF Locate

\* Every answer to a call has its type.
LEMMA AnswerTypes ==
    ASSUME NEW call \in Calls,
           NEW rc \in {"ok", "internal", "resources", "invalid_name"},
           NEW index \in 0..MaxNum
    PROVE  /\ Fault(call, rc) \in Answers /\ Fault(call, rc).rc = rc
           /\ Done(call) \in Answers /\ Done(call).rc = "ok"
           /\ Added(index) \in Answers /\ Added(index).rc = "ok"
           /\ NoAnswer \in Answers /\ NoAnswer.rc = "ok"
  <1>1. 0 \in 0..MaxNum
    BY Bounds
  <1>2. "none" \in Calls /\ "AddObject" \in Calls
    BY DEF Calls
  <1> QED BY <1>1, <1>2 DEF Fault, Done, Added, NoAnswer, Answers

\* What a setting may leave in a parameter.
LEMMA SettingTypes ==
    ASSUME NEW s \in Settings, Takes(s)
    PROVE  /\ s.param = "PackageName" => s.value \in Packages
           /\ s.param = "SilentUpgrade" => s.value \in {"0", "1"}
  BY DEF Settings, Takes

\* A value of a package name is no mark.
LEMMA NoMark == \A v \in Packages : v \notin {"", "AddObject", "DeleteObject"}
  BY RepoAssumption DEF Marks

\* The list begins empty, with nothing marked.
LEMMA InitHolds == Init => IInv
  <1> SUFFICES ASSUME Init PROVE IInv
    OBVIOUS
  <1>1. /\ slots = 0 /\ instances = {} /\ size = 0 /\ restarts = 0
        /\ names = [i \in Numbers |-> ""] /\ silent = "0" /\ answer = NoAnswer
    BY DEF Init
  <1>2. answer \in Answers /\ answer.rc = "ok"
    <2>1. "none" \in Calls /\ 0 \in 0..MaxNum
      BY Bounds DEF Calls
    <2> QED BY <1>1, <2>1, AnswerTypes
  <1>3. TypeOK
    <2>1. /\ slots \in 0..MaxNum /\ size \in 0..MaxNum
          /\ restarts \in 0..MaxRestarts
      <3>1. 0 \in 0..MaxNum /\ 0 \in 0..MaxRestarts
        BY Bounds
      <3> QED BY <1>1, <3>1
    <2>2. names \in [Numbers -> Packages \cup Marks \cup {""}]
      BY <1>1
    <2> QED BY <1>1, <1>2, <2>1, <2>2 DEF TypeOK, Answers
  <1>4. SizeCounts
    <2>1. Cardinality(instances) = 0
      BY <1>1, FS_EmptySet
    <2>2. slots <= MaxNum
      <3>1. slots = 0
        BY <1>1
      <3> QED BY <3>1, Bounds
    <2> QED BY <1>1, <2>1, <2>2 DEF SizeCounts
  <1>5. RefusedOnlyWhenFull
    BY <1>2 DEF RefusedOnlyWhenFull
  <1>6. MarksFollowInstances
    BY <1>1 DEF MarksFollowInstances
  <1> QED BY <1>3, <1>4, <1>5, <1>6 DEF IInv

\* A refused call changes nothing but the answer.
LEMMA RefuseKeeps ==
    ASSUME IInv, UNCHANGED restarts,
           NEW call \in Calls, NEW rc \in {"internal", "invalid_name", "resources"},
           rc = "resources" => size >= MaxNum, Refuse(call, rc)
    PROVE  IInv'
  <1>1. UNCHANGED <<slots, instances, size, names, silent, restarts>>
    BY DEF Refuse, tree
  <1>2. answer' \in Answers /\ answer'.rc = rc
    <2>1. 0 \in 0..MaxNum
      BY Bounds
    <2> QED BY <2>1, AnswerTypes DEF Refuse
  <1>3. TypeOK'
    BY <1>1, <1>2 DEF IInv, TypeOK, Answers
  <1>4. SizeCounts' /\ MarksFollowInstances'
    BY <1>1 DEF IInv, SizeCounts, MarksFollowInstances
  <1>5. RefusedOnlyWhenFull'
    <2>1. rc = "resources" => instances = Numbers
      BY CountFits DEF IInv
    <2> QED BY <2>1, <1>1, <1>2 DEF RefusedOnlyWhenFull
  <1> QED BY <1>3, <1>4, <1>5 DEF IInv

\* AddObject keeps the invariant, on each of its paths.
LEMMA AddObjectKeeps ==
    ASSUME IInv, NEW path \in Paths, AddObject(path)
    PROVE  IInv'
  <1>1. CASE Locate(path) # "ok" /\ Refuse("AddObject", Locate(path))
    <2>1. Locate(path) \in {"internal", "invalid_name"}
      BY <1>1, LocateType
    <2>2. "AddObject" \in Calls /\ UNCHANGED restarts
      BY DEF Calls, AddObject
    <2> QED BY <1>1, <2>1, <2>2, RefuseKeeps
  <1>2. CASE size >= MaxNum /\ Refuse("AddObject", "resources")
    <2>1. "AddObject" \in Calls /\ UNCHANGED restarts
      BY DEF Calls, AddObject
    <2> QED BY <1>2, <2>1, RefuseKeeps
  <1>3. CASE /\ size < MaxNum /\ Extend
             /\ names' = MarkAdded(NewSlot) /\ answer' = Added(NewSlot - 1)
    <2>1. /\ slots \in Nat /\ slots <= MaxNum /\ instances \subseteq 1..slots
          /\ size \in Nat /\ MaxNum \in Nat
      <3>1. slots \in 0..MaxNum /\ size \in 0..MaxNum /\ instances \subseteq 1..slots
        BY DEF IInv, TypeOK
      <3> QED BY <3>1, Bounds
    <2>2. /\ NewSlot \in 1..(slots + 1) /\ NewSlot \notin instances
          /\ FreeSlots # {} => NewSlot \in 1..slots
      BY <2>1, NewSlotFree
    <2>3. /\ IsFiniteSet(instances)
          /\ FreeSlots = {} => size = slots
      BY CountFits DEF IInv
    <2>4. /\ slots' = IF FreeSlots = {} THEN slots + 1 ELSE slots
          /\ instances' = instances \cup {NewSlot} /\ size' = size + 1
          /\ UNCHANGED <<silent, restarts>>
          /\ names' = [names EXCEPT ![NewSlot] = "AddObject"]
      BY <1>3 DEF Extend, AddObject, MarkAdded, Mark
    <2>5. slots' \in Nat /\ slots' <= MaxNum /\ NewSlot \in 1..slots'
      <3>1. CASE FreeSlots = {}
        <4>1. slots' = slots + 1 /\ slots < MaxNum
          BY <1>3, <2>3, <2>4, <3>1
        <4> QED BY <2>1, <2>2, <4>1
      <3>2. CASE FreeSlots # {}
        BY <2>1, <2>2, <2>4, <3>2
      <3> QED BY <3>1, <3>2
    <2>6. instances' \subseteq 1..slots'
      BY <2>1, <2>4, <2>5
    <2>7. size' \in Nat /\ size' <= MaxNum
      BY <1>3, <2>1, <2>4
    <2>8. NewSlot \in Numbers /\ NewSlot - 1 \in 0..MaxNum
      BY <2>1, <2>5 DEF Numbers
    <2>9. answer' \in Answers /\ answer'.rc = "ok"
      <3>1. "AddObject" \in Calls
        BY DEF Calls
      <3> QED BY <1>3, <2>8, <3>1, AnswerTypes
    <2>10. TypeOK'
      <3>1. names' \in [Numbers -> Packages \cup Marks \cup {""}]
        BY <2>4 DEF IInv, TypeOK, Marks
      <3>2. slots' \in 0..MaxNum /\ size' \in 0..MaxNum
        BY <2>1, <2>5, <2>7
      <3> QED BY <2>4, <2>6, <2>9, <3>1, <3>2 DEF IInv, TypeOK, Answers
    <2>11. SizeCounts'
      <3>1. Cardinality(instances') = Cardinality(instances) + 1
        <4>1. Cardinality(instances \cup {NewSlot}) = Cardinality(instances) + 1
          BY <2>2, <2>3, FS_AddElement
        <4> QED BY <2>4, <4>1
      <3> QED BY <2>4, <2>5, <3>1 DEF IInv, SizeCounts
    <2>12. RefusedOnlyWhenFull'
      BY <2>9 DEF RefusedOnlyWhenFull
    <2>13. MarksFollowInstances'
      <3>1. names \in [Numbers -> Packages \cup Marks \cup {""}]
        BY DEF IInv, TypeOK
      <3> QED BY <2>4, <2>8, <3>1 DEF IInv, MarksFollowInstances
    <2> QED BY <2>10, <2>11, <2>12, <2>13 DEF IInv
  <1> QED BY <1>1, <1>2, <1>3 DEF AddObject

\* DeleteObject keeps the invariant.
LEMMA DeleteObjectKeeps ==
    ASSUME IInv, NEW path \in Paths, DeleteObject(path)
    PROVE  IInv'
  <1>1. CASE Locate(path) # "ok" /\ Refuse("DeleteObject", Locate(path))
    <2>1. Locate(path) \in {"internal", "invalid_name"}
      BY <1>1, LocateType
    <2>2. "DeleteObject" \in Calls /\ UNCHANGED restarts
      BY DEF Calls, DeleteObject
    <2> QED BY <1>1, <2>1, <2>2, RefuseKeeps
  <1>2. CASE Refuse("DeleteObject", "internal")
    <2>1. "DeleteObject" \in Calls /\ UNCHANGED restarts
      BY DEF Calls, DeleteObject
    <2> QED BY <1>2, <2>1, RefuseKeeps
  <1>3. CASE /\ path # << >> /\ Locate(path) = "ok" /\ Shrink(path[1])
             /\ names' = Mark(path[1], "DeleteObject")
             /\ answer' = Done("DeleteObject")
    <2> DEFINE n == path[1]
    <2>1. /\ slots \in Nat /\ slots <= MaxNum /\ instances \subseteq 1..slots
          /\ size \in 0..MaxNum /\ MaxNum \in Nat
      <3>1. slots \in 0..MaxNum /\ size \in 0..MaxNum /\ instances \subseteq 1..slots
        BY DEF IInv, TypeOK
      <3> QED BY <3>1, Bounds
    <2>2. n \in instances
      BY <1>3 DEF Locate
    <2>3. /\ slots' = slots /\ instances' = instances \ {n} /\ size' = size - 1
          /\ UNCHANGED <<silent, restarts>>
          /\ names' = [names EXCEPT ![n] = "DeleteObject"]
      BY <1>3 DEF Shrink, DeleteObject, Mark
    <2> HIDE DEF n
    <2>4. /\ IsFiniteSet(instances)
          /\ Cardinality(instances') = Cardinality(instances) - 1
          /\ Cardinality(instances') \in Nat
      <3>1. IsFiniteSet(instances)
        BY CountFits DEF IInv
      <3>2. /\ IsFiniteSet(instances')
            /\ Cardinality(instances') = Cardinality(instances) - 1
        BY <2>2, <2>3, <3>1, FS_RemoveElement
      <3> QED BY <3>1, <3>2, FS_CardinalityType
    <2>5. SizeCounts'
      BY <2>3, <2>4 DEF IInv, SizeCounts
    <2>6. size' \in 0..MaxNum
      <3>1. size' \in Nat
        BY <2>4, <2>5 DEF SizeCounts
      <3> QED BY <2>1, <2>3, <3>1
    <2>7. n \in Numbers
      BY <2>1, <2>2 DEF Numbers
    <2>8. answer' \in Answers /\ answer'.rc = "ok"
      <3>1. "DeleteObject" \in Calls /\ 0 \in 0..MaxNum
        BY Bounds DEF Calls
      <3> QED BY <1>3, <3>1, AnswerTypes
    <2>9. TypeOK'
      <3>1. names' \in [Numbers -> Packages \cup Marks \cup {""}]
        BY <2>3 DEF IInv, TypeOK, Marks
      <3>2. instances' \subseteq 1..slots'
        BY <2>1, <2>3
      <3> QED BY <2>3, <2>6, <2>8, <3>1, <3>2 DEF IInv, TypeOK, Answers
    <2>10. RefusedOnlyWhenFull'
      BY <2>8 DEF RefusedOnlyWhenFull
    <2>11. MarksFollowInstances'
      <3>1. names \in [Numbers -> Packages \cup Marks \cup {""}]
        BY DEF IInv, TypeOK
      <3> QED BY <2>3, <2>7, <3>1 DEF IInv, MarksFollowInstances
    <2> QED BY <2>5, <2>9, <2>10, <2>11 DEF IInv
  <1> QED BY <1>1, <1>2, <1>3 DEF DeleteObject

\* A call leaves a name as it was, or sets it for an instance.
LEMMA SetNames ==
    ASSUME NEW list \in Lists, SetParameterValues(list)
    PROVE  \A i \in Numbers : \/ names'[i] = names[i]
                              \/ names'[i] \in Packages /\ i \in instances
  <1>1. names' = [i \in Numbers |-> After(list, "PackageName", i, names[i])]
    BY DEF SetParameterValues
  <1> TAKE i \in Numbers
  <1>2. names'[i] = After(list, "PackageName", i, names[i])
    BY <1>1
  <1>3. CASE After(list, "PackageName", i, names[i]) = names[i]
    BY <1>2, <1>3
  <1>4. ASSUME NEW s \in Settings, s.param = "PackageName", s.number = i,
               Takes(s), Located(s),
               After(list, "PackageName", i, names[i]) = s.value
        PROVE  names'[i] \in Packages /\ i \in instances
    <2>1. s.value \in Packages
      BY <1>4, SettingTypes
    <2>2. Locate(<<i>>) = "ok" /\ <<i>> # << >> /\ <<i>>[1] = i
      BY <1>4 DEF Located
    <2>3. i \in instances
      BY <2>2 DEF Locate
    <2> QED BY <1>2, <1>4, <2>1, <2>3
  <1> QED BY <1>3, <1>4, AfterSet

\* So does a SetParameterValues, whatever prefix of it was set.
LEMMA SetParameterValuesKeeps ==
    ASSUME IInv, NEW list \in Lists, SetParameterValues(list)
    PROVE  IInv'
  <1>1. /\ names' = [i \in Numbers |-> After(list, "PackageName", i, names[i])]
        /\ silent' = After(list, "SilentUpgrade", 1, silent)
        /\ UNCHANGED <<slots, instances, size, restarts>>
    BY DEF SetParameterValues, tree
  <1>2. \A i \in Numbers : \/ names'[i] = names[i]
                           \/ names'[i] \in Packages /\ i \in instances
    BY SetNames
  <1>3. silent' \in {"0", "1"}
    <2>1. CASE silent' = silent
      BY <2>1 DEF IInv, TypeOK
    <2>2. ASSUME NEW s \in Settings, s.param = "SilentUpgrade", Takes(s),
                 silent' = s.value
          PROVE  silent' \in {"0", "1"}
      BY <2>2, SettingTypes
    <2> QED BY <1>1, <2>1, <2>2, AfterSet
  <1>4. answer' \in Answers /\ answer'.rc # "resources"
    <2>1. "SetParameterValues" \in Calls /\ 0 \in 0..MaxNum
      BY Bounds DEF Calls
    <2>2. CASE answer' = Done("SetParameterValues")
      BY <2>1, <2>2, AnswerTypes
    <2>3. ASSUME NEW path, answer' = Fault("SetParameterValues", Locate(path))
          PROVE  answer' \in Answers /\ answer'.rc # "resources"
      <3>1. Locate(path) \in {"ok", "internal", "invalid_name"}
        BY LocateType
      <3> HIDE DEF Locate
      <3> QED BY <2>1, <2>3, <3>1, AnswerTypes
    <2> QED BY <2>2, <2>3 DEF SetParameterValues
  <1>5. TypeOK'
    <2>1. names' \in [Numbers -> Packages \cup Marks \cup {""}]
      <3>1. \A i \in Numbers : names[i] \in Packages \cup Marks \cup {""}
        BY DEF IInv, TypeOK
      <3>2. \A i \in Numbers : names'[i] \in Packages \cup Marks \cup {""}
        BY <1>2, <3>1
      <3> QED BY <1>1, <3>2
    <2> QED BY <1>1, <1>3, <1>4, <2>1 DEF IInv, TypeOK, Answers
  <1>6. SizeCounts'
    BY <1>1 DEF IInv, SizeCounts
  <1>7. RefusedOnlyWhenFull'
    BY <1>4 DEF RefusedOnlyWhenFull
  <1>8. MarksFollowInstances'
    BY <1>1, <1>2, NoMark DEF IInv, MarksFollowInstances
  <1> QED BY <1>5, <1>6, <1>7, <1>8 DEF IInv

\* So does a restart.
LEMMA RestartKeeps ==
    ASSUME IInv, Restart
    PROVE  IInv'
  <1>1. /\ slots' \in 0..MaxNum /\ instances' \subseteq 1..slots'
        /\ size' \in 0..MaxNum /\ size' = Cardinality(instances')
    BY RestartCounts
  <1>2. /\ UNCHANGED <<names, silent>> /\ answer' = NoAnswer
        /\ restarts' = restarts + 1 /\ restarts < MaxRestarts
    BY DEF Restart
  <1>3. restarts' \in 0..MaxRestarts /\ restarts' # 0
    <2>1. restarts \in 0..MaxRestarts
      BY DEF IInv, TypeOK
    <2> QED BY <1>2, <2>1, Bounds
  <1>4. answer' \in Answers /\ answer'.rc = "ok"
    <2>1. "none" \in Calls /\ 0 \in 0..MaxNum
      BY Bounds DEF Calls
    <2> QED BY <1>2, <2>1, AnswerTypes
  <1>5. TypeOK'
    BY <1>1, <1>2, <1>3, <1>4 DEF IInv, TypeOK, Answers
  <1>6. SizeCounts'
    BY <1>1, Bounds DEF SizeCounts
  <1>7. RefusedOnlyWhenFull' /\ MarksFollowInstances'
    BY <1>3, <1>4 DEF RefusedOnlyWhenFull, MarksFollowInstances
  <1> QED BY <1>5, <1>6, <1>7 DEF IInv

\* Every step keeps the invariant.
LEMMA NextHolds == IInv /\ [Next]_vars => IInv'
  <1> SUFFICES ASSUME IInv, [Next]_vars PROVE IInv'
    OBVIOUS
  <1>1. ASSUME NEW path \in Paths, AddObject(path) \/ DeleteObject(path)
        PROVE  IInv'
    BY <1>1, AddObjectKeeps, DeleteObjectKeeps
  <1>2. ASSUME NEW list \in Lists, SetParameterValues(list) PROVE IInv'
    BY <1>2, SetParameterValuesKeeps
  <1>3. CASE Restart
    BY <1>3, RestartKeeps
  <1>4. CASE UNCHANGED vars
    BY <1>4 DEF vars, tree, IInv, TypeOK, SizeCounts, RefusedOnlyWhenFull,
        MarksFollowInstances
  <1> QED BY <1>1, <1>2, <1>3, <1>4 DEF Next

-----------------------------------------------------------------------------
\* Every variable keeps its type: the list stays within the persistent
\* parameters, and those hold a value of the ACS or a mark.
THEOREM TypeCorrect == Spec => []TypeOK
  <1>1. IInv => TypeOK
    BY DEF IInv
  <1> QED BY <1>1, InitHolds, NextHolds, PTL DEF Spec

\* multiple.size is the number of objects in the list, at any limit and after
\* any calls and restarts (evcpe_attr_add_obj, evcpe_attr_del_obj, preload).
THEOREM SizeAlwaysCounts == Spec => []SizeCounts
  <1>1. IInv => SizeCounts
    BY DEF IInv
  <1> QED BY <1>1, InitHolds, NextHolds, PTL DEF Spec

\* AddObject is refused for lack of room only when every number is in use:
\* no sequence of calls and restarts leaks capacity.
THEOREM CapacityNeverLost == Spec => []RefusedOnlyWhenFull
  <1>1. IInv => RefusedOnlyWhenFull
    BY DEF IInv
  <1> QED BY <1>1, InitHolds, NextHolds, PTL DEF Spec

\* Until the device restarts the persistent marks agree with the tree, also
\* where a setting overwrites a mark (accessor.c, the add and delete hooks).
THEOREM MarksAlwaysFollow == Spec => []MarksFollowInstances
  <1>1. IInv => MarksFollowInstances
    BY DEF IInv
  <1> QED BY <1>1, InitHolds, NextHolds, PTL DEF Spec

-----------------------------------------------------------------------------
(* What a restart brings back.                                             *)

\* The numbers that were ever used are the first ones, and the list does not
\* reach past them: a new item follows the last one, an item is only emptied,
\* and boot never counts further than the marks go.
InARow == \E k \in 0..MaxNum : Named = 1..k /\ slots <= k

Dead == {i \in Numbers : Deleted(i)}
Seen(a) == {i \in 2..(a + 1) : Deleted(i)}

\* The deleted numbers the loop has seen after a objects are some of them.
LEMMA CountDead ==
    ASSUME NEW k \in 0..MaxNum, Named = 1..k, NEW a \in Nat
    PROVE  /\ IsFiniteSet(Dead) /\ Seen(a) \subseteq Dead /\ Dead \subseteq 1..k
           /\ NumofAPP = k - Cardinality(Dead)
           /\ IsFiniteSet(Seen(a))
           /\ Cardinality(Seen(a)) \in Nat /\ Cardinality(Dead) \in Nat
           /\ Cardinality(Seen(a)) <= Cardinality(Dead)
           /\ Enough(a) <=> a - Cardinality(Seen(a)) >= k - Cardinality(Dead)
  <1>1. k \in Nat /\ k <= MaxNum
    BY Bounds
  <1>2. Dead \subseteq 1..k
    BY DEF Dead, Deleted, Named
  <1>3. IsFiniteSet(1..k) /\ Cardinality(1..k) = k
    BY <1>1, UpTo
  <1>4. IsFiniteSet(Dead)
    BY <1>2, <1>3, FS_Subset
  <1>5. Seen(a) \subseteq Dead
    BY DEF Seen, Dead, Deleted
  <1>6. IsFiniteSet(Seen(a)) /\ Cardinality(Seen(a)) <= Cardinality(Dead)
    BY <1>4, <1>5, FS_Subset
  <1>7. NumofAPP = k - Cardinality(Dead)
    <2>1. {i \in Numbers : names[i] \notin {"", "DeleteObject"}} = (1..k) \ Dead
      BY DEF Dead, Deleted, Named
    <2>2. (1..k) \cap Dead = Dead
      BY <1>2
    <2> QED BY <1>3, <2>1, <2>2, FS_Difference DEF NumofAPP
  <1>8. Cardinality(Seen(a)) \in Nat /\ Cardinality(Dead) \in Nat
    BY <1>4, <1>6, FS_CardinalityType
  <1>9. Enough(a) <=> a - Cardinality(Seen(a)) >= k - Cardinality(Dead)
    BY <1>7 DEF Enough, Seen
  <1> QED BY <1>2, <1>4, <1>5, <1>6, <1>7, <1>8, <1>9

\* Boot stops at the latest where the marks stop.
LEMMA LoadedLeast ==
    /\ Loaded \in 0..MaxNum /\ (Enough(Loaded) \/ Loaded = MaxNum)
    /\ \A a \in 0..MaxNum : Enough(a) => Loaded <= a
  <1> DEFINE S == {a \in 0..MaxNum : Enough(a) \/ a = MaxNum}
  <1>1. S \in SUBSET Nat
    BY Bounds
  <1>2. MaxNum \in S
    BY Bounds
  <1>3. Min(S) \in S /\ \A a \in S : Min(S) <= a
    <2> HIDE DEF S
    <2> QED BY <1>1, <1>2, LeastExists
  <1> QED BY <1>3 DEF Loaded

\* Boot never counts further than the marks go.
LEMMA LoadedWithin ==
    ASSUME NEW k \in 0..MaxNum, Named = 1..k
    PROVE  Loaded <= k
  <1>1. k \in Nat
    BY Bounds
  <1>2. Enough(k)
    <2>1. /\ Cardinality(Seen(k)) \in Nat /\ Cardinality(Dead) \in Nat
          /\ Cardinality(Seen(k)) <= Cardinality(Dead)
          /\ Enough(k) <=> k - Cardinality(Seen(k)) >= k - Cardinality(Dead)
      BY <1>1, CountDead
    <2> QED BY <1>1, <2>1
  <1> QED BY <1>2, LoadedLeast

\* It does not stop before, if the first and the last number were not deleted:
\* fewer deleted ones are left than objects.
LEMMA NotEnoughBefore ==
    ASSUME NEW k \in 1..MaxNum, Named = 1..k, ~Deleted(1), ~Deleted(k),
           NEW a \in 0..(k - 1)
    PROVE  ~Enough(a)
  <1>1. k \in Nat /\ k >= 1 /\ a \in Nat /\ a < k /\ k \in 0..MaxNum
    BY Bounds
  <1>2. /\ IsFiniteSet(Dead) /\ Seen(a) \subseteq Dead /\ Dead \subseteq 1..k
        /\ Cardinality(Seen(a)) \in Nat /\ Cardinality(Dead) \in Nat
        /\ Enough(a) <=> a - Cardinality(Seen(a)) >= k - Cardinality(Dead)
    BY <1>1, CountDead
  <1>3. Dead \ Seen(a) \subseteq (a + 2)..(k - 1)
    <2> SUFFICES ASSUME NEW i \in Dead, i \notin Seen(a)
                 PROVE  i \in (a + 2)..(k - 1)
      OBVIOUS
    <2>1. i \in 1..k /\ Deleted(i)
      BY <1>2 DEF Dead
    <2>2. i # 1 /\ i # k /\ i \notin 2..(a + 1)
      BY <2>1 DEF Seen
    <2> QED BY <1>1, <2>1, <2>2
  <1>4. Cardinality((a + 2)..(k - 1)) < k - a /\ IsFiniteSet((a + 2)..(k - 1))
    <2>1. a + 2 \in Int /\ k - 1 \in Int
      BY <1>1
    <2>2. /\ IsFiniteSet((a + 2)..(k - 1))
          /\ Cardinality((a + 2)..(k - 1))
             = IF a + 2 > k - 1 THEN 0 ELSE (k - 1) - (a + 2) + 1
      BY <2>1, FS_Interval
    <2> QED BY <1>1, <2>2
  <1>5. Cardinality(Dead \ Seen(a)) <= Cardinality((a + 2)..(k - 1))
    BY <1>3, <1>4, FS_Subset
  <1>6. Cardinality(Dead \ Seen(a)) = Cardinality(Dead) - Cardinality(Seen(a))
    <2>1. Dead \cap Seen(a) = Seen(a)
      BY <1>2
    <2> QED BY <1>2, <2>1, FS_Difference
  <1>7. Cardinality((a + 2)..(k - 1)) \in Nat
    BY <1>4, FS_CardinalityType
  <1>8. Cardinality(Dead) - Cardinality(Seen(a)) < k - a
    BY <1>1, <1>2, <1>4, <1>5, <1>6, <1>7
  <1> QED BY <1>1, <1>2, <1>8

\* A restart with neither end deleted builds what the parameters tell of.
LEMMA RestartBuilds ==
    ASSUME NEW k \in 0..MaxNum, Named = 1..k, Restart,
           Named # {} => ~Deleted(1) /\ ~Deleted(Max(Named))
    PROVE  instances' = {i \in Named : ~Deleted(i)}
  <1>1. instances' = (1..Loaded) \ Dropped
    BY DEF Restart
  <1>2. Loaded \in 0..MaxNum /\ Loaded <= k /\ k \in Nat /\ k <= MaxNum
        /\ Loaded \in Nat
    <2>1. Loaded \in 0..MaxNum /\ Loaded <= k
      BY LoadedLeast, LoadedWithin
    <2> QED BY <2>1, Bounds
  <1>3. CASE k = 0
    BY <1>1, <1>2, <1>3
  <1>4. CASE k # 0
    <2>1. Named # {} /\ k \in 1..MaxNum
      BY <1>2, <1>4
    <2>2. Max(Named) = k
      <3>1. Named \in SUBSET (0..k)
        BY <1>2
      <3>2. Max(Named) \in Named /\ \A y \in Named : y <= Max(Named)
        BY <1>2, <2>1, <3>1, GreatestExists
      <3>3. k \in Named
        BY <1>2, <1>4
      <3> QED BY <1>2, <3>2, <3>3
    <2>3. ~Deleted(1) /\ ~Deleted(k)
      BY <2>1, <2>2
    <2>4. Loaded = k
      <3>1. ASSUME Loaded < k PROVE FALSE
        <4>1. Loaded \in 0..(k - 1)
          BY <1>2, <3>1
        <4>2. ~Enough(Loaded)
          BY <2>1, <2>3, <4>1, NotEnoughBefore
        <4>3. Loaded # MaxNum
          BY <1>2, <3>1, Bounds
        <4> QED BY <4>2, <4>3, LoadedLeast
      <3> QED BY <1>2, <3>1
    <2>5. \A i \in 1..k : i \in Dropped <=> Deleted(i)
      BY <1>2, <2>3, <2>4 DEF Dropped
    <2> QED BY <1>1, <2>4, <2>5
  <1> QED BY <1>3, <1>4

\* A step that writes no name for good keeps the row.
LEMMA RowKept ==
    ASSUME InARow, Named' = Named, slots' \in Nat, slots \in Nat, slots' <= slots
    PROVE  InARow'
  <1>1. PICK k \in 0..MaxNum : Named = 1..k /\ slots <= k
    BY DEF InARow
  <1>2. slots' <= k
    BY <1>1, Bounds
  <1>3. Named' = 1..k
    BY <1>1
  <1> HIDE DEF Named
  <1> QED BY <1>2, <1>3 DEF InARow

\* A new item follows the last one or uses one again.
LEMMA AddKeepsRow ==
    ASSUME IInv, IInv', InARow, NEW path \in Paths, AddObject(path)
    PROVE  InARow'
  <1>1. PICK k \in 0..MaxNum : Named = 1..k /\ slots <= k
    BY DEF InARow
  <1>2. /\ slots \in Nat /\ instances \subseteq 1..slots /\ slots' \in Nat
        /\ slots' <= MaxNum /\ k \in Nat /\ k <= MaxNum
    <2>1. /\ slots \in 0..MaxNum /\ slots' \in 0..MaxNum
          /\ instances \subseteq 1..slots
      BY DEF IInv, TypeOK
    <2> QED BY <2>1, Bounds
  <1>n. names \in [Numbers -> Packages \cup Marks \cup {""}]
    BY DEF IInv, TypeOK
  <1>3. CASE UNCHANGED <<slots, names>>
    <2>1. Named' = Named
      BY <1>3 DEF Named
    <2>2. slots' <= slots
      BY <1>2, <1>3
    <2> QED BY <1>2, <2>1, <2>2, RowKept
  <1>4. CASE Extend /\ names' = MarkAdded(NewSlot)
    <2>1. /\ NewSlot \in 1..(slots + 1)
          /\ FreeSlots # {} => NewSlot \in 1..slots
      BY <1>2, NewSlotFree
    <2>2. /\ slots' = IF FreeSlots = {} THEN slots + 1 ELSE slots
          /\ names' = [names EXCEPT ![NewSlot] = "AddObject"]
      BY <1>4 DEF Extend, MarkAdded, Mark
    <2>3. NewSlot \in Nat /\ NewSlot >= 1 /\ NewSlot <= k + 1 /\ NewSlot <= slots'
      BY <1>1, <1>2, <2>1, <2>2
    <2>4. NewSlot \in Numbers
      BY <1>2, <2>3, Bounds DEF Numbers
    <2>5. Named' = Named \cup {NewSlot}
      BY <1>n, <2>2, <2>4 DEF Named
    <2>6. slots' <= slots + 1
      BY <1>2, <2>2
    <2>7. CASE NewSlot <= k
      <3>1. Named' = 1..k
        BY <1>1, <1>2, <2>3, <2>5, <2>7
      <3>2. slots' <= k
        <4>1. CASE FreeSlots = {}
          <5>1. NewSlot = slots + 1
            BY <4>1 DEF NewSlot
          <5> QED BY <1>2, <2>6, <2>7, <5>1
        <4>2. CASE FreeSlots # {}
          BY <1>1, <1>2, <2>2, <4>2
        <4> QED BY <4>1, <4>2
      <3> HIDE DEF Named
      <3> QED BY <3>1, <3>2 DEF InARow
    <2>8. CASE NewSlot = k + 1
      <3>1. Named' = 1..(k + 1)
        BY <1>1, <1>2, <2>5, <2>8
      <3>2. k + 1 \in 0..MaxNum
        BY <1>2, <2>3, <2>8, Bounds
      <3>3. slots' <= k + 1
        BY <1>1, <1>2, <2>6
      <3> HIDE DEF Named
      <3> QED BY <3>1, <3>2, <3>3 DEF InARow
    <2> QED BY <1>2, <2>3, <2>7, <2>8
  <1> QED BY <1>3, <1>4 DEF AddObject, Refuse, tree

\* A name that is set stays set, and an instance has one.
LEMMA OthersKeepRow ==
    ASSUME IInv, InARow,
           \/ \E path \in Paths : DeleteObject(path)
           \/ \E list \in Lists : SetParameterValues(list)
    PROVE  InARow'
  <1>1. PICK k \in 0..MaxNum : Named = 1..k /\ slots <= k
    BY DEF InARow
  <1>2. slots \in Nat /\ k \in Nat /\ instances \subseteq 1..slots
    <2>1. slots \in 0..MaxNum /\ instances \subseteq 1..slots
      BY DEF IInv, TypeOK
    <2> QED BY <2>1, Bounds
  <1>n. names \in [Numbers -> Packages \cup Marks \cup {""}]
    BY DEF IInv, TypeOK
  <1>3. instances \subseteq Named
    BY <1>1, <1>2
  <1>4. Named' = Named /\ slots' = slots
    <2>1. ASSUME NEW path \in Paths, DeleteObject(path)
          PROVE  Named' = Named /\ slots' = slots
      <3>1. CASE UNCHANGED <<slots, names>>
        BY <3>1 DEF Named
      <3>2. CASE /\ path # << >> /\ Locate(path) = "ok" /\ Shrink(path[1])
                 /\ names' = Mark(path[1], "DeleteObject")
        <4>1. path[1] \in instances
          BY <3>2 DEF Locate
        <4>2. /\ names' = [names EXCEPT ![path[1]] = "DeleteObject"]
              /\ slots' = slots
          BY <3>2 DEF Shrink, Mark
        <4> QED BY <1>n, <1>3, <4>1, <4>2 DEF Named
      <3> QED BY <2>1, <3>1, <3>2 DEF DeleteObject, Refuse, tree
    <2>2. ASSUME NEW list \in Lists, SetParameterValues(list)
          PROVE  Named' = Named /\ slots' = slots
      <3>1. \A i \in Numbers : \/ names'[i] = names[i]
                               \/ names'[i] \in Packages /\ i \in instances
        BY <2>2, SetNames
      <3>2. \A i \in Numbers : names'[i] # "" <=> names[i] # ""
        BY <1>3, <3>1, NoMark DEF Named
      <3>3. slots' = slots
        BY <2>2 DEF SetParameterValues, tree
      <3> QED BY <3>2, <3>3 DEF Named
    <2> QED BY <2>1, <2>2
  <1>5. slots' <= slots /\ slots' \in Nat
    BY <1>2, <1>4
  <1> QED BY <1>2, <1>4, <1>5, RowKept

\* Every step keeps the used numbers a row.
LEMMA NextKeepsRow ==
    ASSUME IInv, InARow, [Next]_vars
    PROVE  InARow'
  <1>1. ASSUME NEW path \in Paths, AddObject(path)
        PROVE  InARow'
    BY <1>1, AddKeepsRow, NextHolds DEF Next
  <1>2. CASE \/ \E path \in Paths : DeleteObject(path)
             \/ \E list \in Lists : SetParameterValues(list)
    BY <1>2, OthersKeepRow
  <1>3. CASE Restart
    <2>1. PICK k \in 0..MaxNum : Named = 1..k /\ slots <= k
      BY DEF InARow
    <2>2. slots' = Loaded /\ Named' = Named
      BY <1>3 DEF Restart, Named
    <2>3. Loaded <= k
      BY <2>1, LoadedWithin
    <2>4. slots' <= k /\ Named' = 1..k
      BY <2>1, <2>2, <2>3
    <2> HIDE DEF Named, Loaded
    <2> QED BY <2>4 DEF InARow
  <1>4. CASE UNCHANGED vars
    BY <1>4 DEF vars, tree, InARow, Named
  <1> QED BY <1>1, <1>2, <1>3, <1>4 DEF Next

\* A restart brings back exactly the instances the parameters tell of, with
\* every hole deletion has left, however the numbers were reused and whatever
\* earlier restarts lost, unless the first or the last number is a deleted one
\* (cpe.c:1774-1830, where the loop stops and what it then takes out).
THEOREM RestartAlwaysRestores == Spec => RestartRestores
  <1>1. Init => InARow
    <2> SUFFICES ASSUME Init PROVE InARow
      OBVIOUS
    <2>1. Named = {} /\ slots = 0
      BY DEF Init, Named
    <2>2. 1..0 = {} /\ 0 \in 0..MaxNum
      BY Bounds
    <2> HIDE DEF Named
    <2> QED BY <2>1, <2>2 DEF InARow
  <1>2. IInv /\ InARow /\ [Next]_vars => InARow'
    BY NextKeepsRow
  <1>3. ASSUME InARow, [Next]_vars, restarts' # restarts,
               Named # {} => ~Deleted(1) /\ ~Deleted(Max(Named))
        PROVE  instances' = {i \in Named : ~Deleted(i)}
    <2>1. Restart
      BY <1>3 DEF Next, AddObject, DeleteObject, SetParameterValues, vars
    <2>2. PICK k \in 0..MaxNum : Named = 1..k
      BY <1>3 DEF InARow
    <2> QED BY <1>3, <2>1, <2>2, RestartBuilds
  <1>4. InARow /\ [Next]_vars =>
          [/\ restarts' # restarts
           /\ Named # {} => ~Deleted(1) /\ ~Deleted(Max(Named))
           => instances' = {i \in Named : ~Deleted(i)}]_vars
    BY <1>3
  <1> QED BY <1>1, <1>2, <1>4, InitHolds, NextHolds, PTL DEF Spec, RestartRestores
=============================================================================
