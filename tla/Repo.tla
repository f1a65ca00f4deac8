-------------------------------- MODULE Repo --------------------------------
(***************************************************************************)
(* A list of objects in the parameter tree (repo.c, attr.c, obj.c), the    *)
(* calls of the ACS on it (cpe.c), and what the device keeps of it over a  *)
(* restart (accessor.c).  Both lists of the model file that an ACS may     *)
(* change, UsbInstalledAppList and AppAutoRunBlackList, work this way.     *)
(*                                                                         *)
(* The tree is volatile: the instances and their numbers live in it.  The  *)
(* values live in persistent parameters named after the number, which also *)
(* carry the marks "AddObject" and "DeleteObject", and from which the tree *)
(* is built again at boot.  SilentUpgrade stands for a simple parameter    *)
(* whose value is validated.  One call is one step: a session handles it   *)
(* in one callback.                                                        *)
(*                                                                         *)
(* Abstracted: the path to the list (a call gives no instance number, or   *)
(* one); ClassName, which is kept like PackageName; failures to allocate.  *)
(***************************************************************************)
EXTENDS Integers, Sequences, FiniteSets, FiniteSetsExt

CONSTANTS
    MaxNum,      \* MaxNumofAPP, and the limit in the loop at boot: 10
    Packages,    \* package names the ACS may set
    MaxSettings, \* bound: settings in one SetParameterValues
    MaxRestarts  \* bound: restarts of the device

Marks == {"AddObject", "DeleteObject"}

ASSUME RepoAssumption ==
    /\ MaxNum \in Nat \ {0}
    /\ MaxSettings \in Nat /\ MaxRestarts \in Nat
    /\ Packages \cap (Marks \cup {""}) = {}

VARIABLES
    slots,      \* length of multiple.list
    instances,  \* the numbers of the items of the list that hold an object
    size,       \* multiple.size
    names,      \* the parameters usb_install_packagename1 and following
    silent,     \* the parameter tr069_silent_upgrade
    answer,     \* what the last call was answered
    restarts    \* restarts of the device so far

tree == <<slots, instances, size>>
vars == <<tree, names, silent, answer, restarts>>

Numbers  == 1..MaxNum
\* What follows the path of the list: nothing, or an instance number.
Paths    == {<< >>} \cup {<<n>> : n \in 0..MaxNum}
Settings == [param : {"PackageName"}, number : 0..MaxNum,
             value : Packages \cup {""}]
            \cup [param : {"SilentUpgrade"}, number : {1},
                  value : {"0", "1", "yes"}]

\* Fault codes: 9002, 9004 and 9005.
Fault(call, rc) == [call |-> call, rc |-> rc, number |-> 0]
Done(call)      == [call |-> call, rc |-> "ok", number |-> 0]
Added(index)    == [call |-> "AddObject", rc |-> "ok", number |-> index]
NoAnswer        == [call |-> "none", rc |-> "ok", number |-> 0]

-----------------------------------------------------------------------------
Init ==
    /\ slots = 0 /\ instances = {} /\ size = 0
    /\ names = [i \in Numbers |-> ""]
    /\ silent = "0"
    /\ answer = NoAnswer
    /\ restarts = 0

\* evcpe_repo_locate, for a path into the list.  Zero and what is no number
\* is an internal error.
Locate(path) ==
    IF path = << >> THEN "ok"
    ELSE IF path[1] = 0 THEN "internal"
    ELSE IF path[1] \in instances THEN "ok" ELSE "invalid_name"

\* The getters: marks and unknown numbers read as empty.
Value(i) == IF names[i] \in Marks THEN "" ELSE names[i]

Mark(i, m) == [names EXCEPT ![i] = m]

\* The first item without an object, or a new one at the end.
FreeSlots == (1..slots) \ instances
NewSlot   == IF FreeSlots = {} THEN slots + 1 ELSE Min(FreeSlots)

Refuse(call, rc) ==
    /\ answer' = Fault(call, rc)
    /\ UNCHANGED <<tree, names, silent>>

\* Mutant of Extend: the items that were emptied are not used again.
ExtendAlways ==
    /\ slots' = slots + 1
    /\ instances' = instances \cup {slots + 1}
    /\ size' = size + 1
    /\ UNCHANGED silent

\* evcpe_attr_add_obj, when there is room.
Extend ==
    /\ slots' = IF FreeSlots = {} THEN slots + 1 ELSE slots
    /\ instances' = instances \cup {NewSlot}
    /\ size' = size + 1
    /\ UNCHANGED silent

\* Mutant of MarkAdded: a parameter that was set before is left as it is.
MarkIfUnset(i) == IF names[i] = "" THEN Mark(i, "AddObject") ELSE names
\* sk_tr069_add_multiple_object_data
MarkAdded(i) == Mark(i, "AddObject")

\* evcpe_handle_add_object.  It answers with the index of the new item.
AddObject(path) ==
    /\ UNCHANGED restarts
    /\ \/ Locate(path) # "ok" /\ Refuse("AddObject", Locate(path))
       \/ /\ Locate(path) = "ok" /\ size >= MaxNum
          /\ Refuse("AddObject", "resources")
       \/ /\ Locate(path) = "ok" /\ size < MaxNum
          /\ Extend
          /\ names' = MarkAdded(NewSlot)
          /\ answer' = Added(NewSlot - 1)

\* Mutant of Shrink: the object is not taken off the count.
ShrinkUncounted(i) ==
    /\ instances' = instances \ {i}
    /\ UNCHANGED <<slots, size, silent>>

\* evcpe_attr_del_obj: the item stays, without its object.
Shrink(i) ==
    /\ instances' = instances \ {i}
    /\ size' = size - 1
    /\ UNCHANGED <<slots, silent>>

\* evcpe_handle_delete_object.  The path of the list alone names item -1.
DeleteObject(path) ==
    /\ UNCHANGED restarts
    /\ \/ Locate(path) # "ok" /\ Refuse("DeleteObject", Locate(path))
       \/ path = << >> /\ Refuse("DeleteObject", "internal")
       \/ /\ path # << >> /\ Locate(path) = "ok"
          /\ Shrink(path[1])
          /\ names' = Mark(path[1], "DeleteObject")
          /\ answer' = Done("DeleteObject")

-----------------------------------------------------------------------------
(* SetParameterValues: the settings are carried out in order, up to the    *)
(* first whose parameter is not found.  A value that is not valid or that  *)
(* the setter refuses is skipped: evcpe_repo_set loses the error.          *)
Located(s) == s.param = "PackageName" => Locate(<<s.number>>) = "ok"
Takes(s)   == IF s.param = "PackageName" THEN s.value # ""
              ELSE s.value \in {"0", "1"}

Reached(list) ==
    {j \in DOMAIN list : \A h \in 1..j : Located(list[h])}

\* What the settings that are carried out leave in parameter p, of number i.
After(list, p, i, old) ==
    LET writes == {j \in Reached(list) : /\ list[j].param = p
                                         /\ list[j].number = i
                                         /\ Takes(list[j])}
    IN  IF writes = {} THEN old ELSE list[Max(writes)].value

SetParameterValues(list) ==
    /\ names' = [i \in Numbers |-> After(list, "PackageName", i, names[i])]
    /\ silent' = After(list, "SilentUpgrade", 1, silent)
    /\ answer' =
          IF Reached(list) = DOMAIN list THEN Done("SetParameterValues")
          ELSE LET s == list[Min(DOMAIN list \ Reached(list))]
               IN  Fault("SetParameterValues", Locate(<<s.number>>))
    /\ UNCHANGED <<tree, restarts>>

-----------------------------------------------------------------------------
(* Boot.                                                                   *)

\* The platform keeps the number of nodes under the list in a parameter.
NumofAPP == Cardinality({i \in Numbers : names[i] \notin {"", "DeleteObject"}})

Deleted(i) == i \in Numbers /\ names[i] = "DeleteObject"

\* After a objects the loop has counted a, less the deleted ones it has seen:
\* it looks at the parameter after the one of the object it has added.
Enough(a) == a - Cardinality({i \in 2..(a + 1) : Deleted(i)}) >= NumofAPP
\* Mutant of Loaded: one object too many.
LoadedOneMore == Min({a \in 1..MaxNum : Enough(a - 1) \/ a = MaxNum})
Loaded == Min({a \in 0..MaxNum : Enough(a) \/ a = MaxNum})

\* The deleted ones are then taken out again, but for the last object, which
\* is looked at only if the loop has run into its limit.
Dropped ==
    {i \in 1..Loaded : Deleted(i) /\ (i < Loaded \/ ~Enough(Loaded))}

\* sk_tr069_preload_multipleObject_UsbInstalledAppList_construct
Restart ==
    /\ restarts < MaxRestarts
    /\ restarts' = restarts + 1
    /\ slots' = Loaded
    /\ instances' = (1..Loaded) \ Dropped
    /\ size' = Loaded - Cardinality(Dropped)
    /\ answer' = NoAnswer
    /\ UNCHANGED <<names, silent>>

Lists == UNION {[1..k -> Settings] : k \in 1..MaxSettings}

Next ==
    \/ \E path \in Paths : AddObject(path) \/ DeleteObject(path)
    \/ \E list \in Lists : SetParameterValues(list)
    \/ Restart

Spec == Init /\ [][Next]_vars

-----------------------------------------------------------------------------
Calls == {"none", "AddObject", "DeleteObject", "SetParameterValues"}

TypeOK ==
    /\ slots \in 0..MaxNum /\ instances \subseteq 1..slots
    /\ size \in 0..MaxNum
    /\ names \in [Numbers -> Packages \cup Marks \cup {""}]
    /\ silent \in {"0", "1"}
    /\ answer \in [call : Calls, number : 0..MaxNum,
                   rc : {"ok", "internal", "resources", "invalid_name"}]
    /\ restarts \in 0..MaxRestarts

\* The counter that guards the limit of the list is the number of objects in
\* it, and the list never grows past the persistent parameters, however calls
\* and restarts reuse its items (attr.c:357-398 and 465-468).
SizeCounts == size = Cardinality(instances) /\ slots <= MaxNum

\* The ACS is refused an object only when the list is full: deleting, failing
\* and restarting never use up its capacity.
RefusedOnlyWhenFull == answer.rc = "resources" => instances = Numbers

\* Up to the first restart the persistent marks say which instances exist, so
\* that they can be built again (cpe.c:1834-1840 and 1874-1876).
MarksFollowInstances ==
    restarts = 0 =>
        \A i \in Numbers : i \in instances <=> names[i] \notin {"", "DeleteObject"}

\* A restart brings back the instances that the parameters tell of, holes
\* included, unless the first or the last number was deleted.
Named == {i \in Numbers : names[i] # ""}

RestartRestores ==
    [][/\ restarts' # restarts
       /\ Named # {} => ~Deleted(1) /\ ~Deleted(Max(Named))
       => instances' = {i \in Named : ~Deleted(i)}]_vars
=============================================================================
