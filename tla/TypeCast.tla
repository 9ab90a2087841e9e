------------------------------ MODULE TypeCast ------------------------------
(***************************************************************************)
(* TypeCast and CanCast (ServerCore/TypeCast.h), the replacement of         *)
(* dynamic_cast: classes are numbered by their place in a type list, an     *)
(* object carries the number of its class, and a table, filled by the first *)
(* call and read by all, says which class converts to which.                *)
(*                                                                          *)
(* Class 1 is the root, which declares TL and _typeId.  The classes of the  *)
(* list run INIT_TL in their constructors; the others do not, as they have  *)
(* no index.  The hierarchy and the list are chosen in the initial state    *)
(* and never change.                                                        *)
(***************************************************************************)
EXTENDS Integers, Sequences

CONSTANTS
  Casters,     \* the threads that cast
  ClassCount   \* the classes are 1..ClassCount

ASSUME ClassAssumption == ClassCount \in Nat \ {0}
ASSUME CasterAssumption == Casters \cap {"none", "done"} = {}

VARIABLES
  parent,    \* parent[c]: the base class of c; 0 for the root
  TL,        \* the type list, without repetition
  s_convert, \* s_convert[i, j]: class i of the list converts to class j
  guard,     \* who constructs the local static of CanConvert: "none", a thread, "done"
  cell,      \* the arguments of MakeTable
  pc,        \* pc[t]: where thread t is
  object,    \* object[t]: the class of *ptr, or 0 if ptr is nullptr
  target,    \* target[t]: the class To
  result     \* result[t]: whether the cast gives a pointer

castVars == <<parent, TL, s_convert, guard, cell, pc, object, target, result>>

Classes == 1..ClassCount
Listed  == {TL[k] : k \in 1..Len(TL)}

-----------------------------------------------------------------------------
(* What the compiler computes.                                              *)

length == Len(TL)

TypeAt(index) == TL[index + 1]

\* The list is searched from its head: the place of each class in the list from its
\* k-th element on; -1 comes back from the end unchanged.
IndexFrom[k \in 1..(length + 1)] ==
  [c \in Classes |->
     IF k > length THEN -1
     ELSE IF TL[k] = c THEN 0
     ELSE IF IndexFrom[k + 1][c] = -1 THEN -1 ELSE IndexFrom[k + 1][c] + 1]

IndexOf(c) == IndexFrom[1][c]

\* What a class is: itself and what its base is.
Bases[c \in Classes] == {c} \cup IF parent[c] = 0 THEN {} ELSE Bases[parent[c]]

\* A pointer to c is accepted where one to d is asked for.
Conversion(c, d) == d \in Bases[c]

\* What the constructors, base first, leave in _typeId.
TypeId[c \in Classes] == IF c \in Listed THEN IndexOf(c) ELSE TypeId[parent[c]]

-----------------------------------------------------------------------------
CastInit ==
  /\ parent \in {p \in [Classes -> 0..(ClassCount - 1)] :
                   /\ p[1] = 0
                   /\ \A c \in Classes \ {1} : p[c] \in 1..(c - 1)}
  /\ TL \in {s \in UNION {[1..n -> Classes] : n \in Classes} :
               /\ \E k \in DOMAIN s : s[k] = 1
               /\ \A k, l \in DOMAIN s : s[k] = s[l] => k = l}
  /\ s_convert = [ij \in (0..(length - 1)) \X (0..(length - 1)) |-> FALSE]
  /\ guard = "none"
  /\ cell = <<0, 0>>
  /\ pc = [t \in Casters |-> "idle"]
  /\ object = [t \in Casters |-> 0]
  /\ target = [t \in Casters |-> 1]
  /\ result = [t \in Casters |-> FALSE]

Goto(t, label) == pc' = [pc EXCEPT ![t] = label]

\* TypeCast<To*>(ptr), also with shared_ptr, and CanCast<To*>(ptr).
Cast(t, c, d) ==
  /\ pc[t] = "idle"
  /\ object' = [object EXCEPT ![t] = c]
  /\ target' = [target EXCEPT ![t] = d]
  /\ Goto(t, IF c = 0 THEN "returned" ELSE "static")
  /\ UNCHANGED <<parent, TL, s_convert, guard, cell, result>>

\* A static whose construction other threads do not wait for.
Enter_NoWait(t) ==
  /\ pc[t] = "static"
  /\ IF guard = "none"
       THEN guard' = t /\ cell' = <<0, 0>> /\ Goto(t, "MakeTable")
       ELSE UNCHANGED <<guard, cell>> /\ Goto(t, "read")
  /\ UNCHANGED <<parent, TL, s_convert, object, target, result>>

\* static TypeConversion conversion: the first thread constructs it, and the threads
\* that come meanwhile wait.
Enter(t) ==
  /\ pc[t] = "static"
  /\ \/ guard = "none" /\ guard' = t /\ cell' = <<0, 0>> /\ Goto(t, "MakeTable")
     \/ guard = "done" /\ UNCHANGED <<guard, cell>> /\ Goto(t, "read")
  /\ UNCHANGED <<parent, TL, s_convert, object, target, result>>

\* The first overload: a cell of the table, and on to the next.
MakeCell(t) ==
  /\ pc[t] = "MakeTable"
  /\ cell[1] < length /\ cell[2] < length
  /\ s_convert' = [s_convert EXCEPT ![cell] = Conversion(TypeAt(cell[1]), TypeAt(cell[2]))]
  /\ cell' = <<cell[1], cell[2] + 1>>
  /\ UNCHANGED <<parent, TL, guard, pc, object, target, result>>

\* The same row again.
NextRow_Same(t) ==
  /\ pc[t] = "MakeTable"
  /\ cell[1] < length /\ cell[2] = length
  /\ cell' = <<cell[1], 0>>
  /\ UNCHANGED <<parent, TL, s_convert, guard, pc, object, target, result>>

\* The second: a row is complete.
NextRow(t) ==
  /\ pc[t] = "MakeTable"
  /\ cell[1] < length /\ cell[2] = length
  /\ cell' = <<cell[1] + 1, 0>>
  /\ UNCHANGED <<parent, TL, s_convert, guard, pc, object, target, result>>

\* The third: the table is complete, and the static constructed.
Constructed(t) ==
  /\ pc[t] = "MakeTable"
  /\ cell[1] = length
  /\ guard' = "done"
  /\ Goto(t, "read")
  /\ UNCHANGED <<parent, TL, s_convert, cell, object, target, result>>

\* s_convert[from][to].  The index of a class that is not listed is -1: the cell is
\* the last of the row before, and in front of the first row it is not of the table.
Cell(from, to) ==
  IF to >= 0 THEN {s_convert[from, to]}
  ELSE IF from > 0 THEN {s_convert[from - 1, length - 1]}
  ELSE BOOLEAN

CanConvert(t) ==
  /\ pc[t] = "read"
  /\ \E ok \in Cell(TypeId[object[t]], IndexOf(target[t])) :
       result' = [result EXCEPT ![t] = ok]
  /\ Goto(t, "returned")
  /\ UNCHANGED <<parent, TL, s_convert, guard, cell, object, target>>

\* The caller uses the pointer and goes on.
Return(t) ==
  /\ pc[t] = "returned"
  /\ Goto(t, "idle")
  /\ object' = [object EXCEPT ![t] = 0]
  /\ target' = [target EXCEPT ![t] = 1]
  /\ result' = [result EXCEPT ![t] = FALSE]
  /\ UNCHANGED <<parent, TL, s_convert, guard, cell>>

Step(t) ==
  Enter(t) \/ MakeCell(t) \/ NextRow(t) \/ Constructed(t) \/ CanConvert(t) \/ Return(t)

CastNext ==
  \E t \in Casters :
    \/ \E c \in Classes \cup {0}, d \in Classes : Cast(t, c, d)
    \/ Step(t)

\* A thread inside a call is scheduled.
CastSpec == CastInit /\ [][CastNext]_castVars /\ \A t \in Casters : WF_castVars(Step(t))

-----------------------------------------------------------------------------
\* A cast to a listed class agrees with the class hierarchy, whatever the order of the
\* list, the class that is cast and the thread that fills the table: it gives a pointer
\* only to an object that is of the class, and always if the class of the object is
\* listed too.
CastCorrect ==
  \A t \in Casters : pc[t] = "returned" /\ target[t] \in Listed =>
    /\ result[t] => object[t] # 0 /\ Conversion(object[t], target[t])
    /\ object[t] \in Listed /\ Conversion(object[t], target[t]) => result[t]

\* No cast waits for ever for the table.
CastReturns == \A t \in Casters : pc[t] # "idle" ~> pc[t] = "idle"
=============================================================================
