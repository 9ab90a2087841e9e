---------------------------- MODULE RefCounting -----------------------------
(***************************************************************************)
(* RefCountable and TSharedPtr (ServerCore/RefCounting.h), used by several  *)
(* threads.                                                                 *)
(*                                                                          *)
(* A TSharedPtr is a local of one thread, <<t, s>>, or the member of an     *)
(* object, which has the object's name and is destroyed with it.  A thread  *)
(* works on its own locals; it sets an object's member only before a        *)
(* TSharedPtr refers to the object, and hands a pointer to another thread   *)
(* by moving it.  A call is a stack of instructions, todo[t]: each of them  *)
(* makes at most one access that another thread can notice.                 *)
(***************************************************************************)
EXTENDS Integers, Sequences, FiniteSets

CONSTANTS
  Threads,          \* the threads
  Slots,            \* the names of a thread's locals
  Objects,          \* the objects, each of which is created once
  None,             \* nullptr
  CreatorReleases,  \* whether who calls new also calls ReleaseRef
  AssignOwnMember   \* whether programs assign to p from a member of *p

ASSUME RefAssumption ==
  /\ IsFiniteSet(Threads) /\ IsFiniteSet(Slots) /\ IsFiniteSet(Objects)
  /\ None \notin Objects /\ Objects \cap (Threads \X Slots) = {}
  /\ CreatorReleases \in BOOLEAN /\ AssignOwnMember \in BOOLEAN

VARIABLES
  fresh,     \* the objects that have not been created
  alive,     \* the objects that have been created and not deleted
  refCount,  \* refCount[o]: RefCountable::_refCount
  ptr,       \* ptr[p]: TSharedPtr::_ptr
  raw,       \* raw[t]: the object t has created and whose first count it owns
  todo,      \* todo[t]: what is left of its call
  crash      \* "none", or the use of a deleted object

vars == <<fresh, alive, refCount, ptr, raw, todo, crash>>

Locals == Threads \X Slots
Ptrs   == Locals \cup Objects

Init ==
  /\ fresh = Objects /\ alive = {}
  /\ refCount = [o \in Objects |-> 0]
  /\ ptr = [p \in Ptrs |-> None]
  /\ raw = [t \in Threads |-> None]
  /\ todo = [t \in Threads |-> <<>>]
  /\ crash = "none"

Idle(t) == crash = "none" /\ todo[t] = <<>>
Call(t, body) == todo' = [todo EXCEPT ![t] = body]

\* The pointers t can read: its locals, and the members of what they refer to.
Readable(t) == {p \in Ptrs : IF p \in Objects THEN \E s \in Slots : ptr[<<t, s>>] = p
                                              ELSE p[1] = t}

\* The instructions.
Release(p)    == [op |-> "Release", p |-> p, q |-> None]
Null(p)       == [op |-> "Null", p |-> p, q |-> None]
Set(p, q)     == [op |-> "Set", p |-> p, q |-> q]
Take(p, q)    == [op |-> "Take", p |-> p, q |-> q]
AddRef(o, p)  == [op |-> "AddRef", p |-> o, q |-> p]   \* for pointer p
ReleaseRef(o) == [op |-> "ReleaseRef", p |-> o, q |-> None]
Free(o)       == [op |-> "Free", p |-> o, q |-> None]

-----------------------------------------------------------------------------
(* The calls a program makes.                                               *)

New(t, o) ==
  /\ Idle(t)
  /\ raw[t] = None /\ o \in fresh
  /\ fresh' = fresh \ {o} /\ alive' = alive \cup {o}
  /\ refCount' = [refCount EXCEPT ![o] = 1]
  /\ raw' = [raw EXCEPT ![t] = o]
  /\ UNCHANGED <<ptr, todo, crash>>

\* The member of the new object is set from a local, by the copy constructor.
SetMember(t, q) ==
  /\ Idle(t)
  /\ raw[t] # None /\ q[1] = t
  /\ ptr[raw[t]] = None /\ \A p \in Ptrs : ptr[p] # raw[t]
  /\ Call(t, <<Set(raw[t], q)>>)
  /\ UNCHANGED <<fresh, alive, refCount, ptr, raw, crash>>

\* TSharedPtr(T* ptr)
Construct(t, p) ==
  /\ Idle(t)
  /\ raw[t] # None /\ p[1] = t /\ ptr[p] = None
  /\ ptr' = [ptr EXCEPT ![p] = raw[t]]
  /\ Call(t, <<AddRef(raw[t], p)>>)
  /\ raw' = IF CreatorReleases THEN raw ELSE [raw EXCEPT ![t] = None]
  /\ UNCHANGED <<fresh, alive, refCount, crash>>

\* The creator gives up the count that new has left it.
ReleaseCreator(t) ==
  /\ Idle(t)
  /\ CreatorReleases /\ raw[t] # None
  /\ Call(t, <<ReleaseRef(raw[t])>>)
  /\ raw' = [raw EXCEPT ![t] = None]
  /\ UNCHANGED <<fresh, alive, refCount, ptr, crash>>

\* TSharedPtr(const TSharedPtr& rhs)
CopyConstruct(t, p, q) ==
  /\ Idle(t)
  /\ p[1] = t /\ ptr[p] = None /\ q \in Readable(t)
  /\ Call(t, <<Set(p, q)>>)
  /\ UNCHANGED <<fresh, alive, refCount, ptr, raw, crash>>

\* TSharedPtr(TSharedPtr&& rhs), into a local of any thread that is in no call.
MoveConstruct(t, p, q) ==
  /\ Idle(t) /\ todo[p[1]] = <<>>
  /\ q[1] = t /\ ptr[q] # None /\ ptr[p] = None
  /\ ptr' = [ptr EXCEPT ![p] = ptr[q], ![q] = None]
  /\ UNCHANGED <<fresh, alive, refCount, raw, todo, crash>>

\* Without the Release.
CopyAssign_NoRelease(t, p, q) ==
  /\ Idle(t)
  /\ p[1] = t /\ q \in Readable(t) /\ ptr[p] # ptr[q]
  /\ \/ AssignOwnMember
     \/ \E s \in Slots : <<t, s>> # p /\ ptr[<<t, s>>] = q
     \/ q \notin Objects
  /\ Call(t, <<Set(p, q)>>)
  /\ UNCHANGED <<fresh, alive, refCount, ptr, raw, crash>>

\* operator=(const TSharedPtr& rhs), which does nothing if both are equal.
CopyAssign(t, p, q) ==
  /\ Idle(t)
  /\ p[1] = t /\ q \in Readable(t) /\ ptr[p] # ptr[q]
  /\ \/ AssignOwnMember
     \/ \E s \in Slots : <<t, s>> # p /\ ptr[<<t, s>>] = q
     \/ q \notin Objects
  /\ Call(t, <<Release(p), Set(p, q)>>)
  /\ UNCHANGED <<fresh, alive, refCount, ptr, raw, crash>>

\* operator=(TSharedPtr&& rhs), which does not exclude that both are the same.
MoveAssign(t, p, q) ==
  /\ Idle(t)
  /\ p[1] = t /\ q[1] = t
  /\ Call(t, <<Release(p), Take(p, q)>>)
  /\ UNCHANGED <<fresh, alive, refCount, ptr, raw, crash>>

\* ~TSharedPtr()
Destruct(t, p) ==
  /\ Idle(t)
  /\ p[1] = t /\ ptr[p] # None
  /\ Call(t, <<Release(p)>>)
  /\ UNCHANGED <<fresh, alive, refCount, ptr, raw, crash>>

-----------------------------------------------------------------------------
(* The instructions of the calls.                                           *)

\* t executes an instruction, which becomes the instructions body.
Execute(t, op, body(_)) ==
  /\ crash = "none"
  /\ todo[t] # <<>> /\ Head(todo[t]).op = op
  /\ Call(t, body(Head(todo[t])) \o Tail(todo[t]))

\* Whether pointer p is in memory that has been freed.
Gone(p) == p \in Objects \ alive

\* TSharedPtr::Release
DoRelease(t) ==
  LET Body(i) == IF ptr[i.p] = None THEN <<>> ELSE <<ReleaseRef(ptr[i.p]), Null(i.p)>>
  IN  /\ Execute(t, "Release", Body)
      /\ UNCHANGED <<fresh, alive, refCount, ptr, raw, crash>>

DoNull(t) ==
  LET Body(i) == <<>>
  IN  /\ Execute(t, "Null", Body)
      /\ ptr' = [ptr EXCEPT ![Head(todo[t]).p] = None]
      /\ UNCHANGED <<fresh, alive, refCount, raw, crash>>

\* The count is not incremented.
DoSet_NoAddRef(t) ==
  LET Body(i) == <<>>
      i == Head(todo[t])
  IN  /\ Execute(t, "Set", Body)
      /\ ptr' = [ptr EXCEPT ![i.p] = ptr[i.q]]
      /\ UNCHANGED <<fresh, alive, refCount, raw, crash>>

\* TSharedPtr::Set(rhs._ptr)
DoSet(t) ==
  LET Body(i) == IF ptr[i.q] = None THEN <<>> ELSE <<AddRef(ptr[i.q], i.p)>>
      i == Head(todo[t])
  IN  /\ Execute(t, "Set", Body)
      /\ ptr' = [ptr EXCEPT ![i.p] = ptr[i.q]]
      /\ crash' = IF Gone(i.q) THEN "deleted rhs" ELSE crash
      /\ UNCHANGED <<fresh, alive, refCount, raw>>

\* _ptr = rhs._ptr; rhs._ptr = nullptr;
DoTake(t) ==
  LET Body(i) == <<>>
      i == Head(todo[t])
  IN  /\ Execute(t, "Take", Body)
      /\ ptr' = [[ptr EXCEPT ![i.p] = ptr[i.q]] EXCEPT ![i.q] = None]
      /\ UNCHANGED <<fresh, alive, refCount, raw, crash>>

\* RefCountable::AddRef
DoAddRef(t) ==
  LET Body(i) == <<>>
      o == Head(todo[t]).p
  IN  /\ Execute(t, "AddRef", Body)
      /\ refCount' = [refCount EXCEPT ![o] = @ + 1]
      /\ crash' = IF Gone(o) THEN "deleted object" ELSE crash
      /\ UNCHANGED <<fresh, alive, ptr, raw>>

\* RefCountable::ReleaseRef: the one that brings the count to 0 deletes the
\* object, with its member.
DoReleaseRef(t) ==
  LET Body(i) == IF refCount[i.p] = 1 THEN <<Release(i.p), Free(i.p)>> ELSE <<>>
      o == Head(todo[t]).p
  IN  /\ Execute(t, "ReleaseRef", Body)
      /\ refCount' = [refCount EXCEPT ![o] = @ - 1]
      /\ crash' = IF Gone(o) THEN "deleted object" ELSE crash
      /\ UNCHANGED <<fresh, alive, ptr, raw>>

\* The end of delete.
DoFree(t) ==
  LET Body(i) == <<>>
  IN  /\ Execute(t, "Free", Body)
      /\ alive' = alive \ {Head(todo[t]).p}
      /\ UNCHANGED <<fresh, refCount, ptr, raw, crash>>

Next ==
  \E t \in Threads :
    \/ \E o \in Objects : New(t, o)
    \/ ReleaseCreator(t)
    \/ \E p \in Locals :
         \/ SetMember(t, p) \/ Construct(t, p) \/ Destruct(t, p)
         \/ \E q \in Ptrs : CopyConstruct(t, p, q) \/ CopyAssign(t, p, q)
         \/ \E q \in Locals : MoveConstruct(t, p, q) \/ MoveAssign(t, p, q)
    \/ DoRelease(t) \/ DoNull(t) \/ DoSet(t) \/ DoTake(t)
    \/ DoAddRef(t) \/ DoReleaseRef(t) \/ DoFree(t)

Spec == Init /\ [][Next]_vars

-----------------------------------------------------------------------------
\* Where a call still has this instruction to execute.
Pending(instruction) ==
  UNION {{t} \X {i \in 1..Len(todo[t]) : todo[t][i] = instruction} : t \in Threads}

\* What a TSharedPtr refers to is alive, unless the call that has just released it
\* is about to clear the pointer; no call uses a deleted object, nor a right-hand
\* side inside one.
NoDangling ==
  /\ crash = "none"
  /\ \A p \in Ptrs :
       ptr[p] # None /\ ~Gone(p) => ptr[p] \in alive \/ Pending(Null(p)) # {}

\* The TSharedPtrs that refer to o and are counted: neither about to be cleared nor
\* still to be counted.
CountedBy(o) ==
  {p \in Ptrs : /\ ptr[p] = o /\ ~Gone(p)
                /\ Pending(Null(p)) = {} /\ Pending(AddRef(o, p)) = {}}

\* The count of an object is the number of the TSharedPtrs it has been counted for,
\* of its creator, and of the calls that are about to release it; when it is 0 the
\* object is being deleted, by one call.  So an object that nothing refers to any
\* more is never left behind.
CountExact ==
  crash = "none" => \A o \in alive :
    /\ refCount[o] = Cardinality(CountedBy(o)) + Cardinality({t \in Threads : raw[t] = o})
                       + Cardinality(Pending(ReleaseRef(o)))
    /\ Cardinality(Pending(Free(o))) = IF refCount[o] = 0 THEN 1 ELSE 0
=============================================================================
