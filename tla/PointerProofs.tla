--------------------------- MODULE PointerProofs ----------------------------
(***************************************************************************)
(* Proofs about the pointers of the library: RefCounting, for any finite    *)
(* sets of threads, pointers and objects, and so for chains of objects of   *)
(* any length; and then, under the heading "Casts", TypeCast, for any       *)
(* hierarchy of classes and any list.                                       *)
(*                                                                          *)
(* The count of an object is the number of its references (CountInv), so    *)
(* what has a counted reference is neither freed nor being deleted.  A      *)
(* reference that is still to be counted was copied from one that is        *)
(* counted, and that one stays until the call is over (AddInv): it is a     *)
(* local of the same thread, or the member of an object such a local refers *)
(* to.  Which pointers a call will clear can be read from its instructions  *)
(* (ShapeInv).                                                              *)
(*                                                                          *)
(* The cells of the conversion table before the current one are right       *)
(* (FilledInv), nobody reads the table before it is complete (GuardInv),    *)
(* and the index in an object is that of its nearest listed class           *)
(* (TypeIdMeans).                                                           *)
(***************************************************************************)
EXTENDS RefCounting, TypeCast, FiniteSetTheorems, FunctionTheorems,
        SequenceTheorems, WellFoundedInduction, TLAPS

\* Who calls new gives up the count, and no right-hand side dies with the left.
ProperUse == CreatorReleases /\ ~AssignOwnMember

Instructions ==
  {Release(p) : p \in Ptrs} \cup {Null(p) : p \in Ptrs}
    \cup {Set(x[1], x[2]) : x \in Ptrs \X Ptrs} \cup {Take(x[1], x[2]) : x \in Locals \X Locals}
    \cup {AddRef(x[1], x[2]) : x \in Objects \X Ptrs}
    \cup {ReleaseRef(o) : o \in Objects} \cup {Free(o) : o \in Objects}

TypeInv ==
  /\ fresh \subseteq Objects /\ alive \subseteq Objects /\ fresh \cap alive = {}
  /\ refCount \in [Objects -> Nat]
  /\ ptr \in [Ptrs -> Objects \cup {None}]
  /\ raw \in [Threads -> Objects \cup {None}]
  /\ todo \in [Threads -> Seq(Instructions)]
  /\ crash = "none"

\* The instructions of a call, outermost last.
At(t)     == 1..Len(todo[t])
Op(t, i)  == todo[t][i].op
Arg(t, i) == todo[t][i].p
Src(t, i) == todo[t][i].q

\* Whether instruction e leaves pointer p cleared.
Clears(e, p) == e.op \in {"Null", "Release"} /\ e.p = p

\* How the instructions of a call follow one another.
Shape(t, i) ==
  /\ Op(t, i) \in {"Release", "ReleaseRef"} => i = 1
  /\ Op(t, i) = "AddRef" => i = 1 /\ Len(todo[t]) = 1
  /\ Op(t, i) \in {"Set", "Take"} => i = Len(todo[t])
  /\ Op(t, i) \in {"Release", "Null"} /\ Arg(t, i) \in Objects =>
       i + 1 \in At(t) /\ Op(t, i + 1) = "Free" /\ Arg(t, i + 1) = Arg(t, i)
  /\ Op(t, i) \in {"Release", "Null"} /\ Arg(t, i) \notin Objects =>
       /\ Arg(t, i)[1] = t
       /\ i + 1 \in At(t) => Op(t, i + 1) \in {"Set", "Take"} /\ Arg(t, i + 1) = Arg(t, i)
  /\ Op(t, i) \in {"Free", "Set", "Take"} =>
       IF i = 1 THEN ptr[Arg(t, i)] = None ELSE Clears(todo[t][i - 1], Arg(t, i))
  /\ Op(t, i) = "Take" => Arg(t, i)[1] = t /\ Src(t, i)[1] = t

ShapeInv == \A t \in Threads : \A i \in At(t) : Shape(t, i)

\* Deletion: of an object with count 0, and once.
Freeing(t, i, o) == i \in At(t) /\ Op(t, i) = "Free" /\ Arg(t, i) = o

FreeInv ==
  /\ \A t \in Threads, o \in Objects : \A i \in At(t) :
       Freeing(t, i, o) => o \in alive /\ refCount[o] = 0
  /\ \A t, u \in Threads, o \in Objects : \A i \in At(t), j \in At(u) :
       Freeing(t, i, o) /\ Freeing(u, j, o) => t = u /\ i = j
  /\ \A o \in alive : refCount[o] = 0 => \E t \in Threads : \E i \in At(t) : Freeing(t, i, o)

\* A pointer a thread may set: a local, or the member of an object only it knows.
Dest(t, p) ==
  \/ p \in Locals /\ p[1] = t
  \/ p \in Objects /\ raw[t] = p /\ \A r \in Ptrs : ptr[r] # p

\* A pointer that stays as it is while the thread sets p.
Source(t, p, q) ==
  \/ q \in Locals /\ q[1] = t
  \/ q \in Objects /\ \E s \in Slots : <<t, s>> # p /\ ptr[<<t, s>>] = q

Setting(t, i) ==
  Op(t, i) = "Set" => Dest(t, Arg(t, i)) /\ Source(t, Arg(t, i), Src(t, i))
SetInv == \A t \in Threads : \A i \in At(t) : Setting(t, i)

\* The reference that is still to be counted, and the one it was copied from.
Adding(t, i) ==
  Op(t, i) = "AddRef" =>
    /\ Dest(t, Src(t, i)) /\ ptr[Src(t, i)] = Arg(t, i)
    /\ \/ raw[t] = Arg(t, i)
       \/ \E r \in Ptrs : r # Src(t, i) /\ ptr[r] = Arg(t, i) /\ Source(t, Src(t, i), r)
AddInv == \A t \in Threads : \A i \in At(t) : Adding(t, i)

\* Creators, and the members of what does not exist.
RawInv ==
  /\ \A t \in Threads : raw[t] \notin fresh
  /\ \A t, u \in Threads : raw[t] = raw[u] /\ raw[t] # None => t = u
  /\ \A o \in Objects \ alive : ptr[o] = None /\ refCount[o] = 0

\* The pointers a thread's call has still to clear or to count.
Mark(e)  == IF e.op = "Null" THEN {e.p} ELSE IF e.op = "AddRef" THEN {e.q} ELSE {}
Marks(t) == UNION {Mark(todo[t][i]) : i \in At(t)}
Marked   == UNION {Marks(t) : t \in Threads}

\* The references of an object.
Referrers(o)    == {p \in Ptrs : ptr[p] = o /\ p \notin Marked}
Creators(o)     == {t \in Threads : raw[t] = o}
Releasing(t, o) == todo[t] # <<>> /\ Op(t, 1) = "ReleaseRef" /\ Arg(t, 1) = o
Releasers(o)    == {t \in Threads : Releasing(t, o)}
References(o)   == Cardinality(Referrers(o)) + Cardinality(Creators(o)) + Cardinality(Releasers(o))

CountInv == \A o \in Objects : refCount[o] = References(o)

IInv == TypeInv /\ ShapeInv /\ FreeInv /\ SetInv /\ AddInv /\ RawInv /\ CountInv

-----------------------------------------------------------------------------
(* Instructions and calls.                                                  *)

LEMMA Fields ==
  /\ \A p : Release(p).op = "Release" /\ Release(p).p = p
  /\ \A p : Null(p).op = "Null" /\ Null(p).p = p
  /\ \A p, q : Set(p, q).op = "Set" /\ Set(p, q).p = p /\ Set(p, q).q = q
  /\ \A p, q : Take(p, q).op = "Take" /\ Take(p, q).p = p /\ Take(p, q).q = q
  /\ \A o, p : AddRef(o, p).op = "AddRef" /\ AddRef(o, p).p = o /\ AddRef(o, p).q = p
  /\ \A o : ReleaseRef(o).op = "ReleaseRef" /\ ReleaseRef(o).p = o
  /\ \A o : Free(o).op = "Free" /\ Free(o).p = o
BY DEF Release, Null, Set, Take, AddRef, ReleaseRef, Free

LEMMA Made ==
  /\ \A p \in Ptrs : Release(p) \in Instructions /\ Null(p) \in Instructions
  /\ \A p, q \in Ptrs : Set(p, q) \in Instructions
  /\ \A p, q \in Locals : Take(p, q) \in Instructions
  /\ \A o \in Objects, p \in Ptrs : AddRef(o, p) \in Instructions
  /\ \A o \in Objects : ReleaseRef(o) \in Instructions /\ Free(o) \in Instructions
<1>1. \A p, q \in Ptrs : Set(p, q) \in {Set(x[1], x[2]) : x \in Ptrs \X Ptrs}
  <2> TAKE p, q \in Ptrs
  <2>1. <<p, q>> \in Ptrs \X Ptrs /\ <<p, q>>[1] = p /\ <<p, q>>[2] = q  OBVIOUS
  <2> QED BY <2>1, Zenon
<1>2. \A p, q \in Locals : Take(p, q) \in {Take(x[1], x[2]) : x \in Locals \X Locals}
  <2> TAKE p, q \in Locals
  <2>1. <<p, q>> \in Locals \X Locals /\ <<p, q>>[1] = p /\ <<p, q>>[2] = q  OBVIOUS
  <2> QED BY <2>1, Zenon
<1>3. \A o \in Objects, p \in Ptrs : AddRef(o, p) \in {AddRef(x[1], x[2]) : x \in Objects \X Ptrs}
  <2> TAKE o \in Objects, p \in Ptrs
  <2>1. <<o, p>> \in Objects \X Ptrs /\ <<o, p>>[1] = o /\ <<o, p>>[2] = p  OBVIOUS
  <2> QED BY <2>1, Zenon
<1> QED BY <1>1, <1>2, <1>3, Zenon DEF Instructions

LEMMA Kinds ==
  ASSUME NEW e \in Instructions
  PROVE  /\ e.op \in {"Release", "Null", "Set", "Take", "AddRef", "ReleaseRef", "Free"}
         /\ e.op = "Release" => e.p \in Ptrs /\ e = Release(e.p)
         /\ e.op = "Null" => e.p \in Ptrs /\ e = Null(e.p)
         /\ e.op = "Set" => e.p \in Ptrs /\ e.q \in Ptrs
         /\ e.op = "Take" => e.p \in Locals /\ e.q \in Locals
         /\ e.op = "AddRef" => e.p \in Objects /\ e.q \in Ptrs /\ e = AddRef(e.p, e.q)
         /\ e.op = "ReleaseRef" => e.p \in Objects /\ e = ReleaseRef(e.p)
         /\ e.op = "Free" => e.p \in Objects /\ e = Free(e.p)
<1>1. CASE \E p \in Ptrs : e = Release(p) \/ e = Null(p)  BY <1>1, Fields
<1>2. CASE \E x \in Ptrs \X Ptrs : e = Set(x[1], x[2])  BY <1>2, Fields
<1>3. CASE \E x \in Locals \X Locals : e = Take(x[1], x[2])  BY <1>3, Fields
<1>4. CASE \E x \in Objects \X Ptrs : e = AddRef(x[1], x[2])  BY <1>4, Fields
<1>5. CASE \E o \in Objects : e = ReleaseRef(o) \/ e = Free(o)  BY <1>5, Fields
<1> QED BY <1>1, <1>2, <1>3, <1>4, <1>5, Zenon DEF Instructions

\* What is left of a call when its next instruction has been executed; t's call
\* goes on with body.
Left(t) == IF todo[t] = <<>> THEN <<>> ELSE Tail(todo[t])
Becomes(t, body) == todo' = [todo EXCEPT ![t] = body \o Left(t)]

LEMMA LeftIs ==
  ASSUME TypeInv, NEW t \in Threads
  PROVE  /\ todo[t] \in Seq(Instructions) /\ Len(todo[t]) \in Nat
         /\ Left(t) \in Seq(Instructions) /\ Len(Left(t)) \in Nat
         /\ todo[t] = <<>> => Len(Left(t)) = 0 /\ Len(todo[t]) = 0
         /\ todo[t] # <<>> => Len(Left(t)) = Len(todo[t]) - 1 /\ Len(todo[t]) > 0 /\ 1 \in At(t)
         /\ \A i \in At(t) : todo[t][i] \in Instructions
         /\ \A i \in 1..Len(Left(t)) : i + 1 \in At(t) /\ Left(t)[i] = todo[t][i + 1]
         /\ \A i \in At(t) : i # 1 => i - 1 \in 1..Len(Left(t))
<1>1. todo[t] \in Seq(Instructions) /\ Len(todo[t]) \in Nat  BY DEF TypeInv
<1>2. CASE todo[t] = <<>>
  <2>1. Left(t) = <<>>  BY <1>2 DEF Left
  <2> QED BY <1>1, <1>2, <2>1 DEF At
<1>3. CASE todo[t] # <<>>
  <2>1. Left(t) = Tail(todo[t])  BY <1>3 DEF Left
  <2>2. /\ Tail(todo[t]) \in Seq(Instructions)
        /\ Len(Tail(todo[t])) = Len(todo[t]) - 1
        /\ \A i \in 1..Len(Tail(todo[t])) : Tail(todo[t])[i] = todo[t][i + 1]
    BY <1>1, <1>3, HeadTailProperties
  <2>3. Len(todo[t]) > 0  BY <1>1, <1>3
  <2> QED BY <1>1, <1>3, <2>1, <2>2, <2>3 DEF At
<1> QED BY <1>2, <1>3

LEMMA BecomesIs ==
  ASSUME TypeInv, NEW t \in Threads, NEW body \in Seq(Instructions), Becomes(t, body)
  PROVE  /\ todo' \in [Threads -> Seq(Instructions)]
         /\ \A u \in Threads : u # t => todo'[u] = todo[u]
         /\ Len(body) \in Nat /\ Len(todo'[t]) = Len(body) + Len(Left(t))
         /\ \A i \in 1..Len(body) : todo'[t][i] = body[i]
         /\ \A i \in 1..Len(Left(t)) : todo'[t][Len(body) + i] = Left(t)[i]
<1>1. todo \in [Threads -> Seq(Instructions)]  BY DEF TypeInv
<1>2. Left(t) \in Seq(Instructions) /\ Len(Left(t)) \in Nat /\ Len(body) \in Nat  BY LeftIs
<1>3. /\ body \o Left(t) \in Seq(Instructions)
      /\ Len(body \o Left(t)) = Len(body) + Len(Left(t))
      /\ \A i \in 1..(Len(body) + Len(Left(t))) :
           (body \o Left(t))[i] = IF i <= Len(body) THEN body[i] ELSE Left(t)[i - Len(body)]
  BY <1>2, ConcatProperties
<1>4. todo'[t] = body \o Left(t)  BY <1>1 DEF Becomes
<1>5. todo' \in [Threads -> Seq(Instructions)] /\ \A u \in Threads : u # t => todo'[u] = todo[u]
  BY <1>1, <1>3 DEF Becomes
<1>6. \A i \in 1..Len(body) : i \in 1..(Len(body) + Len(Left(t))) /\ i <= Len(body)  BY <1>2
<1>7. \A i \in 1..Len(Left(t)) :
        /\ Len(body) + i \in 1..(Len(body) + Len(Left(t)))
        /\ ~(Len(body) + i <= Len(body)) /\ Len(body) + i - Len(body) = i
  BY <1>2
<1> QED BY <1>2, <1>3, <1>4, <1>5, <1>6, <1>7

-----------------------------------------------------------------------------
(* References.                                                              *)

LEMMA PtrsFinite ==
  /\ IsFiniteSet(Threads) /\ IsFiniteSet(Ptrs) /\ IsFiniteSet(Objects)
  /\ Objects \subseteq Ptrs /\ Objects \cap Locals = {} /\ None \notin Objects
  /\ \A p \in Ptrs : p \in Locals <=> p \notin Objects
  /\ \A p \in Locals : p[1] \in Threads /\ p[2] \in Slots /\ p = <<p[1], p[2]>>
  /\ \A t \in Threads, s \in Slots : <<t, s>> \in Locals /\ <<t, s>>[1] = t
<1>1. IsFiniteSet(Threads) /\ IsFiniteSet(Slots) /\ IsFiniteSet(Objects) /\ None \notin Objects
      /\ Objects \cap Locals = {}
  BY RefAssumption DEF Locals
<1>2. IsFiniteSet(Locals)  BY <1>1, FS_Product DEF Locals
<1>3. IsFiniteSet(Ptrs)  BY <1>1, <1>2, FS_Union DEF Ptrs
<1>4. \A p \in Locals : p[1] \in Threads /\ p[2] \in Slots /\ p = <<p[1], p[2]>>  BY DEF Locals
<1>5. \A t \in Threads, s \in Slots : <<t, s>> \in Locals /\ <<t, s>>[1] = t  BY DEF Locals
<1>6. Objects \subseteq Ptrs /\ \A p \in Ptrs : p \in Locals <=> p \notin Objects  BY <1>1 DEF Ptrs
<1> QED BY <1>1, <1>3, <1>4, <1>5, <1>6

LEMMA ReferencesFinite ==
  ASSUME NEW o
  PROVE  /\ IsFiniteSet(Referrers(o)) /\ IsFiniteSet(Creators(o)) /\ IsFiniteSet(Releasers(o))
         /\ Cardinality(Referrers(o)) \in Nat /\ Cardinality(Creators(o)) \in Nat
         /\ Cardinality(Releasers(o)) \in Nat
<1>1. Referrers(o) \subseteq Ptrs /\ Creators(o) \subseteq Threads /\ Releasers(o) \subseteq Threads
  BY DEF Referrers, Creators, Releasers
<1>2. IsFiniteSet(Referrers(o)) /\ IsFiniteSet(Creators(o)) /\ IsFiniteSet(Releasers(o))
  BY <1>1, PtrsFinite, FS_Subset
<1> QED BY <1>2, FS_CardinalityType

\* What has a reference is alive, and is not being deleted.
LEMMA Referred ==
  ASSUME TypeInv, RawInv, CountInv, NEW o \in Objects,
         \/ \E p : p \in Referrers(o)
         \/ \E t : t \in Creators(o)
         \/ \E t : t \in Releasers(o)
  PROVE  refCount[o] > 0 /\ o \in alive
<1>1. Referrers(o) # {} \/ Creators(o) # {} \/ Releasers(o) # {}  OBVIOUS
<1>2. /\ Cardinality(Referrers(o)) \in Nat /\ Cardinality(Creators(o)) \in Nat
      /\ Cardinality(Releasers(o)) \in Nat
      /\ Cardinality(Referrers(o)) = 0 <=> Referrers(o) = {}
      /\ Cardinality(Creators(o)) = 0 <=> Creators(o) = {}
      /\ Cardinality(Releasers(o)) = 0 <=> Releasers(o) = {}
  BY ReferencesFinite, FS_EmptySet
<1>3. refCount[o] = Cardinality(Referrers(o)) + Cardinality(Creators(o)) + Cardinality(Releasers(o))
  BY DEF CountInv, References
<1>4. refCount[o] > 0  BY <1>1, <1>2, <1>3
<1> QED BY <1>4 DEF RawInv

\* The pointers a call has still to clear or to count.
LEMMA MarkedIs ==
  ASSUME TypeInv, ShapeInv, FreeInv, AddInv, NEW t \in Threads, NEW p \in Marks(t)
  PROVE  /\ p \in Ptrs
         /\ p \in Locals => p[1] = t
         /\ p \in Objects => \/ p \in alive /\ refCount[p] = 0
                             \/ raw[t] = p /\ \A r \in Ptrs : ptr[r] # p
<1>1. PICK i \in At(t) : p \in Mark(todo[t][i])  BY DEF Marks
<1>2. todo[t][i] \in Instructions  BY LeftIs
<1>3. CASE Op(t, i) = "Null"
  <2>1. p = Arg(t, i) /\ p \in Ptrs  BY <1>1, <1>2, <1>3, Kinds DEF Mark, Op, Arg
  <2>2. Shape(t, i)  BY DEF ShapeInv
  <2>3. p \notin Objects => p[1] = t  BY <1>3, <2>1, <2>2 DEF Shape
  <2>4. ASSUME p \in Objects  PROVE p \in alive /\ refCount[p] = 0
    <3>1. Freeing(t, i + 1, p) /\ i + 1 \in At(t)  BY <1>3, <2>1, <2>2, <2>4 DEF Shape, Freeing
    <3> QED BY <2>4, <3>1 DEF FreeInv
  <2> QED BY <2>1, <2>3, <2>4, PtrsFinite
<1>4. CASE Op(t, i) = "AddRef"
  <2>1. p = Src(t, i) /\ p \in Ptrs  BY <1>1, <1>2, <1>4, Kinds DEF Mark, Op, Src
  <2>2. Dest(t, p)  BY <1>4, <2>1 DEF AddInv, Adding
  <2> QED BY <2>1, <2>2, PtrsFinite DEF Dest
<1> QED BY <1>1, <1>3, <1>4 DEF Mark, Op

\* A local of t that its call has not marked is counted.
LEMMA LocalCounts ==
  ASSUME IInv, NEW t \in Threads, NEW p \in Locals, p[1] = t, p \notin Marks(t), ptr[p] # None
  PROVE  ptr[p] \in Objects /\ p \in Referrers(ptr[p]) /\ refCount[ptr[p]] > 0 /\ ptr[p] \in alive
<1>1. p \in Ptrs  BY DEF Ptrs
<1>2. ptr[p] \in Objects  BY <1>1 DEF IInv, TypeInv
<1>3. p \notin Marked
  <2>1. ASSUME NEW u \in Threads, p \in Marks(u)  PROVE FALSE
    <3>1. p[1] = u  BY <2>1, MarkedIs DEF IInv
    <3> QED BY <2>1, <3>1
  <2> QED BY <2>1 DEF Marked
<1>4. p \in Referrers(ptr[p])  BY <1>1, <1>3 DEF Referrers
<1> QED BY <1>2, <1>4, Referred DEF IInv

\* So is the member of an object that a local of t refers to.
LEMMA MemberCounts ==
  ASSUME IInv, NEW t \in Threads, NEW p \in Locals, p[1] = t, p \notin Marks(t),
         NEW q \in Objects, ptr[p] = q
  PROVE  /\ refCount[q] > 0 /\ q \in alive /\ q \notin Marked /\ q \in Ptrs
         /\ ptr[q] # None => ptr[q] \in Objects /\ refCount[ptr[q]] > 0 /\ ptr[q] \in alive
<1>1. refCount[q] > 0 /\ q \in alive  BY LocalCounts, PtrsFinite
<1>2. q \in Ptrs /\ p \in Ptrs  BY DEF Ptrs
<1>3. q \notin Marked
  <2>1. ASSUME NEW u \in Threads, q \in Marks(u)  PROVE FALSE
    <3>1. (q \in alive /\ refCount[q] = 0) \/ \A r \in Ptrs : ptr[r] # q
      BY <2>1, MarkedIs DEF IInv
    <3> QED BY <3>1, <1>1, <1>2
  <2> QED BY <2>1 DEF Marked
<1>4. ASSUME ptr[q] # None  PROVE ptr[q] \in Objects /\ refCount[ptr[q]] > 0 /\ ptr[q] \in alive
  <2>1. ptr[q] \in Objects  BY <1>2, <1>4 DEF IInv, TypeInv
  <2>2. q \in Referrers(ptr[q])  BY <1>2, <1>3 DEF Referrers
  <2> QED BY <2>1, <2>2, Referred DEF IInv
<1> QED BY <1>1, <1>2, <1>3, <1>4

-----------------------------------------------------------------------------
(* The calls of the other threads.                                          *)

\* The pointers a step of t may set.
MayChange(t, r) == Dest(t, r) \/ (r \in Locals /\ todo[r[1]] = <<>>)

\* What a step of t does to pointers: it sets its own and those of idle threads, with
\* what another pointer or its creator's holds, and clears members of what it deletes.
Sets(t) ==
  /\ \A u \in Threads : u # t => todo'[u] = todo[u] /\ raw'[u] = raw[u]
  /\ ptr' \in [Ptrs -> Objects \cup {None}]
  /\ \A r \in Ptrs : \/ ptr'[r] = ptr[r] \/ MayChange(t, r)
                     \/ r \in Objects /\ refCount[r] = 0 /\ ptr'[r] = None
  /\ \A r \in Ptrs : ptr'[r] # None => ptr'[r] = raw[t] \/ \E x \in Ptrs : ptr'[r] = ptr[x]

\* Then the call of another thread u goes on as it would have.
LEMMA OthersKeep ==
  ASSUME IInv, NEW t \in Threads, Sets(t), NEW u \in Threads, u # t, NEW i \in At(u)
  PROVE  i \in At(u)' /\ Shape(u, i)' /\ Setting(u, i)' /\ Adding(u, i)'
<1>1. /\ TypeInv /\ Shape(u, i) /\ Setting(u, i) /\ Adding(u, i)
      /\ todo[u][i] \in Instructions /\ todo[u] # <<>> /\ Len(todo[u]) \in Nat
  <2>1. Len(todo[u]) # 0  BY LeftIs DEF IInv, At
  <2>2. todo[u] # <<>>  BY <2>1
  <2> QED BY <2>2, LeftIs DEF IInv, ShapeInv, SetInv, AddInv
<1>2. /\ todo'[u] = todo[u] /\ raw'[u] = raw[u] /\ At(u)' = At(u)
      /\ \A j : Op(u, j)' = Op(u, j) /\ Arg(u, j)' = Arg(u, j) /\ Src(u, j)' = Src(u, j)
  BY DEF Sets, At, Op, Arg, Src
\* u's locals, and the member of what it has created, stay.
<1>3. \A r \in Locals : r[1] = u => r \in Ptrs /\ ptr'[r] = ptr[r]
  <2> TAKE r \in Locals
  <2>1. r \in Ptrs /\ r \notin Objects  BY PtrsFinite DEF Ptrs
  <2> QED BY <2>1, <1>1 DEF Sets, MayChange, Dest
<1>4. ASSUME NEW r \in Objects, raw[u] = r  PROVE r \in Ptrs /\ ptr'[r] = ptr[r]
  <2>1. r \in Ptrs /\ r \notin Locals /\ r # None  BY PtrsFinite
  <2>2. raw[t] # r  BY <1>4, <2>1 DEF IInv, RawInv
  <2>3. refCount[r] > 0
    <3>1. u \in Creators(r)  BY <1>4 DEF Creators
    <3> QED BY <3>1, Referred DEF IInv
  <2>4. refCount[r] # 0  BY <2>3
  <2> QED BY <2>1, <2>2, <2>4 DEF Sets, MayChange, Dest
<1>5. ASSUME NEW p, Dest(u, p)  PROVE Dest(u, p)' /\ p \in Ptrs /\ ptr'[p] = ptr[p]
  <2>1. CASE p \in Locals /\ p[1] = u  BY <2>1, <1>3 DEF Dest
  <2>2. CASE p \in Objects /\ raw[u] = p /\ \A r \in Ptrs : ptr[r] # p
    <3>1. p # None /\ raw[t] # p  BY <2>2, PtrsFinite DEF IInv, RawInv
    <3>2. ASSUME NEW r \in Ptrs, ptr'[r] = p  PROVE FALSE
      BY <2>2, <3>1, <3>2 DEF Sets
    <3> QED BY <2>2, <3>2, <1>2, <1>4 DEF Dest
  <2> QED BY <2>1, <2>2, <1>5 DEF Dest
<1>6. ASSUME NEW p, NEW q, Source(u, p, q)  PROVE Source(u, p, q)'
  <2>1. \A s \in Slots : ptr'[<<u, s>>] = ptr[<<u, s>>]
    <3> TAKE s \in Slots
    <3>1. <<u, s>> \in Locals /\ <<u, s>>[1] = u  BY PtrsFinite
    <3> QED BY <3>1, <1>3
  <2> QED BY <2>1, <1>6 DEF Source
<1>7. Shape(u, i)'
  <2>1. \A p : Clears(todo[u][i - 1], p)' = Clears(todo[u][i - 1], p)  BY <1>2 DEF Clears
  <2>2. ASSUME Op(u, i) \in {"Free", "Set", "Take"}, i = 1  PROVE ptr'[Arg(u, i)] = None
    <3>0. ptr[Arg(u, i)] = None  BY <1>1, <2>2 DEF Shape
    <3>1. CASE Op(u, i) = "Free"
      <4>1. Arg(u, i) \in Objects  BY <1>1, <3>1, Kinds DEF Op, Arg
      <4>2. Freeing(u, i, Arg(u, i))  BY <3>1 DEF Freeing
      <4>3. refCount[Arg(u, i)] = 0  BY <4>1, <4>2 DEF IInv, FreeInv
      <4>4. raw[t] # Arg(u, i)
        <5>1. ASSUME raw[t] = Arg(u, i)  PROVE FALSE
          <6>1. t \in Creators(Arg(u, i))  BY <5>1 DEF Creators
          <6>2. refCount[Arg(u, i)] > 0  BY <4>1, <6>1, Referred DEF IInv
          <6> QED BY <6>2, <4>3
        <5> QED BY <5>1
      <4> QED BY <3>0, <4>1, <4>4, PtrsFinite DEF Sets, MayChange, Dest
    <3>2. CASE Op(u, i) = "Set"
      <4>1. Dest(u, Arg(u, i))  BY <1>1, <3>2 DEF Setting
      <4> QED BY <3>0, <4>1, <1>5
    <3>3. CASE Op(u, i) = "Take"
      <4>1. Arg(u, i) \in Locals /\ Arg(u, i)[1] = u  BY <1>1, <3>3, Kinds DEF Op, Arg, Shape
      <4> QED BY <3>0, <4>1, <1>3
    <3> QED BY <2>2, <3>1, <3>2, <3>3
  <2>3. Len(todo'[u]) = Len(todo[u])  BY <1>2
  <2> QED BY <1>1, <1>2, <2>1, <2>2, <2>3 DEF Shape
<1>8. Setting(u, i)'  BY <1>1, <1>2, <1>5, <1>6 DEF Setting
<1>9. Adding(u, i)'
  <2>1. SUFFICES ASSUME Op(u, i) = "AddRef" PROVE Adding(u, i)'
    BY <1>2 DEF Adding
  <2>a. PICK p : p = Src(u, i)  OBVIOUS
  <2>b. Dest(u, p) /\ ptr[p] = Arg(u, i)  BY <1>1, <2>1, <2>a DEF Adding
  <2>c. Dest(u, p)' /\ ptr'[p] = Arg(u, i)  BY <1>5, <2>b
  <2>d. Src(u, i)' = p  BY <1>2, <2>a
  <2>2. Dest(u, Src(u, i))' /\ ptr'[Src(u, i)] = Arg(u, i)  BY <2>a, <2>c, <2>d DEF Dest
  <2>3. CASE raw[u] = Arg(u, i)  BY <2>2, <2>3, <1>2 DEF Adding
  <2>4. CASE \E r \in Ptrs : r # Src(u, i) /\ ptr[r] = Arg(u, i) /\ Source(u, Src(u, i), r)
    <3>1. PICK r \in Ptrs : r # Src(u, i) /\ ptr[r] = Arg(u, i) /\ Source(u, Src(u, i), r)
      BY <2>4
    <3>2. CASE r \in Locals /\ r[1] = u
      <4>1. ptr'[r] = Arg(u, i)  BY <3>1, <3>2, <1>3
      <4> QED BY <3>1, <4>1, <2>2, <1>2, <1>6 DEF Adding
    <3>3. CASE r \in Objects
      <4>1. PICK s \in Slots : <<u, s>> # Src(u, i) /\ ptr[<<u, s>>] = r
        BY <3>1, <3>3, PtrsFinite DEF Source
      <4>2. <<u, s>> \in Locals /\ <<u, s>>[1] = u  BY PtrsFinite
      <4>3. <<u, s>> \notin Marks(u)
        <5>1. i = 1 /\ Len(todo[u]) = 1  BY <1>1, <2>1 DEF Shape
        <5>2. \A j \in At(u) : j = i  BY <5>1 DEF At
        <5>3. Mark(todo[u][i]) = {Src(u, i)}  BY <2>1 DEF Mark, Op, Src
        <5> QED BY <4>1, <5>2, <5>3 DEF Marks
      <4>4. refCount[r] > 0  BY <3>3, <4>1, <4>2, <4>3, MemberCounts
      <4>5. refCount[r] # 0  BY <4>4
      <4>6. ptr'[r] = ptr[r]  BY <3>3, <4>1, <4>2, <4>5, PtrsFinite DEF Sets, MayChange, Dest, Ptrs
      <4> QED BY <3>1, <4>6, <2>2, <1>2, <1>6 DEF Adding
    <3> QED BY <3>1, <3>2, <3>3 DEF Source
  <2> QED BY <1>1, <2>1, <2>3, <2>4 DEF Adding
<1> QED BY <1>2, <1>7, <1>8, <1>9

-----------------------------------------------------------------------------
(* The call of the thread that takes the step.                              *)

\* What is left of a call is set before or after Null and Free.
LEMMA LeftKinds ==
  ASSUME IInv, NEW t \in Threads, NEW j \in 1..Len(Left(t))
  PROVE  /\ Left(t)[j] \in Instructions /\ Left(t)[j].op \in {"Null", "Free", "Set", "Take"}
         /\ Left(t)[j].op \in {"Free", "Set", "Take"} => Clears(todo[t][j], Left(t)[j].p)
         /\ Left(t)[j].op \in {"Set", "Take"} => Left(t)[j].p \in Locals /\ Left(t)[j].p[1] = t
         /\ todo[t] # <<>> /\ Op(t, 1) \in {"Set", "Take", "AddRef"} => FALSE
<1>1. /\ j + 1 \in At(t) /\ Left(t)[j] = todo[t][j + 1] /\ todo[t][j + 1] \in Instructions
      /\ Len(todo[t]) \in Nat /\ j \in At(t) /\ j \in Nat /\ j + 1 # 1 /\ j + 1 - 1 = j
      /\ 1 \in At(t) /\ Len(todo[t]) # 1
  BY LeftIs DEF IInv, At
<1>2. Shape(t, j + 1) /\ Shape(t, j) /\ Shape(t, 1)  BY <1>1 DEF IInv, ShapeInv
<1>3. Left(t)[j].op \in {"Null", "Free", "Set", "Take"}
  <2>1. Op(t, j + 1) \notin {"Release", "ReleaseRef", "AddRef"}  BY <1>1, <1>2 DEF Shape
  <2> QED BY <2>1, <1>1, Kinds DEF Op
<1>4. Left(t)[j].op \in {"Free", "Set", "Take"} => Clears(todo[t][j], Left(t)[j].p)
  BY <1>1, <1>2 DEF Shape, Op, Arg
<1>5. ASSUME Left(t)[j].op \in {"Set", "Take"}
      PROVE  Left(t)[j].p \in Locals /\ Left(t)[j].p[1] = t
  <2>1. Op(t, j) \in {"Release", "Null"} /\ Arg(t, j) = Left(t)[j].p
    BY <1>4, <1>5 DEF Clears, Op, Arg
  <2>2. Op(t, j + 1) # "Free"  BY <1>1, <1>5 DEF Op
  <2>3. Arg(t, j) \notin Objects /\ Arg(t, j)[1] = t  BY <1>2, <2>1, <2>2 DEF Shape
  <2>4. Left(t)[j].p \in Ptrs
    <3>1. todo[t][j] \in Instructions  BY <1>1, LeftIs DEF IInv
    <3> QED BY <2>1, <3>1, Kinds DEF Op, Arg
  <2> QED BY <2>1, <2>3, <2>4, PtrsFinite
<1>6. todo[t] # <<>> /\ Op(t, 1) \in {"Set", "Take", "AddRef"} => FALSE
  BY <1>1, <1>2 DEF Shape
<1> QED BY <1>1, <1>3, <1>4, <1>5, <1>6

\* It goes on as before, if the new instructions, or the step itself, clear the
\* pointer that the old one would have cleared.
LEMMA LeftKeeps ==
  ASSUME IInv, NEW t \in Threads, NEW body \in Seq(Instructions), Becomes(t, body),
         NEW j \in 1..Len(Left(t)),
         j = 1 /\ Left(t)[1].op \in {"Free", "Set", "Take"} =>
           IF Len(body) = 0 THEN ptr'[Left(t)[1].p] = None
                            ELSE Clears(body[Len(body)], Left(t)[1].p),
         raw'[t] = raw[t],
         Left(t)[j].op = "Set" =>
           \A s \in Slots : <<t, s>> # Left(t)[j].p => ptr'[<<t, s>>] = ptr[<<t, s>>]
  PROVE  Shape(t, Len(body) + j)' /\ Setting(t, Len(body) + j)' /\ Adding(t, Len(body) + j)'
<1> DEFINE new == todo'[t]
<1>1. PICK b : b = Len(body)  OBVIOUS
<1>2. PICK i : i = b + j  OBVIOUS
<1>3. PICK m : m = Len(Left(t))  OBVIOUS
<1>4. /\ b \in Nat /\ m \in Nat /\ Len(new) = b + m /\ j \in 1..m
      /\ \A k \in 1..b : new[k] = body[k]
      /\ \A k \in 1..m : new[b + k] = Left(t)[k]
  BY <1>1, <1>3, BecomesIs, LeftIs DEF IInv
<1>5. /\ j \in At(t) /\ j + 1 \in At(t) /\ Len(todo[t]) = m + 1 /\ Left(t)[j] = todo[t][j + 1]
      /\ j + 1 # 1 /\ j + 1 - 1 = j /\ todo[t] # <<>>
      /\ \A k \in 1..m : Left(t)[k] = todo[t][k + 1]
  <2>1. todo[t] # <<>>  BY LeftIs DEF IInv
  <2> QED BY <2>1, <1>3, <1>4, LeftIs DEF IInv, At
<1>6. PICK e : e = Left(t)[j]  OBVIOUS
<1>7. /\ new[i] = e /\ Op(t, i)' = e.op /\ Arg(t, i)' = e.p /\ Src(t, i)' = e.q
      /\ Op(t, j + 1) = e.op /\ Arg(t, j + 1) = e.p /\ Src(t, j + 1) = e.q
  BY <1>2, <1>4, <1>5, <1>6 DEF Op, Arg, Src
<1>8. /\ e.op \in {"Null", "Free", "Set", "Take"} /\ e \in Instructions
      /\ e.op \in {"Set", "Take"} => e.p \in Locals /\ e.p[1] = t
  BY <1>6, LeftKinds
<1>9. Shape(t, j + 1) /\ Setting(t, j + 1)  BY <1>5 DEF IInv, ShapeInv, SetInv
<1>10. /\ j + 1 \in 1..m => i + 1 \in At(t)' /\ new[i + 1] = Left(t)[j + 1]
       /\ i + 1 \in At(t)' => j + 1 \in 1..m /\ j + 1 + 1 \in At(t)
       /\ j + 1 + 1 \in At(t) => j + 1 \in 1..m
       /\ j = m <=> i = Len(new)
       /\ j = m <=> j + 1 = Len(todo[t])
  <2>1. j + 1 \in 1..m => new[b + (j + 1)] = Left(t)[j + 1]  BY <1>4
  <2> QED BY <2>1, <1>2, <1>4, <1>5 DEF At
<1>11. Shape(t, i)'
  <2>1. i + 1 \in At(t)' => Op(t, i + 1)' = Op(t, j + 1 + 1) /\ Arg(t, i + 1)' = Arg(t, j + 1 + 1)
    BY <1>5, <1>10 DEF Op, Arg
  <2>2. ASSUME e.op \in {"Free", "Set", "Take"}
        PROVE  IF i = 1 THEN ptr'[e.p] = None ELSE Clears(new[i - 1], e.p)
    <3>1. CASE j = 1
      <4>1. CASE b = 0  BY <1>1, <1>2, <1>6, <2>2, <3>1, <4>1
      <4>2. CASE b # 0
        <5>1. i # 1 /\ i - 1 = b /\ b \in 1..b  BY <1>2, <1>4, <3>1, <4>2
        <5>2. new[i - 1] = body[b]  BY <1>4, <5>1
        <5>3. Clears(body[b], e.p)  BY <1>1, <1>6, <2>2, <3>1, <4>2
        <5> QED BY <5>1, <5>2, <5>3 DEF Clears
      <4> QED BY <4>1, <4>2
    <3>2. CASE j # 1
      <4>0. b \in Nat /\ m \in Nat /\ j \in 1..m  BY <1>4
      <4>1. j - 1 \in 1..m /\ i # 1 /\ i - 1 = b + (j - 1) /\ j - 1 + 1 = j
        BY <1>2, <3>2, <4>0
      <4>2. new[i - 1] = todo[t][j]  BY <1>4, <1>5, <4>1
      <4>3. Clears(todo[t][j], e.p)  BY <1>6, <2>2, LeftKinds
      <4> QED BY <4>1, <4>2, <4>3 DEF Clears
    <3> QED BY <3>1, <3>2
  <2>3. e.op \in {"Null"} /\ e.p \in Objects =>
          i + 1 \in At(t)' /\ Op(t, i + 1)' = "Free" /\ Arg(t, i + 1)' = e.p
    BY <1>7, <1>9, <1>10, <2>1 DEF Shape
  <2>4. e.op \in {"Null"} /\ e.p \notin Objects =>
          /\ e.p[1] = t
          /\ i + 1 \in At(t)' => Op(t, i + 1)' \in {"Set", "Take"} /\ Arg(t, i + 1)' = e.p
    BY <1>7, <1>9, <1>10, <2>1 DEF Shape
  <2>5. e.op \in {"Set", "Take"} => i = Len(new)  BY <1>7, <1>9, <1>10 DEF Shape
  <2>6. e.op = "Take" => e.p[1] = t /\ e.q[1] = t  BY <1>7, <1>9 DEF Shape
  <2>7. \A p : Clears(todo[t][i - 1], p)' <=> Clears(new[i - 1], p)  BY DEF Clears
  <2> HIDE DEF new
  <2>8. Op(t, i)' = e.op /\ Arg(t, i)' = e.p /\ Src(t, i)' = e.q  BY <1>7
  <2>9. Len(todo[t])' = Len(new)  BY DEF new
  <2> QED BY <1>8, <2>2, <2>3, <2>4, <2>5, <2>6, <2>7, <2>8, <2>9 DEF Shape
<1>12. Setting(t, i)'
  <2>1. SUFFICES ASSUME e.op = "Set" PROVE Dest(t, e.p)' /\ Source(t, e.p, e.q)'
    BY <1>7 DEF Setting
  <2>2. Source(t, e.p, e.q)  BY <1>7, <1>9, <2>1 DEF Setting
  <2>3. \A s \in Slots : <<t, s>> # e.p => ptr'[<<t, s>>] = ptr[<<t, s>>]
    BY <1>6, <2>1
  <2>4. Source(t, e.p, e.q)'  BY <2>2, <2>3 DEF Source
  <2> QED BY <1>8, <2>1, <2>4 DEF Dest
<1>13. Adding(t, i)'  BY <1>7, <1>8 DEF Adding
<1> QED BY <1>1, <1>2, <1>11, <1>12, <1>13

\* All calls after a step of t, from the instructions it adds to its own.
LEMMA CallsKeep ==
  ASSUME IInv, NEW t \in Threads, NEW body \in Seq(Instructions), Becomes(t, body), Sets(t),
         \A i \in 1..Len(body) : Shape(t, i)' /\ Setting(t, i)' /\ Adding(t, i)',
         Len(Left(t)) # 0 =>
           /\ raw'[t] = raw[t]
           /\ Left(t)[1].op \in {"Free", "Set", "Take"} =>
                IF Len(body) = 0 THEN ptr'[Left(t)[1].p] = None
                                 ELSE Clears(body[Len(body)], Left(t)[1].p)
           /\ \A j \in 1..Len(Left(t)) : Left(t)[j].op = "Set" =>
                \A s \in Slots : <<t, s>> # Left(t)[j].p => ptr'[<<t, s>>] = ptr[<<t, s>>]
  PROVE  ShapeInv' /\ SetInv' /\ AddInv' /\ todo' \in [Threads -> Seq(Instructions)]
<1>1. ASSUME NEW u \in Threads, NEW i \in At(u)'
      PROVE  Shape(u, i)' /\ Setting(u, i)' /\ Adding(u, i)'
  <2>1. CASE u # t
    <3>1. At(u)' = At(u)  BY <2>1, BecomesIs DEF IInv, At
    <3> QED BY <2>1, <3>1, OthersKeep
  <2>2. CASE u = t
    <3>1. PICK b : b = Len(body)  OBVIOUS
    <3>2. PICK m : m = Len(Left(t))  OBVIOUS
    <3>3. b \in Nat /\ m \in Nat /\ i \in 1..(b + m)  BY <2>2, <3>1, <3>2, BecomesIs, LeftIs DEF IInv, At
    <3>4. CASE i \in 1..b  BY <2>2, <3>1, <3>4
    <3>5. CASE i \notin 1..b
      <4>1. PICK j : j = i - b  OBVIOUS
      <4>2. j \in 1..m /\ i = b + j /\ m # 0  BY <3>3, <3>5, <4>1
      <4>3. Shape(t, Len(body) + j)' /\ Setting(t, Len(body) + j)' /\ Adding(t, Len(body) + j)'
        BY <3>2, <4>2, LeftKeeps
      <4>4. PICK k : k = Len(body) + j  OBVIOUS
      <4>5. Shape(t, k)' /\ Setting(t, k)' /\ Adding(t, k)'  BY <4>3, <4>4
      <4>6. k = i  BY <3>1, <4>2, <4>4
      <4> QED BY <2>2, <4>5, <4>6
    <3> QED BY <3>4, <3>5
  <2> QED BY <2>1, <2>2
<1>2. todo' \in [Threads -> Seq(Instructions)]  BY BecomesIs DEF IInv
<1> QED BY <1>1, <1>2 DEF ShapeInv, SetInv, AddInv

\* Where the deletions of a call are after the step.
LEMMA FreeMoves ==
  ASSUME TypeInv, NEW t \in Threads, NEW body \in Seq(Instructions), Becomes(t, body),
         NEW o, NEW i \in Int
  PROVE  Freeing(t, i, o)' <=> \/ i \in 1..Len(body) /\ body[i].op = "Free" /\ body[i].p = o
                               \/ i - Len(body) + 1 > 1 /\ Freeing(t, i - Len(body) + 1, o)
<1>1. PICK b : b = Len(body)  OBVIOUS
<1>2. PICK m : m = Len(Left(t))  OBVIOUS
<1>3. PICK k : k = i - b + 1  OBVIOUS
<1>4. PICK new : new = todo'[t]  OBVIOUS
<1>5. /\ b \in Nat /\ m \in Nat /\ Len(new) = b + m
      /\ \A x \in 1..b : new[x] = body[x]
      /\ \A x \in 1..m : new[b + x] = Left(t)[x] /\ x + 1 \in At(t) /\ Left(t)[x] = todo[t][x + 1]
      /\ \A x \in At(t) : x # 1 => x - 1 \in 1..m
  BY <1>1, <1>2, <1>4, BecomesIs, LeftIs
<1>6. Freeing(t, i, o)' <=> i \in 1..Len(new) /\ new[i].op = "Free" /\ new[i].p = o
  BY <1>4 DEF Freeing, At, Op, Arg
<1>7. At(t) \subseteq Nat  BY LeftIs DEF At
<1>8. CASE i \in 1..b
  <2>1. i \in 1..Len(new) /\ new[i] = body[i] /\ ~(k > 1)  BY <1>3, <1>5, <1>8
  <2> QED BY <1>1, <1>3, <1>6, <1>8, <2>1
<1>9. CASE i \notin 1..b
  <2>1. i \in 1..Len(new) <=> k - 1 \in 1..m  BY <1>3, <1>5, <1>9
  <2>2. k > 1 /\ k \in At(t) <=> k - 1 \in 1..m
    <3>1. k \in Int /\ (k > 1 => k # 1)  BY <1>3, <1>5
    <3>2. k - 1 \in 1..m => k > 1 /\ k - 1 + 1 = k  BY <1>3, <1>5
    <3> QED BY <1>5, <3>1, <3>2
  <2>3. k - 1 \in 1..m => new[i] = todo[t][k]
    <3>1. b + (k - 1) = i /\ k - 1 + 1 = k  BY <1>3, <1>5
    <3>2. k - 1 \in 1..m => new[b + (k - 1)] = todo[t][k - 1 + 1]  BY <1>5
    <3> QED BY <3>1, <3>2
  <2>4. Freeing(t, i, o)' <=> k > 1 /\ Freeing(t, k, o)  BY <1>6, <2>1, <2>2, <2>3 DEF Freeing, Op, Arg
  <2> QED BY <1>1, <1>3, <1>9, <2>4
<1> QED BY <1>8, <1>9

\* A step that neither begins nor ends a deletion.
LEMMA FreeKeeps ==
  ASSUME IInv, NEW t \in Threads, NEW body \in Seq(Instructions), Becomes(t, body),
         \A i \in 1..Len(body) : body[i].op # "Free",
         todo[t] # <<>> => Op(t, 1) # "Free",
         \A o \in Objects : o \in alive' /\ refCount'[o] = 0 <=> o \in alive /\ refCount[o] = 0,
         alive' \subseteq Objects
  PROVE  FreeInv'
<1>0. TypeInv /\ FreeInv /\ Len(body) \in Nat  BY BecomesIs DEF IInv
<1>1. ASSUME NEW u \in Threads, NEW i \in At(u)', NEW o
      PROVE  i \in Int /\ (Freeing(u, i, o)' <=>
               IF u = t THEN Freeing(t, i - Len(body) + 1, o) ELSE Freeing(u, i, o))
  <2>0. i \in Int
    <3>1. Len(todo'[u]) \in Nat
      <4>1. todo'[u] \in Seq(Instructions)  BY <1>0, BecomesIs
      <4> QED BY <4>1
    <3> QED BY <3>1 DEF At
  <2>1. CASE u = t
    <3>1. ASSUME Freeing(t, i - Len(body) + 1, o)  PROVE i - Len(body) + 1 > 1
      <4>1. PICK k : k = i - Len(body) + 1  OBVIOUS
      <4>2. k \in At(t) /\ Op(t, k) = "Free"  BY <3>1, <4>1 DEF Freeing
      <4>4. k \in 1..Len(todo[t]) /\ Len(todo[t]) \in Nat  BY <4>2, LeftIs, <1>0 DEF At
      <4>a. Len(todo[t]) # 0 /\ (todo[t] = <<>> => Len(todo[t]) = 0)  BY <4>4, LeftIs, <1>0
      <4>3. k # 1  BY <4>2, <4>a
      <4>5. k > 1  BY <4>3, <4>4
      <4> QED BY <4>1, <4>5
    <3>2. Freeing(t, i, o)' <=> \/ i \in 1..Len(body) /\ body[i].op = "Free" /\ body[i].p = o
                                \/ i - Len(body) + 1 > 1 /\ Freeing(t, i - Len(body) + 1, o)
      BY <1>0, <2>0, FreeMoves
    <3>3. Freeing(t, i, o)' <=> Freeing(t, i - Len(body) + 1, o)  BY <3>1, <3>2
    <3> QED BY <2>0, <2>1, <3>3
  <2>2. CASE u # t
    <3>1. todo'[u] = todo[u]  BY <1>0, <2>2, BecomesIs
    <3> QED BY <2>0, <2>2, <3>1 DEF Freeing, At, Op, Arg
  <2> QED BY <2>1, <2>2
<1>2. ASSUME NEW u \in Threads, NEW o \in Objects, NEW i \in At(u)', Freeing(u, i, o)'
      PROVE  o \in alive' /\ refCount'[o] = 0
  <2>1. \E k : Freeing(u, k, o)  BY <1>1, <1>2
  <2>2. \E k \in At(u) : Freeing(u, k, o)  BY <2>1 DEF Freeing
  <2> QED BY <2>2, <1>0 DEF FreeInv
<1>3. ASSUME NEW u \in Threads, NEW v \in Threads, NEW o \in Objects,
             NEW i \in At(u)', NEW j \in At(v)', Freeing(u, i, o)', Freeing(v, j, o)'
      PROVE  u = v /\ i = j
  <2>0. i \in Int /\ j \in Int  BY <1>1
  <2>1. PICK x : x = IF u = t THEN i - Len(body) + 1 ELSE i  OBVIOUS
  <2>2. PICK y : y = IF v = t THEN j - Len(body) + 1 ELSE j  OBVIOUS
  <2>3. Freeing(u, x, o) /\ Freeing(v, y, o)  BY <1>1, <1>3, <2>1, <2>2
  <2>4. u = v /\ x = y  BY <2>3, <1>0 DEF FreeInv, Freeing
  <2>5. CASE u = t  BY <1>0, <2>0, <2>1, <2>2, <2>4, <2>5
  <2>6. CASE u # t  BY <2>1, <2>2, <2>4, <2>6
  <2> QED BY <2>5, <2>6
<1>4. ASSUME NEW o \in alive', refCount'[o] = 0
      PROVE  \E u \in Threads : \E i \in At(u)' : Freeing(u, i, o)'
  <2>1. o \in Objects /\ o \in alive /\ refCount[o] = 0  BY <1>4
  <2>a. PICK u \in Threads : \E k \in At(u) : Freeing(u, k, o)  BY <2>1, <1>0 DEF FreeInv
  <2>2. PICK k \in At(u) : Freeing(u, k, o)  BY <2>a
  <2>3. CASE u # t
    <3>1. todo'[u] = todo[u]  BY <1>0, <2>3, BecomesIs
    <3>2. k \in At(u)' /\ Freeing(u, k, o)'  BY <2>2, <3>1 DEF Freeing, At, Op, Arg
    <3> QED BY <3>2
  <2>4. CASE u = t
    <3>0. k \in 1..Len(todo[t]) /\ Len(todo[t]) \in Nat  BY <2>2, <2>4, LeftIs, <1>0 DEF At
    <3>1. Op(t, k) = "Free" /\ todo[t] # <<>>
      <4>1. Len(todo[t]) # 0  BY <3>0
      <4>2. todo[t] = <<>> => Len(todo[t]) = 0  BY LeftIs, <1>0
      <4> QED BY <2>2, <2>4, <4>1, <4>2 DEF Freeing
    <3>2. k > 1
      <4>1. k # 1  BY <3>1
      <4> QED BY <3>0, <4>1
    <3>3. PICK i : i = k + Len(body) - 1  OBVIOUS
    <3>4. i \in Int /\ i - Len(body) + 1 = k  BY <3>0, <3>3, <1>0
    <3>5. i - Len(body) + 1 > 1 /\ Freeing(t, i - Len(body) + 1, o)  BY <2>2, <2>4, <3>2, <3>4
    <3>6. Freeing(t, i, o)'  BY <1>0, <3>4, <3>5, FreeMoves
    <3>7. i \in At(t)'  BY <3>6 DEF Freeing
    <3> QED BY <2>4, <3>6, <3>7
  <2> QED BY <2>3, <2>4
<1> QED BY <1>2, <1>3, <1>4 DEF FreeInv

\* The marks of the calls after the step, and the calls about to release.
LeftMarks(t)  == UNION {Mark(Left(t)[i]) : i \in 1..Len(Left(t))}
OtherMarks(t) == UNION {Marks(u) : u \in Threads \ {t}}

LEMMA MarksAre ==
  ASSUME TypeInv, NEW t \in Threads
  PROVE  /\ Marked = Marks(t) \cup OtherMarks(t)
         /\ Marks(t) = (IF todo[t] = <<>> THEN {} ELSE Mark(todo[t][1])) \cup LeftMarks(t)
<1>1. Marked = Marks(t) \cup OtherMarks(t)  BY DEF Marked, OtherMarks
<1>2. CASE todo[t] = <<>>
  <2>1. At(t) = {} /\ 1..Len(Left(t)) = {}  BY <1>2, LeftIs DEF At
  <2>2. Marks(t) = {} /\ LeftMarks(t) = {}  BY <2>1 DEF Marks, LeftMarks
  <2> QED BY <1>1, <1>2, <2>2
<1>3. CASE todo[t] # <<>>
  <2>1. /\ 1 \in At(t) /\ At(t) \subseteq Nat
        /\ \A i \in 1..Len(Left(t)) : i + 1 \in At(t) /\ Left(t)[i] = todo[t][i + 1]
        /\ \A i \in At(t) : i # 1 => i - 1 \in 1..Len(Left(t)) /\ i - 1 + 1 = i
    BY <1>3, LeftIs DEF At
  <2>2. ASSUME NEW i \in At(t)  PROVE Mark(todo[t][i]) \subseteq Mark(todo[t][1]) \cup LeftMarks(t)
    <3>1. CASE i = 1  BY <3>1
    <3>2. CASE i # 1
      <4>1. i - 1 \in 1..Len(Left(t)) /\ Left(t)[i - 1] = todo[t][i]  BY <2>1, <3>2
      <4> QED BY <4>1 DEF LeftMarks
    <3> QED BY <3>1, <3>2
  <2>3. ASSUME NEW i \in 1..Len(Left(t))  PROVE Mark(Left(t)[i]) \subseteq Marks(t)
    BY <2>1 DEF Marks
  <2>4. Marks(t) \subseteq Mark(todo[t][1]) \cup LeftMarks(t)  BY <2>2 DEF Marks
  <2>5. LeftMarks(t) \subseteq Marks(t)  BY <2>3 DEF LeftMarks
  <2>6. Mark(todo[t][1]) \subseteq Marks(t)  BY <2>1 DEF Marks
  <2> QED BY <1>1, <1>3, <2>4, <2>5, <2>6
<1> QED BY <1>2, <1>3

LEMMA MarksMove ==
  ASSUME TypeInv, NEW t \in Threads, NEW body \in Seq(Instructions), Becomes(t, body)
  PROVE  Marked' = (UNION {Mark(body[i]) : i \in 1..Len(body)}) \cup LeftMarks(t) \cup OtherMarks(t)
<1>1. \A u \in Threads \ {t} : Marks(u)' = Marks(u)  BY BecomesIs DEF Marks, At, Mark
<1>2. OtherMarks(t)' = OtherMarks(t)  BY <1>1 DEF OtherMarks
<1>3. PICK new : new = todo'[t]  OBVIOUS
<1>4. PICK b : b = Len(body)  OBVIOUS
<1>5. PICK m : m = Len(Left(t))  OBVIOUS
<1>6. /\ b \in Nat /\ m \in Nat /\ Len(new) = b + m
      /\ \A i \in 1..b : new[i] = body[i]
      /\ \A i \in 1..m : new[b + i] = Left(t)[i]
  BY <1>3, <1>4, <1>5, BecomesIs, LeftIs
<1> DEFINE B == UNION {Mark(body[i]) : i \in 1..Len(body)}
           N == UNION {Mark(new[i]) : i \in 1..(b + m)}
<1>7. Marks(t)' = N  BY <1>3, <1>6 DEF Marks, At, Mark
<1>8. ASSUME NEW i \in 1..(b + m)  PROVE Mark(new[i]) \subseteq B \cup LeftMarks(t)
  <2>1. CASE i \in 1..b
    <3>1. Mark(body[i]) \subseteq B  BY <1>4, <2>1
    <3> QED BY <1>6, <2>1, <3>1
  <2>2. CASE i \notin 1..b
    <3>1. PICK k : k = i - b  OBVIOUS
    <3>2. k \in 1..m /\ i = b + k  BY <1>6, <2>2, <3>1
    <3>3. new[i] = Left(t)[k]  BY <1>6, <3>2
    <3>4. Mark(Left(t)[k]) \subseteq LeftMarks(t)  BY <1>5, <3>2 DEF LeftMarks
    <3> QED BY <3>3, <3>4
  <2> QED BY <2>1, <2>2
<1>9. ASSUME NEW i \in 1..Len(body)  PROVE Mark(body[i]) \subseteq N
  <2>1. i \in 1..(b + m) /\ new[i] = body[i]  BY <1>4, <1>6
  <2> QED BY <2>1
<1>10. ASSUME NEW i \in 1..Len(Left(t))  PROVE Mark(Left(t)[i]) \subseteq N
  <2>1. b + i \in 1..(b + m) /\ new[b + i] = Left(t)[i]  BY <1>5, <1>6
  <2> QED BY <2>1
<1>11. LeftMarks(t) \subseteq N  BY <1>10 DEF LeftMarks
<1>12. B \subseteq N  BY <1>9
<1>13. N \subseteq B \cup LeftMarks(t)  BY <1>8
<1>14. Marked' = Marks(t)' \cup OtherMarks(t)'  BY DEF Marked, OtherMarks
<1> HIDE DEF B, N
<1>15. Marked' = B \cup LeftMarks(t) \cup OtherMarks(t)  BY <1>2, <1>7, <1>11, <1>12, <1>13, <1>14
<1> QED BY <1>15 DEF B

LEMMA ReleasersMove ==
  ASSUME IInv, NEW t \in Threads, NEW body \in Seq(Instructions), Becomes(t, body), NEW o
  PROVE  /\ \A u \in Threads : u # t => (Releasing(u, o)' <=> Releasing(u, o))
         /\ Releasing(t, o)' <=> Len(body) # 0 /\ body[1].op = "ReleaseRef" /\ body[1].p = o
<1>1. \A u \in Threads : u # t => (Releasing(u, o)' <=> Releasing(u, o))
  BY BecomesIs DEF IInv, Releasing, Op, Arg
<1>2. PICK new : new = todo'[t]  OBVIOUS
<1>3. /\ Len(body) \in Nat /\ Len(Left(t)) \in Nat /\ Len(new) = Len(body) + Len(Left(t))
      /\ \A i \in 1..Len(body) : new[i] = body[i]
      /\ \A i \in 1..Len(Left(t)) : new[Len(body) + i] = Left(t)[i]
      /\ new \in Seq(Instructions)
  BY <1>2, BecomesIs, LeftIs DEF IInv
<1>4. Releasing(t, o)' <=> new # <<>> /\ new[1].op = "ReleaseRef" /\ new[1].p = o
  BY <1>2 DEF Releasing, Op, Arg
<1>5. CASE Len(body) # 0
  <2>1. new[1] = body[1] /\ Len(new) # 0  BY <1>3, <1>5
  <2>2. new # <<>>  BY <2>1
  <2> QED BY <1>1, <1>4, <1>5, <2>1, <2>2
<1>6. CASE Len(body) = 0
  <2>1. ASSUME new # <<>>  PROVE new[1].op # "ReleaseRef"
    <3>1. Len(new) # 0  BY <1>3, <2>1
    <3>2. 1 \in 1..Len(Left(t)) /\ Len(body) + 1 = 1  BY <1>3, <1>6, <3>1
    <3>3. new[1] = Left(t)[1]  BY <1>3, <3>2
    <3>4. Left(t)[1].op \in {"Null", "Free", "Set", "Take"}  BY <3>2, LeftKinds
    <3> QED BY <3>3, <3>4
  <2> QED BY <1>1, <1>4, <1>6, <2>1
<1> QED BY <1>5, <1>6

-----------------------------------------------------------------------------
(* The actions: first the calls, then their instructions.                   *)

\* The call of an idle thread, and the next instruction of another.
LEMMA IdleBecomes ==
  ASSUME TypeInv, NEW t \in Threads, todo[t] = <<>>, NEW body \in Seq(Instructions), Call(t, body)
  PROVE  Becomes(t, body) /\ Left(t) = <<>> /\ Len(Left(t)) = 0
<1>1. Left(t) = <<>> /\ body \o <<>> = body  BY ConcatEmptySeq DEF Left
<1> QED BY <1>1 DEF Call, Becomes

LEMMA ExecuteBecomes ==
  ASSUME TypeInv, NEW t \in Threads, todo[t] # <<>>, NEW body \in Seq(Instructions),
         Call(t, body \o Tail(todo[t]))
  PROVE  Becomes(t, body)
BY DEF Call, Becomes, Left

LEMMA HeadIs ==
  ASSUME TypeInv, NEW t \in Threads, todo[t] # <<>>
  PROVE  /\ Head(todo[t]) = todo[t][1] /\ Head(todo[t]) \in Instructions /\ 1 \in At(t)
         /\ Head(todo[t]).op = Op(t, 1) /\ Head(todo[t]).p = Arg(t, 1) /\ Head(todo[t]).q = Src(t, 1)
<1>1. 1 \in At(t) /\ todo[t] \in Seq(Instructions) /\ todo[t][1] \in Instructions  BY LeftIs
<1>2. Head(todo[t]) = todo[t][1]  BY <1>1
<1> QED BY <1>1, <1>2 DEF Op, Arg, Src

\* The counts, when nothing is counted, released or forgotten.
LEMMA CountsStay ==
  ASSUME CountInv, refCount' = refCount,
         \A o \in Objects : /\ Referrers(o)' = Referrers(o) /\ Creators(o)' = Creators(o)
                            /\ Releasers(o)' = Releasers(o)
  PROVE  CountInv'
BY DEF CountInv, References

\* A step that changes nothing but the instructions, none of which count or release.
LEMMA QuietStep ==
  ASSUME IInv, NEW t \in Threads, NEW body \in Seq(Instructions), Becomes(t, body),
         UNCHANGED <<fresh, alive, refCount, ptr, raw, crash>>,
         \A i \in 1..Len(body) :
           body[i].op \in {"Release", "Set", "Take"} /\ Shape(t, i)' /\ Setting(t, i)',
         \/ todo[t] = <<>>
         \/ /\ Len(body) = 0 /\ todo[t] # <<>> /\ Op(t, 1) \in {"Release", "Set", "Take"}
            /\ ptr[Arg(t, 1)] = None
  PROVE  IInv'
<1>1. TypeInv  BY DEF IInv
<1>2. /\ Len(body) \in Nat /\ \A i \in 1..Len(body) : todo'[t][i] = body[i]
      /\ todo' \in [Threads -> Seq(Instructions)] /\ \A u \in Threads : u # t => todo'[u] = todo[u]
  BY <1>1, BecomesIs
<1>3. Sets(t)
  <2>1. ptr \in [Ptrs -> Objects \cup {None}] /\ ptr' = ptr  BY <1>1 DEF TypeInv
  <2> QED BY <1>2, <2>1 DEF Sets
<1>4. \A i \in 1..Len(body) : Adding(t, i)'
  <2> TAKE i \in 1..Len(body)
  <2>1. Op(t, i)' # "AddRef"  BY <1>2 DEF Op
  <2> QED BY <2>1 DEF Adding
<1>5. Len(Left(t)) # 0 =>
        (Left(t)[1].op \in {"Free", "Set", "Take"} => Len(body) = 0 /\ ptr'[Left(t)[1].p] = None)
  <2> SUFFICES ASSUME Len(Left(t)) # 0, Left(t)[1].op \in {"Free", "Set", "Take"}
               PROVE  Len(body) = 0 /\ ptr'[Left(t)[1].p] = None
    OBVIOUS
  <2>1. Len(body) = 0 /\ ptr[Arg(t, 1)] = None  BY <1>1, LeftIs
  <2>2. 1 \in 1..Len(Left(t))  BY <1>1, LeftIs
  <2>3. Clears(todo[t][1], Left(t)[1].p)  BY <2>2, LeftKinds
  <2> QED BY <2>1, <2>3 DEF Clears, Arg
<1>6. ShapeInv' /\ SetInv' /\ AddInv'
  <2>1. Len(Left(t)) # 0 =>
           /\ raw'[t] = raw[t]
           /\ Left(t)[1].op \in {"Free", "Set", "Take"} =>
                IF Len(body) = 0 THEN ptr'[Left(t)[1].p] = None
                                 ELSE Clears(body[Len(body)], Left(t)[1].p)
           /\ \A j \in 1..Len(Left(t)) : Left(t)[j].op = "Set" =>
                \A s \in Slots : <<t, s>> # Left(t)[j].p => ptr'[<<t, s>>] = ptr[<<t, s>>]
    BY <1>5
  <2> QED BY <1>3, <1>4, <2>1, CallsKeep
<1>7. TypeInv'  BY <1>1, <1>2 DEF TypeInv
<1>8. FreeInv'
  <2>1. todo[t] # <<>> => Op(t, 1) # "Free"  OBVIOUS
  <2>2. \A i \in 1..Len(body) : body[i].op # "Free"  OBVIOUS
  <2>3. alive' \subseteq Objects  BY <1>1 DEF TypeInv
  <2> QED BY <2>1, <2>2, <2>3, FreeKeeps
<1>9. RawInv'  BY DEF IInv, RawInv
<1>10. Marked' = Marked
  <2>1. \A i \in 1..Len(body) : Mark(body[i]) = {}  BY DEF Mark
  <2>2. (UNION {Mark(body[i]) : i \in 1..Len(body)}) = {}  BY <2>1
  <2>3. todo[t] # <<>> => Mark(todo[t][1]) = {}  BY DEF Mark, Op
  <2>4. Marked = LeftMarks(t) \cup OtherMarks(t)  BY <1>1, <2>3, MarksAre
  <2>5. Marked' = (UNION {Mark(body[i]) : i \in 1..Len(body)}) \cup LeftMarks(t) \cup OtherMarks(t)
    BY <1>1, MarksMove
  <2> QED BY <2>2, <2>4, <2>5
<1>11. ASSUME NEW o \in Objects
       PROVE  /\ Referrers(o)' = Referrers(o) /\ Creators(o)' = Creators(o)
              /\ Releasers(o)' = Releasers(o)
  <2>1. Referrers(o)' = Referrers(o) /\ Creators(o)' = Creators(o)
    BY <1>10 DEF Referrers, Creators
  <2>2. /\ \A u \in Threads : u # t => (Releasing(u, o)' <=> Releasing(u, o))
        /\ Releasing(t, o)' <=> Len(body) # 0 /\ body[1].op = "ReleaseRef" /\ body[1].p = o
    BY ReleasersMove
  <2>3. Len(body) # 0 => 1 \in 1..Len(body)  BY <1>2
  <2>4. ~Releasing(t, o)' /\ ~Releasing(t, o)  BY <2>2, <2>3 DEF Releasing
  <2> QED BY <2>1, <2>2, <2>4 DEF Releasers
<1>12. CountInv'  BY <1>11, CountsStay DEF IInv
<1> QED BY <1>6, <1>7, <1>8, <1>9, <1>12 DEF IInv

\* The instructions of a call that begins.
LEMMA IdleCall ==
  ASSUME TypeInv, NEW t \in Threads, todo[t] = <<>>, NEW body \in Seq(Instructions), Call(t, body)
  PROVE  /\ Becomes(t, body) /\ Len(Left(t)) = 0 /\ At(t)' = 1..Len(body)
         /\ Len(todo[t])' = Len(body) /\ todo'[t] = body
         /\ \A i : Op(t, i)' = body[i].op /\ Arg(t, i)' = body[i].p /\ Src(t, i)' = body[i].q
<1>1. Becomes(t, body) /\ Len(Left(t)) = 0  BY IdleBecomes
<1>2. todo'[t] = body  BY DEF TypeInv, Call
<1> QED BY <1>1, <1>2 DEF At, Op, Arg, Src

LEMMA OneInstruction ==
  ASSUME NEW a \in Instructions
  PROVE  <<a>> \in Seq(Instructions) /\ Len(<<a>>) = 1 /\ <<a>>[1] = a /\ \A i \in 1..Len(<<a>>) : i = 1
OBVIOUS

LEMMA TwoInstructions ==
  ASSUME NEW a \in Instructions, NEW b \in Instructions
  PROVE  /\ <<a, b>> \in Seq(Instructions) /\ Len(<<a, b>>) = 2 /\ <<a, b>>[1] = a /\ <<a, b>>[2] = b
         /\ \A i \in 1..Len(<<a, b>>) : i = 1 \/ i = 2
OBVIOUS

LEMMA SetMemberStep ==
  ASSUME IInv, NEW t \in Threads, NEW q \in Locals, SetMember(t, q)
  PROVE  IInv'
<1>1. /\ todo[t] = <<>> /\ raw[t] \in Objects /\ q[1] = t /\ ptr[raw[t]] = None
      /\ \A p \in Ptrs : ptr[p] # raw[t]
      /\ UNCHANGED <<fresh, alive, refCount, ptr, raw, crash>> /\ TypeInv
  BY DEF SetMember, Idle, IInv, TypeInv
<1>2. PICK m : m = raw[t]  OBVIOUS
<1>3. PICK a : a = Set(m, q)  OBVIOUS
<1>4. a \in Instructions /\ m \in Objects /\ m \notin Locals  BY <1>1, <1>2, <1>3, Made, PtrsFinite DEF Ptrs
<1>5. PICK body : body = <<a>>  OBVIOUS
<1>6. body \in Seq(Instructions) /\ Len(body) = 1 /\ body[1] = a /\ \A i \in 1..Len(body) : i = 1
  BY <1>4, <1>5, OneInstruction
<1>7. Call(t, body)  BY <1>2, <1>3, <1>5 DEF SetMember
<1>8. /\ Becomes(t, body) /\ Len(todo[t])' = 1
      /\ Op(t, 1)' = "Set" /\ Arg(t, 1)' = m /\ Src(t, 1)' = q
  BY <1>1, <1>3, <1>6, <1>7, IdleCall, Fields
<1>9. Shape(t, 1)'  BY <1>1, <1>2, <1>8 DEF Shape
<1>10. Setting(t, 1)'
  <2>1. Dest(t, m)' /\ Source(t, m, q)'  BY <1>1, <1>2, <1>4 DEF Dest, Source
  <2> QED BY <1>8, <2>1 DEF Setting, Dest, Source
<1>11. body[1].op = "Set"  BY <1>3, <1>6, Fields
<1> QED BY <1>1, <1>6, <1>8, <1>9, <1>10, <1>11, QuietStep

LEMMA CopyConstructStep ==
  ASSUME IInv, NEW t \in Threads, NEW p \in Locals, NEW q \in Ptrs, CopyConstruct(t, p, q)
  PROVE  IInv'
<1>1. /\ todo[t] = <<>> /\ p[1] = t /\ ptr[p] = None /\ q \in Readable(t)
      /\ UNCHANGED <<fresh, alive, refCount, ptr, raw, crash>> /\ TypeInv
  BY DEF CopyConstruct, Idle, IInv
<1>2. PICK a : a = Set(p, q)  OBVIOUS
<1>3. a \in Instructions /\ p \in Ptrs  BY <1>2, Made DEF Ptrs
<1>4. PICK body : body = <<a>>  OBVIOUS
<1>5. body \in Seq(Instructions) /\ Len(body) = 1 /\ body[1] = a /\ \A i \in 1..Len(body) : i = 1
  BY <1>3, <1>4, OneInstruction
<1>6. Call(t, body)  BY <1>2, <1>4 DEF CopyConstruct
<1>7. /\ Becomes(t, body) /\ Len(todo[t])' = 1
      /\ Op(t, 1)' = "Set" /\ Arg(t, 1)' = p /\ Src(t, 1)' = q
  BY <1>1, <1>2, <1>5, <1>6, IdleCall, Fields
<1>8. Shape(t, 1)'  BY <1>1, <1>7 DEF Shape
<1>9. Setting(t, 1)'
  <2>1. Source(t, p, q)
    <3>1. CASE q \in Objects
      <4>1. PICK s \in Slots : ptr[<<t, s>>] = q  BY <1>1, <3>1 DEF Readable
      <4>2. <<t, s>> # p  BY <1>1, <3>1, <4>1, PtrsFinite
      <4> QED BY <3>1, <4>1, <4>2 DEF Source
    <3>2. CASE q \notin Objects
      <4>1. q \in Locals /\ q[1] = t  BY <1>1, <3>2, PtrsFinite DEF Readable
      <4> QED BY <4>1 DEF Source
    <3> QED BY <3>1, <3>2
  <2>2. Dest(t, p)' /\ Source(t, p, q)'  BY <1>1, <2>1 DEF Dest, Source
  <2> QED BY <1>7, <2>2 DEF Setting, Dest, Source
<1>10. body[1].op = "Set"  BY <1>2, <1>5, Fields
<1> QED BY <1>1, <1>5, <1>7, <1>8, <1>9, <1>10, QuietStep

\* A call that releases p first, and then sets or takes.
LEMMA AssignStep ==
  ASSUME IInv, NEW t \in Threads, todo[t] = <<>>, NEW p \in Locals, p[1] = t,
         NEW a \in Instructions, a.op \in {"Set", "Take"}, a.p = p,
         a.op = "Set" => Source(t, p, a.q), a.op = "Take" => a.q[1] = t,
         Call(t, <<Release(p), a>>), UNCHANGED <<fresh, alive, refCount, ptr, raw, crash>>
  PROVE  IInv'
<1>1. TypeInv /\ p \in Ptrs /\ p \notin Objects  BY PtrsFinite DEF IInv, Ptrs
<1>2. PICK r : r = Release(p)  OBVIOUS
<1>3. r \in Instructions /\ r.op = "Release" /\ r.p = p  BY <1>1, <1>2, Made, Fields
<1>4. PICK body : body = <<r, a>>  OBVIOUS
<1>5. /\ body \in Seq(Instructions) /\ Len(body) = 2 /\ body[1] = r /\ body[2] = a
      /\ \A i \in 1..Len(body) : i = 1 \/ i = 2
  BY <1>3, <1>4, TwoInstructions
<1>6. Call(t, body)  BY <1>2, <1>4
<1>7. /\ Becomes(t, body) /\ Len(todo[t])' = 2 /\ At(t)' = 1..2 /\ todo'[t] = body
      /\ Op(t, 1)' = "Release" /\ Arg(t, 1)' = p
      /\ Op(t, 2)' = a.op /\ Arg(t, 2)' = p /\ Src(t, 2)' = a.q
  BY <1>1, <1>3, <1>5, <1>6, IdleCall
<1>8. Shape(t, 1)'
  <2>1. Op(t, 1 + 1)' = a.op /\ Arg(t, 1 + 1)' = p  BY <1>7
  <2> QED BY <1>1, <1>7, <2>1 DEF Shape
<1>9. Shape(t, 2)'
  <2>1. Clears(todo'[t][2 - 1], p)  BY <1>3, <1>5, <1>7 DEF Clears
  <2>2. Clears(todo[t][2 - 1], p)'  BY <2>1 DEF Clears
  <2>3. Clears(todo[t][2 - 1], Arg(t, 2))'  BY <1>7, <2>2 DEF Clears
  <2> QED BY <1>7, <2>3 DEF Shape
<1>10. Setting(t, 1)' /\ Setting(t, 2)'
  <2>1. a.op = "Set" => Dest(t, p)' /\ Source(t, p, a.q)'  BY DEF Dest, Source
  <2> QED BY <1>7, <2>1 DEF Setting, Dest, Source
<1> QED BY <1>3, <1>5, <1>7, <1>8, <1>9, <1>10, QuietStep

LEMMA CopyAssignStep ==
  ASSUME IInv, ProperUse, NEW t \in Threads, NEW p \in Locals, NEW q \in Ptrs, CopyAssign(t, p, q)
  PROVE  IInv'
<1>1. /\ todo[t] = <<>> /\ p[1] = t /\ q \in Readable(t) /\ Call(t, <<Release(p), Set(p, q)>>)
      /\ \/ \E s \in Slots : <<t, s>> # p /\ ptr[<<t, s>>] = q
         \/ q \notin Objects
      /\ UNCHANGED <<fresh, alive, refCount, ptr, raw, crash>>
  BY DEF CopyAssign, Idle, ProperUse
<1>2. Source(t, p, q)
  <2>1. CASE q \in Objects  BY <1>1, <2>1 DEF Source
  <2>2. CASE q \notin Objects
    <3>1. q \in Locals /\ q[1] = t  BY <1>1, <2>2, PtrsFinite DEF Readable
    <3> QED BY <3>1 DEF Source
  <2> QED BY <2>1, <2>2
<1>3. /\ Set(p, q) \in Instructions /\ Set(p, q).op = "Set" /\ Set(p, q).p = p /\ Set(p, q).q = q
  BY Made, Fields DEF Ptrs
<1> QED BY <1>1, <1>2, <1>3, AssignStep

LEMMA MoveAssignStep ==
  ASSUME IInv, NEW t \in Threads, NEW p \in Locals, NEW q \in Locals, MoveAssign(t, p, q)
  PROVE  IInv'
<1>1. /\ todo[t] = <<>> /\ p[1] = t /\ q[1] = t /\ Call(t, <<Release(p), Take(p, q)>>)
      /\ UNCHANGED <<fresh, alive, refCount, ptr, raw, crash>>
  BY DEF MoveAssign, Idle
<1>2. /\ Take(p, q) \in Instructions /\ Take(p, q).op = "Take" /\ Take(p, q).p = p
      /\ Take(p, q).q = q
  BY Made, Fields
<1> QED BY <1>1, <1>2, AssignStep

LEMMA DestructStep ==
  ASSUME IInv, NEW t \in Threads, NEW p \in Locals, Destruct(t, p)
  PROVE  IInv'
<1>1. /\ todo[t] = <<>> /\ p[1] = t /\ TypeInv /\ p \in Ptrs /\ p \notin Objects
      /\ UNCHANGED <<fresh, alive, refCount, ptr, raw, crash>>
  BY PtrsFinite DEF Destruct, Idle, IInv, Ptrs
<1>2. PICK a : a = Release(p)  OBVIOUS
<1>3. a \in Instructions /\ a.op = "Release" /\ a.p = p  BY <1>1, <1>2, Made, Fields
<1>4. PICK body : body = <<a>>  OBVIOUS
<1>5. body \in Seq(Instructions) /\ Len(body) = 1 /\ body[1] = a /\ \A i \in 1..Len(body) : i = 1
  BY <1>3, <1>4, OneInstruction
<1>6. Call(t, body)  BY <1>2, <1>4 DEF Destruct
<1>7. Becomes(t, body) /\ At(t)' = 1..1 /\ Op(t, 1)' = "Release" /\ Arg(t, 1)' = p
  BY <1>1, <1>3, <1>5, <1>6, IdleCall
<1>8. Shape(t, 1)'
  <2>1. 1 + 1 \notin At(t)'  BY <1>7
  <2> QED BY <1>1, <1>7, <2>1 DEF Shape
<1>9. Setting(t, 1)'  BY <1>7 DEF Setting
<1> QED BY <1>1, <1>3, <1>5, <1>7, <1>8, <1>9, QuietStep

LEMMA OneMore ==
  ASSUME NEW S, IsFiniteSet(S), NEW x, x \notin S
  PROVE  Cardinality(S \cup {x}) = Cardinality(S) + 1 /\ Cardinality(S) \in Nat
BY FS_AddElement, FS_CardinalityType

LEMMA OneLess ==
  ASSUME NEW S, IsFiniteSet(S), NEW x \in S
  PROVE  Cardinality(S \ {x}) = Cardinality(S) - 1 /\ Cardinality(S) \in Nat
BY FS_RemoveElement, FS_CardinalityType

LEMMA OneSwapped ==
  ASSUME NEW S, IsFiniteSet(S), NEW x \in S, NEW y, y \notin S
  PROVE  Cardinality((S \ {x}) \cup {y}) = Cardinality(S)
<1>1. IsFiniteSet(S \ {x}) /\ y \notin S \ {x}  BY FS_Subset
<1> DEFINE R == S \ {x}
<1>2. Cardinality(R) = Cardinality(S) - 1 /\ Cardinality(S) \in Nat  BY OneLess
<1> HIDE DEF R
<1>3. Cardinality(R \cup {y}) = Cardinality(R) + 1  BY <1>1, OneMore DEF R
<1>4. Cardinality(R \cup {y}) = Cardinality(S)  BY <1>2, <1>3
<1> QED BY <1>4 DEF R

\* Steps of an idle thread that begin no call.
LEMMA IdleStep ==
  ASSUME IInv, NEW t \in Threads, todo[t] = <<>>, todo' = todo, Sets(t),
         \A o \in Objects : o \in alive' /\ refCount'[o] = 0 <=> o \in alive /\ refCount[o] = 0,
         alive' \subseteq Objects
  PROVE  /\ ShapeInv' /\ SetInv' /\ AddInv' /\ FreeInv' /\ Marked' = Marked
         /\ \A o : Releasers(o)' = Releasers(o)
<1>1. ASSUME NEW u \in Threads, NEW i \in At(u)'
      PROVE  Shape(u, i)' /\ Setting(u, i)' /\ Adding(u, i)'
  <2>1. i \in At(u)  BY DEF At
  <2>2. u # t
    <3>1. At(t) = {}  BY LeftIs DEF IInv, At
    <3> QED BY <2>1, <3>1
  <2> QED BY <2>1, <2>2, OthersKeep
<1>2. \A u \in Threads : At(u)' = At(u)  BY DEF At
<1>3. \A u, i, o : Freeing(u, i, o)' <=> Freeing(u, i, o)  BY DEF Freeing, At, Op, Arg
<1>4. FreeInv'
  <2>1. FreeInv  BY DEF IInv
  <2>2. ASSUME NEW u \in Threads, NEW o \in Objects, NEW i \in At(u), Freeing(u, i, o)
        PROVE  o \in alive' /\ refCount'[o] = 0
    BY <2>1, <2>2 DEF FreeInv
  <2>3. ASSUME NEW o \in alive', refCount'[o] = 0
        PROVE  \E u \in Threads : \E i \in At(u) : Freeing(u, i, o)
    BY <2>1, <2>3 DEF FreeInv
  <2>4. \A u, v \in Threads, o \in Objects : \A i \in At(u), j \in At(v) :
           Freeing(u, i, o) /\ Freeing(v, j, o) => u = v /\ i = j
    BY <2>1 DEF FreeInv
  <2> QED BY <1>2, <1>3, <2>2, <2>3, <2>4 DEF FreeInv
<1>5. Marked' = Marked  BY DEF Marked, Marks, At, Mark
<1>6. \A o : Releasers(o)' = Releasers(o)  BY DEF Releasers, Releasing, Op, Arg
<1> QED BY <1>1, <1>4, <1>5, <1>6 DEF ShapeInv, SetInv, AddInv

LEMMA NewStep ==
  ASSUME IInv, NEW t \in Threads, NEW o \in Objects, New(t, o)
  PROVE  IInv'
<1>1. /\ todo[t] = <<>> /\ raw[t] = None /\ o \in fresh /\ TypeInv /\ CountInv /\ RawInv
      /\ fresh' = fresh \ {o} /\ alive' = alive \cup {o} /\ refCount' = [refCount EXCEPT ![o] = 1]
      /\ raw' = [raw EXCEPT ![t] = o] /\ ptr' = ptr /\ todo' = todo /\ crash' = crash
  BY DEF New, Idle, IInv
<1>2. /\ refCount \in [Objects -> Nat] /\ raw \in [Threads -> Objects \cup {None}]
      /\ ptr \in [Ptrs -> Objects \cup {None}]
      /\ fresh \subseteq Objects /\ alive \subseteq Objects /\ fresh \cap alive = {}
  BY <1>1 DEF TypeInv
<1>3. o \notin alive /\ refCount[o] = 0 /\ o # None
  <2>1. o \notin alive /\ o # None  BY <1>1, <1>2, PtrsFinite
  <2> QED BY <1>1, <2>1 DEF RawInv
<1>4. /\ refCount'[o] = 1 /\ \A x \in Objects : x # o => refCount'[x] = refCount[x]
      /\ refCount' \in [Objects -> Nat]
      /\ raw'[t] = o /\ \A u \in Threads : u # t => raw'[u] = raw[u]
      /\ raw' \in [Threads -> Objects \cup {None}]
  BY <1>1, <1>2
<1>5. TypeInv'  BY <1>1, <1>2, <1>4 DEF TypeInv
<1>6. Sets(t)  BY <1>1, <1>2, <1>4 DEF Sets
<1>7. /\ ShapeInv' /\ SetInv' /\ AddInv' /\ FreeInv' /\ Marked' = Marked
      /\ \A x : Releasers(x)' = Releasers(x)
  <2>1. \A x \in Objects : x \in alive' /\ refCount'[x] = 0 <=> x \in alive /\ refCount[x] = 0
    BY <1>1, <1>3, <1>4
  <2>2. alive' \subseteq Objects  BY <1>1, <1>2
  <2> QED BY <1>1, <1>6, <2>1, <2>2, IdleStep
<1>8. \A u \in Threads : raw[u] # o  BY <1>1 DEF RawInv
<1>9. RawInv'
  <2>1. \A u \in Threads : raw'[u] \notin fresh'  BY <1>1, <1>4 DEF RawInv
  <2>2. \A u, v \in Threads : raw'[u] = raw'[v] /\ raw'[u] # None => u = v
    BY <1>1, <1>4, <1>8 DEF RawInv
  <2>3. \A x \in Objects \ alive' : ptr'[x] = None /\ refCount'[x] = 0  BY <1>1, <1>4 DEF RawInv
  <2> QED BY <2>1, <2>2, <2>3 DEF RawInv
<1>10. CountInv'
  <2>1. \A x : Referrers(x)' = Referrers(x)  BY <1>1, <1>7 DEF Referrers
  <2>2. ASSUME NEW x \in Objects  PROVE refCount'[x] = References(x)'
    <3>1. CASE x # o
      <4>1. Creators(x)' = Creators(x)  BY <1>1, <1>4, <3>1, PtrsFinite DEF Creators
      <4> QED BY <1>1, <1>4, <1>7, <2>1, <3>1, <4>1 DEF CountInv, References
    <3>2. CASE x = o
      <4>1. Creators(o)' = Creators(o) \cup {t} /\ t \notin Creators(o)
        BY <1>1, <1>3, <1>4 DEF Creators
      <4>2. Cardinality(Creators(o)') = Cardinality(Creators(o)) + 1
        <5>1. PICK S : S = Creators(o)  OBVIOUS
        <5>2. Cardinality(S \cup {t}) = Cardinality(S) + 1  BY <4>1, <5>1, ReferencesFinite, OneMore
        <5> QED BY <4>1, <5>1, <5>2
      <4>3. refCount[o] = References(o)  BY <1>1 DEF CountInv
      <4> QED BY <1>3, <1>4, <1>7, <2>1, <3>2, <4>2, <4>3, ReferencesFinite DEF References
    <3> QED BY <3>1, <3>2
  <2> QED BY <2>2 DEF CountInv
<1> QED BY <1>5, <1>7, <1>9, <1>10 DEF IInv

\* A pointer of an idle thread is not marked.
LEMMA IdleUnmarked ==
  ASSUME IInv, NEW p \in Locals, todo[p[1]] = <<>>
  PROVE  p \notin Marked
<1>1. ASSUME NEW u \in Threads, p \in Marks(u)  PROVE FALSE
  <2>1. p[1] = u  BY <1>1, MarkedIs DEF IInv
  <2>2. At(u) = {}  BY <2>1, LeftIs DEF IInv, At
  <2> QED BY <1>1, <2>2 DEF Marks
<1> QED BY <1>1 DEF Marked

LEMMA MoveConstructStep ==
  ASSUME IInv, NEW t \in Threads, NEW p \in Locals, NEW q \in Locals, MoveConstruct(t, p, q)
  PROVE  IInv'
<1>1. /\ todo[t] = <<>> /\ todo[p[1]] = <<>> /\ q[1] = t /\ ptr[q] # None /\ ptr[p] = None
      /\ ptr' = [ptr EXCEPT ![p] = ptr[q], ![q] = None] /\ TypeInv /\ CountInv /\ RawInv
      /\ UNCHANGED <<fresh, alive, refCount, raw, todo, crash>>
  BY DEF MoveConstruct, Idle, IInv
<1>2. /\ ptr \in [Ptrs -> Objects \cup {None}] /\ alive \subseteq Objects
      /\ p \in Ptrs /\ q \in Ptrs /\ p # q /\ p \notin Objects /\ q \notin Objects
  BY <1>1, PtrsFinite DEF TypeInv, Ptrs
<1>3. PICK m : m = ptr[q]  OBVIOUS
<1>4. /\ m \in Objects /\ m # None /\ ptr'[p] = m /\ ptr'[q] = None
      /\ \A r \in Ptrs : r # p /\ r # q => ptr'[r] = ptr[r]
      /\ ptr' \in [Ptrs -> Objects \cup {None}]
  BY <1>1, <1>2, <1>3
<1>5. Sets(t)
  <2>1. MayChange(t, p) /\ MayChange(t, q)  BY <1>1 DEF MayChange
  <2>2. \A r \in Ptrs : ptr'[r] # None => ptr'[r] = raw[t] \/ \E x \in Ptrs : ptr'[r] = ptr[x]
    BY <1>2, <1>3, <1>4
  <2> QED BY <1>1, <1>2, <1>4, <2>1, <2>2 DEF Sets
<1>6. /\ ShapeInv' /\ SetInv' /\ AddInv' /\ FreeInv' /\ Marked' = Marked
      /\ \A x : Releasers(x)' = Releasers(x)
  BY <1>1, <1>2, <1>5, IdleStep
<1>7. TypeInv'  BY <1>1, <1>4 DEF TypeInv
<1>8. RawInv'  BY <1>1, <1>2, <1>4, PtrsFinite DEF RawInv
<1>9. p \notin Marked /\ q \notin Marked  BY <1>1, IdleUnmarked
<1>10. CountInv'
  <2>1. \A x : Creators(x)' = Creators(x)  BY <1>1 DEF Creators
  <2>2. ASSUME NEW x \in Objects  PROVE Cardinality(Referrers(x)') = Cardinality(Referrers(x))
    <3>1. x # None  BY PtrsFinite
    <3>2. CASE x # m
      <4>1. Referrers(x)' = Referrers(x)  BY <1>1, <1>3, <1>4, <1>6, <3>1, <3>2 DEF Referrers
      <4> QED BY <4>1
    <3>3. CASE x = m
      <4>1. PICK S : S = Referrers(m)  OBVIOUS
      <4>2. Referrers(m)' = (S \ {q}) \cup {p} /\ q \in S /\ p \notin S
        BY <1>1, <1>2, <1>3, <1>4, <1>6, <1>9, <4>1 DEF Referrers
      <4>3. Cardinality((S \ {q}) \cup {p}) = Cardinality(S)
        BY <4>1, <4>2, ReferencesFinite, OneSwapped
      <4> QED BY <3>3, <4>1, <4>2, <4>3
    <3> QED BY <3>2, <3>3
  <2> QED BY <1>1, <1>6, <2>1, <2>2 DEF CountInv, References
<1> QED BY <1>6, <1>7, <1>8, <1>10 DEF IInv

LEMMA ReleasersSame ==
  ASSUME IInv, NEW t \in Threads, NEW body \in Seq(Instructions), Becomes(t, body), NEW o,
         Len(body) # 0 => body[1].op # "ReleaseRef", todo[t] # <<>> => Op(t, 1) # "ReleaseRef"
  PROVE  Releasers(o)' = Releasers(o)
<1>1. /\ \A u \in Threads : u # t => (Releasing(u, o)' <=> Releasing(u, o))
      /\ Releasing(t, o)' <=> Len(body) # 0 /\ body[1].op = "ReleaseRef" /\ body[1].p = o
  BY ReleasersMove
<1>2. ~Releasing(t, o)' /\ ~Releasing(t, o)  BY <1>1 DEF Releasing
<1> QED BY <1>1, <1>2 DEF Releasers

LEMMA ConstructStep ==
  ASSUME IInv, ProperUse, NEW t \in Threads, NEW p \in Locals, Construct(t, p)
  PROVE  IInv'
<1>1. /\ todo[t] = <<>> /\ raw[t] # None /\ p[1] = t /\ ptr[p] = None
      /\ ptr' = [ptr EXCEPT ![p] = raw[t]] /\ TypeInv /\ CountInv /\ RawInv
      /\ UNCHANGED <<fresh, alive, refCount, raw, crash>>
  BY DEF Construct, Idle, IInv, ProperUse
<1>2. PICK o : o = raw[t]  OBVIOUS
<1>3. /\ o \in Objects /\ ptr \in [Ptrs -> Objects \cup {None}] /\ alive \subseteq Objects
      /\ p \in Ptrs /\ p \notin Objects
  BY <1>1, <1>2, PtrsFinite DEF TypeInv, Ptrs
<1>4. PICK a : a = AddRef(o, p)  OBVIOUS
<1>5. a \in Instructions /\ a.op = "AddRef" /\ a.p = o /\ a.q = p  BY <1>3, <1>4, Made, Fields
<1>6. PICK body : body = <<a>>  OBVIOUS
<1>7. body \in Seq(Instructions) /\ Len(body) = 1 /\ body[1] = a /\ \A i \in 1..Len(body) : i = 1
  BY <1>5, <1>6, OneInstruction
<1>8. Call(t, body)  BY <1>2, <1>4, <1>6 DEF Construct
<1>9. /\ Becomes(t, body) /\ Len(Left(t)) = 0 /\ Len(todo[t])' = 1
      /\ Op(t, 1)' = "AddRef" /\ Arg(t, 1)' = o /\ Src(t, 1)' = p
  BY <1>1, <1>5, <1>7, <1>8, IdleCall
<1>10. /\ ptr'[p] = o /\ \A r \in Ptrs : r # p => ptr'[r] = ptr[r]
       /\ ptr' \in [Ptrs -> Objects \cup {None}]
  BY <1>1, <1>2, <1>3
<1>11. Shape(t, 1)'  BY <1>9 DEF Shape
<1>12. Setting(t, 1)'  BY <1>9 DEF Setting
<1>13. Adding(t, 1)'
  <2>1. Dest(t, p)' /\ raw'[t] = o  BY <1>1, <1>2 DEF Dest
  <2> QED BY <1>9, <1>10, <2>1 DEF Adding, Dest
<1>14. Sets(t)
  <2>1. MayChange(t, p)  BY <1>1 DEF MayChange
  <2>2. \A u \in Threads : u # t => todo'[u] = todo[u]  BY <1>1, <1>7, <1>9, BecomesIs
  <2> QED BY <1>1, <1>2, <1>10, <2>1, <2>2 DEF Sets
<1>15. ShapeInv' /\ SetInv' /\ AddInv' /\ todo' \in [Threads -> Seq(Instructions)]
  BY <1>7, <1>9, <1>11, <1>12, <1>13, <1>14, CallsKeep
<1>16. FreeInv'  BY <1>1, <1>3, <1>5, <1>7, <1>9, FreeKeeps
<1>17. TypeInv'  BY <1>1, <1>10, <1>15 DEF TypeInv
<1>18. RawInv'  BY <1>1, <1>3, <1>10, PtrsFinite DEF RawInv
<1>19. Marked' = Marked \cup {p}
  <2>1. Mark(a) = {p}  BY <1>5 DEF Mark
  <2>2. (UNION {Mark(body[i]) : i \in 1..Len(body)}) = {p}  BY <1>7, <2>1
  <2>3. Marked = LeftMarks(t) \cup OtherMarks(t)  BY <1>1, MarksAre
  <2>4. Marked' = (UNION {Mark(body[i]) : i \in 1..Len(body)}) \cup LeftMarks(t) \cup OtherMarks(t)
    BY <1>1, <1>7, <1>9, MarksMove
  <2> QED BY <2>2, <2>3, <2>4
<1>20. ASSUME NEW x \in Objects
       PROVE  /\ Referrers(x)' = Referrers(x) /\ Creators(x)' = Creators(x)
              /\ Releasers(x)' = Releasers(x)
  <2>1. x # None  BY PtrsFinite
  <2>2. Referrers(x)' = Referrers(x)  BY <1>1, <1>10, <1>19, <2>1 DEF Referrers
  <2>3. Creators(x)' = Creators(x)  BY <1>1 DEF Creators
  <2>4. Releasers(x)' = Releasers(x)  BY <1>1, <1>5, <1>7, <1>9, ReleasersSame
  <2> QED BY <2>2, <2>3, <2>4
<1>21. CountInv'  BY <1>1, <1>20, CountsStay
<1> QED BY <1>15, <1>16, <1>17, <1>18, <1>21 DEF IInv

\* The count of an object of which one reference has become another.
LEMMA CountMoves ==
  ASSUME TypeInv, CountInv, refCount' = refCount, NEW m \in Objects,
         \A o \in Objects : o # m =>
           /\ Referrers(o)' = Referrers(o) /\ Creators(o)' = Creators(o)
           /\ Releasers(o)' = Releasers(o),
         NEW t, t \notin Releasers(m), Releasers(m)' = Releasers(m) \cup {t},
         \/ /\ Creators(m)' = Creators(m)
            /\ \E p \in Referrers(m) : Referrers(m)' = Referrers(m) \ {p}
         \/ /\ Referrers(m)' = Referrers(m)
            /\ \E u \in Creators(m) : Creators(m)' = Creators(m) \ {u}
  PROVE  CountInv'
<1>1. Cardinality(Releasers(m)') = Cardinality(Releasers(m)) + 1
  <2>1. PICK S : S = Releasers(m)  OBVIOUS
  <2>2. Cardinality(S \cup {t}) = Cardinality(S) + 1  BY <2>1, ReferencesFinite, OneMore
  <2> QED BY <2>1, <2>2
<1>2. /\ Cardinality(Referrers(m)') \in Int /\ Cardinality(Creators(m)') \in Int
      /\ Cardinality(Referrers(m)') + Cardinality(Creators(m)')
           = Cardinality(Referrers(m)) + Cardinality(Creators(m)) - 1
  <2>1. CASE /\ Creators(m)' = Creators(m)
             /\ \E p \in Referrers(m) : Referrers(m)' = Referrers(m) \ {p}
    <3>1. PICK p \in Referrers(m) : Referrers(m)' = Referrers(m) \ {p}  BY <2>1
    <3>2. PICK S : S = Referrers(m)  OBVIOUS
    <3>3. Cardinality(S \ {p}) = Cardinality(S) - 1  BY <3>1, <3>2, ReferencesFinite, OneLess
    <3>4. Cardinality(Referrers(m)') = Cardinality(Referrers(m)) - 1  BY <3>1, <3>2, <3>3
    <3> QED BY <2>1, <3>4, ReferencesFinite
  <2>2. CASE /\ Referrers(m)' = Referrers(m)
             /\ \E u \in Creators(m) : Creators(m)' = Creators(m) \ {u}
    <3>1. PICK u \in Creators(m) : Creators(m)' = Creators(m) \ {u}  BY <2>2
    <3>2. PICK S : S = Creators(m)  OBVIOUS
    <3>3. Cardinality(S \ {u}) = Cardinality(S) - 1  BY <3>1, <3>2, ReferencesFinite, OneLess
    <3>4. Cardinality(Creators(m)') = Cardinality(Creators(m)) - 1  BY <3>1, <3>2, <3>3
    <3> QED BY <2>2, <3>4, ReferencesFinite
  <2> QED BY <2>1, <2>2
<1>3. PICK x, y, z : x = Cardinality(Referrers(m)') /\ y = Cardinality(Creators(m)')
                     /\ z = Cardinality(Releasers(m)')
  OBVIOUS
<1>4. x \in Int /\ y \in Int /\ z \in Int  BY <1>1, <1>2, <1>3, ReferencesFinite
<1>5. References(m)' = x + y + z  BY <1>3 DEF References
<1>6. refCount[m] = References(m)  BY DEF CountInv
<1>7. refCount'[m] = References(m)'
  <2>1. x + y + z = References(m)
    BY <1>1, <1>2, <1>3, <1>4, ReferencesFinite DEF References
  <2> QED BY <1>5, <1>6, <2>1
<1>8. ASSUME NEW o \in Objects, o # m  PROVE refCount'[o] = References(o)'
  BY <1>8 DEF CountInv, References
<1> QED BY <1>7, <1>8 DEF CountInv

LEMMA ReleaseCreatorStep ==
  ASSUME IInv, NEW t \in Threads, ReleaseCreator(t)
  PROVE  IInv'
<1>1. /\ todo[t] = <<>> /\ raw[t] # None /\ raw' = [raw EXCEPT ![t] = None]
      /\ TypeInv /\ CountInv /\ RawInv
      /\ UNCHANGED <<fresh, alive, refCount, ptr, crash>>
  BY DEF ReleaseCreator, Idle, IInv
<1>2. PICK o : o = raw[t]  OBVIOUS
<1>3. /\ o \in Objects /\ o # None /\ raw \in [Threads -> Objects \cup {None}]
      /\ ptr \in [Ptrs -> Objects \cup {None}]
      /\ alive \subseteq Objects /\ None \notin fresh
  BY <1>1, <1>2, PtrsFinite DEF TypeInv
<1>4. PICK a : a = ReleaseRef(o)  OBVIOUS
<1>5. a \in Instructions /\ a.op = "ReleaseRef" /\ a.p = o  BY <1>3, <1>4, Made, Fields
<1>6. PICK body : body = <<a>>  OBVIOUS
<1>7. body \in Seq(Instructions) /\ Len(body) = 1 /\ body[1] = a /\ \A i \in 1..Len(body) : i = 1
  BY <1>5, <1>6, OneInstruction
<1>8. Call(t, body)  BY <1>2, <1>4, <1>6 DEF ReleaseCreator
<1>9. Becomes(t, body) /\ Len(Left(t)) = 0 /\ Op(t, 1)' = "ReleaseRef"
  BY <1>1, <1>5, <1>7, <1>8, IdleCall
<1>10. /\ raw'[t] = None /\ \A u \in Threads : u # t => raw'[u] = raw[u]
       /\ raw' \in [Threads -> Objects \cup {None}]
  BY <1>1, <1>3
<1>11. Shape(t, 1)' /\ Setting(t, 1)' /\ Adding(t, 1)'  BY <1>9 DEF Shape, Setting, Adding
<1>12. Sets(t)
  <2>1. \A u \in Threads : u # t => todo'[u] = todo[u]  BY <1>1, <1>7, <1>9, BecomesIs
  <2> QED BY <1>1, <1>3, <1>10, <2>1 DEF Sets
<1>13. ShapeInv' /\ SetInv' /\ AddInv' /\ todo' \in [Threads -> Seq(Instructions)]
  BY <1>7, <1>9, <1>11, <1>12, CallsKeep
<1>14. FreeInv'  BY <1>1, <1>3, <1>5, <1>7, <1>9, FreeKeeps
<1>15. TypeInv'  BY <1>1, <1>10, <1>13 DEF TypeInv
<1>16. RawInv'
  <2>1. \A u \in Threads : raw'[u] \notin fresh'  BY <1>1, <1>3, <1>10 DEF RawInv
  <2>2. \A u, v \in Threads : raw'[u] = raw'[v] /\ raw'[u] # None => u = v
    BY <1>1, <1>10 DEF RawInv
  <2> QED BY <1>1, <2>1, <2>2 DEF RawInv
<1>17. Marked' = Marked
  <2>1. Mark(a) = {}  BY <1>5 DEF Mark
  <2>2. (UNION {Mark(body[i]) : i \in 1..Len(body)}) = {}  BY <1>7, <2>1
  <2>3. Marked = LeftMarks(t) \cup OtherMarks(t)  BY <1>1, MarksAre
  <2>4. Marked' = (UNION {Mark(body[i]) : i \in 1..Len(body)}) \cup LeftMarks(t) \cup OtherMarks(t)
    BY <1>1, <1>7, <1>9, MarksMove
  <2> QED BY <2>2, <2>3, <2>4
<1>18. \A x \in Objects : Referrers(x)' = Referrers(x)  BY <1>1, <1>17 DEF Referrers
<1>19. ASSUME NEW x \in Objects
       PROVE  Releasers(x)' = IF x = o THEN Releasers(x) \cup {t} ELSE Releasers(x)
  <2>1. /\ \A u \in Threads : u # t => (Releasing(u, x)' <=> Releasing(u, x))
        /\ Releasing(t, x)' <=> x = o
    BY <1>5, <1>7, <1>9, ReleasersMove
  <2>2. ~Releasing(t, x)  BY <1>1 DEF Releasing
  <2> QED BY <2>1, <2>2 DEF Releasers
<1>20. t \notin Releasers(o)  BY <1>1 DEF Releasers, Releasing
<1>21. \A x \in Objects : Creators(x)' = IF x = o THEN Creators(x) \ {t} ELSE Creators(x)
  <2> TAKE x \in Objects
  <2>1. x # None  BY PtrsFinite
  <2> QED BY <1>2, <1>10, <2>1 DEF Creators
<1>22. CountInv'
  <2>1. t \in Creators(o)  BY <1>2 DEF Creators
  <2> QED BY <1>1, <1>3, <1>18, <1>19, <1>20, <1>21, <2>1, CountMoves
<1> QED BY <1>13, <1>14, <1>15, <1>16, <1>22 DEF IInv

\* What a call is about to release has not been marked, by it or by another.
LEMMA ReleaseUnmarked ==
  ASSUME IInv, NEW t \in Threads, todo[t] # <<>>, Op(t, 1) = "Release"
  PROVE  Arg(t, 1) \notin Marked /\ Arg(t, 1) \in Ptrs
<1>1. PICK p : p = Arg(t, 1)  OBVIOUS
<1>2. 1 \in At(t) /\ todo[t][1] \in Instructions /\ Shape(t, 1) /\ Len(todo[t]) \in Nat
  BY LeftIs DEF IInv, ShapeInv
<1>3. p \in Ptrs  BY <1>1, <1>2, Kinds DEF Op, Arg
<1>4. ASSUME NEW u \in Threads, NEW i \in At(u), p \in Mark(todo[u][i])  PROVE FALSE
  <2>1. Shape(u, i) /\ Adding(u, i) /\ p \in Marks(u)  BY <1>4 DEF IInv, ShapeInv, AddInv, Marks
  <2>2. CASE p \in Locals
    <3>1. u = t
      <4>1. p[1] = u  BY <2>1, <2>2, MarkedIs DEF IInv
      <4>2. p[1] = t  BY <1>1, <1>2, <2>2, PtrsFinite DEF Shape
      <4> QED BY <4>1, <4>2
    <3>2. 2 \in At(t) => Op(t, 2) \in {"Set", "Take"}
      BY <1>1, <1>2, <2>2, PtrsFinite DEF Shape
    <3>3. 2 \in At(t) => 2 = Len(todo[t])
      <4>1. 2 \in At(t) => Shape(t, 2)  BY DEF IInv, ShapeInv
      <4> QED BY <3>2, <4>1 DEF Shape
    <3>4. i = 1 \/ i = 2  BY <1>2, <1>4, <3>1, <3>3 DEF At
    <3> QED BY <1>4, <3>1, <3>2, <3>4 DEF Mark, Op
  <2>3. CASE p \in Objects
    <3>1. 1 + 1 \in At(t) /\ Freeing(t, 1 + 1, p)  BY <1>1, <1>2, <2>3 DEF Shape, Freeing
    <3>2. refCount[p] = 0  BY <2>3, <3>1 DEF IInv, FreeInv
    <3>3. CASE Op(u, i) = "Null"
      <4>1. i + 1 \in At(u) /\ Freeing(u, i + 1, p)
        BY <1>4, <2>1, <2>3, <3>3 DEF Mark, Op, Arg, Shape, Freeing
      <4>2. u = t /\ i + 1 = 1 + 1  BY <2>3, <3>1, <4>1 DEF IInv, FreeInv
      <4>3. i \in Int  BY LeftIs DEF IInv, At
      <4>4. i = 1  BY <4>2, <4>3
      <4> QED BY <3>3, <4>2, <4>4
    <3>4. CASE Op(u, i) = "AddRef"
      <4>1. Dest(u, p)  BY <1>4, <2>1, <3>4 DEF Mark, Op, Src, Adding
      <4>2. u \in Creators(p)  BY <2>3, <4>1, PtrsFinite DEF Dest, Creators
      <4>3. refCount[p] > 0  BY <2>3, <4>2, Referred DEF IInv
      <4> QED BY <3>2, <4>3
    <3> QED BY <1>4, <3>3, <3>4 DEF Mark, Op
  <2> QED BY <1>3, <2>2, <2>3, PtrsFinite
<1>5. p \notin Marked  BY <1>4 DEF Marked, Marks
<1> QED BY <1>1, <1>3, <1>5

LEMMA DoReleaseStep ==
  ASSUME IInv, NEW t \in Threads, DoRelease(t)
  PROVE  IInv'
<1>1. /\ todo[t] # <<>> /\ Head(todo[t]).op = "Release" /\ TypeInv /\ CountInv /\ RawInv
      /\ UNCHANGED <<fresh, alive, refCount, ptr, raw, crash>>
  BY DEF DoRelease, Execute, IInv
<1>2. PICK p : p = Arg(t, 1)  OBVIOUS
<1>3. /\ Op(t, 1) = "Release" /\ Head(todo[t]).p = p /\ p \in Ptrs /\ p \notin Marked
      /\ 1 \in At(t) /\ Shape(t, 1)
  <2>1. Op(t, 1) = "Release" /\ Head(todo[t]).p = p /\ 1 \in At(t)  BY <1>1, <1>2, HeadIs
  <2> QED BY <1>1, <1>2, <2>1, ReleaseUnmarked DEF IInv, ShapeInv
<1>4. ptr \in [Ptrs -> Objects \cup {None}] /\ alive \subseteq Objects  BY <1>1 DEF TypeInv
<1>5. CASE ptr[p] = None
  <2>1. PICK body : body = <<>>  OBVIOUS
  <2>2. body \in Seq(Instructions) /\ Len(body) = 0  BY <2>1
  <2>3. Call(t, body \o Tail(todo[t]))  BY <1>3, <1>5, <2>1 DEF DoRelease, Execute
  <2>4. Becomes(t, body)  BY <1>1, <2>2, <2>3, ExecuteBecomes
  <2>5. \A i \in 1..Len(body) : FALSE  BY <2>2
  <2> QED BY <1>1, <1>2, <1>3, <1>5, <2>2, <2>4, <2>5, QuietStep
<1>6. CASE ptr[p] # None
  <2>1. PICK m : m = ptr[p]  OBVIOUS
  <2>2. m \in Objects  BY <1>3, <1>4, <1>6, <2>1
  <2>3. PICK a, b : a = ReleaseRef(m) /\ b = Null(p)  OBVIOUS
  <2>4. /\ a \in Instructions /\ a.op = "ReleaseRef" /\ a.p = m
        /\ b \in Instructions /\ b.op = "Null" /\ b.p = p
    BY <1>3, <2>2, <2>3, Made, Fields
  <2>5. PICK body : body = <<a, b>>  OBVIOUS
  <2>6. /\ body \in Seq(Instructions) /\ Len(body) = 2 /\ body[1] = a /\ body[2] = b
        /\ \A i \in 1..Len(body) : i = 1 \/ i = 2
    BY <2>4, <2>5, TwoInstructions
  <2>7. Call(t, body \o Tail(todo[t]))  BY <1>3, <1>6, <2>1, <2>3, <2>5 DEF DoRelease, Execute
  <2>8. Becomes(t, body)  BY <1>1, <2>6, <2>7, ExecuteBecomes
  <2>9. /\ todo'[t][1] = a /\ todo'[t][2] = b /\ Len(todo'[t]) = 2 + Len(Left(t))
        /\ \A i \in 1..Len(Left(t)) : todo'[t][2 + i] = Left(t)[i]
        /\ \A u \in Threads : u # t => todo'[u] = todo[u]
    <3>1. 1 \in 1..Len(body) /\ 2 \in 1..Len(body)  BY <2>6
    <3>2. /\ \A u \in Threads : u # t => todo'[u] = todo[u]
          /\ Len(todo'[t]) = Len(body) + Len(Left(t))
          /\ \A i \in 1..Len(body) : todo'[t][i] = body[i]
          /\ \A i \in 1..Len(Left(t)) : todo'[t][Len(body) + i] = Left(t)[i]
      BY <1>1, <2>6, <2>8, BecomesIs
    <3>3. Len(body) = 2  BY <2>6
    <3> QED BY <2>6, <3>1, <3>2, <3>3
  <2>10. /\ Op(t, 1)' = "ReleaseRef" /\ Op(t, 2)' = "Null" /\ Arg(t, 2)' = p
    BY <2>4, <2>9 DEF Op, Arg
  <2>11. Shape(t, 1)' /\ Setting(t, 1)' /\ Adding(t, 1)'  BY <2>10 DEF Shape, Setting, Adding
  <2>12. /\ 1 + 1 \in At(t) <=> 2 + 1 \in At(t)'
         /\ 2 + 1 \in At(t)' => Op(t, 2 + 1)' = Op(t, 1 + 1) /\ Arg(t, 2 + 1)' = Arg(t, 1 + 1)
    <3>1. PICK n : n = Len(Left(t))  OBVIOUS
    <3>2. n \in Nat /\ Len(todo[t]) = n + 1  BY <1>1, <3>1, LeftIs
    <3>3. 1 + 1 \in At(t) <=> 1 \in 1..n  BY <3>2 DEF At
    <3>4. 2 + 1 \in At(t)' <=> 1 \in 1..n  BY <2>9, <3>1, <3>2 DEF At
    <3>5. 1 \in 1..n => todo'[t][2 + 1] = todo[t][1 + 1]
      BY <1>1, <2>9, <3>1, LeftIs
    <3> QED BY <3>3, <3>4, <3>5 DEF Op, Arg
  <2>13. Shape(t, 2)'
    <3>1. p \in Objects => 1 + 1 \in At(t) /\ Op(t, 1 + 1) = "Free" /\ Arg(t, 1 + 1) = p
      BY <1>2, <1>3 DEF Shape
    <3>2. p \notin Objects =>
            /\ p[1] = t
            /\ 1 + 1 \in At(t) => Op(t, 1 + 1) \in {"Set", "Take"} /\ Arg(t, 1 + 1) = p
      BY <1>2, <1>3 DEF Shape
    <3> QED BY <2>10, <2>12, <3>1, <3>2 DEF Shape
  <2>14. Setting(t, 2)' /\ Adding(t, 2)'  BY <2>10 DEF Setting, Adding
  <2>15. Sets(t)  BY <1>1, <1>4, <2>9 DEF Sets
  <2>16. Len(Left(t)) # 0 => (Left(t)[1].op \in {"Free", "Set", "Take"} => Clears(b, Left(t)[1].p))
    <3>1. Len(Left(t)) # 0 => 1 \in 1..Len(Left(t))  BY <1>1, LeftIs
    <3>2. Len(Left(t)) # 0 =>
            (Left(t)[1].op \in {"Free", "Set", "Take"} => Clears(todo[t][1], Left(t)[1].p))
      BY <3>1, LeftKinds
    <3> QED BY <1>2, <2>4, <3>2 DEF Clears, Arg
  <2>17. ShapeInv' /\ SetInv' /\ AddInv' /\ todo' \in [Threads -> Seq(Instructions)]
    <3>1. \A i \in 1..Len(body) : Shape(t, i)' /\ Setting(t, i)' /\ Adding(t, i)'
      BY <2>6, <2>11, <2>13, <2>14
    <3>2. Len(Left(t)) # 0 =>
           /\ raw'[t] = raw[t]
           /\ Left(t)[1].op \in {"Free", "Set", "Take"} =>
                IF Len(body) = 0 THEN ptr'[Left(t)[1].p] = None
                                 ELSE Clears(body[Len(body)], Left(t)[1].p)
           /\ \A j \in 1..Len(Left(t)) : Left(t)[j].op = "Set" =>
                \A s \in Slots : <<t, s>> # Left(t)[j].p => ptr'[<<t, s>>] = ptr[<<t, s>>]
      BY <1>1, <2>6, <2>16
    <3> QED BY <2>6, <2>8, <2>15, <3>1, <3>2, CallsKeep
  <2>18. FreeInv'
    <3>1. \A i \in 1..Len(body) : body[i].op # "Free"  BY <2>4, <2>6
    <3> QED BY <1>1, <1>3, <1>4, <2>6, <2>8, <3>1, FreeKeeps
  <2>19. TypeInv'  BY <1>1, <2>17 DEF TypeInv
  <2>20. RawInv'  BY <1>1 DEF RawInv
  <2>21. Marked' = Marked \cup {p}
    <3>1. Mark(a) = {} /\ Mark(b) = {p} /\ Mark(todo[t][1]) = {}  BY <1>3, <2>4 DEF Mark, Op
    <3>2. (UNION {Mark(body[i]) : i \in 1..Len(body)}) = {p}
      <4>1. 2 \in 1..Len(body)  BY <2>6
      <4> QED BY <2>6, <3>1, <4>1
    <3>3. Marked = LeftMarks(t) \cup OtherMarks(t)  BY <1>1, <3>1, MarksAre
    <3>4. Marked' = (UNION {Mark(body[i]) : i \in 1..Len(body)}) \cup LeftMarks(t) \cup OtherMarks(t)
      BY <1>1, <2>6, <2>8, MarksMove
    <3> QED BY <3>2, <3>3, <3>4
  <2>22. \A x \in Objects : Referrers(x)' = IF x = m THEN Referrers(x) \ {p} ELSE Referrers(x)
    BY <1>1, <2>1, <2>21 DEF Referrers
  <2>23. ASSUME NEW x \in Objects
         PROVE  Releasers(x)' = IF x = m THEN Releasers(x) \cup {t} ELSE Releasers(x)
    <3>1. /\ \A u \in Threads : u # t => (Releasing(u, x)' <=> Releasing(u, x))
          /\ Releasing(t, x)' <=> Len(body) # 0 /\ body[1].op = "ReleaseRef" /\ body[1].p = x
      BY <2>6, <2>8, ReleasersMove
    <3>2. ~Releasing(t, x)  BY <1>3 DEF Releasing
    <3>3. Releasing(t, x)' <=> x = m  BY <2>4, <2>6, <3>1
    <3> QED BY <3>1, <3>2, <3>3 DEF Releasers
  <2>24. t \notin Releasers(m)  BY <1>3 DEF Releasers, Releasing
  <2>25. \A x \in Objects : Creators(x)' = Creators(x)  BY <1>1 DEF Creators
  <2>26. CountInv'
    <3>1. p \in Referrers(m)  BY <1>3, <2>1 DEF Referrers
    <3> QED BY <1>1, <2>2, <2>22, <2>23, <2>24, <2>25, <3>1, CountMoves
  <2> QED BY <2>17, <2>18, <2>19, <2>20, <2>26 DEF IInv
<1> QED BY <1>5, <1>6

\* An instruction that is done, and followed by no other of its own.
LEMMA Nothing ==
  ASSUME IInv, NEW t \in Threads, todo[t] # <<>>, Call(t, <<>> \o Tail(todo[t]))
  PROVE  \E body \in Seq(Instructions) :
           /\ Becomes(t, body) /\ Len(body) = 0 /\ (\A i \in 1..Len(body) : FALSE)
           /\ \A u \in Threads : u # t => todo'[u] = todo[u]
           /\ Marked = Mark(todo[t][1]) \cup LeftMarks(t) \cup OtherMarks(t)
           /\ Marked' = LeftMarks(t) \cup OtherMarks(t)
<1>1. PICK body : body = <<>>  OBVIOUS
<1>2. /\ body \in Seq(Instructions) /\ Len(body) = 0 /\ (\A i \in 1..Len(body) : FALSE)
      /\ TypeInv
  BY <1>1 DEF IInv
<1>3. Becomes(t, body)  BY <1>1, <1>2, ExecuteBecomes
<1>4. \A u \in Threads : u # t => todo'[u] = todo[u]  BY <1>2, <1>3, BecomesIs
<1>5. (UNION {Mark(body[i]) : i \in 1..Len(body)}) = {}  BY <1>2
<1>6. Marked' = (UNION {Mark(body[i]) : i \in 1..Len(body)}) \cup LeftMarks(t) \cup OtherMarks(t)
  BY <1>2, <1>3, MarksMove
<1>7. Marked = Mark(todo[t][1]) \cup LeftMarks(t) \cup OtherMarks(t)  BY <1>2, MarksAre
<1> QED BY <1>2, <1>3, <1>4, <1>5, <1>6, <1>7

LEMMA DoNullStep ==
  ASSUME IInv, NEW t \in Threads, DoNull(t)
  PROVE  IInv'
<1>1. /\ todo[t] # <<>> /\ Head(todo[t]).op = "Null" /\ Call(t, <<>> \o Tail(todo[t]))
      /\ ptr' = [ptr EXCEPT ![Head(todo[t]).p] = None]
      /\ UNCHANGED <<fresh, alive, refCount, raw, crash>> /\ TypeInv /\ CountInv /\ RawInv
  BY DEF DoNull, Execute, IInv
<1>2. PICK p : p = Arg(t, 1)  OBVIOUS
<1>3. /\ Op(t, 1) = "Null" /\ Head(todo[t]).p = p /\ 1 \in At(t) /\ todo[t][1] \in Instructions
  BY <1>1, <1>2, HeadIs
<1>4. p \in Ptrs /\ Mark(todo[t][1]) = {p}  BY <1>2, <1>3, Kinds DEF Op, Arg, Mark
<1>5. Shape(t, 1) /\ Len(todo[t]) \in Nat  BY <1>3, LeftIs DEF IInv, ShapeInv
<1>6. PICK body \in Seq(Instructions) :
           /\ Becomes(t, body) /\ Len(body) = 0 /\ (\A i \in 1..Len(body) : FALSE)
           /\ \A u \in Threads : u # t => todo'[u] = todo[u]
           /\ Marked = Mark(todo[t][1]) \cup LeftMarks(t) \cup OtherMarks(t)
           /\ Marked' = LeftMarks(t) \cup OtherMarks(t)
  BY <1>1, Nothing
<1>7. /\ ptr \in [Ptrs -> Objects \cup {None}] /\ alive \subseteq Objects
      /\ ptr'[p] = None /\ \A r \in Ptrs : r # p => ptr'[r] = ptr[r]
      /\ ptr' \in [Ptrs -> Objects \cup {None}]
  <2>1. ptr \in [Ptrs -> Objects \cup {None}] /\ alive \subseteq Objects  BY <1>1 DEF TypeInv
  <2> QED BY <1>1, <1>3, <1>4, <2>1
<1>8. Sets(t)
  <2>1. p \in Marks(t)  BY <1>3, <1>4 DEF Marks
  <2>2. MayChange(t, p) \/ (p \in Objects /\ refCount[p] = 0)
    BY <1>4, <2>1, MarkedIs, PtrsFinite DEF IInv, MayChange, Dest
  <2> QED BY <1>1, <1>6, <1>7, <2>2 DEF Sets
<1>9. ShapeInv' /\ SetInv' /\ AddInv' /\ todo' \in [Threads -> Seq(Instructions)]
  <2>1. ASSUME Len(Left(t)) # 0, Left(t)[1].op \in {"Free", "Set", "Take"}
        PROVE  Left(t)[1].p = p
    <3>1. 1 \in 1..Len(Left(t))  BY <1>1, <2>1, LeftIs
    <3>2. Clears(todo[t][1], Left(t)[1].p)  BY <2>1, <3>1, LeftKinds
    <3> QED BY <1>2, <3>2 DEF Clears, Arg
  <2>2. ASSUME NEW j \in 1..Len(Left(t)), Left(t)[j].op = "Set",
               NEW s \in Slots, <<t, s>> # Left(t)[j].p
        PROVE  ptr'[<<t, s>>] = ptr[<<t, s>>]
    <3>1. <<t, s>> \in Locals /\ <<t, s>> \in Ptrs  BY PtrsFinite DEF Ptrs
    <3>2. CASE p \in Objects
      <4>1. <<t, s>> # p  BY <3>1, <3>2, PtrsFinite
      <4> QED BY <1>7, <3>1, <4>1
    <3>3. CASE p \notin Objects
      <4>1. /\ Len(Left(t)) \in Nat /\ Len(todo[t]) = Len(Left(t)) + 1
            /\ \A i \in 1..Len(Left(t)) : i + 1 \in At(t)
        BY <1>1, LeftIs
      <4>2. 1 \in 1..Len(Left(t)) /\ Len(Left(t)) # 0  BY <4>1
      <4>3. 1 + 1 \in At(t)  BY <4>1, <4>2
      <4>4. Op(t, 1 + 1) \in {"Set", "Take"}  BY <1>2, <1>3, <1>5, <3>3, <4>3 DEF Shape
      <4>5. Shape(t, 1 + 1)  BY <4>3 DEF IInv, ShapeInv
      <4>6. 1 + 1 = Len(todo[t])  BY <4>4, <4>5 DEF Shape
      <4>7. j = 1  BY <4>1, <4>6
      <4>8. <<t, s>> # p  BY <2>1, <2>2, <4>2, <4>7
      <4> QED BY <1>7, <3>1, <4>8
    <3> QED BY <3>2, <3>3
  <2> QED BY <1>1, <1>6, <1>7, <1>8, <2>1, <2>2, CallsKeep
<1>10. FreeInv'  BY <1>1, <1>3, <1>6, <1>7, FreeKeeps
<1>11. TypeInv'  BY <1>1, <1>7, <1>9 DEF TypeInv
<1>12. RawInv'  BY <1>1, <1>4, <1>7, PtrsFinite DEF RawInv
<1>13. ASSUME NEW x \in Objects
       PROVE  /\ Referrers(x)' = Referrers(x) /\ Creators(x)' = Creators(x)
              /\ Releasers(x)' = Releasers(x)
  <2>1. x # None  BY PtrsFinite
  <2>2. Referrers(x)' = Referrers(x)  BY <1>4, <1>6, <1>7, <2>1 DEF Referrers
  <2>3. Creators(x)' = Creators(x)  BY <1>1 DEF Creators
  <2>4. Releasers(x)' = Releasers(x)  BY <1>3, <1>6, ReleasersSame
  <2> QED BY <2>2, <2>3, <2>4
<1>14. CountInv'  BY <1>1, <1>13, CountsStay
<1> QED BY <1>9, <1>10, <1>11, <1>12, <1>14 DEF IInv

\* What sets or counts a pointer is the last instruction of its call.
LEMMA LastOne ==
  ASSUME IInv, NEW t \in Threads, todo[t] # <<>>, Op(t, 1) \in {"Set", "Take", "AddRef"}
  PROVE  /\ Len(Left(t)) = 0 /\ LeftMarks(t) = {} /\ Marks(t) = Mark(todo[t][1])
<1>1. Len(Left(t)) \in Nat  BY LeftIs DEF IInv
<1>2. \A j \in 1..Len(Left(t)) : FALSE  BY LeftKinds
<1>3. Len(Left(t)) = 0
  <2>1. Len(Left(t)) # 0 => 1 \in 1..Len(Left(t))  BY <1>1
  <2> QED BY <1>2, <2>1
<1>4. LeftMarks(t) = {}  BY <1>2 DEF LeftMarks
<1>5. Marks(t) = Mark(todo[t][1]) \cup LeftMarks(t)  BY MarksAre DEF IInv
<1> QED BY <1>3, <1>4, <1>5

LEMMA DoSetStep ==
  ASSUME IInv, NEW t \in Threads, DoSet(t)
  PROVE  IInv'
<1>1. /\ todo[t] # <<>> /\ Head(todo[t]).op = "Set"
      /\ ptr' = [ptr EXCEPT ![Head(todo[t]).p] = ptr[Head(todo[t]).q]]
      /\ crash' = IF Gone(Head(todo[t]).q) THEN "deleted rhs" ELSE crash
      /\ UNCHANGED <<fresh, alive, refCount, raw>> /\ TypeInv /\ CountInv /\ RawInv
  BY DEF DoSet, Execute, IInv
<1>2. PICK p, q : p = Arg(t, 1) /\ q = Src(t, 1)  OBVIOUS
<1>3. /\ Op(t, 1) = "Set" /\ Head(todo[t]).p = p /\ Head(todo[t]).q = q
      /\ 1 \in At(t) /\ todo[t][1] \in Instructions
  BY <1>1, <1>2, HeadIs
<1>4. /\ p \in Ptrs /\ q \in Ptrs /\ Mark(todo[t][1]) = {}
  BY <1>2, <1>3, Kinds DEF Op, Arg, Src, Mark
<1>5. Shape(t, 1) /\ Setting(t, 1)  BY <1>3 DEF IInv, ShapeInv, SetInv
<1>6. ptr[p] = None /\ Dest(t, p) /\ Source(t, p, q)
  BY <1>2, <1>3, <1>5 DEF Shape, Setting
<1>7. Len(Left(t)) = 0 /\ LeftMarks(t) = {} /\ Marks(t) = {}  BY <1>1, <1>3, <1>4, LastOne
<1>8. ~Gone(q)
  <2>1. CASE q \in Locals  BY <2>1, PtrsFinite DEF Gone
  <2>2. CASE q \in Objects
    <3>1. PICK s \in Slots : <<t, s>> # p /\ ptr[<<t, s>>] = q
      BY <1>6, <2>2, PtrsFinite DEF Source
    <3>2. <<t, s>> \in Locals /\ <<t, s>>[1] = t  BY PtrsFinite
    <3>3. q \in alive  BY <1>7, <2>2, <3>1, <3>2, MemberCounts
    <3> QED BY <3>3 DEF Gone
  <2> QED BY <1>4, <2>1, <2>2, PtrsFinite
<1>9. crash' = crash  BY <1>1, <1>3, <1>8
<1>10. PICK m : m = ptr[q]  OBVIOUS
<1>11. /\ ptr \in [Ptrs -> Objects \cup {None}] /\ alive \subseteq Objects /\ m \in Objects \cup {None}
  BY <1>1, <1>4, <1>10 DEF TypeInv
<1>12. /\ ptr'[p] = m /\ \A r \in Ptrs : r # p => ptr'[r] = ptr[r]
       /\ ptr' \in [Ptrs -> Objects \cup {None}]
  BY <1>1, <1>3, <1>4, <1>10, <1>11
<1>13. CASE m = None
  <2>1. ptr' = ptr  BY <1>6, <1>11, <1>12, <1>13
  <2>2. Call(t, <<>> \o Tail(todo[t]))  BY <1>3, <1>10, <1>13 DEF DoSet, Execute
  <2>3. PICK body \in Seq(Instructions) :
          /\ Becomes(t, body) /\ Len(body) = 0 /\ (\A i \in 1..Len(body) : FALSE)
    BY <1>1, <2>2, Nothing
  <2> QED BY <1>1, <1>2, <1>3, <1>6, <1>9, <2>1, <2>3, QuietStep
<1>14. CASE m # None
  <2>1. m \in Objects  BY <1>11, <1>14
  <2>2. PICK a : a = AddRef(m, p)  OBVIOUS
  <2>3. a \in Instructions /\ a.op = "AddRef" /\ a.p = m /\ a.q = p
    BY <1>4, <2>1, <2>2, Made, Fields
  <2>4. PICK body : body = <<a>>  OBVIOUS
  <2>5. /\ body \in Seq(Instructions) /\ Len(body) = 1 /\ body[1] = a
        /\ \A i \in 1..Len(body) : i = 1
    BY <2>3, <2>4, OneInstruction
  <2>6. Call(t, body \o Tail(todo[t]))  BY <1>3, <1>10, <1>14, <2>2, <2>4 DEF DoSet, Execute
  <2>7. Becomes(t, body)  BY <1>1, <2>5, <2>6, ExecuteBecomes
  <2>8. /\ todo'[t][1] = a /\ Len(todo'[t]) = 1
        /\ \A u \in Threads : u # t => todo'[u] = todo[u]
    <3>1. /\ \A u \in Threads : u # t => todo'[u] = todo[u]
          /\ Len(todo'[t]) = Len(body) + Len(Left(t))
          /\ \A i \in 1..Len(body) : todo'[t][i] = body[i]
      BY <1>1, <2>5, <2>7, BecomesIs
    <3>2. 1 \in 1..Len(body)  BY <2>5
    <3> QED BY <1>7, <2>5, <3>1, <3>2
  <2>9. Op(t, 1)' = "AddRef" /\ Arg(t, 1)' = m /\ Src(t, 1)' = p
    BY <2>3, <2>8 DEF Op, Arg, Src
  <2>10. Shape(t, 1)' /\ Setting(t, 1)'  BY <2>8, <2>9 DEF Shape, Setting
  <2>11. Adding(t, 1)'
    <3>1. Dest(t, p)'
      <4>1. CASE p \in Locals /\ p[1] = t  BY <4>1 DEF Dest
      <4>2. CASE p \in Objects /\ raw[t] = p /\ \A r \in Ptrs : ptr[r] # p
        <5>1. \A r \in Ptrs : ptr'[r] # p  BY <1>4, <1>10, <1>12, <4>2
        <5> QED BY <1>1, <4>2, <5>1 DEF Dest
      <4> QED BY <1>6, <4>1, <4>2 DEF Dest
    <3>2. q # p /\ ptr'[q] = m  BY <1>4, <1>6, <1>10, <1>12, <1>14
    <3>3. Source(t, p, q)'
      <4>1. CASE q \in Locals /\ q[1] = t  BY <4>1 DEF Source
      <4>2. CASE q \in Objects /\ \E s \in Slots : <<t, s>> # p /\ ptr[<<t, s>>] = q
        <5>1. PICK s \in Slots : <<t, s>> # p /\ ptr[<<t, s>>] = q  BY <4>2
        <5>2. <<t, s>> \in Ptrs  BY PtrsFinite DEF Ptrs
        <5>3. ptr'[<<t, s>>] = q  BY <1>12, <5>1, <5>2
        <5> QED BY <4>2, <5>1, <5>3 DEF Source
      <4> QED BY <1>6, <4>1, <4>2 DEF Source
    <3>4. Dest(t, Src(t, 1))' /\ Source(t, Src(t, 1), q)'
      BY <2>9, <3>1, <3>3 DEF Dest, Source
    <3> QED BY <1>4, <1>12, <2>9, <3>2, <3>4 DEF Adding
  <2>12. Sets(t)
    <3>1. MayChange(t, p)  BY <1>6 DEF MayChange
    <3>2. \A r \in Ptrs : ptr'[r] # None => \E x \in Ptrs : ptr'[r] = ptr[x]
      BY <1>4, <1>10, <1>12
    <3> QED BY <1>1, <1>12, <2>8, <3>1, <3>2 DEF Sets
  <2>13. ShapeInv' /\ SetInv' /\ AddInv' /\ todo' \in [Threads -> Seq(Instructions)]
    BY <1>7, <2>5, <2>7, <2>10, <2>11, <2>12, CallsKeep
  <2>14. FreeInv'
    <3>1. \A i \in 1..Len(body) : body[i].op # "Free"  BY <2>3, <2>5
    <3> QED BY <1>1, <1>3, <1>11, <2>5, <2>7, <3>1, FreeKeeps
  <2>15. TypeInv'  BY <1>1, <1>9, <1>12, <2>13 DEF TypeInv
  <2>16. RawInv'
    <3>1. p \in Objects => p \in alive
      <4>1. ASSUME p \in Objects  PROVE t \in Creators(p)  BY <1>6, <4>1, PtrsFinite DEF Dest, Creators
      <4> QED BY <4>1, Referred DEF IInv
    <3> QED BY <1>1, <1>12, <3>1, PtrsFinite DEF RawInv
  <2>17. Marked' = Marked \cup {p}
    <3>1. Mark(a) = {p}  BY <2>3 DEF Mark
    <3>2. (UNION {Mark(body[i]) : i \in 1..Len(body)}) = {p}  BY <2>5, <3>1
    <3>3. Marked = LeftMarks(t) \cup OtherMarks(t)  BY <1>1, <1>4, MarksAre
    <3>4. Marked' = (UNION {Mark(body[i]) : i \in 1..Len(body)}) \cup LeftMarks(t) \cup OtherMarks(t)
      BY <1>1, <2>5, <2>7, MarksMove
    <3> QED BY <3>2, <3>3, <3>4
  <2>18. ASSUME NEW x \in Objects
         PROVE  /\ Referrers(x)' = Referrers(x) /\ Creators(x)' = Creators(x)
                /\ Releasers(x)' = Releasers(x)
    <3>1. x # None  BY PtrsFinite
    <3>2. Referrers(x)' = Referrers(x)  BY <1>6, <1>12, <2>17, <3>1 DEF Referrers
    <3>3. Creators(x)' = Creators(x)  BY <1>1 DEF Creators
    <3>4. Releasers(x)' = Releasers(x)  BY <1>3, <2>3, <2>5, <2>7, ReleasersSame
    <3> QED BY <3>2, <3>3, <3>4
  <2>19. CountInv'  BY <1>1, <2>18, CountsStay
  <2> QED BY <2>13, <2>14, <2>15, <2>16, <2>19 DEF IInv
<1> QED BY <1>13, <1>14

LEMMA DoTakeStep ==
  ASSUME IInv, NEW t \in Threads, DoTake(t)
  PROVE  IInv'
<1>1. /\ todo[t] # <<>> /\ Head(todo[t]).op = "Take" /\ Call(t, <<>> \o Tail(todo[t]))
      /\ ptr' = [[ptr EXCEPT ![Head(todo[t]).p] = ptr[Head(todo[t]).q]]
                   EXCEPT ![Head(todo[t]).q] = None]
      /\ UNCHANGED <<fresh, alive, refCount, raw, crash>> /\ TypeInv /\ CountInv /\ RawInv
  BY DEF DoTake, Execute, IInv
<1>2. PICK p, q : p = Arg(t, 1) /\ q = Src(t, 1)  OBVIOUS
<1>3. /\ Op(t, 1) = "Take" /\ Head(todo[t]).p = p /\ Head(todo[t]).q = q
      /\ 1 \in At(t) /\ todo[t][1] \in Instructions
  BY <1>1, <1>2, HeadIs
<1>4. /\ p \in Locals /\ q \in Locals /\ p \in Ptrs /\ q \in Ptrs
      /\ p \notin Objects /\ q \notin Objects /\ Mark(todo[t][1]) = {}
  BY <1>2, <1>3, Kinds, PtrsFinite DEF Op, Arg, Src, Mark, Ptrs
<1>5. Shape(t, 1)  BY <1>3 DEF IInv, ShapeInv
<1>6. ptr[p] = None /\ p[1] = t /\ q[1] = t  BY <1>2, <1>3, <1>5 DEF Shape
<1>7. Len(Left(t)) = 0 /\ Marks(t) = {}  BY <1>1, <1>3, <1>4, LastOne
<1>8. PICK body \in Seq(Instructions) :
           /\ Becomes(t, body) /\ Len(body) = 0 /\ (\A i \in 1..Len(body) : FALSE)
           /\ \A u \in Threads : u # t => todo'[u] = todo[u]
           /\ Marked = Mark(todo[t][1]) \cup LeftMarks(t) \cup OtherMarks(t)
           /\ Marked' = LeftMarks(t) \cup OtherMarks(t)
  BY <1>1, Nothing
<1>9. PICK m : m = ptr[q]  OBVIOUS
<1>10. /\ ptr \in [Ptrs -> Objects \cup {None}] /\ alive \subseteq Objects /\ m \in Objects \cup {None}
  BY <1>1, <1>4, <1>9 DEF TypeInv
<1>11. /\ ptr'[q] = None /\ (p # q => ptr'[p] = m)
       /\ \A r \in Ptrs : r # p /\ r # q => ptr'[r] = ptr[r]
       /\ ptr' \in [Ptrs -> Objects \cup {None}]
  BY <1>1, <1>3, <1>4, <1>9, <1>10
<1>12. CASE p = q \/ m = None
  <2>1. ptr' = ptr  BY <1>4, <1>6, <1>9, <1>10, <1>11, <1>12
  <2> QED BY <1>1, <1>2, <1>3, <1>6, <1>8, <2>1, QuietStep
<1>13. CASE p # q /\ m # None
  <2>1. m \in Objects  BY <1>10, <1>13
  <2>2. Sets(t)
    <3>1. MayChange(t, p) /\ MayChange(t, q)  BY <1>4, <1>6 DEF MayChange, Dest
    <3>2. \A r \in Ptrs : ptr'[r] # None => \E x \in Ptrs : ptr'[r] = ptr[x]
      BY <1>4, <1>9, <1>11, <1>13
    <3> QED BY <1>1, <1>8, <1>11, <3>1, <3>2 DEF Sets
  <2>3. ShapeInv' /\ SetInv' /\ AddInv' /\ todo' \in [Threads -> Seq(Instructions)]
    BY <1>7, <1>8, <2>2, CallsKeep
  <2>4. FreeInv'  BY <1>1, <1>3, <1>8, <1>10, FreeKeeps
  <2>5. TypeInv'  BY <1>1, <1>11, <2>3 DEF TypeInv
  <2>6. RawInv'  BY <1>1, <1>4, <1>11, PtrsFinite DEF RawInv
  <2>7. Marked' = Marked  BY <1>4, <1>8
  <2>8. p \notin Marked /\ q \notin Marked
    <3>1. ASSUME NEW u \in Threads, NEW r \in Marks(u), r \in Locals, r[1] = t  PROVE FALSE
      <4>1. r[1] = u  BY <3>1, MarkedIs DEF IInv
      <4> QED BY <1>7, <3>1, <4>1
    <3> QED BY <1>4, <1>6, <3>1 DEF Marked
  <2>9. CountInv'
    <3>1. \A x : Creators(x)' = Creators(x)  BY <1>1 DEF Creators
    <3>2. \A x : Releasers(x)' = Releasers(x)  BY <1>3, <1>8, ReleasersSame
    <3>3. ASSUME NEW x \in Objects  PROVE Cardinality(Referrers(x)') = Cardinality(Referrers(x))
      <4>1. x # None  BY PtrsFinite
      <4>2. CASE x # m
        <5>1. Referrers(x)' = Referrers(x)
          BY <1>6, <1>9, <1>11, <1>13, <2>7, <4>1, <4>2 DEF Referrers
        <5> QED BY <5>1
      <4>3. CASE x = m
        <5>1. PICK S : S = Referrers(m)  OBVIOUS
        <5>2. Referrers(m)' = (S \ {q}) \cup {p} /\ q \in S /\ p \notin S
          BY <1>4, <1>6, <1>9, <1>11, <1>13, <2>7, <2>8, <5>1 DEF Referrers
        <5>3. Cardinality((S \ {q}) \cup {p}) = Cardinality(S)
          BY <5>1, <5>2, ReferencesFinite, OneSwapped
        <5> QED BY <4>3, <5>1, <5>2, <5>3
      <4> QED BY <4>2, <4>3
    <3> QED BY <1>1, <3>1, <3>2, <3>3 DEF CountInv, References
  <2> QED BY <2>3, <2>4, <2>5, <2>6, <2>9 DEF IInv
<1> QED BY <1>12, <1>13

\* What a call is about to count has a reference that is counted already.
LEMMA AddingCounts ==
  ASSUME IInv, NEW t \in Threads, NEW i \in At(t), Op(t, i) = "AddRef"
  PROVE  /\ Arg(t, i) \in Objects /\ Arg(t, i) \in alive /\ refCount[Arg(t, i)] > 0
         /\ i = 1 /\ todo[t] # <<>>
<1>1. PICK o, p : o = Arg(t, i) /\ p = Src(t, i)  OBVIOUS
<1>2. todo[t][i] \in Instructions /\ Shape(t, i) /\ Adding(t, i)
  BY LeftIs DEF IInv, ShapeInv, AddInv
<1>3. todo[t] # <<>>
  <2>1. todo[t] = <<>> => At(t) = {}  BY LeftIs DEF IInv, At
  <2> QED BY <2>1
<1>4. o \in Objects /\ o # None /\ i = 1 /\ Mark(todo[t][i]) = {p}
  BY <1>1, <1>2, Kinds, PtrsFinite DEF Op, Arg, Src, Shape, Mark
<1>5. Marks(t) = {p}  BY <1>3, <1>4, LastOne
<1>6. raw[t] = o \/ \E r \in Ptrs : r # p /\ ptr[r] = o /\ Source(t, p, r)
  BY <1>1, <1>2 DEF Adding
<1>7. CASE raw[t] = o
  <2>1. t \in Creators(o)  BY <1>7 DEF Creators
  <2>2. refCount[o] > 0 /\ o \in alive  BY <1>4, <2>1, Referred DEF IInv
  <2> QED BY <1>1, <1>3, <1>4, <2>2
<1>8. CASE \E r \in Ptrs : r # p /\ ptr[r] = o /\ Source(t, p, r)
  <2>1. PICK r \in Ptrs : r # p /\ ptr[r] = o /\ Source(t, p, r)  BY <1>8
  <2>2. CASE r \in Locals /\ r[1] = t
    <3>1. refCount[o] > 0 /\ o \in alive  BY <1>4, <1>5, <2>1, <2>2, LocalCounts
    <3> QED BY <1>1, <1>3, <1>4, <3>1
  <2>3. CASE r \in Objects /\ \E s \in Slots : <<t, s>> # p /\ ptr[<<t, s>>] = r
    <3>1. PICK s \in Slots : <<t, s>> # p /\ ptr[<<t, s>>] = r  BY <2>3
    <3>2. <<t, s>> \in Locals /\ <<t, s>>[1] = t  BY PtrsFinite
    <3>3. refCount[o] > 0 /\ o \in alive  BY <1>4, <1>5, <2>1, <2>3, <3>1, <3>2, MemberCounts
    <3> QED BY <1>1, <1>3, <1>4, <3>3
  <2> QED BY <2>1, <2>2, <2>3 DEF Source
<1> QED BY <1>6, <1>7, <1>8

LEMMA DoAddRefStep ==
  ASSUME IInv, NEW t \in Threads, DoAddRef(t)
  PROVE  IInv'
<1>1. /\ todo[t] # <<>> /\ Head(todo[t]).op = "AddRef" /\ Call(t, <<>> \o Tail(todo[t]))
      /\ refCount' = [refCount EXCEPT ![Head(todo[t]).p] = @ + 1]
      /\ crash' = IF Gone(Head(todo[t]).p) THEN "deleted object" ELSE crash
      /\ UNCHANGED <<fresh, alive, ptr, raw>> /\ TypeInv /\ CountInv /\ RawInv
  BY DEF DoAddRef, Execute, IInv
<1>2. PICK o, p : o = Arg(t, 1) /\ p = Src(t, 1)  OBVIOUS
<1>3. /\ Op(t, 1) = "AddRef" /\ Head(todo[t]).p = o /\ 1 \in At(t) /\ todo[t][1] \in Instructions
  BY <1>1, <1>2, HeadIs
<1>4. p \in Ptrs /\ Mark(todo[t][1]) = {p}  BY <1>2, <1>3, Kinds DEF Op, Src, Mark
<1>5. o \in Objects /\ o \in alive /\ refCount[o] > 0  BY <1>2, <1>3, AddingCounts
<1>6. Adding(t, 1)  BY <1>3 DEF IInv, AddInv
<1>7. Dest(t, p) /\ ptr[p] = o  BY <1>2, <1>3, <1>6 DEF Adding
<1>8. Len(Left(t)) = 0 /\ LeftMarks(t) = {}  BY <1>1, <1>3, LastOne
<1>9. PICK body \in Seq(Instructions) :
           /\ Becomes(t, body) /\ Len(body) = 0 /\ (\A i \in 1..Len(body) : FALSE)
           /\ \A u \in Threads : u # t => todo'[u] = todo[u]
           /\ Marked = Mark(todo[t][1]) \cup LeftMarks(t) \cup OtherMarks(t)
           /\ Marked' = LeftMarks(t) \cup OtherMarks(t)
  BY <1>1, Nothing
<1>10. crash' = crash  BY <1>1, <1>3, <1>5 DEF Gone
<1>11. /\ refCount \in [Objects -> Nat] /\ alive \subseteq Objects
       /\ ptr \in [Ptrs -> Objects \cup {None}]
  BY <1>1 DEF TypeInv
<1>12. /\ refCount'[o] = refCount[o] + 1 /\ refCount' \in [Objects -> Nat] /\ refCount[o] \in Nat
       /\ \A x \in Objects : x # o => refCount'[x] = refCount[x]
  <2>1. refCount' = [refCount EXCEPT ![o] = refCount[o] + 1]  BY <1>1, <1>3
  <2>2. refCount[o] \in Nat /\ refCount[o] + 1 \in Nat  BY <1>5, <1>11
  <2> QED BY <1>5, <1>11, <2>1, <2>2
<1>13. Sets(t)  BY <1>1, <1>9, <1>11 DEF Sets
<1>14. ShapeInv' /\ SetInv' /\ AddInv' /\ todo' \in [Threads -> Seq(Instructions)]
  BY <1>8, <1>9, <1>13, CallsKeep
<1>15. FreeInv'
  <2>1. refCount[o] # 0 /\ refCount'[o] # 0  BY <1>5, <1>12
  <2>2. \A x \in Objects : x \in alive' /\ refCount'[x] = 0 <=> x \in alive /\ refCount[x] = 0
    BY <1>1, <1>12, <2>1
  <2> QED BY <1>1, <1>3, <1>9, <1>11, <2>2, FreeKeeps
<1>16. TypeInv'  BY <1>1, <1>10, <1>12, <1>14 DEF TypeInv
<1>17. RawInv'  BY <1>1, <1>5, <1>12 DEF RawInv
<1>18. p \notin OtherMarks(t)
  <2>1. ASSUME NEW u \in Threads, u # t, p \in Marks(u)  PROVE FALSE
    <3>1. CASE p \in Locals  BY <1>7, <2>1, <3>1, MarkedIs, PtrsFinite DEF IInv, Dest
    <3>2. CASE p \in Objects
      <4>1. raw[t] = p /\ p # None  BY <1>7, <3>2, PtrsFinite DEF Dest
      <4>2. t \in Creators(p)  BY <4>1 DEF Creators
      <4>3. refCount[p] > 0  BY <3>2, <4>2, Referred DEF IInv
      <4>4. refCount[p] # 0  BY <4>3
      <4>5. raw[u] = p  BY <2>1, <3>2, <4>4, MarkedIs DEF IInv
      <4> QED BY <1>1, <2>1, <4>1, <4>5 DEF RawInv
    <3> QED BY <1>4, <3>1, <3>2, PtrsFinite
  <2> QED BY <2>1 DEF OtherMarks
<1>19. Marked = Marked' \cup {p} /\ p \notin Marked'  BY <1>4, <1>8, <1>9, <1>18
<1>20. \A x \in Objects : Referrers(x)' = IF x = o THEN Referrers(x) \cup {p} ELSE Referrers(x)
  BY <1>1, <1>4, <1>7, <1>19 DEF Referrers
<1>21. \A x : Creators(x)' = Creators(x)  BY <1>1 DEF Creators
<1>22. \A x : Releasers(x)' = Releasers(x)  BY <1>3, <1>9, ReleasersSame
<1>23. Cardinality(Referrers(o)') = Cardinality(Referrers(o)) + 1
  <2>1. PICK S : S = Referrers(o)  OBVIOUS
  <2>2. p \notin S  BY <1>19, <2>1 DEF Referrers
  <2>3. Cardinality(S \cup {p}) = Cardinality(S) + 1  BY <2>1, <2>2, ReferencesFinite, OneMore
  <2> QED BY <1>5, <1>20, <2>1, <2>3
<1>24. CountInv'
  <2>1. ASSUME NEW x \in Objects  PROVE refCount'[x] = References(x)'
    <3>1. CASE x # o  BY <1>1, <1>12, <1>20, <1>21, <1>22, <3>1 DEF CountInv, References
    <3>2. CASE x = o
      <4>1. refCount[o] = References(o)  BY <1>1, <1>5 DEF CountInv
      <4> QED BY <1>12, <1>21, <1>22, <1>23, <3>2, <4>1, ReferencesFinite DEF References
    <3> QED BY <3>1, <3>2
  <2> QED BY <2>1 DEF CountInv
<1> QED BY <1>14, <1>15, <1>16, <1>17, <1>24 DEF IInv

\* After an instruction that neither clears nor sets, none that sets or ends a
\* deletion follows.
LEMMA NoneFollows ==
  ASSUME IInv, NEW t \in Threads, todo[t] # <<>>, Op(t, 1) \in {"ReleaseRef", "Free"},
         Len(Left(t)) # 0, Left(t)[1].op \in {"Free", "Set", "Take"}
  PROVE  FALSE
<1>1. 1 \in 1..Len(Left(t))  BY LeftIs DEF IInv
<1>2. Clears(todo[t][1], Left(t)[1].p)  BY <1>1, LeftKinds
<1> QED BY <1>2 DEF Clears, Op

\* The last reference to go starts the deletion, and no other does.
LEMMA DeletionBegins ==
  ASSUME TypeInv, FreeInv, NEW t \in Threads, NEW o \in alive, refCount[o] # 0, refCount'[o] = 0,
         NEW body \in Seq(Instructions), Becomes(t, body), Len(body) = 2,
         body[1].op # "Free", body[2] = Free(o), todo[t] # <<>> => Op(t, 1) # "Free",
         alive' = alive, \A x \in Objects : x # o => refCount'[x] = refCount[x]
  PROVE  FreeInv'
<1>0. o \in Objects /\ body[2].op = "Free" /\ body[2].p = o  BY Fields DEF TypeInv
<1>1. ASSUME NEW u \in Threads, NEW i, Freeing(u, i, o)  PROVE FALSE
  <2>1. i \in At(u)  BY <1>1 DEF Freeing
  <2> QED BY <1>0, <1>1, <2>1 DEF FreeInv
<1>2. ASSUME NEW u \in Threads, NEW i \in At(u)', NEW x
      PROVE  i \in Int /\ (Freeing(u, i, x)' <=>
               IF u = t THEN (i = 2 /\ x = o) \/ Freeing(t, i - 1, x) ELSE Freeing(u, i, x))
  <2>1. i \in Int
    <3>1. todo'[u] \in Seq(Instructions)  BY BecomesIs
    <3>2. Len(todo'[u]) \in Nat  BY <3>1
    <3> QED BY <3>2 DEF At
  <2>2. CASE u = t
    <3>1. Freeing(t, i, x)' <=> \/ i \in 1..Len(body) /\ body[i].op = "Free" /\ body[i].p = x
                                \/ i - Len(body) + 1 > 1 /\ Freeing(t, i - Len(body) + 1, x)
      BY <2>1, FreeMoves
    <3>2. i - Len(body) + 1 = i - 1  BY <2>1
    <3>3. i \in 1..Len(body) /\ body[i].op = "Free" /\ body[i].p = x <=> i = 2 /\ x = o
      <4>1. i \in 1..Len(body) <=> i = 1 \/ i = 2  BY <2>1
      <4> QED BY <1>0, <4>1
    <3>4. Freeing(t, i - 1, x) => i - 1 > 1
      <4>1. ASSUME Freeing(t, i - 1, x)  PROVE i - 1 > 1
        <5>1. PICK k : k = i - 1  OBVIOUS
        <5>2. k \in 1..Len(todo[t]) /\ Op(t, k) = "Free"  BY <4>1, <5>1 DEF Freeing, At
        <5>3. Len(todo[t]) \in Nat /\ (todo[t] = <<>> => Len(todo[t]) = 0)  BY LeftIs
        <5>4. todo[t] # <<>>  BY <5>2, <5>3
        <5>5. k # 1  BY <5>2, <5>4
        <5> QED BY <5>1, <5>2, <5>3, <5>5
      <4> QED BY <4>1
    <3>5. Freeing(t, i, x)' <=> (i = 2 /\ x = o) \/ (i - 1 > 1 /\ Freeing(t, i - 1, x))
      BY <3>1, <3>2, <3>3
    <3> QED BY <2>1, <2>2, <3>4, <3>5
  <2>3. CASE u # t
    <3>1. todo'[u] = todo[u]  BY <2>3, BecomesIs
    <3> QED BY <2>1, <2>3, <3>1 DEF Freeing, At, Op, Arg
  <2> QED BY <2>2, <2>3
<1>3. ASSUME NEW u \in Threads, NEW x \in Objects, NEW i \in At(u)', Freeing(u, i, x)'
      PROVE  x \in alive' /\ refCount'[x] = 0
  <2>1. CASE x = o  BY <2>1
  <2>2. CASE x # o
    <3>1. \E k : Freeing(u, k, x)  BY <1>2, <1>3, <2>2
    <3>2. \E k \in At(u) : Freeing(u, k, x)  BY <3>1 DEF Freeing
    <3>3. x \in alive /\ refCount[x] = 0  BY <3>2 DEF FreeInv
    <3> QED BY <2>2, <3>3
  <2> QED BY <2>1, <2>2
<1>4. ASSUME NEW u \in Threads, NEW v \in Threads, NEW x \in Objects,
             NEW i \in At(u)', NEW j \in At(v)', Freeing(u, i, x)', Freeing(v, j, x)'
      PROVE  u = v /\ i = j
  <2>1. i \in Int /\ j \in Int  BY <1>2
  <2>2. CASE x = o  BY <1>1, <1>2, <1>4, <2>2
  <2>3. CASE x # o
    <3>1. PICK k : k = IF u = t THEN i - 1 ELSE i  OBVIOUS
    <3>2. PICK l : l = IF v = t THEN j - 1 ELSE j  OBVIOUS
    <3>3. Freeing(u, k, x) /\ Freeing(v, l, x)  BY <1>2, <1>4, <2>3, <3>1, <3>2
    <3>4. u = v /\ k = l  BY <3>3 DEF FreeInv, Freeing
    <3> QED BY <2>1, <3>1, <3>2, <3>4
  <2> QED BY <2>2, <2>3
<1>5. ASSUME NEW x \in alive', refCount'[x] = 0
      PROVE  \E u \in Threads : \E i \in At(u)' : Freeing(u, i, x)'
  <2>1. CASE x = o
    <3>1. 2 \in 1..Len(body) /\ body[2].op = "Free" /\ body[2].p = o  BY <1>0
    <3>2. Freeing(t, 2, o)'  BY <3>1, FreeMoves
    <3>3. 2 \in At(t)'  BY <3>2 DEF Freeing
    <3> QED BY <2>1, <3>2, <3>3
  <2>2. CASE x # o
    <3>1. x \in Objects /\ x \in alive /\ refCount[x] = 0  BY <1>5, <2>2 DEF TypeInv
    <3>2. PICK u \in Threads : \E k \in At(u) : Freeing(u, k, x)  BY <3>1 DEF FreeInv
    <3>3. PICK k \in At(u) : Freeing(u, k, x)  BY <3>2
    <3>4. CASE u # t
      <4>1. todo'[u] = todo[u]  BY <3>4, BecomesIs
      <4>2. k \in At(u)' /\ Freeing(u, k, x)'  BY <3>3, <4>1 DEF Freeing, At, Op, Arg
      <4> QED BY <4>2
    <3>5. CASE u = t
      <4>1. k \in 1..Len(todo[t]) /\ Len(todo[t]) \in Nat /\ Op(t, k) = "Free"
        BY <3>3, <3>5, LeftIs DEF At, Freeing
      <4>2. Len(todo[t]) # 0 /\ (todo[t] = <<>> => Len(todo[t]) = 0)  BY <4>1, LeftIs
      <4>3. k # 1  BY <4>1, <4>2
      <4>4. PICK i : i = k + 1  OBVIOUS
      <4>5. i \in Int /\ i - Len(body) + 1 = k /\ k > 1  BY <4>1, <4>3, <4>4
      <4>6. i - Len(body) + 1 > 1 /\ Freeing(t, i - Len(body) + 1, x)  BY <3>3, <3>5, <4>5
      <4>7. Freeing(t, i, x)'  BY <4>5, <4>6, FreeMoves
      <4>8. i \in At(t)'  BY <4>7 DEF Freeing
      <4> QED BY <4>7, <4>8
    <3> QED BY <3>4, <3>5
  <2> QED BY <2>1, <2>2
<1> QED BY <1>3, <1>4, <1>5 DEF FreeInv

LEMMA DoReleaseRefStep ==
  ASSUME IInv, NEW t \in Threads, DoReleaseRef(t)
  PROVE  IInv'
<1>1. /\ todo[t] # <<>> /\ Head(todo[t]).op = "ReleaseRef"
      /\ refCount' = [refCount EXCEPT ![Head(todo[t]).p] = @ - 1]
      /\ crash' = IF Gone(Head(todo[t]).p) THEN "deleted object" ELSE crash
      /\ UNCHANGED <<fresh, alive, ptr, raw>> /\ TypeInv /\ FreeInv /\ CountInv /\ RawInv
  BY DEF DoReleaseRef, Execute, IInv
<1>2. PICK o : o = Arg(t, 1)  OBVIOUS
<1>3. /\ Op(t, 1) = "ReleaseRef" /\ Head(todo[t]).p = o /\ 1 \in At(t)
      /\ todo[t][1] \in Instructions
  BY <1>1, <1>2, HeadIs
<1>4. o \in Objects /\ Mark(todo[t][1]) = {}  BY <1>2, <1>3, Kinds DEF Op, Arg, Mark
<1>5. t \in Releasers(o)  BY <1>1, <1>2, <1>3 DEF Releasers, Releasing
<1>6. refCount[o] > 0 /\ o \in alive  BY <1>4, <1>5, Referred DEF IInv
<1>7. crash' = crash  BY <1>1, <1>3, <1>6 DEF Gone
<1>8. /\ refCount \in [Objects -> Nat] /\ alive \subseteq Objects
      /\ ptr \in [Ptrs -> Objects \cup {None}]
  BY <1>1 DEF TypeInv
<1>9. /\ refCount'[o] = refCount[o] - 1 /\ refCount' \in [Objects -> Nat] /\ refCount[o] \in Nat
      /\ \A x \in Objects : x # o => refCount'[x] = refCount[x]
  <2>1. refCount' = [refCount EXCEPT ![o] = refCount[o] - 1]  BY <1>1, <1>3
  <2>2. refCount[o] \in Nat  BY <1>4, <1>8
  <2>3. refCount[o] - 1 \in Nat  BY <1>6, <2>2
  <2> QED BY <1>4, <1>8, <2>1, <2>2, <2>3
<1>10. PICK body : body = IF refCount[o] = 1 THEN <<Release(o), Free(o)>> ELSE <<>>  OBVIOUS
<1>11. PICK a, b : a = Release(o) /\ b = Free(o)  OBVIOUS
<1>12. /\ a \in Instructions /\ a.op = "Release" /\ a.p = o
       /\ b \in Instructions /\ b.op = "Free" /\ b.p = o
  BY <1>4, <1>11, Made, Fields DEF Ptrs
<1>13. /\ body \in Seq(Instructions)
       /\ IF refCount[o] = 1
            THEN /\ Len(body) = 2 /\ body[1] = a /\ body[2] = b
                 /\ \A i \in 1..Len(body) : i = 1 \/ i = 2
            ELSE Len(body) = 0 /\ \A i \in 1..Len(body) : FALSE
  <2>1. CASE refCount[o] = 1
    <3>1. body = <<a, b>>  BY <1>10, <1>11, <2>1
    <3> QED BY <1>12, <2>1, <3>1, TwoInstructions
  <2>2. CASE refCount[o] # 1
    <3>1. body = <<>>  BY <1>10, <2>2
    <3> QED BY <2>2, <3>1
  <2> QED BY <2>1, <2>2
<1>14. Call(t, body \o Tail(todo[t]))  BY <1>3, <1>10 DEF DoReleaseRef, Execute
<1>15. Becomes(t, body)  BY <1>1, <1>13, <1>14, ExecuteBecomes
<1>16. \A u \in Threads : u # t => todo'[u] = todo[u]  BY <1>1, <1>13, <1>15, BecomesIs
<1>17. Sets(t)  BY <1>1, <1>8, <1>16 DEF Sets
<1>18. \A i \in 1..Len(body) : Shape(t, i)' /\ Setting(t, i)' /\ Adding(t, i)'
  <2>1. CASE refCount[o] # 1  BY <1>13, <2>1
  <2>2. CASE refCount[o] = 1
    <3>1. /\ todo'[t][1] = a /\ todo'[t][2] = b /\ Len(todo'[t]) \in Nat /\ Len(todo'[t]) >= 2
      <4>1. /\ Len(todo'[t]) = Len(body) + Len(Left(t))
            /\ \A i \in 1..Len(body) : todo'[t][i] = body[i]
        BY <1>1, <1>13, <1>15, BecomesIs
      <4>2. Len(body) = 2 /\ 1 \in 1..Len(body) /\ 2 \in 1..Len(body)  BY <1>13, <2>2
      <4>3. Len(Left(t)) \in Nat  BY <1>1, LeftIs
      <4> QED BY <1>13, <2>2, <4>1, <4>2, <4>3
    <3>2. /\ Op(t, 1)' = "Release" /\ Arg(t, 1)' = o /\ Op(t, 2)' = "Free" /\ Arg(t, 2)' = o
          /\ 1 + 1 = 2 /\ 2 \in At(t)'
      BY <1>12, <3>1 DEF Op, Arg, At
    <3>3. Op(t, 1 + 1)' = "Free" /\ Arg(t, 1 + 1)' = o /\ 1 + 1 \in At(t)'  BY <3>2
    <3>4. Shape(t, 1)'  BY <1>4, <3>2, <3>3 DEF Shape
    <3>5. Shape(t, 2)'
      <4>1. Clears(todo'[t][2 - 1], o)  BY <1>12, <3>1 DEF Clears
      <4>2. Clears(todo[t][2 - 1], o)'  BY <4>1 DEF Clears
      <4>3. Clears(todo[t][2 - 1], Arg(t, 2))'  BY <3>2, <4>2 DEF Clears
      <4> QED BY <3>2, <4>3 DEF Shape
    <3>6. Setting(t, 1)' /\ Setting(t, 2)' /\ Adding(t, 1)' /\ Adding(t, 2)'
      BY <3>2 DEF Setting, Adding
    <3> QED BY <1>13, <2>2, <3>4, <3>5, <3>6
  <2> QED BY <2>1, <2>2
<1>19. ShapeInv' /\ SetInv' /\ AddInv' /\ todo' \in [Threads -> Seq(Instructions)]
  <2>1. Len(Left(t)) # 0 => Left(t)[1].op \notin {"Free", "Set", "Take"}
    BY <1>1, <1>3, NoneFollows
  <2> QED BY <1>1, <1>13, <1>15, <1>17, <1>18, <2>1, CallsKeep
<1>20. FreeInv'
  <2>1. CASE refCount[o] # 1
    <3>1. refCount[o] # 0 /\ refCount'[o] # 0  BY <1>6, <1>9, <2>1
    <3>2. \A x \in Objects : x \in alive' /\ refCount'[x] = 0 <=> x \in alive /\ refCount[x] = 0
      BY <1>1, <1>9, <3>1
    <3>3. \A i \in 1..Len(body) : body[i].op # "Free"  BY <1>13, <2>1
    <3> QED BY <1>1, <1>3, <1>8, <1>13, <1>15, <3>2, <3>3, FreeKeeps
  <2>2. CASE refCount[o] = 1
    <3>1. refCount[o] # 0 /\ refCount'[o] = 0  BY <1>9, <2>2
    <3>2. Len(body) = 2 /\ body[1].op # "Free" /\ body[2] = Free(o)
      BY <1>11, <1>12, <1>13, <2>2
    <3> QED BY <1>1, <1>3, <1>6, <1>9, <1>13, <1>15, <3>1, <3>2, DeletionBegins
  <2> QED BY <2>1, <2>2
<1>21. TypeInv'  BY <1>1, <1>7, <1>9, <1>19 DEF TypeInv
<1>22. RawInv'  BY <1>1, <1>6, <1>9 DEF RawInv
<1>23. Marked' = Marked
  <2>1. \A i \in 1..Len(body) : Mark(body[i]) = {}  BY <1>12, <1>13 DEF Mark
  <2>2. (UNION {Mark(body[i]) : i \in 1..Len(body)}) = {}  BY <2>1
  <2>3. Marked = LeftMarks(t) \cup OtherMarks(t)  BY <1>1, <1>4, MarksAre
  <2>4. Marked' = (UNION {Mark(body[i]) : i \in 1..Len(body)}) \cup LeftMarks(t) \cup OtherMarks(t)
    BY <1>1, <1>13, <1>15, MarksMove
  <2> QED BY <2>2, <2>3, <2>4
<1>24. \A x : Referrers(x)' = Referrers(x) /\ Creators(x)' = Creators(x)
  BY <1>1, <1>23 DEF Referrers, Creators
<1>25. ASSUME NEW x \in Objects
       PROVE  Releasers(x)' = IF x = o THEN Releasers(x) \ {t} ELSE Releasers(x)
  <2>1. /\ \A u \in Threads : u # t => (Releasing(u, x)' <=> Releasing(u, x))
        /\ Releasing(t, x)' <=> Len(body) # 0 /\ body[1].op = "ReleaseRef" /\ body[1].p = x
    BY <1>13, <1>15, ReleasersMove
  <2>2. ~Releasing(t, x)'  BY <1>12, <1>13, <2>1
  <2>3. x # o => ~Releasing(t, x)  BY <1>2 DEF Releasing
  <2> QED BY <2>1, <2>2, <2>3 DEF Releasers
<1>26. Cardinality(Releasers(o)') = Cardinality(Releasers(o)) - 1
  <2>1. PICK S : S = Releasers(o)  OBVIOUS
  <2>2. Cardinality(S \ {t}) = Cardinality(S) - 1  BY <1>5, <2>1, ReferencesFinite, OneLess
  <2> QED BY <1>4, <1>25, <2>1, <2>2
<1>27. CountInv'
  <2>1. ASSUME NEW x \in Objects  PROVE refCount'[x] = References(x)'
    <3>1. CASE x # o  BY <1>1, <1>9, <1>24, <1>25, <3>1 DEF CountInv, References
    <3>2. CASE x = o
      <4>1. refCount[o] = References(o)  BY <1>1, <1>4 DEF CountInv
      <4> QED BY <1>9, <1>24, <1>26, <3>2, <4>1, ReferencesFinite DEF References
    <3> QED BY <3>1, <3>2
  <2> QED BY <2>1 DEF CountInv
<1> QED BY <1>19, <1>20, <1>21, <1>22, <1>27 DEF IInv

LEMMA DoFreeStep ==
  ASSUME IInv, NEW t \in Threads, DoFree(t)
  PROVE  IInv'
<1>1. /\ todo[t] # <<>> /\ Head(todo[t]).op = "Free" /\ Call(t, <<>> \o Tail(todo[t]))
      /\ alive' = alive \ {Head(todo[t]).p}
      /\ UNCHANGED <<fresh, refCount, ptr, raw, crash>>
      /\ TypeInv /\ FreeInv /\ CountInv /\ RawInv
  BY DEF DoFree, Execute, IInv
<1>2. PICK o : o = Arg(t, 1)  OBVIOUS
<1>3. /\ Op(t, 1) = "Free" /\ alive' = alive \ {o} /\ 1 \in At(t) /\ todo[t][1] \in Instructions
  BY <1>1, <1>2, HeadIs
<1>4. o \in Objects /\ Mark(todo[t][1]) = {}  BY <1>2, <1>3, Kinds DEF Op, Arg, Mark
<1>5. Freeing(t, 1, o)  BY <1>2, <1>3 DEF Freeing
<1>6. o \in alive /\ refCount[o] = 0  BY <1>1, <1>3, <1>4, <1>5 DEF FreeInv
<1>7. ptr[o] = None
  <2>1. Shape(t, 1)  BY <1>3 DEF IInv, ShapeInv
  <2> QED BY <1>2, <1>3, <2>1 DEF Shape
<1>8. PICK body \in Seq(Instructions) :
           /\ Becomes(t, body) /\ Len(body) = 0 /\ (\A i \in 1..Len(body) : FALSE)
           /\ \A u \in Threads : u # t => todo'[u] = todo[u]
           /\ Marked = Mark(todo[t][1]) \cup LeftMarks(t) \cup OtherMarks(t)
           /\ Marked' = LeftMarks(t) \cup OtherMarks(t)
  BY <1>1, Nothing
<1>9. alive \subseteq Objects /\ ptr \in [Ptrs -> Objects \cup {None}]  BY <1>1 DEF TypeInv
<1>10. Sets(t)  BY <1>1, <1>8, <1>9 DEF Sets
<1>11. ShapeInv' /\ SetInv' /\ AddInv' /\ todo' \in [Threads -> Seq(Instructions)]
  <2>1. Len(Left(t)) # 0 => Left(t)[1].op \notin {"Free", "Set", "Take"}
    BY <1>1, <1>3, NoneFollows
  <2> QED BY <1>1, <1>8, <1>10, <2>1, CallsKeep
<1>12. FreeInv'
  <2>1. ASSUME NEW u \in Threads, NEW i \in At(u)', NEW x
        PROVE  i \in Int /\ i >= 1 /\ (Freeing(u, i, x)' <=>
                 IF u = t THEN Freeing(t, i + 1, x) ELSE Freeing(u, i, x))
    <3>1. i \in Int /\ i >= 1
      <4>1. todo'[u] \in Seq(Instructions)  BY <1>1, <1>8, BecomesIs
      <4>2. Len(todo'[u]) \in Nat  BY <4>1
      <4> QED BY <4>2 DEF At
    <3>2. CASE u = t
      <4>1. Freeing(t, i, x)' <=> \/ i \in 1..Len(body) /\ body[i].op = "Free" /\ body[i].p = x
                                  \/ i - Len(body) + 1 > 1 /\ Freeing(t, i - Len(body) + 1, x)
        BY <1>1, <1>8, <3>1, FreeMoves
      <4>2. i - Len(body) + 1 = i + 1 /\ i + 1 > 1  BY <1>8, <3>1
      <4>3. i \notin 1..Len(body)  BY <1>8
      <4>4. Freeing(t, i, x)' <=> Freeing(t, i + 1, x)  BY <4>1, <4>2, <4>3
      <4> QED BY <3>1, <3>2, <4>4
    <3>3. CASE u # t
      <4>1. todo'[u] = todo[u]  BY <1>8, <3>3
      <4> QED BY <3>1, <3>3, <4>1 DEF Freeing, At, Op, Arg
    <3> QED BY <3>2, <3>3
  <2>2. ASSUME NEW u \in Threads, NEW x \in Objects, NEW i \in At(u)', Freeing(u, i, x)'
        PROVE  x \in alive' /\ refCount'[x] = 0
    <3>0. i \in Int /\ i >= 1  BY <2>1
    <3>1. PICK k : k = IF u = t THEN i + 1 ELSE i  OBVIOUS
    <3>2. Freeing(u, k, x) /\ k \in At(u)
      <4>1. Freeing(u, k, x)  BY <2>1, <2>2, <3>1
      <4> QED BY <4>1 DEF Freeing
    <3>3. x \in alive /\ refCount[x] = 0  BY <1>1, <3>2 DEF FreeInv
    <3>4. x # o
      <4>1. ASSUME x = o  PROVE FALSE
        <5>1. u = t /\ k = 1  BY <1>1, <1>3, <1>4, <1>5, <3>2, <4>1 DEF FreeInv
        <5> QED BY <3>0, <3>1, <5>1
      <4> QED BY <4>1
    <3> QED BY <1>1, <1>3, <3>3, <3>4
  <2>3. ASSUME NEW u \in Threads, NEW v \in Threads, NEW x \in Objects,
               NEW i \in At(u)', NEW j \in At(v)', Freeing(u, i, x)', Freeing(v, j, x)'
        PROVE  u = v /\ i = j
    <3>0. i \in Int /\ j \in Int  BY <2>1
    <3>1. PICK k : k = IF u = t THEN i + 1 ELSE i  OBVIOUS
    <3>2. PICK l : l = IF v = t THEN j + 1 ELSE j  OBVIOUS
    <3>3. Freeing(u, k, x)  BY <2>1, <2>3, <3>1
    <3>4. Freeing(v, l, x)  BY <2>1, <2>3, <3>2
    <3>5. u = v /\ k = l  BY <1>1, <3>3, <3>4 DEF FreeInv, Freeing
    <3> QED BY <3>0, <3>1, <3>2, <3>5
  <2>4. ASSUME NEW x \in alive', refCount'[x] = 0
        PROVE  \E u \in Threads : \E i \in At(u)' : Freeing(u, i, x)'
    <3>1. x \in Objects /\ x \in alive /\ refCount[x] = 0 /\ x # o  BY <1>1, <1>3, <1>9, <2>4
    <3>2. PICK u \in Threads : \E k \in At(u) : Freeing(u, k, x)  BY <1>1, <3>1 DEF FreeInv
    <3>3. PICK k \in At(u) : Freeing(u, k, x)  BY <3>2
    <3>4. CASE u # t
      <4>1. todo'[u] = todo[u]  BY <1>8, <3>4
      <4>2. k \in At(u)' /\ Freeing(u, k, x)'  BY <3>3, <4>1 DEF Freeing, At, Op, Arg
      <4> QED BY <4>2
    <3>5. CASE u = t
      <4>1. k \in 1..Len(todo[t]) /\ Len(todo[t]) \in Nat
        BY <1>1, <3>3, <3>5, LeftIs DEF At
      <4>2. k # 1  BY <1>2, <3>1, <3>3, <3>5 DEF Freeing
      <4>3. PICK i : i = k - 1  OBVIOUS
      <4>4. i \in Int /\ i - Len(body) + 1 = k /\ k > 1  BY <1>8, <4>1, <4>2, <4>3
      <4>5. i - Len(body) + 1 > 1 /\ Freeing(t, i - Len(body) + 1, x)  BY <3>3, <3>5, <4>4
      <4>6. Freeing(t, i, x)'  BY <1>1, <1>8, <4>4, <4>5, FreeMoves
      <4>7. i \in At(t)'  BY <4>6 DEF Freeing
      <4> QED BY <4>6, <4>7
    <3> QED BY <3>4, <3>5
  <2> QED BY <2>2, <2>3, <2>4 DEF FreeInv
<1>13. TypeInv'
  <2>1. fresh' \subseteq Objects /\ alive' \subseteq Objects /\ fresh' \cap alive' = {}
    BY <1>1, <1>3 DEF TypeInv
  <2> QED BY <1>1, <1>11, <2>1 DEF TypeInv
<1>14. RawInv'  BY <1>1, <1>3, <1>6, <1>7 DEF RawInv
<1>15. Marked' = Marked  BY <1>4, <1>8
<1>16. \A x \in Objects : /\ Referrers(x)' = Referrers(x) /\ Creators(x)' = Creators(x)
                          /\ Releasers(x)' = Releasers(x)
  <2>1. \A x : Releasers(x)' = Releasers(x)  BY <1>3, <1>8, ReleasersSame
  <2> QED BY <1>1, <1>15, <2>1 DEF Referrers, Creators
<1>17. CountInv'  BY <1>1, <1>16, CountsStay
<1> QED BY <1>11, <1>12, <1>13, <1>14, <1>17 DEF IInv

-----------------------------------------------------------------------------
(* The theorems.                                                            *)

LEMMA InitIInv == Init => IInv
<1> SUFFICES ASSUME Init PROVE IInv  OBVIOUS
<1> USE DEF Init
<1>1. \A t \in Threads : At(t) = {}  BY DEF At
<1>2. \A p \in Ptrs : ptr[p] = None  OBVIOUS
<1>3. TypeInv  BY DEF TypeInv
<1>4. ShapeInv /\ SetInv /\ AddInv  BY <1>1 DEF ShapeInv, SetInv, AddInv
<1>5. FreeInv  BY <1>1 DEF FreeInv
<1>6. RawInv  BY PtrsFinite DEF RawInv
<1>7. CountInv
  <2>1. ASSUME NEW o \in Objects  PROVE refCount[o] = References(o)
    <3>1. o # None  BY PtrsFinite
    <3>2. Referrers(o) = {}  BY <1>2, <3>1 DEF Referrers
    <3>3. Creators(o) = {}  BY <3>1 DEF Creators
    <3>4. Releasers(o) = {}  BY DEF Releasers, Releasing
    <3>5. References(o) = 0 + 0 + 0  BY <3>2, <3>3, <3>4, FS_EmptySet DEF References
    <3>6. refCount[o] = 0  OBVIOUS
    <3> QED BY <3>5, <3>6
  <2> QED BY <2>1 DEF CountInv
<1> QED BY <1>3, <1>4, <1>5, <1>6, <1>7 DEF IInv

LEMMA NextIInv == ProperUse /\ IInv /\ [Next]_vars => IInv'
<1> SUFFICES ASSUME ProperUse, IInv, [Next]_vars  PROVE IInv'  OBVIOUS
<1>1. ASSUME NEW t \in Threads, NEW o \in Objects, New(t, o)  PROVE IInv'  BY <1>1, NewStep
<1>2. ASSUME NEW t \in Threads, ReleaseCreator(t)  PROVE IInv'  BY <1>2, ReleaseCreatorStep
<1>3. ASSUME NEW t \in Threads, NEW p \in Locals, SetMember(t, p)  PROVE IInv'
  BY <1>3, SetMemberStep
<1>4. ASSUME NEW t \in Threads, NEW p \in Locals, Construct(t, p)  PROVE IInv'
  BY <1>4, ConstructStep
<1>5. ASSUME NEW t \in Threads, NEW p \in Locals, Destruct(t, p)  PROVE IInv'
  BY <1>5, DestructStep
<1>6. ASSUME NEW t \in Threads, NEW p \in Locals, NEW q \in Ptrs, CopyConstruct(t, p, q)
      PROVE  IInv'
  BY <1>6, CopyConstructStep
<1>7. ASSUME NEW t \in Threads, NEW p \in Locals, NEW q \in Ptrs, CopyAssign(t, p, q)
      PROVE  IInv'
  BY <1>7, CopyAssignStep
<1>8. ASSUME NEW t \in Threads, NEW p \in Locals, NEW q \in Locals, MoveConstruct(t, p, q)
      PROVE  IInv'
  BY <1>8, MoveConstructStep
<1>9. ASSUME NEW t \in Threads, NEW p \in Locals, NEW q \in Locals, MoveAssign(t, p, q)
      PROVE  IInv'
  BY <1>9, MoveAssignStep
<1>10. ASSUME NEW t \in Threads, DoRelease(t)  PROVE IInv'  BY <1>10, DoReleaseStep
<1>11. ASSUME NEW t \in Threads, DoNull(t)  PROVE IInv'  BY <1>11, DoNullStep
<1>12. ASSUME NEW t \in Threads, DoSet(t)  PROVE IInv'  BY <1>12, DoSetStep
<1>13. ASSUME NEW t \in Threads, DoTake(t)  PROVE IInv'  BY <1>13, DoTakeStep
<1>14. ASSUME NEW t \in Threads, DoAddRef(t)  PROVE IInv'  BY <1>14, DoAddRefStep
<1>15. ASSUME NEW t \in Threads, DoReleaseRef(t)  PROVE IInv'  BY <1>15, DoReleaseRefStep
<1>16. ASSUME NEW t \in Threads, DoFree(t)  PROVE IInv'  BY <1>16, DoFreeStep
<1>17. CASE UNCHANGED vars
  <2> USE <1>17 DEF vars
  <2>1. \A t, i : /\ At(t)' = At(t) /\ (Shape(t, i)' <=> Shape(t, i))
                  /\ (Setting(t, i)' <=> Setting(t, i)) /\ (Adding(t, i)' <=> Adding(t, i))
    BY DEF At, Shape, Op, Arg, Src, Clears, Setting, Adding, Dest, Source
  <2>2. TypeInv' /\ ShapeInv' /\ SetInv' /\ AddInv' /\ RawInv'
    BY <2>1 DEF IInv, TypeInv, ShapeInv, SetInv, AddInv, RawInv
  <2>3. FreeInv'  BY DEF IInv, FreeInv, Freeing, At, Op, Arg
  <2>4. \A o \in Objects : /\ Referrers(o)' = Referrers(o) /\ Creators(o)' = Creators(o)
                           /\ Releasers(o)' = Releasers(o)
    BY DEF Referrers, Marked, Marks, At, Creators, Releasers, Releasing, Op, Arg
  <2>5. CountInv'  BY <2>4, CountsStay DEF IInv
  <2> QED BY <2>2, <2>3, <2>5 DEF IInv
<1> QED BY <1>1, <1>2, <1>3, <1>4, <1>5, <1>6, <1>7, <1>8, <1>9, <1>10, <1>11, <1>12, <1>13,
       <1>14, <1>15, <1>16, <1>17 DEF Next

\* The invariant: what is counted, and what the instructions still to come will do
\* to it (TSharedPtr's members, RefCountable::AddRef and ReleaseRef).
THEOREM Inductive == ProperUse => (Spec => []IInv)
<1> SUFFICES ASSUME ProperUse  PROVE Spec => []IInv  OBVIOUS
<1>1. Init => IInv  BY InitIInv
<1>2. IInv /\ [Next]_vars => IInv'  BY NextIInv
<1> QED BY <1>1, <1>2, PTL DEF Spec

\* Where an instruction is, and what it marks.
LEMMA PendingIs ==
  ASSUME TypeInv, NEW e
  PROVE  /\ \A t \in Threads : \A i \in At(t) : todo[t][i] = e => <<t, i>> \in Pending(e)
         /\ \A x \in Pending(e) : \E t \in Threads : \E i \in At(t) : x = <<t, i>> /\ todo[t][i] = e
<1>1. ASSUME NEW t \in Threads, NEW i \in At(t), todo[t][i] = e  PROVE <<t, i>> \in Pending(e)
  BY <1>1 DEF Pending, At
<1>2. ASSUME NEW x \in Pending(e)
      PROVE  \E t \in Threads : \E i \in At(t) : x = <<t, i>> /\ todo[t][i] = e
  <2>1. PICK t \in Threads : x \in {t} \X {i \in 1..Len(todo[t]) : todo[t][i] = e}
    BY <1>2 DEF Pending
  <2>2. x = <<t, x[2]>> /\ x[2] \in 1..Len(todo[t]) /\ todo[t][x[2]] = e  BY <2>1
  <2> QED BY <2>2 DEF At
<1> QED BY <1>1, <1>2

LEMMA MarkedPends ==
  ASSUME IInv, NEW p \in Ptrs
  PROVE  /\ p \in Marked => Pending(Null(p)) # {} \/ Pending(AddRef(ptr[p], p)) # {}
         /\ p \notin Marked => Pending(Null(p)) = {} /\ \A o : Pending(AddRef(o, p)) = {}
         /\ Pending(AddRef(ptr[p], p)) # {} => ptr[p] \in alive
<1>0. TypeInv  BY DEF IInv
<1>1. ASSUME p \in Marked  PROVE Pending(Null(p)) # {} \/ Pending(AddRef(ptr[p], p)) # {}
  <2>1. PICK t \in Threads : p \in Marks(t)  BY <1>1 DEF Marked
  <2>2. PICK i \in At(t) : p \in Mark(todo[t][i])  BY <2>1 DEF Marks
  <2>3. todo[t][i] \in Instructions /\ Adding(t, i)  BY LeftIs DEF IInv, AddInv
  <2>4. CASE todo[t][i].op = "Null"
    <3>1. todo[t][i] = Null(p)  BY <2>2, <2>3, <2>4, Kinds DEF Mark
    <3> QED BY <1>0, <3>1, PendingIs
  <2>5. CASE todo[t][i].op = "AddRef"
    <3>1. todo[t][i].q = p /\ ptr[p] = todo[t][i].p
      BY <2>2, <2>3, <2>5 DEF Mark, Adding, Op, Arg, Src
    <3>2. todo[t][i] = AddRef(ptr[p], p)  BY <2>3, <2>5, <3>1, Kinds
    <3> QED BY <1>0, <3>2, PendingIs
  <2> QED BY <2>2, <2>4, <2>5 DEF Mark
<1>2. ASSUME NEW t \in Threads, NEW i \in At(t), p \in Mark(todo[t][i])  PROVE p \in Marked
  BY <1>2 DEF Marked, Marks
<1>3. Pending(Null(p)) # {} => p \in Marked
  <2>1. ASSUME NEW x \in Pending(Null(p))  PROVE p \in Marked
    <3>1. PICK t \in Threads : \E i \in At(t) : todo[t][i] = Null(p)  BY <1>0, <2>1, PendingIs
    <3>2. PICK i \in At(t) : todo[t][i] = Null(p)  BY <3>1
    <3> QED BY <1>2, <3>2, Fields DEF Mark
  <2> QED BY <2>1
<1>4. ASSUME NEW o, NEW x \in Pending(AddRef(o, p))
      PROVE  p \in Marked /\ (o = ptr[p] => o \in alive)
  <2>1. PICK t \in Threads : \E i \in At(t) : todo[t][i] = AddRef(o, p)  BY <1>0, <1>4, PendingIs
  <2>2. PICK i \in At(t) : todo[t][i] = AddRef(o, p)  BY <2>1
  <2>3. Op(t, i) = "AddRef" /\ Arg(t, i) = o  BY <2>2, Fields DEF Op, Arg
  <2>4. o \in alive  BY <2>3, AddingCounts
  <2>5. p \in Mark(todo[t][i])  BY <2>2, Fields DEF Mark
  <2> QED BY <1>2, <2>4, <2>5
<1> QED BY <1>1, <1>3, <1>4

\* Nobody follows a pointer into memory that has been freed: what a TSharedPtr refers
\* to is alive unless its own call is about to clear it, and no call counts, releases
\* or copies out of a deleted object (AddRef, ReleaseRef and Set in RefCounting.h).
THEOREM Safe == ProperUse => (Spec => []NoDangling)
<1>1. IInv => NoDangling
  <2> SUFFICES ASSUME IInv, NEW p \in Ptrs, ptr[p] # None
               PROVE  crash = "none" /\ (ptr[p] \in alive \/ Pending(Null(p)) # {})
    BY DEF NoDangling, IInv, TypeInv
  <2>1. crash = "none" /\ ptr[p] \in Objects  BY DEF IInv, TypeInv
  <2>2. CASE p \in Marked  BY <2>1, <2>2, MarkedPends
  <2>3. CASE p \notin Marked
    <3>1. p \in Referrers(ptr[p])  BY <2>3 DEF Referrers
    <3>2. ptr[p] \in alive  BY <2>1, <3>1, Referred DEF IInv
    <3> QED BY <2>1, <3>2
  <2> QED BY <2>2, <2>3
<1> QED BY <1>1, Inductive, PTL

LEMMA CountedAre ==
  ASSUME IInv, NEW o \in Objects
  PROVE  CountedBy(o) = Referrers(o)
<1> SUFFICES ASSUME NEW p \in Ptrs, ptr[p] = o
             PROVE  /\ p \notin Marked => ~Gone(p) /\ Pending(Null(p)) = {} /\ Pending(AddRef(o, p)) = {}
                    /\ p \in Marked => Pending(Null(p)) # {} \/ Pending(AddRef(o, p)) # {}
  BY DEF CountedBy, Referrers
<1>1. ~Gone(p)
  <2>1. o # None  BY PtrsFinite
  <2> QED BY <2>1 DEF IInv, RawInv, Gone
<1> QED BY <1>1, MarkedPends

LEMMA PendingReleases ==
  ASSUME IInv, NEW o \in Objects
  PROVE  Cardinality(Pending(ReleaseRef(o))) = Cardinality(Releasers(o))
<1> DEFINE S == Releasers(o)
           P == Pending(ReleaseRef(o))
           f == [t \in S |-> <<t, 1>>]
<1>0. TypeInv  BY DEF IInv
<1>1. ASSUME NEW t \in S  PROVE <<t, 1>> \in P
  <2>1. t \in Threads /\ todo[t] # <<>> /\ Op(t, 1) = "ReleaseRef" /\ Arg(t, 1) = o
    BY <1>1 DEF Releasers, Releasing
  <2>2. 1 \in At(t) /\ todo[t][1] \in Instructions  BY <1>0, <2>1, LeftIs
  <2>3. todo[t][1] = ReleaseRef(o)  BY <2>1, <2>2, Kinds DEF Op, Arg
  <2> QED BY <1>0, <2>1, <2>2, <2>3, PendingIs
<1>2. ASSUME NEW x \in P  PROVE \E t \in S : x = <<t, 1>>
  <2>1. PICK t \in Threads : \E i \in At(t) : x = <<t, i>> /\ todo[t][i] = ReleaseRef(o)
    BY <1>0, <1>2, PendingIs
  <2>2. PICK i \in At(t) : x = <<t, i>> /\ todo[t][i] = ReleaseRef(o)  BY <2>1
  <2>3. Op(t, i) = "ReleaseRef" /\ Arg(t, i) = o  BY <2>2, Fields DEF Op, Arg
  <2>4. i = 1  BY <2>3 DEF IInv, ShapeInv, Shape
  <2>5. todo[t] # <<>>
    <3>1. todo[t] = <<>> => At(t) = {}  BY <1>0, LeftIs DEF At
    <3> QED BY <3>1
  <2> QED BY <2>2, <2>3, <2>4, <2>5 DEF Releasers, Releasing
<1>3. f \in [S -> P] /\ (\A a, b \in S : f[a] = f[b] => a = b)
  <2>1. \A a \in S : f[a] = <<a, 1>>  OBVIOUS
  <2>2. f \in [S -> P]  BY <1>1
  <2>3. ASSUME NEW a \in S, NEW b \in S, f[a] = f[b]  PROVE a = b
    <3>1. <<a, 1>> = <<b, 1>>  BY <2>1, <2>3, Zenon
    <3> QED BY <3>1
  <2> QED BY <2>2, <2>3
<1>4. \A x \in P : \E a \in S : f[a] = x  BY <1>2
<1>5. IsFiniteSet(S)  BY ReferencesFinite
<1> HIDE DEF S, P, f
<1>6. f \in Bijection(S, P)  BY <1>3, <1>4, Fun_IsBij
<1>7. ExistsBijection(S, P)  BY <1>6, Fun_ExistsBij
<1>8. Cardinality(P) = Cardinality(S)  BY <1>5, <1>7, FS_Bijection
<1> QED BY <1>8 DEF S, P

LEMMA PendingFrees ==
  ASSUME IInv, NEW o \in alive
  PROVE  Cardinality(Pending(Free(o))) = IF refCount[o] = 0 THEN 1 ELSE 0
<1>0. TypeInv /\ FreeInv /\ o \in Objects  BY DEF IInv, TypeInv
<1>1. ASSUME NEW x \in Pending(Free(o))
      PROVE  \E t \in Threads : \E i \in At(t) : x = <<t, i>> /\ Freeing(t, i, o)
  <2>1. PICK t \in Threads : \E i \in At(t) : x = <<t, i>> /\ todo[t][i] = Free(o)
    BY <1>0, <1>1, PendingIs
  <2>2. PICK i \in At(t) : x = <<t, i>> /\ todo[t][i] = Free(o)  BY <2>1
  <2>3. Freeing(t, i, o)  BY <2>2, Fields DEF Freeing, Op, Arg
  <2> QED BY <2>2, <2>3
<1>2. CASE refCount[o] = 0
  <2>1. PICK t \in Threads : \E i \in At(t) : Freeing(t, i, o)  BY <1>0, <1>2 DEF FreeInv
  <2>2. PICK i \in At(t) : Freeing(t, i, o)  BY <2>1
  <2>3. todo[t][i] \in Instructions  BY <1>0, LeftIs
  <2>4. todo[t][i] = Free(o)  BY <2>2, <2>3, Kinds DEF Freeing, Op, Arg
  <2>5. <<t, i>> \in Pending(Free(o))  BY <1>0, <2>4, PendingIs
  <2>6. \A x \in Pending(Free(o)) : x = <<t, i>>  BY <1>0, <1>1, <2>2 DEF FreeInv
  <2>7. Pending(Free(o)) = {<<t, i>>}  BY <2>5, <2>6
  <2> QED BY <1>2, <2>7, FS_Singleton
<1>3. CASE refCount[o] # 0
  <2>1. Pending(Free(o)) = {}  BY <1>0, <1>1, <1>3 DEF FreeInv
  <2> QED BY <1>3, <2>1, FS_EmptySet
<1> QED BY <1>2, <1>3

\* The count is exact, whatever the calls of the threads have still to do: it never
\* reaches 0 while something refers to the object, and when nothing does, one call is
\* deleting it (RefCountable::_refCount).
THEOREM Counts == ProperUse => (Spec => []CountExact)
<1>1. IInv => CountExact
  <2> SUFFICES ASSUME IInv, NEW o \in alive
               PROVE  /\ refCount[o] = Cardinality(CountedBy(o))
                                         + Cardinality({t \in Threads : raw[t] = o})
                                         + Cardinality(Pending(ReleaseRef(o)))
                      /\ Cardinality(Pending(Free(o))) = IF refCount[o] = 0 THEN 1 ELSE 0
    BY DEF CountExact
  <2>1. o \in Objects  BY DEF IInv, TypeInv
  <2>2. refCount[o] = References(o)  BY <2>1 DEF IInv, CountInv
  <2>3. CountedBy(o) = Referrers(o)  BY <2>1, CountedAre
  <2>4. Cardinality(Pending(ReleaseRef(o))) = Cardinality(Releasers(o))  BY <2>1, PendingReleases
  <2> QED BY <2>2, <2>3, <2>4, PendingFrees DEF References, Creators
<1> QED BY <1>1, Inductive, PTL

-----------------------------------------------------------------------------
(* Casts.  The recursions that the compiler unfolds descend from a class to *)
(* its base and along the list; what they compute is proved by taking the   *)
(* least class, or the shortest rest of the list, for which it is wrong.    *)

Places == 0..(Len(TL) - 1)

\* Each class but the root has a base before it.
HierarchyInv ==
  /\ parent \in [Classes -> Nat] /\ parent[1] = 0
  /\ \A c \in Classes \ {1} : parent[c] \in 1..(c - 1)

\* The list has the root, and no class twice.
ListInv ==
  /\ TL \in Seq(Classes) /\ \E k \in 1..Len(TL) : TL[k] = 1
  /\ \A k, l \in 1..Len(TL) : TL[k] = TL[l] => k = l

Less == {x \in Nat \X Nat : x[1] < x[2]}

LEMMA LessWellFounded == IsWellFoundedOn(Less, Nat)
<1>1. Less = OpToRel(<, Nat)  BY Zenon DEF Less, OpToRel
<1> QED BY <1>1, NatLessThanWellFounded, Zenon

LEMMA LeastOf ==
  ASSUME NEW S \in SUBSET Nat, S # {}
  PROVE  \E m \in S : \A n \in S : m <= n
<1>1. PICK m \in S : \A n \in S : <<n, m>> \notin Less  BY LessWellFounded, WFMin
<1>2. \A n \in S : m <= n
  <2> TAKE n \in S
  <2>1. n \in Nat /\ m \in Nat  OBVIOUS
  <2>2. ~(n < m)
    <3>1. <<n, m>> \in Nat \X Nat /\ <<n, m>>[1] = n /\ <<n, m>>[2] = m  BY <2>1
    <3>2. <<n, m>> \notin Less  BY <1>1
    <3> QED BY <3>1, <3>2, Zenon DEF Less
  <2> QED BY <2>1, <2>2
<1> QED BY <1>2

\* A recursion from each class to its base, and that it defines a function.
Follows(g, base, step) ==
  \A c \in Classes : g[c] = IF parent[c] = 0 THEN base[c] ELSE step[c][g[parent[c]]]

LEMMA Descends ==
  ASSUME HierarchyInv, NEW V,
         NEW base \in [Classes -> V], NEW step \in [Classes -> [V -> V]]
  PROVE  \E g \in [Classes -> V] : Follows(g, base, step)
<1> DEFINE Good(n, g) == \A c \in 1..n :
             g[c] = IF parent[c] = 0 THEN base[c] ELSE step[c][g[parent[c]]]
           S == {n \in Nat : n <= ClassCount /\ \A g \in [1..n -> V] : ~Good(n, g)}
<1>0. ClassCount \in Nat /\ ClassCount >= 1  BY ClassAssumption
<1>1. CASE S = {}
  <2>1. ClassCount \notin S  BY <1>1
  <2>2. PICK g \in [1..ClassCount -> V] : Good(ClassCount, g)  BY <2>1, <1>0
  <2> QED BY <2>2 DEF Classes, Follows
<1>2. CASE S # {}
  <2>1. PICK m \in S : \A n \in S : m <= n
    <3>1. S \in SUBSET Nat  OBVIOUS
    <3> HIDE DEF S
    <3> QED BY <1>2, <3>1, LeastOf
  <2>2. m \in Nat /\ m <= ClassCount /\ \A g \in [1..m -> V] : ~Good(m, g)  BY <2>1
  <2>3. CASE m = 0
    <3> DEFINE g == [c \in 1..m |-> base[c]]
    <3>1. g \in [1..m -> V] /\ Good(m, g)  BY <2>3
    <3> QED BY <2>2, <3>1
  <2>4. CASE m # 0
    <3>1. m - 1 \in Nat /\ m - 1 <= ClassCount /\ ~(m <= m - 1)  BY <2>2, <2>4, <1>0
    <3>2. m - 1 \notin S  BY <2>1, <3>1
    <3>3. PICK g \in [1..(m - 1) -> V] : Good(m - 1, g)  BY <3>1, <3>2
    <3> DEFINE last == IF parent[m] = 0 THEN base[m] ELSE step[m][g[parent[m]]]
               h == [c \in 1..m |-> IF c = m THEN last ELSE g[c]]
    <3>4. m \in Classes /\ (parent[m] = 0 \/ parent[m] \in 1..(m - 1))
      BY <1>0, <2>2, <2>4 DEF Classes, HierarchyInv
    <3>5. last \in V
      <4>1. CASE parent[m] = 0  BY <4>1, <3>4
      <4>2. CASE parent[m] \in 1..(m - 1)
        <5>1. parent[m] # 0 /\ g[parent[m]] \in V  BY <4>2, <3>3
        <5> QED BY <5>1, <3>4
      <4> QED BY <3>4, <4>1, <4>2
    <3> HIDE DEF last
    <3>6. h \in [1..m -> V]  BY <2>2, <3>3, <3>5
    <3>7. Good(m, h)
      <4> SUFFICES ASSUME NEW c \in 1..m
                   PROVE  h[c] = IF parent[c] = 0 THEN base[c] ELSE step[c][h[parent[c]]]
        OBVIOUS
      <4>1. c \in Classes /\ (parent[c] = 0 \/ parent[c] \in 1..(c - 1))
        BY <1>0, <2>2 DEF Classes, HierarchyInv
      <4>2. parent[c] = 0 \/ h[parent[c]] = g[parent[c]]  BY <2>2, <4>1
      <4>3. CASE c = m  BY <4>2, <4>3 DEF last
      <4>4. CASE c # m
        <5>1. c \in 1..(m - 1) /\ h[c] = g[c]  BY <2>2, <4>4
        <5> QED BY <3>3, <4>2, <5>1
      <4> QED BY <4>3, <4>4
    <3> QED BY <2>2, <3>6, <3>7
  <2> QED BY <2>3, <2>4
<1> QED BY <1>1, <1>2

\* What a class is: itself and what its base is.
LEMMA BasesAre ==
  ASSUME HierarchyInv
  PROVE  \A c \in Classes :
           Bases[c] = {c} \cup IF parent[c] = 0 THEN {} ELSE Bases[parent[c]]
<1> DEFINE V == SUBSET Classes
           base == [c \in Classes |-> {c}]
           step == [c \in Classes |-> [X \in V |-> {c} \cup X]]
<1>1. base \in [Classes -> V] /\ step \in [Classes -> [V -> V]]  OBVIOUS
<1>2. PICK g \in [Classes -> V] : Follows(g, base, step)
  <2> HIDE DEF V, base, step
  <2> QED BY <1>1, Descends
<1>3. \A c \in Classes : g[c] = {c} \cup IF parent[c] = 0 THEN {} ELSE g[parent[c]]
  <2> TAKE c \in Classes
  <2>1. CASE parent[c] = 0  BY <1>2, <2>1 DEF Follows
  <2>2. CASE parent[c] # 0
    <3>1. parent[c] \in Classes  BY <2>2, ClassAssumption DEF HierarchyInv, Classes
    <3>2. g[parent[c]] \in V  BY <3>1
    <3> QED BY <1>2, <2>2, <3>2 DEF Follows
  <2> QED BY <2>1, <2>2
<1>4. g = [c \in Classes |-> {c} \cup IF parent[c] = 0 THEN {} ELSE g[parent[c]]]  BY <1>3
<1>5. Bases = [c \in Classes |->
        {c} \cup IF parent[c] = 0 THEN {} ELSE Bases[parent[c]]]
  BY <1>4, Zenon DEF Bases, Classes
<1> QED BY <1>5


\* The place of a class in the list, or -1.
LEMMA IndexAre ==
  ASSUME ListInv
  PROVE  \A k \in 1..(Len(TL) + 1) : \A c \in Classes :
           IndexFrom[k][c] =
             IF k > Len(TL) THEN -1
             ELSE IF TL[k] = c THEN 0
             ELSE IF IndexFrom[k + 1][c] = -1 THEN -1 ELSE IndexFrom[k + 1][c] + 1
<1> DEFINE n == Len(TL)
           Spots(k, c) == {j \in k..n : TL[j] = c}
           first(k, c) == IF Spots(k, c) = {} THEN -1 ELSE (CHOOSE j \in Spots(k, c) : TRUE) - k
           g == [k \in 1..(n + 1) |-> [c \in Classes |-> first(k, c)]]
           rest(k, c) == IF g[k + 1][c] = -1 THEN -1 ELSE g[k + 1][c] + 1
<1>0. n \in Nat /\ \A k \in 1..n : TL[k] \in Classes  BY DEF ListInv
<1>1. ASSUME NEW k \in 1..(n + 1), NEW c \in Classes, NEW j \in Spots(k, c)  PROVE first(k, c) = j - k
  <2>1. \A i \in Spots(k, c) : i = j  BY <1>0 DEF ListInv
  <2>2. Spots(k, c) = {j}  BY <2>1
  <2> HIDE DEF Spots
  <2> QED BY <2>2
<1>2. ASSUME NEW k \in 1..(n + 1), NEW c \in Classes
      PROVE  first(k, c) = IF k > n THEN -1 ELSE IF TL[k] = c THEN 0 ELSE rest(k, c)
  <2>1. CASE k > n
    <3>1. Spots(k, c) = {}  BY <1>0, <2>1
    <3> QED BY <2>1, <3>1
  <2>2. CASE ~(k > n) /\ TL[k] = c
    <3>1. k \in Spots(k, c) /\ k - k = 0  BY <1>0, <2>2
    <3>2. first(k, c) = k - k  BY <3>1, <1>1
    <3> HIDE DEF first, rest
    <3> QED BY <2>2, <3>1, <3>2
  <2>3. CASE ~(k > n) /\ TL[k] # c
    <3>1. k + 1 \in 1..(n + 1) /\ Spots(k, c) = Spots(k + 1, c)  BY <1>0, <2>3
    <3>2. rest(k, c) = IF first(k + 1, c) = -1 THEN -1 ELSE first(k + 1, c) + 1
      <4> HIDE DEF first
      <4> QED BY <3>1
    <3>3. CASE Spots(k, c) = {}
      <4>1. first(k, c) = -1 /\ first(k + 1, c) = -1  BY <3>1, <3>3
      <4> HIDE DEF first, rest
      <4> QED BY <2>3, <3>2, <4>1
    <3>4. ASSUME NEW j \in Spots(k, c)  PROVE first(k, c) = rest(k, c)
      <4>1. j \in Spots(k + 1, c) /\ j \in Nat /\ j >= k + 1  BY <3>1, <3>4, <1>0
      <4>2. first(k, c) = j - k  BY <1>1
      <4>3. first(k + 1, c) = j - (k + 1)  BY <1>1, <3>1, <4>1
      <4> HIDE DEF first, rest
      <4> QED BY <3>2, <4>1, <4>2, <4>3
    <3> HIDE DEF first, rest
    <3> QED BY <2>3, <3>3, <3>4
  <2> HIDE DEF first, rest
  <2> QED BY <2>1, <2>2, <2>3
<1>3. g = [k \in 1..(n + 1) |-> [c \in Classes |->
             IF k > n THEN -1 ELSE IF TL[k] = c THEN 0
             ELSE IF g[k + 1][c] = -1 THEN -1 ELSE g[k + 1][c] + 1]]
  <2> SUFFICES ASSUME NEW k \in 1..(n + 1), NEW c \in Classes
               PROVE  first(k, c) = IF k > n THEN -1 ELSE IF TL[k] = c THEN 0
                                    ELSE IF g[k + 1][c] = -1 THEN -1 ELSE g[k + 1][c] + 1
    <3> HIDE DEF first
    <3> QED OBVIOUS
  <2> HIDE DEF first, g
  <2> QED BY <1>2
<1>4. IndexFrom = [k \in 1..(n + 1) |-> [c \in Classes |->
         IF k > n THEN -1 ELSE IF TL[k] = c THEN 0
         ELSE IF IndexFrom[k + 1][c] = -1 THEN -1 ELSE IndexFrom[k + 1][c] + 1]]
  <2> HIDE DEF g
  <2> QED BY <1>3, Zenon DEF IndexFrom, Classes, length, Classes
<1> QED BY <1>4

\* IndexOf gives the place of a class that is listed, and -1 for the others.
LEMMA IndexMeans ==
  ASSUME ListInv, NEW c \in Classes
  PROVE  /\ \A j \in 1..Len(TL) : TL[j] = c => IndexOf(c) = j - 1
         /\ c \notin Listed => IndexOf(c) = -1
<1> DEFINE n == Len(TL)
           f(k) == IndexFrom[k][c]
           Right(k) ==
             /\ \A j \in k..n : TL[j] = c => f(k) = j - k
             /\ (\A j \in k..n : TL[j] # c) => f(k) = -1
           S == {i \in Nat : i <= n /\ ~Right(n + 1 - i)}
<1>0. n \in Nat  BY DEF ListInv
<1>1. \A k \in 1..(n + 1) :
        f(k) = IF k > n THEN -1 ELSE IF TL[k] = c THEN 0 ELSE IF f(k + 1) = -1 THEN -1 ELSE f(k + 1) + 1
  BY IndexAre
<1> HIDE DEF f
<1>2. S = {}
  <2> SUFFICES ASSUME S # {}  PROVE FALSE  OBVIOUS
  <2>1. PICK m \in S : \A i \in S : m <= i
    <3>1. S \in SUBSET Nat  OBVIOUS
    <3> HIDE DEF S
    <3> QED BY <3>1, LeastOf
  <2>2. m \in Nat /\ m <= n /\ ~Right(n + 1 - m)  BY <2>1
  <2> DEFINE k == n + 1 - m
  <2>3. k \in 1..(n + 1) /\ k >= 1  BY <1>0, <2>2
  <2>4. CASE m = 0
    <3>1. k > n  BY <1>0, <2>4
    <3>2. f(k) = -1  BY <1>1, <2>3, <3>1
    <3>3. \A j \in k..n : FALSE  BY <1>0, <2>3, <3>1
    <3> HIDE DEF k
    <3>4. Right(k)  BY <3>2, <3>3
    <3> QED BY <2>2, <3>4 DEF k
  <2>5. CASE m # 0
    <3>1. m - 1 \in Nat /\ m - 1 <= n /\ ~(m <= m - 1) /\ n + 1 - (m - 1) = k + 1
      BY <1>0, <2>2, <2>5
    <3>2. m - 1 \notin S  BY <2>1, <3>1
    <3>3. Right(n + 1 - (m - 1))  BY <3>1, <3>2
    <3>4. Right(k + 1)  BY <3>1, <3>3
    <3>5. ~(k > n) /\ k \in 1..n /\ k \in Int /\ k + 1 \in Int  BY <1>0, <2>2, <2>3, <2>5
    <3> HIDE DEF k
    <3>6. f(k) = IF TL[k] = c THEN 0 ELSE IF f(k + 1) = -1 THEN -1 ELSE f(k + 1) + 1
      BY <1>1, <2>3, <3>5
    <3>7. CASE TL[k] = c
      <4>1. \A j \in k..n : TL[j] = c => j = k
        BY <1>0, <2>3, <3>5, <3>7 DEF ListInv
      <4>2. k \in k..n  BY <1>0, <3>5
      <4>3. Right(k)  BY <3>5, <3>6, <3>7, <4>1, <4>2
      <4> QED BY <2>2, <4>3 DEF k
    <3>8. CASE TL[k] # c
      <4>1. \A j \in k..n : j = k \/ j \in (k + 1)..n  BY <1>0, <3>5
      <4>2. \A j \in (k + 1)..n : j \in k..n  BY <1>0, <3>5
      <4>3. CASE \A j \in (k + 1)..n : TL[j] # c
        <5>1. f(k + 1) = -1 /\ \A j \in k..n : TL[j] # c  BY <3>4, <3>8, <4>1, <4>3
        <5>2. Right(k)  BY <3>6, <3>8, <5>1
        <5> QED BY <2>2, <5>2 DEF k
      <4>4. ASSUME NEW j \in (k + 1)..n, TL[j] = c  PROVE FALSE
        <5>1. f(k + 1) = j - (k + 1) /\ j \in Int /\ j >= k + 1  BY <1>0, <3>4, <3>5, <4>4
        <5>2. f(k) = j - k  BY <3>5, <3>6, <3>8, <5>1
        <5>3. \A i \in k..n : TL[i] = c => i = j
          BY <1>0, <2>3, <3>5, <4>2, <4>4 DEF ListInv
        <5>4. Right(k)  BY <4>2, <4>4, <5>2, <5>3
        <5> QED BY <2>2, <5>4 DEF k
      <4> QED BY <4>3, <4>4
    <3> QED BY <3>7, <3>8
  <2> QED BY <2>4, <2>5
<1>3. Right(1)
  <2>0. n \notin S
    <3> HIDE DEF S
    <3> QED BY <1>2
  <2>1. n \notin S /\ n + 1 - n = 1  BY <1>0, <2>0
  <2>2. Right(n + 1 - n)  BY <1>0, <2>1
  <2> QED BY <2>1, <2>2
<1> QED BY <1>3 DEF f, IndexOf, Listed

\* _typeId of an object is the place of a listed class that it converts to, of its own
\* class if that is listed.
LEMMA TypeIdMeans ==
  ASSUME HierarchyInv, ListInv, NEW c \in Classes
  PROVE  /\ TypeId[c] \in Places
         /\ Bases[TL[TypeId[c] + 1]] \subseteq Bases[c]
         /\ c \in Listed => TL[TypeId[c] + 1] = c
<1> DEFINE base == [d \in Classes |-> IndexOf(d)]
           step == [d \in Classes |-> [v \in Int |-> IF d \in Listed THEN IndexOf(d) ELSE v]]
<1>0. Len(TL) \in Nat /\ ClassCount \in Nat \ {0}  BY ClassAssumption DEF ListInv
<1>1. ASSUME NEW d \in Classes
      PROVE  /\ IndexOf(d) \in Int
             /\ d \in Listed => /\ IndexOf(d) \in Places
                                      /\ TL[IndexOf(d) + 1] = d
  <2>1. CASE d \in Listed
    <3>1. PICK j \in 1..Len(TL) : TL[j] = d  BY <2>1 DEF Listed
    <3>2. IndexOf(d) = j - 1  BY <3>1, IndexMeans
    <3> QED BY <1>0, <3>1, <3>2 DEF Places
  <2>2. CASE d \notin Listed  BY <2>2, IndexMeans
  <2> QED BY <2>1, <2>2
<1>2. 1 \in Listed  BY DEF ListInv, Listed
<1>3. base \in [Classes -> Int] /\ step \in [Classes -> [Int -> Int]]  BY <1>1
<1>4. PICK g \in [Classes -> Int] : Follows(g, base, step)
  <2> HIDE DEF base, step
  <2> QED BY <1>3, Descends
<1>5. ASSUME NEW d \in Classes
      PROVE  g[d] = IF d \in Listed THEN IndexOf(d) ELSE g[parent[d]]
  <2>1. CASE parent[d] = 0
    <3>1. d \in Listed  BY <1>0, <1>2, <2>1 DEF HierarchyInv, Classes
    <3> QED BY <1>4, <2>1, <3>1 DEF Follows
  <2>2. CASE parent[d] # 0
    <3>1. parent[d] \in Classes  BY <1>0, <2>2 DEF HierarchyInv, Classes
    <3>2. g[parent[d]] \in Int  BY <3>1
    <3> QED BY <1>4, <2>2, <3>2 DEF Follows
  <2> QED BY <2>1, <2>2
<1>6. g = [d \in Classes |-> IF d \in Listed THEN IndexOf(d) ELSE g[parent[d]]]
  BY <1>5
<1>7. TypeId =
        [d \in Classes |-> IF d \in Listed THEN IndexOf(d) ELSE TypeId[parent[d]]]
  BY <1>6, Zenon DEF TypeId, Classes
<1> DEFINE Right(d) == /\ TypeId[d] \in Places
                       /\ Bases[TL[TypeId[d] + 1]] \subseteq Bases[d]
                       /\ d \in Listed => TL[TypeId[d] + 1] = d
           S == {d \in Nat : d \in Classes /\ ~Right(d)}
<1>8. ASSUME NEW d \in Classes, d \in Listed  PROVE Right(d)
  <2>1. TypeId[d] = IndexOf(d)  BY <1>7, <1>8
  <2> QED BY <1>1, <1>8, <2>1
<1>9. S = {}
  <2> SUFFICES ASSUME S # {}  PROVE FALSE  OBVIOUS
  <2>1. PICK d \in S : \A e \in S : d <= e
    <3>1. S \in SUBSET Nat  OBVIOUS
    <3> HIDE DEF S
    <3> QED BY <3>1, LeastOf
  <2>2. d \in Classes /\ ~Right(d)  BY <2>1
  <2> HIDE DEF Right
  <2>3. d \notin Listed /\ d # 1  BY <1>2, <1>8, <2>2
  <2>4. parent[d] \in 1..(d - 1)  BY <2>2, <2>3 DEF HierarchyInv
  <2>5. parent[d] \in Classes /\ parent[d] # 0 /\ ~(d <= parent[d])
    BY <1>0, <2>2, <2>4 DEF Classes
  <2>6. Right(parent[d])
    <3>1. parent[d] \in Nat /\ parent[d] \notin S  BY <2>1, <2>5 DEF Classes
    <3> QED BY <2>5, <3>1
  <2>7. TypeId[d] = TypeId[parent[d]]  BY <1>7, <2>2, <2>3
  <2>8. Bases[parent[d]] \subseteq Bases[d]
    <3>1. Bases[d] = {d} \cup IF parent[d] = 0 THEN {} ELSE Bases[parent[d]]
      BY <2>2, BasesAre
    <3> QED BY <2>5, <3>1
  <2>9. Right(d)  BY <2>3, <2>6, <2>7, <2>8 DEF Right
  <2> QED BY <2>2, <2>9
<1>10. c \in Nat  BY <1>0 DEF Classes
<1> QED BY <1>9, <1>10


\* Only one thread fills the table, and who reads it comes after.
GuardInv ==
  /\ guard \in Casters \cup {"none", "done"}
  /\ pc \in [Casters -> {"idle", "static", "MakeTable", "read", "returned"}]
  /\ \A t \in Casters : (pc[t] = "MakeTable" <=> guard = t) /\ (pc[t] = "read" => guard = "done")
  /\ guard = "done" => cell[1] = Len(TL)

\* The cells before the current one are right.
FilledInv ==
  /\ cell \in Nat \X Nat /\ cell[2] <= Len(TL)
  /\ s_convert \in [Places \X Places -> BOOLEAN]
  /\ guard # "none" =>
       \A i, j \in Places : i < cell[1] \/ (i = cell[1] /\ j < cell[2]) =>
         s_convert[<<i, j>>] = Conversion(TL[i + 1], TL[j + 1])

AnswerInv ==
  /\ object \in [Casters -> {0} \cup Classes] /\ target \in [Casters -> Classes]
  /\ result \in [Casters -> BOOLEAN]
  /\ \A t \in Casters : pc[t] \in {"static", "MakeTable", "read"} => object[t] \in Classes
  /\ \A t \in Casters : pc[t] # "returned" => ~result[t]
  /\ CastCorrect

CastInv == HierarchyInv /\ ListInv /\ GuardInv /\ FilledInv /\ AnswerInv

\* What the compiler computes does not change with the state.
BasesOf(p) == CHOOSE f : f = [c \in Classes |-> {c} \cup IF p[c] = 0 THEN {} ELSE f[p[c]]]

LEMMA ConversionSame ==
  ASSUME UNCHANGED <<parent, TL>>
  PROVE  /\ Bases' = Bases /\ Listed' = Listed
         /\ (HierarchyInv => HierarchyInv') /\ (ListInv => ListInv')
<1>1. Bases = BasesOf(parent) /\ Bases' = BasesOf(parent')
  BY DEF Bases, BasesOf, Classes
<1>2. Bases' = Bases  BY <1>1
<1>3. Listed' = Listed  BY DEF Listed
<1> QED BY <1>2, <1>3 DEF HierarchyInv, ListInv

\* A step that answers nobody, and leaves object and target alone.
LEMMA AnswersSame ==
  ASSUME CastInv, UNCHANGED <<parent, TL, object, target, result>>, NEW t \in Casters,
         pc[t] \in {"static", "MakeTable", "read"},
         \E label \in {"MakeTable", "read"} : pc' = [pc EXCEPT ![t] = label]
  PROVE  AnswerInv'
<1>1. pc \in [Casters -> {"idle", "static", "MakeTable", "read", "returned"}]
  BY DEF CastInv, GuardInv
<1>2. /\ pc'[t] \in {"MakeTable", "read"} /\ \A u \in Casters : u # t => pc'[u] = pc[u]
  BY <1>1
<1>3. CastCorrect'
  <2>1. \A u \in Casters : pc'[u] = "returned" => pc[u] = "returned"  BY <1>2
  <2> QED BY <2>1, ConversionSame DEF CastInv, AnswerInv, CastCorrect, Conversion
<1> QED BY <1>2, <1>3 DEF CastInv, AnswerInv

LEMMA InitCastInv ==
  ASSUME CastInit  PROVE CastInv
<1>0. ClassCount \in Nat \ {0}  BY ClassAssumption
<1>1. HierarchyInv
  <2>1. parent \in [Classes -> 0..(ClassCount - 1)]  BY DEF CastInit, Classes
  <2> QED BY <1>0, <2>1 DEF CastInit, Classes, HierarchyInv
<1>2. ListInv
  <2>1. PICK n \in Classes : TL \in [1..n -> Classes]
    BY DEF CastInit, Classes
  <2>2. n \in Nat  BY <1>0, <2>1 DEF Classes
  <2>3. TL \in Seq(Classes) /\ DOMAIN TL = 1..Len(TL)  BY <2>1, <2>2
  <2> QED BY <2>3 DEF CastInit, ListInv
<1>3. GuardInv  BY CasterAssumption DEF CastInit, GuardInv
<1>4. FilledInv
  BY <1>2 DEF CastInit, FilledInv, length, Places, ListInv
<1>5. AnswerInv
  <2>1. 1 \in Classes  BY <1>0 DEF Classes
  <2> QED BY <2>1 DEF CastInit, AnswerInv, CastCorrect
<1> QED BY <1>1, <1>2, <1>3, <1>4, <1>5 DEF CastInv

\* A cast begins or its result has been used.
LEMMA CallCastInv ==
  ASSUME CastInv, NEW t \in Casters,
         \/ \E c \in Classes \cup {0}, d \in Classes : Cast(t, c, d)
         \/ Return(t)
  PROVE  CastInv'
<1>0. /\ pc \in [Casters -> {"idle", "static", "MakeTable", "read", "returned"}]
      /\ object \in [Casters -> {0} \cup Classes] /\ target \in [Casters -> Classes]
      /\ result \in [Casters -> BOOLEAN] /\ 1 \in Classes
      /\ UNCHANGED <<parent, TL, s_convert, guard, cell>>
  BY ClassAssumption DEF CastInv, GuardInv, AnswerInv, Cast, Return, Classes
<1>1. /\ pc' \in [Casters -> {"idle", "static", "MakeTable", "read", "returned"}]
      /\ object' \in [Casters -> {0} \cup Classes] /\ target' \in [Casters -> Classes]
      /\ result' \in [Casters -> BOOLEAN] /\ ~result'[t]
      /\ pc[t] \in {"idle", "returned"} /\ pc'[t] \in {"idle", "static", "returned"}
      /\ pc'[t] = "static" => object'[t] \in Classes
      /\ pc'[t] = "returned" => object'[t] = 0
      /\ \A u \in Casters : u # t => /\ pc'[u] = pc[u] /\ result'[u] = result[u]
                                     /\ object'[u] = object[u] /\ target'[u] = target[u]
  <2>1. CASE Return(t)  BY <1>0, <2>1 DEF Return, Goto
  <2>2. ASSUME NEW c \in Classes \cup {0}, NEW d \in Classes, Cast(t, c, d)
        PROVE  <1>1
    <3>1. c \in {0} \cup Classes /\ d \in Classes  BY DEF Classes
    <3>2. result' = result /\ ~result[t]
      BY <2>2 DEF Cast, CastInv, AnswerInv
    <3> QED BY <1>0, <2>2, <3>1, <3>2 DEF Cast, Goto
  <2> QED BY <2>1, <2>2
<1>2. HierarchyInv' /\ ListInv'  BY <1>0, ConversionSame DEF CastInv
<1>3. GuardInv'  BY <1>0, <1>1 DEF CastInv, GuardInv
<1>4. FilledInv'  BY <1>0, ConversionSame DEF CastInv, FilledInv, Places, Conversion
<1>5. AnswerInv'
  <2>1. CastCorrect'
    <3> SUFFICES ASSUME NEW u \in Casters, pc'[u] = "returned", target'[u] \in Listed'
                 PROVE  /\ result'[u] => object'[u] # 0 /\ target'[u] \in Bases'[object'[u]]
                        /\ object'[u] \in Listed' /\ target'[u] \in Bases'[object'[u]]
                             => result'[u]
      BY DEF CastCorrect, Conversion
    <3>1. CASE u = t
      <4>1. 0 \notin Listed
        <5>1. TL \in Seq(Classes) /\ 0 \notin Classes  BY DEF CastInv, ListInv, Classes
        <5>2. \A k \in 1..Len(TL) : TL[k] \in Classes  BY <5>1
        <5> QED BY <5>1, <5>2 DEF Listed
      <4>2. 0 \notin Listed'  BY <4>1, <1>0, ConversionSame
      <4> QED BY <1>1, <3>1, <4>2
    <3>2. CASE u # t
      BY <1>0, <1>1, <3>2, ConversionSame DEF CastInv, AnswerInv, CastCorrect, Conversion
    <3> QED BY <3>1, <3>2
  <2> QED BY <1>1, <2>1 DEF CastInv, AnswerInv
<1> QED BY <1>2, <1>3, <1>4, <1>5 DEF CastInv

LEMMA EnterCastInv ==
  ASSUME CastInv, NEW t \in Casters, Enter(t)
  PROVE  CastInv'
<1>0. /\ pc \in [Casters -> {"idle", "static", "MakeTable", "read", "returned"}]
      /\ pc[t] = "static" /\ guard # t /\ t \notin {"none", "done"}
      /\ UNCHANGED <<parent, TL, s_convert, object, target, result>>
      /\ \/ guard = "none" /\ guard' = t /\ cell' = <<0, 0>> /\ pc' = [pc EXCEPT ![t] = "MakeTable"]
         \/ guard = "done" /\ UNCHANGED <<guard, cell>> /\ pc' = [pc EXCEPT ![t] = "read"]
  BY CasterAssumption DEF CastInv, GuardInv, Enter, Goto
<1>1. HierarchyInv' /\ ListInv' /\ Len(TL) \in Nat  BY <1>0, ConversionSame DEF CastInv, ListInv
<1>2. GuardInv'
  <2>1. CASE guard = "none"  BY <1>0, <2>1, CasterAssumption DEF CastInv, GuardInv
  <2>2. CASE guard = "done"  BY <1>0, <2>2, CasterAssumption DEF CastInv, GuardInv
  <2> QED BY <1>0, <2>1, <2>2
<1>3. FilledInv'
  <2>1. CASE guard = "done"  BY <1>0, <2>1, ConversionSame DEF CastInv, FilledInv, Places, Conversion
  <2>2. CASE guard = "none"
    <3>1. cell' = <<0, 0>>  BY <1>0, <2>2
    <3>2. \A i, j \in Places' : ~(i < cell'[1] \/ (i = cell'[1] /\ j < cell'[2]))
      BY <3>1, <1>1 DEF Places
    <3> QED BY <1>0, <1>1, <3>1, <3>2 DEF CastInv, FilledInv, Places
  <2> QED BY <1>0, <2>1, <2>2
<1>4. AnswerInv'  BY <1>0, AnswersSame
<1> QED BY <1>1, <1>2, <1>3, <1>4 DEF CastInv

\* A step of the thread that fills the table.
LEMMA TableCastInv ==
  ASSUME CastInv, NEW t \in Casters,
         MakeCell(t) \/ NextRow(t) \/ Constructed(t)
  PROVE  CastInv'
<1>0. /\ pc \in [Casters -> {"idle", "static", "MakeTable", "read", "returned"}]
      /\ pc[t] = "MakeTable" /\ guard = t /\ t \notin {"none", "done"}
      /\ UNCHANGED <<parent, TL, object, target, result>>
      /\ Len(TL) \in Nat /\ cell \in Nat \X Nat /\ cell[2] <= Len(TL)
      /\ s_convert \in [Places \X Places -> BOOLEAN]
  BY CasterAssumption DEF CastInv, GuardInv, FilledInv, ListInv, MakeCell, NextRow,
         Constructed
<1>1. HierarchyInv' /\ ListInv'  BY <1>0, ConversionSame DEF CastInv
<1>2. cell = <<cell[1], cell[2]>> /\ cell[1] \in Nat /\ cell[2] \in Nat  BY <1>0
<1>3. ASSUME MakeCell(t)  PROVE CastInv'
  <2>0. /\ cell[1] < Len(TL) /\ cell[2] < Len(TL) /\ UNCHANGED <<guard, pc>>
        /\ s_convert' = [s_convert EXCEPT ![cell] =
                           Conversion(TL[cell[1] + 1], TL[cell[2] + 1])]
        /\ cell' = <<cell[1], cell[2] + 1>>
    BY <1>3 DEF MakeCell, length, TypeAt
  <2>1. cell[1] \in Places /\ cell[2] \in Places /\ cell \in Places \X Places
    BY <1>0, <1>2, <2>0 DEF Places
  <2>2. Conversion(TL[cell[1] + 1], TL[cell[2] + 1]) \in BOOLEAN  BY DEF Conversion
  <2>3. /\ s_convert' \in [Places \X Places -> BOOLEAN]
        /\ s_convert'[cell] = Conversion(TL[cell[1] + 1], TL[cell[2] + 1])
        /\ \A x \in Places \X Places : x # cell => s_convert'[x] = s_convert[x]
    BY <1>0, <2>0, <2>1, <2>2
  <2>4. cell'[1] = cell[1] /\ cell'[2] = cell[2] + 1 /\ cell' \in Nat \X Nat
    BY <1>2, <2>0
  <2>5. cell'[2] <= Len(TL)  BY <1>0, <1>2, <2>0, <2>4
  <2>6. FilledInv'
    <3> SUFFICES ASSUME NEW i \in Places, NEW j \in Places,
                        i < cell'[1] \/ (i = cell'[1] /\ j < cell'[2])
                 PROVE  s_convert'[<<i, j>>] = Conversion(TL[i + 1], TL[j + 1])
      BY <1>0, <2>3, <2>4, <2>5, ConversionSame DEF FilledInv, Places, Conversion
    <3>1. <<i, j>> \in Places \X Places /\ i \in Int /\ j \in Int  BY <1>0 DEF Places
    <3>2. CASE <<i, j>> = cell
      <4>1. i = cell[1] /\ j = cell[2]  BY <3>2
      <4> QED BY <2>3, <3>2, <4>1
    <3>3. CASE <<i, j>> # cell
      <4>1. ~(i = cell[1] /\ j = cell[2])  BY <1>2, <3>3
      <4>2. i < cell[1] \/ (i = cell[1] /\ j < cell[2])  BY <1>2, <2>4, <3>1, <4>1
      <4>3. s_convert[<<i, j>>] = Conversion(TL[i + 1], TL[j + 1])
        BY <1>0, <4>2 DEF CastInv, FilledInv
      <4> QED BY <2>3, <3>1, <3>3, <4>3
    <3> QED BY <3>2, <3>3
  <2>7. GuardInv'
    <3>1. guard' # "done"  BY <1>0, <2>0
    <3> QED BY <1>0, <2>0, <3>1 DEF CastInv, GuardInv
  <2>8. AnswerInv'
    <3>1. pc' = [pc EXCEPT ![t] = "MakeTable"]  BY <1>0, <2>0
    <3> QED BY <1>0, <3>1, AnswersSame
  <2> QED BY <1>1, <2>6, <2>7, <2>8 DEF CastInv
<1>4. ASSUME NextRow(t)  PROVE CastInv'
  <2>0. /\ cell[1] < Len(TL) /\ cell[2] = Len(TL) /\ UNCHANGED <<guard, pc, s_convert>>
        /\ cell' = <<cell[1] + 1, 0>>
    BY <1>4 DEF NextRow, length
  <2>1. cell'[1] = cell[1] + 1 /\ cell'[2] = 0 /\ cell' \in Nat \X Nat  BY <1>2, <2>0
  <2>2. FilledInv'
    <3> SUFFICES ASSUME NEW i \in Places, NEW j \in Places,
                        i < cell'[1] \/ (i = cell'[1] /\ j < cell'[2])
                 PROVE  s_convert[<<i, j>>] = Conversion(TL[i + 1], TL[j + 1])
      BY <1>0, <2>0, <2>1, ConversionSame DEF FilledInv, Places, Conversion
    <3>1. i < cell[1] \/ (i = cell[1] /\ j < cell[2])  BY <1>0, <1>2, <2>0, <2>1 DEF Places
    <3> QED BY <1>0, <3>1 DEF CastInv, FilledInv
  <2>3. GuardInv'
    <3>1. guard' # "done"  BY <1>0, <2>0
    <3> QED BY <1>0, <2>0, <3>1 DEF CastInv, GuardInv
  <2>4. AnswerInv'
    <3>1. pc' = [pc EXCEPT ![t] = "MakeTable"]  BY <1>0, <2>0
    <3> QED BY <1>0, <3>1, AnswersSame
  <2> QED BY <1>1, <2>2, <2>3, <2>4 DEF CastInv
<1>5. ASSUME Constructed(t)  PROVE CastInv'
  <2>0. /\ cell[1] = Len(TL) /\ guard' = "done" /\ UNCHANGED <<cell, s_convert>>
        /\ pc' = [pc EXCEPT ![t] = "read"]
    BY <1>5 DEF Constructed, length, Goto
  <2>1. FilledInv'
    <3>1. \A i, j \in Places : i < cell[1] \/ (i = cell[1] /\ j < cell[2]) =>
            s_convert[<<i, j>>] = Conversion(TL[i + 1], TL[j + 1])
      BY <1>0 DEF CastInv, FilledInv
    <3> QED BY <1>0, <2>0, <3>1, ConversionSame DEF FilledInv, Places, Conversion
  <2>2. GuardInv'  BY <1>0, <2>0, CasterAssumption DEF CastInv, GuardInv
  <2>3. AnswerInv'  BY <1>0, <2>0, AnswersSame
  <2> QED BY <1>1, <2>1, <2>2, <2>3 DEF CastInv
<1> QED BY <1>3, <1>4, <1>5

\* The cell of a listed target says what the object's nearest listed class converts to.
LEMMA ReadCastInv ==
  ASSUME CastInv, NEW t \in Casters, CanConvert(t)
  PROVE  CastInv'
<1> DEFINE from == TypeId[object[t]]
           to   == IndexOf(target[t])
<1>0. /\ pc \in [Casters -> {"idle", "static", "MakeTable", "read", "returned"}]
      /\ pc[t] = "read" /\ guard = "done" /\ cell[1] = Len(TL) /\ Len(TL) \in Nat
      /\ object[t] \in Classes /\ target[t] \in Classes /\ result \in [Casters -> BOOLEAN]
      /\ UNCHANGED <<parent, TL, s_convert, guard, cell, object, target>>
      /\ pc' = [pc EXCEPT ![t] = "returned"]
      /\ s_convert \in [Places \X Places -> BOOLEAN]
  BY DEF CastInv, GuardInv, AnswerInv, FilledInv, ListInv, CanConvert, Goto
<1>1. HierarchyInv /\ ListInv /\ HierarchyInv' /\ ListInv'  BY <1>0, ConversionSame DEF CastInv
<1>2. /\ from \in Places
      /\ Bases[TL[from + 1]] \subseteq Bases[object[t]]
      /\ object[t] \in Listed => TL[from + 1] = object[t]
  BY <1>0, <1>1, TypeIdMeans
<1>3. PICK ok \in Cell(from, to) : result' = [result EXCEPT ![t] = ok]
  BY DEF CanConvert
<1> HIDE DEF from, to
<1>4. ASSUME target[t] \in Listed
      PROVE  /\ ok \in BOOLEAN
             /\ ok => target[t] \in Bases[object[t]]
             /\ object[t] \in Listed /\ target[t] \in Bases[object[t]] => ok
  <2>1. PICK j \in 1..Len(TL) : TL[j] = target[t]  BY <1>4 DEF Listed
  <2>2. to = j - 1  BY <1>0, <1>1, <2>1, IndexMeans DEF to
  <2>3. to \in Places /\ to >= 0 /\ TL[to + 1] = target[t]  BY <1>0, <2>1, <2>2 DEF Places
  <2>4. ok = s_convert[<<from, to>>]  BY <1>3, <2>3 DEF Cell
  <2>5. s_convert[<<from, to>>] = Conversion(TL[from + 1], TL[to + 1])
    <3>1. from < cell[1]  BY <1>0, <1>2 DEF Places
    <3> QED BY <1>0, <1>2, <2>3, <3>1 DEF CastInv, FilledInv
  <2>6. ok = (target[t] \in Bases[TL[from + 1]])
    BY <2>3, <2>4, <2>5 DEF Conversion
  <2>7. ok \in BOOLEAN  BY <2>6
  <2> QED BY <1>2, <2>6, <2>7
<1>5. ASSUME target[t] \notin Listed
      PROVE  ok \in BOOLEAN
  <2>1. to = -1  BY <1>0, <1>1, <1>5, IndexMeans DEF to
  <2>2. CASE from > 0
    <3>1. <<from - 1, Len(TL) - 1>> \in Places \X Places  BY <1>0, <1>2, <2>2 DEF Places
    <3>2. s_convert[<<from - 1, Len(TL) - 1>>] \in BOOLEAN  BY <1>0, <3>1
    <3>3. ok = s_convert[<<from - 1, Len(TL) - 1>>]
      <4>1. ~(to >= 0)  BY <2>1
      <4>2. Cell(from, to) = {s_convert[<<from - 1, Len(TL) - 1>>]}
        BY <2>2, <4>1 DEF Cell, length
      <4> QED BY <1>3, <4>2
    <3> QED BY <3>2, <3>3
  <2>3. CASE ~(from > 0)  BY <1>3, <2>1, <2>3 DEF Cell
  <2> QED BY <2>2, <2>3
<1>6. /\ result' \in [Casters -> BOOLEAN] /\ result'[t] = ok /\ pc'[t] = "returned"
      /\ pc' \in [Casters -> {"idle", "static", "MakeTable", "read", "returned"}]
      /\ \A u \in Casters : u # t => pc'[u] = pc[u] /\ result'[u] = result[u]
  BY <1>0, <1>3, <1>4, <1>5
<1>7. GuardInv'  BY <1>0, <1>6, CasterAssumption DEF CastInv, GuardInv
<1>8. FilledInv'  BY <1>0, ConversionSame DEF CastInv, FilledInv, Places, Conversion
<1>9. CastCorrect'
  <2> SUFFICES ASSUME NEW u \in Casters, pc'[u] = "returned", target[u] \in Listed
               PROVE  /\ result'[u] => object[u] # 0 /\ target[u] \in Bases[object[u]]
                      /\ object[u] \in Listed /\ target[u] \in Bases[object[u]]
                           => result'[u]
    BY <1>0, ConversionSame DEF CastCorrect, Conversion
  <2>1. CASE u = t
    <3>1. object[t] # 0  BY <1>0 DEF Classes
    <3> QED BY <1>4, <1>6, <2>1, <3>1
  <2>2. CASE u # t  BY <1>6, <2>2 DEF CastInv, AnswerInv, CastCorrect, Conversion
  <2> QED BY <2>1, <2>2
<1>10. AnswerInv'  BY <1>0, <1>6, <1>9 DEF CastInv, AnswerInv
<1> QED BY <1>1, <1>7, <1>8, <1>10 DEF CastInv

LEMMA NextCastInv ==
  ASSUME CastInv, [CastNext]_(castVars)
  PROVE  CastInv'
<1>1. CASE UNCHANGED castVars
  <2>1. UNCHANGED <<parent, TL, s_convert, guard, cell, pc, object, target, result>>
    BY <1>1 DEF castVars
  <2> QED BY <2>1, ConversionSame
          DEF CastInv, GuardInv, FilledInv, Places, AnswerInv, CastCorrect,
              Conversion
<1>2. CASE CastNext
  BY <1>2, CallCastInv, EnterCastInv, TableCastInv, ReadCastInv DEF CastNext, Step
<1> QED BY <1>1, <1>2

\* A cast to a listed class agrees with the class hierarchy (TypeCast.h:84-270), for any
\* hierarchy, any list that has the root, and any number of threads that meet at the
\* table before it is complete.
THEOREM CastsRight == CastSpec => []CastCorrect
<1>1. CastInit => CastInv  BY InitCastInv
<1>2. CastInv /\ [CastNext]_(castVars) => CastInv'  BY NextCastInv
<1>3. CastInv => CastCorrect  BY DEF CastInv, AnswerInv
<1> QED BY <1>1, <1>2, <1>3, PTL DEF CastSpec
=============================================================================
