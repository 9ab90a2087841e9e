-------------------------- MODULE CheckCycleProofs ---------------------------
(***************************************************************************)
(* Proofs about CheckCycle, for any number of locks and any history.        *)
(*                                                                          *)
(* The argument is that of depth-first search.  A node is open from the     *)
(* first line of its Dfs to its last.  The open nodes are those of the      *)
(* frames, in the order of their discovery, each the parent of the next     *)
(* (StackInv, PathInv); so a node reached again is finished, or is open,    *)
(* and then the frames above it are a cycle.  The successors of a finished  *)
(* node are finished, and were before it (ClosedInv), so that no cycle is   *)
(* among them (AcyclicInv).                                                 *)
(***************************************************************************)
EXTENDS CheckCycle, FiniteSetTheorems, WellFoundedInduction, SequenceTheorems, TLAPS

Depth   == Len(frames)
Here(i) == frames[i].here
Rest(i) == frames[i].rest

Reached(n) == discoveredOrder[n] # -1
Open(n)    == Reached(n) /\ ~finished[n]
Finished   == {n \in Ids : finished[n]}

\* As many nodes have been reached as have numbers.
CountInv ==
  /\ discoveredCount = Cardinality({n \in Ids : Reached(n)})
  /\ \A n \in Ids : discoveredOrder[n] < discoveredCount

\* The frames are the open nodes, in the order of discovery.
StackInv ==
  /\ \A n \in Ids : Open(n) <=> \E i \in 1..Depth : Here(i) = n
  /\ \A i, j \in 1..Depth : i < j => discoveredOrder[Here(i)] < discoveredOrder[Here(j)]
  /\ \A n \in Ids : finished[n] => Reached(n)

\* They are a path, and _parent goes back along it.
PathInv ==
  \A i \in 1..Depth : i > 1 => <<Here(i - 1), Here(i)>> \in history /\ parent[Here(i)] = Here(i - 1)

\* The successors a frame has passed are finished, but for the one in the next frame.
RestInv ==
  \A i \in 1..Depth :
    /\ Rest(i) \subseteq Successors(Here(i))
    /\ \A m \in Successors(Here(i)) :
         m \in Rest(i) \/ finished[m] \/ (i < Depth /\ m = Here(i + 1))

ClosedInv  == \A n \in Finished : Successors(n) \subseteq Finished
AcyclicInv == ~HasCycle(history, Finished)
RootInv    == \A n \in Ids : n < lockId => Reached(n)

SearchInv == CountInv /\ StackInv /\ PathInv /\ RestInv /\ ClosedInv /\ AcyclicInv /\ RootInv

\* The back edge is printed first, then the path of the frames backwards, down to frame p.
Printed(p) ==
  /\ Len(printed) = Depth - p + 1
  /\ printed[1] = <<Here(Depth), target>>
  /\ \A i \in p..(Depth - 1) : printed[Depth - i + 1] = <<Here(i), Here(i + 1)>>

\* The printing loop is at frame p, on its way to the frame of target.
TraceInv ==
  \E j, p \in 1..Depth :
    /\ j <= p /\ j < Depth
    /\ now = Here(p) /\ target = Here(j) /\ (status = "crash" <=> p = j)
    /\ <<Here(Depth), target>> \in history
    /\ Printed(p)

IInv ==
  /\ TypeOK
  /\ status # "out of bounds"
  /\ status # "return" => SearchInv
  /\ status = "return" => ~HasCycle(history, Ids)
  /\ status \in {"trace", "crash"} => TraceInv

-----------------------------------------------------------------------------
\* The order of Nat as a relation, and its least elements.
Less == {x \in Nat \X Nat : x[1] < x[2]}

LEMMA LessWellFounded == IsWellFoundedOn(Less, Nat)
<1>1. Less = OpToRel(<, Nat)  BY Zenon DEF Less, OpToRel
<1> QED BY <1>1, NatLessThanWellFounded, Zenon

LEMMA LeastIn ==
  ASSUME NEW S \in SUBSET Ids, S # {}
  PROVE  Least(S) \in S
<1>0. S \subseteq Nat  BY LockCountAssumption DEF Ids
<1>1. PICK m \in S : \A n \in S : <<n, m>> \notin Less  BY <1>0, LessWellFounded, WFMin
<1>2. \A n \in S : m <= n
  <2> TAKE n \in S
  <2>1. n \in Nat /\ m \in Nat  BY <1>0
  <2>2. ~(n < m)
    <3>1. <<n, m>> \in Nat \X Nat /\ <<n, m>>[1] = n /\ <<n, m>>[2] = m  BY <2>1
    <3>2. <<n, m>> \notin Less  BY <1>1
    <3> QED BY <3>1, <3>2, Zenon DEF Less
  <2> QED BY <2>1, <2>2
<1>3. \E m1 \in S : \A n \in S : m1 <= n  BY <1>2
<1> QED BY <1>3, Zenon DEF Least

FrameSet == [here : Ids, rest : SUBSET Ids]

LEMMA FramesType ==
  ASSUME TypeOK
  PROVE  /\ Depth \in Nat /\ frames \in Seq(FrameSet)
         /\ \A i \in 1..Depth : frames[i] \in FrameSet /\ Here(i) \in Ids /\ Rest(i) \subseteq Ids
         /\ frames # <<>> => Depth \in 1..Depth /\ Depth > 0
         /\ frames = <<>> => Depth = 0
<1>1. frames \in Seq(FrameSet)  BY DEF TypeOK, FrameSet
<1>2. Depth \in Nat /\ \A i \in 1..Depth : frames[i] \in FrameSet  BY <1>1 DEF Depth
<1>3. \A i \in 1..Depth : Here(i) \in Ids /\ Rest(i) \subseteq Ids
  <2> TAKE i \in 1..Depth
  <2>1. frames[i] \in FrameSet  BY <1>2
  <2> QED BY <2>1 DEF FrameSet, Here, Rest
<1>4. frames # <<>> => Depth # 0  BY <1>1 DEF Depth
<1>5. frames = <<>> => Depth = 0  BY DEF Depth
<1> QED BY <1>1, <1>2, <1>3, <1>4, <1>5

\* What is left of a sequence when its last element goes.
LEMMA Shortened ==
  ASSUME NEW A, NEW s \in Seq(A), s # <<>>
  PROVE  /\ SubSeq(s, 1, Len(s) - 1) \in Seq(A) /\ Len(SubSeq(s, 1, Len(s) - 1)) = Len(s) - 1
         /\ Len(s) \in Nat \ {0} /\ Len(s) \in 1..Len(s)
         /\ \A i \in 1..(Len(s) - 1) : SubSeq(s, 1, Len(s) - 1)[i] = s[i]
<1>1. Len(s) \in Nat /\ Len(s) # 0  OBVIOUS
<1> DEFINE n == Len(s) - 1
           r == SubSeq(s, 1, n)
<1>2. n \in Nat /\ Len(s) = n + 1 /\ \A i \in 1..n : s[i] \in A  BY <1>1
<1> HIDE DEF n
<1>3. /\ r \in Seq(A) /\ Len(r) = (IF 1 <= n THEN n - 1 + 1 ELSE 0)
      /\ \A i \in 1..(n - 1 + 1) : r[i] = s[1 + i - 1]
  BY <1>2, SubSeqProperties
<1> HIDE DEF r
<1>4. r \in Seq(A) /\ Len(r) = n /\ \A i \in 1..n : r[i] = s[i]  BY <1>2, <1>3
<1>5. n = Len(s) - 1 /\ Len(s) \in Nat \ {0} /\ Len(s) \in 1..Len(s)  BY <1>1, <1>2
<1> QED BY <1>4, <1>5 DEF r

\* The frames when the innermost one has passed n.
LEMMA PassedIs ==
  ASSUME TypeOK, frames # <<>>, NEW n
  PROVE  /\ Passed(n) \in Seq(FrameSet) /\ Len(Passed(n)) = Depth
         /\ \A i \in 1..Depth :
              /\ Passed(n)[i] \in FrameSet /\ Passed(n)[i].here = Here(i)
              /\ Passed(n)[i].rest = IF i = Depth THEN Rest(i) \ {n} ELSE Rest(i)
<1>0. /\ Depth \in Nat /\ frames \in Seq(FrameSet) /\ Depth \in 1..Depth
      /\ \A i \in 1..Depth : frames[i] \in FrameSet
  BY FramesType
<1> DEFINE top == [frames[Depth] EXCEPT !.rest = @ \ {n}]
<1>1. Passed(n) = [frames EXCEPT ![Depth] = top]  BY DEF Passed, Depth
<1>2. top \in FrameSet /\ top.here = Here(Depth) /\ top.rest = Rest(Depth) \ {n}
  <2>1. frames[Depth] \in FrameSet  BY <1>0
  <2> QED BY <2>1 DEF FrameSet, Here, Rest
<1> HIDE DEF top
<1>3. /\ DOMAIN frames = 1..Depth /\ Passed(n) \in Seq(FrameSet) /\ Len(Passed(n)) = Depth
      /\ Passed(n)[Depth] = top
      /\ \A i \in 1..Depth : i # Depth => Passed(n)[i] = frames[i]
  <2>1. DOMAIN frames = 1..Depth /\ Len(frames) = Depth  BY <1>0 DEF Depth
  <2>2. Passed(n) \in Seq(FrameSet) /\ Len(Passed(n)) = Len(frames)
    BY <1>0, <1>1, <1>2, <2>1, ExceptSeq
  <2> QED BY <1>0, <1>1, <2>1, <2>2
<1>4. ASSUME NEW i \in 1..Depth
      PROVE  /\ Passed(n)[i] \in FrameSet /\ Passed(n)[i].here = Here(i)
             /\ Passed(n)[i].rest = IF i = Depth THEN Rest(i) \ {n} ELSE Rest(i)
  <2>1. CASE i = Depth  BY <2>1, <1>2, <1>3
  <2>2. CASE i # Depth
    <3>1. Passed(n)[i] = frames[i]  BY <2>2, <1>3
    <3> QED BY <2>2, <3>1, <1>0 DEF Here, Rest
  <2> QED BY <2>1, <2>2
<1> QED BY <1>3, <1>4

\* The nodes of the frames are different, and reached last to first.
LEMMA HeresApart ==
  ASSUME TypeOK, status # "return", StackInv
  PROVE  /\ \A i \in 1..Depth : Reached(Here(i)) /\ ~finished[Here(i)]
         /\ \A i, j \in 1..Depth : Here(i) = Here(j) => i = j
<1>0. /\ Depth \in Nat /\ \A i \in 1..Depth : Here(i) \in Ids
  BY FramesType
<1>1. \A i \in 1..Depth : Reached(Here(i)) /\ ~finished[Here(i)]
  BY <1>0 DEF StackInv, Open
<1>2. \A n \in Ids : discoveredOrder[n] \in Int
  <2>1. discoveredOrder \in [Ids -> -1..(LockCount - 1)]  BY DEF TypeOK
  <2> QED BY <2>1, LockCountAssumption
<1>3. ASSUME NEW i \in 1..Depth, NEW j \in 1..Depth, Here(i) = Here(j)  PROVE i = j
  <2>0. i \in Int /\ j \in Int  OBVIOUS
  <2>1. ~(i < j)  BY <1>0, <1>2, <1>3 DEF StackInv
  <2>2. ~(j < i)  BY <1>0, <1>2, <1>3 DEF StackInv
  <2> QED BY <2>0, <2>1, <2>2
<1> QED BY <1>1, <1>3

\* A node whose successors are finished adds no cycle to the finished nodes.
LEMMA AddFinished ==
  ASSUME ClosedInv, AcyclicInv, NEW n \in Ids, n \notin Finished, Successors(n) \subseteq Finished
  PROVE  ~HasCycle(history, Finished \cup {n})
<1>1. SUFFICES ASSUME NEW S \in SUBSET (Finished \cup {n}), S # {},
                      \A a \in S : \E b \in S : <<a, b>> \in history
               PROVE  FALSE
  BY DEF HasCycle
<1>0. Finished \subseteq Ids  BY DEF Finished
<1> DEFINE R == S \ {n}
<1>2. ASSUME NEW a \in S  PROVE \E b \in R : <<a, b>> \in history
  <2>1. PICK b \in S : <<a, b>> \in history  BY <1>1
  <2>2. b \in Successors(a)  BY <2>1, <1>0, <1>1 DEF Successors
  <2>3. b \in Finished  BY <2>2 DEF ClosedInv
  <2> QED BY <2>1, <2>3
<1>3. R \in SUBSET Finished /\ R # {}  BY <1>1, <1>2
<1>4. \A a \in R : \E b \in R : <<a, b>> \in history  BY <1>2
<1> QED BY <1>3, <1>4 DEF AcyclicInv, HasCycle

\* The numbers of the nodes, when one more has been reached.
LEMMA OneMoreReached ==
  ASSUME TypeOK, status # "return", CountInv, NEW n \in Ids, ~Reached(n),
         discoveredOrder' = [discoveredOrder EXCEPT ![n] = discoveredCount],
         discoveredCount' = discoveredCount + 1
  PROVE  /\ discoveredOrder' \in [Ids -> -1..(LockCount - 1)]
         /\ discoveredCount' \in 0..LockCount
         /\ discoveredOrder'[n] = discoveredCount
         /\ \A m \in Ids : m # n => discoveredOrder'[m] = discoveredOrder[m]
         /\ \A m \in Ids : Reached(m)' <=> Reached(m) \/ m = n
         /\ CountInv'
<1> DEFINE D  == {m \in Ids : Reached(m)}
           D1 == {m \in Ids : Reached(m)'}
<1>0. /\ discoveredOrder \in [Ids -> -1..(LockCount - 1)] /\ discoveredCount \in 0..LockCount
  BY DEF TypeOK
<1>1. /\ discoveredOrder'[n] = discoveredCount
      /\ \A m \in Ids : m # n => discoveredOrder'[m] = discoveredOrder[m]
      /\ DOMAIN discoveredOrder' = Ids
  BY <1>0
<1>2. discoveredCount # -1  BY <1>0, LockCountAssumption
<1>3. \A m \in Ids : Reached(m)' <=> Reached(m) \/ m = n
  <2> TAKE m \in Ids
  <2>1. CASE m = n  BY <2>1, <1>1, <1>2 DEF Reached
  <2>2. CASE m # n  BY <2>2, <1>1 DEF Reached
  <2> QED BY <2>1, <2>2
<1>4. D1 = D \cup {n} /\ n \notin D /\ D \subseteq Ids /\ D1 \subseteq Ids  BY <1>3
<1>5. discoveredCount = Cardinality(D)  BY DEF CountInv
<1>6. IsFiniteSet(Ids) /\ Cardinality(Ids) = LockCount
  <2>1. 0 \in Int /\ LockCount - 1 \in Int  BY LockCountAssumption
  <2>2. /\ IsFiniteSet(0..(LockCount - 1))
        /\ Cardinality(0..(LockCount - 1)) = IF 0 > LockCount - 1 THEN 0 ELSE LockCount - 1 - 0 + 1
    BY <2>1, FS_Interval
  <2> QED BY <2>2, LockCountAssumption DEF Ids
<1> HIDE DEF D, D1
<1>7. /\ IsFiniteSet(D) /\ IsFiniteSet(D1) /\ Cardinality(D1) <= Cardinality(Ids)
      /\ Cardinality(D1) = Cardinality(D) + 1
  <2>1. /\ IsFiniteSet(D) /\ IsFiniteSet(D1) /\ Cardinality(D1) <= Cardinality(Ids)
    BY <1>4, <1>6, FS_Subset
  <2>2. Cardinality(D \cup {n}) = IF n \in D THEN Cardinality(D) ELSE Cardinality(D) + 1
    BY <2>1, FS_AddElement
  <2> QED BY <2>1, <2>2, <1>4
<1>8. discoveredCount' = Cardinality(D1) /\ discoveredCount + 1 <= LockCount
  BY <1>5, <1>6, <1>7
<1>9. discoveredCount \in 0..(LockCount - 1) /\ discoveredCount' \in 0..LockCount
  BY <1>0, <1>8, LockCountAssumption
<1>10. discoveredOrder' \in [Ids -> -1..(LockCount - 1)]
  <2>1. discoveredCount \in -1..(LockCount - 1)  BY <1>9, LockCountAssumption
  <2> QED BY <1>0, <2>1
<1>11. \A m \in Ids : discoveredOrder'[m] < discoveredCount'
  <2> TAKE m \in Ids
  <2>1. CASE m = n  BY <2>1, <1>1, <1>9
  <2>2. CASE m # n
    <3>1. discoveredOrder[m] < discoveredCount  BY DEF CountInv
    <3>2. discoveredOrder[m] \in Int  BY <1>0, LockCountAssumption
    <3> QED BY <2>2, <3>1, <3>2, <1>1, <1>9
  <2> QED BY <2>1, <2>2
<1>12. CountInv'
  <2>1. D1 = {m \in Ids : Reached(m)'}  BY DEF D1
  <2> QED BY <1>8, <1>11, <2>1 DEF CountInv
<1> QED BY <1>1, <1>3, <1>9, <1>10, <1>12

\* What a step that reaches node n may assume of the callers' stack.
Callers(n, stack) ==
  /\ stack \in Seq(FrameSet) /\ Len(stack) = Depth
  /\ \A i \in 1..Depth :
       /\ stack[i] \in FrameSet /\ stack[i].here = Here(i) /\ stack[i].rest \subseteq Rest(i)
       /\ \A m \in Rest(i) : m \in stack[i].rest \/ (i = Depth /\ m = n)
  /\ Depth > 0 => <<Here(Depth), n>> \in history

\* A node without successors is finished as soon as it is reached.
LEMMA LeafKeeps ==
  ASSUME TypeOK, status # "return", SearchInv, NEW n \in Ids, ~Reached(n),
         NEW stack, Callers(n, stack), Successors(n) = {},
         history' = history, frames' = stack, finished' = [finished EXCEPT ![n] = TRUE],
         \A m \in Ids : m # n => discoveredOrder'[m] = discoveredOrder[m],
         \A m \in Ids : Reached(m)' <=> Reached(m) \/ m = n,
         \A m \in Ids : m # n => parent'[m] = parent[m]
  PROVE  StackInv' /\ PathInv' /\ RestInv' /\ ClosedInv' /\ AcyclicInv'
<1>0. /\ Depth \in Nat /\ \A i \in 1..Depth : Here(i) \in Ids /\ Rest(i) \subseteq Ids
      /\ \A i \in 1..Depth : Reached(Here(i)) /\ ~finished[Here(i)]
  BY FramesType, HeresApart DEF SearchInv
<1>1. \A i \in 1..Depth : Here(i) # n  BY <1>0
<1>2. /\ Depth' = Depth
      /\ \A i \in 1..Depth : Here(i)' = Here(i) /\ Rest(i)' = stack[i].rest
  BY DEF Callers, Depth, Here, Rest
<1>3. finished \in [Ids -> BOOLEAN]  BY DEF TypeOK
<1>4. finished'[n] /\ \A m \in Ids : m # n => finished'[m] = finished[m]  BY <1>3
<1>5. Finished' = Finished \cup {n}  BY <1>3, <1>4 DEF Finished
<1>6. ~finished[n]  BY DEF SearchInv, StackInv
<1>7. \A m : Successors(m)' = Successors(m)  BY DEF Successors
<1>8. StackInv'
  <2>1. ASSUME NEW m \in Ids  PROVE Open(m)' <=> \E i \in 1..Depth : Here(i) = m
    <3>1. CASE m = n  BY <3>1, <1>1, <1>4 DEF Open
    <3>2. CASE m # n
      <4>1. Open(m)' <=> Open(m)  BY <3>2, <1>4 DEF Open
      <4> QED BY <4>1 DEF SearchInv, StackInv
    <3> QED BY <3>1, <3>2
  <2>2. \A m \in Ids : Open(m)' <=> \E i \in 1..Depth' : Here(i)' = m  BY <2>1, <1>2
  <2>3. ASSUME NEW i \in 1..Depth, NEW j \in 1..Depth, i < j
        PROVE  discoveredOrder'[Here(i)] < discoveredOrder'[Here(j)]
    BY <2>3, <1>0, <1>1 DEF SearchInv, StackInv
  <2>4. \A m \in Ids : finished'[m] => Reached(m)'  BY <1>4 DEF SearchInv, StackInv
  <2> QED BY <2>2, <2>3, <2>4, <1>2 DEF StackInv
<1>9. PathInv'
  <2>1. ASSUME NEW i \in 1..Depth, i > 1
        PROVE  <<Here(i - 1), Here(i)>> \in history /\ parent'[Here(i)] = Here(i - 1)
    BY <2>1, <1>0, <1>1 DEF SearchInv, PathInv
  <2>2. \A i \in 1..Depth : i > 1 => i - 1 \in 1..Depth  BY <1>0
  <2> QED BY <2>1, <2>2, <1>2 DEF PathInv
<1>10. RestInv'
  <2>1. ASSUME NEW i \in 1..Depth
        PROVE  /\ stack[i].rest \subseteq Successors(Here(i))
               /\ \A m \in Successors(Here(i)) :
                    m \in stack[i].rest \/ finished'[m] \/ (i < Depth /\ m = Here(i + 1))
    <3>1. stack[i].rest \subseteq Successors(Here(i))  BY DEF SearchInv, RestInv, Callers
    <3>2. ASSUME NEW m \in Successors(Here(i))
          PROVE  m \in stack[i].rest \/ finished'[m] \/ (i < Depth /\ m = Here(i + 1))
      <4>0. m \in Ids  BY DEF Successors
      <4>1. m \in Rest(i) \/ finished[m] \/ (i < Depth /\ m = Here(i + 1))
        BY DEF SearchInv, RestInv
      <4>2. m \in Rest(i) => m \in stack[i].rest \/ m = n  BY DEF Callers
      <4>3. finished[m] => finished'[m]  BY <4>0, <1>4, <1>6
      <4> QED BY <4>1, <4>2, <4>3, <1>4
    <3> QED BY <3>1, <3>2
  <2>2. \A i \in 1..Depth : i < Depth => i + 1 \in 1..Depth  BY <1>0
  <2> QED BY <2>1, <2>2, <1>2, <1>7 DEF RestInv
<1>11. ClosedInv'  BY <1>5, <1>7 DEF SearchInv, ClosedInv
<1>12. AcyclicInv'
  <2>1. n \notin Finished  BY <1>6 DEF Finished
  <2>2. ~HasCycle(history, Finished \cup {n})  BY <2>1, AddFinished DEF SearchInv
  <2> QED BY <2>2, <1>5 DEF AcyclicInv, HasCycle
<1> QED BY <1>8, <1>9, <1>10, <1>11, <1>12

\* A node with successors gets a frame of its own.
LEMMA PushKeeps ==
  ASSUME TypeOK, status # "return", SearchInv, NEW n \in Ids, ~Reached(n),
         NEW stack, Callers(n, stack),
         history' = history, frames' = Append(stack, Frame(n)), finished' = finished,
         discoveredOrder'[n] = discoveredCount,
         \A m \in Ids : m # n => discoveredOrder'[m] = discoveredOrder[m],
         \A m \in Ids : Reached(m)' <=> Reached(m) \/ m = n,
         \A m \in Ids : m # n => parent'[m] = parent[m],
         Depth > 0 => parent'[n] = Here(Depth)
  PROVE  frames' \in Seq(FrameSet) /\ StackInv' /\ PathInv' /\ RestInv' /\ ClosedInv' /\ AcyclicInv'
<1>0. /\ Depth \in Nat /\ \A i \in 1..Depth : Here(i) \in Ids /\ Rest(i) \subseteq Ids
      /\ \A i \in 1..Depth : Reached(Here(i)) /\ ~finished[Here(i)]
  BY FramesType, HeresApart DEF SearchInv
<1>1. \A i \in 1..Depth : Here(i) # n  BY <1>0
<1>a. PICK top : top = Depth + 1  OBVIOUS
<1>2. Frame(n) \in FrameSet /\ Frame(n).here = n /\ Frame(n).rest = Successors(n)
  BY DEF Frame, FrameSet, Successors
<1>3. /\ frames' \in Seq(FrameSet) /\ Len(frames') = top /\ frames'[top] = Frame(n)
      /\ \A i \in 1..Depth : frames'[i] = stack[i]
  <2>1. stack \in Seq(FrameSet) /\ Len(stack) = Depth  BY DEF Callers
  <2>2. /\ Append(stack, Frame(n)) \in Seq(FrameSet)
        /\ Len(Append(stack, Frame(n))) = Len(stack) + 1
        /\ \A i \in 1..Len(stack) : Append(stack, Frame(n))[i] = stack[i]
        /\ Append(stack, Frame(n))[Len(stack) + 1] = Frame(n)
    BY <2>1, <1>2, AppendProperties
  <2> QED BY <2>1, <2>2, <1>a
<1>4. /\ Depth' = top /\ Here(top)' = n /\ Rest(top)' = Successors(n)
      /\ \A i \in 1..Depth : Here(i)' = Here(i) /\ Rest(i)' = stack[i].rest
  <2>1. Depth' = top  BY <1>3 DEF Depth
  <2>2. Here(top)' = n /\ Rest(top)' = Successors(n)  BY <1>2, <1>3 DEF Here, Rest
  <2>3. \A i \in 1..Depth : Here(i)' = Here(i) /\ Rest(i)' = stack[i].rest
    BY <1>3 DEF Callers, Here, Rest
  <2> QED BY <2>1, <2>2, <2>3
<1>5. 1..top = 1..Depth \cup {top} /\ top \notin 1..Depth /\ top \in Nat  BY <1>a, <1>0
<1>6. ~finished[n]  BY DEF SearchInv, StackInv
<1>7. Finished' = Finished /\ \A m : Successors(m)' = Successors(m)  BY DEF Finished, Successors
<1>8. StackInv'
  <2>1. ASSUME NEW m \in Ids  PROVE Open(m)' <=> \E i \in 1..top : Here(i)' = m
    <3>1. CASE m = n  BY <3>1, <1>4, <1>5, <1>6 DEF Open
    <3>2. CASE m # n
      <4>1. Open(m)' <=> Open(m)  BY <3>2 DEF Open
      <4>2. Open(m) <=> \E i \in 1..Depth : Here(i) = m  BY DEF SearchInv, StackInv
      <4> QED BY <3>2, <4>1, <4>2, <1>4, <1>5
    <3> QED BY <3>1, <3>2
  <2>2. \A m \in Ids : Open(m)' <=> \E i \in 1..Depth' : Here(i)' = m  BY <2>1, <1>4
  <2>3. ASSUME NEW i \in 1..top, NEW j \in 1..top, i < j
        PROVE  discoveredOrder'[Here(i)'] < discoveredOrder'[Here(j)']
    <3>1. i \in 1..Depth  BY <2>3, <1>a, <1>0
    <3>2. CASE j = top
      <4>1. discoveredOrder[Here(i)] < discoveredCount  BY <3>1, <1>0 DEF SearchInv, CountInv
      <4> QED BY <3>1, <3>2, <4>1, <1>0, <1>1, <1>4
    <3>3. CASE j \in 1..Depth
      <4>1. discoveredOrder[Here(i)] < discoveredOrder[Here(j)]
        BY <2>3, <3>1, <3>3 DEF SearchInv, StackInv
      <4> QED BY <3>1, <3>3, <4>1, <1>0, <1>1, <1>4
    <3> QED BY <3>2, <3>3, <1>5
  <2>4. \A m \in Ids : finished'[m] => Reached(m)'  BY DEF SearchInv, StackInv
  <2> QED BY <2>2, <2>3, <2>4, <1>4 DEF StackInv
<1>9. PathInv'
  <2>1. ASSUME NEW i \in 1..top, i > 1
        PROVE  <<Here(i - 1)', Here(i)'>> \in history /\ parent'[Here(i)'] = Here(i - 1)'
    <3>1. CASE i = top
      <4>1. i - 1 = Depth /\ Depth > 0 /\ Depth \in 1..Depth  BY <2>1, <3>1, <1>a, <1>0
      <4>2. <<Here(Depth), n>> \in history  BY <4>1 DEF Callers
      <4>3. Here(i - 1)' = Here(Depth) /\ Here(i)' = n
        <5>1. Here(i)' = n  BY <3>1, <1>4
        <5>2. PICK d : d = Depth  OBVIOUS
        <5>3. Here(d)' = Here(d) /\ i - 1 = d  BY <4>1, <5>2, <1>4
        <5> QED BY <5>1, <5>2, <5>3
      <4> QED BY <4>1, <4>2, <4>3
    <3>2. CASE i \in 1..Depth
      <4>1. i - 1 \in 1..Depth  BY <2>1, <3>2, <1>0
      <4>2. <<Here(i - 1), Here(i)>> \in history /\ parent[Here(i)] = Here(i - 1)
        BY <2>1, <3>2 DEF SearchInv, PathInv
      <4>3. Here(i)' = Here(i) /\ Here(i - 1)' = Here(i - 1)  BY <3>2, <4>1, <1>4
      <4> QED BY <3>2, <4>2, <4>3, <1>0, <1>1
    <3> QED BY <3>1, <3>2, <1>5
  <2> QED BY <2>1, <1>4 DEF PathInv
<1>10. RestInv'
  <2>1. ASSUME NEW i \in 1..top
        PROVE  /\ Rest(i)' \subseteq Successors(Here(i)')
               /\ \A m \in Successors(Here(i)') :
                    m \in Rest(i)' \/ finished[m] \/ (i < top /\ m = Here(i + 1)')
    <3>1. CASE i = top  BY <3>1, <1>4
    <3>2. CASE i \in 1..Depth
      <4>1. Rest(i)' \subseteq Successors(Here(i))  BY <3>2, <1>4 DEF SearchInv, RestInv, Callers
      <4>2. ASSUME NEW m \in Successors(Here(i))
            PROVE  m \in Rest(i)' \/ finished[m] \/ (i < top /\ m = Here(i + 1)')
        <5>1. m \in Rest(i) \/ finished[m] \/ (i < Depth /\ m = Here(i + 1))
          BY <3>2 DEF SearchInv, RestInv
        <5>2. m \in Rest(i) => m \in Rest(i)' \/ (i = Depth /\ m = n)  BY <3>2, <1>4 DEF Callers
        <5>3. i = Depth /\ m = n => i < top /\ m = Here(i + 1)'
          <6>1. i = Depth => i + 1 = top /\ i < top  BY <1>a, <1>0
          <6> QED BY <6>1, <1>4
        <5>4. i < Depth => i < top /\ Here(i + 1)' = Here(i + 1)
          <6>1. i < Depth => i < top /\ i + 1 \in 1..Depth  BY <3>2, <1>a, <1>0
          <6> QED BY <6>1, <1>4
        <5> QED BY <5>1, <5>2, <5>3, <5>4
      <4> QED BY <3>2, <4>1, <4>2, <1>4
    <3> QED BY <3>1, <3>2, <1>5
  <2> QED BY <2>1, <1>4, <1>7 DEF RestInv
<1>11. ClosedInv'  BY <1>7 DEF SearchInv, ClosedInv
<1>12. AcyclicInv'  BY <1>7 DEF SearchInv, AcyclicInv, HasCycle
<1> QED BY <1>3, <1>8, <1>9, <1>10, <1>11, <1>12

\* The first lines of Dfs, whoever calls it.
LEMMA DiscoverKeeps ==
  ASSUME TypeOK, status # "return", SearchInv, NEW n \in Ids, ~Reached(n),
         NEW stack, Callers(n, stack), Discover(n, stack),
         history' = history, lockId' \in 0..LockCount,
         \A m \in Ids : m < lockId' => m < lockId \/ m = n,
         \A m \in Ids : m # n => parent'[m] = parent[m],
         Depth > 0 => parent'[n] = Here(Depth)
  PROVE  /\ SearchInv'
         /\ frames' \in Seq(FrameSet)
         /\ discoveredOrder' \in [Ids -> -1..(LockCount - 1)]
         /\ discoveredCount' \in 0..LockCount
         /\ finished' \in [Ids -> BOOLEAN]
<1>1. /\ discoveredOrder' \in [Ids -> -1..(LockCount - 1)]
      /\ discoveredCount' \in 0..LockCount
      /\ discoveredOrder'[n] = discoveredCount
      /\ \A m \in Ids : m # n => discoveredOrder'[m] = discoveredOrder[m]
      /\ \A m \in Ids : Reached(m)' <=> Reached(m) \/ m = n
      /\ CountInv'
  <2>1. /\ discoveredOrder' = [discoveredOrder EXCEPT ![n] = discoveredCount]
        /\ discoveredCount' = discoveredCount + 1
    BY DEF Discover
  <2> QED BY <2>1, OneMoreReached DEF SearchInv
<1>2. /\ frames' \in Seq(FrameSet) /\ finished' \in [Ids -> BOOLEAN]
      /\ StackInv' /\ PathInv' /\ RestInv' /\ ClosedInv' /\ AcyclicInv'
  <2>1. finished \in [Ids -> BOOLEAN]  BY DEF TypeOK
  <2>2. CASE Successors(n) = {}
    <3>1. finished' = [finished EXCEPT ![n] = TRUE] /\ frames' = stack  BY <2>2 DEF Discover
    <3>2. StackInv' /\ PathInv' /\ RestInv' /\ ClosedInv' /\ AcyclicInv'
      BY <2>2, <3>1, <1>1, LeafKeeps
    <3>3. finished' \in [Ids -> BOOLEAN]  BY <2>1, <3>1, Zenon
    <3>4. frames' \in Seq(FrameSet)  BY <3>1 DEF Callers
    <3> QED BY <3>2, <3>3, <3>4
  <2>3. CASE Successors(n) # {}
    <3>1. frames' = Append(stack, Frame(n)) /\ finished' = finished  BY <2>3 DEF Discover
    <3> QED BY <2>1, <3>1, <1>1, PushKeeps
  <2> QED BY <2>2, <2>3
<1>3. RootInv'  BY <1>1 DEF SearchInv, RootInv
<1> QED BY <1>1, <1>2, <1>3 DEF SearchInv

-----------------------------------------------------------------------------
LEMMA InitIInv == Init => IInv
<1> SUFFICES ASSUME Init PROVE IInv  OBVIOUS
<1>1. TypeOK
  <2>1. history \subseteq Edges  BY DEF Init
  <2>2. frames \in Seq([here : Ids, rest : SUBSET Ids])  BY DEF Init
  <2>3. /\ lockId \in 0..LockCount /\ discoveredCount \in 0..LockCount
        /\ discoveredOrder \in [Ids -> -1..(LockCount - 1)]
    BY LockCountAssumption DEF Init
  <2>4. /\ finished \in [Ids -> BOOLEAN] /\ parent \in [Ids -> Ids \cup {NoNode}]
        /\ now \in Ids \cup {NoNode} /\ target \in Ids \cup {NoNode} /\ printed \in Seq(Ids \X Ids)
        /\ status = "search"
    BY DEF Init
  <2> QED BY <2>1, <2>2, <2>3, <2>4 DEF TypeOK
<1>2. status = "search" /\ Depth = 0 /\ \A n \in Ids : ~Reached(n) /\ ~finished[n]
  BY DEF Init, Depth, Reached
<1>3. CountInv
  <2>1. {n \in Ids : Reached(n)} = {}  BY <1>2
  <2>2. Cardinality({}) = 0  BY FS_EmptySet
  <2>3. discoveredCount = 0 /\ \A n \in Ids : discoveredOrder[n] = -1  BY DEF Init
  <2> QED BY <2>1, <2>2, <2>3 DEF CountInv
<1>4. StackInv /\ PathInv /\ RestInv  BY <1>2 DEF StackInv, PathInv, RestInv, Open
<1>5. Finished = {}  BY <1>2 DEF Finished
<1>6. ClosedInv /\ AcyclicInv  BY <1>5 DEF ClosedInv, AcyclicInv, HasCycle
<1>7. RootInv  BY LockCountAssumption DEF Init, RootInv, Ids
<1> QED BY <1>1, <1>2, <1>3, <1>4, <1>6, <1>7 DEF IInv, SearchInv

\* TypeOK after a step of the search.
LEMMA SearchType ==
  ASSUME TypeOK, status = "search", status' \in {"search", "trace"}, history' = history,
         frames' \in Seq(FrameSet), lockId' \in 0..LockCount, discoveredCount' \in 0..LockCount,
         discoveredOrder' \in [Ids -> -1..(LockCount - 1)], finished' \in [Ids -> BOOLEAN],
         parent' \in [Ids -> Ids \cup {NoNode}],
         now' \in Ids \cup {NoNode}, target' \in Ids \cup {NoNode}, printed' \in Seq(Ids \X Ids)
  PROVE  TypeOK'
BY DEF TypeOK, FrameSet

LEMMA RootKeeps ==
  ASSUME IInv, Root
  PROVE  IInv'
<1>0. /\ TypeOK /\ SearchInv /\ status = "search" /\ status' = "search" /\ frames = <<>>
      /\ history' = history /\ parent' = parent /\ now' = now /\ target' = target
      /\ printed' = printed /\ lockId' = lockId + 1 /\ lockId < LockCount
  BY DEF IInv, Root
<1>1. /\ lockId \in 0..LockCount /\ discoveredCount \in 0..LockCount
      /\ discoveredOrder \in [Ids -> -1..(LockCount - 1)] /\ finished \in [Ids -> BOOLEAN]
      /\ parent \in [Ids -> Ids \cup {NoNode}] /\ frames \in Seq(FrameSet)
      /\ now \in Ids \cup {NoNode} /\ target \in Ids \cup {NoNode} /\ printed \in Seq(Ids \X Ids)
  BY <1>0 DEF TypeOK, FrameSet
<1>2. /\ lockId \in Ids /\ lockId' \in 0..LockCount
      /\ \A m \in Ids : m < lockId' => m < lockId \/ m = lockId
  BY <1>0, <1>1, LockCountAssumption DEF Ids
<1>3. /\ SearchInv' /\ frames' \in Seq(FrameSet)
      /\ discoveredOrder' \in [Ids -> -1..(LockCount - 1)]
      /\ discoveredCount' \in 0..LockCount /\ finished' \in [Ids -> BOOLEAN]
  <2>1. CASE Reached(lockId)
    <3>1. UNCHANGED <<discoveredOrder, discoveredCount, finished, frames>>
      BY <2>1 DEF Root, Reached
    <3>2. RootInv'  BY <2>1, <3>1, <1>0, <1>2 DEF SearchInv, RootInv, Reached
    <3>3. SearchInv'
      BY <3>1, <3>2, <1>0
         DEF SearchInv, CountInv, StackInv, PathInv, RestInv, ClosedInv, AcyclicInv, HasCycle,
             Reached, Open, Depth, Here, Rest, Finished, Successors
    <3> QED BY <3>1, <3>3, <1>1
  <2>2. CASE ~Reached(lockId)
    <3>1. Discover(lockId, <<>>)  BY <2>2 DEF Root, Reached
    <3>2. Depth = 0  BY <1>0, FramesType
    <3>3. Callers(lockId, <<>>)  BY <3>2 DEF Callers
    <3> QED BY <2>2, <3>1, <3>2, <3>3, <1>0, <1>2, DiscoverKeeps
  <2> QED BY <2>1, <2>2
<1>4. TypeOK'  BY <1>0, <1>1, <1>2, <1>3, SearchType
<1> QED BY <1>0, <1>3, <1>4 DEF IInv

\* Of a node the innermost frame has still to pass.
LEMMA NextThere ==
  ASSUME TypeOK, SearchInv, status = "search", frames # <<>>, Top.rest # {}
  PROVE  /\ Least(Top.rest) \in Rest(Depth) /\ Least(Top.rest) \in Ids
         /\ <<Top.here, Least(Top.rest)>> \in history
         /\ Top.here = Here(Depth) /\ Top.here \in Ids /\ Depth \in 1..Depth /\ Depth > 0
<1>1. Top.here = Here(Depth) /\ Top.rest = Rest(Depth)  BY DEF Top, Here, Rest, Depth
<1>2. Depth \in 1..Depth /\ Depth > 0 /\ Here(Depth) \in Ids /\ Rest(Depth) \subseteq Ids
  BY FramesType
<1>3. Least(Top.rest) \in Rest(Depth)  BY <1>1, <1>2, LeastIn
<1>4. Least(Top.rest) \in Successors(Here(Depth))  BY <1>2, <1>3 DEF SearchInv, RestInv
<1> QED BY <1>1, <1>2, <1>3, <1>4 DEF Successors

LEMMA DescendKeeps ==
  ASSUME IInv, Descend
  PROVE  IInv'
<1>0. /\ TypeOK /\ SearchInv /\ status = "search" /\ status' = "search" /\ frames # <<>>
      /\ history' = history /\ now' = now /\ target' = target /\ Top.rest # {}
      /\ printed' = printed /\ lockId' = lockId
  BY DEF IInv, Descend
<1>1. /\ lockId \in 0..LockCount /\ parent \in [Ids -> Ids \cup {NoNode}]
      /\ now \in Ids \cup {NoNode} /\ target \in Ids \cup {NoNode} /\ printed \in Seq(Ids \X Ids)
  BY <1>0 DEF TypeOK
<1>2. PICK n : n = Least(Top.rest)  OBVIOUS
<1>3. /\ n \in Rest(Depth) /\ n \in Ids /\ <<Here(Depth), n>> \in history
      /\ Top.here = Here(Depth) /\ Here(Depth) \in Ids /\ Depth \in 1..Depth
  BY <1>0, <1>2, NextThere
<1>4. ~Reached(n) /\ parent' = [parent EXCEPT ![n] = Here(Depth)] /\ Discover(n, Passed(n))
  BY <1>2, <1>3 DEF Descend, Reached
<1>5. /\ parent' \in [Ids -> Ids \cup {NoNode}] /\ parent'[n] = Here(Depth)
      /\ \A m \in Ids : m # n => parent'[m] = parent[m]
  BY <1>1, <1>3, <1>4
<1>6. Callers(n, Passed(n))  BY <1>0, <1>3, PassedIs DEF Callers
<1>7. /\ SearchInv' /\ frames' \in Seq(FrameSet)
      /\ discoveredOrder' \in [Ids -> -1..(LockCount - 1)]
      /\ discoveredCount' \in 0..LockCount /\ finished' \in [Ids -> BOOLEAN]
  BY <1>0, <1>1, <1>3, <1>4, <1>5, <1>6, DiscoverKeeps
<1>8. TypeOK'  BY <1>0, <1>1, <1>5, <1>7, SearchType
<1> QED BY <1>0, <1>7, <1>8 DEF IInv

\* The innermost frame goes, and its node is finished: all its successors are.
LEMMA FinishKeeps ==
  ASSUME IInv, Finish
  PROVE  IInv'
<1>0. /\ TypeOK /\ SearchInv /\ status = "search" /\ status' = "search" /\ frames # <<>>
      /\ history' = history /\ parent' = parent /\ now' = now /\ target' = target
      /\ printed' = printed /\ lockId' = lockId /\ discoveredOrder' = discoveredOrder
      /\ discoveredCount' = discoveredCount /\ Top.rest = {}
  BY DEF IInv, Finish
<1>1. /\ lockId \in 0..LockCount /\ discoveredCount \in 0..LockCount
      /\ discoveredOrder \in [Ids -> -1..(LockCount - 1)] /\ finished \in [Ids -> BOOLEAN]
      /\ parent \in [Ids -> Ids \cup {NoNode}]
      /\ now \in Ids \cup {NoNode} /\ target \in Ids \cup {NoNode} /\ printed \in Seq(Ids \X Ids)
  BY <1>0 DEF TypeOK
<1>2. /\ Depth \in Nat /\ Depth \in 1..Depth /\ frames \in Seq(FrameSet)
      /\ \A i \in 1..Depth : Here(i) \in Ids
      /\ \A i \in 1..Depth : Reached(Here(i)) /\ ~finished[Here(i)]
      /\ \A i, j \in 1..Depth : Here(i) = Here(j) => i = j
  BY <1>0, FramesType, HeresApart DEF SearchInv
<1>3. PICK d : d = Depth  OBVIOUS
<1>4. PICK n : n = Here(d)  OBVIOUS
<1>5. /\ n = Top.here /\ Rest(d) = {} /\ n \in Ids /\ d \in 1..d /\ d \in Nat /\ ~finished[n]
  BY <1>0, <1>2, <1>3, <1>4 DEF Top, Here, Rest, Depth
<1>6. /\ frames' \in Seq(FrameSet) /\ Depth' = d - 1
      /\ \A i \in 1..(d - 1) : Here(i)' = Here(i) /\ Rest(i)' = Rest(i)
  <2>1. frames' = SubSeq(frames, 1, Len(frames) - 1) /\ Len(frames) = d  BY <1>3 DEF Finish, Depth
  <2>2. /\ frames' \in Seq(FrameSet) /\ Len(frames') = d - 1
        /\ \A i \in 1..(d - 1) : frames'[i] = frames[i]
    BY <2>1, <1>0, <1>2, Shortened
  <2> QED BY <2>2 DEF Depth, Here, Rest
<1>7. /\ finished' \in [Ids -> BOOLEAN] /\ finished'[n] = TRUE
      /\ \A m \in Ids : m # n => finished'[m] = finished[m]
  <2>1. finished' = [finished EXCEPT ![n] = TRUE]  BY <1>5 DEF Finish
  <2> QED BY <2>1, <1>1, <1>5, Zenon
<1>8. Finished' = Finished \cup {n} /\ n \notin Finished  BY <1>5, <1>7 DEF Finished
<1>9. \A m : (Reached(m)' <=> Reached(m)) /\ Successors(m)' = Successors(m)
  BY <1>0 DEF Reached, Successors
<1>10. CountInv'  BY <1>0, <1>9 DEF SearchInv, CountInv
<1>11. 1..d = 1..(d - 1) \cup {d} /\ d \notin 1..(d - 1)  BY <1>5
<1>12. StackInv'
  <2>1. ASSUME NEW m \in Ids  PROVE Open(m)' <=> \E i \in 1..(d - 1) : Here(i)' = m
    <3>1. Open(m) <=> \E i \in 1..d : Here(i) = m  BY <1>0, <1>3 DEF SearchInv, StackInv
    <3>2. CASE m = n
      <4>1. \A i \in 1..(d - 1) : Here(i) # n  BY <1>2, <1>3, <1>4, <1>5, <1>11
      <4> QED BY <3>2, <4>1, <1>6, <1>7 DEF Open
    <3>3. CASE m # n
      <4>1. Open(m)' <=> Open(m)  BY <3>3, <1>7, <1>9 DEF Open
      <4> QED BY <3>1, <3>3, <4>1, <1>4, <1>6, <1>11
    <3> QED BY <3>2, <3>3
  <2>2. \A i, j \in 1..(d - 1) : i < j => discoveredOrder[Here(i)'] < discoveredOrder[Here(j)']
    BY <1>0, <1>3, <1>6, <1>11 DEF SearchInv, StackInv
  <2>3. \A m \in Ids : finished'[m] => Reached(m)'
    <3>1. Reached(n)  BY <1>2, <1>3, <1>4
    <3>2. \A m \in Ids : finished[m] => Reached(m)  BY <1>0 DEF SearchInv, StackInv
    <3> QED BY <3>1, <3>2, <1>7, <1>9
  <2> QED BY <2>1, <2>2, <2>3, <1>0, <1>6 DEF StackInv
<1>13. PathInv'
  <2>1. ASSUME NEW i \in 1..(d - 1), i > 1
        PROVE  <<Here(i - 1)', Here(i)'>> \in history /\ parent[Here(i)'] = Here(i - 1)'
    <3>1. i - 1 \in 1..(d - 1) /\ i \in 1..Depth  BY <2>1, <1>3, <1>5
    <3>2. <<Here(i - 1), Here(i)>> \in history /\ parent[Here(i)] = Here(i - 1)
      BY <2>1, <3>1, <1>0 DEF SearchInv, PathInv
    <3> QED BY <3>1, <3>2, <1>6
  <2> QED BY <2>1, <1>0, <1>6 DEF PathInv
<1>14. RestInv'
  <2>1. ASSUME NEW i \in 1..(d - 1)
        PROVE  /\ Rest(i)' \subseteq Successors(Here(i)')
               /\ \A m \in Successors(Here(i)') :
                    m \in Rest(i)' \/ finished'[m] \/ (i < d - 1 /\ m = Here(i + 1)')
    <3>0. i \in 1..Depth  BY <1>3, <1>5
    <3>1. Rest(i) \subseteq Successors(Here(i))  BY <3>0, <1>0 DEF SearchInv, RestInv
    <3>2. ASSUME NEW m \in Successors(Here(i))
          PROVE  m \in Rest(i) \/ finished'[m] \/ (i < d - 1 /\ m = Here(i + 1)')
      <4>0. m \in Ids  BY DEF Successors
      <4>1. m \in Rest(i) \/ finished[m] \/ m = Here(i + 1)  BY <3>0, <1>0 DEF SearchInv, RestInv
      <4>2. finished[m] => finished'[m]  BY <4>0, <1>5, <1>7
      <4>3. CASE i = d - 1
        <5>1. i + 1 = d  BY <4>3, <1>5
        <5> QED BY <5>1, <4>1, <4>2, <1>4, <1>7
      <4>4. CASE i # d - 1
        <5>1. i < d - 1 /\ i + 1 \in 1..(d - 1)  BY <4>4, <1>5
        <5> QED BY <5>1, <4>1, <4>2, <1>6
      <4> QED BY <4>3, <4>4
    <3> QED BY <3>1, <3>2, <1>6
  <2> QED BY <2>1, <1>6, <1>9 DEF RestInv
<1>15. Successors(n) \subseteq Finished
  <2>1. ASSUME NEW m \in Successors(n)  PROVE m \in Finished
    <3>1. m \in Rest(d) \/ finished[m] \/ (d < Depth /\ m = Here(d + 1))
      BY <1>0, <1>3, <1>4, <1>5 DEF SearchInv, RestInv
    <3> QED BY <3>1, <1>3, <1>5 DEF Finished, Successors
  <2> QED BY <2>1
<1>16. ClosedInv'  BY <1>0, <1>8, <1>9, <1>15 DEF SearchInv, ClosedInv
<1>17. AcyclicInv'
  <2>1. ~HasCycle(history, Finished \cup {n})  BY <1>0, <1>5, <1>8, <1>15, AddFinished DEF SearchInv
  <2> QED BY <2>1, <1>0, <1>8 DEF AcyclicInv, HasCycle
<1>18. RootInv'  BY <1>0, <1>9 DEF SearchInv, RootInv
<1>19. SearchInv'  BY <1>10, <1>12, <1>13, <1>14, <1>16, <1>17, <1>18 DEF SearchInv
<1>20. TypeOK'  BY <1>0, <1>1, <1>6, <1>7, SearchType
<1> QED BY <1>0, <1>19, <1>20 DEF IInv

\* A node the innermost frame meets again is finished, or is the node of a
\* frame below it.
LEMMA MetAgain ==
  ASSUME TypeOK, SearchInv, status = "search", frames # <<>>, NEW n \in Ids, Reached(n),
         <<Here(Depth), n>> \in history
  PROVE  finished[n] \/ \E j \in 1..Depth : j < Depth /\ n = Here(j)
<1>1. Depth \in Nat /\ Depth \in 1..Depth  BY FramesType
<1>2. SUFFICES ASSUME ~finished[n] PROVE \E j \in 1..Depth : j < Depth /\ n = Here(j)
  OBVIOUS
<1>3. PICK j \in 1..Depth : Here(j) = n  BY <1>2 DEF SearchInv, StackInv, Open
<1>4. n # Here(Depth)
  <2>1. <<Here(Depth), n>> \in Edges  BY DEF TypeOK
  <2> QED BY <2>1 DEF Edges
<1>5. j # Depth  BY <1>3, <1>4
<1>6. j < Depth  BY <1>1, <1>5
<1> QED BY <1>3, <1>6

LEMMA SkipKeeps ==
  ASSUME IInv, Skip
  PROVE  IInv'
<1>0. /\ TypeOK /\ SearchInv /\ status = "search" /\ status' = "search" /\ frames # <<>>
      /\ history' = history /\ parent' = parent /\ now' = now /\ target' = target
      /\ printed' = printed /\ lockId' = lockId /\ discoveredOrder' = discoveredOrder
      /\ discoveredCount' = discoveredCount /\ finished' = finished /\ Top.rest # {}
  BY DEF IInv, Skip
<1>1. /\ lockId \in 0..LockCount /\ discoveredCount \in 0..LockCount
      /\ discoveredOrder \in [Ids -> -1..(LockCount - 1)] /\ finished \in [Ids -> BOOLEAN]
      /\ parent \in [Ids -> Ids \cup {NoNode}]
      /\ now \in Ids \cup {NoNode} /\ target \in Ids \cup {NoNode} /\ printed \in Seq(Ids \X Ids)
  BY <1>0 DEF TypeOK
<1>2. PICK n : n = Least(Top.rest)  OBVIOUS
<1>3. /\ n \in Ids /\ <<Here(Depth), n>> \in history
      /\ Top.here = Here(Depth) /\ Here(Depth) \in Ids /\ Depth \in 1..Depth
  BY <1>0, <1>2, NextThere
<1>4. /\ Reached(n) /\ frames' = Passed(n)
      /\ discoveredOrder[Here(Depth)] < discoveredOrder[n] \/ finished[n]
  BY <1>2, <1>3 DEF Skip, Reached
<1>5. finished[n]
  <2>1. ASSUME NEW j \in 1..Depth, j < Depth, n = Here(j)
        PROVE  ~(discoveredOrder[Here(Depth)] < discoveredOrder[n])
    <3>1. discoveredOrder[Here(j)] < discoveredOrder[Here(Depth)]
      BY <2>1, <1>0, <1>3 DEF SearchInv, StackInv
    <3>2. discoveredOrder[n] \in Int /\ discoveredOrder[Here(Depth)] \in Int
      BY <1>1, <1>3, LockCountAssumption
    <3> QED BY <2>1, <3>1, <3>2
  <2>2. finished[n] \/ \E j \in 1..Depth : j < Depth /\ n = Here(j)  BY <1>0, <1>3, <1>4, MetAgain
  <2> QED BY <2>1, <2>2, <1>4
<1>6. /\ frames' \in Seq(FrameSet) /\ Depth' = Depth
      /\ \A i \in 1..Depth :
           Here(i)' = Here(i) /\ Rest(i)' = IF i = Depth THEN Rest(i) \ {n} ELSE Rest(i)
  <2>1. /\ Passed(n) \in Seq(FrameSet) /\ Len(Passed(n)) = Depth
        /\ \A i \in 1..Depth :
             /\ Passed(n)[i] \in FrameSet /\ Passed(n)[i].here = Here(i)
             /\ Passed(n)[i].rest = IF i = Depth THEN Rest(i) \ {n} ELSE Rest(i)
    BY <1>0, PassedIs
  <2>2. Depth' = Len(frames') /\ \A i : Here(i)' = frames'[i].here /\ Rest(i)' = frames'[i].rest
    BY DEF Depth, Here, Rest
  <2> QED BY <2>1, <2>2, <1>4
<1>7. \A m : /\ (Reached(m)' <=> Reached(m)) /\ (Open(m)' <=> Open(m))
             /\ Successors(m)' = Successors(m)
  BY <1>0 DEF Reached, Open, Successors
<1>8. Finished' = Finished  BY <1>0 DEF Finished
<1>9. \A i \in 1..Depth : i - 1 \in 1..Depth \/ ~(i > 1)  BY <1>0, FramesType
<1>10. CountInv' /\ RootInv'  BY <1>0, <1>7 DEF SearchInv, CountInv, RootInv
<1>11. StackInv'  BY <1>0, <1>6, <1>7 DEF SearchInv, StackInv
<1>12. PathInv'  BY <1>0, <1>6, <1>9 DEF SearchInv, PathInv
<1>13. RestInv'
  <2>1. ASSUME NEW i \in 1..Depth
        PROVE  /\ Rest(i)' \subseteq Successors(Here(i))
               /\ \A m \in Successors(Here(i)) :
                    m \in Rest(i)' \/ finished[m] \/ (i < Depth /\ m = Here(i + 1))
    BY <1>0, <1>5, <1>6 DEF SearchInv, RestInv
  <2>2. \A i \in 1..Depth : i < Depth => i + 1 \in 1..Depth  BY <1>0, FramesType
  <2> QED BY <2>1, <2>2, <1>0, <1>6, <1>7 DEF RestInv
<1>14. ClosedInv' /\ AcyclicInv'
  BY <1>0, <1>7, <1>8 DEF SearchInv, ClosedInv, AcyclicInv, HasCycle
<1>15. SearchInv'  BY <1>10, <1>11, <1>12, <1>13, <1>14 DEF SearchInv
<1>16. TypeOK'  BY <1>0, <1>1, <1>6, SearchType
<1> QED BY <1>0, <1>15, <1>16 DEF IInv

\* Nothing the invariants of the search speak of changes.
LEMMA SearchStays ==
  ASSUME SearchInv,
         UNCHANGED <<history, frames, lockId, discoveredOrder, discoveredCount, finished, parent>>
  PROVE  SearchInv'
BY DEF SearchInv, CountInv, StackInv, PathInv, RestInv, ClosedInv, AcyclicInv, RootInv, HasCycle,
       Reached, Open, Depth, Here, Rest, Finished, Successors

LEMMA BackEdgeKeeps ==
  ASSUME IInv, BackEdge
  PROVE  IInv'
<1>0. /\ TypeOK /\ SearchInv /\ status = "search" /\ status' = "trace" /\ frames # <<>>
      /\ UNCHANGED <<history, frames, lockId, discoveredOrder, discoveredCount, finished, parent>>
      /\ Top.rest # {}
  BY DEF IInv, BackEdge
<1>1. PICK n : n = Least(Top.rest)  OBVIOUS
<1>2. /\ n \in Ids /\ <<Here(Depth), n>> \in history
      /\ Top.here = Here(Depth) /\ Here(Depth) \in Ids /\ Depth \in 1..Depth
  BY <1>0, <1>1, NextThere
<1>3. /\ Reached(n) /\ ~finished[n] /\ now' = Here(Depth) /\ target' = n
      /\ printed' = <<<<Here(Depth), n>>>>
  BY <1>1, <1>2 DEF BackEdge, Reached
<1>4. PICK j \in 1..Depth : j < Depth /\ n = Here(j)  BY <1>0, <1>2, <1>3, MetAgain
<1>5. SearchInv'  BY <1>0, SearchStays
<1>6. Depth' = Depth /\ \A i : Here(i)' = Here(i)  BY <1>0 DEF Depth, Here
<1>7. TraceInv'
  <2>1. PICK p \in 1..Depth : p = Depth  BY <1>2
  <2>2. p = Depth' /\ j \in 1..Depth' /\ p \in 1..Depth' /\ j <= p /\ j < Depth' /\ p # j
    BY <2>1, <1>0, <1>2, <1>4, <1>6, FramesType
  <2>3. p..(Depth' - 1) = {}  BY <2>1, <1>0, <1>6, FramesType
  <2>4. now' = Here(p)' /\ target' = Here(j)' /\ Here(p)' = Here(Depth)  BY <2>1, <1>3, <1>4, <1>6
  <2>5. Here(Depth)' = Here(Depth)  BY <1>0 DEF Depth, Here
  <2>6. Printed(p)'
    <3>1. Len(printed') = 1 /\ printed'[1] = <<Here(Depth), n>>  BY <1>3
    <3>2. Depth' - p + 1 = 1  BY <2>1, <1>0, <1>6, FramesType
    <3> QED BY <3>1, <3>2, <2>3, <2>5, <1>3 DEF Printed
  <2>7. <<Here(Depth)', target'>> \in history'  BY <2>5, <1>0, <1>2, <1>3
  <2>8. status' # "crash"  BY <1>0
  <2> QED BY <2>2, <2>4, <2>6, <2>7, <2>8 DEF TraceInv
<1>8. TypeOK'
  <2>1. /\ lockId \in 0..LockCount /\ discoveredCount \in 0..LockCount
        /\ discoveredOrder \in [Ids -> -1..(LockCount - 1)] /\ finished \in [Ids -> BOOLEAN]
        /\ parent \in [Ids -> Ids \cup {NoNode}] /\ frames \in Seq(FrameSet)
    BY <1>0 DEF TypeOK, FrameSet
  <2>2. now' \in Ids \cup {NoNode} /\ target' \in Ids \cup {NoNode} /\ printed' \in Seq(Ids \X Ids)
    BY <1>2, <1>3
  <2> QED BY <1>0, <2>1, <2>2, SearchType
<1> QED BY <1>0, <1>5, <1>7, <1>8 DEF IInv

\* The printing loop goes down by one frame.
LEMMA TraceKeeps ==
  ASSUME IInv, Trace
  PROVE  IInv'
<1>0. /\ TypeOK /\ SearchInv /\ TraceInv /\ status = "trace"
      /\ UNCHANGED <<history, frames, lockId, discoveredOrder, discoveredCount, finished, parent,
                     target>>
  BY DEF IInv, Trace
<1>1. /\ Depth \in Nat /\ \A i \in 1..Depth : Here(i) \in Ids
      /\ \A i, k \in 1..Depth : Here(i) = Here(k) => i = k
  BY <1>0, FramesType, HeresApart DEF SearchInv
<1>2. PICK j \in 1..Depth, p \in 1..Depth :
        /\ j <= p /\ j < Depth
        /\ now = Here(p) /\ target = Here(j) /\ (status = "crash" <=> p = j)
        /\ <<Here(Depth), target>> \in history
        /\ Printed(p)
  BY <1>0 DEF TraceInv
<1>3. PICK q : q = p - 1  OBVIOUS
<1>4. /\ q \in 1..Depth /\ j <= q /\ p = q + 1 /\ p > 1 /\ q < Depth
      /\ q..(Depth - 1) = {q} \cup p..(Depth - 1)
  <2>1. p # j  BY <1>0, <1>2
  <2> QED BY <2>1, <1>1, <1>2, <1>3
<1>5. parent[now] = Here(q) /\ parent[now] # NoNode
  <2>1. parent[Here(p)] = Here(p - 1)  BY <1>0, <1>4 DEF SearchInv, PathInv
  <2>2. Here(q) # NoNode  BY <1>1, <1>4, LockCountAssumption DEF Ids, NoNode
  <2> QED BY <2>1, <2>2, <1>2, <1>3
<1>6. /\ printed' = Append(printed, <<Here(q), Here(p)>>) /\ now' = Here(q)
      /\ status' = IF Here(q) = target THEN "crash" ELSE "trace"
  BY <1>2, <1>5 DEF Trace
<1>7. status' = "crash" <=> q = j  BY <1>1, <1>2, <1>4, <1>6
<1>8. SearchInv'  BY <1>0, SearchStays
<1>9. /\ Depth' = Depth /\ Here(Depth)' = Here(Depth) /\ \A i : Here(i)' = Here(i)
  BY <1>0 DEF Depth, Here
<1>10. TraceInv'
  <2>1. printed \in Seq(Ids \X Ids) /\ <<Here(q), Here(p)>> \in Ids \X Ids
    BY <1>0, <1>1, <1>2, <1>4 DEF TypeOK
  <2>2. Printed(q)'
    <3>1. /\ Len(printed) = Depth - p + 1 /\ printed[1] = <<Here(Depth), target>>
          /\ \A i \in p..(Depth - 1) : printed[Depth - i + 1] = <<Here(i), Here(i + 1)>>
      BY <1>2 DEF Printed
    <3>2. /\ Len(printed') = Len(printed) + 1
          /\ \A k \in 1..Len(printed) : printed'[k] = printed[k]
          /\ printed'[Len(printed) + 1] = <<Here(q), Here(p)>>
      BY <2>1, <1>6, AppendProperties
    <3>3. Len(printed') = Depth - q + 1 /\ printed'[1] = <<Here(Depth), target>>
      BY <3>1, <3>2, <1>1, <1>2, <1>4
    <3>4. ASSUME NEW i \in q..(Depth - 1)
          PROVE  printed'[Depth - i + 1] = <<Here(i), Here(i + 1)>>
      <4>1. CASE i = q
        <5>1. Depth - i + 1 = Len(printed) + 1  BY <4>1, <3>1, <1>1, <1>2, <1>4
        <5> QED BY <4>1, <5>1, <3>2, <1>4
      <4>2. CASE i \in p..(Depth - 1)
        <5>1. Depth - i + 1 \in 1..Len(printed)  BY <4>2, <3>1, <1>1, <1>2
        <5> QED BY <4>2, <5>1, <3>1, <3>2
      <4> QED BY <4>1, <4>2, <1>4
    <3> QED BY <3>3, <3>4, <1>0, <1>9 DEF Printed
  <2>3. /\ j \in 1..Depth' /\ q \in 1..Depth' /\ j <= q /\ j < Depth'
        /\ now' = Here(q)' /\ target' = Here(j)' /\ <<Here(Depth)', target'>> \in history'
    BY <1>0, <1>2, <1>4, <1>6, <1>9
  <2> QED BY <2>2, <2>3, <1>7 DEF TraceInv
<1>11. TypeOK'
  <2>1. now' \in Ids \cup {NoNode} /\ printed' \in Seq(Ids \X Ids)
    <3>1. printed \in Seq(Ids \X Ids) /\ <<Here(q), Here(p)>> \in Ids \X Ids
      BY <1>0, <1>1, <1>2, <1>4 DEF TypeOK
    <3> QED BY <3>1, <1>1, <1>2, <1>4, <1>6
  <2>2. status' \in {"trace", "crash"}  BY <1>6
  <2> QED BY <2>1, <2>2, <1>0 DEF TypeOK
<1>12. status' \in {"trace", "crash"}  BY <1>6
<1> QED BY <1>8, <1>10, <1>11, <1>12 DEF IInv

\* When the loop of CheckCycle is over every node is finished.
LEMMA ReturnKeeps ==
  ASSUME IInv, Return
  PROVE  IInv'
<1>0. /\ TypeOK /\ SearchInv /\ status = "search" /\ frames = <<>> /\ lockId = LockCount
      /\ status' = "return"
      /\ UNCHANGED <<history, frames, lockId, discoveredCount, now, target, printed>>
  BY DEF IInv, Return
<1>1. Depth = 0  BY <1>0, FramesType
<1>2. \A n \in Ids : finished[n]
  <2> TAKE n \in Ids
  <2>1. n < lockId  BY <1>0, LockCountAssumption DEF Ids
  <2>2. Reached(n)  BY <2>1, <1>0 DEF SearchInv, RootInv
  <2>3. ~Open(n)  BY <1>0, <1>1 DEF SearchInv, StackInv
  <2> QED BY <2>2, <2>3 DEF Open
<1>3. Finished = Ids  BY <1>2 DEF Finished
<1>4. ~HasCycle(history, Ids)  BY <1>0, <1>3 DEF SearchInv, AcyclicInv
<1>5. ~HasCycle(history', Ids)  BY <1>0, <1>4
<1>6. TypeOK'  BY <1>0 DEF TypeOK
<1> QED BY <1>0, <1>5, <1>6 DEF IInv, HasCycle

\* The invariant of CheckCycle, for every number of locks and every history.
THEOREM Inductive == Spec => []IInv
<1>1. Init => IInv  BY InitIInv
<1>2. IInv /\ [Next]_vars => IInv'
  <2> SUFFICES ASSUME IInv, [Next]_vars PROVE IInv'  OBVIOUS
  <2>1. CASE Root      BY <2>1, RootKeeps
  <2>2. CASE Finish    BY <2>2, FinishKeeps
  <2>3. CASE Descend   BY <2>3, DescendKeeps
  <2>4. CASE Skip      BY <2>4, SkipKeeps
  <2>5. CASE BackEdge  BY <2>5, BackEdgeKeeps
  <2>6. CASE Trace     BY <2>6, TraceKeeps
  <2>7. CASE Return    BY <2>7, ReturnKeeps
  <2>8. CASE UNCHANGED vars
    <3>1. SearchInv => SearchInv'  BY <2>8, SearchStays DEF vars
    <3>2. TypeOK => TypeOK'  BY <2>8 DEF vars, TypeOK
    <3>3. TraceInv => TraceInv'  BY <2>8 DEF vars, TraceInv, Printed, Depth, Here
    <3>4. status' = status /\ history' = history  BY <2>8 DEF vars
    <3> QED BY <3>1, <3>2, <3>3, <3>4 DEF IInv, HasCycle
  <2> QED BY <2>1, <2>2, <2>3, <2>4, <2>5, <2>6, <2>7, <2>8 DEF Next
<1> QED BY <1>1, <1>2, PTL DEF Spec

\* The search's vectors keep their types; no node gets two numbers, so that
\* _discoveredCount never passes the number of locks.
THEOREM Typing == Spec => []TypeOK
<1>1. IInv => TypeOK  BY DEF IInv
<1> QED BY <1>1, Inductive, PTL

\* The frames from the one of target to the innermost are a cycle.
LEMMA FramesCycle ==
  ASSUME TypeOK, SearchInv, TraceInv
  PROVE  HasCycle(history, Ids)
<1>1. Depth \in Nat /\ \A i \in 1..Depth : Here(i) \in Ids  BY FramesType
<1>2. PICK j \in 1..Depth : j < Depth /\ target = Here(j) /\ <<Here(Depth), target>> \in history
  BY DEF TraceInv
<1> DEFINE S == {Here(i) : i \in j..Depth}
<1>3. S \in SUBSET Ids /\ S # {}
  <2>1. \A i \in j..Depth : i \in 1..Depth  BY <1>1
  <2>2. j \in j..Depth  BY <1>1, <1>2
  <2> QED BY <2>1, <2>2, <1>1
<1>4. ASSUME NEW a \in S  PROVE \E b \in S : <<a, b>> \in history
  <2>1. PICK i \in j..Depth : a = Here(i)  OBVIOUS
  <2>2. CASE i = Depth
    <3>1. Here(j) \in S
      <4>1. j \in j..Depth  BY <1>1, <1>2
      <4> QED BY <4>1
    <3> QED BY <2>1, <2>2, <3>1, <1>2
  <2>3. CASE i # Depth
    <3>1. i + 1 \in j..Depth /\ i + 1 \in 1..Depth /\ i + 1 > 1 /\ i + 1 - 1 = i
      BY <2>1, <2>3, <1>1
    <3>2. <<Here(i + 1 - 1), Here(i + 1)>> \in history  BY <3>1 DEF SearchInv, PathInv
    <3>3. <<Here(i), Here(i + 1)>> \in history /\ Here(i + 1) \in S  BY <3>1, <3>2
    <3> QED BY <2>1, <3>3
  <2> QED BY <2>2, <2>3
<1> HIDE DEF S
<1> QED BY <1>3, <1>4 DEF HasCycle

\* CheckCycle is exact: it reports a cycle if the history of the locks has
\* one, and returns if it has none.
THEOREM Exact == Spec => []ExactVerdict
<1>1. IInv => ExactVerdict
  <2> SUFFICES ASSUME IInv PROVE ExactVerdict  OBVIOUS
  <2>1. status \in {"trace", "crash"} => HasCycle(history, Ids)
    <3>1. status \in {"trace", "crash"} => TypeOK /\ SearchInv /\ TraceInv  BY DEF IInv
    <3> QED BY <3>1, FramesCycle
  <2> QED BY <2>1 DEF IInv, ExactVerdict
<1> QED BY <1>1, Inductive, PTL

\* What CheckCycle prints before the CRASH is one cycle of the history, edge after edge back
\* to where it started and through no lock twice, and the walk along _parent stays in the
\* vector (DeadLockProfiler.cpp:152-168).
THEOREM PrintsRight == Spec => []PrintsACycle
<1>1. ASSUME IInv, status = "crash", NEW n, n = Len(printed)
      PROVE  /\ n > 0
             /\ \A k \in 1..n : printed[k] \in history
             /\ \A k \in 1..n : printed[k][2] = printed[IF k = 1 THEN n ELSE k - 1][1]
             /\ \A k, l \in 1..n : k # l => printed[k][1] # printed[l][1]
  <2>0. TypeOK /\ SearchInv /\ TraceInv  BY <1>1 DEF IInv
  <2>1. /\ Depth \in Nat /\ \A i \in 1..Depth : Here(i) \in Ids
        /\ \A i, k \in 1..Depth : Here(i) = Here(k) => i = k
    BY <2>0, <1>1, FramesType, HeresApart DEF SearchInv
  <2>2. PICK j \in 1..Depth :
          /\ j < Depth /\ target = Here(j) /\ <<Here(Depth), target>> \in history
          /\ Printed(j)
    BY <2>0, <1>1 DEF TraceInv
  \* The frame whose edge is printed in place k.
  <2> DEFINE F(k) == Depth - k + 1
  <2>3. /\ n = Depth - j + 1 /\ n \in Nat /\ n > 0
        /\ printed[1] = <<Here(Depth), Here(j)>>
        /\ \A i \in j..(Depth - 1) : printed[Depth - i + 1] = <<Here(i), Here(i + 1)>>
    BY <1>1, <2>1, <2>2 DEF Printed
  <2>4. \A k \in 1..n : F(k) \in 1..Depth  BY <2>1, <2>2, <2>3
  <2>5. ASSUME NEW k \in 1..n, k # 1
        PROVE  printed[k] = <<Here(F(k)), Here(F(k) + 1)>>
    <3>1. F(k) \in j..(Depth - 1) /\ Depth - F(k) + 1 = k  BY <2>1, <2>2, <2>3, <2>5
    <3> QED BY <3>1, <2>3
  <2>6. \A k \in 1..n : printed[k][1] = Here(F(k))
    <3> TAKE k \in 1..n
    <3>1. CASE k = 1
      <4>1. F(k) = Depth  BY <3>1, <2>1
      <4> QED BY <3>1, <4>1, <2>3
    <3>2. CASE k # 1  BY <3>2, <2>5
    <3> QED BY <3>1, <3>2
  <2>7. ASSUME NEW k \in 1..n  PROVE printed[k] \in history
    <3>1. CASE k = 1  BY <3>1, <2>2, <2>3
    <3>2. CASE k # 1
      <4>1. PICK i : i = F(k) + 1  OBVIOUS
      <4>2. i \in 1..Depth /\ i > 1 /\ i - 1 = F(k)
        BY <4>1, <3>2, <2>1, <2>2, <2>3
      <4>3. <<Here(i - 1), Here(i)>> \in history  BY <4>2, <2>0 DEF SearchInv, PathInv
      <4>4. printed[k] = <<Here(F(k)), Here(F(k) + 1)>>  BY <3>2, <2>5
      <4> HIDE DEF F
      <4> QED BY <4>1, <4>2, <4>3, <4>4
    <3> QED BY <3>1, <3>2
  <2>8. ASSUME NEW k \in 1..n
        PROVE  printed[k][2] = printed[IF k = 1 THEN n ELSE k - 1][1]
    <3>1. CASE k = 1
      <4>1. n \in 1..n /\ F(n) = j  BY <2>1, <2>2, <2>3
      <4> QED BY <3>1, <4>1, <2>3, <2>6
    <3>2. CASE k # 1
      <4>1. k - 1 \in 1..n /\ F(k - 1) = F(k) + 1  BY <3>2, <2>1, <2>3
      <4>2. printed[k][2] = Here(F(k) + 1)  BY <3>2, <2>5
      <4> QED BY <3>2, <4>1, <4>2, <2>6
    <3> QED BY <3>1, <3>2
  <2>9. ASSUME NEW k \in 1..n, NEW l \in 1..n, k # l  PROVE printed[k][1] # printed[l][1]
    <3>1. F(k) # F(l)  BY <2>9, <2>1, <2>3
    <3> HIDE DEF F
    <3> QED BY <3>1, <2>1, <2>4, <2>6
  <2> HIDE DEF F
  <2> QED BY <2>3, <2>7, <2>8, <2>9
<1>2. IInv => PrintsACycle
  <2>1. IInv => status # "out of bounds"  BY DEF IInv
  <2> QED BY <1>1, <2>1 DEF PrintsACycle
<1> QED BY <1>2, Inductive, PTL
=============================================================================
