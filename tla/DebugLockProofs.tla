--------------------------- MODULE DebugLockProofs ---------------------------
(***************************************************************************)
(* Proofs about DebugLock: what the profiler's one stack says of all        *)
(* threads, and that the profiler stops every deadlock before it closes,    *)
(* for any number of threads, locks and nested guards.                      *)
(*                                                                          *)
(* Neighbours on the stack are linked in the history, and the history has   *)
(* no cycle while the process runs (ProfilerInv): so the stack never        *)
(* returns to a lock it has left.  The locks a waiting thread has are on    *)
(* the stack below the one it waits for, and stay there (OrderInv): so the  *)
(* thread of a circle whose lock is highest waits for nobody in it.         *)
(***************************************************************************)
EXTENDS DebugLock, FiniteSetTheorems, WellFoundedInduction, SequenceTheorems, TLAPS

\* The profiler: ids are those of one name each, the stack and the history are of ids,
\* neighbours are linked and the links have no cycle.
ProfilerType ==
  /\ nameToId \in [Names -> Int]
  /\ lockStack \in Seq(Ids(nameToId))
  /\ lockHistory \subseteq Ids(nameToId) \X Ids(nameToId)
IdInv ==
  /\ \A n \in Names : nameToId[n] # NoId => nameToId[n] \in Ids(nameToId)
  /\ \A m, n \in Names : nameToId[m] = nameToId[n] /\ nameToId[n] # NoId => m = n
Linked ==
  \A i, j \in 1..Len(lockStack) :
    j = i + 1 => lockStack[i] = lockStack[j] \/ <<lockStack[i], lockStack[j]>> \in lockHistory
Acyclic == ~HasCycle(lockHistory, Ids(nameToId))
ProfilerInv == ProfilerType /\ IdInv /\ Linked /\ Acyclic

\* The threads and their guards.
GuardType ==
  /\ held \in [Threads -> Seq(GuardSet)]
  /\ pc \in [Threads -> {"idle", "wait", "release", "dead"}]
  /\ want \in [Threads -> GuardSet \cup {NoGuard}]
  /\ \A t \in Threads :
       /\ Len(held[t]) <= MaxNest
       /\ pc[t] = "wait" => want[t] \in GuardSet /\ Len(held[t]) < MaxNest
       /\ pc[t] = "release" => held[t] # <<>>

\* The names of guards have been seen.
SeenInv ==
  \A t \in Threads :
    /\ pc[t] = "wait" => nameToId[Name[want[t].lock]] # NoId
    /\ \A i \in 1..Len(held[t]) : nameToId[Name[held[t][i].lock]] # NoId

\* An owner excludes the others, and waits for a write guard in write guards only.
Exclusion ==
  \A l \in Locks : \A t, u \in Threads : t # u /\ "W" \in Of(l)[t] => Of(l)[u] = {}
Policy ==
  \A t \in Threads : pc[t] = "wait" /\ want[t].kind = "W" => "R" \notin Of(want[t].lock)[t]

\* The id of a guard's lock.
IdOf(g) == nameToId[Name[g.lock]]

\* What a waiting thread has lies below what it waits for.
OrderInv ==
  \A t \in Threads : pc[t] = "wait" =>
    \A k \in 1..Len(held[t]) : IdOf(held[t][k]) # IdOf(want[t]) =>
      \A i, j \in 1..Len(lockStack) :
        lockStack[i] = IdOf(held[t][k]) /\ lockStack[j] = IdOf(want[t]) => i < j

\* What holds while the process runs.
Running ==
  ProfilerInv /\ GuardType /\ SeenInv /\ Exclusion /\ Policy /\ OrderInv /\ StackCounts

IInv == crash = "none" => Running

-----------------------------------------------------------------------------
(* Numbers, sequences and graphs.                                           *)

\* The order of Nat as a relation.
Less == {x \in Nat \X Nat : x[1] < x[2]}

LEMMA LessWellFounded == IsWellFoundedOn(Less, Nat)
<1>1. Less = OpToRel(<, Nat)  BY Zenon DEF Less, OpToRel
<1> QED BY <1>1, NatLessThanWellFounded, Zenon

LEMMA LeastOf ==
  ASSUME NEW S \in SUBSET Nat, S # {}
  PROVE  \E m \in S : \A n \in S : m <= n
<1>1. PICK m \in S : \A n \in S : <<n, m>> \notin Less  BY LessWellFounded, WFMin
<1>2. \A n \in S : m <= n
  <2> TAKE n \in S
  <2>1. n \in Nat /\ m \in Nat  OBVIOUS
  <2>2. ~(n < m)
    <3>1. <<n, m>> \in Nat \X Nat /\ <<n, m>>[1] = n /\ <<n, m>>[2] = m  BY <2>1
    <3>2. <<n, m>> \notin Less  BY <1>1
    <3> QED BY <3>1, <3>2, Zenon DEF Less
  <2> QED BY <2>1, <2>2
<1> QED BY <1>2

LEMMA GreatestOf ==
  ASSUME NEW b \in Nat, NEW S \in SUBSET (1..b), S # {}
  PROVE  \E m \in S : \A n \in S : n <= m
<1> DEFINE T == {b - n : n \in S}
<1>0. \A n \in S : n \in 1..b /\ n \in Int /\ b - n \in Nat  OBVIOUS
<1>1. T \in SUBSET Nat /\ T # {}  BY <1>0
<1>2. PICK x \in T : \A y \in T : x <= y
  <2> HIDE DEF T
  <2> QED BY <1>1, LeastOf
<1>3. PICK m \in S : x = b - m  BY <1>2
<1>4. \A n \in S : n <= m
  <2> TAKE n \in S
  <2>1. b - m <= b - n  BY <1>2, <1>3
  <2>2. n \in Int /\ m \in Int  BY <1>0
  <2> QED BY <2>1, <2>2
<1> QED BY <1>4

LEMMA Appended ==
  ASSUME NEW A, NEW s \in Seq(A), NEW x \in A
  PROVE  /\ Append(s, x) \in Seq(A) /\ Len(Append(s, x)) = Len(s) + 1 /\ Len(s) \in Nat
         /\ Append(s, x)[Len(s) + 1] = x
         /\ \A i \in 1..Len(s) : Append(s, x)[i] = s[i]
OBVIOUS

LEMMA Shortened ==
  ASSUME NEW A, NEW s \in Seq(A), s # <<>>
  PROVE  /\ SubSeq(s, 1, Len(s) - 1) \in Seq(A) /\ Len(SubSeq(s, 1, Len(s) - 1)) = Len(s) - 1
         /\ Len(s) \in Nat \ {0} /\ Len(s) \in 1..Len(s)
         /\ \A i \in 1..(Len(s) - 1) : SubSeq(s, 1, Len(s) - 1)[i] = s[i]
<1>1. Len(s) \in Nat /\ Len(s) # 0  OBVIOUS
<1> DEFINE n == Len(s) - 1
           r == SubSeq(s, 1, n)
<1>2. n \in Nat /\ Len(s) = n + 1 /\ \A i \in 1..n : s[i] \in A  BY <1>1
<1> HIDE DEF n
<1>3. /\ r \in Seq(A) /\ Len(r) = (IF 1 <= n THEN n - 1 + 1 ELSE 0)
      /\ \A i \in 1..(n - 1 + 1) : r[i] = s[1 + i - 1]
  BY <1>2, SubSeqProperties
<1> HIDE DEF r
<1>4. r \in Seq(A) /\ Len(r) = n /\ \A i \in 1..n : r[i] = s[i]  BY <1>2, <1>3
<1>5. n = Len(s) - 1 /\ Len(s) \in Nat \ {0} /\ Len(s) \in 1..Len(s)  BY <1>1, <1>2
<1> QED BY <1>4, <1>5 DEF r

\* The positions of a value in a sequence.
Positions(s, x) == {i \in 1..Len(s) : s[i] = x}

LEMMA PositionsFinite ==
  ASSUME NEW A, NEW s \in Seq(A), NEW x
  PROVE  IsFiniteSet(Positions(s, x)) /\ Cardinality(Positions(s, x)) \in Nat
<1> DEFINE P == Positions(s, x)
<1>1. Len(s) \in Int /\ P \subseteq 1..Len(s)  BY DEF Positions
<1>2. IsFiniteSet(1..Len(s))  BY <1>1, FS_Interval
<1> HIDE DEF P
<1>3. IsFiniteSet(P)  BY <1>1, <1>2, FS_Subset
<1>4. Cardinality(P) \in Nat  BY <1>3, FS_CardinalityType
<1> QED BY <1>3, <1>4 DEF P

LEMMA PositionsAppended ==
  ASSUME NEW A, NEW s \in Seq(A), NEW x \in A
  PROVE  /\ Cardinality(Positions(Append(s, x), x)) = Cardinality(Positions(s, x)) + 1
         /\ \A y : y # x => Positions(Append(s, x), y) = Positions(s, y)
<1> DEFINE n == Len(s) + 1
           r == Append(s, x)
<1>1. /\ Len(r) = n /\ n \in Nat \ {0} /\ r[n] = x /\ \A i \in 1..(n - 1) : r[i] = s[i]
      /\ Len(s) = n - 1
  BY Appended
<1> HIDE DEF n, r
<1>2. \A y : y # x => Positions(r, y) = Positions(s, y)  BY <1>1 DEF Positions
<1>3. Positions(r, x) = Positions(s, x) \cup {n} /\ n \notin Positions(s, x)
  BY <1>1 DEF Positions
<1> DEFINE P == Positions(s, x)
           Q == Positions(r, x)
<1>4. IsFiniteSet(P)  BY PositionsFinite
<1> HIDE DEF P, Q
<1>5. Q = P \cup {n} /\ n \notin P  BY <1>3 DEF P, Q
<1>6. Cardinality(Q) = Cardinality(P) + 1  BY <1>4, <1>5, FS_AddElement
<1> QED BY <1>2, <1>6 DEF P, Q, r

LEMMA PositionsShortened ==
  ASSUME NEW A, NEW s \in Seq(A), s # <<>>, NEW x, x = s[Len(s)]
  PROVE  /\ Cardinality(Positions(SubSeq(s, 1, Len(s) - 1), x)) = Cardinality(Positions(s, x)) - 1
         /\ \A y : y # x => Positions(SubSeq(s, 1, Len(s) - 1), y) = Positions(s, y)
<1> DEFINE n == Len(s)
           r == SubSeq(s, 1, n - 1)
<1>1. /\ Len(r) = n - 1 /\ n \in Nat \ {0} /\ s[n] = x /\ \A i \in 1..(n - 1) : r[i] = s[i]
      /\ Len(s) = n
  BY Shortened
<1> HIDE DEF n, r
<1>2. \A y : y # x => Positions(r, y) = Positions(s, y)  BY <1>1 DEF Positions
<1>3. Positions(r, x) = Positions(s, x) \ {n} /\ n \in Positions(s, x)
  BY <1>1 DEF Positions
<1> DEFINE P == Positions(s, x)
           Q == Positions(r, x)
<1>4. IsFiniteSet(P)  BY PositionsFinite
<1> HIDE DEF P, Q
<1>5. Q = P \ {n} /\ n \in P  BY <1>3 DEF P, Q
<1>6. Cardinality(Q) = Cardinality(P) - 1  BY <1>4, <1>5, FS_RemoveElement
<1> QED BY <1>2, <1>6 DEF P, Q, r, n

\* Nodes without links are on no cycle.
LEMMA CycleAmongLinked ==
  ASSUME NEW M, NEW N, NEW E, E \subseteq M \X M, ~HasCycle(E, M)
  PROVE  ~HasCycle(E, N)
<1> SUFFICES ASSUME NEW S \in (SUBSET N) \ {{}}, \A a \in S : \E b \in S : <<a, b>> \in E
             PROVE  FALSE
  BY DEF HasCycle
<1>1. S \in (SUBSET M) \ {{}}  OBVIOUS
<1> QED BY <1>1 DEF HasCycle

-----------------------------------------------------------------------------
(* The profiler.                                                            *)

\* A stack that leaves a lock does so along a link.
LEMMA Leaves ==
  ASSUME ProfilerInv, NEW i \in 1..Len(lockStack), NEW k \in 1..Len(lockStack), i < k,
         lockStack[i] # lockStack[k]
  PROVE  \E m \in (i + 1)..k : <<lockStack[i], lockStack[m]>> \in lockHistory
<1>1. Len(lockStack) \in Nat  BY DEF ProfilerInv, ProfilerType
<1> DEFINE S == {m \in i..k : lockStack[m] # lockStack[i]}
<1>2. S \in SUBSET Nat /\ k \in S  BY <1>1
<1>3. PICK m \in S : \A n \in S : m <= n
  <2> HIDE DEF S
  <2> QED BY <1>2, LeastOf
<1>4. m \in i..k /\ lockStack[m] # lockStack[i] /\ m # i  BY <1>3
<1>5. m - 1 \in i..k /\ m - 1 \in 1..Len(lockStack) /\ m \in 1..Len(lockStack) /\ m \in (i + 1)..k
  BY <1>1, <1>4
<1>6. lockStack[m - 1] = lockStack[i]
  <2>1. m - 1 \notin S  BY <1>3, <1>5
  <2> QED BY <1>5, <2>1
<1>7. m = m - 1 + 1  BY <1>5
<1>8. <<lockStack[m - 1], lockStack[m]>> \in lockHistory
  BY <1>4, <1>5, <1>6, <1>7 DEF ProfilerInv, Linked
<1> QED BY <1>5, <1>6, <1>8

\* As the links have no cycle, it does not return.
LEMMA Runs == ProfilerInv => StackRuns
<1> SUFFICES ASSUME ProfilerInv, NEW i \in 1..Len(lockStack), NEW j \in 1..Len(lockStack),
                    NEW k \in 1..Len(lockStack), i < j, j < k, lockStack[i] = lockStack[k],
                    lockStack[j] # lockStack[i]
             PROVE  FALSE
  BY DEF StackRuns
<1>1. /\ lockStack \in Seq(Ids(nameToId)) /\ Len(lockStack) \in Nat
  BY DEF ProfilerInv, ProfilerType
<1> DEFINE S == {lockStack[m] : m \in i..k}
<1>2. \A m \in i..k : m \in 1..Len(lockStack) /\ lockStack[m] \in Ids(nameToId)
  BY <1>1
<1>3. S \in (SUBSET Ids(nameToId)) \ {{}}
  <2>1. i \in i..k  BY <1>1
  <2> QED BY <1>2, <2>1
<1>4. \A a \in S : \E b \in S : <<a, b>> \in lockHistory
  <2> SUFFICES ASSUME NEW m \in i..k
               PROVE  \E n \in i..k : <<lockStack[m], lockStack[n]>> \in lockHistory
    OBVIOUS
  <2>1. CASE lockStack[m] = lockStack[i]
    <3>1. PICK n \in (i + 1)..j : <<lockStack[i], lockStack[n]>> \in lockHistory
      BY Leaves
    <3>2. n \in i..k  BY <1>1, <3>1
    <3> QED BY <2>1, <3>1, <3>2
  <2>2. CASE lockStack[m] # lockStack[i]
    <3>1. m < k /\ m \in 1..Len(lockStack) /\ lockStack[m] # lockStack[k]  BY <1>1, <2>2
    <3>2. PICK n \in (m + 1)..k : <<lockStack[m], lockStack[n]>> \in lockHistory
      BY <3>1, Leaves
    <3>3. n \in i..k  BY <1>1, <3>2
    <3> QED BY <3>2, <3>3
  <2> QED BY <2>1, <2>2
<1> HIDE DEF S
<1> QED BY <1>3, <1>4 DEF ProfilerInv, Acyclic, HasCycle

\* A new name takes the next id.
LEMMA NewName ==
  ASSUME ProfilerType, NEW n \in Names, nameToId[n] = NoId,
         NEW id, id = LockCount(nameToId), NEW f, f = [nameToId EXCEPT ![n] = id]
  PROVE  id \in Nat /\ Ids(nameToId) = 0..(id - 1) /\ Ids(f) = 0..id
<1> DEFINE S == {m \in Names : nameToId[m] # NoId}
           T == {m \in Names : f[m] # NoId}
<1>1. nameToId \in [Names -> Int]  BY DEF ProfilerType
<1>2. IsFiniteSet(S) /\ n \notin S
  <2>1. S \in SUBSET Names /\ n \notin S  OBVIOUS
  <2> HIDE DEF S
  <2> QED BY <2>1, FS_Subset, FiniteAssumption
<1>3. id = Cardinality(S)  BY DEF LockCount
<1>4. id \in Nat
  <2> HIDE DEF S
  <2> QED BY <1>2, <1>3, FS_CardinalityType
<1>5. T = S \cup {n}
  <2>1. f[n] = id /\ \A m \in Names : m # n => f[m] = nameToId[m]  BY <1>1
  <2>2. id # NoId  BY <1>4 DEF NoId
  <2> QED BY <2>1, <2>2
<1>6. Cardinality(T) = id + 1
  <2> HIDE DEF S, T
  <2> QED BY <1>2, <1>3, <1>5, FS_AddElement
<1>7. LockCount(nameToId) = id /\ LockCount(f) = id + 1  BY <1>6 DEF LockCount
<1>8. id + 1 - 1 = id  BY <1>4
<1> QED BY <1>4, <1>7, <1>8 DEF Ids

\* A PushLock that returns.
LEMMA Pushes ==
  ASSUME ProfilerInv, NEW n \in Names, PushLock(n), crash' = "none"
  PROVE  /\ ProfilerInv'
         /\ nameToId'[n] \in Ids(nameToId') /\ Ids(nameToId) \subseteq Ids(nameToId')
         /\ nameToId'[n] # NoId
         /\ lockStack' = Append(lockStack, nameToId'[n])
         /\ \A m \in Names : m # n => nameToId'[m] = nameToId[m]
         /\ IF nameToId[n] = NoId THEN nameToId'[n] \notin Ids(nameToId)
                                  ELSE nameToId'[n] = nameToId[n]
<1> DEFINE id == IF nameToId[n] = NoId THEN LockCount(nameToId) ELSE nameToId[n]
<1>1. ProfilerType /\ IdInv /\ Linked /\ Acyclic  BY DEF ProfilerInv
<1>2. /\ nameToId' = [nameToId EXCEPT ![n] = id]
      /\ lockHistory' = lockHistory \cup NewEdge(id)
      /\ ~(NewEdge(id) # {} /\ HasCycle(lockHistory', Ids(nameToId')))
      /\ lockStack' = Append(lockStack, id)
  BY DEF PushLock
<1>3. /\ nameToId'[n] = id /\ \A m \in Names : m # n => nameToId'[m] = nameToId[m]
  BY <1>1, <1>2 DEF ProfilerType
<1>4. /\ id \in Int /\ id \in Ids(nameToId') /\ Ids(nameToId) \subseteq Ids(nameToId')
      /\ id # NoId /\ (nameToId[n] = NoId => id \notin Ids(nameToId))
  <2>1. CASE nameToId[n] = NoId
    <3>1. id = LockCount(nameToId)  BY <2>1
    <3>2. id \in Nat /\ Ids(nameToId) = 0..(id - 1) /\ Ids(nameToId') = 0..id
      BY <1>1, <1>2, <2>1, <3>1, NewName
    <3> HIDE DEF id
    <3> QED BY <3>2 DEF NoId
  <2>2. CASE nameToId[n] # NoId
    <3>1. id = nameToId[n] /\ id \in Int /\ id \in Ids(nameToId)  BY <1>1, <2>2 DEF ProfilerType, IdInv
    <3>2. nameToId' = nameToId  BY <1>1, <1>2, <3>1 DEF ProfilerType
    <3> QED BY <2>2, <3>1, <3>2
  <2> QED BY <2>1, <2>2
<1>5. nameToId[n] # NoId => id = nameToId[n]  OBVIOUS
<1> HIDE DEF id
<1>6. /\ lockStack \in Seq(Ids(nameToId')) /\ lockStack \in Seq(Ids(nameToId))
  BY <1>1, <1>4 DEF ProfilerType
<1>7. /\ lockStack' \in Seq(Ids(nameToId')) /\ Len(lockStack') = Len(lockStack) + 1
      /\ Len(lockStack) \in Nat
      /\ lockStack'[Len(lockStack) + 1] = id
      /\ \A i \in 1..Len(lockStack) : lockStack'[i] = lockStack[i]
  BY <1>2, <1>4, <1>6, Appended
<1>8. lockHistory' \subseteq Ids(nameToId') \X Ids(nameToId')
  <2>1. NewEdge(id) \subseteq Ids(nameToId') \X Ids(nameToId')
    <3>1. CASE lockStack = <<>>  BY <3>1 DEF NewEdge
    <3>2. CASE lockStack # <<>>
      <4>1. lockStack[Len(lockStack)] \in Ids(nameToId')  BY <1>6, <3>2
      <4> QED BY <1>4, <4>1 DEF NewEdge
    <3> QED BY <3>1, <3>2
  <2>2. lockHistory \subseteq Ids(nameToId') \X Ids(nameToId')
    BY <1>1, <1>4 DEF ProfilerType
  <2> QED BY <1>2, <2>1, <2>2
<1>9. ProfilerType'
  <2>1. nameToId' \in [Names -> Int]  BY <1>1, <1>2, <1>4 DEF ProfilerType
  <2> QED BY <1>7, <1>8, <2>1 DEF ProfilerType
<1>10. IdInv'
  <2>1. ASSUME NEW m \in Names, nameToId'[m] # NoId PROVE nameToId'[m] \in Ids(nameToId')
    BY <1>1, <1>3, <1>4, <2>1 DEF IdInv
  <2>2. ASSUME NEW m \in Names, m # n, nameToId'[m] = id PROVE FALSE
    <3>1. nameToId[m] = id /\ id # NoId /\ id \in Ids(nameToId)  BY <1>1, <1>3, <1>4, <2>2 DEF IdInv
    <3>2. id = nameToId[n]  BY <1>4, <1>5, <3>1
    <3> QED BY <1>1, <2>2, <3>1, <3>2 DEF IdInv
  <2>3. ASSUME NEW m \in Names, NEW k \in Names, nameToId'[m] = nameToId'[k], nameToId'[k] # NoId
        PROVE  m = k
    BY <1>1, <1>3, <2>2, <2>3 DEF IdInv
  <2> QED BY <2>1, <2>3 DEF IdInv
<1>11. Linked'
  <2> SUFFICES ASSUME NEW i \in 1..(Len(lockStack) + 1), NEW j \in 1..(Len(lockStack) + 1),
                      j = i + 1
               PROVE  \/ lockStack'[i] = lockStack'[j]
                      \/ <<lockStack'[i], lockStack'[j]>> \in lockHistory'
    BY <1>7 DEF Linked
  <2>1. i \in 1..Len(lockStack)  BY <1>7
  <2>2. CASE j \in 1..Len(lockStack)
    BY <1>1, <1>2, <1>7, <2>1, <2>2 DEF Linked
  <2>3. CASE j \notin 1..Len(lockStack)
    <3>1. i = Len(lockStack) /\ j = Len(lockStack) + 1  BY <1>7, <2>1, <2>3
    <3>2. lockStack'[i] = lockStack[Len(lockStack)] /\ lockStack'[j] = id  BY <1>7, <2>1, <3>1
    <3>3. lockStack # <<>>  BY <2>1
    <3> QED BY <1>2, <3>2, <3>3 DEF NewEdge
  <2> QED BY <2>2, <2>3
<1>12. Acyclic'
  <2>1. CASE NewEdge(id) # {}  BY <1>2, <2>1 DEF Acyclic
  <2>2. CASE NewEdge(id) = {}
    <3>1. lockHistory' = lockHistory  BY <1>2, <2>2
    <3>2. lockHistory \subseteq Ids(nameToId) \X Ids(nameToId)  BY <1>1 DEF ProfilerType
    <3>3. ~HasCycle(lockHistory, Ids(nameToId'))
      BY <1>1, <3>2, CycleAmongLinked DEF Acyclic
    <3> QED BY <3>1, <3>3 DEF Acyclic
  <2> QED BY <2>1, <2>2
<1> QED BY <1>2, <1>3, <1>4, <1>5, <1>9, <1>10, <1>11, <1>12 DEF ProfilerInv

\* A PopLock that returns, of a name that has been seen.
LEMMA Pops ==
  ASSUME ProfilerInv, NEW n \in Names, nameToId[n] # NoId, PopLock(n), crash' = "none",
         crash = "none"
  PROVE  /\ ProfilerInv' /\ UNCHANGED <<nameToId, lockHistory>>
         /\ lockStack # <<>> /\ lockStack[Len(lockStack)] = nameToId[n]
         /\ lockStack' = SubSeq(lockStack, 1, Len(lockStack) - 1)
<1>1. ProfilerType /\ IdInv /\ Linked /\ Acyclic  BY DEF ProfilerInv
<1>2. /\ lockStack # <<>> /\ lockStack[Len(lockStack)] = nameToId[n]
      /\ nameToId' = [nameToId EXCEPT ![n] = nameToId[n]]
      /\ lockStack' = SubSeq(lockStack, 1, Len(lockStack) - 1)
      /\ lockHistory' = lockHistory
  BY DEF PopLock
<1>3. nameToId' = nameToId  BY <1>1, <1>2 DEF ProfilerType
<1>4. /\ lockStack' \in Seq(Ids(nameToId)) /\ Len(lockStack') = Len(lockStack) - 1
      /\ Len(lockStack) \in Nat
      /\ \A i \in 1..(Len(lockStack) - 1) : lockStack'[i] = lockStack[i]
  BY <1>1, <1>2, Shortened DEF ProfilerType
<1>5. \A i \in 1..(Len(lockStack) - 1) : i \in 1..Len(lockStack)  BY <1>4
<1>6. Linked'
  <2> SUFFICES ASSUME NEW i \in 1..(Len(lockStack) - 1), NEW j \in 1..(Len(lockStack) - 1),
                      j = i + 1
               PROVE  \/ lockStack'[i] = lockStack'[j]
                      \/ <<lockStack'[i], lockStack'[j]>> \in lockHistory'
    BY <1>4 DEF Linked
  <2> QED BY <1>1, <1>2, <1>4, <1>5 DEF Linked
<1>7. ProfilerType'  BY <1>1, <1>2, <1>3, <1>4 DEF ProfilerType
<1>8. IdInv'  BY <1>1, <1>3 DEF IdInv
<1>9. Acyclic'
  <2>1. ~HasCycle(lockHistory, Ids(nameToId))  BY <1>1 DEF Acyclic
  <2> QED BY <1>2, <1>3, <2>1 DEF Acyclic
<1> QED BY <1>2, <1>3, <1>6, <1>7, <1>8, <1>9 DEF ProfilerInv

-----------------------------------------------------------------------------
(* Counting guards.                                                         *)

\* The guards of name n that are alive and not in PopLock's past, and the threads that
\* wait for one.
Counted(h, labels, n) ==
  {p \in Threads \X (1..MaxNest) :
     /\ p[2] <= Len(h[p[1]])
     /\ Name[h[p[1]][p[2]].lock] = n
     /\ ~(labels[p[1]] = "release" /\ p[2] = Len(h[p[1]]))}
Waiting(labels, w, n) == {t \in Threads : labels[t] = "wait" /\ Name[w[t].lock] = n}

LEMMA CountsMeans ==
  StackCounts <=>
    \A n \in Names :
      Cardinality(Positions(lockStack, nameToId[n])) =
        Cardinality(Counted(held, pc, n)) + Cardinality(Waiting(pc, want, n))
BY DEF StackCounts, Positions, Counted, Waiting

LEMMA CountedFinite ==
  ASSUME NEW h, NEW labels, NEW w, NEW n
  PROVE  /\ IsFiniteSet(Counted(h, labels, n)) /\ Cardinality(Counted(h, labels, n)) \in Nat
         /\ IsFiniteSet(Waiting(labels, w, n)) /\ Cardinality(Waiting(labels, w, n)) \in Nat
<1> DEFINE C == Counted(h, labels, n)
           W == Waiting(labels, w, n)
           D == Threads \X (1..MaxNest)
<1>1. C \in SUBSET D /\ W \in SUBSET Threads  BY DEF Counted, Waiting
<1>2. IsFiniteSet(1..MaxNest)  BY NestAssumption, FS_Interval
<1>3. IsFiniteSet(D)  BY <1>2, FiniteAssumption, FS_Product
<1> HIDE DEF C, W, D
<1>4. IsFiniteSet(C) /\ IsFiniteSet(W)  BY <1>1, <1>3, FiniteAssumption, FS_Subset
<1>5. Cardinality(C) \in Nat /\ Cardinality(W) \in Nat  BY <1>4, FS_CardinalityType
<1> QED BY <1>4, <1>5 DEF C, W

LEMMA PairSets ==
  ASSUME NEW S, NEW T, NEW X \in SUBSET (S \X T), NEW Y \in SUBSET (S \X T),
         \A u \in S, i \in T : <<u, i>> \in X <=> <<u, i>> \in Y
  PROVE  X = Y
OBVIOUS

LEMMA AddOne ==
  ASSUME NEW S, NEW T, NEW x, IsFiniteSet(S), T = S \cup {x}, x \notin S
  PROVE  Cardinality(T) = Cardinality(S) + 1
BY FS_AddElement

LEMMA RemoveOne ==
  ASSUME NEW S, NEW T, NEW x, IsFiniteSet(S), T = S \ {x}, x \in S
  PROVE  Cardinality(T) = Cardinality(S) - 1
BY FS_RemoveElement

\* What a thread has or waits for is on the stack.
LEMMA Present ==
  ASSUME ProfilerInv, GuardType, StackCounts, NEW u \in Threads
  PROVE  /\ pc[u] = "wait" => \E i \in 1..Len(lockStack) : lockStack[i] = IdOf(want[u])
         /\ pc[u] # "release" =>
              \A k \in 1..Len(held[u]) : \E i \in 1..Len(lockStack) : lockStack[i] = IdOf(held[u][k])
<1>1. ASSUME NEW n \in Names, Counted(held, pc, n) # {} \/ Waiting(pc, want, n) # {}
      PROVE  \E i \in 1..Len(lockStack) : lockStack[i] = nameToId[n]
  <2> DEFINE P == Positions(lockStack, nameToId[n])
             C == Counted(held, pc, n)
             W == Waiting(pc, want, n)
  <2>1. IsFiniteSet(P) /\ Cardinality(P) \in Nat
    BY PositionsFinite DEF ProfilerInv, ProfilerType
  <2>2. /\ IsFiniteSet(C) /\ Cardinality(C) \in Nat /\ IsFiniteSet(W) /\ Cardinality(W) \in Nat
    BY CountedFinite
  <2>3. Cardinality(P) = Cardinality(C) + Cardinality(W)  BY CountsMeans
  <2>4. C # {} \/ W # {}  BY <1>1
  <2> HIDE DEF P, C, W
  <2>5. Cardinality(C) # 0 \/ Cardinality(W) # 0  BY <2>2, <2>4, FS_EmptySet
  <2>6. P # {}  BY <2>1, <2>2, <2>3, <2>5, FS_EmptySet
  <2> QED BY <2>6 DEF P, Positions
<1>2. ASSUME pc[u] = "wait" PROVE \E i \in 1..Len(lockStack) : lockStack[i] = IdOf(want[u])
  <2>1. want[u] \in GuardSet  BY <1>2 DEF GuardType
  <2>2. Name[want[u].lock] \in Names  BY <2>1, NameAssumption DEF GuardSet
  <2>3. u \in Waiting(pc, want, Name[want[u].lock])  BY <1>2 DEF Waiting
  <2> QED BY <1>1, <2>2, <2>3 DEF IdOf
<1>3. ASSUME pc[u] # "release", NEW k \in 1..Len(held[u])
      PROVE  \E i \in 1..Len(lockStack) : lockStack[i] = IdOf(held[u][k])
  <2>1. /\ held[u] \in Seq(GuardSet) /\ Len(held[u]) <= MaxNest /\ MaxNest \in Nat
    BY NestAssumption DEF GuardType
  <2>2. k \in 1..MaxNest /\ held[u][k] \in GuardSet /\ k <= Len(held[u])  BY <2>1
  <2>3. Name[held[u][k].lock] \in Names  BY <2>2, NameAssumption DEF GuardSet
  <2>4. <<u, k>> \in Counted(held, pc, Name[held[u][k].lock])
    <3> DEFINE n == Name[held[u][k].lock]
    <3>1. Name[held[u][k].lock] = n  OBVIOUS
    <3> HIDE DEF n
    <3>2. <<u, k>> \in Counted(held, pc, n)  BY <1>3, <2>2, <3>1, NestAssumption DEF Counted
    <3> QED BY <3>2 DEF n
  <2> QED BY <1>1, <2>3, <2>4 DEF IdOf
<1> QED BY <1>2, <1>3

LEMMA Absent ==
  ASSUME NEW A, NEW s \in Seq(A), NEW x, x \notin A
  PROVE  Positions(s, x) = {} /\ Cardinality(Positions(s, x)) = 0
<1>1. Positions(s, x) = {}  BY DEF Positions
<1> QED BY <1>1, FS_EmptySet

\* The cases in which nothing is counted differently.
LEMMA CountedSame ==
  ASSUME NEW h, NEW l, NEW m, NEW n,
         \A u \in Threads : l[u] = "release" <=> m[u] = "release"
  PROVE  Counted(h, l, n) = Counted(h, m, n)
<1> DEFINE X == Counted(h, l, n)
           Y == Counted(h, m, n)
<1>1. ASSUME NEW u \in Threads, NEW i \in 1..MaxNest
      PROVE  <<u, i>> \in X <=> <<u, i>> \in Y
  <2>1. <<u, i>> \in X <=>
          /\ i <= Len(h[u]) /\ Name[h[u][i].lock] = n
          /\ ~(l[u] = "release" /\ i = Len(h[u]))
    BY DEF Counted
  <2>2. <<u, i>> \in Y <=>
          /\ i <= Len(h[u]) /\ Name[h[u][i].lock] = n
          /\ ~(m[u] = "release" /\ i = Len(h[u]))
    BY DEF Counted
  <2> QED BY <2>1, <2>2
<1>2. X \in SUBSET (Threads \X (1..MaxNest)) /\ Y \in SUBSET (Threads \X (1..MaxNest))
  BY DEF Counted
<1> HIDE DEF X, Y
<1>3. X = Y  BY <1>1, <1>2, PairSets
<1> QED BY <1>3 DEF X, Y

-----------------------------------------------------------------------------
(* The steps.                                                               *)

LEMMA InitIInv == Init => IInv
<1> SUFFICES ASSUME Init PROVE IInv  OBVIOUS
<1>1. ProfilerInv
  <2>1. \A n \in Names : nameToId[n] = NoId  BY DEF Init, ProfilerInit
  <2>2. lockStack = <<>> /\ lockHistory = {} /\ Len(lockStack) = 0
    BY DEF Init, ProfilerInit
  <2>3. ProfilerType
    <3>1. nameToId \in [Names -> Int]  BY DEF Init, ProfilerInit, NoId
    <3> QED BY <2>2, <3>1 DEF ProfilerType
  <2>4. IdInv /\ Linked  BY <2>1, <2>2 DEF IdInv, Linked
  <2>5. Acyclic  BY <2>2 DEF Acyclic, HasCycle
  <2> QED BY <2>3, <2>4, <2>5 DEF ProfilerInv
<1>2. \A t \in Threads : held[t] = <<>> /\ Len(held[t]) = 0 /\ pc[t] = "idle"
  BY DEF Init
<1>3. GuardType
  <2>1. <<>> \in Seq(GuardSet)  OBVIOUS
  <2>2. /\ held \in [Threads -> Seq(GuardSet)]
        /\ pc \in [Threads -> {"idle", "wait", "release", "dead"}]
        /\ want \in [Threads -> GuardSet \cup {NoGuard}]
    BY <2>1 DEF Init
  <2> QED BY <1>2, <2>2, NestAssumption DEF GuardType
<1>4. SeenInv /\ Policy /\ OrderInv  BY <1>2 DEF SeenInv, Policy, OrderInv
<1>5. Exclusion
  <2>1. \A l \in Locks, t \in Threads : Of(l)[t] = {}  BY <1>2 DEF Of
  <2> QED BY <2>1 DEF Exclusion
<1>6. StackCounts
  <2> SUFFICES ASSUME NEW n \in Names
               PROVE  Cardinality(Positions(lockStack, nameToId[n])) =
                        Cardinality(Counted(held, pc, n)) + Cardinality(Waiting(pc, want, n))
    BY CountsMeans
  <2>1. Positions(lockStack, nameToId[n]) = {}  BY DEF Init, ProfilerInit, Positions
  <2>2. Counted(held, pc, n) = {}  BY <1>2 DEF Counted
  <2>3. Waiting(pc, want, n) = {}  BY <1>2 DEF Waiting
  <2> QED BY <2>1, <2>2, <2>3, FS_EmptySet
<1> QED BY <1>1, <1>3, <1>4, <1>5, <1>6 DEF IInv, Running

\* The kinds held depend on the guards alone.
LEMMA OfSame == ASSUME held' = held, NEW l PROVE Of(l)' = Of(l)
BY DEF Of

\* A thread asks for a guard.
LEMMA RequestKeeps ==
  ASSUME Running, NEW t \in Threads, NEW g \in GuardSet, Request(t, g), crash' = "none"
  PROVE  Running'
<1> DEFINE n == Name[g.lock]
           id == nameToId'[n]
           top == Len(lockStack) + 1
<1>1. ProfilerInv /\ GuardType /\ SeenInv /\ Exclusion /\ Policy /\ OrderInv /\ StackCounts
  BY DEF Running
<1>2. n \in Names /\ g.lock \in Locks  BY NameAssumption DEF GuardSet
<1>3. /\ pc[t] = "idle" /\ Len(held[t]) < MaxNest
      /\ g.kind = "W" => "R" \notin Of(g.lock)[t]
      /\ PushLock(n)
      /\ pc' = [pc EXCEPT ![t] = "wait"] /\ want' = [want EXCEPT ![t] = g] /\ held' = held
  BY DEF Request
<1>4. /\ ProfilerInv' /\ id \in Ids(nameToId') /\ Ids(nameToId) \subseteq Ids(nameToId')
      /\ id # NoId /\ lockStack' = Append(lockStack, id)
      /\ \A m \in Names : m # n => nameToId'[m] = nameToId[m]
      /\ IF nameToId[n] = NoId THEN id \notin Ids(nameToId) ELSE id = nameToId[n]
  BY <1>1, <1>2, <1>3, Pushes
<1>5. lockStack \in Seq(Ids(nameToId')) /\ lockStack \in Seq(Ids(nameToId))
  BY <1>1, <1>4 DEF ProfilerInv, ProfilerType
<1>6. /\ Len(lockStack') = top /\ Len(lockStack) \in Nat /\ lockStack'[top] = id
      /\ \A i \in 1..Len(lockStack) : lockStack'[i] = lockStack[i]
  BY <1>4, <1>5, Appended
<1>7. /\ pc'[t] = "wait" /\ want'[t] = g
      /\ \A u \in Threads : u # t => pc'[u] = pc[u] /\ want'[u] = want[u]
  BY <1>1, <1>3 DEF GuardType
<1>8. \A m \in Names : nameToId[m] # NoId => nameToId'[m] = nameToId[m] /\ nameToId'[m] # NoId
  BY <1>4
<1>9. GuardType'  BY <1>1, <1>3, <1>7 DEF GuardType
<1>10. \A u \in Threads : \A i \in 1..Len(held[u]) : Name[held[u][i].lock] \in Names
  <2>1. \A u \in Threads : \A i \in 1..Len(held[u]) : held[u][i] \in GuardSet
    BY <1>1 DEF GuardType
  <2> QED BY <2>1, NameAssumption DEF GuardSet
<1>11. \A u \in Threads : pc[u] = "wait" => Name[want[u].lock] \in Names
  BY <1>1, NameAssumption DEF GuardType, GuardSet
<1>12. SeenInv'
  BY <1>1, <1>3, <1>4, <1>7, <1>8, <1>10, <1>11 DEF SeenInv
<1>13. Exclusion'  BY <1>1, <1>3, OfSame DEF Exclusion
<1>14. Policy'
  <2> SUFFICES ASSUME NEW u \in Threads, pc'[u] = "wait", want'[u].kind = "W",
                      NEW l, l = want'[u].lock
               PROVE  "R" \notin Of(l)'[u]
    BY DEF Policy, Of
  <2>1. Of(l)' = Of(l)  BY <1>3, OfSame
  <2> QED BY <1>1, <1>3, <1>7, <2>1 DEF Policy
<1>15. OrderInv'
  <2> SUFFICES ASSUME NEW u \in Threads, pc'[u] = "wait", NEW k \in 1..Len(held[u]),
                      NEW h, NEW w, h = nameToId'[Name[held[u][k].lock]],
                      w = nameToId'[Name[want'[u].lock]], h # w,
                      NEW i \in 1..top, NEW j \in 1..top, lockStack'[i] = h, lockStack'[j] = w
               PROVE  i < j
    BY <1>3, <1>6 DEF OrderInv, IdOf
  <2>1. StackRuns'  BY <1>4, Runs, PTL
  <2>2. \A a, b, c \in 1..top :
          a < b /\ b < c /\ lockStack'[a] = lockStack'[c] => lockStack'[b] = lockStack'[a]
    BY <1>6, <2>1 DEF StackRuns
  <2>3. /\ top \in 1..top /\ \A a \in 1..top : a # top => a \in 1..Len(lockStack) /\ a < top
        /\ \A a \in 1..Len(lockStack) : a \in 1..top
    BY <1>6
  <2>4. i # j /\ i \in Int /\ j \in Int  OBVIOUS
  <2>5. CASE u = t
    <3>1. w = id  BY <1>7, <2>5
    <3>2. i # top /\ i < top  BY <1>6, <2>3, <3>1
    <3>3. ~(j < i)  BY <1>6, <2>2, <2>3, <3>1, <3>2
    <3> QED BY <2>4, <3>3
  <2>6. CASE u # t
    <3>1. pc[u] = "wait" /\ want'[u] = want[u]  BY <1>7, <2>6
    <3>2. h = IdOf(held[u][k]) /\ w = IdOf(want[u])
      BY <1>1, <1>8, <1>10, <1>11, <3>1 DEF SeenInv, IdOf
    <3>3. CASE i # top /\ j # top
      BY <1>1, <1>6, <2>3, <3>1, <3>2, <3>3 DEF OrderInv
    <3>4. CASE j = top  BY <2>3, <2>4, <3>4
    <3>5. CASE i = top
      <4>1. PICK a \in 1..Len(lockStack) : lockStack[a] = h
        BY <1>1, <3>1, <3>2, Present
      <4>2. j \in 1..Len(lockStack) /\ j < top  BY <2>3, <2>4, <3>5
      <4>3. a < j
        BY <1>1, <1>6, <3>1, <3>2, <4>1, <4>2 DEF OrderInv
      <4>4. lockStack'[a] = h /\ lockStack'[top] = h /\ a \in 1..top
        BY <1>6, <2>3, <3>5, <4>1
      <4>5. lockStack'[j] = h  BY <2>2, <2>3, <4>2, <4>3, <4>4
      <4> QED BY <4>5
    <3> QED BY <3>3, <3>4, <3>5
  <2> QED BY <2>5, <2>6
<1>16. StackCounts'
  <2> SUFFICES ASSUME NEW m \in Names
               PROVE  Cardinality(Positions(lockStack', nameToId'[m])) =
                        Cardinality(Counted(held', pc', m)) + Cardinality(Waiting(pc', want', m))
    BY DEF StackCounts, Positions, Counted, Waiting
  <2>1. Counted(held', pc', m) = Counted(held, pc, m)
    <3>1. \A u \in Threads : pc'[u] = "release" <=> pc[u] = "release"  BY <1>3, <1>7
    <3>2. Counted(held, pc', m) = Counted(held, pc, m)  BY <3>1, CountedSame
    <3> QED BY <1>3, <3>2
  <2>2. Cardinality(Positions(lockStack, nameToId[m])) =
          Cardinality(Counted(held, pc, m)) + Cardinality(Waiting(pc, want, m))
    BY <1>1, CountsMeans
  <2>3. /\ Cardinality(Counted(held, pc, m)) \in Nat /\ IsFiniteSet(Waiting(pc, want, m))
        /\ Cardinality(Waiting(pc, want, m)) \in Nat
    BY CountedFinite
  <2>4. CASE m = n
    <3>1. Waiting(pc', want', m) = Waiting(pc, want, m) \cup {t} /\ t \notin Waiting(pc, want, m)
      BY <1>3, <1>7, <2>4 DEF Waiting
    <3>2. Cardinality(Waiting(pc', want', m)) = Cardinality(Waiting(pc, want, m)) + 1
      BY <2>3, <3>1, AddOne
    <3>3. Cardinality(Positions(lockStack', id)) = Cardinality(Positions(lockStack, id)) + 1
      BY <1>4, <1>5, PositionsAppended
    <3>4. Cardinality(Positions(lockStack, id)) = Cardinality(Positions(lockStack, nameToId[n]))
      <4>1. CASE nameToId[n] = NoId
        <5>1. NoId \notin Ids(nameToId) /\ id \notin Ids(nameToId)
          BY <1>4, <4>1 DEF Ids, NoId
        <5>2. /\ Cardinality(Positions(lockStack, id)) = 0
              /\ Cardinality(Positions(lockStack, NoId)) = 0
          BY <1>5, <5>1, Absent
        <5> QED BY <4>1, <5>2
      <4>2. CASE nameToId[n] # NoId  BY <1>4, <4>2
      <4> QED BY <4>1, <4>2
    <3> QED BY <2>1, <2>2, <2>3, <2>4, <3>2, <3>3, <3>4
  <2>5. CASE m # n
    <3>1. Waiting(pc', want', m) = Waiting(pc, want, m)
      BY <1>3, <1>7, <2>5 DEF Waiting
    <3>2. nameToId'[m] = nameToId[m] /\ nameToId[m] # id
      BY <1>2, <1>4, <2>5 DEF ProfilerInv, IdInv
    <3>3. Positions(lockStack', nameToId[m]) = Positions(lockStack, nameToId[m])
      BY <1>4, <1>5, <3>2, PositionsAppended
    <3> QED BY <2>1, <2>2, <3>1, <3>2, <3>3
  <2> QED BY <2>4, <2>5
<1> QED BY <1>4, <1>9, <1>12, <1>13, <1>14, <1>15, <1>16 DEF Running

\* What LockSpec's conditions say.
LEMMA GrantedMeans ==
  ASSUME NEW t \in Threads, NEW g \in GuardSet
  PROVE  Granted(t, g) <=>
           IF g.kind = "W"
             THEN "W" \in Of(g.lock)[t] \/ \A u \in Threads : Of(g.lock)[u] = {}
             ELSE \A u \in Threads : u # t => "W" \notin Of(g.lock)[u]
BY DEF Granted, L!CanWrite, L!CanRead

\* A waiting thread gets its guard.
LEMMA AcquireKeeps ==
  ASSUME Running, NEW t \in Threads, Acquire(t)
  PROVE  Running'
<1> DEFINE g == want[t]
           top == Len(held[t]) + 1
<1>1. ProfilerInv /\ GuardType /\ SeenInv /\ Exclusion /\ Policy /\ OrderInv /\ StackCounts
  BY DEF Running
<1>2. /\ pc[t] = "wait" /\ Granted(t, g) /\ held' = [held EXCEPT ![t] = Append(held[t], g)]
      /\ pc' = [pc EXCEPT ![t] = "idle"] /\ want' = [want EXCEPT ![t] = NoGuard]
      /\ UNCHANGED <<nameToId, lockStack, lockHistory>>
  BY DEF Acquire, profilerVars
<1>3. /\ g \in GuardSet /\ held[t] \in Seq(GuardSet) /\ Len(held[t]) < MaxNest
  BY <1>1, <1>2 DEF GuardType
<1>4. g.lock \in Locks /\ g.kind \in {"R", "W"}  BY <1>3 DEF GuardSet
<1>5. /\ held'[t] = Append(held[t], g) /\ pc'[t] = "idle"
      /\ \A u \in Threads : u # t => held'[u] = held[u] /\ pc'[u] = pc[u] /\ want'[u] = want[u]
  BY <1>1, <1>2 DEF GuardType
<1>6. /\ held'[t] \in Seq(GuardSet) /\ Len(held'[t]) = top /\ Len(held[t]) \in Nat
      /\ held'[t][top] = g /\ \A i \in 1..Len(held[t]) : held'[t][i] = held[t][i]
  BY <1>3, <1>5, Appended
<1>7. ProfilerInv'
  BY <1>1, <1>2 DEF ProfilerInv, ProfilerType, IdInv, Linked, Acyclic
<1>8. GuardType'
  <2>1. /\ held' \in [Threads -> Seq(GuardSet)]
        /\ pc' \in [Threads -> {"idle", "wait", "release", "dead"}]
        /\ want' \in [Threads -> GuardSet \cup {NoGuard}]
    BY <1>1, <1>2, <1>5, <1>6 DEF GuardType
  <2>2. Len(held'[t]) <= MaxNest  BY <1>3, <1>6, NestAssumption
  <2> QED BY <1>1, <1>5, <2>1, <2>2 DEF GuardType
<1>9. SeenInv'
  <2>1. \A i \in 1..top : i # top => i \in 1..Len(held[t])  BY <1>6
  <2> QED BY <1>1, <1>2, <1>5, <1>6, <2>1 DEF SeenInv
<1>10. ASSUME NEW l
       PROVE  /\ \A u \in Threads : u # t => Of(l)'[u] = Of(l)[u]
              /\ Of(l)'[t] = Of(l)[t] \cup (IF l = g.lock THEN {g.kind} ELSE {})
  <2>1. \A u \in Threads : u # t => Of(l)'[u] = Of(l)[u]  BY <1>5 DEF Of
  <2>2. \A i \in 1..top : i # top => i \in 1..Len(held[t])  BY <1>6
  <2>3. top \in 1..top /\ \A i \in 1..Len(held[t]) : i \in 1..top  BY <1>6
  <2>4. Of(l)'[t] = {held'[t][i].kind : i \in {j \in 1..top : held'[t][j].lock = l}}
    BY <1>6 DEF Of
  <2>5. Of(l)[t] = {held[t][i].kind : i \in {j \in 1..Len(held[t]) : held[t][j].lock = l}}
    BY DEF Of
  <2> HIDE DEF top, g
  <2>6. ASSUME NEW k PROVE k \in Of(l)'[t] <=> k \in Of(l)[t] \/ (l = g.lock /\ k = g.kind)
    BY <1>6, <2>2, <2>3, <2>4, <2>5
  <2> QED BY <2>1, <2>6
<1>11. Exclusion'
  <2> SUFFICES ASSUME NEW l \in Locks, NEW u \in Threads, NEW v \in Threads, u # v,
                      "W" \in Of(l)'[u]
               PROVE  Of(l)'[v] = {}
    BY DEF Exclusion
  <2>1. IF g.kind = "W" THEN "W" \in Of(g.lock)[t] \/ \A x \in Threads : Of(g.lock)[x] = {}
                        ELSE \A x \in Threads : x # t => "W" \notin Of(g.lock)[x]
    BY <1>2, <1>3, GrantedMeans
  <2>2. CASE l # g.lock
    BY <1>1, <1>10, <2>2 DEF Exclusion
  <2>3. CASE l = g.lock /\ u = t
    <3>1. "W" \in Of(l)[t] \/ g.kind = "W"  BY <1>10, <2>3
    <3>2. Of(l)[v] = {}  BY <1>1, <2>1, <2>3, <3>1 DEF Exclusion
    <3> QED BY <1>10, <2>3, <3>2
  <2>4. CASE l = g.lock /\ u # t
    <3>1. "W" \in Of(l)[u]  BY <1>10, <2>4
    <3>2. g.kind = "R" => FALSE  BY <2>1, <2>4, <3>1
    <3>3. g.kind = "W" => FALSE  BY <1>1, <2>1, <2>4, <3>1 DEF Exclusion
    <3> QED BY <1>4, <3>2, <3>3
  <2> QED BY <2>2, <2>3, <2>4
<1>12. Policy'
  <2> SUFFICES ASSUME NEW u \in Threads, pc'[u] = "wait", want'[u].kind = "W",
                      NEW l, l = want'[u].lock
               PROVE  "R" \notin Of(l)'[u]
    BY DEF Policy, Of
  <2>1. u # t /\ pc[u] = "wait" /\ want'[u] = want[u]  BY <1>5
  <2> QED BY <1>1, <1>10, <2>1 DEF Policy
<1>13. OrderInv'
  <2> SUFFICES ASSUME NEW u \in Threads, pc'[u] = "wait", NEW k \in 1..Len(held'[u]),
                      NEW h, NEW w, h = nameToId'[Name[held'[u][k].lock]],
                      w = nameToId'[Name[want'[u].lock]], h # w,
                      NEW i \in 1..Len(lockStack'), NEW j \in 1..Len(lockStack'),
                      lockStack'[i] = h, lockStack'[j] = w
               PROVE  i < j
    BY DEF OrderInv, IdOf
  <2>1. pc[u] = "wait" /\ want'[u] = want[u] /\ held'[u] = held[u]  BY <1>5
  <2> QED BY <1>1, <1>2, <2>1 DEF OrderInv, IdOf
<1>14. StackCounts'
  <2> SUFFICES ASSUME NEW m \in Names
               PROVE  Cardinality(Positions(lockStack, nameToId[m])) =
                        Cardinality(Counted(held', pc', m)) + Cardinality(Waiting(pc', want', m))
    BY <1>2 DEF StackCounts, Positions, Counted, Waiting
  <2>1. Cardinality(Positions(lockStack, nameToId[m])) =
          Cardinality(Counted(held, pc, m)) + Cardinality(Waiting(pc, want, m))
    BY <1>1, CountsMeans
  <2> DEFINE C == Counted(held, pc, m)
             D == Counted(held', pc', m)
             W == Waiting(pc, want, m)
             X == Waiting(pc', want', m)
  <2>2. /\ IsFiniteSet(C) /\ Cardinality(C) \in Nat /\ IsFiniteSet(W) /\ Cardinality(W) \in Nat
    BY CountedFinite
  <2>3. C \in SUBSET (Threads \X (1..MaxNest)) /\ D \in SUBSET (Threads \X (1..MaxNest))
    BY DEF Counted
  <2>4. top \in 1..MaxNest /\ top \in Nat /\ Len(held[t]) = top - 1  BY <1>3, <1>6, NestAssumption
  <2>5. ASSUME NEW u \in Threads, NEW i \in 1..MaxNest
        PROVE  <<u, i>> \in D <=> <<u, i>> \in C \/ (u = t /\ i = top /\ Name[g.lock] = m)
    <3>1. <<u, i>> \in D <=>
            /\ i <= Len(held'[u]) /\ Name[held'[u][i].lock] = m
            /\ ~(pc'[u] = "release" /\ i = Len(held'[u]))
      BY DEF Counted
    <3>2. <<u, i>> \in C <=>
            /\ i <= Len(held[u]) /\ Name[held[u][i].lock] = m
            /\ ~(pc[u] = "release" /\ i = Len(held[u]))
      BY DEF Counted
    <3>3. CASE u # t  BY <1>5, <3>1, <3>2, <3>3
    <3>4. CASE u = t /\ i = top  BY <1>5, <1>6, <2>4, <3>1, <3>2, <3>4
    <3>5. CASE u = t /\ i # top
      <4>1. i <= top <=> i <= top - 1  BY <2>4, <3>5, NestAssumption
      <4>2. i <= top - 1 => i \in 1..Len(held[t])  BY <2>4, NestAssumption
      <4> QED BY <1>2, <1>5, <1>6, <2>4, <3>1, <3>2, <3>5, <4>1, <4>2
    <3> QED BY <3>3, <3>4, <3>5
  <2>6. <<t, top>> \notin C
    <3>1. ~(top <= Len(held[t]))  BY <2>4
    <3> QED BY <3>1 DEF Counted
  <2>7. CASE Name[g.lock] = m
    <3>1. X = W \ {t} /\ t \in W  BY <1>2, <1>5, <2>7 DEF Waiting
    <3>2. C \cup {<<t, top>>} \in SUBSET (Threads \X (1..MaxNest))  BY <2>3, <2>4
    <3> HIDE DEF C, D, W, X, g, top
    <3>3. \A u \in Threads, i \in 1..MaxNest : <<u, i>> \in D <=> <<u, i>> \in C \cup {<<t, top>>}
      BY <2>5, <2>7
    <3>4. D = C \cup {<<t, top>>}  BY <2>3, <3>2, <3>3, PairSets
    <3>5. Cardinality(D) = Cardinality(C) + 1  BY <2>2, <2>6, <3>4, AddOne
    <3>6. Cardinality(X) = Cardinality(W) - 1  BY <2>2, <3>1, RemoveOne
    <3>7. Cardinality(C) + Cardinality(W) = Cardinality(D) + Cardinality(X)
      BY <2>2, <3>5, <3>6
    <3> QED BY <2>1, <3>7 DEF C, D, W, X
  <2>8. CASE Name[g.lock] # m
    <3>1. X = W  BY <1>2, <1>5, <2>8 DEF Waiting
    <3> HIDE DEF C, D, W, X, g, top
    <3>2. \A u \in Threads, i \in 1..MaxNest : <<u, i>> \in D <=> <<u, i>> \in C
      BY <2>5, <2>8
    <3>3. D = C  BY <2>3, <3>2, PairSets
    <3> QED BY <2>1, <3>1, <3>3 DEF C, D, W, X
  <2> QED BY <2>7, <2>8
<1> QED BY <1>7, <1>8, <1>9, <1>11, <1>12, <1>13, <1>14 DEF Running

\* PopLock has returned: the guard leaves the stack before the lock is free.
LEMMA UnlockKeeps ==
  ASSUME Running, NEW t \in Threads, Unlock(t), crash' = "none"
  PROVE  Running'
<1> DEFINE top == Len(held[t])
           n == Name[held[t][top].lock]
<1>1. ProfilerInv /\ GuardType /\ SeenInv /\ Exclusion /\ Policy /\ OrderInv /\ StackCounts
  BY DEF Running
<1>2. /\ crash = "none" /\ pc[t] = "idle" /\ held[t] # <<>> /\ PopLock(n)
      /\ pc' = [pc EXCEPT ![t] = "release"] /\ held' = held /\ want' = want
  BY DEF Unlock, Innermost
<1>3. /\ held[t] \in Seq(GuardSet) /\ top <= MaxNest  BY <1>1 DEF GuardType
<1>4. top \in Nat \ {0} /\ top \in 1..top /\ held[t][top] \in GuardSet  BY <1>2, <1>3
<1>5. n \in Names /\ nameToId[n] # NoId
  BY <1>1, <1>4, NameAssumption DEF GuardSet, SeenInv
<1>6. /\ ProfilerInv' /\ UNCHANGED <<nameToId, lockHistory>>
      /\ lockStack # <<>> /\ lockStack[Len(lockStack)] = nameToId[n]
      /\ lockStack' = SubSeq(lockStack, 1, Len(lockStack) - 1)
  BY <1>1, <1>2, <1>5, Pops
<1>7. lockStack \in Seq(Ids(nameToId))  BY <1>1 DEF ProfilerInv, ProfilerType
<1>8. /\ Len(lockStack') = Len(lockStack) - 1 /\ Len(lockStack) \in Nat
      /\ \A i \in 1..(Len(lockStack) - 1) : lockStack'[i] = lockStack[i]
  BY <1>6, <1>7, Shortened
<1>9. pc'[t] = "release" /\ \A u \in Threads : u # t => pc'[u] = pc[u]
  BY <1>1, <1>2 DEF GuardType
<1>10. GuardType'  BY <1>1, <1>2, <1>9 DEF GuardType
<1>11. SeenInv'  BY <1>1, <1>2, <1>6, <1>9 DEF SeenInv
<1>12. Exclusion'  BY <1>1, <1>2, OfSame DEF Exclusion
<1>13. Policy'
  <2> SUFFICES ASSUME NEW u \in Threads, pc'[u] = "wait", want[u].kind = "W",
                      NEW l, l = want[u].lock
               PROVE  "R" \notin Of(l)'[u]
    BY <1>2 DEF Policy, Of
  <2>1. Of(l)' = Of(l) /\ pc[u] = "wait"  BY <1>2, <1>9, OfSame
  <2> QED BY <1>1, <2>1 DEF Policy
<1>14. OrderInv'
  <2> SUFFICES ASSUME NEW u \in Threads, pc'[u] = "wait", NEW k \in 1..Len(held'[u]),
                      NEW h, NEW w, h = nameToId'[Name[held'[u][k].lock]],
                      w = nameToId'[Name[want'[u].lock]], h # w,
                      NEW i \in 1..Len(lockStack'), NEW j \in 1..Len(lockStack'),
                      lockStack'[i] = h, lockStack'[j] = w
               PROVE  i < j
    BY DEF OrderInv, IdOf
  <2>1. i \in 1..Len(lockStack) /\ j \in 1..Len(lockStack)  BY <1>8
  <2>2. lockStack'[i] = lockStack[i] /\ lockStack'[j] = lockStack[j] /\ pc[u] = "wait"
    BY <1>8, <1>9
  <2> QED BY <1>1, <1>2, <1>6, <2>1, <2>2 DEF OrderInv, IdOf
<1>15. StackCounts'
  <2> SUFFICES ASSUME NEW m \in Names
               PROVE  Cardinality(Positions(lockStack', nameToId[m])) =
                        Cardinality(Counted(held, pc', m)) + Cardinality(Waiting(pc', want, m))
    BY <1>2, <1>6 DEF StackCounts, Positions, Counted, Waiting
  <2>1. Cardinality(Positions(lockStack, nameToId[m])) =
          Cardinality(Counted(held, pc, m)) + Cardinality(Waiting(pc, want, m))
    BY <1>1, CountsMeans
  <2>2. Waiting(pc', want, m) = Waiting(pc, want, m)  BY <1>2, <1>9 DEF Waiting
  <2> DEFINE C == Counted(held, pc, m)
             D == Counted(held, pc', m)
  <2>3. /\ IsFiniteSet(C) /\ Cardinality(C) \in Nat /\ Cardinality(Waiting(pc, want, m)) \in Nat
    BY CountedFinite
  <2>4. C \in SUBSET (Threads \X (1..MaxNest)) /\ D \in SUBSET (Threads \X (1..MaxNest))
    BY DEF Counted
  <2>5. ASSUME NEW u \in Threads, NEW i \in 1..MaxNest
        PROVE  <<u, i>> \in D <=> <<u, i>> \in C /\ ~(u = t /\ i = top)
    <3>1. <<u, i>> \in D <=>
            /\ i <= Len(held[u]) /\ Name[held[u][i].lock] = m
            /\ ~(pc'[u] = "release" /\ i = Len(held[u]))
      BY DEF Counted
    <3>2. <<u, i>> \in C <=>
            /\ i <= Len(held[u]) /\ Name[held[u][i].lock] = m
            /\ ~(pc[u] = "release" /\ i = Len(held[u]))
      BY DEF Counted
    <3> QED BY <1>2, <1>9, <3>1, <3>2
  <2>6. top \in 1..MaxNest  BY <1>3, <1>4, NestAssumption
  <2>7. <<t, top>> \in C <=> n = m
    <3>1. <<t, top>> \in C <=>
            /\ top <= Len(held[t]) /\ Name[held[t][top].lock] = m
            /\ ~(pc[t] = "release" /\ top = Len(held[t]))
      BY <2>6 DEF Counted
    <3>2. top <= Len(held[t])  BY <1>4
    <3> QED BY <1>2, <3>1, <3>2
  <2>8. C \ {<<t, top>>} \in SUBSET (Threads \X (1..MaxNest))  BY <2>4
  <2>9. D = C \ {<<t, top>>}
    <3> HIDE DEF C, D, top
    <3>1. \A u \in Threads, i \in 1..MaxNest : <<u, i>> \in D <=> <<u, i>> \in C \ {<<t, top>>}
      BY <2>5
    <3> QED BY <2>4, <2>8, <3>1, PairSets
  <2>10. CASE n = m
    <3>1. Cardinality(Positions(lockStack', nameToId[m])) =
            Cardinality(Positions(lockStack, nameToId[m])) - 1
      BY <1>6, <1>7, <2>10, PositionsShortened
    <3>2. Cardinality(D) = Cardinality(C) - 1
      <4> HIDE DEF C, D, top, n
      <4> QED BY <2>3, <2>7, <2>9, <2>10, RemoveOne
    <3> QED BY <2>1, <2>2, <2>3, <3>1, <3>2
  <2>11. CASE n # m
    <3>1. nameToId[m] # nameToId[n]  BY <1>1, <1>5, <2>11 DEF ProfilerInv, IdInv
    <3>2. Positions(lockStack', nameToId[m]) = Positions(lockStack, nameToId[m])
      BY <1>6, <1>7, <3>1, PositionsShortened
    <3>3. D = C
      <4> HIDE DEF C, D, top, n
      <4> QED BY <2>7, <2>9, <2>11
    <3> QED BY <2>1, <2>2, <3>2, <3>3
  <2> QED BY <2>10, <2>11
<1> QED BY <1>6, <1>10, <1>11, <1>12, <1>13, <1>14, <1>15 DEF Running

\* The lock is released.
LEMMA ReleaseKeeps ==
  ASSUME Running, NEW t \in Threads, Release(t)
  PROVE  Running'
<1> DEFINE top == Len(held[t])
<1>1. ProfilerInv /\ GuardType /\ SeenInv /\ Exclusion /\ Policy /\ OrderInv /\ StackCounts
  BY DEF Running
<1>2. /\ pc[t] = "release" /\ held' = [held EXCEPT ![t] = SubSeq(held[t], 1, top - 1)]
      /\ pc' = [pc EXCEPT ![t] = "idle"] /\ want' = want
      /\ UNCHANGED <<nameToId, lockStack, lockHistory>>
  BY DEF Release, profilerVars
<1>3. held[t] \in Seq(GuardSet) /\ held[t] # <<>> /\ top <= MaxNest  BY <1>1, <1>2 DEF GuardType
<1>4. /\ held'[t] = SubSeq(held[t], 1, top - 1) /\ pc'[t] = "idle"
      /\ \A u \in Threads : u # t => held'[u] = held[u] /\ pc'[u] = pc[u]
  BY <1>1, <1>2 DEF GuardType
<1>5. /\ held'[t] \in Seq(GuardSet) /\ Len(held'[t]) = top - 1 /\ top \in Nat \ {0}
      /\ \A i \in 1..(top - 1) : held'[t][i] = held[t][i]
  BY <1>3, <1>4, Shortened
<1>6. \A i \in 1..(top - 1) : i \in 1..top  BY <1>5
<1>7. ProfilerInv'
  BY <1>1, <1>2 DEF ProfilerInv, ProfilerType, IdInv, Linked, Acyclic
<1>8. GuardType'
  <2>1. /\ held' \in [Threads -> Seq(GuardSet)]
        /\ pc' \in [Threads -> {"idle", "wait", "release", "dead"}]
    BY <1>1, <1>2, <1>4, <1>5 DEF GuardType
  <2>2. Len(held'[t]) <= MaxNest  BY <1>3, <1>5, NestAssumption
  <2> QED BY <1>1, <1>2, <1>4, <2>1, <2>2 DEF GuardType
<1>9. SeenInv'  BY <1>1, <1>2, <1>4, <1>5, <1>6 DEF SeenInv
<1>10. ASSUME NEW l
       PROVE  /\ \A u \in Threads : u # t => Of(l)'[u] = Of(l)[u]
              /\ Of(l)'[t] \subseteq Of(l)[t]
  <2>1. \A u \in Threads : u # t => Of(l)'[u] = Of(l)[u]  BY <1>4 DEF Of
  <2>2. Of(l)'[t] = {held'[t][i].kind : i \in {j \in 1..(top - 1) : held'[t][j].lock = l}}
    BY <1>5 DEF Of
  <2>3. Of(l)[t] = {held[t][i].kind : i \in {j \in 1..top : held[t][j].lock = l}}
    BY DEF Of
  <2> HIDE DEF top
  <2>4. Of(l)'[t] \subseteq Of(l)[t]  BY <1>5, <1>6, <2>2, <2>3
  <2> QED BY <2>1, <2>4
<1>11. Exclusion'
  <2> SUFFICES ASSUME NEW l \in Locks, NEW u \in Threads, NEW v \in Threads, u # v,
                      "W" \in Of(l)'[u]
               PROVE  Of(l)'[v] = {}
    BY DEF Exclusion
  <2>1. "W" \in Of(l)[u] /\ Of(l)'[v] \subseteq Of(l)[v]  BY <1>10
  <2> QED BY <1>1, <2>1 DEF Exclusion
<1>12. Policy'
  <2> SUFFICES ASSUME NEW u \in Threads, pc'[u] = "wait", want[u].kind = "W",
                      NEW l, l = want[u].lock
               PROVE  "R" \notin Of(l)'[u]
    BY <1>2 DEF Policy, Of
  <2>1. u # t /\ pc[u] = "wait"  BY <1>4
  <2> QED BY <1>1, <1>10, <2>1 DEF Policy
<1>13. OrderInv'
  <2> SUFFICES ASSUME NEW u \in Threads, pc'[u] = "wait", NEW k \in 1..Len(held'[u]),
                      NEW h, NEW w, h = nameToId'[Name[held'[u][k].lock]],
                      w = nameToId'[Name[want'[u].lock]], h # w,
                      NEW i \in 1..Len(lockStack'), NEW j \in 1..Len(lockStack'),
                      lockStack'[i] = h, lockStack'[j] = w
               PROVE  i < j
    BY DEF OrderInv, IdOf
  <2>1. pc[u] = "wait" /\ held'[u] = held[u]  BY <1>4
  <2> QED BY <1>1, <1>2, <2>1 DEF OrderInv, IdOf
<1>14. StackCounts'
  <2> SUFFICES ASSUME NEW m \in Names
               PROVE  /\ Counted(held', pc', m) = Counted(held, pc, m)
                      /\ Waiting(pc', want, m) = Waiting(pc, want, m)
    <3>1. \A m \in Names : Cardinality(Positions(lockStack, nameToId[m])) =
            Cardinality(Counted(held, pc, m)) + Cardinality(Waiting(pc, want, m))
      BY <1>1, CountsMeans
    <3>2. \A m \in Names : Cardinality(Positions(lockStack, nameToId[m])) =
            Cardinality(Counted(held', pc', m)) + Cardinality(Waiting(pc', want, m))
      BY <3>1
    <3> QED BY <1>2, <3>2 DEF StackCounts, Positions, Counted, Waiting
  <2>1. Waiting(pc', want, m) = Waiting(pc, want, m)  BY <1>2, <1>4 DEF Waiting
  <2> DEFINE C == Counted(held, pc, m)
             D == Counted(held', pc', m)
  <2>2. C \in SUBSET (Threads \X (1..MaxNest)) /\ D \in SUBSET (Threads \X (1..MaxNest))
    BY DEF Counted
  <2>3. ASSUME NEW u \in Threads, NEW i \in 1..MaxNest PROVE <<u, i>> \in D <=> <<u, i>> \in C
    <3>1. <<u, i>> \in D <=>
            /\ i <= Len(held'[u]) /\ Name[held'[u][i].lock] = m
            /\ ~(pc'[u] = "release" /\ i = Len(held'[u]))
      BY DEF Counted
    <3>2. <<u, i>> \in C <=>
            /\ i <= Len(held[u]) /\ Name[held[u][i].lock] = m
            /\ ~(pc[u] = "release" /\ i = Len(held[u]))
      BY DEF Counted
    <3>3. CASE u # t  BY <1>4, <3>1, <3>2, <3>3
    <3>4. CASE u = t
      <4>1. i <= top - 1 <=> i <= top /\ i # top  BY <1>5, NestAssumption
      <4>2. i <= top - 1 => i \in 1..(top - 1)  BY <1>5, NestAssumption
      <4> QED BY <1>2, <1>4, <1>5, <3>1, <3>2, <3>4, <4>1, <4>2
    <3> QED BY <3>3, <3>4
  <2>4. D = C
    <3> HIDE DEF C, D
    <3>1. \A u \in Threads, i \in 1..MaxNest : <<u, i>> \in D <=> <<u, i>> \in C  BY <2>3
    <3> QED BY <2>2, <3>1, PairSets
  <2> QED BY <2>1, <2>4
<1> QED BY <1>7, <1>8, <1>9, <1>11, <1>12, <1>13, <1>14 DEF Running

LEMMA NextIInv == IInv /\ [Next]_vars => IInv'
<1> SUFFICES ASSUME IInv, [Next]_vars, crash' = "none" PROVE Running'
  BY DEF IInv
<1>1. ASSUME NEW t \in Threads, NEW g \in GuardSet, Request(t, g) PROVE Running'
  BY <1>1, RequestKeeps DEF IInv, Request
<1>2. ASSUME NEW t \in Threads, Acquire(t) PROVE Running'
  BY <1>2, AcquireKeeps DEF IInv, Acquire
<1>3. ASSUME NEW t \in Threads, Timeout(t) PROVE FALSE
  BY <1>3 DEF Timeout
<1>4. ASSUME NEW t \in Threads, Unlock(t) PROVE Running'
  BY <1>4, UnlockKeeps DEF IInv, Unlock
<1>5. ASSUME NEW t \in Threads, Release(t) PROVE Running'
  BY <1>5, ReleaseKeeps DEF IInv, Release
<1>6. CASE Crashed  BY <1>6 DEF Crashed, vars
<1>7. CASE UNCHANGED vars
  <2>1. Running  BY <1>7 DEF IInv, vars
  <2>2. ProfilerInv'
    BY <1>7, <2>1 DEF vars, Running, ProfilerInv, ProfilerType, IdInv, Linked, Acyclic
  <2>3. GuardType' /\ SeenInv'  BY <1>7, <2>1 DEF vars, Running, GuardType, SeenInv
  <2>4. Exclusion' /\ Policy'
    <3>1. held' = held /\ pc' = pc /\ want' = want  BY <1>7 DEF vars
    <3>2. Exclusion'  BY <2>1, <3>1, OfSame DEF Running, Exclusion
    <3>3. Policy'  BY <2>1, <3>1 DEF Running, Policy, Of
    <3> QED BY <3>2, <3>3
  <2>5. OrderInv'  BY <1>7, <2>1 DEF vars, Running, OrderInv, IdOf
  <2>6. StackCounts'  BY <1>7, <2>1 DEF vars, Running, StackCounts
  <2> QED BY <2>2, <2>3, <2>4, <2>5, <2>6 DEF Running
<1> QED BY <1>1, <1>2, <1>3, <1>4, <1>5, <1>6, <1>7 DEF Next

\* IInv is an invariant.
THEOREM Inductive == Spec => []IInv
BY InitIInv, NextIInv, PTL DEF Spec

-----------------------------------------------------------------------------
(* The results.                                                             *)

\* Whatever threads push and pop in turns, the entries of the profiler's stack are the
\* locks held or waited for, and those of one lock are next to each other (PushLock,
\* PopLock).
THEOREM Accounts == Spec => []StackAccounts
<1>1. IInv => StackAccounts  BY Runs DEF IInv, Running, StackAccounts
<1> QED BY <1>1, Inductive, PTL

\* Of the threads in a circle, one waits for a lock that is highest on the stack; the
\* thread that has it waits for the same lock, and that is granted or excluded.
LEMMA NoCircle ==
  ASSUME \A l, m \in Locks : Name[l] = Name[m] => l = m, IInv
  PROVE  NoUndetectedDeadlock
<1> SUFFICES ASSUME crash = "none", Deadlocked PROVE FALSE
  BY DEF NoUndetectedDeadlock
<1>1. ProfilerInv /\ GuardType /\ SeenInv /\ Exclusion /\ Policy /\ OrderInv /\ StackCounts
  BY DEF IInv, Running
<1>2. PICK S \in (SUBSET Threads) \ {{}} : \A t \in S : \E u \in S : WaitsFor(t, u)
  BY DEF Deadlocked, HasCycle
<1>3. \A t \in S : t \in Threads /\ pc[t] = "wait" /\ want[t] \in GuardSet /\ ~Granted(t, want[t])
  BY <1>1, <1>2 DEF WaitsFor, GuardType
<1> DEFINE Q == {i \in 1..Len(lockStack) : \E t \in S : lockStack[i] = IdOf(want[t])}
<1>4. Len(lockStack) \in Nat  BY <1>1 DEF ProfilerInv, ProfilerType
<1>5. \A t \in S : \E i \in 1..Len(lockStack) : lockStack[i] = IdOf(want[t])
  BY <1>1, <1>3, Present
<1>6. Q \in SUBSET (1..Len(lockStack)) /\ Q # {}  BY <1>2, <1>5
<1>7. PICK i \in Q : \A j \in Q : j <= i
  <2> HIDE DEF Q
  <2> QED BY <1>4, <1>6, GreatestOf
<1>8. PICK t \in S : lockStack[i] = IdOf(want[t])  BY <1>7
<1>9. PICK u \in S : WaitsFor(t, u)  BY <1>2
<1>10. Of(want[t].lock)[u] # {}  BY <1>9 DEF WaitsFor
<1>11. PICK k \in 1..Len(held[u]) : held[u][k].lock = want[t].lock
  BY <1>3, <1>10 DEF Of
<1>12. PICK j \in 1..Len(lockStack) : lockStack[j] = IdOf(want[u])  BY <1>5
<1>13. IdOf(held[u][k]) = IdOf(want[t])  BY <1>11 DEF IdOf
<1>14. IdOf(want[u]) = IdOf(want[t])
  <2> SUFFICES ASSUME IdOf(want[u]) # IdOf(want[t]) PROVE FALSE  OBVIOUS
  <2>1. i < j  BY <1>1, <1>3, <1>7, <1>8, <1>12, <1>13 DEF OrderInv
  <2>2. j <= i  BY <1>7, <1>12
  <2> QED BY <1>4, <1>7, <2>1, <2>2
<1>15. want[u].lock = want[t].lock
  <2>1. /\ want[u].lock \in Locks /\ want[t].lock \in Locks
        /\ Name[want[u].lock] \in Names /\ Name[want[t].lock] \in Names
    BY <1>3, NameAssumption DEF GuardSet
  <2>2. Name[want[u].lock] = Name[want[t].lock]
    BY <1>1, <1>3, <1>14, <2>1 DEF ProfilerInv, IdInv, SeenInv, IdOf
  <2> QED BY <2>1, <2>2
<1>16. /\ want[u].lock \in Locks /\ want[u].kind \in {"R", "W"} /\ u \in Threads
       /\ Of(want[u].lock)[u] # {}
  BY <1>3, <1>10, <1>15 DEF GuardSet
<1>17. ~(IF want[u].kind = "W"
           THEN "W" \in Of(want[u].lock)[u] \/ \A v \in Threads : Of(want[u].lock)[v] = {}
           ELSE \A v \in Threads : v # u => "W" \notin Of(want[u].lock)[v])
  BY <1>3, GrantedMeans
<1>18. CASE want[u].kind = "W"
  <2>1. Of(want[u].lock)[u] \subseteq {"R", "W"}
    <3>1. held[u] \in Seq(GuardSet)  BY <1>1, <1>16 DEF GuardType
    <3>2. \A x \in 1..Len(held[u]) : held[u][x] \in GuardSet  BY <3>1
    <3>3. \A x \in 1..Len(held[u]) : held[u][x].kind \in {"R", "W"}  BY <3>2 DEF GuardSet
    <3> QED BY <1>16, <3>3 DEF Of
  <2>2. "R" \notin Of(want[u].lock)[u]  BY <1>1, <1>3, <1>18 DEF Policy
  <2> QED BY <1>16, <1>17, <1>18, <2>1, <2>2
<1>19. CASE want[u].kind = "R"
  <2>1. PICK v \in Threads : v # u /\ "W" \in Of(want[u].lock)[v]  BY <1>17, <1>19
  <2> QED BY <1>1, <1>16, <2>1 DEF Exclusion
<1> QED BY <1>16, <1>18, <1>19

\* If every lock has a name of its own, threads never wait for each other in a circle:
\* PushLock has crashed the process before.  Run profiler_one_class shows that the
\* hypothesis is needed, as typeid names classes and not objects.
THEOREM DeadlockFree ==
  ASSUME \A l, m \in Locks : Name[l] = Name[m] => l = m
  PROVE  Spec => []NoUndetectedDeadlock
<1>1. IInv => NoUndetectedDeadlock  BY NoCircle
<1> QED BY <1>1, Inductive, PTL
=============================================================================
