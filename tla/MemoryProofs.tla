---------------------------- MODULE MemoryProofs ----------------------------
(***************************************************************************)
(* Proofs about MemoryPool, for any number of threads, blocks and pools,    *)
(* and about StompAllocator, for every page size and every size but 0.      *)
(*                                                                          *)
(* Every block is in one place (PlaceInv); wherever it is, its capacity is  *)
(* that of the pool it will return to (SizeInv), because the pool is found  *)
(* from a size that does not change while the block is out; and a counter   *)
(* differs from what it counts by the calls at certain labels (CountersLag, *)
(* which is inductive with the rest).  That the sizes of the pools ascend   *)
(* is proved from the bounds of the loops that make them (PoolsAscend).     *)
(*                                                                          *)
(* What the allocator of the _STOMP build promises follows from its offset  *)
(* being smaller than a page: then base is the address rounded down.        *)
(***************************************************************************)
EXTENDS MemoryPool, StompAllocator, FiniteSetTheorems, WellFoundedInduction,
        SequenceTheorems, TLAPS

Labels == {"idle", "pop", "popped", "use", "attach", "push", "pushed", "reserve"}

\* The labels of a call that has a block, and of one that is about a pool.
Holding == {"popped", "use", "attach", "push"}
Pooled  == {"pop", "popped", "use", "push", "pushed", "reserve"}

Slot(n) == TableSlot(poolSizes, n)

TypeInv ==
  /\ heap \subseteq Blocks /\ used \subseteq Blocks
  /\ capacity \in [Blocks -> Nat] /\ allocSize \in [Blocks -> Nat]
  /\ list \in [Pools -> Seq(Blocks)]
  /\ useCount \in [Pools -> Int] /\ reserveCount \in [Pools -> Int]
  /\ pc \in [Threads -> Labels]
  /\ block \in [Threads -> Blocks \cup {None}]
  /\ size \in [Threads -> Nat]
  /\ crash \in {"none", "null header"}
  /\ \A t \in Threads :
       /\ block[t] # None <=> pc[t] \in Holding
       /\ pc[t] # "idle" => size[t] >= HeaderSize
       /\ pc[t] \in Pooled => size[t] <= MAX_ALLOC_SIZE

\* A block is in one place.
InCall(b) == \E t \in Threads : block[t] = b
OnList(b) == \E p \in Pools : \E i \in 1..Len(list[p]) : list[p][i] = b
NowhereElse ==
  \A b \in Blocks :
    /\ b \in heap => b \notin used /\ ~InCall(b) /\ ~OnList(b)
    /\ b \in used => ~InCall(b) /\ ~OnList(b)
    /\ InCall(b) => ~OnList(b)
Somewhere  == \A b \in Blocks : b \in heap \/ b \in used \/ InCall(b) \/ OnList(b)
CallsApart == \A t, u \in Threads : t # u /\ block[t] # None => block[t] # block[u]
ListsApart ==
  \A p, q \in Pools : \A i \in 1..Len(list[p]), j \in 1..Len(list[q]) :
    list[p][i] = list[q][j] => p = q /\ i = j
PlaceInv == NowhereElse /\ Somewhere /\ CallsApart /\ ListsApart

\* What a block of capacity c serves, for a size n with its header.
Serves(c, n) == c = IF n <= MAX_ALLOC_SIZE THEN poolSizes[Slot(n)] ELSE n

SizeInv ==
  /\ \A p \in Pools : \A i \in 1..Len(list[p]) :
       capacity[list[p][i]] = poolSizes[p] /\ allocSize[list[p][i]] = 0
  /\ \A b \in used : allocSize[b] >= HeaderSize /\ Serves(capacity[b], allocSize[b])
  /\ \A t \in Threads :
       /\ block[t] # None => Serves(capacity[block[t]], size[t])
       /\ pc[t] = "push" => allocSize[block[t]] = 0

IInv == TypeInv /\ PlaceInv /\ SizeInv /\ CountersLag

-----------------------------------------------------------------------------
\* The order of Nat as a relation, and its least elements.
Less == {x \in Nat \X Nat : x[1] < x[2]}

LEMMA LessWellFounded == IsWellFoundedOn(Less, Nat)
<1>1. Less = OpToRel(<, Nat)  BY Zenon DEF Less, OpToRel
<1> QED BY <1>1, NatLessThanWellFounded, Zenon

LEMMA LeastOf ==
  ASSUME NEW S \in SUBSET Nat, S # {}
  PROVE  \E m \in S : \A n \in S : m <= n
<1>1. PICK m \in S : \A n \in S : <<n, m>> \notin Less  BY LessWellFounded, WFMin
<1>2. \A n \in S : m <= n
  <2> TAKE n \in S
  <2>1. n \in Nat /\ m \in Nat  OBVIOUS
  <2>2. ~(n < m)
    <3>1. <<n, m>> \in Nat \X Nat /\ <<n, m>>[1] = n /\ <<n, m>>[2] = m  BY <2>1
    <3>2. <<n, m>> \notin Less  BY <1>1
    <3> QED BY <3>1, <3>2, Zenon DEF Less
  <2> QED BY <2>1, <2>2
<1> QED BY <1>2

\* The value of a pool's loop variable in its last round.
LEMMA LastRound ==
  ASSUME NEW a \in Nat, NEW b \in Nat, a <= b, NEW s \in Nat \ {0}
  PROVE  /\ (b - a) \div s \in Nat
         /\ \A i \in 0..((b - a) \div s) : i * s \in Nat /\ a + i * s <= b
         /\ \A n \in Nat : b = a + n * s => (b - a) \div s = n
<1> DEFINE q == (b - a) \div s
           r == (b - a) % s
<1>1. b - a \in Nat  OBVIOUS
<1>2. q \in Int /\ r \in 0..(s - 1) /\ b - a = s * q + r  BY <1>1
<1> HIDE DEF q, r
<1>3. q \in Nat
  <2> SUFFICES ASSUME q <= -1  PROVE FALSE  BY <1>2
  <2>1. s * (q + 1) <= 0  BY <1>2
  <2>2. s * (q + 1) = s * q + s  BY <1>2
  <2> QED BY <2>1, <2>2, <1>1, <1>2
<1>4. ASSUME NEW i \in 0..q  PROVE i * s \in Nat /\ a + i * s <= b
  <2>1. i \in Nat /\ q - i \in Nat  BY <1>3
  <2>2. i * s \in Nat /\ (q - i) * s \in Nat  BY <2>1
  <2>3. (q - i) * s = s * q - i * s  BY <1>2, <2>1
  <2> QED BY <2>2, <2>3, <1>2
<1>5. ASSUME NEW n \in Nat, b = a + n * s  PROVE q = n
  <2>0. s * n + 0 = s * q + r  BY <1>2, <1>5
  <2>1. CASE n < q
    <3>1. s * (n + 1) <= s * q  BY <2>1, <1>2
    <3>2. s * (n + 1) = s * n + s  OBVIOUS
    <3> QED BY <2>0, <3>1, <3>2, <1>2
  <2>2. CASE q < n
    <3>1. s * (q + 1) <= s * n  BY <2>2, <1>2
    <3>2. s * (q + 1) = s * q + s  BY <1>2
    <3> QED BY <2>0, <3>1, <3>2, <1>2
  <2> QED BY <2>1, <2>2, <1>2
<1> QED BY <1>3, <1>4, <1>5 DEF q

\* The sizes of one loop ascend, from its first to at most its last.
LEMMA LoopAscends ==
  ASSUME NEW l \in [first : Nat, last : Nat, step : Nat \ {0}], l.first <= l.last
  PROVE  /\ SizesOf(l) \in Seq(Nat) /\ Len(SizesOf(l)) \in Nat \ {0}
         /\ \A i \in 1..Len(SizesOf(l)) : l.first <= SizesOf(l)[i] /\ SizesOf(l)[i] <= l.last
         /\ \A i, j \in 1..Len(SizesOf(l)) : i <= j => SizesOf(l)[i] <= SizesOf(l)[j]
         /\ (\E n \in Nat : l.last = l.first + n * l.step)
              => SizesOf(l)[Len(SizesOf(l))] = l.last
<1> DEFINE a == l.first
           b == l.last
           s == l.step
           q == (b - a) \div s
<1>0. a \in Nat /\ b \in Nat /\ s \in Nat \ {0} /\ a <= b  OBVIOUS
<1> HIDE DEF a, b, s
<1>1. /\ q \in Nat
      /\ \A i \in 0..q : i * s \in Nat /\ a + i * s <= b
      /\ \A n \in Nat : b = a + n * s => q = n
  BY <1>0, LastRound
<1> HIDE DEF q
<1>2. SizesOf(l) = [i \in 1..(q + 1) |-> a + (i - 1) * s]  BY DEF SizesOf, q, a, b, s
<1>3. \A i \in 1..(q + 1) : /\ (i - 1) * s \in Nat /\ a + (i - 1) * s <= b
                            /\ SizesOf(l)[i] = a + (i - 1) * s
  <2> TAKE i \in 1..(q + 1)
  <2>1. i - 1 \in 0..q  BY <1>1
  <2> QED BY <1>1, <1>2, <2>1
<1>4. SizesOf(l) \in Seq(Nat) /\ Len(SizesOf(l)) = q + 1
  <2>1. \A i \in 1..(q + 1) : a + (i - 1) * s \in Nat  BY <1>0, <1>3
  <2>2. SizesOf(l) \in [1..(q + 1) -> Nat]  BY <1>2, <2>1
  <2>3. DOMAIN SizesOf(l) = 1..(q + 1)  BY <2>2
  <2> QED BY <1>1, <2>2, <2>3
<1>5. \A i \in 1..(q + 1) : a <= SizesOf(l)[i] /\ SizesOf(l)[i] <= b  BY <1>0, <1>3
<1>6. ASSUME NEW i \in 1..(q + 1), NEW j \in 1..(q + 1), i <= j
      PROVE  SizesOf(l)[i] <= SizesOf(l)[j]
  <2>1. i - 1 \in Nat /\ j - i \in Nat  BY <1>1, <1>6
  <2>2. (j - i) * s \in Nat  BY <2>1, <1>0
  <2>3. (j - 1) * s = (i - 1) * s + (j - i) * s  BY <2>1, <1>0
  <2> QED BY <1>0, <1>3, <2>2, <2>3
<1>7. ASSUME NEW n \in Nat, b = a + n * s
      PROVE  SizesOf(l)[q + 1] = b
  <2>1. q = n  BY <1>1, <1>7
  <2>2. SizesOf(l)[q + 1] = a + ((q + 1) - 1) * s  BY <1>1, <1>3
  <2>3. (q + 1) - 1 = n  BY <2>1
  <2> QED BY <1>7, <2>2, <2>3
<1>8. (\E n \in Nat : b = a + n * s) => SizesOf(l)[Len(SizesOf(l))] = b  BY <1>4, <1>7
<1>9. Len(SizesOf(l)) \in Nat \ {0} /\ 1..Len(SizesOf(l)) = 1..(q + 1)  BY <1>1, <1>4
<1> HIDE DEF SizesOf
<1> QED BY <1>4, <1>5, <1>6, <1>8, <1>9 DEF a, b, s

\* What the constructor has made after each loop, and that the recursion defines it.
Made(f, k) == f[k] = IF k = 0 THEN <<>> ELSE f[k - 1] \o SizesOf(Loops[k])

LEMMA LoopsAre ==
  /\ Len(Loops) \in Nat \ {0}
  /\ \A k \in 1..Len(Loops) :
       /\ Loops[k] \in [first : Nat, last : Nat, step : Nat \ {0}]
       /\ Loops[k].first <= Loops[k].last
  /\ \A k \in 2..Len(Loops) : Loops[k - 1].last <= Loops[k].first
<1> DEFINE Bounds == [first : Nat, last : Nat, step : Nat \ {0}]
<1>1. Loops \in Seq(Bounds) /\ Loops # <<>>  BY LoopAssumption DEF Ascend
<1>2. Len(Loops) \in Nat \ {0} /\ \A k \in 1..Len(Loops) : Loops[k] \in Bounds
  <2> HIDE DEF Bounds
  <2>1. Len(Loops) \in Nat /\ \A k \in 1..Len(Loops) : Loops[k] \in Bounds  BY <1>1
  <2>2. Len(Loops) # 0  BY <1>1, EmptySeq
  <2> QED BY <2>1, <2>2
<1> QED BY <1>2, LoopAssumption DEF Ascend

\* Sizes that ascend and do not exceed n.
UpTo(d, n) ==
  /\ d \in Seq(Nat) /\ \A i \in 1..Len(d) : d[i] <= n
  /\ \A i, j \in 1..Len(d) : i <= j => d[i] <= d[j]

LEMMA UpToMore ==
  ASSUME NEW d, NEW m \in Nat, UpTo(d, m), NEW k \in 1..Len(Loops), m <= Loops[k].first
  PROVE  /\ UpTo(d \o SizesOf(Loops[k]), Loops[k].last)
         /\ Len(d \o SizesOf(Loops[k])) # 0
         /\ (\E n \in Nat : Loops[k].last = Loops[k].first + n * Loops[k].step)
              => (d \o SizesOf(Loops[k]))[Len(d \o SizesOf(Loops[k]))] = Loops[k].last
<1> DEFINE l == Loops[k]
           e == SizesOf(l)
           f == d \o e
           a == l.first
           b == l.last
<1>1. l \in [first : Nat, last : Nat, step : Nat \ {0}] /\ a <= b /\ a \in Nat /\ b \in Nat
  BY LoopsAre
<1>2. /\ e \in Seq(Nat) /\ Len(e) \in Nat \ {0}
      /\ \A i \in 1..Len(e) : a <= e[i] /\ e[i] <= b
      /\ \A i, j \in 1..Len(e) : i <= j => e[i] <= e[j]
      /\ (\E n \in Nat : b = a + n * l.step) => e[Len(e)] = b
  BY <1>1, LoopAscends
<1>3. /\ d \in Seq(Nat) /\ \A i \in 1..Len(d) : d[i] <= m /\ d[i] \in Nat
      /\ \A i, j \in 1..Len(d) : i <= j => d[i] <= d[j]
      /\ Len(d) \in Nat
  BY DEF UpTo
<1>4. a >= m  OBVIOUS
<1> HIDE DEF l, e, a, b
<1>5. /\ f \in Seq(Nat) /\ Len(f) = Len(d) + Len(e)
      /\ \A i \in 1..Len(f) : f[i] = IF i <= Len(d) THEN d[i] ELSE e[i - Len(d)]
  BY <1>2, <1>3
<1> HIDE DEF f
<1>6. ASSUME NEW i \in 1..Len(f)
      PROVE  /\ i <= Len(d) => i \in 1..Len(d) /\ f[i] = d[i] /\ f[i] <= m
             /\ ~(i <= Len(d)) =>
                  i - Len(d) \in 1..Len(e) /\ f[i] = e[i - Len(d)] /\ a <= f[i] /\ f[i] <= b
             /\ f[i] \in Nat
  <2>0. i \in 1..(Len(d) + Len(e)) /\ Len(e) \in Nat /\ f[i] \in Nat  BY <1>2, <1>5
  <2>1. CASE i <= Len(d)
    <3>1. i \in 1..Len(d)  BY <1>3, <2>0, <2>1
    <3>2. f[i] = d[i]  BY <1>5, <2>1
    <3> QED BY <1>3, <2>0, <2>1, <3>1, <3>2
  <2>2. CASE ~(i <= Len(d))
    <3>1. i - Len(d) \in 1..Len(e)  BY <1>3, <2>0, <2>2
    <3>2. f[i] = e[i - Len(d)]  BY <1>5, <2>2
    <3>3. a <= e[i - Len(d)] /\ e[i - Len(d)] <= b  BY <1>2, <3>1
    <3> QED BY <2>0, <2>2, <3>1, <3>2, <3>3
  <2> QED BY <2>1, <2>2
<1>7. UpTo(f, b)
  <2>1. \A i \in 1..Len(f) : f[i] <= b  BY <1>1, <1>3, <1>4, <1>6
  <2>2. ASSUME NEW i \in 1..Len(f), NEW j \in 1..Len(f), i <= j  PROVE f[i] <= f[j]
    <3>0. i \in Int /\ j \in Int /\ f[i] \in Nat /\ f[j] \in Nat  BY <1>6
    <3>1. CASE j <= Len(d)
      <4>1. i <= Len(d)  BY <2>2, <3>0, <3>1, <1>3
      <4>2. i \in 1..Len(d) /\ j \in 1..Len(d) /\ f[i] = d[i] /\ f[j] = d[j]
        BY <1>6, <3>1, <4>1
      <4> QED BY <1>3, <2>2, <4>2
    <3>2. CASE ~(j <= Len(d)) /\ i <= Len(d)
      <4>1. f[i] <= m /\ a <= f[j]  BY <1>6, <3>2
      <4> QED BY <1>1, <1>4, <3>0, <4>1
    <3>3. CASE ~(j <= Len(d)) /\ ~(i <= Len(d))
      <4>1. i - Len(d) <= j - Len(d)  BY <1>3, <2>2, <3>0
      <4>2. /\ i - Len(d) \in 1..Len(e) /\ f[i] = e[i - Len(d)]
            /\ j - Len(d) \in 1..Len(e) /\ f[j] = e[j - Len(d)]
        BY <1>6, <3>3
      <4> QED BY <1>2, <4>1, <4>2
    <3> QED BY <3>1, <3>2, <3>3
  <2> QED BY <1>5, <2>1, <2>2 DEF UpTo
<1>8. Len(f) # 0  BY <1>2, <1>3, <1>5
<1>9. ASSUME \E n \in Nat : b = a + n * l.step  PROVE f[Len(f)] = b
  <2>1. Len(f) \in 1..Len(f) /\ ~(Len(f) <= Len(d)) /\ Len(f) - Len(d) = Len(e)
    BY <1>2, <1>3, <1>5
  <2> QED BY <1>2, <1>6, <1>9, <2>1
<1> QED BY <1>7, <1>8, <1>9 DEF f, l, e, a, b

\* The first k loops, and what they make together.
LEMMA PoolsExist ==
  \E g \in [0..Len(Loops) -> Seq(Nat)] : \A k \in 0..Len(Loops) : Made(g, k)
<1> DEFINE Good(n, g) == \A k \in 0..n : Made(g, k)
           S == {n \in Nat : n <= Len(Loops) /\ \A g \in [0..n -> Seq(Nat)] : ~Good(n, g)}
<1>0. Len(Loops) \in Nat  BY LoopsAre
<1>1. CASE S = {}
  <2>1. Len(Loops) \notin S  BY <1>1
  <2> QED BY <2>1, <1>0
<1>2. CASE S # {}
  <2>1. PICK m \in S : \A n \in S : m <= n
    <3>1. S \in SUBSET Nat  OBVIOUS
    <3> HIDE DEF S
    <3> QED BY <1>2, <3>1, LeastOf
  <2>2. m \in Nat /\ m <= Len(Loops) /\ \A g \in [0..m -> Seq(Nat)] : ~Good(m, g)  BY <2>1
  <2>3. CASE m = 0
    <3> DEFINE g == [k \in 0..m |-> <<>>]
    <3>1. g \in [0..m -> Seq(Nat)]  OBVIOUS
    <3>2. Good(m, g)
      <4> SUFFICES ASSUME NEW k \in 0..m  PROVE Made(g, k)  OBVIOUS
      <4>1. k = 0 /\ g[k] = <<>>  BY <2>3
      <4> QED BY <4>1 DEF Made
    <3> QED BY <2>2, <3>1, <3>2
  <2>4. CASE m # 0
    <3>1. m - 1 \in Nat /\ m - 1 <= Len(Loops) /\ ~(m <= m - 1)  BY <2>2, <2>4, <1>0
    <3>2. m - 1 \notin S  BY <2>1, <3>1
    <3>3. PICK g \in [0..(m - 1) -> Seq(Nat)] : Good(m - 1, g)  BY <3>1, <3>2
    <3> DEFINE last == g[m - 1] \o SizesOf(Loops[m])
               h == [k \in 0..m |-> IF k = m THEN last ELSE g[k]]
    <3>4. last \in Seq(Nat)
      <4>1. m \in 1..Len(Loops) /\ m - 1 \in 0..(m - 1)  BY <1>0, <2>2, <2>4
      <4>2. SizesOf(Loops[m]) \in Seq(Nat)  BY <4>1, LoopsAre, LoopAscends
      <4>3. g[m - 1] \in Seq(Nat)  BY <3>3, <4>1
      <4> HIDE DEF SizesOf
      <4> QED BY <4>2, <4>3
    <3> HIDE DEF last
    <3>5. h \in [0..m -> Seq(Nat)]
      <4>1. \A k \in 0..m : k # m => k \in 0..(m - 1)  BY <2>2
      <4> QED BY <3>3, <3>4, <4>1
    <3>6. Good(m, h)
      <4> SUFFICES ASSUME NEW k \in 0..m  PROVE Made(h, k)  OBVIOUS
      <4>1. k = 0 \/ (k - 1 \in 0..(m - 1) /\ h[k - 1] = g[k - 1])  BY <2>2
      <4>2. CASE k = m
        <5>1. h[k] = last /\ k # 0  BY <2>4, <4>2
        <5>2. last = h[k - 1] \o SizesOf(Loops[k])  BY <4>1, <4>2, <5>1 DEF last
        <5> HIDE DEF h
        <5> QED BY <5>1, <5>2 DEF Made
      <4>3. CASE k # m
        <5>1. k \in 0..(m - 1) /\ h[k] = g[k]  BY <2>2, <4>3
        <5>2. Made(g, k)  BY <3>3, <5>1
        <5> HIDE DEF h
        <5> QED BY <4>1, <5>1, <5>2 DEF Made
      <4> QED BY <4>2, <4>3
    <3> QED BY <2>2, <3>5, <3>6
  <2> QED BY <2>3, <2>4
<1> QED BY <1>1, <1>2

LEMMA PoolsMade ==
  \E g : poolSizes = g[Len(Loops)] /\ \A k \in 0..Len(Loops) : Made(g, k)
<1> DEFINE done == CHOOSE f : f = [k \in 0..Len(Loops) |->
                     IF k = 0 THEN <<>> ELSE f[k - 1] \o SizesOf(Loops[k])]
<1>1. PICK g \in [0..Len(Loops) -> Seq(Nat)] : \A k \in 0..Len(Loops) : Made(g, k)
  BY PoolsExist
<1>2. g = [k \in 0..Len(Loops) |-> IF k = 0 THEN <<>> ELSE g[k - 1] \o SizesOf(Loops[k])]
  BY <1>1 DEF Made
<1>3. done = [k \in 0..Len(Loops) |-> IF k = 0 THEN <<>> ELSE done[k - 1] \o SizesOf(Loops[k])]
  BY <1>2, Zenon
<1>4. poolSizes = done[Len(Loops)]  BY Zenon DEF poolSizes, PoolsOf
<1> HIDE DEF done
<1>5. \A k \in 0..Len(Loops) : Made(done, k)  BY <1>3 DEF Made
<1> QED BY <1>4, <1>5

\* The constructor of Memory makes pools whose sizes ascend to MAX_ALLOC_SIZE.
LEMMA PoolsAscend ==
  /\ poolSizes \in Seq(Nat) /\ MAX_ALLOC_SIZE \in Nat
  /\ \A p \in Pools : poolSizes[p] <= MAX_ALLOC_SIZE
  /\ \E p \in Pools : poolSizes[p] = MAX_ALLOC_SIZE
  /\ \A p, q \in Pools : p <= q => poolSizes[p] <= poolSizes[q]
<1> DEFINE n == Len(Loops)
<1>0. n \in Nat \ {0} /\ n \in 1..n  BY LoopsAre
<1>1. PICK g : poolSizes = g[n] /\ \A k \in 0..n : Made(g, k)  BY PoolsMade
<1> DEFINE end(k) == IF k = 0 THEN 0 ELSE Loops[k].last
           S == {k \in Nat : k <= n /\ ~UpTo(g[k], end(k))}
<1>2. \A k \in 1..n : /\ g[k] = g[k - 1] \o SizesOf(Loops[k])
                      /\ end(k - 1) \in Nat /\ end(k - 1) <= Loops[k].first
                      /\ end(k) = Loops[k].last
  <2> TAKE k \in 1..n
  <2>1. k \in 0..n /\ k # 0 /\ k - 1 \in Nat  BY <1>0
  <2>2. Made(g, k)  BY <1>1, <2>1
  <2>3. g[k] = g[k - 1] \o SizesOf(Loops[k])  BY <2>1, <2>2 DEF Made
  <2>4. CASE k = 1
    <3>1. end(k - 1) = 0  BY <2>4
    <3> QED BY <2>1, <2>3, <3>1, LoopsAre
  <2>5. CASE k # 1
    <3>1. k \in 2..n /\ k - 1 \in 1..n /\ k - 1 # 0  BY <1>0, <2>5
    <3>2. end(k - 1) = Loops[k - 1].last  BY <3>1
    <3> QED BY <2>1, <2>3, <3>1, <3>2, LoopsAre
  <2> QED BY <2>4, <2>5
<1>3. S = {}
  <2> SUFFICES ASSUME S # {}  PROVE FALSE  OBVIOUS
  <2>1. PICK m \in S : \A k \in S : m <= k
    <3>1. S \in SUBSET Nat  OBVIOUS
    <3> HIDE DEF S
    <3> QED BY <3>1, LeastOf
  <2>2. m \in Nat /\ m <= n /\ ~UpTo(g[m], end(m))  BY <2>1
  <2>3. CASE m = 0
    <3>1. 0 \in 0..n /\ Made(g, 0)  BY <1>0, <1>1
    <3>2. g[0] = <<>>  BY <3>1 DEF Made
    <3> QED BY <2>2, <2>3, <3>2 DEF UpTo
  <2>4. CASE m # 0
    <3>1. m \in 1..n /\ m - 1 \in Nat /\ m - 1 <= n /\ ~(m <= m - 1)  BY <2>2, <2>4, <1>0
    <3>2. m - 1 \notin S  BY <2>1, <3>1
    <3>3. UpTo(g[m - 1], end(m - 1))  BY <3>1, <3>2
    <3> HIDE DEF end
    <3>4. UpTo(g[m - 1] \o SizesOf(Loops[m]), Loops[m].last)
      BY <1>2, <3>1, <3>3, UpToMore
    <3>5. g[m] = g[m - 1] \o SizesOf(Loops[m]) /\ end(m) = Loops[m].last  BY <1>2, <3>1
    <3> QED BY <2>2, <3>4, <3>5
  <2> QED BY <2>3, <2>4
<1>4. n - 1 \in Nat /\ n - 1 <= n /\ n <= n  BY <1>0
<1>5. UpTo(g[n], end(n)) /\ UpTo(g[n - 1], end(n - 1))
  <2>1. n \notin S /\ n - 1 \notin S  BY <1>3
  <2> QED BY <1>0, <1>4, <2>1
<1> HIDE DEF end, S
<1>6. /\ Loops[n].last = MAX_ALLOC_SIZE /\ Loops[n].last \in Nat
      /\ \E i \in Nat : Loops[n].last = Loops[n].first + i * Loops[n].step
  <2> DEFINE a == Loops[n].first
             b == Loops[n].last
             s == Loops[n].step
  <2>1. a \in Nat /\ b \in Nat /\ s \in Nat \ {0} /\ a <= b  BY <1>0, LoopsAre
  <2>2. b = MAX_ALLOC_SIZE /\ (b - a) % s = 0  BY LoopAssumption DEF Ascend
  <2> HIDE DEF a, b, s
  <2>3. (b - a) \div s \in Nat  BY <2>1, LastRound
  <2>4. b - a = s * ((b - a) \div s) + 0  BY <2>1, <2>2
  <2>5. s * ((b - a) \div s) = ((b - a) \div s) * s  BY <2>1, <2>3
  <2>6. b = a + ((b - a) \div s) * s  BY <2>1, <2>3, <2>4, <2>5
  <2> QED BY <2>1, <2>2, <2>3, <2>6 DEF a, b, s
<1>7. /\ Len(g[n - 1] \o SizesOf(Loops[n])) # 0
      /\ (g[n - 1] \o SizesOf(Loops[n]))[Len(g[n - 1] \o SizesOf(Loops[n]))] = Loops[n].last
  BY <1>0, <1>2, <1>5, <1>6, UpToMore
<1>8. Len(poolSizes) # 0 /\ poolSizes[Len(poolSizes)] = MAX_ALLOC_SIZE
  BY <1>0, <1>1, <1>2, <1>6, <1>7
<1>9. UpTo(poolSizes, MAX_ALLOC_SIZE)  BY <1>0, <1>1, <1>2, <1>5, <1>6
<1>10. Len(poolSizes) \in Pools
  <2>1. Len(poolSizes) \in Nat  BY <1>9 DEF UpTo
  <2> QED BY <2>1, <1>8 DEF Pools
<1> QED BY <1>6, <1>8, <1>9, <1>10 DEF UpTo, Pools

LEMMA Constants ==
  /\ Len(poolSizes) \in Nat /\ Len(poolSizes) # 0
  /\ \A p \in Pools : poolSizes[p] \in Nat /\ p \in Nat /\ poolSizes[p] <= MAX_ALLOC_SIZE
  /\ MAX_ALLOC_SIZE \in Nat /\ HeaderSize \in Nat \ {0}
  /\ \E p \in Pools : poolSizes[p] = MAX_ALLOC_SIZE
<1>1. poolSizes \in Seq(Nat)  BY PoolsAscend
<1>2. Len(poolSizes) \in Nat /\ \A p \in Pools : poolSizes[p] \in Nat /\ p \in Nat
  BY <1>1 DEF Pools
<1> QED BY <1>2, PoolAssumption, PoolsAscend DEF Pools

\* The slot of a size is a place of the table that meets its definition.
LEMMA SlotMeets ==
  ASSUME NEW n \in Nat
  PROVE  /\ Slot(n) \in 1..(Len(poolSizes) + 1)
         /\ Slot(n) > Len(poolSizes) \/ n <= poolSizes[Slot(n)]
         /\ \A k \in 1..(Slot(n) - 1) : n > poolSizes[k]
<1> DEFINE last == Len(poolSizes)
           S == {i \in 1..(last + 1) : i > last \/ n <= poolSizes[i]}
<1>0. last \in Nat /\ \A p \in 1..last : poolSizes[p] \in Nat  BY Constants DEF Pools
<1>1. S \in SUBSET Nat /\ S # {}
  <2>1. last + 1 \in S  BY <1>0
  <2> QED BY <2>1
<1>2. PICK m \in S : \A i \in S : m <= i
  <2> HIDE DEF S
  <2> QED BY <1>1, LeastOf
<1>3. m \in 1..(last + 1) /\ (m > last \/ n <= poolSizes[m])  BY <1>2
<1>4. ASSUME NEW k \in 1..(m - 1)  PROVE n > poolSizes[k]
  <2>1. k \in 1..last /\ k \in Int /\ ~(m <= k) /\ m \in Int  BY <1>0, <1>3
  <2>2. k \notin S  BY <1>2, <2>1
  <2>3. ~(n <= poolSizes[k])  BY <2>1, <2>2, <1>0
  <2> QED BY <2>1, <2>3, <1>0
<1>5. \E i \in 1..(last + 1) :
        /\ i > last \/ n <= poolSizes[i]
        /\ \A k \in 1..(i - 1) : n > poolSizes[k]
  BY <1>3, <1>4
<1>6. LET i == CHOOSE i \in 1..(last + 1) :
                 /\ i > last \/ n <= poolSizes[i]
                 /\ \A k \in 1..(i - 1) : n > poolSizes[k]
      IN  /\ i \in 1..(last + 1) /\ (i > last \/ n <= poolSizes[i])
          /\ \A k \in 1..(i - 1) : n > poolSizes[k]
  BY <1>5, Zenon
<1> QED BY <1>6 DEF Slot, TableSlot

\* The constructor of Memory gives every size up to MAX_ALLOC_SIZE a pool with room for
\* it, and none smaller has (Memory::_poolTable), whatever the bounds of its loops.
THEOREM SmallestPool ==
  ASSUME NEW n \in Nat, n <= MAX_ALLOC_SIZE
  PROVE  /\ Slot(n) \in Pools /\ n <= poolSizes[Slot(n)]
         /\ \A p \in Pools : n <= poolSizes[p] => poolSizes[Slot(n)] <= poolSizes[p]
<1> DEFINE s == Slot(n)
           last == Len(poolSizes)
<1>0. /\ s \in 1..(last + 1) /\ (s > last \/ n <= poolSizes[s])
      /\ \A k \in 1..(s - 1) : n > poolSizes[k]
  BY SlotMeets
<1>1. last \in Nat /\ Pools = 1..last /\ s \in Int  BY <1>0, Constants DEF Pools
<1> HIDE DEF s, last
<1>2. \A p \in Pools : n <= poolSizes[p] => s <= p
  <2> SUFFICES ASSUME NEW p \in Pools, n <= poolSizes[p], p < s  PROVE FALSE  BY <1>1
  <2>1. p \in 1..(s - 1)  BY <1>1
  <2> QED BY <2>1, <1>0, Constants
<1>3. PICK q \in Pools : poolSizes[q] = MAX_ALLOC_SIZE  BY Constants
<1>4. s <= q  BY <1>2, <1>3
<1>5. s \in Pools  BY <1>0, <1>1, <1>4
<1>6. n <= poolSizes[s]  BY <1>0, <1>1, <1>5
<1>7. \A p \in Pools : n <= poolSizes[p] => poolSizes[s] <= poolSizes[p]
  BY <1>2, <1>5, PoolsAscend
<1> QED BY <1>5, <1>6, <1>7 DEF s

\* A larger size has none.
LEMMA SlotBeyond ==
  ASSUME NEW n \in Nat, n > MAX_ALLOC_SIZE
  PROVE  Slot(n) \notin Pools
<1>1. SUFFICES ASSUME Slot(n) \in Pools  PROVE FALSE  OBVIOUS
<1>2. n <= poolSizes[Slot(n)]  BY <1>1, SlotMeets, Constants DEF Pools
<1> QED BY <1>1, <1>2, Constants

\* A set that changes at one element.
LEMMA CardMove ==
  ASSUME NEW X, NEW Y, IsFiniteSet(X), IsFiniteSet(Y), NEW t,
         \A u : u # t => (u \in X <=> u \in Y)
  PROVE  /\ Cardinality(X) \in Nat /\ Cardinality(Y) \in Nat
         /\ Cardinality(Y) = Cardinality(X) + (IF t \in Y THEN 1 ELSE 0)
                                             - (IF t \in X THEN 1 ELSE 0)
<1>1. Cardinality(X) \in Nat /\ Cardinality(Y) \in Nat  BY FS_CardinalityType
<1>2. CASE t \in X /\ t \in Y
  <2>1. X = Y  BY <1>2
  <2> QED BY <2>1, <1>1, <1>2
<1>3. CASE t \notin X /\ t \notin Y
  <2>1. X = Y  BY <1>3
  <2> QED BY <2>1, <1>1, <1>3
<1>4. CASE t \in X /\ t \notin Y
  <2>1. X = Y \cup {t}  BY <1>4
  <2>2. Cardinality(Y \cup {t}) = Cardinality(Y) + 1  BY <1>4, FS_AddElement
  <2> QED BY <2>1, <2>2, <1>1, <1>4
<1>5. CASE t \notin X /\ t \in Y
  <2>1. Y = X \cup {t}  BY <1>5
  <2>2. Cardinality(X \cup {t}) = Cardinality(X) + 1  BY <1>5, FS_AddElement
  <2> QED BY <2>1, <2>2, <1>1, <1>5
<1> QED BY <1>2, <1>3, <1>4, <1>5

-----------------------------------------------------------------------------
(* What the steps of a thread do to the counts and the places.              *)

InAt(t, p, labels) ==
  IF pc[t] \in labels /\ size[t] <= MAX_ALLOC_SIZE /\ Pool(t) = p THEN 1 ELSE 0

LEMMA AtStep ==
  ASSUME NEW t \in Threads, NEW p, NEW labels,
         \A u \in Threads : u # t => pc'[u] = pc[u] /\ size'[u] = size[u]
  PROVE  /\ At(p, labels) \in Nat /\ At(p, labels)' \in Nat
         /\ At(p, labels)' = At(p, labels) + InAt(t, p, labels)' - InAt(t, p, labels)
<1> DEFINE In(u)  == pc[u] \in labels /\ size[u] <= MAX_ALLOC_SIZE /\ Pool(u) = p
           Inp(u) == pc'[u] \in labels /\ size'[u] <= MAX_ALLOC_SIZE
                       /\ TableSlot(poolSizes, size'[u]) = p
           X == {u \in Threads : In(u)}
           Y == {u \in Threads : Inp(u)}
<1>1. \A u : u # t => (u \in X <=> u \in Y)
  <2> TAKE u
  <2> HAVE u # t
  <2>1. CASE u \notin Threads  BY <2>1
  <2>2. CASE u \in Threads
    <3>1. In(u) <=> Inp(u)  BY <2>2 DEF Pool
    <3> QED BY <2>2, <3>1
  <2> QED BY <2>1, <2>2
<1>2. IsFiniteSet(X) /\ IsFiniteSet(Y)  BY PoolAssumption, FS_Subset
<1>3. At(p, labels) = Cardinality(X) /\ At(p, labels)' = Cardinality(Y)  BY DEF At, Pool
<1>4. /\ InAt(t, p, labels) = (IF t \in X THEN 1 ELSE 0)
      /\ InAt(t, p, labels)' = (IF t \in Y THEN 1 ELSE 0)
  BY DEF InAt, Pool
<1> HIDE DEF X, Y
<1>5. /\ Cardinality(X) \in Nat /\ Cardinality(Y) \in Nat
      /\ Cardinality(Y) = Cardinality(X) + (IF t \in Y THEN 1 ELSE 0) - (IF t \in X THEN 1 ELSE 0)
  BY <1>1, <1>2, CardMove
<1> QED BY <1>3, <1>4, <1>5

\* The blocks of pool p that the program has.
UsedOf(p)   == Cardinality({b \in used : TableSlot(poolSizes, allocSize[b]) = p})
InUse(b, p) == IF b \in used /\ Slot(allocSize[b]) = p THEN 1 ELSE 0

LEMMA UsedStep ==
  ASSUME NEW b, NEW p, used \subseteq Blocks, used' \subseteq Blocks,
         \A c \in Blocks : c # b => (c \in used <=> c \in used') /\ allocSize'[c] = allocSize[c]
  PROVE  /\ UsedOf(p) \in Nat /\ UsedOf(p)' \in Nat
         /\ UsedOf(p)' = UsedOf(p) + InUse(b, p)' - InUse(b, p)
<1> DEFINE X == {c \in used : TableSlot(poolSizes, allocSize[c]) = p}
           Y == {c \in used' : TableSlot(poolSizes, allocSize'[c]) = p}
<1>1. \A c : c # b => (c \in X <=> c \in Y)  OBVIOUS
<1>2. IsFiniteSet(X) /\ IsFiniteSet(Y)
  <2>1. X \subseteq Blocks /\ Y \subseteq Blocks  OBVIOUS
  <2> HIDE DEF X, Y
  <2> QED BY <2>1, PoolAssumption, FS_Subset
<1>3. UsedOf(p) = Cardinality(X) /\ UsedOf(p)' = Cardinality(Y)  BY DEF UsedOf
<1>4. /\ InUse(b, p) = (IF b \in X THEN 1 ELSE 0)
      /\ InUse(b, p)' = (IF b \in Y THEN 1 ELSE 0)
  BY DEF InUse, Slot
<1> HIDE DEF X, Y
<1>5. /\ Cardinality(X) \in Nat /\ Cardinality(Y) \in Nat
      /\ Cardinality(Y) = Cardinality(X) + (IF b \in Y THEN 1 ELSE 0) - (IF b \in X THEN 1 ELSE 0)
  BY <1>1, <1>2, CardMove
<1> QED BY <1>3, <1>4, <1>5

\* A call gets a block that no call has, or gives its block away.
LEMMA CallGets ==
  ASSUME TypeInv, CallsApart, NEW t \in Threads, block[t] = None, NEW b \in Blocks, ~InCall(b),
         block' = [block EXCEPT ![t] = b]
  PROVE  CallsApart' /\ \A c \in Blocks : InCall(c)' <=> InCall(c) \/ c = b
<1>1. /\ block \in [Threads -> Blocks \cup {None}] /\ None \notin Blocks
      /\ block'[t] = b /\ \A u \in Threads : u # t => block'[u] = block[u]
  BY PoolAssumption DEF TypeInv
<1>2. \A u \in Threads : block[u] # b  BY DEF InCall
<1>3. CallsApart'
  <2> SUFFICES ASSUME NEW u \in Threads, NEW w \in Threads, u # w, block'[u] # None
               PROVE  block'[u] # block'[w]
    BY DEF CallsApart
  <2> QED BY <1>1, <1>2 DEF CallsApart
<1>4. \A c \in Blocks : InCall(c)' <=> InCall(c) \/ c = b  BY <1>1 DEF InCall
<1> QED BY <1>3, <1>4

LEMMA CallGives ==
  ASSUME TypeInv, CallsApart, NEW t \in Threads, block[t] # None,
         block' = [block EXCEPT ![t] = None]
  PROVE  CallsApart' /\ \A c \in Blocks : InCall(c)' <=> InCall(c) /\ c # block[t]
<1>1. /\ block \in [Threads -> Blocks \cup {None}] /\ None \notin Blocks
      /\ block'[t] = None /\ \A u \in Threads : u # t => block'[u] = block[u]
  BY PoolAssumption DEF TypeInv
<1>2. CallsApart'
  <2> SUFFICES ASSUME NEW u \in Threads, NEW w \in Threads, u # w, block'[u] # None
               PROVE  block'[u] # block'[w]
    BY DEF CallsApart
  <2> QED BY <1>1 DEF CallsApart
<1>3. \A c \in Blocks : InCall(c)' <=> InCall(c) /\ c # block[t]
  BY <1>1 DEF InCall, CallsApart
<1> QED BY <1>2, <1>3

\* A sequence with a new head, and without its head.
LEMMA Pushed ==
  ASSUME NEW A, NEW s \in Seq(A), NEW x \in A
  PROVE  /\ <<x>> \o s \in Seq(A) /\ Len(<<x>> \o s) = Len(s) + 1 /\ Len(s) \in Nat
         /\ (<<x>> \o s)[1] = x
         /\ \A i \in 1..(Len(s) + 1) : i # 1 => i - 1 \in 1..Len(s) /\ (<<x>> \o s)[i] = s[i - 1]
OBVIOUS

LEMMA Popped ==
  ASSUME NEW A, NEW s \in Seq(A), s # <<>>
  PROVE  /\ Tail(s) \in Seq(A) /\ Len(Tail(s)) = Len(s) - 1 /\ Len(s) \in Nat \ {0}
         /\ Head(s) = s[1] /\ 1 \in 1..Len(s) /\ Head(s) \in A
         /\ \A i \in 1..(Len(s) - 1) : Tail(s)[i] = s[i + 1] /\ i + 1 \in 1..Len(s)
OBVIOUS

LEMMA CallsSame ==
  ASSUME block' = block, CallsApart
  PROVE  CallsApart' /\ \A c \in Blocks : InCall(c)' <=> InCall(c)
BY DEF CallsApart, InCall

LEMMA ListsSame ==
  ASSUME list' = list, ListsApart
  PROVE  ListsApart' /\ \A c \in Blocks : OnList(c)' <=> OnList(c)
<1>1. ListsApart'  BY DEF ListsApart
<1>2. \A c \in Blocks : OnList(c)' <=> OnList(c)  BY DEF OnList
<1> QED BY <1>1, <1>2

\* A step that moves no block.
LEMMA PlaceSame ==
  ASSUME PlaceInv, UNCHANGED <<heap, used, block, list>>
  PROVE  PlaceInv'
<1>1. CallsApart' /\ \A c \in Blocks : InCall(c)' <=> InCall(c)  BY CallsSame DEF PlaceInv
<1>2. ListsApart' /\ \A c \in Blocks : OnList(c)' <=> OnList(c)  BY ListsSame DEF PlaceInv
<1>3. NowhereElse' /\ Somewhere'
  BY <1>1, <1>2 DEF PlaceInv, NowhereElse, Somewhere
<1> QED BY <1>1, <1>2, <1>3 DEF PlaceInv

LEMMA ListGets ==
  ASSUME TypeInv, ListsApart, NEW q \in Pools, NEW b \in Blocks, ~OnList(b),
         list' = [list EXCEPT ![q] = <<b>> \o @]
  PROVE  /\ list' \in [Pools -> Seq(Blocks)] /\ ListsApart'
         /\ Len(list'[q]) = Len(list[q]) + 1 /\ \A p \in Pools : p # q => list'[p] = list[p]
         /\ list'[q][1] = b
         /\ \A i \in 1..Len(list'[q]) : i # 1 => i - 1 \in 1..Len(list[q]) /\ list'[q][i] = list[q][i - 1]
         /\ \A c \in Blocks : OnList(c)' <=> OnList(c) \/ c = b
<1>0. list \in [Pools -> Seq(Blocks)]  BY DEF TypeInv
<1>1. list[q] \in Seq(Blocks)  BY <1>0
<1>2. list'[q] = <<b>> \o list[q] /\ \A p \in Pools : p # q => list'[p] = list[p]  BY <1>0
<1> DEFINE s == list[q]
           w == list'[q]
<1>3. /\ w \in Seq(Blocks) /\ Len(w) = Len(s) + 1 /\ Len(s) \in Nat /\ w[1] = b
      /\ \A i \in 1..(Len(s) + 1) : i # 1 => i - 1 \in 1..Len(s) /\ w[i] = s[i - 1]
  BY <1>1, <1>2, Pushed
<1>4. list' \in [Pools -> Seq(Blocks)]  BY <1>0, <1>2, <1>3
<1>5. \A p \in Pools : \A i \in 1..Len(list[p]) : list[p][i] # b  BY DEF OnList
<1>6. ListsApart'
  <2> SUFFICES ASSUME NEW p1 \in Pools, NEW p2 \in Pools,
                      NEW i \in 1..Len(list'[p1]), NEW j \in 1..Len(list'[p2]),
                      list'[p1][i] = list'[p2][j]
               PROVE  p1 = p2 /\ i = j
    BY DEF ListsApart
  <2>0. i \in Int /\ j \in Int  OBVIOUS
  <2>1. CASE p1 # q /\ p2 # q  BY <2>1, <1>2 DEF ListsApart
  <2>2. CASE p1 = q /\ p2 # q
    <3>1. list'[p2] = list[p2]  BY <2>2, <1>2
    <3>2. i # 1  BY <3>1, <1>5, <1>3, <2>2
    <3>3. i - 1 \in 1..Len(s) /\ w[i] = s[i - 1]  BY <3>2, <1>3, <2>2
    <3> QED BY <3>1, <3>3, <2>2 DEF ListsApart
  <2>3. CASE p1 # q /\ p2 = q
    <3>1. list'[p1] = list[p1]  BY <2>3, <1>2
    <3>2. j # 1  BY <3>1, <1>5, <1>3, <2>3
    <3>3. j - 1 \in 1..Len(s) /\ w[j] = s[j - 1]  BY <3>2, <1>3, <2>3
    <3> QED BY <3>1, <3>3, <2>3 DEF ListsApart
  <2>4. CASE p1 = q /\ p2 = q
    <3>1. i # 1 => i - 1 \in 1..Len(s) /\ w[i] = s[i - 1]  BY <1>3, <2>4
    <3>2. j # 1 => j - 1 \in 1..Len(s) /\ w[j] = s[j - 1]  BY <1>3, <2>4
    <3>3. CASE i = 1 \/ j = 1  BY <3>1, <3>2, <3>3, <1>3, <1>5, <2>4
    <3>4. CASE i # 1 /\ j # 1
      <4>0. s[i - 1] = s[j - 1] /\ i - 1 \in 1..Len(s) /\ j - 1 \in 1..Len(s)
        BY <3>1, <3>2, <3>4, <2>4
      <4>1. i - 1 = j - 1  BY <4>0 DEF ListsApart
      <4> QED BY <4>1, <2>0, <2>4
    <3> QED BY <3>3, <3>4
  <2> QED BY <2>1, <2>2, <2>3, <2>4
<1>7. ASSUME NEW c \in Blocks  PROVE OnList(c)' <=> OnList(c) \/ c = b
  <2>1. ASSUME OnList(c)'  PROVE OnList(c) \/ c = b
    <3>1. PICK p \in Pools : \E i \in 1..Len(list'[p]) : list'[p][i] = c  BY <2>1 DEF OnList
    <3>2. PICK i \in 1..Len(list'[p]) : list'[p][i] = c  BY <3>1
    <3>3. CASE p # q  BY <3>2, <3>3, <1>2 DEF OnList
    <3>4. CASE p = q
      <4>1. CASE i = 1  BY <4>1, <3>4, <3>2, <1>3
      <4>2. CASE i # 1
        <5>1. i - 1 \in 1..Len(s) /\ w[i] = s[i - 1]  BY <4>2, <3>4, <1>3
        <5> QED BY <5>1, <3>2, <3>4 DEF OnList
      <4> QED BY <4>1, <4>2
    <3> QED BY <3>3, <3>4
  <2>2. ASSUME OnList(c)  PROVE OnList(c)'
    <3>1. PICK p \in Pools : \E i \in 1..Len(list[p]) : list[p][i] = c  BY <2>2 DEF OnList
    <3>2. PICK i \in 1..Len(list[p]) : list[p][i] = c  BY <3>1
    <3>3. CASE p # q  BY <3>2, <3>3, <1>2 DEF OnList
    <3>4. CASE p = q
      <4>1. i + 1 \in 1..(Len(s) + 1) /\ i + 1 # 1 /\ (i + 1) - 1 = i  BY <3>4, <1>3
      <4>2. w[i + 1] = s[i] /\ i + 1 \in 1..Len(w)  BY <4>1, <1>3
      <4> QED BY <4>2, <3>2, <3>4 DEF OnList
    <3> QED BY <3>3, <3>4
  <2>3. 1 \in 1..Len(w) /\ w[1] = b  BY <1>3
  <2>4. OnList(b)'  BY <2>3 DEF OnList
  <2> QED BY <2>1, <2>2, <2>4
<1> QED BY <1>2, <1>3, <1>4, <1>6, <1>7

LEMMA ListGives ==
  ASSUME TypeInv, ListsApart, NEW q \in Pools, list[q] # <<>>,
         list' = [list EXCEPT ![q] = Tail(@)]
  PROVE  /\ list' \in [Pools -> Seq(Blocks)] /\ ListsApart'
         /\ Head(list[q]) \in Blocks /\ Head(list[q]) = list[q][1] /\ 1 \in 1..Len(list[q])
         /\ Len(list'[q]) = Len(list[q]) - 1 /\ \A p \in Pools : p # q => list'[p] = list[p]
         /\ \A i \in 1..Len(list'[q]) : i + 1 \in 1..Len(list[q]) /\ list'[q][i] = list[q][i + 1]
         /\ \A c \in Blocks : OnList(c)' <=> OnList(c) /\ c # Head(list[q])
<1>0. list \in [Pools -> Seq(Blocks)]  BY DEF TypeInv
<1>1. list[q] \in Seq(Blocks)  BY <1>0
<1>2. list'[q] = Tail(list[q]) /\ \A p \in Pools : p # q => list'[p] = list[p]  BY <1>0
<1> DEFINE s == list[q]
           w == list'[q]
<1>3. /\ w \in Seq(Blocks) /\ Len(w) = Len(s) - 1 /\ Len(s) \in Nat \ {0}
      /\ Head(s) = s[1] /\ 1 \in 1..Len(s) /\ Head(s) \in Blocks
      /\ \A i \in 1..(Len(s) - 1) : w[i] = s[i + 1] /\ i + 1 \in 1..Len(s)
  <2>1. /\ Tail(s) \in Seq(Blocks) /\ Len(Tail(s)) = Len(s) - 1 /\ Len(s) \in Nat \ {0}
        /\ Head(s) = s[1] /\ 1 \in 1..Len(s) /\ Head(s) \in Blocks
        /\ \A i \in 1..(Len(s) - 1) : Tail(s)[i] = s[i + 1] /\ i + 1 \in 1..Len(s)
    <3>1. s \in Seq(Blocks) /\ s # <<>>  BY <1>1
    <3> HIDE DEF s
    <3> QED BY <3>1, Popped, Zenon
  <2>2. w = Tail(s)  BY <1>2
  <2> HIDE DEF s, w
  <2> QED BY <2>1, <2>2
<1>4. list' \in [Pools -> Seq(Blocks)]  BY <1>0, <1>2, <1>3
<1>5. \A i \in 1..Len(w) : w[i] = s[i + 1] /\ i + 1 \in 1..Len(s) /\ i + 1 # 1  BY <1>3
<1>6. ListsApart'
  <2> SUFFICES ASSUME NEW p1 \in Pools, NEW p2 \in Pools,
                      NEW i \in 1..Len(list'[p1]), NEW j \in 1..Len(list'[p2]),
                      list'[p1][i] = list'[p2][j]
               PROVE  p1 = p2 /\ i = j
    BY DEF ListsApart
  <2>0. i \in Int /\ j \in Int  OBVIOUS
  <2>1. CASE p1 # q /\ p2 # q  BY <2>1, <1>2 DEF ListsApart
  <2>2. CASE p1 = q /\ p2 # q
    <3>1. list'[p2] = list[p2]  BY <2>2, <1>2
    <3>2. i + 1 \in 1..Len(s) /\ w[i] = s[i + 1]  BY <1>5, <2>2
    <3> QED BY <3>1, <3>2, <2>2 DEF ListsApart
  <2>3. CASE p1 # q /\ p2 = q
    <3>1. list'[p1] = list[p1]  BY <2>3, <1>2
    <3>2. j + 1 \in 1..Len(s) /\ w[j] = s[j + 1]  BY <1>5, <2>3
    <3> QED BY <3>1, <3>2, <2>3 DEF ListsApart
  <2>4. CASE p1 = q /\ p2 = q
    <3>1. i + 1 \in 1..Len(s) /\ j + 1 \in 1..Len(s) /\ s[i + 1] = s[j + 1]  BY <1>5, <2>4
    <3>2. i + 1 = j + 1  BY <3>1 DEF ListsApart
    <3> QED BY <3>2, <2>0, <2>4
  <2> QED BY <2>1, <2>2, <2>3, <2>4
<1>7. ASSUME NEW c \in Blocks  PROVE OnList(c)' <=> OnList(c) /\ c # Head(s)
  <2>1. ASSUME OnList(c)'  PROVE OnList(c) /\ c # Head(s)
    <3>1. PICK p \in Pools : \E i \in 1..Len(list'[p]) : list'[p][i] = c  BY <2>1 DEF OnList
    <3>2. PICK i \in 1..Len(list'[p]) : list'[p][i] = c  BY <3>1
    <3>3. CASE p # q
      <4>1. list[p][i] = c /\ i \in 1..Len(list[p])  BY <3>2, <3>3, <1>2
      <4>2. c # s[1]  BY <4>1, <1>3, <3>3 DEF ListsApart
      <4> QED BY <4>1, <4>2, <1>3 DEF OnList
    <3>4. CASE p = q
      <4>1. s[i + 1] = c /\ i + 1 \in 1..Len(s) /\ i + 1 # 1  BY <3>2, <3>4, <1>5
      <4>2. c # s[1]  BY <4>1, <1>3 DEF ListsApart
      <4> QED BY <4>1, <4>2, <1>3 DEF OnList
    <3> QED BY <3>3, <3>4
  <2>2. ASSUME OnList(c), c # Head(s)  PROVE OnList(c)'
    <3>1. PICK p \in Pools : \E i \in 1..Len(list[p]) : list[p][i] = c  BY <2>2 DEF OnList
    <3>2. PICK i \in 1..Len(list[p]) : list[p][i] = c  BY <3>1
    <3>3. CASE p # q  BY <3>2, <3>3, <1>2 DEF OnList
    <3>4. CASE p = q
      <4>0. i # 1  BY <2>2, <3>2, <3>4, <1>3
      <4>1. i - 1 \in 1..(Len(s) - 1) /\ (i - 1) + 1 = i  BY <4>0, <3>4, <1>3
      <4>2. w[i - 1] = s[i] /\ i - 1 \in 1..Len(w)  BY <4>1, <1>3
      <4> QED BY <4>2, <3>2, <3>4 DEF OnList
    <3> QED BY <3>3, <3>4
  <2> QED BY <2>1, <2>2
<1> QED BY <1>2, <1>3, <1>4, <1>5, <1>6, <1>7

\* The counters stay right when a step of thread t changes them by what it changes
\* in what they count.
UseLabels     == {"attach", "push", "pushed"}
ReserveLabels == {"pushed", "reserve"}

LEMMA Balance ==
  ASSUME NEW n \in Int, NEW m \in Int, NEW A \in Int, NEW B \in Int, NEW C \in Int, NEW D \in Int,
         NEW a \in Int, NEW b \in Int, NEW c \in Int, NEW d \in Int, NEW x, NEW y,
         x = n + A - C, y = x + (m - n) + (b - a) - (d - c), B = A + b - a, D = C + d - c
  PROVE  y = m + B - D
OBVIOUS

LEMMA CountersStep ==
  ASSUME TypeInv, TypeInv', CountersLag, Running, NEW t \in Threads, NEW b,
         \A u \in Threads : u # t => pc'[u] = pc[u] /\ size'[u] = size[u],
         \A c \in Blocks : c # b => (c \in used <=> c \in used') /\ allocSize'[c] = allocSize[c],
         \A p \in Pools :
           /\ useCount'[p] = useCount[p] + (InUse(b, p)' - InUse(b, p))
                + (InAt(t, p, UseLabels)' - InAt(t, p, UseLabels))
           /\ reserveCount'[p] = reserveCount[p] + (Len(list'[p]) - Len(list[p]))
                + (InAt(t, p, {"popped"})' - InAt(t, p, {"popped"}))
                - (InAt(t, p, ReserveLabels)' - InAt(t, p, ReserveLabels))
  PROVE  CountersLag'
<1> SUFFICES ASSUME NEW p \in Pools
             PROVE  /\ useCount'[p] = UsedOf(p)' + At(p, UseLabels)'
                    /\ reserveCount'[p] = Len(list'[p]) + At(p, {"popped"})' - At(p, ReserveLabels)'
  BY DEF CountersLag, UsedOf, UseLabels, ReserveLabels
<1>1. /\ useCount[p] = UsedOf(p) + At(p, UseLabels)
      /\ reserveCount[p] = Len(list[p]) + At(p, {"popped"}) - At(p, ReserveLabels)
  BY DEF CountersLag, UsedOf, UseLabels, ReserveLabels
<1>2. /\ UsedOf(p) \in Nat /\ UsedOf(p)' \in Nat
      /\ UsedOf(p)' = UsedOf(p) + InUse(b, p)' - InUse(b, p)
  BY UsedStep DEF TypeInv
<1>3. /\ At(p, UseLabels) \in Nat /\ At(p, UseLabels)' \in Nat
      /\ At(p, UseLabels)' = At(p, UseLabels) + InAt(t, p, UseLabels)' - InAt(t, p, UseLabels)
  BY AtStep
<1>4. /\ At(p, {"popped"}) \in Nat /\ At(p, {"popped"})' \in Nat
      /\ At(p, {"popped"})' = At(p, {"popped"}) + InAt(t, p, {"popped"})' - InAt(t, p, {"popped"})
  BY AtStep
<1>5. /\ At(p, ReserveLabels) \in Nat /\ At(p, ReserveLabels)' \in Nat
      /\ At(p, ReserveLabels)' = At(p, ReserveLabels) + InAt(t, p, ReserveLabels)'
                                   - InAt(t, p, ReserveLabels)
  BY AtStep
<1>6. /\ InUse(b, p) \in Int /\ InUse(b, p)' \in Int
      /\ InAt(t, p, UseLabels) \in Int /\ InAt(t, p, UseLabels)' \in Int
      /\ InAt(t, p, {"popped"}) \in Int /\ InAt(t, p, {"popped"})' \in Int
      /\ InAt(t, p, ReserveLabels) \in Int /\ InAt(t, p, ReserveLabels)' \in Int
  BY DEF InUse, InAt
<1>7. Len(list[p]) \in Nat /\ Len(list'[p]) \in Nat
  <2>1. list \in [Pools -> Seq(Blocks)] /\ list' \in [Pools -> Seq(Blocks)]  BY DEF TypeInv
  <2>2. list[p] \in Seq(Blocks) /\ list'[p] \in Seq(Blocks)  BY <2>1
  <2> QED BY <2>2
<1>8. useCount'[p] = UsedOf(p)' + At(p, UseLabels)'
  <2>1. useCount'[p] = useCount[p] + (InUse(b, p)' - InUse(b, p))
          + (InAt(t, p, UseLabels)' - InAt(t, p, UseLabels))
    OBVIOUS
  <2> QED BY <1>1, <1>2, <1>3, <1>6, <2>1
<1>9. reserveCount'[p] = Len(list'[p]) + At(p, {"popped"})' - At(p, ReserveLabels)'
  <2> DEFINE n == Len(list[p])
             m == Len(list'[p])
  <2>1. n \in Nat /\ m \in Nat  BY <1>7
  <2>2. reserveCount[p] = n + At(p, {"popped"}) - At(p, ReserveLabels)  BY <1>1
  <2>3. reserveCount'[p] = reserveCount[p] + (m - n)
          + (InAt(t, p, {"popped"})' - InAt(t, p, {"popped"}))
          - (InAt(t, p, ReserveLabels)' - InAt(t, p, ReserveLabels))
    OBVIOUS
  <2> DEFINE A == At(p, {"popped"})
             B == At(p, {"popped"})'
             C == At(p, ReserveLabels)
             D == At(p, ReserveLabels)'
             ia == InAt(t, p, {"popped"})
             ib == InAt(t, p, {"popped"})'
             ic == InAt(t, p, ReserveLabels)
             id == InAt(t, p, ReserveLabels)'
             x == reserveCount[p]
             y == reserveCount'[p]
  <2>4. /\ n \in Int /\ m \in Int /\ A \in Int /\ B \in Int /\ C \in Int /\ D \in Int
        /\ ia \in Int /\ ib \in Int /\ ic \in Int /\ id \in Int
    BY <2>1, <1>4, <1>5, <1>6
  <2>5. /\ x = n + A - C /\ y = x + (m - n) + (ib - ia) - (id - ic)
        /\ B = A + ib - ia /\ D = C + id - ic
    BY <2>2, <2>3, <1>4, <1>5
  <2>6. y = m + B - D
    <3> HIDE DEF n, m, A, B, C, D, ia, ib, ic, id, x, y
    <3> QED BY <2>4, <2>5, Balance
  <2> QED BY <2>6
<1> QED BY <1>8, <1>9

LEMMA LenNat ==
  ASSUME TypeInv, NEW p \in Pools  PROVE Len(list[p]) \in Nat
<1>1. list \in [Pools -> Seq(Blocks)]  BY DEF TypeInv
<1>2. list[p] \in Seq(Blocks)  BY <1>1
<1> QED BY <1>2

\* A step that changes the counters and no block.
LEMMA CountersOnly ==
  ASSUME TypeInv, TypeInv', CountersLag, Running, NEW t \in Threads,
         \A u \in Threads : u # t => pc'[u] = pc[u] /\ size'[u] = size[u],
         UNCHANGED <<used, allocSize, list>>,
         \A p \in Pools :
           /\ useCount'[p] = useCount[p] + (InAt(t, p, UseLabels)' - InAt(t, p, UseLabels))
           /\ reserveCount'[p] = reserveCount[p]
                + (InAt(t, p, {"popped"})' - InAt(t, p, {"popped"}))
                - (InAt(t, p, ReserveLabels)' - InAt(t, p, ReserveLabels))
  PROVE  CountersLag'
<1>1. ASSUME NEW p \in Pools
      PROVE  /\ useCount'[p] = useCount[p] + (InUse(None, p)' - InUse(None, p))
                   + (InAt(t, p, UseLabels)' - InAt(t, p, UseLabels))
             /\ reserveCount'[p] = reserveCount[p] + (Len(list'[p]) - Len(list[p]))
                  + (InAt(t, p, {"popped"})' - InAt(t, p, {"popped"}))
                  - (InAt(t, p, ReserveLabels)' - InAt(t, p, ReserveLabels))
  <2>1. InUse(None, p)' - InUse(None, p) = 0  BY DEF InUse
  <2>2. Len(list'[p]) - Len(list[p]) = 0  BY LenNat
  <2>3. useCount[p] \in Int /\ reserveCount[p] \in Int  BY DEF TypeInv
  <2>4. useCount[p] + 0 = useCount[p] /\ reserveCount[p] + 0 = reserveCount[p]  BY <2>3
  <2> QED BY <2>1, <2>2, <2>4
<1> QED BY <1>1, CountersStep

\* Nothing is counted of a process that has ended.
LEMMA CountersEnd ==
  ASSUME crash' # "none"  PROVE CountersLag'
BY DEF CountersLag, Running

LEMMA PoolIs ==
  ASSUME TypeInv, NEW t \in Threads, pc[t] \in Pooled
  PROVE  /\ Pool(t) \in Pools /\ Pool(t) = Slot(size[t]) /\ size[t] \in Nat
         /\ size[t] <= MAX_ALLOC_SIZE /\ size[t] >= HeaderSize
<1>1. size[t] \in Nat /\ size[t] <= MAX_ALLOC_SIZE /\ pc[t] # "idle"  BY DEF TypeInv, Pooled
<1>2. size[t] >= HeaderSize  BY <1>1 DEF TypeInv
<1>3. Slot(size[t]) \in Pools  BY <1>1, SmallestPool
<1> QED BY <1>1, <1>2, <1>3 DEF Pool, Slot

-----------------------------------------------------------------------------
(* The initial states, and one lemma per action.                            *)

LEMMA InitIInv == Init => IInv
<1> SUFFICES ASSUME Init  PROVE IInv  OBVIOUS
<1>1. TypeInv
  BY PoolAssumption DEF Init, TypeInv, Labels, Holding, Pooled
<1>2. (\A t \in Threads : block[t] = None) /\ (\A p \in Pools : Len(list[p]) = 0)
  BY DEF Init
<1>3. (\A b \in Blocks : ~InCall(b)) /\ (\A b \in Blocks : ~OnList(b))
  BY <1>2, PoolAssumption DEF InCall, OnList
<1>4. NowhereElse /\ Somewhere /\ CallsApart /\ ListsApart
  BY <1>2, <1>3 DEF Init, NowhereElse, Somewhere, CallsApart, ListsApart
<1>5. SizeInv  BY <1>2 DEF Init, SizeInv
<1>6. CountersLag
  <2> SUFFICES ASSUME NEW p \in Pools
               PROVE  /\ useCount[p] = UsedOf(p) + At(p, UseLabels)
                      /\ reserveCount[p] = Len(list[p]) + At(p, {"popped"}) - At(p, ReserveLabels)
    BY DEF CountersLag, UsedOf, UseLabels, ReserveLabels
  <2>1. UsedOf(p) = 0
    <3>1. {b \in used : TableSlot(poolSizes, allocSize[b]) = p} = {}  BY DEF Init
    <3> QED BY <3>1, FS_EmptySet DEF UsedOf
  <2>2. ASSUME NEW labels, "idle" \notin labels  PROVE At(p, labels) = 0
    <3>1. {t \in Threads : pc[t] \in labels /\ size[t] <= MAX_ALLOC_SIZE /\ Pool(t) = p} = {}
      BY <2>2 DEF Init
    <3> QED BY <3>1, FS_EmptySet DEF At
  <2>3. At(p, UseLabels) = 0  BY <2>2 DEF UseLabels
  <2>4. At(p, {"popped"}) = 0  BY <2>2
  <2>5. At(p, ReserveLabels) = 0  BY <2>2 DEF ReserveLabels
  <2> QED BY <2>1, <2>3, <2>4, <2>5, <1>2 DEF Init
<1> QED BY <1>1, <1>4, <1>5, <1>6 DEF IInv, PlaceInv

\* The process ends for want of memory.
LEMMA EndIInv ==
  ASSUME IInv, NEW t \in Threads, NEW n \in Nat, crash' = "null header",
         size' = size \/ (pc[t] = "idle" /\ size' = [size EXCEPT ![t] = n]),
         UNCHANGED <<heap, capacity, allocSize, used, list, useCount, reserveCount, pc, block>>
  PROVE  IInv'
<1>0. TypeInv /\ PlaceInv /\ SizeInv  BY DEF IInv
<1>1. size \in [Threads -> Nat]  BY <1>0 DEF TypeInv
<1>2. /\ size' \in [Threads -> Nat]
      /\ \A u \in Threads : pc[u] # "idle" => size'[u] = size[u]
  BY <1>1
<1>3. TypeInv'
  <2>1. \A u \in Threads : pc[u] \in Pooled => pc[u] # "idle"  BY DEF Pooled
  <2> QED BY <1>0, <1>2, <2>1 DEF TypeInv
<1>4. PlaceInv'  BY <1>0, PlaceSame
<1>5. SizeInv'
  <2>1. \A u \in Threads : block[u] # None => pc[u] # "idle"  BY <1>0 DEF TypeInv, Holding
  <2>2. \A u \in Threads : block[u] # None => size'[u] = size[u]  BY <1>2, <2>1
  <2>3. \A c, m : Serves(c, m)' <=> Serves(c, m)  BY DEF Serves
  <2> QED BY <1>0, <2>2, <2>3 DEF SizeInv
<1>6. CountersLag'  BY CountersEnd
<1> QED BY <1>3, <1>4, <1>5, <1>6 DEF IInv

\* A call on a pool goes on and moves no block.
LEMMA GoesOn ==
  ASSUME IInv, NEW t \in Threads, pc[t] \in Pooled, NEW label \in Labels,
         label # "push", pc[t] \in Holding <=> label \in Holding, Goto(t, label),
         useCount' \in [Pools -> Int], reserveCount' \in [Pools -> Int],
         UNCHANGED <<heap, capacity, allocSize, used, list, block, size, crash>>
  PROVE  /\ TypeInv' /\ PlaceInv' /\ SizeInv'
         /\ \A u \in Threads : u # t => pc'[u] = pc[u] /\ size'[u] = size[u]
         /\ pc'[t] = label /\ Pool(t)' = Pool(t) /\ Pool(t) \in Pools
         /\ size[t] <= MAX_ALLOC_SIZE /\ size' = size
<1>0. TypeInv /\ PlaceInv /\ SizeInv  BY DEF IInv
<1>1. pc \in [Threads -> Labels]  BY <1>0 DEF TypeInv
<1>2. /\ pc' \in [Threads -> Labels] /\ pc'[t] = label
      /\ \A u \in Threads : u # t => pc'[u] = pc[u]
  BY <1>1 DEF Goto
<1>3. /\ Pool(t) \in Pools /\ size[t] <= MAX_ALLOC_SIZE /\ size[t] >= HeaderSize
  BY <1>0, PoolIs
<1>4. TypeInv'
  <2>1. ASSUME NEW u \in Threads
        PROVE  /\ block'[u] # None <=> pc'[u] \in Holding
               /\ pc'[u] # "idle" => size'[u] >= HeaderSize
               /\ pc'[u] \in Pooled => size'[u] <= MAX_ALLOC_SIZE
    <3>1. CASE u = t  BY <3>1, <1>0, <1>2, <1>3 DEF TypeInv
    <3>2. CASE u # t  BY <3>2, <1>0, <1>2 DEF TypeInv
    <3> QED BY <3>1, <3>2
  <2> QED BY <1>0, <1>2, <2>1 DEF TypeInv
<1>5. PlaceInv'  BY <1>0, PlaceSame
<1>6. SizeInv'
  <2>1. \A c, m : Serves(c, m)' <=> Serves(c, m)  BY DEF Serves
  <2>2. \A u \in Threads : pc'[u] = "push" => pc[u] = "push"  BY <1>2
  <2> QED BY <1>0, <2>1, <2>2 DEF SizeInv
<1> QED BY <1>2, <1>3, <1>4, <1>5, <1>6 DEF Pool


LEMMA DecReserveIInv ==
  ASSUME IInv, NEW t \in Threads, DecReserve(t)
  PROVE  IInv'
<1>0. TypeInv /\ CountersLag /\ Running /\ pc[t] = "popped"  BY DEF IInv, DecReserve
<1>1. reserveCount \in [Pools -> Int] /\ useCount \in [Pools -> Int]  BY <1>0 DEF TypeInv
<1>2. Pool(t) \in Pools  BY <1>0, PoolIs DEF Pooled
<1>3. /\ reserveCount' \in [Pools -> Int] /\ reserveCount'[Pool(t)] = reserveCount[Pool(t)] - 1
      /\ \A p \in Pools : p # Pool(t) => reserveCount'[p] = reserveCount[p]
  BY <1>1, <1>2 DEF DecReserve
<1>4. UNCHANGED <<used, allocSize, list, useCount>>  BY DEF DecReserve, blockVars
<1>5. /\ TypeInv' /\ PlaceInv' /\ SizeInv'
      /\ \A u \in Threads : u # t => pc'[u] = pc[u] /\ size'[u] = size[u]
      /\ pc'[t] = "use" /\ Pool(t)' = Pool(t) /\ size[t] <= MAX_ALLOC_SIZE /\ size' = size
  BY <1>0, <1>1, <1>3, GoesOn DEF DecReserve, blockVars, Labels, Holding, Pooled
<1>6. ASSUME NEW p \in Pools
      PROVE  /\ useCount'[p] = useCount[p] + (InAt(t, p, UseLabels)' - InAt(t, p, UseLabels))
             /\ reserveCount'[p] = reserveCount[p]
                  + (InAt(t, p, {"popped"})' - InAt(t, p, {"popped"}))
                  - (InAt(t, p, ReserveLabels)' - InAt(t, p, ReserveLabels))
  <2>1. InAt(t, p, UseLabels)' = 0 /\ InAt(t, p, UseLabels) = 0
    BY <1>0, <1>5 DEF InAt, UseLabels
  <2>2. InAt(t, p, {"popped"})' = 0 /\ InAt(t, p, {"popped"}) = (IF Pool(t) = p THEN 1 ELSE 0)
    BY <1>0, <1>5 DEF InAt
  <2>3. InAt(t, p, ReserveLabels)' = 0 /\ InAt(t, p, ReserveLabels) = 0
    BY <1>0, <1>5 DEF InAt, ReserveLabels
  <2>4. useCount[p] \in Int /\ reserveCount[p] \in Int  BY <1>1
  <2> QED BY <1>3, <1>4, <2>1, <2>2, <2>3, <2>4
<1>7. CountersLag'  BY <1>0, <1>4, <1>5, <1>6, CountersOnly
<1> QED BY <1>5, <1>7 DEF IInv

LEMMA IncUseIInv ==
  ASSUME IInv, NEW t \in Threads, IncUse(t)
  PROVE  IInv'
<1>0. TypeInv /\ CountersLag /\ Running /\ pc[t] = "use"  BY DEF IInv, IncUse
<1>1. reserveCount \in [Pools -> Int] /\ useCount \in [Pools -> Int]  BY <1>0 DEF TypeInv
<1>2. Pool(t) \in Pools  BY <1>0, PoolIs DEF Pooled
<1>3. /\ useCount' \in [Pools -> Int] /\ useCount'[Pool(t)] = useCount[Pool(t)] + 1
      /\ \A p \in Pools : p # Pool(t) => useCount'[p] = useCount[p]
  BY <1>1, <1>2 DEF IncUse
<1>4. UNCHANGED <<used, allocSize, list, reserveCount>>  BY DEF IncUse, blockVars
<1>5. /\ TypeInv' /\ PlaceInv' /\ SizeInv'
      /\ \A u \in Threads : u # t => pc'[u] = pc[u] /\ size'[u] = size[u]
      /\ pc'[t] = "attach" /\ Pool(t)' = Pool(t) /\ size[t] <= MAX_ALLOC_SIZE /\ size' = size
  BY <1>0, <1>1, <1>3, GoesOn DEF IncUse, blockVars, Labels, Holding, Pooled
<1>6. ASSUME NEW p \in Pools
      PROVE  /\ useCount'[p] = useCount[p] + (InAt(t, p, UseLabels)' - InAt(t, p, UseLabels))
             /\ reserveCount'[p] = reserveCount[p]
                  + (InAt(t, p, {"popped"})' - InAt(t, p, {"popped"}))
                  - (InAt(t, p, ReserveLabels)' - InAt(t, p, ReserveLabels))
  <2>1. InAt(t, p, UseLabels)' = (IF Pool(t) = p THEN 1 ELSE 0) /\ InAt(t, p, UseLabels) = 0
    BY <1>0, <1>5 DEF InAt, UseLabels
  <2>2. InAt(t, p, {"popped"})' = 0 /\ InAt(t, p, {"popped"}) = 0
    BY <1>0, <1>5 DEF InAt
  <2>3. InAt(t, p, ReserveLabels)' = 0 /\ InAt(t, p, ReserveLabels) = 0
    BY <1>0, <1>5 DEF InAt, ReserveLabels
  <2>4. useCount[p] \in Int /\ reserveCount[p] \in Int  BY <1>1
  <2> QED BY <1>3, <1>4, <2>1, <2>2, <2>3, <2>4
<1>7. CountersLag'  BY <1>0, <1>4, <1>5, <1>6, CountersOnly
<1> QED BY <1>5, <1>7 DEF IInv

LEMMA DecUseIInv ==
  ASSUME IInv, NEW t \in Threads, DecUse(t)
  PROVE  IInv'
<1>0. TypeInv /\ CountersLag /\ Running /\ pc[t] = "pushed"  BY DEF IInv, DecUse
<1>1. reserveCount \in [Pools -> Int] /\ useCount \in [Pools -> Int]  BY <1>0 DEF TypeInv
<1>2. Pool(t) \in Pools  BY <1>0, PoolIs DEF Pooled
<1>3. /\ useCount' \in [Pools -> Int] /\ useCount'[Pool(t)] = useCount[Pool(t)] - 1
      /\ \A p \in Pools : p # Pool(t) => useCount'[p] = useCount[p]
  BY <1>1, <1>2 DEF DecUse
<1>4. UNCHANGED <<used, allocSize, list, reserveCount>>  BY DEF DecUse, blockVars
<1>5. /\ TypeInv' /\ PlaceInv' /\ SizeInv'
      /\ \A u \in Threads : u # t => pc'[u] = pc[u] /\ size'[u] = size[u]
      /\ pc'[t] = "reserve" /\ Pool(t)' = Pool(t) /\ size[t] <= MAX_ALLOC_SIZE /\ size' = size
  BY <1>0, <1>1, <1>3, GoesOn DEF DecUse, blockVars, Labels, Holding, Pooled
<1>6. ASSUME NEW p \in Pools
      PROVE  /\ useCount'[p] = useCount[p] + (InAt(t, p, UseLabels)' - InAt(t, p, UseLabels))
             /\ reserveCount'[p] = reserveCount[p]
                  + (InAt(t, p, {"popped"})' - InAt(t, p, {"popped"}))
                  - (InAt(t, p, ReserveLabels)' - InAt(t, p, ReserveLabels))
  <2>1. InAt(t, p, UseLabels)' = 0 /\ InAt(t, p, UseLabels) = (IF Pool(t) = p THEN 1 ELSE 0)
    BY <1>0, <1>5 DEF InAt, UseLabels
  <2>2. InAt(t, p, {"popped"})' = 0 /\ InAt(t, p, {"popped"}) = 0
    BY <1>0, <1>5 DEF InAt
  <2>3. InAt(t, p, ReserveLabels)' = (IF Pool(t) = p THEN 1 ELSE 0) /\ InAt(t, p, ReserveLabels) = (IF Pool(t) = p THEN 1 ELSE 0)
    BY <1>0, <1>5 DEF InAt, ReserveLabels
  <2>4. useCount[p] \in Int /\ reserveCount[p] \in Int  BY <1>1
  <2> QED BY <1>3, <1>4, <2>1, <2>2, <2>3, <2>4
<1>7. CountersLag'  BY <1>0, <1>4, <1>5, <1>6, CountersOnly
<1> QED BY <1>5, <1>7 DEF IInv

LEMMA IncReserveIInv ==
  ASSUME IInv, NEW t \in Threads, IncReserve(t)
  PROVE  IInv'
<1>0. TypeInv /\ CountersLag /\ Running /\ pc[t] = "reserve"  BY DEF IInv, IncReserve
<1>1. reserveCount \in [Pools -> Int] /\ useCount \in [Pools -> Int]  BY <1>0 DEF TypeInv
<1>2. Pool(t) \in Pools  BY <1>0, PoolIs DEF Pooled
<1>3. /\ reserveCount' \in [Pools -> Int] /\ reserveCount'[Pool(t)] = reserveCount[Pool(t)] + 1
      /\ \A p \in Pools : p # Pool(t) => reserveCount'[p] = reserveCount[p]
  BY <1>1, <1>2 DEF IncReserve
<1>4. UNCHANGED <<used, allocSize, list, useCount>>  BY DEF IncReserve, blockVars
<1>5. /\ TypeInv' /\ PlaceInv' /\ SizeInv'
      /\ \A u \in Threads : u # t => pc'[u] = pc[u] /\ size'[u] = size[u]
      /\ pc'[t] = "idle" /\ Pool(t)' = Pool(t) /\ size[t] <= MAX_ALLOC_SIZE /\ size' = size
  BY <1>0, <1>1, <1>3, GoesOn DEF IncReserve, blockVars, Labels, Holding, Pooled
<1>6. ASSUME NEW p \in Pools
      PROVE  /\ useCount'[p] = useCount[p] + (InAt(t, p, UseLabels)' - InAt(t, p, UseLabels))
             /\ reserveCount'[p] = reserveCount[p]
                  + (InAt(t, p, {"popped"})' - InAt(t, p, {"popped"}))
                  - (InAt(t, p, ReserveLabels)' - InAt(t, p, ReserveLabels))
  <2>1. InAt(t, p, UseLabels)' = 0 /\ InAt(t, p, UseLabels) = 0
    BY <1>0, <1>5 DEF InAt, UseLabels
  <2>2. InAt(t, p, {"popped"})' = 0 /\ InAt(t, p, {"popped"}) = 0
    BY <1>0, <1>5 DEF InAt
  <2>3. InAt(t, p, ReserveLabels)' = 0 /\ InAt(t, p, ReserveLabels) = (IF Pool(t) = p THEN 1 ELSE 0)
    BY <1>0, <1>5 DEF InAt, ReserveLabels
  <2>4. useCount[p] \in Int /\ reserveCount[p] \in Int  BY <1>1
  <2> QED BY <1>3, <1>4, <2>1, <2>2, <2>3, <2>4
<1>7. CountersLag'  BY <1>0, <1>4, <1>5, <1>6, CountersOnly
<1> QED BY <1>5, <1>7 DEF IInv

\* A call gets a block from _aligned_malloc.
LEMMA Mallocs ==
  ASSUME IInv, Running, NEW t \in Threads, pc[t] \in {"idle", "pop"}, NEW b \in heap, NEW n \in Nat,
         NEW label \in {"attach", "use"},
         heap' = heap \ {b}, capacity' = [capacity EXCEPT ![b] = n],
         block' = [block EXCEPT ![t] = b], Goto(t, label),
         UNCHANGED <<allocSize, used, list, useCount, reserveCount, crash>>,
         size' \in [Threads -> Nat], \A u \in Threads : u # t => size'[u] = size[u],
         Serves(n, size'[t]), size'[t] >= HeaderSize,
         label = "use" <=> size'[t] <= MAX_ALLOC_SIZE
  PROVE  IInv'
<1>0. TypeInv /\ PlaceInv /\ SizeInv /\ CountersLag  BY DEF IInv
<1>1. /\ pc \in [Threads -> Labels] /\ block \in [Threads -> Blocks \cup {None}]
      /\ capacity \in [Blocks -> Nat] /\ b \in Blocks /\ None \notin Blocks
  BY <1>0, PoolAssumption DEF TypeInv
<1>2. /\ pc' \in [Threads -> Labels] /\ pc'[t] = label
      /\ \A u \in Threads : u # t => pc'[u] = pc[u]
      /\ block' \in [Threads -> Blocks \cup {None}] /\ block'[t] = b
      /\ \A u \in Threads : u # t => block'[u] = block[u]
      /\ capacity' \in [Blocks -> Nat] /\ capacity'[b] = n
      /\ \A c \in Blocks : c # b => capacity'[c] = capacity[c]
  BY <1>1 DEF Goto, Labels
<1>3. TypeInv'
  <2>1. ASSUME NEW u \in Threads
        PROVE  /\ block'[u] # None <=> pc'[u] \in Holding
               /\ pc'[u] # "idle" => size'[u] >= HeaderSize
               /\ pc'[u] \in Pooled => size'[u] <= MAX_ALLOC_SIZE
    <3>1. CASE u = t  BY <3>1, <1>1, <1>2 DEF Holding, Pooled
    <3>2. CASE u # t  BY <3>2, <1>0, <1>2 DEF TypeInv
    <3> QED BY <3>1, <3>2
  <2> QED BY <1>0, <1>2, <2>1 DEF TypeInv
<1>4. block[t] = None  BY <1>0 DEF TypeInv, Holding
<1>5. b \notin used /\ ~InCall(b) /\ ~OnList(b)  BY <1>0, <1>1 DEF PlaceInv, NowhereElse
<1>6. PlaceInv'
  <2>1. CallsApart' /\ \A c \in Blocks : InCall(c)' <=> InCall(c) \/ c = b
    BY <1>0, <1>1, <1>4, <1>5, CallGets DEF PlaceInv
  <2>2. ListsApart' /\ \A c \in Blocks : OnList(c)' <=> OnList(c)
    BY <1>0, ListsSame DEF PlaceInv
  <2>3. NowhereElse' /\ Somewhere'
    BY <1>0, <1>5, <2>1, <2>2 DEF PlaceInv, NowhereElse, Somewhere
  <2> QED BY <2>1, <2>2, <2>3 DEF PlaceInv
<1>7. SizeInv'
  <2>0. \A c, m : Serves(c, m)' <=> Serves(c, m)  BY DEF Serves
  <2>1. ASSUME NEW p \in Pools, NEW i \in 1..Len(list'[p])
        PROVE  capacity'[list'[p][i]] = poolSizes[p] /\ allocSize'[list'[p][i]] = 0
    <3>1. list[p][i] # b  BY <1>5 DEF OnList
    <3>2. list[p][i] \in Blocks
      <4>1. list[p] \in Seq(Blocks)  BY <1>0 DEF TypeInv
      <4> QED BY <4>1
    <3> QED BY <3>1, <3>2, <1>0, <1>2 DEF SizeInv
  <2>2. ASSUME NEW c \in used'
        PROVE  allocSize'[c] >= HeaderSize /\ Serves(capacity'[c], allocSize'[c])
    <3>1. c \in Blocks /\ c # b  BY <1>0, <1>5 DEF TypeInv
    <3> QED BY <3>1, <1>0, <1>2 DEF SizeInv
  <2>3. ASSUME NEW u \in Threads
        PROVE  /\ block'[u] # None => Serves(capacity'[block'[u]], size'[u])
               /\ pc'[u] = "push" => allocSize'[block'[u]] = 0
    <3>1. CASE u = t  BY <3>1, <1>2
    <3>2. CASE u # t
      <4>1. block[u] # b  BY <1>5 DEF InCall
      <4>2. block[u] # None => capacity'[block[u]] = capacity[block[u]]  BY <4>1, <1>1, <1>2
      <4> QED BY <3>2, <4>2, <1>0, <1>2 DEF SizeInv
    <3> QED BY <3>1, <3>2
  <2> QED BY <2>0, <2>1, <2>2, <2>3 DEF SizeInv
<1>8. CountersLag'
  <2>1. ASSUME NEW p \in Pools
        PROVE  /\ useCount'[p] = useCount[p] + (InAt(t, p, UseLabels)' - InAt(t, p, UseLabels))
               /\ reserveCount'[p] = reserveCount[p]
                    + (InAt(t, p, {"popped"})' - InAt(t, p, {"popped"}))
                    - (InAt(t, p, ReserveLabels)' - InAt(t, p, ReserveLabels))
    <3>1. InAt(t, p, UseLabels)' = 0 /\ InAt(t, p, UseLabels) = 0
      BY <1>2 DEF InAt, UseLabels
    <3>2. InAt(t, p, {"popped"})' = 0 /\ InAt(t, p, {"popped"}) = 0  BY <1>2 DEF InAt
    <3>3. InAt(t, p, ReserveLabels)' = 0 /\ InAt(t, p, ReserveLabels) = 0
      BY <1>2 DEF InAt, ReserveLabels
    <3>4. useCount[p] \in Int /\ reserveCount[p] \in Int  BY <1>0 DEF TypeInv
    <3> QED BY <3>1, <3>2, <3>3, <3>4
  <2> QED BY <1>0, <1>2, <1>3, <2>1, CountersOnly
<1> QED BY <1>3, <1>6, <1>7, <1>8 DEF IInv

LEMMA PopNewIInv ==
  ASSUME IInv, NEW t \in Threads, PopNew(t)
  PROVE  IInv'
<1>0. TypeInv /\ Running /\ pc[t] = "pop"  BY DEF IInv, PopNew
<1>1. /\ Pool(t) \in Pools /\ Pool(t) = Slot(size[t]) /\ size[t] \in Nat
      /\ size[t] <= MAX_ALLOC_SIZE /\ size[t] >= HeaderSize
  BY <1>0, PoolIs DEF Pooled
<1>2. poolSizes[Pool(t)] \in Nat /\ Serves(poolSizes[Pool(t)], size[t])
  BY <1>1, Constants DEF Serves
<1>3. UNCHANGED <<allocSize, used, size, list, useCount, reserveCount>>
  BY DEF PopNew, poolVars
<1>4. CASE crash' = "null header" /\ UNCHANGED <<heap, capacity, pc, block>>
  BY <1>3, <1>4, <1>1, EndIInv
<1>5. CASE \E b \in heap :
             /\ heap' = heap \ {b}
             /\ capacity' = [capacity EXCEPT ![b] = poolSizes[Pool(t)]]
             /\ block' = [block EXCEPT ![t] = b]
             /\ Goto(t, "use")
             /\ UNCHANGED crash
  <2>1. size \in [Threads -> Nat]  BY <1>0 DEF TypeInv
  <2> QED BY <1>0, <1>1, <1>2, <1>3, <1>5, <2>1, Mallocs
<1> QED BY <1>4, <1>5 DEF PopNew, Malloc

LEMMA AllocateIInv ==
  ASSUME IInv, NEW t \in Threads, NEW n \in Sizes, Allocate(t, n)
  PROVE  IInv'
<1> DEFINE m == n + HeaderSize
<1>0. TypeInv /\ PlaceInv /\ SizeInv /\ CountersLag /\ Running /\ pc[t] = "idle"
  BY DEF IInv, Allocate
<1>1. m \in Nat /\ m >= HeaderSize  BY PoolAssumption
<1>2. UNCHANGED <<allocSize, used, list, useCount, reserveCount>>  BY DEF Allocate, poolVars
<1>3. size \in [Threads -> Nat] /\ size' = [size EXCEPT ![t] = m]  BY <1>0 DEF TypeInv, Allocate
<1> HIDE DEF m
<1>4. size' \in [Threads -> Nat] /\ size'[t] = m /\ \A u \in Threads : u # t => size'[u] = size[u]
  BY <1>1, <1>3
<1>5. CASE m > MAX_ALLOC_SIZE
  <2>1. Malloc(t, m, "attach")  BY <1>5 DEF Allocate, m
  <2>2. CASE crash' = "null header" /\ UNCHANGED <<heap, capacity, pc, block>>
    BY <1>0, <1>1, <1>2, <1>3, <2>2, EndIInv
  <2>3. CASE \E b \in heap :
               /\ heap' = heap \ {b}
               /\ capacity' = [capacity EXCEPT ![b] = m]
               /\ block' = [block EXCEPT ![t] = b]
               /\ Goto(t, "attach")
               /\ UNCHANGED crash
    <3>1. ~(m <= MAX_ALLOC_SIZE)  BY <1>1, <1>5, Constants
    <3>2. Serves(m, m)  BY <3>1 DEF Serves
    <3> QED BY <1>0, <1>1, <1>2, <1>4, <2>3, <3>1, <3>2, Mallocs
  <2> QED BY <2>1, <2>2, <2>3 DEF Malloc
<1>6. CASE ~(m > MAX_ALLOC_SIZE)
  <2>1. Goto(t, "pop") /\ UNCHANGED <<heap, capacity, block, crash>>  BY <1>6 DEF Allocate, m
  <2>2. pc \in [Threads -> Labels]  BY <1>0 DEF TypeInv
  <2>3. /\ pc' \in [Threads -> Labels] /\ pc'[t] = "pop"
        /\ \A u \in Threads : u # t => pc'[u] = pc[u]
    BY <2>1, <2>2 DEF Goto, Labels
  <2>4. m <= MAX_ALLOC_SIZE /\ block[t] = None
    <3>1. block[t] = None  BY <1>0 DEF TypeInv, Holding
    <3>2. m <= MAX_ALLOC_SIZE  BY <1>1, <1>6, Constants
    <3> QED BY <3>1, <3>2
  <2>5. TypeInv'
    <3>1. ASSUME NEW u \in Threads
          PROVE  /\ block'[u] # None <=> pc'[u] \in Holding
                 /\ pc'[u] # "idle" => size'[u] >= HeaderSize
                 /\ pc'[u] \in Pooled => size'[u] <= MAX_ALLOC_SIZE
      <4>1. CASE u = t  BY <4>1, <1>1, <1>4, <2>1, <2>3, <2>4 DEF Holding
      <4>2. CASE u # t  BY <4>2, <1>0, <1>4, <2>1, <2>3 DEF TypeInv
      <4> QED BY <4>1, <4>2
    <3> QED BY <1>0, <1>2, <1>4, <2>1, <2>3, <3>1 DEF TypeInv
  <2>6. PlaceInv'  BY <1>0, <1>2, <2>1, PlaceSame
  <2>7. SizeInv'
    <3>1. \A c, k : Serves(c, k)' <=> Serves(c, k)  BY DEF Serves
    <3>2. \A u \in Threads : /\ block[u] # None => size'[u] = size[u]
                             /\ pc'[u] = "push" => pc[u] = "push"
      BY <1>4, <2>3, <2>4
    <3> QED BY <1>0, <1>2, <2>1, <3>1, <3>2 DEF SizeInv
  <2>8. CountersLag'
    <3>1. ASSUME NEW p \in Pools
          PROVE  /\ useCount'[p] = useCount[p] + (InAt(t, p, UseLabels)' - InAt(t, p, UseLabels))
                 /\ reserveCount'[p] = reserveCount[p]
                      + (InAt(t, p, {"popped"})' - InAt(t, p, {"popped"}))
                      - (InAt(t, p, ReserveLabels)' - InAt(t, p, ReserveLabels))
      <4>1. InAt(t, p, UseLabels)' = 0 /\ InAt(t, p, UseLabels) = 0
        BY <1>0, <2>3 DEF InAt, UseLabels
      <4>2. InAt(t, p, {"popped"})' = 0 /\ InAt(t, p, {"popped"}) = 0  BY <1>0, <2>3 DEF InAt
      <4>3. InAt(t, p, ReserveLabels)' = 0 /\ InAt(t, p, ReserveLabels) = 0
        BY <1>0, <2>3 DEF InAt, ReserveLabels
      <4>4. useCount[p] \in Int /\ reserveCount[p] \in Int  BY <1>0 DEF TypeInv
      <4> QED BY <1>2, <4>1, <4>2, <4>3, <4>4
    <3> QED BY <1>0, <1>2, <1>4, <2>3, <2>5, <3>1, CountersOnly
  <2> QED BY <2>5, <2>6, <2>7, <2>8 DEF IInv
<1> QED BY <1>5, <1>6

LEMMA PopEntryIInv ==
  ASSUME IInv, NEW t \in Threads, PopEntry(t)
  PROVE  IInv'
<1> DEFINE q == Pool(t)
           b == Head(list[q])
<1>0. TypeInv /\ PlaceInv /\ SizeInv /\ CountersLag /\ Running /\ pc[t] = "pop"
  BY DEF IInv, PopEntry
<1>1. q \in Pools /\ size[t] <= MAX_ALLOC_SIZE /\ q = Slot(size[t]) /\ size[t] >= HeaderSize
  BY <1>0, PoolIs DEF Pooled
<1>2. /\ UNCHANGED <<heap, capacity, allocSize, used, useCount, reserveCount, size>>
      /\ list[q] # <<>> /\ list' = [list EXCEPT ![q] = Tail(@)]
      /\ block' = [block EXCEPT ![t] = b] /\ pc' = [pc EXCEPT ![t] = "popped"]
      /\ crash' = IF allocSize[block'[t]] = 0 THEN "none" ELSE "ASSERT_CRASH"
  BY DEF PopEntry, blockVars, Goto
<1>3. /\ list' \in [Pools -> Seq(Blocks)] /\ ListsApart'
      /\ b \in Blocks /\ b = list[q][1] /\ 1 \in 1..Len(list[q])
      /\ Len(list'[q]) = Len(list[q]) - 1 /\ \A p \in Pools : p # q => list'[p] = list[p]
      /\ \A i \in 1..Len(list'[q]) : i + 1 \in 1..Len(list[q]) /\ list'[q][i] = list[q][i + 1]
      /\ \A c \in Blocks : OnList(c)' <=> OnList(c) /\ c # b
  BY <1>0, <1>1, <1>2, ListGives DEF PlaceInv
<1>4. OnList(b) /\ capacity[b] = poolSizes[q] /\ allocSize[b] = 0
  BY <1>0, <1>1, <1>3 DEF OnList, SizeInv
<1>5. b \notin heap /\ b \notin used /\ ~InCall(b) /\ block[t] = None
  <2>1. block[t] = None  BY <1>0 DEF TypeInv, Holding
  <2> QED BY <1>0, <1>3, <1>4, <2>1 DEF PlaceInv, NowhereElse
<1>6. /\ pc \in [Threads -> Labels] /\ block \in [Threads -> Blocks \cup {None}] /\ None \notin Blocks
  BY <1>0, PoolAssumption DEF TypeInv
<1> HIDE DEF b, q
<1>7. /\ pc' \in [Threads -> Labels] /\ pc'[t] = "popped"
      /\ \A u \in Threads : u # t => pc'[u] = pc[u]
      /\ block' \in [Threads -> Blocks \cup {None}] /\ block'[t] = b
      /\ \A u \in Threads : u # t => block'[u] = block[u]
      /\ crash' = "none"
  BY <1>2, <1>3, <1>4, <1>6 DEF Labels
<1>8. TypeInv'
  <2>1. ASSUME NEW u \in Threads
        PROVE  /\ block'[u] # None <=> pc'[u] \in Holding
               /\ pc'[u] # "idle" => size'[u] >= HeaderSize
               /\ pc'[u] \in Pooled => size'[u] <= MAX_ALLOC_SIZE
    <3>1. CASE u = t  BY <3>1, <1>1, <1>2, <1>3, <1>6, <1>7 DEF Holding
    <3>2. CASE u # t  BY <3>2, <1>0, <1>2, <1>7 DEF TypeInv
    <3> QED BY <3>1, <3>2
  <2> QED BY <1>0, <1>2, <1>3, <1>7, <2>1 DEF TypeInv
<1>9. PlaceInv'
  <2>1. CallsApart' /\ \A c \in Blocks : InCall(c)' <=> InCall(c) \/ c = b
    BY <1>0, <1>2, <1>3, <1>5, CallGets DEF PlaceInv
  <2>2. NowhereElse' /\ Somewhere'
    BY <1>0, <1>2, <1>3, <1>5, <2>1 DEF PlaceInv, NowhereElse, Somewhere
  <2> QED BY <1>3, <2>1, <2>2 DEF PlaceInv
<1>10. SizeInv'
  <2>0. \A c, m : Serves(c, m)' <=> Serves(c, m)  BY DEF Serves
  <2>1. ASSUME NEW p \in Pools, NEW i \in 1..Len(list'[p])
        PROVE  capacity'[list'[p][i]] = poolSizes[p] /\ allocSize'[list'[p][i]] = 0
    <3>1. CASE p = q
      <4>1. i + 1 \in 1..Len(list[q]) /\ list'[q][i] = list[q][i + 1]  BY <3>1, <1>3
      <4> QED BY <3>1, <4>1, <1>0, <1>1, <1>2 DEF SizeInv
    <3>2. CASE p # q  BY <3>2, <1>0, <1>2, <1>3 DEF SizeInv
    <3> QED BY <3>1, <3>2
  <2>2. ASSUME NEW u \in Threads
        PROVE  /\ block'[u] # None => Serves(capacity'[block'[u]], size'[u])
               /\ pc'[u] = "push" => allocSize'[block'[u]] = 0
    <3>1. CASE u = t  BY <3>1, <1>1, <1>2, <1>4, <1>7 DEF Serves
    <3>2. CASE u # t  BY <3>2, <1>0, <1>2, <1>7 DEF SizeInv
    <3> QED BY <3>1, <3>2
  <2>3. \A c \in used : allocSize[c] >= HeaderSize /\ Serves(capacity[c], allocSize[c])
    BY <1>0 DEF SizeInv
  <2> QED BY <2>0, <2>1, <2>2, <2>3, <1>2 DEF SizeInv
<1>11. CountersLag'
  <2>1. ASSUME NEW p \in Pools
        PROVE  /\ useCount'[p] = useCount[p] + (InUse(None, p)' - InUse(None, p))
                    + (InAt(t, p, UseLabels)' - InAt(t, p, UseLabels))
               /\ reserveCount'[p] = reserveCount[p] + (Len(list'[p]) - Len(list[p]))
                    + (InAt(t, p, {"popped"})' - InAt(t, p, {"popped"}))
                    - (InAt(t, p, ReserveLabels)' - InAt(t, p, ReserveLabels))
    <3>1. InUse(None, p)' - InUse(None, p) = 0  BY <1>2 DEF InUse
    <3>2. InAt(t, p, UseLabels)' = 0 /\ InAt(t, p, UseLabels) = 0
      BY <1>0, <1>7 DEF InAt, UseLabels
    <3>3. InAt(t, p, {"popped"})' = (IF p = q THEN 1 ELSE 0) /\ InAt(t, p, {"popped"}) = 0
      BY <1>0, <1>1, <1>2, <1>7 DEF InAt, Pool, q
    <3>4. InAt(t, p, ReserveLabels)' = 0 /\ InAt(t, p, ReserveLabels) = 0
      BY <1>0, <1>7 DEF InAt, ReserveLabels
    <3>5. Len(list'[p]) - Len(list[p]) = IF p = q THEN -1 ELSE 0
      <4>1. Len(list[p]) \in Nat  BY <1>0, LenNat
      <4>2. CASE p = q
        <5>1. Len(list'[p]) = Len(list[p]) - 1  BY <4>2, <1>3
        <5> QED BY <4>1, <4>2, <5>1
      <4>3. CASE p # q  BY <4>1, <4>3, <1>3
      <4> QED BY <4>2, <4>3
    <3>6. useCount[p] \in Int /\ reserveCount[p] \in Int  BY <1>0 DEF TypeInv
    <3> DEFINE d == Len(list'[p]) - Len(list[p])
               e == InUse(None, p)' - InUse(None, p)
    <3>7. d = (IF p = q THEN -1 ELSE 0) /\ e = 0  BY <3>1, <3>5
    <3> HIDE DEF d, e
    <3>8. useCount'[p] = useCount[p] + e + (InAt(t, p, UseLabels)' - InAt(t, p, UseLabels))
      BY <3>2, <3>6, <3>7, <1>2
    <3>9. reserveCount'[p] = reserveCount[p] + d
            + (InAt(t, p, {"popped"})' - InAt(t, p, {"popped"}))
            - (InAt(t, p, ReserveLabels)' - InAt(t, p, ReserveLabels))
      BY <3>3, <3>4, <3>6, <3>7, <1>2
    <3> QED BY <3>8, <3>9 DEF d, e
  <2>2. /\ \A u \in Threads : u # t => pc'[u] = pc[u] /\ size'[u] = size[u]
        /\ \A c \in Blocks : c # None => (c \in used <=> c \in used') /\ allocSize'[c] = allocSize[c]
    BY <1>2, <1>7
  <2> QED BY <1>0, <1>8, <2>1, <2>2, CountersStep
<1> QED BY <1>8, <1>9, <1>10, <1>11 DEF IInv

LEMMA PushEntryIInv ==
  ASSUME IInv, NEW t \in Threads, PushEntry(t)
  PROVE  IInv'
<1> DEFINE q == Pool(t)
           b == block[t]
<1>0. TypeInv /\ PlaceInv /\ SizeInv /\ CountersLag /\ Running /\ pc[t] = "push"
  BY DEF IInv, PushEntry
<1>1. q \in Pools /\ size[t] <= MAX_ALLOC_SIZE /\ q = Slot(size[t]) /\ size[t] >= HeaderSize
  BY <1>0, PoolIs DEF Pooled
<1>2. /\ UNCHANGED <<heap, capacity, allocSize, used, useCount, reserveCount, size, crash>>
      /\ list' = [list EXCEPT ![q] = <<b>> \o @]
      /\ block' = [block EXCEPT ![t] = None] /\ pc' = [pc EXCEPT ![t] = "pushed"]
  BY DEF PushEntry, blockVars, Goto
<1>3. /\ pc \in [Threads -> Labels] /\ block \in [Threads -> Blocks \cup {None}] /\ None \notin Blocks
      /\ b \in Blocks /\ b # None
  <2>1. b # None  BY <1>0 DEF TypeInv, Holding
  <2> QED BY <1>0, <2>1, PoolAssumption DEF TypeInv
<1>4. InCall(b) /\ b \notin heap /\ b \notin used /\ ~OnList(b)
  <2>1. InCall(b)  BY DEF InCall
  <2> QED BY <1>0, <1>3, <2>1 DEF PlaceInv, NowhereElse
<1>5. capacity[b] = poolSizes[q] /\ allocSize[b] = 0
  BY <1>0, <1>1, <1>3 DEF SizeInv, Serves
<1>6. /\ list' \in [Pools -> Seq(Blocks)] /\ ListsApart'
      /\ Len(list'[q]) = Len(list[q]) + 1 /\ \A p \in Pools : p # q => list'[p] = list[p]
      /\ list'[q][1] = b
      /\ \A i \in 1..Len(list'[q]) : i # 1 => i - 1 \in 1..Len(list[q]) /\ list'[q][i] = list[q][i - 1]
      /\ \A c \in Blocks : OnList(c)' <=> OnList(c) \/ c = b
  <2>1. ListsApart  BY <1>0 DEF PlaceInv
  <2> HIDE DEF b, q
  <2> QED BY <1>0, <1>1, <1>2, <1>3, <1>4, <2>1, ListGets
<1>7. CallsApart' /\ \A c \in Blocks : InCall(c)' <=> InCall(c) /\ c # b
  BY <1>0, <1>2, <1>3, CallGives DEF PlaceInv
<1> HIDE DEF b, q
<1>8. /\ pc' \in [Threads -> Labels] /\ pc'[t] = "pushed"
      /\ \A u \in Threads : u # t => pc'[u] = pc[u]
      /\ block' \in [Threads -> Blocks \cup {None}] /\ block'[t] = None
      /\ \A u \in Threads : u # t => block'[u] = block[u]
  BY <1>2, <1>3 DEF Labels
<1>9. TypeInv'
  <2>1. ASSUME NEW u \in Threads
        PROVE  /\ block'[u] # None <=> pc'[u] \in Holding
               /\ pc'[u] # "idle" => size'[u] >= HeaderSize
               /\ pc'[u] \in Pooled => size'[u] <= MAX_ALLOC_SIZE
    <3>1. CASE u = t  BY <3>1, <1>1, <1>2, <1>8 DEF Holding
    <3>2. CASE u # t  BY <3>2, <1>0, <1>2, <1>8 DEF TypeInv
    <3> QED BY <3>1, <3>2
  <2> QED BY <1>0, <1>2, <1>6, <1>8, <2>1 DEF TypeInv
<1>10. PlaceInv'
  <2>2. NowhereElse' /\ Somewhere'
    BY <1>0, <1>2, <1>3, <1>4, <1>6, <1>7 DEF PlaceInv, NowhereElse, Somewhere
  <2> QED BY <1>6, <1>7, <2>2 DEF PlaceInv
<1>11. SizeInv'
  <2>0. \A c, m : Serves(c, m)' <=> Serves(c, m)  BY DEF Serves
  <2>1. ASSUME NEW p \in Pools, NEW i \in 1..Len(list'[p])
        PROVE  capacity'[list'[p][i]] = poolSizes[p] /\ allocSize'[list'[p][i]] = 0
    <3>1. CASE p = q /\ i = 1  BY <3>1, <1>2, <1>5, <1>6
    <3>2. CASE p = q /\ i # 1
      <4>1. i - 1 \in 1..Len(list[q]) /\ list'[q][i] = list[q][i - 1]  BY <3>2, <1>6
      <4> QED BY <3>2, <4>1, <1>0, <1>1, <1>2 DEF SizeInv
    <3>3. CASE p # q  BY <3>3, <1>0, <1>2, <1>6 DEF SizeInv
    <3> QED BY <3>1, <3>2, <3>3
  <2>2. ASSUME NEW u \in Threads
        PROVE  /\ block'[u] # None => Serves(capacity'[block'[u]], size'[u])
               /\ pc'[u] = "push" => allocSize'[block'[u]] = 0
    <3>1. CASE u = t  BY <3>1, <1>8
    <3>2. CASE u # t  BY <3>2, <1>0, <1>2, <1>8 DEF SizeInv
    <3> QED BY <3>1, <3>2
  <2>3. \A c \in used : allocSize[c] >= HeaderSize /\ Serves(capacity[c], allocSize[c])
    BY <1>0 DEF SizeInv
  <2> QED BY <2>0, <2>1, <2>2, <2>3, <1>2 DEF SizeInv
<1>12. CountersLag'
  <2>1. ASSUME NEW p \in Pools
        PROVE  /\ useCount'[p] = useCount[p] + (InUse(None, p)' - InUse(None, p))
                    + (InAt(t, p, UseLabels)' - InAt(t, p, UseLabels))
               /\ reserveCount'[p] = reserveCount[p] + (Len(list'[p]) - Len(list[p]))
                    + (InAt(t, p, {"popped"})' - InAt(t, p, {"popped"}))
                    - (InAt(t, p, ReserveLabels)' - InAt(t, p, ReserveLabels))
    <3>1. InUse(None, p)' - InUse(None, p) = 0  BY <1>2 DEF InUse
    <3>2. InAt(t, p, UseLabels)' - InAt(t, p, UseLabels) = 0
      BY <1>0, <1>2, <1>8 DEF InAt, UseLabels, Pool
    <3>3. InAt(t, p, {"popped"})' = 0 /\ InAt(t, p, {"popped"}) = 0
      BY <1>0, <1>8 DEF InAt
    <3>4. InAt(t, p, ReserveLabels)' = (IF p = q THEN 1 ELSE 0) /\ InAt(t, p, ReserveLabels) = 0
      BY <1>0, <1>1, <1>2, <1>8 DEF InAt, ReserveLabels, Pool, q
    <3>5. Len(list'[p]) - Len(list[p]) = IF p = q THEN 1 ELSE 0
      <4>1. Len(list[p]) \in Nat  BY <1>0, LenNat
      <4>2. CASE p = q
        <5>1. Len(list'[p]) = Len(list[p]) + 1  BY <4>2, <1>6
        <5> QED BY <4>1, <4>2, <5>1
      <4>3. CASE p # q  BY <4>1, <4>3, <1>6
      <4> QED BY <4>2, <4>3
    <3>6. useCount[p] \in Int /\ reserveCount[p] \in Int  BY <1>0 DEF TypeInv
    <3> DEFINE d == Len(list'[p]) - Len(list[p])
               e == InUse(None, p)' - InUse(None, p)
               f == InAt(t, p, UseLabels)' - InAt(t, p, UseLabels)
    <3>7. d = (IF p = q THEN 1 ELSE 0) /\ e = 0 /\ f = 0  BY <3>1, <3>2, <3>5
    <3> HIDE DEF d, e, f
    <3>8. useCount'[p] = useCount[p] + e + f  BY <3>6, <3>7, <1>2
    <3>9. reserveCount'[p] = reserveCount[p] + d
            + (InAt(t, p, {"popped"})' - InAt(t, p, {"popped"}))
            - (InAt(t, p, ReserveLabels)' - InAt(t, p, ReserveLabels))
      BY <3>3, <3>4, <3>6, <3>7, <1>2
    <3> QED BY <3>8, <3>9 DEF d, e, f
  <2>2. /\ \A u \in Threads : u # t => pc'[u] = pc[u] /\ size'[u] = size[u]
        /\ \A c \in Blocks : c # None => (c \in used <=> c \in used') /\ allocSize'[c] = allocSize[c]
    BY <1>2, <1>8
  <2> QED BY <1>0, <1>9, <2>1, <2>2, CountersStep
<1> QED BY <1>9, <1>10, <1>11, <1>12 DEF IInv

LEMMA AttachHeaderIInv ==
  ASSUME IInv, NEW t \in Threads, AttachHeader(t)
  PROVE  IInv'
<1>b. PICK b : b = block[t]  OBVIOUS
<1>0. TypeInv /\ PlaceInv /\ SizeInv /\ CountersLag /\ Running /\ pc[t] = "attach"
  BY DEF IInv, AttachHeader
<1>1. size[t] \in Nat /\ size[t] >= HeaderSize  BY <1>0 DEF TypeInv
<1>2. /\ UNCHANGED <<heap, capacity, list, useCount, reserveCount, size, crash>>
      /\ allocSize' = [allocSize EXCEPT ![b] = size[t]] /\ used' = used \cup {b}
      /\ block' = [block EXCEPT ![t] = None] /\ pc' = [pc EXCEPT ![t] = "idle"]
  BY <1>b DEF AttachHeader, poolVars, Goto
<1>3. /\ pc \in [Threads -> Labels] /\ block \in [Threads -> Blocks \cup {None}] /\ None \notin Blocks
      /\ b \in Blocks /\ b # None /\ allocSize \in [Blocks -> Nat] /\ used \subseteq Blocks
  <2>1. b # None  BY <1>b, <1>0 DEF TypeInv, Holding
  <2> QED BY <1>b, <1>0, <2>1, PoolAssumption DEF TypeInv
<1>4. InCall(b) /\ b \notin heap /\ b \notin used /\ ~OnList(b)
  <2>1. InCall(b)  BY <1>b DEF InCall
  <2> QED BY <1>0, <1>3, <2>1 DEF PlaceInv, NowhereElse
<1>5. Serves(capacity[b], size[t]) /\ \A u \in Threads : u # t => block[u] # b
  BY <1>b, <1>0, <1>3 DEF SizeInv, PlaceInv, CallsApart
<1>6. ListsApart' /\ \A c \in Blocks : OnList(c)' <=> OnList(c)  BY <1>0, <1>2, ListsSame DEF PlaceInv
<1>7. CallsApart' /\ \A c \in Blocks : InCall(c)' <=> InCall(c) /\ c # b
  BY <1>b, <1>0, <1>2, <1>3, CallGives DEF PlaceInv
<1>8. /\ pc' \in [Threads -> Labels] /\ pc'[t] = "idle"
      /\ \A u \in Threads : u # t => pc'[u] = pc[u]
      /\ block' \in [Threads -> Blocks \cup {None}] /\ block'[t] = None
      /\ \A u \in Threads : u # t => block'[u] = block[u]
      /\ allocSize' \in [Blocks -> Nat] /\ allocSize'[b] = size[t]
      /\ \A c \in Blocks : c # b => allocSize'[c] = allocSize[c]
      /\ used' \subseteq Blocks
  BY <1>1, <1>2, <1>3 DEF Labels
<1>9. TypeInv'
  <2>1. ASSUME NEW u \in Threads
        PROVE  /\ block'[u] # None <=> pc'[u] \in Holding
               /\ pc'[u] # "idle" => size'[u] >= HeaderSize
               /\ pc'[u] \in Pooled => size'[u] <= MAX_ALLOC_SIZE
    <3>1. CASE u = t  BY <3>1, <1>2, <1>8 DEF Holding, Pooled
    <3>2. CASE u # t  BY <3>2, <1>0, <1>2, <1>8 DEF TypeInv
    <3> QED BY <3>1, <3>2
  <2> QED BY <1>0, <1>2, <1>8, <2>1 DEF TypeInv
<1>10. PlaceInv'
  <2>2. NowhereElse' /\ Somewhere'
    BY <1>0, <1>2, <1>3, <1>4, <1>6, <1>7 DEF PlaceInv, NowhereElse, Somewhere
  <2> QED BY <1>6, <1>7, <2>2 DEF PlaceInv
<1>11. SizeInv'
  <2>0. \A c, m : Serves(c, m)' <=> Serves(c, m)  BY DEF Serves
  <2>1. ASSUME NEW p \in Pools, NEW i \in 1..Len(list'[p])
        PROVE  capacity'[list'[p][i]] = poolSizes[p] /\ allocSize'[list'[p][i]] = 0
    <3>1. list[p][i] # b  BY <1>2, <1>4 DEF OnList
    <3>2. list[p][i] \in Blocks
      <4>1. list[p] \in Seq(Blocks)  BY <1>0 DEF TypeInv
      <4> QED BY <4>1, <1>2
    <3> QED BY <3>1, <3>2, <1>0, <1>2, <1>8 DEF SizeInv
  <2>2. ASSUME NEW u \in Threads
        PROVE  /\ block'[u] # None => Serves(capacity'[block'[u]], size'[u])
               /\ pc'[u] = "push" => allocSize'[block'[u]] = 0
    <3>1. CASE u = t  BY <3>1, <1>8
    <3>2. CASE u # t
      <4>1. block'[u] = block[u] /\ pc'[u] = pc[u] /\ block[u] # b  BY <3>2, <1>5, <1>8
      <4>2. pc[u] = "push" => block[u] \in Blocks  BY <1>0, <1>3 DEF TypeInv, Holding
      <4> QED BY <4>1, <4>2, <1>0, <1>2, <1>8 DEF SizeInv
    <3> QED BY <3>1, <3>2
  <2>3. ASSUME NEW c \in used'
        PROVE  allocSize'[c] >= HeaderSize /\ Serves(capacity'[c], allocSize'[c])
    <3>1. CASE c = b  BY <3>1, <1>1, <1>2, <1>5, <1>8
    <3>2. CASE c # b
      <4>1. c \in used /\ c \in Blocks  BY <3>2, <1>2, <1>3
      <4> QED BY <3>2, <4>1, <1>0, <1>2, <1>8 DEF SizeInv
    <3> QED BY <3>1, <3>2
  <2> QED BY <2>0, <2>1, <2>2, <2>3 DEF SizeInv
<1>12. CountersLag'
  <2>1. ASSUME NEW p \in Pools
        PROVE  /\ useCount'[p] = useCount[p] + (InUse(b, p)' - InUse(b, p))
                    + (InAt(t, p, UseLabels)' - InAt(t, p, UseLabels))
               /\ reserveCount'[p] = reserveCount[p] + (Len(list'[p]) - Len(list[p]))
                    + (InAt(t, p, {"popped"})' - InAt(t, p, {"popped"}))
                    - (InAt(t, p, ReserveLabels)' - InAt(t, p, ReserveLabels))
    <3> DEFINE one == IF Slot(size[t]) = p THEN 1 ELSE 0
    <3>1. b \in used'  BY <1>2
    <3>2. InUse(b, p)' = one /\ InUse(b, p) = 0  BY <3>1, <1>4, <1>8 DEF InUse, Slot
    <3>3. InAt(t, p, UseLabels)' = 0  BY <1>8 DEF InAt, UseLabels
    <3>4. InAt(t, p, UseLabels) = one
      <4>1. Slot(size[t]) = p => size[t] <= MAX_ALLOC_SIZE  BY <1>1, SlotBeyond, Constants
      <4> QED BY <4>1, <1>0 DEF InAt, UseLabels, Pool, Slot
    <3>5. InAt(t, p, {"popped"})' = 0 /\ InAt(t, p, {"popped"}) = 0
      BY <1>0, <1>8 DEF InAt
    <3>6. InAt(t, p, ReserveLabels)' = 0 /\ InAt(t, p, ReserveLabels) = 0
      BY <1>0, <1>8 DEF InAt, ReserveLabels
    <3>7. Len(list'[p]) - Len(list[p]) = 0  BY <1>0, <1>2, LenNat
    <3>8. useCount[p] \in Int /\ reserveCount[p] \in Int /\ one \in Int
      <4>1. useCount[p] \in Int /\ reserveCount[p] \in Int  BY <1>0 DEF TypeInv
      <4>2. one \in Int  OBVIOUS
      <4> QED BY <4>1, <4>2
    <3> DEFINE d == Len(list'[p]) - Len(list[p])
    <3>9. d = 0  BY <3>7
    <3> HIDE DEF d, one
    <3>10. useCount'[p] = useCount[p] + (InUse(b, p)' - InUse(b, p))
             + (InAt(t, p, UseLabels)' - InAt(t, p, UseLabels))
      BY <3>2, <3>3, <3>4, <3>8, <1>2
    <3>11. reserveCount'[p] = reserveCount[p] + d
            + (InAt(t, p, {"popped"})' - InAt(t, p, {"popped"}))
            - (InAt(t, p, ReserveLabels)' - InAt(t, p, ReserveLabels))
      BY <3>5, <3>6, <3>8, <3>9, <1>2
    <3> QED BY <3>10, <3>11 DEF d
  <2>2. /\ \A u \in Threads : u # t => pc'[u] = pc[u] /\ size'[u] = size[u]
        /\ \A c \in Blocks : c # b => (c \in used <=> c \in used') /\ allocSize'[c] = allocSize[c]
    BY <1>2, <1>8
  <2> QED BY <1>0, <1>9, <2>1, <2>2, CountersStep
<1> QED BY <1>9, <1>10, <1>11, <1>12 DEF IInv

LEMMA ReleaseIInv ==
  ASSUME IInv, NEW t \in Threads, NEW b \in used, Release(t, b)
  PROVE  IInv'
<1>0. TypeInv /\ PlaceInv /\ SizeInv /\ CountersLag /\ Running /\ pc[t] = "idle"
  BY DEF IInv, Release
<1>1. /\ pc \in [Threads -> Labels] /\ block \in [Threads -> Blocks \cup {None}] /\ None \notin Blocks
      /\ b \in Blocks /\ allocSize \in [Blocks -> Nat] /\ used \subseteq Blocks
      /\ size \in [Threads -> Nat]
  BY <1>0, PoolAssumption DEF TypeInv
<1>2. allocSize[b] \in Nat /\ allocSize[b] >= HeaderSize /\ Serves(capacity[b], allocSize[b])
  BY <1>0, <1>1 DEF SizeInv
<1>3. ~(allocSize[b] <= 0)  BY <1>2, Constants
<1>4. /\ UNCHANGED <<capacity, list, useCount, reserveCount>>
      /\ used' = used \ {b} /\ size' = [size EXCEPT ![t] = allocSize[b]]
  BY DEF Release, poolVars
<1>5. /\ size' \in [Threads -> Nat] /\ size'[t] = allocSize[b] /\ used' \subseteq Blocks
      /\ \A u \in Threads : u # t => size'[u] = size[u]
  BY <1>1, <1>2, <1>4
<1>6. b \notin heap /\ ~InCall(b) /\ ~OnList(b) /\ \A u \in Threads : block[u] # b
  BY <1>0, <1>1 DEF PlaceInv, NowhereElse, InCall
<1>7. block[t] = None  BY <1>0 DEF TypeInv, Holding
<1>8. ListsApart' /\ \A c \in Blocks : OnList(c)' <=> OnList(c)  BY <1>0, <1>4, ListsSame DEF PlaceInv
<1>9. \A c, m : Serves(c, m)' <=> Serves(c, m)  BY DEF Serves
<1>10. ASSUME NEW p \in Pools
       PROVE  /\ Len(list'[p]) - Len(list[p]) = 0
              /\ useCount[p] \in Int /\ reserveCount[p] \in Int
              /\ useCount'[p] = useCount[p] /\ reserveCount'[p] = reserveCount[p]
              /\ InAt(t, p, UseLabels) = 0 /\ InAt(t, p, {"popped"}) = 0
              /\ InAt(t, p, ReserveLabels) = 0 /\ InUse(b, p)' = 0
              /\ InUse(b, p) = IF Slot(allocSize[b]) = p THEN 1 ELSE 0
  <2>1. Len(list'[p]) - Len(list[p]) = 0  BY <1>0, <1>4, LenNat
  <2>2. useCount[p] \in Int /\ reserveCount[p] \in Int  BY <1>0 DEF TypeInv
  <2>3. /\ InAt(t, p, UseLabels) = 0 /\ InAt(t, p, {"popped"}) = 0 /\ InAt(t, p, ReserveLabels) = 0
    BY <1>0 DEF InAt, UseLabels, ReserveLabels
  <2>4. b \notin used'  BY <1>4
  <2>5. InUse(b, p)' = 0 /\ InUse(b, p) = IF Slot(allocSize[b]) = p THEN 1 ELSE 0
    BY <2>4 DEF InUse
  <2> QED BY <2>1, <2>2, <2>3, <2>5, <1>4
<1>11. CASE allocSize[b] > MAX_ALLOC_SIZE
  <2>1. heap' = heap \cup {b} /\ UNCHANGED <<allocSize, pc, block, crash>>
    BY <1>3, <1>11 DEF Release
  <2>2. TypeInv'
    <3>1. ASSUME NEW u \in Threads
          PROVE  /\ block'[u] # None <=> pc'[u] \in Holding
                 /\ pc'[u] # "idle" => size'[u] >= HeaderSize
                 /\ pc'[u] \in Pooled => size'[u] <= MAX_ALLOC_SIZE
      <4>1. CASE u = t  BY <4>1, <1>0, <1>7, <2>1 DEF Holding, Pooled
      <4>2. CASE u # t  BY <4>2, <1>0, <1>5, <2>1 DEF TypeInv
      <4> QED BY <4>1, <4>2
    <3> QED BY <1>0, <1>1, <1>4, <1>5, <2>1, <3>1 DEF TypeInv
  <2>3. PlaceInv'
    <3>1. CallsApart' /\ \A c \in Blocks : InCall(c)' <=> InCall(c)
      BY <1>0, <2>1, CallsSame DEF PlaceInv
    <3>2. NowhereElse' /\ Somewhere'
      BY <1>0, <1>4, <1>6, <1>8, <2>1, <3>1 DEF PlaceInv, NowhereElse, Somewhere
    <3> QED BY <1>8, <3>1, <3>2 DEF PlaceInv
  <2>4. SizeInv'
    <3>1. \A u \in Threads : block[u] # None => size'[u] = size[u]  BY <1>5, <1>7
    <3> QED BY <1>0, <1>4, <1>9, <2>1, <3>1 DEF SizeInv
  <2>5. CountersLag'
    <3>1. ASSUME NEW p \in Pools
          PROVE  /\ useCount'[p] = useCount[p] + (InUse(b, p)' - InUse(b, p))
                      + (InAt(t, p, UseLabels)' - InAt(t, p, UseLabels))
                 /\ reserveCount'[p] = reserveCount[p] + (Len(list'[p]) - Len(list[p]))
                      + (InAt(t, p, {"popped"})' - InAt(t, p, {"popped"}))
                      - (InAt(t, p, ReserveLabels)' - InAt(t, p, ReserveLabels))
      <4>1. InUse(b, p) = 0  BY <1>2, <1>10, <1>11, SlotBeyond
      <4>2. /\ InAt(t, p, UseLabels)' = 0 /\ InAt(t, p, {"popped"})' = 0
            /\ InAt(t, p, ReserveLabels)' = 0
        BY <1>0, <2>1 DEF InAt, UseLabels, ReserveLabels
      <4> DEFINE d == Len(list'[p]) - Len(list[p])
      <4>3. d = 0  BY <1>10
      <4> HIDE DEF d
      <4>4. /\ useCount'[p] = useCount[p] + (InUse(b, p)' - InUse(b, p))
                 + (InAt(t, p, UseLabels)' - InAt(t, p, UseLabels))
            /\ reserveCount'[p] = reserveCount[p] + d
                 + (InAt(t, p, {"popped"})' - InAt(t, p, {"popped"}))
                 - (InAt(t, p, ReserveLabels)' - InAt(t, p, ReserveLabels))
        BY <4>1, <4>2, <4>3, <1>10
      <4> QED BY <4>4 DEF d
    <3>2. /\ \A u \in Threads : u # t => pc'[u] = pc[u] /\ size'[u] = size[u]
          /\ \A c \in Blocks : c # b => (c \in used <=> c \in used') /\ allocSize'[c] = allocSize[c]
      BY <1>4, <1>5, <2>1
    <3> QED BY <1>0, <2>2, <3>1, <3>2, CountersStep
  <2> QED BY <2>2, <2>3, <2>4, <2>5 DEF IInv
<1>12. CASE ~(allocSize[b] > MAX_ALLOC_SIZE)
  <2>1. /\ allocSize' = [allocSize EXCEPT ![b] = 0] /\ block' = [block EXCEPT ![t] = b]
        /\ pc' = [pc EXCEPT ![t] = "push"] /\ UNCHANGED <<heap, crash>>
    BY <1>3, <1>12 DEF Release, Goto
  <2>2. allocSize[b] <= MAX_ALLOC_SIZE  BY <1>2, <1>12, Constants
  <2>3. /\ pc' \in [Threads -> Labels] /\ pc'[t] = "push"
        /\ \A u \in Threads : u # t => pc'[u] = pc[u]
        /\ block' \in [Threads -> Blocks \cup {None}] /\ block'[t] = b
        /\ \A u \in Threads : u # t => block'[u] = block[u]
        /\ allocSize' \in [Blocks -> Nat] /\ allocSize'[b] = 0
        /\ \A c \in Blocks : c # b => allocSize'[c] = allocSize[c]
    BY <1>1, <2>1 DEF Labels
  <2>4. TypeInv'
    <3>1. ASSUME NEW u \in Threads
          PROVE  /\ block'[u] # None <=> pc'[u] \in Holding
                 /\ pc'[u] # "idle" => size'[u] >= HeaderSize
                 /\ pc'[u] \in Pooled => size'[u] <= MAX_ALLOC_SIZE
      <4>1. CASE u = t  BY <4>1, <1>1, <1>2, <1>5, <2>2, <2>3 DEF Holding
      <4>2. CASE u # t  BY <4>2, <1>0, <1>5, <2>3 DEF TypeInv
      <4> QED BY <4>1, <4>2
    <3> QED BY <1>0, <1>4, <1>5, <2>1, <2>3, <3>1 DEF TypeInv
  <2>5. PlaceInv'
    <3>1. CallsApart' /\ \A c \in Blocks : InCall(c)' <=> InCall(c) \/ c = b
      BY <1>0, <1>1, <1>6, <1>7, <2>1, CallGets DEF PlaceInv
    <3>2. NowhereElse' /\ Somewhere'
      BY <1>0, <1>4, <1>6, <1>8, <2>1, <3>1 DEF PlaceInv, NowhereElse, Somewhere
    <3> QED BY <1>8, <3>1, <3>2 DEF PlaceInv
  <2>6. SizeInv'
    <3>1. ASSUME NEW p \in Pools, NEW i \in 1..Len(list'[p])
          PROVE  capacity'[list'[p][i]] = poolSizes[p] /\ allocSize'[list'[p][i]] = 0
      <4>1. list[p][i] # b  BY <1>4, <1>6 DEF OnList
      <4>2. list[p][i] \in Blocks
        <5>1. list[p] \in Seq(Blocks)  BY <1>0 DEF TypeInv
        <5> QED BY <5>1, <1>4
      <4> QED BY <4>1, <4>2, <1>0, <1>4, <2>3 DEF SizeInv
    <3>2. ASSUME NEW u \in Threads
          PROVE  /\ block'[u] # None => Serves(capacity'[block'[u]], size'[u])
                 /\ pc'[u] = "push" => allocSize'[block'[u]] = 0
      <4>1. CASE u = t  BY <4>1, <1>2, <1>4, <1>5, <2>3
      <4>2. CASE u # t
        <5>1. /\ block'[u] = block[u] /\ pc'[u] = pc[u] /\ size'[u] = size[u]
              /\ capacity' = capacity /\ block[u] # b
          BY <4>2, <1>4, <1>5, <1>6, <2>3
        <5>2. pc[u] = "push" => block[u] \in Blocks  BY <1>0, <1>1 DEF TypeInv, Holding
        <5> QED BY <5>1, <5>2, <1>0, <2>3 DEF SizeInv
      <4> QED BY <4>1, <4>2
    <3>3. ASSUME NEW c \in used'
          PROVE  allocSize'[c] >= HeaderSize /\ Serves(capacity'[c], allocSize'[c])
      <4>1. c \in used /\ c \in Blocks /\ c # b  BY <1>1, <1>4
      <4> QED BY <4>1, <1>0, <1>4, <2>3 DEF SizeInv
    <3> QED BY <1>9, <3>1, <3>2, <3>3 DEF SizeInv
  <2>7. CountersLag'
    <3>1. ASSUME NEW p \in Pools
          PROVE  /\ useCount'[p] = useCount[p] + (InUse(b, p)' - InUse(b, p))
                      + (InAt(t, p, UseLabels)' - InAt(t, p, UseLabels))
                 /\ reserveCount'[p] = reserveCount[p] + (Len(list'[p]) - Len(list[p]))
                      + (InAt(t, p, {"popped"})' - InAt(t, p, {"popped"}))
                      - (InAt(t, p, ReserveLabels)' - InAt(t, p, ReserveLabels))
      <4>1. InAt(t, p, UseLabels)' = IF Slot(allocSize[b]) = p THEN 1 ELSE 0
        BY <1>5, <2>2, <2>3 DEF InAt, UseLabels, Pool, Slot
      <4>2. InAt(t, p, {"popped"})' = 0 /\ InAt(t, p, ReserveLabels)' = 0
        BY <2>3 DEF InAt, ReserveLabels
      <4> DEFINE d == Len(list'[p]) - Len(list[p])
      <4>3. d = 0  BY <1>10
      <4> HIDE DEF d
      <4>4. /\ useCount'[p] = useCount[p] + (InUse(b, p)' - InUse(b, p))
                 + (InAt(t, p, UseLabels)' - InAt(t, p, UseLabels))
            /\ reserveCount'[p] = reserveCount[p] + d
                 + (InAt(t, p, {"popped"})' - InAt(t, p, {"popped"}))
                 - (InAt(t, p, ReserveLabels)' - InAt(t, p, ReserveLabels))
        BY <4>1, <4>2, <4>3, <1>10
      <4> QED BY <4>4 DEF d
    <3>2. /\ \A u \in Threads : u # t => pc'[u] = pc[u] /\ size'[u] = size[u]
          /\ \A c \in Blocks : c # b => (c \in used <=> c \in used') /\ allocSize'[c] = allocSize[c]
      BY <1>4, <1>5, <2>3
    <3> QED BY <1>0, <2>4, <3>1, <3>2, CountersStep
  <2> QED BY <2>4, <2>5, <2>6, <2>7 DEF IInv
<1> QED BY <1>11, <1>12

LEMMA NextIInv ==
  ASSUME IInv, [Next]_vars
  PROVE  IInv'
<1>1. ASSUME UNCHANGED vars  PROVE IInv'
  <2>1. /\ UNCHANGED <<heap, capacity, allocSize, used, list, useCount, reserveCount>>
        /\ UNCHANGED <<pc, block, size, crash>>
    BY <1>1 DEF vars, blockVars, poolVars, callVars
  <2>2. TypeInv'  BY <2>1 DEF IInv, TypeInv
  <2>3. PlaceInv'  BY <2>1, PlaceSame DEF IInv
  <2>4. SizeInv'  BY <2>1 DEF IInv, SizeInv, Serves
  <2>5. CountersLag'
    <3>1. \A p, labels : At(p, labels)' = At(p, labels)  BY <2>1 DEF At, Pool
    <3> QED BY <2>1, <3>1 DEF IInv, CountersLag, Running
  <2> QED BY <2>2, <2>3, <2>4, <2>5 DEF IInv
<1>2. ASSUME NEW t \in Threads, NEW n \in Sizes, Allocate(t, n)  PROVE IInv'
  BY <1>2, AllocateIInv
<1>3. ASSUME NEW t \in Threads, NEW b \in used, Release(t, b)  PROVE IInv'
  BY <1>3, ReleaseIInv
<1>4. ASSUME NEW t \in Threads,
             PopNew(t) \/ PopEntry(t) \/ DecReserve(t) \/ IncUse(t) \/ AttachHeader(t)
               \/ PushEntry(t) \/ DecUse(t) \/ IncReserve(t)
      PROVE  IInv'
  BY <1>4, PopNewIInv, PopEntryIInv, DecReserveIInv, IncUseIInv, AttachHeaderIInv,
     PushEntryIInv, DecUseIInv, IncReserveIInv
<1>5. ASSUME Crashed  PROVE IInv'  BY <1>1, <1>5 DEF Crashed
<1> QED BY <1>1, <1>2, <1>3, <1>4, <1>5 DEF Next

-----------------------------------------------------------------------------
(* The theorems.                                                            *)

\* The invariant of Memory and its pools holds whatever the threads, the blocks,
\* the loops of the constructor and the sizes asked for.
THEOREM Inductive == Spec => []IInv
<1>1. IInv /\ [Next]_vars => IInv'  BY NextIInv
<1> QED BY InitIInv, <1>1, PTL DEF Spec

\* The places of a block in the calls and on the lists.
InCalls(b) == {t \in Threads : block[t] = b}
InLists(b) == UNION {{p} \X {i \in 1..Len(list[p]) : list[p][i] = b} : p \in Pools}

LEMMA CallsOf ==
  ASSUME PlaceInv, NEW b \in Blocks
  PROVE  Cardinality(InCalls(b)) = IF InCall(b) THEN 1 ELSE 0
<1>1. CASE InCall(b)
  <2>1. PICK t \in Threads : block[t] = b  BY <1>1 DEF InCall
  <2>2. InCalls(b) = {t}  BY <2>1, PoolAssumption DEF InCalls, PlaceInv, CallsApart
  <2> QED BY <1>1, <2>2, FS_Singleton
<1>2. CASE ~InCall(b)
  <2>1. InCalls(b) = {}  BY <1>2 DEF InCalls, InCall
  <2> QED BY <1>2, <2>1, FS_EmptySet
<1> QED BY <1>1, <1>2

LEMMA ListsOf ==
  ASSUME PlaceInv, NEW b \in Blocks
  PROVE  Cardinality(InLists(b)) = IF OnList(b) THEN 1 ELSE 0
<1>1. CASE OnList(b)
  <2>1. PICK p \in Pools : \E i \in 1..Len(list[p]) : list[p][i] = b  BY <1>1 DEF OnList
  <2>2. PICK i \in 1..Len(list[p]) : list[p][i] = b  BY <2>1
  <2>3. <<p, i>> \in InLists(b)  BY <2>2 DEF InLists
  <2>4. ASSUME NEW x \in InLists(b)  PROVE x = <<p, i>>
    <3>1. PICK q \in Pools : x \in {q} \X {j \in 1..Len(list[q]) : list[q][j] = b}
      BY DEF InLists
    <3>2. PICK j \in 1..Len(list[q]) : x = <<q, j>> /\ list[q][j] = b  BY <3>1
    <3>3. q = p /\ j = i  BY <2>2, <3>2 DEF PlaceInv, ListsApart
    <3> QED BY <3>2, <3>3
  <2>5. InLists(b) = {<<p, i>>}  BY <2>3, <2>4
  <2> QED BY <1>1, <2>5, FS_Singleton
<1>2. CASE ~OnList(b)
  <2>1. InLists(b) = {}  BY <1>2 DEF InLists, OnList
  <2> QED BY <1>2, <2>1, FS_EmptySet
<1> QED BY <1>1, <1>2

\* A block is free memory, in one pool, in one call of Allocate or Release, or given
\* to the program, and only one of these: no two calls of Memory::Allocate return
\* the same block.
THEOREM OneOwner == Spec => []OnePlace
<1>1. IInv => OnePlace
  <2> SUFFICES ASSUME IInv, NEW b \in Blocks
               PROVE  (IF b \in heap THEN 1 ELSE 0) + (IF b \in used THEN 1 ELSE 0)
                        + Cardinality(InCalls(b)) + Cardinality(InLists(b)) = 1
    BY DEF OnePlace, InCalls, InLists
  <2>1. PlaceInv  BY DEF IInv
  <2>2. Cardinality(InCalls(b)) = IF InCall(b) THEN 1 ELSE 0  BY <2>1, CallsOf
  <2>3. Cardinality(InLists(b)) = IF OnList(b) THEN 1 ELSE 0  BY <2>1, ListsOf
  <2>4. /\ b \in heap => b \notin used /\ ~InCall(b) /\ ~OnList(b)
        /\ b \in used => ~InCall(b) /\ ~OnList(b)
        /\ InCall(b) => ~OnList(b)
        /\ b \in heap \/ b \in used \/ InCall(b) \/ OnList(b)
    BY <2>1 DEF PlaceInv, NowhereElse, Somewhere
  <2> QED BY <2>2, <2>3, <2>4
<1> QED BY <1>1, Inductive, PTL

\* A block that is pushed to a pool has the size of the pool, whatever it was used
\* for, and a block given out has room for its header and its data, in the smallest
\* pool that has.
THEOREM RightSizes == Spec => []HomePool
<1>1. IInv => HomePool
  <2> SUFFICES ASSUME IInv  PROVE HomePool  OBVIOUS
  <2>0. TypeInv /\ SizeInv  BY DEF IInv
  <2>1. ASSUME NEW b \in used
        PROVE  /\ allocSize[b] \in (HeaderSize..capacity[b])
               /\ \A p \in Pools : allocSize[b] <= poolSizes[p] => capacity[b] <= poolSizes[p]
    <3>1. /\ allocSize[b] \in Nat /\ capacity[b] \in Nat /\ allocSize[b] >= HeaderSize
          /\ Serves(capacity[b], allocSize[b])
      BY <2>0 DEF TypeInv, SizeInv
    <3>2. CASE allocSize[b] <= MAX_ALLOC_SIZE
      BY <3>1, <3>2, SmallestPool, Constants DEF Serves
    <3>3. CASE ~(allocSize[b] <= MAX_ALLOC_SIZE)
      BY <3>1, <3>3, Constants DEF Serves
    <3> QED BY <3>2, <3>3
  <2> QED BY <2>0, <2>1 DEF HomePool, SizeInv
<1> QED BY <1>1, Inductive, PTL

\* The assertions on the mark in the header (Memory::Release, MemoryPool::Pop) hold
\* in every interleaving when no block is released twice.
THEOREM AssertsHold == Spec => []NoAssert
<1>1. IInv => NoAssert  BY DEF IInv, TypeInv, NoAssert
<1> QED BY <1>1, Inductive, PTL

\* _useCount and _reserveCount are off by no more than the calls between their list
\* operation and their counter.
THEOREM CountersRight == Spec => []CountersLag
<1>1. IInv => CountersLag  BY DEF IInv
<1> QED BY <1>1, Inductive, PTL

-----------------------------------------------------------------------------
(* Memory implements AllocatorSpec.                                         *)

\* The sizes of the calls of Allocate are sizes that are asked for.
AskInv == \A t \in Asking : size[t] - HeaderSize \in Sizes

LEMMA NextAskInv ==
  ASSUME IInv, AskInv, [Next]_vars
  PROVE  AskInv'
<1>0. size \in [Threads -> Nat] /\ pc \in [Threads -> Labels]  BY DEF IInv, TypeInv
<1>1. ASSUME NEW t \in Threads, NEW n \in Sizes, Allocate(t, n)  PROVE AskInv'
  <2>1. size'[t] = n + HeaderSize /\ \A u \in Threads : u # t => size'[u] = size[u]
    BY <1>0, <1>1 DEF Allocate
  <2>2. \A u \in Threads : u # t => pc'[u] = pc[u]  BY <1>0, <1>1 DEF Allocate, Malloc, Goto
  <2>3. size'[t] - HeaderSize = n
    <3>1. n \in Nat /\ HeaderSize \in Nat  BY PoolAssumption
    <3> QED BY <2>1, <3>1
  <2> QED BY <2>1, <2>2, <2>3 DEF AskInv, Asking
<1>2. ASSUME NEW t \in Threads, NEW b \in used, Release(t, b)  PROVE AskInv'
  <2>1. /\ \A u \in Threads : u # t => size'[u] = size[u] /\ pc'[u] = pc[u]
        /\ pc'[t] \in {"idle", "push"}
    BY <1>0, <1>2 DEF Release, Goto
  <2> QED BY <2>1 DEF AskInv, Asking
<1>3. ASSUME size' = size, \A t \in Threads : t \in Asking' => t \in Asking  PROVE AskInv'
  BY <1>3 DEF AskInv, Asking
<1>4. ASSUME NEW t \in Threads,
             PopNew(t) \/ PopEntry(t) \/ DecReserve(t) \/ IncUse(t) \/ AttachHeader(t)
               \/ PushEntry(t) \/ DecUse(t) \/ IncReserve(t)
      PROVE  AskInv'
  <2>1. size' = size /\ \A u \in Threads : u # t => pc'[u] = pc[u]
    BY <1>0, <1>4 DEF PopNew, PopEntry, DecReserve, IncUse, AttachHeader, PushEntry, DecUse,
                      IncReserve, Malloc, Goto
  <2>2. t \in Asking' => t \in Asking
    BY <1>0, <1>4 DEF PopNew, PopEntry, DecReserve, IncUse, AttachHeader, PushEntry, DecUse,
                      IncReserve, Malloc, Goto, Asking
  <2> QED BY <2>1, <2>2, <1>3 DEF Asking
<1>5. ASSUME UNCHANGED vars  PROVE AskInv'
  BY <1>5, <1>3 DEF vars, callVars, Asking
<1> QED BY <1>1, <1>2, <1>4, <1>5 DEF Next, Crashed

\* What the program does not see of a step.
LEMMA AskedSame ==
  ASSUME Asking' = Asking, \A t \in Asking : size'[t] = size[t]
  PROVE  Asked' = Asked
BY DEF Asked

LEMMA GivenSame ==
  ASSUME used' = used, \A b \in used : allocSize'[b] = allocSize[b] /\ capacity'[b] = capacity[b]
  PROVE  Given' = Given
BY DEF Given

\* A step of a call by which the program gets nothing.
LEMMA Stutters ==
  ASSUME IInv, IInv', NEW t \in Threads,
         PopEntry(t) \/ DecReserve(t) \/ IncUse(t) \/ PushEntry(t) \/ DecUse(t) \/ IncReserve(t)
  PROVE  UNCHANGED <<Asked, Given, crash>>
<1>0. /\ size \in [Threads -> Nat] /\ pc \in [Threads -> Labels]
      /\ crash = "none" /\ crash' # "ASSERT_CRASH"
  BY DEF IInv, TypeInv, Running, PopEntry, DecReserve, IncUse, PushEntry, DecUse, IncReserve
<1>1. /\ size' = size /\ UNCHANGED <<used, allocSize, capacity>>
      /\ \E label \in Labels : Goto(t, label)
      /\ t \in Asking' <=> t \in Asking
  BY <1>0 DEF PopEntry, DecReserve, IncUse, PushEntry, DecUse, IncReserve, Goto, blockVars,
              Labels, Asking
<1>2. crash' = crash
  BY <1>0 DEF PopEntry, DecReserve, IncUse, PushEntry, DecUse, IncReserve
<1>3. Asking' = Asking  BY <1>0, <1>1 DEF Asking, Goto
<1> QED BY <1>1, <1>2, <1>3, AskedSame, GivenSame

\* _aligned_malloc takes a block that the program does not have.
LEMMA MallocKeeps ==
  ASSUME IInv, NEW t \in Threads, NEW n, NEW label, Malloc(t, n, label),
         UNCHANGED <<allocSize, used>>
  PROVE  Given' = Given
<1>1. capacity \in [Blocks -> Nat] /\ used \subseteq Blocks /\ \A b \in heap : b \notin used
  BY DEF IInv, TypeInv, PlaceInv, NowhereElse
<1>2. \A b \in used : capacity'[b] = capacity[b]  BY <1>1 DEF Malloc
<1> QED BY <1>2, GivenSame

LEMMA AllocateRefines ==
  ASSUME IInv, NEW t \in Threads, NEW n \in Sizes, Allocate(t, n)
  PROVE  Abs!Ask(t, n) \/ Abs!OutOfMemory
<1>0. /\ size \in [Threads -> Nat] /\ pc \in [Threads -> Labels] /\ t \notin Asking
      /\ crash = "none" /\ UNCHANGED <<allocSize, used>>
      /\ size' = [size EXCEPT ![t] = n + HeaderSize]
  BY DEF IInv, TypeInv, Running, Allocate, Asking
<1>1. size'[t] - HeaderSize = n
  <2>1. n \in Nat /\ HeaderSize \in Nat  BY PoolAssumption
  <2> QED BY <1>0, <2>1
<1>2. Given' = Given
  BY <1>0, MallocKeeps, GivenSame DEF Allocate
<1>3. CASE crash' = "null header" /\ UNCHANGED pc
  <2>1. Asking' = Asking /\ \A u \in Asking : size'[u] = size[u]  BY <1>0, <1>3 DEF Asking
  <2> QED BY <1>0, <1>2, <1>3, <2>1, AskedSame DEF Abs!OutOfMemory
<1>4. CASE crash' = crash /\ (Goto(t, "pop") \/ Goto(t, "attach"))
  <2>1. Asking' = Asking \cup {t}  BY <1>0, <1>4 DEF Asking, Goto
  <2>2. DOMAIN Asked = Asking /\ \A u \in Asking : u # t /\ size'[u] = size[u]
    BY <1>0 DEF Asked, Asking
  <2>3. Asked' = Abs!With(Asked, t, n)
    BY <1>1, <2>1, <2>2 DEF Asked, Abs!With
  <2> QED BY <1>0, <1>2, <1>4, <2>2, <2>3 DEF Abs!Ask
<1> QED BY <1>3, <1>4 DEF Allocate, Malloc

LEMMA PopNewRefines ==
  ASSUME IInv, NEW t \in Threads, PopNew(t)
  PROVE  UNCHANGED <<Asked, Given, crash>> \/ Abs!OutOfMemory
<1>0. pc \in [Threads -> Labels] /\ crash = "none" /\ size' = size /\ pc[t] = "pop"
  BY DEF IInv, TypeInv, Running, PopNew
<1>1. Given' = Given  BY MallocKeeps DEF PopNew
<1>2. Asking' = Asking  BY <1>0 DEF PopNew, Malloc, Goto, Asking
<1>3. Asked' = Asked  BY <1>0, <1>2, AskedSame
<1>4. crash' = crash \/ crash' = "null header"  BY DEF PopNew, Malloc
<1> QED BY <1>0, <1>1, <1>3, <1>4 DEF Abs!OutOfMemory

\* The block that is given has the size that was asked for, and room for it.
LEMMA AttachRefines ==
  ASSUME IInv, AskInv, NEW t \in Threads, AttachHeader(t)
  PROVE  block[t] \in Blocks /\ Abs!Give(t, block[t])
<1> DEFINE b == block[t]
           r == capacity[b]
<1>0. /\ TypeInv /\ PlaceInv /\ SizeInv /\ crash = "none" /\ crash' = crash
      /\ pc[t] = "attach" /\ t \in Asking
  BY DEF IInv, Running, AttachHeader, Asking
<1>1. /\ b \in Blocks /\ b # None /\ pc \in [Threads -> Labels]
      /\ allocSize \in [Blocks -> Nat] /\ r \in Nat /\ size[t] \in Nat
      /\ size[t] >= HeaderSize /\ used \subseteq Blocks
  BY <1>0, PoolAssumption DEF TypeInv, Holding
<1>2. b \notin used  BY <1>0, <1>1 DEF PlaceInv, NowhereElse, InCall
<1>3. /\ UNCHANGED <<capacity, size>> /\ used' = used \cup {b}
      /\ allocSize'[b] = size[t] /\ \A c \in used : allocSize'[c] = allocSize[c]
      /\ pc' = [pc EXCEPT ![t] = "idle"]
  BY <1>1, <1>2 DEF AttachHeader, Goto
<1>4. r \in Rooms /\ r >= size[t]
  <2>1. Serves(r, size[t])  BY <1>0, <1>1 DEF SizeInv
  <2>2. CASE size[t] <= MAX_ALLOC_SIZE
    <3>1. r = poolSizes[Slot(size[t])]  BY <2>1, <2>2 DEF Serves
    <3>2. Slot(size[t]) \in Pools /\ size[t] <= poolSizes[Slot(size[t])]
      BY <1>1, <2>2, SmallestPool
    <3> QED BY <1>1, <3>1, <3>2 DEF Rooms
  <2>3. CASE ~(size[t] <= MAX_ALLOC_SIZE)
    <3>1. r = size[t]  BY <2>1, <2>3 DEF Serves
    <3>2. size[t] - HeaderSize \in Sizes  BY <1>0 DEF AskInv
    <3>3. size[t] = (size[t] - HeaderSize) + HeaderSize  BY <1>1, PoolAssumption
    <3> QED BY <1>1, <3>1, <3>2, <3>3 DEF Rooms
  <2> QED BY <2>2, <2>3
<1>5. DOMAIN Asked = Asking /\ Asked[t] = size[t] - HeaderSize /\ DOMAIN Given = used
  BY <1>0 DEF Asked, Given
<1>6. r >= Asked[t] + HeaderSize  BY <1>1, <1>4, <1>5, PoolAssumption
<1>7. Given' = Abs!With(Given, b, [size |-> Asked[t], room |-> r])
  BY <1>2, <1>3, <1>5 DEF Given, Abs!With
<1>8. Asked' = Abs!Without(Asked, t)
  <2>1. Asking' = Asking \ {t}  BY <1>1, <1>3 DEF Asking
  <2> QED BY <1>3, <1>5, <2>1 DEF Asked, Abs!Without
<1> QED BY <1>0, <1>1, <1>2, <1>4, <1>5, <1>6, <1>7, <1>8 DEF Abs!Give

LEMMA ReleaseRefines ==
  ASSUME IInv, NEW t \in Threads, NEW b \in used, Release(t, b)
  PROVE  b \in Blocks /\ Abs!TakeBack(b)
<1>0. /\ TypeInv /\ SizeInv /\ crash = "none" /\ t \notin Asking
      /\ pc \in [Threads -> Labels] /\ size \in [Threads -> Nat]
      /\ allocSize \in [Blocks -> Nat] /\ b \in Blocks /\ used \subseteq Blocks
  BY DEF IInv, TypeInv, Running, Release, Asking
<1>1. ~(allocSize[b] <= 0)
  <2>1. allocSize[b] \in Nat /\ allocSize[b] >= HeaderSize  BY <1>0 DEF SizeInv
  <2> QED BY <2>1, PoolAssumption
<1>2. /\ used' = used \ {b} /\ capacity' = capacity /\ crash' = crash
      /\ \A c \in used \ {b} : allocSize'[c] = allocSize[c]
      /\ \A u \in Threads : u # t => size'[u] = size[u] /\ pc'[u] = pc[u]
      /\ pc'[t] \in {"idle", "push"}
  BY <1>0, <1>1 DEF Release, Goto
<1>3. Asking' = Asking /\ \A u \in Asking : size'[u] = size[u]  BY <1>0, <1>2 DEF Asking
<1>4. Given' = Abs!Without(Given, b) /\ b \in DOMAIN Given
  BY <1>2 DEF Given, Abs!Without
<1> QED BY <1>0, <1>2, <1>3, <1>4, AskedSame DEF Abs!TakeBack

LEMMA NextRefines ==
  ASSUME IInv, IInv', AskInv, [Next]_vars
  PROVE  [Abs!SpecNext]_(Abs!specVars)
<1>1. ASSUME UNCHANGED vars  PROVE UNCHANGED <<Asked, Given, crash>>
  BY <1>1 DEF vars, blockVars, callVars, Asked, Given, Asking
<1>2. ASSUME NEW t \in Threads, NEW n \in Sizes, Allocate(t, n)  PROVE Abs!SpecNext
  BY <1>2, AllocateRefines DEF Abs!SpecNext
<1>3. ASSUME NEW t \in Threads, NEW b \in used, Release(t, b)  PROVE Abs!SpecNext
  BY <1>3, ReleaseRefines DEF Abs!SpecNext
<1>4. ASSUME NEW t \in Threads, PopNew(t)
      PROVE  Abs!SpecNext \/ UNCHANGED <<Asked, Given, crash>>
  BY <1>4, PopNewRefines DEF Abs!SpecNext
<1>5. ASSUME NEW t \in Threads, AttachHeader(t)  PROVE Abs!SpecNext
  BY <1>5, AttachRefines DEF Abs!SpecNext
<1>6. ASSUME NEW t \in Threads,
             PopEntry(t) \/ DecReserve(t) \/ IncUse(t) \/ PushEntry(t) \/ DecUse(t) \/ IncReserve(t)
      PROVE  UNCHANGED <<Asked, Given, crash>>
  BY <1>6, Stutters
<1> QED BY <1>1, <1>2, <1>3, <1>4, <1>5, <1>6 DEF Next, Crashed, Abs!specVars

\* Memory keeps AllocatorSpec, whatever the interleaving of the list operations, the
\* counters and the headers (Memory.cpp:74-121, MemoryPool.cpp:24-69): the program cannot
\* tell that blocks are shared between sizes and threads.
THEOREM Implements == Spec => Refines
<1>1. Init => Abs!SpecInit /\ AskInv
  <2> SUFFICES ASSUME Init  PROVE Abs!SpecInit /\ AskInv  OBVIOUS
  <2>1. Asking = {} /\ used = {} /\ crash = "none"  BY DEF Init, Asking
  <2> QED BY <2>1 DEF AskInv, Asked, Given, Abs!SpecInit
<1>2. IInv /\ AskInv /\ [Next]_vars => AskInv'  BY NextAskInv
<1>3. IInv /\ IInv' /\ AskInv /\ [Next]_vars => [Abs!SpecNext]_(Abs!specVars)  BY NextRefines
<1> QED BY <1>1, <1>2, <1>3, Inductive, PTL DEF Spec, Refines, Abs!Spec

-----------------------------------------------------------------------------
(* StompAllocator.                                                          *)

LEMMA Split ==
  ASSUME NEW n \in Int
  PROVE  /\ n \div PAGE_SIZE \in Int
         /\ n % PAGE_SIZE \in 0..(PAGE_SIZE - 1)
         /\ n = PAGE_SIZE * (n \div PAGE_SIZE) + (n % PAGE_SIZE)
BY PageAssumption

\* Division with remainder has one result.
LEMMA Rounded ==
  ASSUME NEW a \in Int, NEW b \in Int, NEW r \in 0..(PAGE_SIZE - 1),
         NEW s \in 0..(PAGE_SIZE - 1), PAGE_SIZE * a + r = PAGE_SIZE * b + s
  PROVE  r = s
<1> USE PageAssumption
<1>1. CASE a < b
  <2>1. PAGE_SIZE * (a + 1) <= PAGE_SIZE * b  BY <1>1
  <2>2. PAGE_SIZE * (a + 1) = PAGE_SIZE * a + PAGE_SIZE  OBVIOUS
  <2> QED BY <2>1, <2>2
<1>2. CASE b < a
  <2>1. PAGE_SIZE * (b + 1) <= PAGE_SIZE * a  BY <1>2
  <2>2. PAGE_SIZE * (b + 1) = PAGE_SIZE * b + PAGE_SIZE  OBVIOUS
  <2> QED BY <2>1, <2>2
<1>3. CASE a = b
  BY <1>3
<1> QED BY <1>1, <1>2, <1>3

\* The block is less than a page away from the start of its pages.
LEMMA OffsetInPage ==
  ASSUME NEW bytes \in Nat \ {0}
  PROVE  /\ PageCount(bytes) \in Int
         /\ DataOffset(bytes) \in 0..(PAGE_SIZE - 1)
<1> USE PageAssumption
<1> DEFINE n == bytes + PAGE_SIZE - 1
           q == n \div PAGE_SIZE
           r == n % PAGE_SIZE
<1>1. n \in Int  OBVIOUS
<1>2. q \in Int /\ r \in 0..(PAGE_SIZE - 1) /\ n = PAGE_SIZE * q + r
  BY <1>1, Split
<1> HIDE DEF q, r
<1>3. q * PAGE_SIZE = PAGE_SIZE * q /\ PAGE_SIZE * q \in Int
  BY <1>2
<1>4. q * PAGE_SIZE - bytes = PAGE_SIZE - 1 - r
  BY <1>2, <1>3
<1>5. PAGE_SIZE - 1 - r \in 0..(PAGE_SIZE - 1)
  BY <1>2
<1> QED BY <1>2, <1>4, <1>5 DEF PageCount, DataOffset, q

\* Release rounds down to the page the block's pages start with.
LEMMA ReleaseInPage ==
  ASSUME NEW base, IsPage(base), NEW off \in 0..(PAGE_SIZE - 1)
  PROVE  StompRelease(base + off) = base
<1> USE PageAssumption
<1>1. PICK n \in Nat : base = PAGE_SIZE * n  BY DEF IsPage
<1>2. base \in Int /\ base + off \in Int  BY DEF IsPage
<1> DEFINE q == (base + off) \div PAGE_SIZE
           r == (base + off) % PAGE_SIZE
<1>3. q \in Int /\ r \in 0..(PAGE_SIZE - 1) /\ base + off = PAGE_SIZE * q + r
  BY <1>2, Split
<1> HIDE DEF q, r
<1>4. n \in Int /\ PAGE_SIZE * n + off = PAGE_SIZE * q + r
  BY <1>1, <1>3
<1>5. off = r
  BY <1>3, <1>4, Rounded
<1> QED BY <1>2, <1>5 DEF StompRelease, r

\* Every block of StompAllocator::Alloc lies in its pages and ends with them, and
\* StompAllocator::Release frees exactly these (Allocator.cpp:24-38).
THEOREM StompSound ==
  ASSUME NEW base, IsPage(base), NEW bytes \in Nat \ {0}
  PROVE  BlockFits(base, bytes) /\ NoSparePage(bytes)
<1> USE PageAssumption
<1>1. PageCount(bytes) \in Int /\ DataOffset(bytes) \in 0..(PAGE_SIZE - 1)
  BY OffsetInPage
<1>2. base \in Int  BY DEF IsPage
<1>3. PageCount(bytes) * PAGE_SIZE \in Int  BY <1>1
<1>4. StompAlloc(base, bytes) >= base
  BY <1>1, <1>2 DEF StompAlloc
<1>5. StompAlloc(base, bytes) + bytes = RegionEnd(base, bytes)
  BY <1>2, <1>3 DEF StompAlloc, DataOffset, RegionEnd
<1>6. StompRelease(StompAlloc(base, bytes)) = base
  BY <1>1, ReleaseInPage DEF StompAlloc
<1>7. NoSparePage(bytes)
  <2>1. PageCount(bytes) * PAGE_SIZE - bytes < PAGE_SIZE
    BY <1>1, <1>3 DEF DataOffset
  <2>2. PAGE_SIZE * (PageCount(bytes) - 1) = PageCount(bytes) * PAGE_SIZE - PAGE_SIZE
    BY <1>1
  <2> QED BY <1>3, <2>1, <2>2 DEF NoSparePage
<1> QED BY <1>4, <1>5, <1>6, <1>7 DEF BlockFits

\* The same for Memory::Allocate and Memory::Release of the _STOMP build, with the
\* header in front of the data (Memory.cpp:73, 99).
THEOREM MemoryStompSound ==
  ASSUME NEW base, IsPage(base), NEW bytes \in Nat, NEW h \in Nat \ {0}
  PROVE  MemoryFits(base, bytes, h)
<1>1. bytes + h \in Nat \ {0} /\ base \in Int  BY DEF IsPage
<1>2. BlockFits(base, bytes + h)  BY <1>1, StompSound
<1>3. StompAlloc(base, bytes + h) \in Int
  BY <1>1, OffsetInPage DEF StompAlloc
<1>4. MemoryAllocate(base, bytes, h) - h = StompAlloc(base, bytes + h)
  BY <1>3 DEF MemoryAllocate
<1>5. MemoryAllocate(base, bytes, h) + bytes = StompAlloc(base, bytes + h) + (bytes + h)
  BY <1>3 DEF MemoryAllocate
<1> QED BY <1>2, <1>4, <1>5 DEF BlockFits, MemoryFits, MemoryRelease
=============================================================================
