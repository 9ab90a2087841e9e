----------------------------- MODULE LockProofs -----------------------------
(***************************************************************************)
(* Proofs about Lock, for any set of threads, any nesting depth and either  *)
(* policy on ReadThenWrite.                                                 *)
(*                                                                          *)
(* The argument counts guards.  Guards(held, k) is the set of the guards of *)
(* kind k that are alive; the lower half of the flag is the number of read  *)
(* guards, _writeCount the number of write guards, and the upper half of    *)
(* the flag names the one thread that has write guards or is about to have  *)
(* its first.                                                               *)
(***************************************************************************)
EXTENDS Lock, FiniteSetTheorems, SequenceTheorems, TLAPS

-----------------------------------------------------------------------------
(* The flag word.                                                           *)

LEMMA DivMod ==
  ASSUME NEW S \in Nat, S > 0, NEW f \in Int
  PROVE  /\ f \div S \in Int
         /\ f % S \in 0..(S - 1)
         /\ f = S * (f \div S) + (f % S)
OBVIOUS

LEMMA TimesMono ==
  ASSUME NEW S \in Nat, NEW a \in Int, NEW b \in Int, a <= b
  PROVE  S * a <= S * b
OBVIOUS

LEMMA SplitUnique ==
  ASSUME NEW S \in Nat, S > 0, NEW a \in Int, NEW b \in Int,
         NEW r \in 0..(S - 1), NEW q \in 0..(S - 1),
         S * a + r = S * b + q
  PROVE  a = b /\ r = q
<1>1. CASE a < b
  <2>1. S * b >= S * (a + 1)  BY <1>1
  <2>2. S * (a + 1) = S * a + S  OBVIOUS
  <2> QED BY <2>1, <2>2
<1>2. CASE b < a
  <2>1. S * a >= S * (b + 1)  BY <1>2
  <2>2. S * (b + 1) = S * b + S  OBVIOUS
  <2> QED BY <2>1, <2>2
<1>3. CASE a = b
  BY <1>3
<1> QED BY <1>1, <1>2, <1>3

Word == 0..(Span16 * Span16 - 1)
Half == 0..(Span16 - 1)

LEMMA FlagMake ==
  ASSUME NEW o \in Half, NEW r \in Half
  PROVE  LET f == Span16 * o + r
         IN f \in Word /\ WriteThread(f) = o /\ ReadCount(f) = r
<1> DEFINE f == Span16 * o + r
<1> USE WordAssumption
<1>1. f \in Word
  <2>1. Span16 * o <= Span16 * (Span16 - 1)  BY DEF Half
  <2>2. Span16 * (Span16 - 1) = Span16 * Span16 - Span16  OBVIOUS
  <2>3. Span16 * o >= 0 /\ Span16 * o \in Int /\ Span16 * Span16 \in Int  BY DEF Half
  <2> QED BY <2>1, <2>2, <2>3 DEF Half, Word
<1>2. f \in Int  BY <1>1 DEF Word
<1> HIDE DEF f
<1>3. f = Span16 * (f \div Span16) + (f % Span16) /\ f \div Span16 \in Int
      /\ f % Span16 \in 0..(Span16 - 1)
  BY <1>2, DivMod
<1>4. o = f \div Span16 /\ r = f % Span16
  BY <1>3, SplitUnique DEF Half, f
<1> QED BY <1>1, <1>4 DEF WriteThread, ReadCount, f

LEMMA FlagParts ==
  ASSUME NEW f \in Word
  PROVE  /\ WriteThread(f) \in Half /\ ReadCount(f) \in Half
         /\ f = Span16 * WriteThread(f) + ReadCount(f)
<1> USE WordAssumption
<1> DEFINE q == f \div Span16
           r == f % Span16
<1>1. f \in Int /\ f >= 0 /\ f < Span16 * Span16  BY DEF Word
<1>2. f = Span16 * q + r /\ q \in Int /\ r \in 0..(Span16 - 1)
  BY <1>1, DivMod
<1> HIDE DEF q, r
<1>3. q < Span16
  <2>1. SUFFICES ASSUME q >= Span16 PROVE FALSE  BY <1>2
  <2>2. Span16 * q >= Span16 * Span16  BY <2>1, <1>2, TimesMono
  <2> QED BY <2>2, <1>1, <1>2
<1>4. q >= 0
  <2>1. SUFFICES ASSUME q <= -1 PROVE FALSE  BY <1>2
  <2>2. Span16 * q <= Span16 * (-1)  BY <2>1, <1>2, TimesMono
  <2> QED BY <2>2, <1>1, <1>2
<1> QED BY <1>2, <1>3, <1>4 DEF WriteThread, ReadCount, Half, q, r

LEMMA FlagEmpty == EMPTY_FLAG \in Word /\ WriteThread(EMPTY_FLAG) = 0 /\ ReadCount(EMPTY_FLAG) = 0
<1>1. 0 \in Half /\ Span16 * 0 + 0 = 0  BY WordAssumption DEF Half
<1> QED BY <1>1, FlagMake DEF EMPTY_FLAG

LEMMA FlagOwned ==
  ASSUME NEW t \in Threads
  PROVE  Desired(t) \in Word /\ WriteThread(Desired(t)) = t /\ ReadCount(Desired(t)) = 0
<1> USE WordAssumption, ThreadAssumption
<1>1. t \in Half /\ 0 \in Half /\ t # 0  BY DEF Half
<1>2. t % Span16 = t
  <2>1. t = Span16 * 0 + t  BY <1>1 DEF Half
  <2> QED BY <2>1, <1>1, FlagMake DEF ReadCount
<1>3. Desired(t) = Span16 * t + 0  BY <1>1, <1>2 DEF Desired, Half
<1> QED BY <1>1, <1>3, FlagMake

LEMMA WordFixed ==
  ASSUME NEW f \in Word
  PROVE  Word32(f) = f
<1> USE WordAssumption
<1> DEFINE S == Span16 * Span16
<1>1. S \in Nat /\ S > 0  OBVIOUS
<1>2. f = S * (f \div S) + (f % S) /\ f \div S \in Int /\ f % S \in 0..(S - 1)
  BY <1>1, DivMod DEF Word
<1>3. S * 0 + f = S * (f \div S) + (f % S)  BY <1>2, <1>1 DEF Word
<1>4. f \in 0..(S - 1)  BY DEF Word
<1> HIDE DEF S
<1>5. f % S = f  BY <1>1, <1>2, <1>3, <1>4, SplitUnique
<1> QED BY <1>5 DEF Word32, S

LEMMA FlagAdd ==
  ASSUME NEW f \in Word, ReadCount(f) + 1 < Span16
  PROVE  LET g == Word32(f + 1)
         IN  g \in Word /\ g = f + 1 /\ WriteThread(g) = WriteThread(f)
             /\ ReadCount(g) = ReadCount(f) + 1
<1> DEFINE o == WriteThread(f)
           r == ReadCount(f) + 1
<1>1. o \in Half /\ r \in Half /\ f = Span16 * o + ReadCount(f) /\ ReadCount(f) \in Half
  BY FlagParts, WordAssumption DEF Half
<1>2. Span16 * o \in Int  BY <1>1, WordAssumption DEF Half
<1>3. f + 1 = Span16 * o + r  BY <1>1, <1>2 DEF Half
<1> QED BY <1>1, <1>3, FlagMake, WordFixed

LEMMA FlagSub ==
  ASSUME NEW f \in Word, ReadCount(f) # 0
  PROVE  LET g == Word32(f - 1)
         IN  g \in Word /\ WriteThread(g) = WriteThread(f)
             /\ ReadCount(g) = ReadCount(f) - 1
<1> DEFINE o == WriteThread(f)
           r == ReadCount(f) - 1
<1>1. o \in Half /\ r \in Half /\ f = Span16 * o + ReadCount(f) /\ ReadCount(f) \in Half
  BY FlagParts, WordAssumption DEF Half
<1>2. Span16 * o \in Int  BY <1>1, WordAssumption DEF Half
<1>3. f - 1 = Span16 * o + r  BY <1>1, <1>2 DEF Half
<1> QED BY <1>1, <1>3, FlagMake, WordFixed

\* A count that fits the lower half has no owner in the upper one.
LEMMA FlagShared ==
  ASSUME NEW r \in Half
  PROVE  r \in Word /\ WriteThread(r) = 0 /\ ReadCount(r) = r
<1>1. 0 \in Half /\ Span16 * 0 + r = r  BY WordAssumption DEF Half
<1> QED BY <1>1, FlagMake

-----------------------------------------------------------------------------
(* Tables of guards, and their number.                                      *)

Tables ==
  {h \in [Threads -> Seq({"R", "W"})] : \A t \in Threads : Len(h[t]) <= MaxNest}

\* The guards of kind k in table h, each named by its thread and its depth.
Guards(h, k) ==
  {p \in Threads \X (1..MaxNest) : p[2] <= Len(h[p[1]]) /\ h[p[1]][p[2]] = k}

Pushed(h, t, k) == [h EXCEPT ![t] = Append(@, k)]
Popped(h, t)    == [h EXCEPT ![t] = SubSeq(@, 1, Len(@) - 1)]

Has(h, t, k) == \E i \in 1..Len(h[t]) : h[t][i] = k

LEMMA ThreadsFinite == IsFiniteSet(Threads) /\ Cardinality(Threads) \in Nat
<1>1. IsFiniteSet(1..(Span16 - 1))  BY WordAssumption, FS_Interval
<1> QED BY <1>1, ThreadAssumption, FS_Subset, FS_CardinalityType

LEMMA GuardsBound ==
  ASSUME NEW h, NEW k
  PROVE  /\ IsFiniteSet(Guards(h, k))
         /\ Cardinality(Guards(h, k)) \in Nat
         /\ Cardinality(Guards(h, k)) < Span16
<1>1. IsFiniteSet(1..MaxNest) /\ Cardinality(1..MaxNest) = MaxNest
  BY NestAssumption, FS_Interval
<1>2. /\ IsFiniteSet(Threads \X (1..MaxNest))
      /\ Cardinality(Threads \X (1..MaxNest)) = Cardinality(Threads) * MaxNest
  BY <1>1, ThreadsFinite, FS_Product
<1>3. Guards(h, k) \subseteq Threads \X (1..MaxNest)  BY DEF Guards
<1>4. IsFiniteSet(Guards(h, k)) /\ Cardinality(Guards(h, k)) <= Cardinality(Threads) * MaxNest
  BY <1>2, <1>3, FS_Subset
<1>5. Cardinality(Guards(h, k)) \in Nat  BY <1>4, FS_CardinalityType
<1>6. Cardinality(Threads) * MaxNest \in Nat  BY ThreadsFinite, NestAssumption
<1> QED BY <1>4, <1>5, <1>6, NestAssumption, WordAssumption

LEMMA HasGuard ==
  ASSUME NEW h \in Tables, NEW k
  PROVE  /\ \A t \in Threads : Has(h, t, k) <=> \E p \in Guards(h, k) : p[1] = t
         /\ Cardinality(Guards(h, k)) = 0 <=> \A t \in Threads : ~Has(h, t, k)
<1>1. ASSUME NEW t \in Threads, Has(h, t, k)
      PROVE  \E p \in Guards(h, k) : p[1] = t
  <2>1. PICK i \in 1..Len(h[t]) : h[t][i] = k  BY <1>1 DEF Has
  <2>2. Len(h[t]) \in Nat /\ Len(h[t]) <= MaxNest  BY DEF Tables
  <2>3. <<t, i>> \in Threads \X (1..MaxNest)  BY <2>2, NestAssumption
  <2>4. <<t, i>> \in Guards(h, k)  BY <2>1, <2>2, <2>3 DEF Guards
  <2> QED BY <2>4
<1>2. ASSUME NEW t \in Threads, NEW p \in Guards(h, k), p[1] = t
      PROVE  Has(h, t, k)
  <2>1. p[2] \in 1..MaxNest /\ p[2] <= Len(h[t]) /\ h[t][p[2]] = k
    BY <1>2 DEF Guards
  <2>2. Len(h[t]) \in Nat  BY DEF Tables
  <2>3. p[2] \in 1..Len(h[t])  BY <2>1, <2>2, NestAssumption
  <2> QED BY <2>1, <2>3 DEF Has
<1>3. \A t \in Threads : Has(h, t, k) <=> \E p \in Guards(h, k) : p[1] = t
  BY <1>1, <1>2
<1>4. Cardinality(Guards(h, k)) = 0 <=> Guards(h, k) = {}
  BY GuardsBound, FS_EmptySet
<1>5. \A p \in Guards(h, k) : p[1] \in Threads  BY DEF Guards
<1> QED BY <1>3, <1>4, <1>5

LEMMA HasNothing ==
  ASSUME NEW h \in Tables, NEW t \in Threads
  PROVE  h[t] = <<>> <=> ~Has(h, t, "R") /\ ~Has(h, t, "W")
<1>1. h[t] \in Seq({"R", "W"})  BY DEF Tables
<1>2. ASSUME h[t] # <<>>  PROVE Has(h, t, "R") \/ Has(h, t, "W")
  <2>1. 1 \in 1..Len(h[t])  BY <1>1, <1>2
  <2>2. h[t][1] \in {"R", "W"}  BY <1>1, <2>1
  <2> QED BY <2>1, <2>2 DEF Has
<1>3. ASSUME h[t] = <<>>  PROVE ~Has(h, t, "R") /\ ~Has(h, t, "W")
  BY <1>3 DEF Has
<1> QED BY <1>2, <1>3

\* A guard of kind k is constructed.
LEMMA GuardsPush ==
  ASSUME NEW h \in Tables, NEW t \in Threads, NEW k \in {"R", "W"},
         Len(h[t]) < MaxNest
  PROVE  /\ Pushed(h, t, k) \in Tables
         /\ Cardinality(Guards(Pushed(h, t, k), k)) = Cardinality(Guards(h, k)) + 1
         /\ \A j : j # k => Guards(Pushed(h, t, k), j) = Guards(h, j)
         /\ \A j : \A u \in Threads : Has(Pushed(h, t, k), u, j) <=> Has(h, u, j) \/ (u = t /\ j = k)
         /\ \A u \in Threads : u # t => Pushed(h, t, k)[u] = h[u]
<1> DEFINE g == Pushed(h, t, k)
           n == Len(h[t]) + 1
<1>1. h[t] \in Seq({"R", "W"}) /\ Len(h[t]) \in Nat /\ n \in 1..MaxNest
  BY NestAssumption DEF Tables
<1>2. /\ g[t] = Append(h[t], k) /\ g[t] \in Seq({"R", "W"}) /\ Len(g[t]) = n
      /\ \A i \in 1..Len(h[t]) : g[t][i] = h[t][i]
      /\ g[t][n] = k
  BY <1>1 DEF Tables, Pushed
<1>3. \A u \in Threads : u # t => g[u] = h[u]
  BY DEF Tables, Pushed
<1>4. g \in Tables
  <2>1. ASSUME NEW u \in Threads
        PROVE  g[u] \in Seq({"R", "W"}) /\ Len(g[u]) <= MaxNest
    <3>1. CASE u = t
      <4>1. g[t] \in Seq({"R", "W"})  BY <1>2
      <4>2. Len(g[t]) <= MaxNest  BY <1>1, <1>2, NestAssumption
      <4> QED BY <3>1, <4>1, <4>2, Zenon
    <3>2. CASE u # t  BY <1>1, <1>2, <1>3, <3>2 DEF Tables
    <3> QED BY <3>1, <3>2
  <2>2. g = [u \in Threads |-> g[u]]  BY DEF Tables, Pushed
  <2> QED BY <2>1, <2>2 DEF Tables
<1> HIDE DEF g
<1>5. \A u \in Threads : Len(h[u]) \in Nat /\ Len(g[u]) \in Nat
  BY <1>4 DEF Tables
<1>6. ASSUME NEW j, NEW p \in Threads \X (1..MaxNest)
      PROVE  p \in Guards(g, j) <=> p \in Guards(h, j) \/ (p = <<t, n>> /\ j = k)
  <2>1. p = <<p[1], p[2]>> /\ p[1] \in Threads /\ p[2] \in 1..MaxNest  OBVIOUS
  <2>2. CASE p[1] # t
    BY <2>1, <2>2, <1>3 DEF Guards
  <2>3. CASE p[1] = t /\ p[2] <= Len(h[t])
    <3>1. p[2] \in 1..Len(h[t]) /\ p[2] # n /\ p[2] <= Len(g[t])
      BY <2>1, <2>3, <1>1, <1>2, NestAssumption
    <3> QED BY <2>1, <2>3, <3>1, <1>2 DEF Guards
  <2>4. CASE p[1] = t /\ p[2] = n
    BY <2>1, <2>4, <1>1, <1>2 DEF Guards
  <2>5. CASE p[1] = t /\ p[2] > n
    BY <2>1, <2>5, <1>1, <1>2, NestAssumption DEF Guards
  <2> QED BY <2>1, <2>2, <2>3, <2>4, <2>5, <1>1, NestAssumption
<1>7. \A j : Guards(g, j) = IF j = k THEN Guards(h, j) \cup {<<t, n>>} ELSE Guards(h, j)
  <2>1. \A j : Guards(g, j) \subseteq Threads \X (1..MaxNest) /\ Guards(h, j) \subseteq Threads \X (1..MaxNest)
    BY DEF Guards
  <2>2. <<t, n>> \in Threads \X (1..MaxNest)  BY <1>1
  <2> QED BY <1>6, <2>1, <2>2
<1>8. <<t, n>> \notin Guards(h, k)  BY <1>1 DEF Guards
<1>9. Cardinality(Guards(g, k)) = Cardinality(Guards(h, k)) + 1
  <2>1. Guards(g, k) = Guards(h, k) \cup {<<t, n>>}  BY <1>7
  <2>2. IsFiniteSet(Guards(h, k))  BY GuardsBound
  <2> QED BY <2>1, <2>2, <1>8, FS_AddElement
<1>10. \A j : \A u \in Threads : Has(g, u, j) <=> Has(h, u, j) \/ (u = t /\ j = k)
  <2> SUFFICES ASSUME NEW u \in Threads, NEW j
               PROVE  Has(g, u, j) <=> Has(h, u, j) \/ (u = t /\ j = k)
    OBVIOUS
  <2>1. Has(g, u, j) <=> \E p \in Guards(g, j) : p[1] = u  BY <1>4, HasGuard
  <2>2. Has(h, u, j) <=> \E p \in Guards(h, j) : p[1] = u  BY HasGuard
  <2>3. <<t, n>>[1] = t  OBVIOUS
  <2> QED BY <2>1, <2>2, <2>3, <1>7
<1> QED BY <1>3, <1>4, <1>7, <1>9, <1>10 DEF g

\* The innermost guard, of kind k, is destroyed.
LEMMA GuardsPop ==
  ASSUME NEW h \in Tables, NEW t \in Threads, NEW k,
         h[t] # <<>>, h[t][Len(h[t])] = k
  PROVE  /\ Popped(h, t) \in Tables
         /\ Cardinality(Guards(Popped(h, t), k)) = Cardinality(Guards(h, k)) - 1
         /\ \A j : j # k => Guards(Popped(h, t), j) = Guards(h, j)
         /\ \A j : \A u \in Threads : Has(Popped(h, t), u, j) => Has(h, u, j)
         /\ \A j : \A u \in Threads : j # k => (Has(Popped(h, t), u, j) <=> Has(h, u, j))
         /\ \A u \in Threads : u # t => Popped(h, t)[u] = h[u]
         /\ Len(Popped(h, t)[t]) = Len(h[t]) - 1
         /\ \A i \in 1..(Len(h[t]) - 1) : Popped(h, t)[t][i] = h[t][i]
         /\ Has(h, t, k)
<1> DEFINE g == Popped(h, t)
           n == Len(h[t])
<1>1. h[t] \in Seq({"R", "W"}) /\ n \in Nat /\ n <= MaxNest
  BY DEF Tables
<1>2. n > 0 /\ n \in 1..MaxNest  BY <1>1, NestAssumption
<1>3. /\ g[t] = SubSeq(h[t], 1, n - 1) /\ g[t] \in Seq({"R", "W"}) /\ Len(g[t]) = n - 1
      /\ \A i \in 1..(n - 1) : g[t][i] = h[t][i]
  <2>1. \A i \in 1..(n - 1) : h[t][i] \in {"R", "W"}
    BY <1>1, <1>2
  <2>2. g[t] = SubSeq(h[t], 1, n - 1)  BY DEF Tables, Popped
  <2>3. /\ SubSeq(h[t], 1, n - 1) \in Seq({"R", "W"})
        /\ Len(SubSeq(h[t], 1, n - 1)) = IF 1 <= n - 1 THEN n - 1 - 1 + 1 ELSE 0
        /\ \A i \in 1..(n - 1 - 1 + 1) : SubSeq(h[t], 1, n - 1)[i] = h[t][1 + i - 1]
    BY <2>1, <1>1, SubSeqProperties
  <2>4. n - 1 - 1 + 1 = n - 1 /\ \A i \in 1..(n - 1) : 1 + i - 1 = i
    BY <1>1
  <2> QED BY <2>2, <2>3, <2>4, <1>1, <1>2
<1>4. \A u \in Threads : u # t => g[u] = h[u]
  BY DEF Tables, Popped
<1>5. g \in Tables
  <2>1. ASSUME NEW u \in Threads
        PROVE  g[u] \in Seq({"R", "W"}) /\ Len(g[u]) <= MaxNest
    <3>1. CASE u = t
      <4>1. g[t] \in Seq({"R", "W"})  BY <1>3
      <4>2. Len(g[t]) <= MaxNest  BY <1>1, <1>3, NestAssumption
      <4> QED BY <3>1, <4>1, <4>2, Zenon
    <3>2. CASE u # t  BY <1>1, <1>3, <1>4, <3>2 DEF Tables
    <3> QED BY <3>1, <3>2
  <2>2. g = [u \in Threads |-> g[u]]  BY DEF Tables, Popped
  <2> QED BY <2>1, <2>2 DEF Tables
<1> HIDE DEF g
<1>6. ASSUME NEW j, NEW p \in Threads \X (1..MaxNest)
      PROVE  p \in Guards(g, j) <=> p \in Guards(h, j) /\ p # <<t, n>>
  <2>1. p = <<p[1], p[2]>> /\ p[1] \in Threads /\ p[2] \in 1..MaxNest  OBVIOUS
  <2>2. CASE p[1] # t
    BY <2>1, <2>2, <1>4 DEF Guards
  <2>3. CASE p[1] = t /\ p[2] < n
    <3>1. p[2] \in 1..(n - 1) /\ p[2] # n /\ p[2] <= Len(g[t]) /\ p[2] <= n
      BY <2>1, <2>3, <1>1, <1>3, NestAssumption
    <3> QED BY <2>1, <2>3, <3>1, <1>3 DEF Guards
  <2>4. CASE p[1] = t /\ p[2] >= n
    <3>1. ~(p[2] <= Len(g[t]))  BY <2>1, <2>4, <1>1, <1>3, NestAssumption
    <3>2. p[2] <= n => p[2] = n  BY <2>1, <2>4, <1>1, NestAssumption
    <3> QED BY <2>1, <2>4, <3>1, <3>2 DEF Guards
  <2> QED BY <2>1, <2>2, <2>3, <2>4, <1>1, NestAssumption
<1>7. \A j : Guards(g, j) = Guards(h, j) \ {<<t, n>>}
  <2>1. \A j : Guards(g, j) \subseteq Threads \X (1..MaxNest) /\ Guards(h, j) \subseteq Threads \X (1..MaxNest)
    BY DEF Guards
  <2> QED BY <1>6, <2>1
<1>8. <<t, n>> \in Guards(h, k)  BY <1>1, <1>2 DEF Guards
<1>9. \A j : j # k => <<t, n>> \notin Guards(h, j)  BY <1>1, <1>2 DEF Guards
<1>10. Cardinality(Guards(g, k)) = Cardinality(Guards(h, k)) - 1
  <2>1. Guards(g, k) = Guards(h, k) \ {<<t, n>>}  BY <1>7
  <2>2. IsFiniteSet(Guards(h, k))  BY GuardsBound
  <2> QED BY <2>1, <2>2, <1>8, FS_RemoveElement
<1>11. \A j : j # k => Guards(g, j) = Guards(h, j)
  BY <1>7, <1>9
<1>12. ASSUME NEW u \in Threads, NEW j
       PROVE  /\ Has(g, u, j) => Has(h, u, j)
              /\ j # k => (Has(g, u, j) <=> Has(h, u, j))
  <2>1. Has(g, u, j) <=> \E p \in Guards(g, j) : p[1] = u  BY <1>5, HasGuard
  <2>2. Has(h, u, j) <=> \E p \in Guards(h, j) : p[1] = u  BY HasGuard
  <2> QED BY <2>1, <2>2, <1>7, <1>11
<1>13. Has(h, t, k)  BY <1>1, <1>2 DEF Has
<1>14. Len(g[t]) = Len(h[t]) - 1 /\ \A i \in 1..(Len(h[t]) - 1) : g[t][i] = h[t][i]
  BY <1>3
<1> QED BY <1>4, <1>5, <1>10, <1>11, <1>12, <1>13, <1>14, Zenon DEF g

-----------------------------------------------------------------------------
(* The inductive invariant.                                                 *)

Owner  == WriteThread(lockFlag)
Reads  == Cardinality(Guards(held, "R"))
Writes == Cardinality(Guards(held, "W"))

\* The lower half of the flag counts the read guards.
FlagInv == Owner \in Threads \cup {0} /\ ReadCount(lockFlag) = Reads

\* The upper half names the thread with write guards, or about to have one,
\* and then no other thread has a guard.
OwnerInv ==
  \A t \in Threads :
    /\ Owner = t <=> Has(held, t, "W") \/ pc[t] = "W_count"
    /\ Owner = t => \A u \in Threads : u # t => held[u] = <<>>

\* _writeCount counts the write guards; it reaches 0 one step before the last
\* of them is gone.
CountInv ==
  IF \E t \in Threads : pc[t] = "WU_store"
    THEN Writes = 1 /\ writeCount = 0
    ELSE writeCount = Writes

\* What a thread knows where it is.
PcInv ==
  \A t \in Threads :
    /\ pc[t] \in {"W_cas", "W_count", "R_add", "R_load", "R_cas"} => Len(held[t]) < MaxNest
    /\ pc[t] \in {"W_cas", "R_load", "R_cas"} => Owner # t
    /\ pc[t] = "R_cas" => spinCount[t] < MAX_SPIN_COUNT
    /\ pc[t] = "R_add" => Has(held, t, "W")
    /\ pc[t] = "W_count" => Has(held, t, "W") \/ Reads = 0
    /\ pc[t] \in {"WU_dec", "WU_store"} =>
         held[t] # <<>> /\ held[t][Len(held[t])] = "W" /\ Reads = 0

IInv ==
  /\ TypeOK
  /\ FlagInv
  /\ OwnerInv
  /\ CountInv
  /\ PcInv
  /\ crash # "MULTIPLE UNLOCK"

LEMMA HoldingHas == \A t, k : Holding(t, k) <=> Has(held, t, k)
BY DEF Holding, Has

LEMMA TypeTables ==
  /\ TypeOK => held \in Tables /\ lockFlag \in Word
  /\ 0 \notin Threads
BY ThreadAssumption, WordAssumption DEF TypeOK, Tables, Word

LEMMA InitIInv == Init => IInv
<1> SUFFICES ASSUME Init PROVE IInv  OBVIOUS
<1>1. held \in Tables
  <2>1. <<>> \in Seq({"R", "W"}) /\ Len(<<>>) <= MaxNest  BY NestAssumption
  <2> QED BY <2>1 DEF Init, Tables
<1>2. TypeOK
  <2>1. lockFlag \in 0..(Span16 * Span16 - 1)  BY FlagEmpty DEF Init, Word
  <2> QED BY <1>1, <2>1, WordAssumption, SpinAssumption
          DEF Init, TypeOK, Tables, Causes, Labels
<1>3. \A t \in Threads : held[t] = <<>> /\ pc[t] = "idle"  BY DEF Init
<1>4. \A t \in Threads : ~Has(held, t, "R") /\ ~Has(held, t, "W")
  BY <1>1, <1>3, HasNothing
<1>5. Reads = 0 /\ Writes = 0
  BY <1>1, <1>4, HasGuard DEF Reads, Writes
<1>6. Owner = 0 /\ ReadCount(lockFlag) = 0 /\ crash = "none" /\ writeCount = 0
  BY FlagEmpty DEF Init, Owner
<1> QED BY <1>2, <1>3, <1>4, <1>5, <1>6, TypeTables
        DEF IInv, FlagInv, OwnerInv, CountInv, PcInv

LEMMA SpinReset ==
  ASSUME TypeOK, NEW t \in Threads
  PROVE  [spinCount EXCEPT ![t] = 0] \in [Threads -> 0..MAX_SPIN_COUNT]
<1>1. 0 \in 0..MAX_SPIN_COUNT  BY SpinAssumption
<1> QED BY <1>1 DEF TypeOK

\* A step that leaves the flag, the count and the guards alone only has to
\* respect what is known at each place of the code.
LEMMA LocalStep ==
  ASSUME IInv, TypeOK', UNCHANGED <<lockFlag, writeCount, held>>,
         crash' # "MULTIPLE UNLOCK",
         NEW t \in Threads, NEW l \in Labels, pc' = [pc EXCEPT ![t] = l],
         pc[t] \notin {"W_count", "WU_store"}, l # "WU_store",
         l = "W_count" => Owner = t,
         l \in {"W_cas", "W_count", "R_add", "R_load", "R_cas"} => Len(held[t]) < MaxNest,
         l \in {"W_cas", "R_load", "R_cas"} => Owner # t,
         l = "R_add" => Has(held, t, "W"),
         l = "WU_dec" => held[t] # <<>> /\ held[t][Len(held[t])] = "W" /\ Reads = 0,
         l = "R_cas" => spinCount'[t] < MAX_SPIN_COUNT,
         \A u \in Threads : u # t => spinCount'[u] = spinCount[u]
  PROVE  IInv'
<1>1. Owner' = Owner /\ Reads' = Reads /\ Writes' = Writes /\ ReadCount(lockFlag)' = ReadCount(lockFlag)
  BY DEF Owner, Reads, Writes
<1>2. pc'[t] = l /\ \A u \in Threads : u # t => pc'[u] = pc[u]
  BY DEF IInv, TypeOK
<1>3. FlagInv'  BY <1>1 DEF IInv, FlagInv
<1>4. OwnerInv'  BY <1>1, <1>2 DEF IInv, OwnerInv
<1>5. CountInv'
  <2>1. (\E u \in Threads : pc'[u] = "WU_store") <=> (\E u \in Threads : pc[u] = "WU_store")
    BY <1>2
  <2> QED BY <1>1, <2>1 DEF IInv, CountInv
<1>6. PcInv'  BY <1>1, <1>2 DEF IInv, OwnerInv, PcInv
<1> QED BY <1>3, <1>4, <1>5, <1>6 DEF IInv

LEMMA WriteLockStep == ASSUME IInv, NEW t \in Threads, WriteLock(t) PROVE IInv'
<1> DEFINE l == IF t = WriteThread(lockFlag) THEN "W_count" ELSE "W_cas"
<1>1. TypeOK'  BY SpinReset DEF IInv, TypeOK, WriteLock, Goto, Labels
<1>2. pc' = [pc EXCEPT ![t] = l] /\ l \in Labels  BY DEF WriteLock, Goto, Labels
<1>3. Len(held[t]) < MaxNest /\ pc[t] = "idle"  BY DEF WriteLock, MayCall
<1>4. \A u \in Threads : u # t => spinCount'[u] = spinCount[u]
  BY DEF WriteLock, IInv, TypeOK
<1>5. UNCHANGED <<lockFlag, writeCount, held>> /\ crash' # "MULTIPLE UNLOCK"
  BY DEF WriteLock, IInv
<1> QED BY <1>1, <1>2, <1>3, <1>4, <1>5, LocalStep DEF Owner

LEMMA ReadLockStep == ASSUME IInv, NEW t \in Threads, ReadLock(t) PROVE IInv'
<1> DEFINE l == IF t = WriteThread(lockFlag) THEN "R_add" ELSE "R_load"
<1>1. TypeOK'  BY SpinReset DEF IInv, TypeOK, ReadLock, Goto, Labels
<1>2. pc' = [pc EXCEPT ![t] = l] /\ l \in Labels  BY DEF ReadLock, Goto, Labels
<1>3. Len(held[t]) < MaxNest /\ pc[t] = "idle"  BY DEF ReadLock, MayCall
<1>4. \A u \in Threads : u # t => spinCount'[u] = spinCount[u]
  BY DEF ReadLock, IInv, TypeOK
<1>5. UNCHANGED <<lockFlag, writeCount, held>> /\ crash' # "MULTIPLE UNLOCK"
  BY DEF ReadLock, IInv
<1>6. l = "R_add" => Has(held, t, "W")
  BY <1>3 DEF IInv, OwnerInv, Owner
<1> QED BY <1>1, <1>2, <1>3, <1>4, <1>5, <1>6, LocalStep DEF Owner

LEMMA WriteUnlockStep == ASSUME IInv, NEW t \in Threads, WriteUnlock(t) PROVE IInv'
<1>1. TypeOK'  BY DEF IInv, TypeOK, WriteUnlock, Goto, Labels, Causes
<1>2. UNCHANGED <<lockFlag, writeCount, held, spinCount>> /\ pc[t] = "idle"
      /\ crash' # "MULTIPLE UNLOCK"
  BY DEF WriteUnlock, MayCall, IInv
<1>3. CASE ReadCount(lockFlag) # 0
  <2>1. pc' = pc /\ pc = [pc EXCEPT ![t] = "idle"]
    BY <1>2, <1>3 DEF WriteUnlock, IInv, TypeOK
  <2> QED BY <1>1, <1>2, <2>1, LocalStep DEF Labels
<1>4. CASE ReadCount(lockFlag) = 0
  <2>1. pc' = [pc EXCEPT ![t] = "WU_dec"]  BY <1>4 DEF WriteUnlock, Goto
  <2>2. held[t] # <<>> /\ held[t][Len(held[t])] = "W" /\ Reads = 0
    BY <1>4 DEF WriteUnlock, Innermost, IInv, FlagInv
  <2> QED BY <1>1, <1>2, <2>1, <2>2, LocalStep DEF Labels
<1> QED BY <1>3, <1>4

LEMMA ReadLoadStep == ASSUME IInv, NEW t \in Threads, ReadLoad(t) PROVE IInv'
<1>1. ReadCount(lockFlag) \in 0..(Span16 - 1)
  BY TypeTables, FlagParts DEF IInv, Half
<1>2. TypeOK'  BY <1>1 DEF IInv, TypeOK, ReadLoad, Goto, Labels
<1>3. pc' = [pc EXCEPT ![t] = "R_cas"]  BY DEF ReadLoad, Goto
<1>4. Len(held[t]) < MaxNest /\ Owner # t /\ pc[t] = "R_load" /\ spinCount'[t] < MAX_SPIN_COUNT
  BY DEF ReadLoad, IInv, PcInv
<1>5. UNCHANGED <<lockFlag, writeCount, held, spinCount>> /\ crash' # "MULTIPLE UNLOCK"
  BY DEF ReadLoad, IInv
<1> QED BY <1>2, <1>3, <1>4, <1>5, LocalStep DEF Labels

LEMMA YieldStep == ASSUME IInv, NEW t \in Threads, Yield(t) PROVE IInv'
<1>1. TypeOK'  BY SpinReset DEF IInv, TypeOK, Yield
<1>2. pc[t] \in {"W_cas", "R_load"}  BY DEF Yield, RoundFailed
<1>3. pc' = [pc EXCEPT ![t] = pc[t]]  BY DEF Yield, IInv, TypeOK
<1>4. Len(held[t]) < MaxNest /\ Owner # t  BY <1>2 DEF IInv, PcInv
<1>5. \A u \in Threads : u # t => spinCount'[u] = spinCount[u]
  BY DEF Yield, IInv, TypeOK
<1>6. UNCHANGED <<lockFlag, writeCount, held>> /\ crash' # "MULTIPLE UNLOCK"
  BY DEF Yield, IInv
<1> QED BY <1>1, <1>2, <1>3, <1>4, <1>5, <1>6, LocalStep DEF Labels

LEMMA TimedOutStep == ASSUME IInv, NEW t \in Threads, TimedOut(t) PROVE IInv'
<1>1. TypeOK'  BY DEF IInv, TypeOK, TimedOut, Causes
<1>2. pc[t] \in {"W_cas", "R_load"}  BY DEF TimedOut, RoundFailed
<1>3. pc' = [pc EXCEPT ![t] = pc[t]]  BY DEF TimedOut, IInv, TypeOK
<1>4. Len(held[t]) < MaxNest /\ Owner # t  BY <1>2 DEF IInv, PcInv
<1>5. UNCHANGED <<lockFlag, writeCount, held, spinCount>> /\ crash' # "MULTIPLE UNLOCK"
  BY DEF TimedOut
<1> QED BY <1>1, <1>2, <1>3, <1>4, <1>5, LocalStep DEF Labels

-----------------------------------------------------------------------------
(* The steps that change the flag, the count or the guards.                 *)

LEMMA Unlocking ==
  ASSUME IInv, NEW u \in Threads, pc[u] \in {"WU_dec", "WU_store"}
  PROVE  Owner = u /\ Has(held, u, "W")
<1>1. held \in Tables /\ held[u] # <<>> /\ held[u][Len(held[u])] = "W"
  BY TypeTables DEF IInv, PcInv
<1>2. Has(held, u, "W")  BY <1>1, GuardsPop
<1> QED BY <1>2 DEF IInv, OwnerInv

LEMMA ReadGranted ==
  ASSUME IInv, NEW t \in Threads, pc[t] \in {"R_add", "R_cas"},
         Owner \in {0, t}, lockFlag' = Word32(lockFlag + 1),
         Constructed(t, "R"),
         UNCHANGED <<writeCount, crash, expected, spinCount>>
  PROVE  IInv'
<1>1. held' = Pushed(held, t, "R") /\ held \in Tables /\ lockFlag \in Word
  BY TypeTables DEF Constructed, Pushed, IInv
<1>2. pc'[t] = "idle" /\ (\A u \in Threads : u # t => pc'[u] = pc[u])
      /\ pc' \in [Threads -> Labels]
  BY DEF Constructed, Goto, IInv, TypeOK, Labels
<1>3. Len(held[t]) < MaxNest  BY DEF IInv, PcInv
<1>4. /\ held' \in Tables /\ Reads' = Reads + 1 /\ Writes' = Writes
      /\ \A u \in Threads : Has(held', u, "W") <=> Has(held, u, "W")
      /\ \A u \in Threads : u # t => held'[u] = held[u]
  BY <1>1, <1>3, GuardsPush DEF Reads, Writes
<1>5. Reads \in Nat /\ Reads' \in Nat /\ Reads' < Span16
  BY GuardsBound DEF Reads
<1>6. ReadCount(lockFlag) = Reads  BY DEF IInv, FlagInv
<1>7. /\ lockFlag' \in Word /\ Owner' = Owner /\ ReadCount(lockFlag') = Reads'
  BY <1>1, <1>4, <1>5, <1>6, FlagAdd DEF Owner
<1>8. TypeOK'
  BY <1>2, <1>4, <1>7 DEF IInv, TypeOK, Tables, Word
<1>9. \A u \in Threads : pc[u] \in {"WU_dec", "WU_store"} => FALSE
  BY Unlocking, TypeTables
<1>10. FlagInv'  BY <1>7 DEF FlagInv, IInv
<1>11. OwnerInv'
  <2>1. pc[t] # "W_count" /\ pc'[t] # "W_count"  BY <1>2
  <2> QED BY <1>2, <1>4, <1>7, <2>1, TypeTables DEF OwnerInv, IInv
<1>12. CountInv'
  <2>1. ~(\E u \in Threads : pc'[u] = "WU_store") /\ ~(\E u \in Threads : pc[u] = "WU_store")
    BY <1>2, <1>9
  <2> QED BY <1>4, <2>1 DEF CountInv, IInv
<1>13. PcInv'
  <2>1. \A u \in Threads : pc'[u] # "W_count"
    BY <1>2, TypeTables DEF IInv, OwnerInv
  <2> QED BY <1>2, <1>4, <1>7, <1>9, <2>1 DEF PcInv, IInv
<1> QED BY <1>8, <1>10, <1>11, <1>12, <1>13 DEF IInv

LEMMA ReadAddStep == ASSUME IInv, NEW t \in Threads, ReadAdd(t) PROVE IInv'
<1>1. pc[t] = "R_add"  BY DEF ReadAdd
<1>2. Owner = t  BY <1>1 DEF IInv, PcInv, OwnerInv
<1> QED BY <1>1, <1>2, ReadGranted DEF ReadAdd

LEMMA ReadCasStep == ASSUME IInv, NEW t \in Threads, ReadCas(t) PROVE IInv'
<1>1. pc[t] = "R_cas"  BY DEF ReadCas
<1>2. expected[t] \in Half  BY DEF IInv, TypeOK, Half
<1>3. CASE lockFlag = expected[t]
  <2>1. Owner = 0  BY <1>2, <1>3, FlagShared DEF Owner
  <2>2. lockFlag' = Word32(lockFlag + 1) /\ Constructed(t, "R")
        /\ UNCHANGED <<writeCount, crash, expected, spinCount>>
    BY <1>3 DEF ReadCas
  <2> QED BY <1>1, <2>1, <2>2, ReadGranted
<1>4. CASE lockFlag # expected[t]
  <2>1. /\ UNCHANGED <<lockFlag, writeCount, held, crash, expected>>
        /\ pc' = [pc EXCEPT ![t] = "R_load"]
        /\ spinCount' = [spinCount EXCEPT ![t] = @ + 1]
    BY <1>4 DEF ReadCas, Goto
  <2>2. Len(held[t]) < MaxNest /\ Owner # t /\ spinCount[t] < MAX_SPIN_COUNT
    BY <1>1 DEF IInv, PcInv
  <2>3. spinCount[t] \in 0..MAX_SPIN_COUNT  BY DEF IInv, TypeOK
  <2>4. spinCount[t] + 1 \in 0..MAX_SPIN_COUNT  BY <2>2, <2>3, SpinAssumption
  <2>5. TypeOK'  BY <2>1, <2>4 DEF IInv, TypeOK, Labels
  <2>6. \A u \in Threads : u # t => spinCount'[u] = spinCount[u]
    BY <2>1 DEF IInv, TypeOK
  <2>7. crash' # "MULTIPLE UNLOCK"  BY <2>1 DEF IInv
  <2> QED BY <1>1, <2>1, <2>2, <2>5, <2>6, <2>7, LocalStep DEF Labels
<1> QED BY <1>3, <1>4

LEMMA ReadUnlockStep == ASSUME IInv, NEW t \in Threads, ReadUnlock(t) PROVE IInv'
<1>1. /\ held \in Tables /\ lockFlag \in Word /\ pc[t] = "idle"
      /\ held[t] # <<>> /\ held[t][Len(held[t])] = "R"
  BY TypeTables DEF ReadUnlock, Innermost, MayCall, IInv
<1>2. /\ Popped(held, t) \in Tables
      /\ Cardinality(Guards(Popped(held, t), "R")) = Reads - 1
      /\ Guards(Popped(held, t), "W") = Guards(held, "W")
      /\ \A u \in Threads : Has(Popped(held, t), u, "W") <=> Has(held, u, "W")
      /\ \A u \in Threads : u # t => Popped(held, t)[u] = held[u]
      /\ Has(held, t, "R")
  BY <1>1, GuardsPop DEF Reads
<1>3. Reads \in Nat /\ Reads # 0 /\ ReadCount(lockFlag) = Reads
  BY <1>1, <1>2, GuardsBound, HasGuard DEF Reads, IInv, FlagInv
<1>4. held' = Popped(held, t) /\ Goto(t, "idle") /\ lockFlag' = Word32(lockFlag - 1)
      /\ UNCHANGED <<crash, writeCount, expected, spinCount>>
  BY <1>3 DEF ReadUnlock, Destroyed, Popped
<1>5. pc' = pc  BY <1>1, <1>4 DEF Goto, IInv, TypeOK
<1>6. Reads' = Reads - 1 /\ Writes' = Writes
  BY <1>2, <1>4 DEF Reads, Writes
<1>7. lockFlag' \in Word /\ Owner' = Owner /\ ReadCount(lockFlag') = Reads'
  BY <1>1, <1>3, <1>4, <1>6, FlagSub DEF Owner
<1>8. TypeOK'  BY <1>2, <1>4, <1>5, <1>7 DEF IInv, TypeOK, Tables, Word
<1>9. FlagInv'  BY <1>7 DEF FlagInv, IInv
<1>10. OwnerInv'
  <2>1. held[t] # <<>>  BY <1>1
  <2>2. \A u \in Threads : Owner = u => u = t  BY <2>1 DEF IInv, OwnerInv
  <2> QED BY <1>2, <1>4, <1>5, <1>7, <2>2 DEF OwnerInv, IInv
<1>11. CountInv'  BY <1>4, <1>5, <1>6 DEF CountInv, IInv
<1>12. PcInv'
  <2>1. \A u \in Threads : pc[u] \notin {"WU_dec", "WU_store"}
    BY <1>3 DEF IInv, PcInv
  <2>2. \A u \in Threads : pc[u] # "W_count"
    BY <1>1 DEF IInv, OwnerInv
  <2> QED BY <1>1, <1>2, <1>4, <1>5, <1>7, <2>1, <2>2 DEF PcInv, IInv
<1> QED BY <1>4, <1>8, <1>9, <1>10, <1>11, <1>12 DEF IInv

LEMMA WriteCasStep == ASSUME IInv, NEW t \in Threads, WriteCas(t) PROVE IInv'
<1>1. /\ pc[t] = "W_cas" /\ held \in Tables /\ Len(held[t]) < MaxNest
      /\ spinCount[t] < MAX_SPIN_COUNT /\ Owner # t
      /\ UNCHANGED <<writeCount, crash, expected, held>>
  BY TypeTables DEF WriteCas, IInv, PcInv
<1>2. CASE lockFlag = EMPTY_FLAG
  <2>1. /\ lockFlag' = Desired(t) /\ pc' = [pc EXCEPT ![t] = "W_count"]
        /\ spinCount' = spinCount
    BY <1>2 DEF WriteCas, Goto
  <2>2. Owner = 0 /\ Reads = 0
    BY <1>2, FlagEmpty DEF Owner, IInv, FlagInv
  <2>3. Owner' = t /\ ReadCount(lockFlag') = 0 /\ lockFlag' \in Word
    BY <2>1, FlagOwned DEF Owner
  <2>4. Reads' = Reads /\ Writes' = Writes  BY <1>1 DEF Reads, Writes
  <2>5. pc'[t] = "W_count" /\ \A u \in Threads : u # t => pc'[u] = pc[u]
    BY <2>1 DEF IInv, TypeOK
  <2>6. \A u \in Threads : ~Has(held, u, "W") /\ pc[u] # "W_count"
    BY <2>2, TypeTables DEF IInv, OwnerInv
  <2>7. \A u \in Threads : held[u] = <<>>
    BY <1>1, <2>2, <2>6, HasGuard, HasNothing DEF Reads
  <2>8. TypeOK'  BY <1>1, <2>1, <2>3 DEF IInv, TypeOK, Labels, Word
  <2>9. FlagInv'  BY <2>2, <2>3, <2>4 DEF FlagInv
  <2>10. OwnerInv'  BY <1>1, <2>3, <2>5, <2>6, <2>7 DEF OwnerInv
  <2>11. \A u \in Threads : pc[u] \notin {"WU_dec", "WU_store"}
    BY <2>7 DEF IInv, PcInv
  <2>12. CountInv'
    <3>1. ~(\E u \in Threads : pc'[u] = "WU_store") /\ ~(\E u \in Threads : pc[u] = "WU_store")
      BY <2>5, <2>11
    <3> QED BY <1>1, <2>4, <3>1 DEF CountInv, IInv
  <2>13. PcInv'
    BY <1>1, <2>1, <2>2, <2>3, <2>4, <2>5, <2>6, <2>11 DEF PcInv, IInv
  <2> QED BY <1>1, <2>8, <2>9, <2>10, <2>12, <2>13 DEF IInv
<1>3. CASE lockFlag # EMPTY_FLAG
  <2>1. UNCHANGED <<lockFlag, pc>> /\ spinCount' = [spinCount EXCEPT ![t] = @ + 1]
    BY <1>3 DEF WriteCas
  <2>2. spinCount[t] \in 0..MAX_SPIN_COUNT  BY DEF IInv, TypeOK
  <2>3. spinCount[t] + 1 \in 0..MAX_SPIN_COUNT  BY <1>1, <2>2, SpinAssumption
  <2>4. TypeOK'  BY <1>1, <2>1, <2>3 DEF IInv, TypeOK
  <2>5. \A u \in Threads : u # t => spinCount'[u] = spinCount[u]
    BY <2>1 DEF IInv, TypeOK
  <2>6. pc' = [pc EXCEPT ![t] = "W_cas"]  BY <1>1, <2>1 DEF IInv, TypeOK
  <2>7. crash' # "MULTIPLE UNLOCK"  BY <1>1 DEF IInv
  <2> QED BY <1>1, <2>1, <2>4, <2>5, <2>6, <2>7, LocalStep DEF Labels
<1> QED BY <1>2, <1>3

LEMMA CountWriteStep == ASSUME IInv, NEW t \in Threads, CountWrite(t) PROVE IInv'
<1>1. /\ pc[t] = "W_count" /\ held \in Tables /\ Len(held[t]) < MaxNest /\ Owner = t
      /\ held' = Pushed(held, t, "W") /\ pc' = [pc EXCEPT ![t] = "idle"]
      /\ UNCHANGED <<lockFlag, crash, expected, spinCount>>
      /\ writeCount' = (writeCount + 1) % Span16
  BY TypeTables DEF CountWrite, Constructed, Goto, Pushed, IInv, PcInv, OwnerInv
<1>2. pc'[t] = "idle" /\ \A u \in Threads : u # t => pc'[u] = pc[u]
  BY <1>1 DEF IInv, TypeOK
<1>3. /\ held' \in Tables /\ Writes' = Writes + 1 /\ Reads' = Reads
      /\ \A u \in Threads : Has(held', u, "W") <=> Has(held, u, "W") \/ u = t
      /\ \A u \in Threads : u # t => held'[u] = held[u]
  BY <1>1, GuardsPush DEF Reads, Writes
<1>4. \A u \in Threads : pc[u] \notin {"WU_dec", "WU_store"}
  BY <1>1, Unlocking
<1>5. writeCount = Writes  BY <1>4 DEF IInv, CountInv
<1>6. Writes \in Nat /\ Writes' \in Nat /\ Writes' < Span16
  BY GuardsBound DEF Writes
<1>7. writeCount' = Writes'
  <2>1. Writes' \in Half  BY <1>6, WordAssumption DEF Half
  <2> QED BY <2>1, <1>1, <1>3, <1>5, FlagShared DEF ReadCount
<1>8. Owner' = Owner /\ ReadCount(lockFlag)' = ReadCount(lockFlag)
  BY <1>1 DEF Owner
<1>9. TypeOK'
  <2>1. writeCount' \in 0..(Span16 - 1)  BY <1>6, <1>7, WordAssumption
  <2> QED BY <1>1, <1>3, <2>1 DEF IInv, TypeOK, Labels, Tables
<1>10. FlagInv'  BY <1>3, <1>8 DEF FlagInv, IInv
<1>11. OwnerInv'  BY <1>1, <1>2, <1>3, <1>8 DEF OwnerInv, IInv
<1>12. CountInv'
  <2>1. ~(\E u \in Threads : pc'[u] = "WU_store")  BY <1>2, <1>4
  <2> QED BY <1>7, <2>1 DEF CountInv
<1>13. PcInv'  BY <1>1, <1>2, <1>3, <1>4, <1>8 DEF PcInv, IInv
<1> QED BY <1>1, <1>9, <1>10, <1>11, <1>12, <1>13 DEF IInv

\* Destroying the innermost write guard of the owner.
LEMMA WritePopped ==
  ASSUME IInv, NEW t \in Threads, pc[t] \in {"WU_dec", "WU_store"}
  PROVE  /\ held \in Tables /\ Owner = t /\ Reads = 0 /\ Writes \in Nat \ {0}
         /\ Writes < Span16
         /\ \A u \in Threads : u # t => held[u] = <<>> /\ ~Has(held, u, "W")
         /\ \A u \in Threads : u # t => pc[u] \notin {"WU_dec", "WU_store", "W_count", "R_add"}
         /\ Popped(held, t) \in Tables
         /\ Cardinality(Guards(Popped(held, t), "W")) = Writes - 1
         /\ Guards(Popped(held, t), "R") = Guards(held, "R")
         /\ \A u \in Threads : u # t => Popped(held, t)[u] = held[u]
         /\ \A u \in Threads : Has(Popped(held, t), u, "W") => Has(held, u, "W")
<1>1. held \in Tables /\ held[t] # <<>> /\ held[t][Len(held[t])] = "W" /\ Reads = 0
  BY TypeTables DEF IInv, PcInv
<1>2. Owner = t /\ Has(held, t, "W")  BY Unlocking
<1>3. Writes \in Nat \ {0} /\ Writes < Span16
  BY <1>1, <1>2, HasGuard, GuardsBound DEF Writes
<1>4. \A u \in Threads : u # t => held[u] = <<>> /\ ~Has(held, u, "W")
  BY <1>1, <1>2, HasNothing DEF IInv, OwnerInv
<1>5. \A u \in Threads : u # t => pc[u] \notin {"WU_dec", "WU_store", "W_count", "R_add"}
  BY <1>2, <1>4, Unlocking DEF IInv, OwnerInv, PcInv
<1>6. /\ Popped(held, t) \in Tables
      /\ Cardinality(Guards(Popped(held, t), "W")) = Writes - 1
      /\ Guards(Popped(held, t), "R") = Guards(held, "R")
      /\ \A u \in Threads : u # t => Popped(held, t)[u] = held[u]
      /\ \A u \in Threads : Has(Popped(held, t), u, "W") => Has(held, u, "W")
  BY <1>1, GuardsPop DEF Writes
<1> QED BY <1>1, <1>2, <1>3, <1>4, <1>5, <1>6

LEMMA DecWriteStep == ASSUME IInv, NEW t \in Threads, DecWrite(t) PROVE IInv'
<1>1. /\ pc[t] = "WU_dec" /\ writeCount' = (writeCount - 1) % Span16
      /\ UNCHANGED <<lockFlag, crash, expected, spinCount>>
  BY DEF DecWrite
<1> USE <1>1
<1>2. writeCount = Writes
  <2>1. ~(\E u \in Threads : pc[u] = "WU_store")  BY WritePopped
  <2> QED BY <2>1 DEF IInv, CountInv
<1>3. writeCount' = Writes - 1 /\ writeCount' \in 0..(Span16 - 1)
  <2>1. Writes - 1 \in Half  BY WritePopped, WordAssumption DEF Half
  <2> QED BY <2>1, <1>2, FlagShared DEF ReadCount, Half
<1>4. Owner' = Owner /\ ReadCount(lockFlag)' = ReadCount(lockFlag)
  BY DEF Owner
<1>5. CASE writeCount' = 0
  <2>1. pc' = [pc EXCEPT ![t] = "WU_store"] /\ held' = held
    BY <1>5 DEF DecWrite, Goto
  <2>2. pc'[t] = "WU_store" /\ \A u \in Threads : u # t => pc'[u] = pc[u]
    BY <2>1 DEF IInv, TypeOK
  <2>3. Writes = 1  BY <1>3, <1>5, WritePopped
  <2>4. Reads' = Reads /\ Writes' = Writes  BY <2>1 DEF Reads, Writes
  <2>5. TypeOK'  BY <1>3, <2>1 DEF IInv, TypeOK, Labels
  <2>6. FlagInv'  BY <1>4, <2>4 DEF IInv, FlagInv
  <2>7. OwnerInv'  BY <1>4, <2>1, <2>2 DEF IInv, OwnerInv
  <2>8. CountInv'  BY <1>5, <2>2, <2>3, <2>4 DEF CountInv
  <2>9. PcInv'  BY <1>4, <2>1, <2>2, <2>4 DEF IInv, PcInv
  <2> QED BY <2>5, <2>6, <2>7, <2>8, <2>9 DEF IInv
<1>6. CASE writeCount' # 0
  <2>1. pc' = [pc EXCEPT ![t] = "idle"] /\ held' = Popped(held, t)
    BY <1>6 DEF DecWrite, Destroyed, Goto, Popped
  <2>2. pc'[t] = "idle" /\ \A u \in Threads : u # t => pc'[u] = pc[u]
    BY <2>1 DEF IInv, TypeOK
  <2>3. Reads' = Reads /\ Writes' = Writes - 1  BY <2>1, WritePopped DEF Reads, Writes
  <2>4. held' \in Tables /\ \A u \in Threads : u # t => held'[u] = held[u]
    BY <2>1, WritePopped
  <2>5. Has(held', t, "W")
    <3>1. PICK u \in Threads : Has(held', u, "W")
      BY <1>3, <1>6, <2>3, <2>4, HasGuard DEF Writes
    <3> QED BY <3>1, <2>1, WritePopped
  <2>6. TypeOK'  BY <1>3, <2>1, <2>4 DEF IInv, TypeOK, Labels, Tables
  <2>7. FlagInv'  BY <1>4, <2>3 DEF IInv, FlagInv
  <2>8. OwnerInv'
    <3>1. \A u \in Threads : u # t => ~Has(held', u, "W") /\ pc'[u] # "W_count" /\ held'[u] = <<>>
      BY <2>1, <2>2, <2>4, WritePopped
    <3>2. Owner' = t  BY <1>4, WritePopped
    <3> QED BY <2>5, <3>1, <3>2 DEF OwnerInv
  <2>9. CountInv'
    <3>1. ~(\E u \in Threads : pc'[u] = "WU_store")  BY <2>2, WritePopped
    <3> QED BY <1>3, <2>3, <3>1 DEF CountInv
  <2>10. PcInv'
    <3>1. \A u \in Threads : u # t => pc'[u] \notin {"WU_dec", "WU_store", "W_count", "R_add"}
      BY <2>2, WritePopped
    <3> QED BY <1>4, <2>2, <2>4, <3>1 DEF IInv, PcInv
  <2> QED BY <2>6, <2>7, <2>8, <2>9, <2>10 DEF IInv
<1> QED BY <1>5, <1>6

LEMMA StoreEmptyStep == ASSUME IInv, NEW t \in Threads, StoreEmpty(t) PROVE IInv'
<1>1. /\ pc[t] = "WU_store" /\ lockFlag' = EMPTY_FLAG
      /\ pc' = [pc EXCEPT ![t] = "idle"] /\ held' = Popped(held, t)
      /\ UNCHANGED <<writeCount, crash, expected, spinCount>>
  BY DEF StoreEmpty, Destroyed, Goto, Popped
<1> USE <1>1
<1>2. pc'[t] = "idle" /\ \A u \in Threads : u # t => pc'[u] = pc[u]
  BY DEF IInv, TypeOK
<1>3. Writes = 1 /\ writeCount = 0  BY DEF IInv, CountInv
<1>4. Reads' = 0 /\ Writes' = 0 /\ held' \in Tables
      /\ \A u \in Threads : u # t => held'[u] = held[u]
  BY <1>3, WritePopped DEF Reads, Writes
<1>5. Owner' = 0 /\ ReadCount(lockFlag') = 0 /\ lockFlag' \in Word
  BY FlagEmpty DEF Owner
<1>6. TypeOK'  BY <1>4, <1>5 DEF IInv, TypeOK, Labels, Tables, Word
<1>7. FlagInv'  BY <1>4, <1>5 DEF FlagInv
<1>8. \A u \in Threads : ~Has(held', u, "W") /\ pc'[u] \notin {"WU_dec", "WU_store", "W_count", "R_add"}
  BY <1>2, <1>4, HasGuard, WritePopped DEF Writes
<1>9. OwnerInv'  BY <1>5, <1>8, TypeTables DEF OwnerInv
<1>10. CountInv'  BY <1>3, <1>4, <1>8 DEF CountInv
<1>11. PcInv'  BY <1>2, <1>4, <1>5, <1>8, TypeTables DEF IInv, PcInv
<1> QED BY <1>6, <1>7, <1>9, <1>10, <1>11 DEF IInv

LEMMA NextIInv == IInv /\ [Next]_vars => IInv'
<1> SUFFICES ASSUME IInv, [Next]_vars PROVE IInv'  OBVIOUS
<1>1. ASSUME NEW t \in Threads,
             \/ WriteLock(t) \/ WriteCas(t) \/ CountWrite(t)
             \/ WriteUnlock(t) \/ DecWrite(t) \/ StoreEmpty(t)
             \/ ReadLock(t) \/ ReadAdd(t) \/ ReadLoad(t) \/ ReadCas(t)
             \/ ReadUnlock(t)
             \/ TimedOut(t) \/ Yield(t)
      PROVE  IInv'
  BY <1>1, WriteLockStep, WriteCasStep, CountWriteStep, WriteUnlockStep,
     DecWriteStep, StoreEmptyStep, ReadLockStep, ReadAddStep, ReadLoadStep,
     ReadCasStep, ReadUnlockStep, TimedOutStep, YieldStep
<1>2. CASE UNCHANGED vars
  BY <1>2 DEF vars, IInv, TypeOK, FlagInv, OwnerInv, CountInv, PcInv, Owner, Reads, Writes
<1> QED BY <1>1, <1>2 DEF Next, Crashed

-----------------------------------------------------------------------------
(* What follows from the invariant.                                         *)

LEMMA Inductive == Spec => []IInv
BY InitIInv, NextIInv, PTL DEF Spec

\* The flag stays a 32-bit word and _writeCount a 16-bit one, and no spin loop
\* runs past MAX_SPIN_COUNT (Lock.cpp:36-68, 113-127).
THEOREM Typing == Spec => []TypeOK
<1>1. IInv => TypeOK  BY DEF IInv
<1> QED BY <1>1, Inductive, PTL

\* A WriteLockGuard excludes every guard of every other thread, for any number
\* of threads and any nesting (Lock.cpp:6-8).
THEOREM Exclusion == Spec => []MutualExclusion
<1>1. IInv => MutualExclusion
  BY HoldingHas DEF IInv, OwnerInv, MutualExclusion
<1> QED BY <1>1, Inductive, PTL

\* The plain _writeCount is never about to be changed by two threads (Lock.h:48).
THEOREM CountUnshared == Spec => []WriteCountUnshared
<1>1. IInv => WriteCountUnshared
  <2> SUFFICES ASSUME IInv, NEW t \in Threads, pc[t] \in {"W_count", "WU_dec"}
               PROVE  /\ WriteThread(lockFlag) = t
                      /\ \A u \in Threads \ {t} : pc[u] \notin {"W_count", "WU_dec"}
    BY DEF WriteCountUnshared
  <2>1. \A u \in Threads : pc[u] \in {"W_count", "WU_dec"} => Owner = u
    BY Unlocking DEF IInv, OwnerInv
  <2> QED BY <2>1 DEF Owner
<1> QED BY <1>1, Inductive, PTL

\* The owner of the write lock enters again without waiting (Lock.cpp:21-26,
\* 100-105).
THEOREM Recursion == Spec => []OwnerNeverWaits
<1>1. IInv => OwnerNeverWaits
  BY HoldingHas DEF IInv, OwnerInv, PcInv, OwnerNeverWaits
<1> QED BY <1>1, Inductive, PTL

\* When the last guard is gone the lock is as it was constructed (Lock.cpp:86-90).
THEOREM Free == Spec => []FreeWhenUnused
<1>1. IInv => FreeWhenUnused
  <2> SUFFICES ASSUME IInv, \A t \in Threads : held[t] = <<>> /\ pc[t] = "idle"
               PROVE  lockFlag = EMPTY_FLAG /\ writeCount = 0
    BY DEF FreeWhenUnused
  <2>1. held \in Tables /\ lockFlag \in Word  BY TypeTables DEF IInv
  <2>2. Reads = 0 /\ Writes = 0
    BY <2>1, HasGuard, HasNothing DEF Reads, Writes
  <2>3. writeCount = 0  BY <2>2 DEF IInv, CountInv
  <2>4. Owner = 0 /\ ReadCount(lockFlag) = 0
    BY <2>1, <2>2, HasNothing DEF IInv, OwnerInv, FlagInv
  <2>5. lockFlag = Span16 * 0 + 0
    BY <2>1, <2>4, FlagParts DEF Owner
  <2> QED BY <2>3, <2>5, WordAssumption DEF EMPTY_FLAG
<1> QED BY <1>1, Inductive, PTL

-----------------------------------------------------------------------------
(* No guard that nests trips a consistency crash, as long as no thread asks *)
(* for a write guard inside a read guard.                                   *)

\* Read guards are innermost.
NestInv ==
  /\ \A t \in Threads :
       /\ \A i, j \in 1..Len(held[t]) : i < j /\ held[t][i] = "R" => held[t][j] = "R"
       /\ pc[t] \in {"W_cas", "W_count"} => ~Has(held, t, "R")
  /\ crash # "INVALID_UNLOCK_ORDER"

LEMMA NestStep ==
  ASSUME ~ReadThenWrite, IInv, NestInv, [Next]_vars
  PROVE  NestInv'
<1>1. held \in Tables  BY TypeTables DEF IInv
<1>2. ASSUME NEW t \in Threads, NEW k \in {"R", "W"}, Constructed(t, k),
             Len(held[t]) < MaxNest, k = "W" => ~Has(held, t, "R"), crash' = crash
      PROVE  NestInv'
  <2>1. held' = Pushed(held, t, k)  BY <1>2 DEF Constructed, Pushed
  <2>2. held[t] \in Seq({"R", "W"}) /\ Len(held[t]) \in Nat  BY <1>1 DEF Tables
  <2>3. /\ held'[t] = Append(held[t], k)
        /\ \A u \in Threads : u # t => held'[u] = held[u]
    BY <1>1, <2>1 DEF Pushed, Tables
  <2>4. /\ Len(held'[t]) = Len(held[t]) + 1 /\ held'[t][Len(held[t]) + 1] = k
        /\ \A i \in 1..Len(held[t]) : held'[t][i] = held[t][i]
    BY <2>2, <2>3
  <2>5. pc'[t] = "idle" /\ \A u \in Threads : u # t => pc'[u] = pc[u]
    BY <1>2 DEF Constructed, Goto, IInv, TypeOK
  <2>6. \A i, j \in 1..Len(held'[t]) : i < j /\ held'[t][i] = "R" => held'[t][j] = "R"
    <3> SUFFICES ASSUME NEW i \in 1..Len(held'[t]), NEW j \in 1..Len(held'[t]),
                        i < j, held'[t][i] = "R"
                 PROVE  held'[t][j] = "R"
      OBVIOUS
    <3>1. i \in 1..Len(held[t]) /\ held[t][i] = "R"  BY <2>2, <2>4
    <3>2. CASE j = Len(held[t]) + 1
      BY <1>2, <3>1, <3>2, <2>4 DEF Has
    <3>3. CASE j # Len(held[t]) + 1
      <4>1. j \in 1..Len(held[t])  BY <2>2, <2>4, <3>3
      <4> QED BY <3>1, <4>1, <2>4 DEF NestInv
    <3> QED BY <3>2, <3>3
  <2>7. \A u \in Threads : u # t => (Has(held', u, "R") <=> Has(held, u, "R"))
    BY <2>3 DEF Has
  <2>8. crash' # "INVALID_UNLOCK_ORDER"  BY <1>2 DEF NestInv
  <2>9. ASSUME NEW u \in Threads
        PROVE  /\ \A i, j \in 1..Len(held'[u]) :
                    i < j /\ held'[u][i] = "R" => held'[u][j] = "R"
               /\ pc'[u] \in {"W_cas", "W_count"} => ~Has(held', u, "R")
    <3>1. CASE u = t  BY <3>1, <2>5, <2>6
    <3>2. CASE u # t  BY <3>2, <2>3, <2>5, <2>7 DEF NestInv
    <3> QED BY <3>1, <3>2
  <2> QED BY <2>8, <2>9 DEF NestInv
<1>3. ASSUME NEW t \in Threads, Destroyed(t), held[t] # <<>>, crash' = crash
      PROVE  NestInv'
  <2>1. held' = Popped(held, t)  BY <1>3 DEF Destroyed, Popped
  <2>2. Len(held[t]) \in Nat  BY <1>1 DEF Tables
  <2>3. /\ Len(held'[t]) = Len(held[t]) - 1
        /\ \A i \in 1..(Len(held[t]) - 1) : held'[t][i] = held[t][i]
        /\ \A u \in Threads : u # t => held'[u] = held[u]
    BY <1>1, <1>3, <2>1, GuardsPop
  <2>4. pc'[t] = "idle" /\ \A u \in Threads : u # t => pc'[u] = pc[u]
    BY <1>3 DEF Destroyed, Goto, IInv, TypeOK
  <2>5. \A i, j \in 1..Len(held'[t]) : i < j /\ held'[t][i] = "R" => held'[t][j] = "R"
    <3> SUFFICES ASSUME NEW i \in 1..Len(held'[t]), NEW j \in 1..Len(held'[t]),
                        i < j, held'[t][i] = "R"
                 PROVE  held'[t][j] = "R"
      OBVIOUS
    <3>1. i \in 1..Len(held[t]) /\ j \in 1..Len(held[t]) /\ i \in 1..(Len(held[t]) - 1)
          /\ j \in 1..(Len(held[t]) - 1)
      BY <2>2, <2>3
    <3> QED BY <3>1, <2>3 DEF NestInv
  <2>6. \A u \in Threads : u # t => (Has(held', u, "R") <=> Has(held, u, "R"))
    BY <2>3 DEF Has
  <2> QED BY <1>3, <2>3, <2>4, <2>5, <2>6 DEF NestInv
<1>4. ASSUME NEW t \in Threads, NEW l, pc' = [pc EXCEPT ![t] = l],
             l \in {"W_cas", "W_count"} => ~Has(held, t, "R"),
             held' = held, crash' # "INVALID_UNLOCK_ORDER"
      PROVE  NestInv'
  BY <1>4 DEF NestInv, IInv, TypeOK
<1>5. ASSUME NEW t \in Threads, WriteLock(t)  PROVE NestInv'
  BY <1>4, <1>5, HoldingHas DEF WriteLock, Goto, NestInv
<1>6. ASSUME NEW t \in Threads, WriteCas(t)  PROVE NestInv'
  <2>1. pc[t] = "W_cas" /\ held' = held /\ crash' = crash
    BY <1>6 DEF WriteCas
  <2>2. pc' = [pc EXCEPT ![t] = "W_count"] \/ pc' = [pc EXCEPT ![t] = "W_cas"]
    BY <1>6, <2>1 DEF WriteCas, Goto, IInv, TypeOK
  <2> QED BY <1>4, <2>1, <2>2 DEF NestInv
<1>7. ASSUME NEW t \in Threads, CountWrite(t)  PROVE NestInv'
  BY <1>2, <1>7 DEF CountWrite, NestInv, IInv, PcInv
<1>8. ASSUME NEW t \in Threads, WriteUnlock(t)  PROVE NestInv'
  <2>1. held[t] # <<>> /\ held[t][Len(held[t])] = "W" /\ pc[t] = "idle" /\ held' = held
    BY <1>8 DEF WriteUnlock, Innermost, MayCall
  <2>2. Has(held, t, "W")  BY <1>1, <2>1, GuardsPop
  <2>3. ~Has(held, t, "R")
    <3> SUFFICES ASSUME NEW i \in 1..Len(held[t]), held[t][i] = "R" PROVE FALSE
      BY DEF Has
    <3>1. Len(held[t]) \in Nat  BY <1>1 DEF Tables
    <3>2. i < Len(held[t]) /\ Len(held[t]) \in 1..Len(held[t])  BY <2>1, <3>1
    <3> QED BY <2>1, <3>2 DEF NestInv
  <2>4. \A u \in Threads : ~Has(held, u, "R")
    BY <1>1, <2>2, <2>3, HasNothing DEF IInv, OwnerInv
  <2>5. ReadCount(lockFlag) = 0
    BY <1>1, <2>4, HasGuard DEF IInv, FlagInv, Reads
  <2>6. pc' = [pc EXCEPT ![t] = "WU_dec"] /\ crash' = crash
    BY <1>8, <2>5 DEF WriteUnlock, Goto
  <2> QED BY <1>4, <2>1, <2>6 DEF NestInv
<1>9. ASSUME NEW t \in Threads, DecWrite(t)  PROVE NestInv'
  <2>1. pc[t] = "WU_dec" /\ crash' = crash /\ held[t] # <<>>
    BY <1>9 DEF DecWrite, IInv, PcInv
  <2>2. CASE writeCount' = 0
    BY <1>4, <1>9, <2>1, <2>2 DEF DecWrite, Goto, NestInv
  <2>3. CASE writeCount' # 0
    BY <1>3, <1>9, <2>1, <2>3 DEF DecWrite
  <2> QED BY <2>2, <2>3
<1>10. ASSUME NEW t \in Threads, StoreEmpty(t)  PROVE NestInv'
  BY <1>3, <1>10 DEF StoreEmpty, IInv, PcInv
<1>11. ASSUME NEW t \in Threads, ReadLock(t)  PROVE NestInv'
  BY <1>4, <1>11 DEF ReadLock, Goto, NestInv
<1>12. ASSUME NEW t \in Threads, ReadAdd(t)  PROVE NestInv'
  BY <1>2, <1>12 DEF ReadAdd, IInv, PcInv
<1>13. ASSUME NEW t \in Threads, ReadLoad(t)  PROVE NestInv'
  BY <1>4, <1>13 DEF ReadLoad, Goto, NestInv
<1>14. ASSUME NEW t \in Threads, ReadCas(t)  PROVE NestInv'
  <2>1. pc[t] = "R_cas" /\ Len(held[t]) < MaxNest /\ crash' = crash
    BY <1>14 DEF ReadCas, IInv, PcInv
  <2>2. CASE lockFlag = expected[t]
    BY <1>2, <1>14, <2>1, <2>2 DEF ReadCas
  <2>3. CASE lockFlag # expected[t]
    BY <1>4, <1>14, <2>1, <2>3 DEF ReadCas, Goto, NestInv
  <2> QED BY <2>2, <2>3
<1>15. ASSUME NEW t \in Threads, ReadUnlock(t)  PROVE NestInv'
  <2>1. crash' # "MULTIPLE UNLOCK"  BY NextIInv DEF IInv
  <2>2. Destroyed(t) /\ crash' = crash /\ held[t] # <<>>
    BY <1>15, <2>1 DEF ReadUnlock
  <2> QED BY <1>3, <2>2
<1>16. ASSUME NEW t \in Threads, TimedOut(t)  PROVE NestInv'
  BY <1>16 DEF TimedOut, NestInv
<1>17. ASSUME NEW t \in Threads, Yield(t)  PROVE NestInv'
  BY <1>17 DEF Yield, NestInv
<1>18. CASE UNCHANGED vars
  BY <1>18 DEF vars, NestInv
<1> QED
  BY <1>5, <1>6, <1>7, <1>8, <1>9, <1>10, <1>11, <1>12, <1>13, <1>14, <1>15,
     <1>16, <1>17, <1>18 DEF Next, Crashed

\* Under the policy of Lock.h:12-16 (no write guard inside one's own read guard) neither
\* WriteUnlock's nor ReadUnlock's check can fail (Lock.cpp:80-81, 136-137).
THEOREM PolicySafe ==
  ~ReadThenWrite => (Spec => [](crash \notin {"INVALID_UNLOCK_ORDER", "MULTIPLE UNLOCK"}))
<1> SUFFICES ASSUME ~ReadThenWrite
             PROVE  Spec => [](crash \notin {"INVALID_UNLOCK_ORDER", "MULTIPLE UNLOCK"})
  OBVIOUS
<1>1. Init => NestInv
  BY DEF Init, NestInv
<1>2. IInv /\ NestInv /\ [Next]_vars => NestInv'
  BY NestStep
<1>3. IInv /\ NestInv => crash \notin {"INVALID_UNLOCK_ORDER", "MULTIPLE UNLOCK"}
  BY DEF IInv, NestInv
<1> QED BY <1>1, <1>2, <1>3, Inductive, PTL DEF Spec

\* Without the policy WriteUnlock's check fails for no other reason than that the thread
\* itself has a read guard outside the write guard it releases: the check reads the
\* count of all threads, but no other thread can have a guard then.
THEOREM UnlockSafe == Spec => []NoUnlockCrash
<1>1. Init => NoUnlockCrash
  BY DEF Init, NoUnlockCrash
<1>2. ASSUME IInv, NoUnlockCrash, [Next]_vars, IInv'
      PROVE  NoUnlockCrash'
  <2>1. crash' # "MULTIPLE UNLOCK"  BY <1>2 DEF IInv
  <2>2. CASE crash' # "INVALID_UNLOCK_ORDER"
    BY <2>1, <2>2 DEF NoUnlockCrash
  <2>3. CASE UNCHANGED <<held, crash>>
    BY <1>2, <2>3 DEF NoUnlockCrash, WriteInRead
  <2>4. ASSUME NEW t \in Threads, WriteUnlock(t), crash' = "INVALID_UNLOCK_ORDER"
        PROVE  NoUnlockCrash'
    <3>1. held \in Tables  BY <1>2, TypeTables DEF IInv
    <3>2. /\ held[t] # <<>> /\ held[t][Len(held[t])] = "W" /\ held' = held
          /\ crash = "none"
      BY <2>4 DEF WriteUnlock, Innermost, MayCall
    <3>3. ReadCount(lockFlag) # 0
      BY <2>4, <3>2 DEF WriteUnlock
    <3>4. Has(held, t, "W")  BY <3>1, <3>2, GuardsPop
    <3>5. \A u \in Threads : u # t => ~Has(held, u, "R")
      BY <1>2, <3>1, <3>4, HasNothing DEF IInv, OwnerInv
    <3>6. PICK u \in Threads : Has(held, u, "R")
      BY <1>2, <3>1, <3>3, HasGuard DEF IInv, FlagInv, Reads
    <3>7. PICK i \in 1..Len(held[t]) : held[t][i] = "R"
      BY <3>5, <3>6 DEF Has
    <3>8. Len(held[t]) \in 1..Len(held[t]) /\ i < Len(held[t])
      BY <3>1, <3>2, <3>7 DEF Tables
    <3>9. WriteInRead(t)'
      BY <3>2, <3>7, <3>8 DEF WriteInRead
    <3> QED BY <2>1, <3>9 DEF NoUnlockCrash
  <2>5. ASSUME ~UNCHANGED <<held, crash>>, crash' = "INVALID_UNLOCK_ORDER"
        PROVE  \E t \in Threads : WriteUnlock(t)
    BY <1>2, <2>5 DEF Next, vars, Crashed, WriteLock, WriteCas, CountWrite, DecWrite,
       StoreEmpty, ReadLock, ReadAdd, ReadLoad, ReadCas, ReadUnlock, TimedOut, Yield,
       Constructed, Destroyed, Goto, MayCall
  <2> QED BY <2>2, <2>3, <2>4, <2>5
<1> QED BY <1>1, <1>2, Inductive, PTL DEF Spec

-----------------------------------------------------------------------------
(* Lock implements LockSpec.                                                *)

LEMMA AbsHolds ==
  /\ \A t \in Threads : \A k : k \in Abs!KindsOf(held)[t] <=> Has(held, t, k)
  /\ \A t \in Threads : held[t] = <<>> => Abs!KindsOf(held)[t] = {}
BY DEF Abs!KindsOf, Has

LEMMA StepRefines ==
  ASSUME IInv, [Next]_vars
  PROVE  [Abs!SpecNext]_<<held, crash>>
<1>1. held \in Tables /\ 0 \notin Threads  BY TypeTables DEF IInv
<1>2. CASE UNCHANGED <<held, crash>>
  BY <1>2
<1>3. ASSUME NEW t \in Threads, CountWrite(t)
      PROVE  Abs!Acquire(t, "W")
  <2>1. pc[t] = "W_count" /\ crash = "none" /\ crash' = crash
        /\ held' = [held EXCEPT ![t] = Append(@, "W")]
    BY <1>3 DEF CountWrite, Constructed
  <2>2. Abs!CanWrite(Abs!KindsOf(held), t)
    <3>1. Owner = t /\ (Has(held, t, "W") \/ Reads = 0)
      BY <2>1 DEF IInv, OwnerInv, PcInv
    <3>2. CASE Has(held, t, "W")
      BY <3>2, AbsHolds DEF Abs!CanWrite
    <3>3. CASE ~Has(held, t, "W")
      <4>1. ~Has(held, t, "R")  BY <1>1, <3>1, <3>3, HasGuard DEF Reads
      <4>2. \A u \in Threads : held[u] = <<>>
        BY <1>1, <3>1, <3>3, <4>1, HasNothing DEF IInv, OwnerInv
      <4> QED BY <4>2, AbsHolds DEF Abs!CanWrite
    <3> QED BY <3>2, <3>3
  <2> QED BY <2>1, <2>2 DEF Abs!Acquire, Abs!Push
<1>4. ASSUME NEW t \in Threads, Owner \in {0, t}, crash = "none", crash' = crash,
             Constructed(t, "R")
      PROVE  Abs!Acquire(t, "R")
  <2>1. \A u \in Threads : u # t => ~Has(held, u, "W")
    BY <1>1, <1>4 DEF IInv, OwnerInv
  <2>2. Abs!CanRead(Abs!KindsOf(held), t)  BY <2>1, AbsHolds DEF Abs!CanRead
  <2> QED BY <1>4, <2>2 DEF Abs!Acquire, Abs!Push, Constructed
<1>5. ASSUME NEW t \in Threads, Destroyed(t), crash = "none", crash' = crash,
             held[t] # <<>>, held[t][Len(held[t])] = "R" \/ ~Has(held, t, "R")
      PROVE  Abs!Release(t)
  BY <1>5, AbsHolds DEF Abs!Release, Abs!Top, Abs!Pop, Destroyed
<1>6. ASSUME NEW t \in Threads, pc[t] \in {"WU_dec", "WU_store"}
      PROVE  held[t] # <<>> /\ ~Has(held, t, "R")
  <2>1. held[t] # <<>> /\ Reads = 0  BY <1>6 DEF IInv, PcInv
  <2> QED BY <1>1, <2>1, HasGuard DEF Reads
<1>7. ASSUME NEW t \in Threads, WriteUnlock(t), crash' # crash
      PROVE  Abs!ReleaseOutOfOrder(t)
  <2>1. /\ held[t] # <<>> /\ held[t][Len(held[t])] = "W" /\ held' = held
        /\ crash = "none" /\ crash' = "INVALID_UNLOCK_ORDER"
        /\ ReadCount(lockFlag) # 0
    BY <1>7 DEF WriteUnlock, Innermost, MayCall
  <2>2. PICK u \in Threads : Has(held, u, "R")
    BY <1>1, <2>1, HasGuard DEF IInv, FlagInv, Reads
  <2>3. Has(held, t, "W")  BY <1>1, <2>1, GuardsPop
  <2>4. u = t
    BY <1>1, <2>2, <2>3, HasNothing DEF IInv, OwnerInv
  <2> QED BY <2>1, <2>2, <2>4, AbsHolds DEF Abs!ReleaseOutOfOrder, Abs!Top
<1>8. ASSUME NEW t \in Threads, ReadAdd(t) \/ ReadCas(t)
      PROVE  UNCHANGED <<held, crash>> \/ Abs!Acquire(t, "R")
  <2>1. CASE ReadAdd(t)
    <3>1. Owner = t  BY <2>1 DEF ReadAdd, IInv, PcInv, OwnerInv
    <3> QED BY <1>4, <2>1, <3>1 DEF ReadAdd
  <2>2. CASE ReadCas(t) /\ lockFlag = expected[t]
    <3>1. expected[t] \in Half  BY DEF IInv, TypeOK, Half
    <3>2. Owner = 0  BY <2>2, <3>1, FlagShared DEF Owner
    <3> QED BY <1>4, <2>2, <3>2 DEF ReadCas
  <2>3. CASE ReadCas(t) /\ lockFlag # expected[t]
    BY <2>3 DEF ReadCas
  <2> QED BY <1>8, <2>1, <2>2, <2>3
<1>9. ASSUME NEW t \in Threads, DecWrite(t) \/ StoreEmpty(t)
      PROVE  UNCHANGED <<held, crash>> \/ Abs!Release(t)
  BY <1>5, <1>6, <1>9 DEF DecWrite, StoreEmpty
<1>10. ASSUME NEW t \in Threads, ReadUnlock(t)
       PROVE  Abs!Release(t)
  <2>1. crash' # "MULTIPLE UNLOCK"  BY NextIInv DEF IInv
  <2>2. /\ Destroyed(t) /\ crash' = crash /\ crash = "none" /\ held[t] # <<>>
        /\ held[t][Len(held[t])] = "R"
    BY <1>10, <2>1 DEF ReadUnlock, MayCall, Innermost
  <2> QED BY <1>5, <2>2
<1>11. ASSUME NEW t \in Threads, TimedOut(t)
       PROVE  Abs!GiveUp
  BY <1>11 DEF TimedOut, RoundFailed, Abs!GiveUp
<1>12. ASSUME NEW t \in Threads,
              WriteLock(t) \/ WriteCas(t) \/ ReadLock(t) \/ ReadLoad(t) \/ Yield(t)
       PROVE  UNCHANGED <<held, crash>>
  BY <1>12 DEF WriteLock, WriteCas, ReadLock, ReadLoad, Yield
<1>13. ASSUME NEW t \in Threads, WriteUnlock(t)
       PROVE  UNCHANGED <<held, crash>> \/ Abs!ReleaseOutOfOrder(t)
  BY <1>7, <1>13 DEF WriteUnlock
<1>14. CASE UNCHANGED vars
  BY <1>14 DEF vars
<1> QED
  BY <1>3, <1>8, <1>9, <1>10, <1>11, <1>12, <1>13, <1>14
     DEF Next, Crashed, Abs!SpecNext, Abs!Kinds

\* Every return from WriteLock, ReadLock, WriteUnlock and ReadUnlock is a grant
\* or a release that the policy of Lock.h:9-18 allows, and the process crashes
\* only on a timeout or an out-of-order write unlock.
THEOREM Implements == Spec => Refines
<1>1. Init => Abs!SpecInit  BY DEF Init, Abs!SpecInit
<1>2. IInv /\ [Next]_vars => [Abs!SpecNext]_<<held, crash>>
  BY StepRefines
<1> QED BY <1>1, <1>2, Inductive, PTL DEF Spec, Refines, Abs!Spec, Abs!specVars
=============================================================================
