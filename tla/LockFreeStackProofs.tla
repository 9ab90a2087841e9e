------------------------ MODULE LockFreeStackProofs -------------------------
(***************************************************************************)
(* Proofs about LockFreeStack, for any sets of threads and entries and any  *)
(* widths of the header's fields, as long as fewer calls are made than the  *)
(* sequence number counts.                                                  *)
(*                                                                          *)
(* Every successful compare-exchange increments the sequence number, which  *)
(* therefore never returns to a value that some thread has copied (SeqInv,  *)
(* CopyInv).  So a header that equals the copy has not changed since the    *)
(* copy of its sequence number, whatever the order of the two halves; the   *)
(* top of the stack has then been in nobody's hands, and the link that Pop  *)
(* has read is the right one (PushInv, PopInv).                             *)
(***************************************************************************)
EXTENDS LockFreeStack, FiniteSetTheorems, SequenceTheorems, TLAPS

Labels == {"idle", "copy", "link", "cas"}

\* Each call under way will increment the sequence number at most once.
Active(labels) == {t \in Threads : labels[t] # "idle"}
SeqInv ==
  IsFiniteSet(Active(pc)) /\ header.sequence + Cardinality(Active(pc)) <= calls

\* What a thread has copied belongs to the present header unless that has changed
\* since the iteration began.
CopyInv ==
  \A t \in Threads : pc[t] # "idle" =>
    /\ began[t] <= header.sequence
    /\ pc[t] # "copy" => toCopy[t] = {}
    /\ "alignment" \notin toCopy[t] => expected[t].sequence <= header.sequence
    /\ began[t] = header.sequence =>
         /\ "alignment" \notin toCopy[t] => /\ expected[t].depth = header.depth
                                            /\ expected[t].sequence = header.sequence
         /\ "region" \notin toCopy[t] => expected[t].next = header.next

\* The entry of a Push is its thread's and linked to what the thread has copied; that
\* of a Pop is what it has copied, and has the link of the list if the copy is good.
PushInv ==
  \A t \in Threads : pc[t] # "idle" /\ op[t] = "push" =>
    /\ entry[t] \in hand[t]
    /\ pc[t] = "cas" => next[entry[t]] = expected[t].next
PopInv ==
  \A t \in Threads : pc[t] = "cas" /\ op[t] = "pop" =>
    /\ entry[t] = expected[t].next /\ entry[t] \in Entries
    /\ header = expected[t] => link[t] = next[entry[t]]

\* Every entry is in one place.
StackDistinct == \A i, j \in 1..Len(stack) : i # j => stack[i] # stack[j]
StackUnowned  == \A i \in 1..Len(stack), t \in Threads : stack[i] \notin hand[t]
HandsApart    == \A t, u \in Threads : \A e \in hand[t] : t # u => e \notin hand[u]
NoneLost ==
  \A e \in Entries : (\E i \in 1..Len(stack) : stack[i] = e) \/ \E t \in Threads : e \in hand[t]
Owned == StackDistinct /\ StackUnowned /\ HandsApart /\ NoneLost

IInv == TypeOK /\ SeqInv /\ CopyInv /\ PushInv /\ PopInv /\ Owned /\ ListIsStack

-----------------------------------------------------------------------------
(* Arithmetic of the fields, and sequences.                                 *)

LEMMA DivMod ==
  ASSUME NEW D \in Nat, D > 0, NEW n \in Int
  PROVE  n \div D \in Int /\ n % D \in 0..(D - 1) /\ n = D * (n \div D) + (n % D)
OBVIOUS

LEMMA RemainderUnique ==
  ASSUME NEW D \in Nat, D > 0, NEW a \in Int, NEW b \in Int,
         NEW r \in 0..(D - 1), NEW q \in 0..(D - 1), D * a + r = D * b + q
  PROVE  r = q
<1>1. CASE a < b
  <2>1. D * b >= D * (a + 1)  BY <1>1
  <2>2. D * (a + 1) = D * a + D  OBVIOUS
  <2> QED BY <2>1, <2>2
<1>2. CASE b < a
  <2>1. D * a >= D * (b + 1)  BY <1>2
  <2>2. D * (b + 1) = D * b + D  OBVIOUS
  <2> QED BY <2>1, <2>2
<1> QED BY <1>1, <1>2

\* A field that wraps counts as well as one that does not.
LEMMA ModAdd ==
  ASSUME NEW D \in Nat, D > 0, NEW n \in Int, NEW k \in Int
  PROVE  ((n % D) + k) % D = (n + k) % D
<1> DEFINE r == n % D
           a == n \div D
           m == r + k
<1>1. r \in Int /\ a \in Int /\ n = D * a + r  BY DivMod
<1>2. m \in Int /\ n + k \in Int  BY <1>1
<1>3. /\ m \div D \in Int /\ m % D \in 0..(D - 1) /\ m = D * (m \div D) + (m % D)
  BY <1>2, DivMod
<1>4. /\ (n + k) \div D \in Int /\ (n + k) % D \in 0..(D - 1)
      /\ n + k = D * ((n + k) \div D) + ((n + k) % D)
  BY <1>2, DivMod
<1>5. n + k = D * a + m  BY <1>1
<1> HIDE DEF r, a, m
<1> DEFINE b == m \div D
           c == m % D
           d == (n + k) \div D
           e == (n + k) % D
<1>6. D * (a + b) + c = D * d + e
  <2>1. b \in Int /\ c \in Int /\ d \in Int /\ e \in Int  BY <1>3, <1>4
  <2>2. m = D * b + c  BY <1>3
  <2>3. n + k = D * d + e  BY <1>4
  <2> HIDE DEF b, c, d, e
  <2>4. D * (a + b) = D * a + D * b  BY <1>1, <2>1
  <2> QED BY <1>1, <1>5, <2>1, <2>2, <2>3, <2>4
<1>7. c = e
  <2>1. a + b \in Int /\ d \in Int /\ c \in 0..(D - 1) /\ e \in 0..(D - 1)  BY <1>1, <1>3, <1>4
  <2> HIDE DEF b, c, d, e
  <2> QED BY <1>6, <2>1, RemainderUnique
<1> QED BY <1>7 DEF m, r

LEMMA ModSmall ==
  ASSUME NEW D \in Nat, D > 0, NEW n \in 0..(D - 1)
  PROVE  n % D = n
<1>1. n \div D \in Int /\ n % D \in 0..(D - 1) /\ n = D * (n \div D) + (n % D)  BY DivMod
<1>2. n = D * 0 + n  OBVIOUS
<1> DEFINE a == n \div D
           r == n % D
<1> HIDE DEF a, r
<1>3. D * a + r = D * 0 + n /\ a \in Int /\ r \in 0..(D - 1)  BY <1>1, <1>2 DEF a, r
<1>4. r = n  BY <1>3, RemainderUnique
<1> QED BY <1>4 DEF r

LEMMA Pushed ==
  ASSUME NEW s \in Seq(Entries), NEW e \in Entries
  PROVE  /\ <<e>> \o s \in Seq(Entries) /\ Len(<<e>> \o s) = Len(s) + 1
         /\ (<<e>> \o s)[1] = e
         /\ \A i \in 1..Len(s) : (<<e>> \o s)[i + 1] = s[i]
         /\ \A i \in 2..(Len(s) + 1) : (<<e>> \o s)[i] = s[i - 1]
OBVIOUS

LEMMA Popped ==
  ASSUME NEW s \in Seq(Entries), s # <<>>
  PROVE  /\ Tail(s) \in Seq(Entries) /\ Len(Tail(s)) = Len(s) - 1 /\ Head(s) = s[1]
         /\ Len(s) \in Nat \ {0}
         /\ \A i \in 1..(Len(s) - 1) : Tail(s)[i] = s[i + 1]
OBVIOUS

LEMMA InitIInv == Init => IInv
<1> SUFFICES ASSUME Init PROVE IInv  OBVIOUS
<1> USE SpanAssumption
<1>1. Active(pc) = {}  BY DEF Init, Active
<1>2. TypeOK
  <2>1. <<>> \in Seq(Entries) /\ 0 \in 0..MaxCalls /\ 0 \in 0..(SeqSpan - 1)
        /\ 0 \in 0..(DepthSpan - 1)
    OBVIOUS
  <2>2. NoHeader \in HeaderType  BY <2>1 DEF NoHeader, HeaderType
  <2>3. hand \in [Threads -> SUBSET Entries]  BY DEF Init
  <2> QED BY <2>1, <2>2, <2>3 DEF Init, TypeOK
<1>3. SeqInv
  <2>1. IsFiniteSet({}) /\ Cardinality({}) = 0  BY FS_EmptySet
  <2>2. header.sequence = 0 /\ calls = 0  BY DEF Init, NoHeader
  <2> QED BY <1>1, <2>1, <2>2 DEF SeqInv
<1>4. CopyInv /\ PushInv /\ PopInv  BY DEF Init, CopyInv, PushInv, PopInv
<1>5. Owned
  <2>1. PICK owner \in [Entries -> Threads] : hand = [t \in Threads |-> {e \in Entries : owner[e] = t}]
    BY DEF Init
  <2>2. Len(stack) = 0  BY DEF Init
  <2> QED BY <2>1, <2>2 DEF Owned, StackDistinct, StackUnowned, HandsApart, NoneLost
<1>6. ListIsStack
  <2>1. 0 % DepthSpan = 0  OBVIOUS
  <2> QED BY <2>1 DEF Init, ListIsStack, NoHeader
<1> QED BY <1>2, <1>3, <1>4, <1>5, <1>6 DEF IInv

-----------------------------------------------------------------------------
(* The steps.                                                               *)

\* One call more, one call less, and the same calls.
LEMMA ActiveMore ==
  ASSUME SeqInv, NEW t \in Threads, NEW l, l # "idle", pc \in [Threads -> Labels],
         pc[t] = "idle", pc' = [pc EXCEPT ![t] = l]
  PROVE  /\ IsFiniteSet(Active(pc'))
         /\ Cardinality(Active(pc')) = Cardinality(Active(pc)) + 1
<1>1. t \notin Active(pc) /\ Active(pc') = Active(pc) \cup {t}  BY DEF Active
<1>2. IsFiniteSet(Active(pc))  BY DEF SeqInv
<1> DEFINE A == Active(pc)
           B == Active(pc')
<1>3. IsFiniteSet(A) /\ t \notin A /\ B = A \cup {t}  BY <1>1, <1>2
<1> HIDE DEF A, B
<1>4. IsFiniteSet(B) /\ Cardinality(B) = Cardinality(A) + 1  BY <1>3, FS_AddElement
<1> QED BY <1>4 DEF A, B

LEMMA ActiveLess ==
  ASSUME SeqInv, NEW t \in Threads, pc \in [Threads -> Labels],
         pc[t] # "idle", pc' = [pc EXCEPT ![t] = "idle"]
  PROVE  /\ IsFiniteSet(Active(pc')) /\ Cardinality(Active(pc)) \in Nat
         /\ Cardinality(Active(pc')) = Cardinality(Active(pc)) - 1
<1>1. t \in Active(pc) /\ Active(pc') = Active(pc) \ {t}  BY DEF Active
<1>2. IsFiniteSet(Active(pc))  BY DEF SeqInv
<1> DEFINE A == Active(pc)
           B == Active(pc')
<1>3. IsFiniteSet(A) /\ t \in A /\ B = A \ {t}  BY <1>1, <1>2
<1> HIDE DEF A, B
<1>4. IsFiniteSet(B) /\ Cardinality(A) \in Nat /\ Cardinality(B) = Cardinality(A) - 1
  BY <1>3, FS_RemoveElement, FS_CardinalityType
<1> QED BY <1>4 DEF A, B

LEMMA ActiveSame ==
  ASSUME NEW t \in Threads, NEW l, l # "idle", pc \in [Threads -> Labels],
         pc[t] # "idle", pc' = [pc EXCEPT ![t] = l]
  PROVE  Active(pc') = Active(pc)
BY DEF Active

\* A step of t that leaves the list and the owners alone.
LEMMA LocalStep ==
  ASSUME IInv, UNCHANGED <<header, next, hand, stack>>
  PROVE  Owned' /\ ListIsStack'
<1>1. Owned'
  BY DEF IInv, Owned, StackDistinct, StackUnowned, HandsApart, NoneLost
<1>2. ListIsStack'  BY DEF IInv, ListIsStack
<1> QED BY <1>1, <1>2

LEMMA StartKeeps ==
  ASSUME IInv, NEW t \in Threads, Pop(t) \/ \E e \in hand[t] : Push(t, e)
  PROVE  IInv'
<1>1. /\ pc[t] = "idle" /\ calls < MaxCalls /\ calls' = calls + 1
      /\ pc' = [pc EXCEPT ![t] = "copy"] /\ toCopy' = [toCopy EXCEPT ![t] = Halves]
      /\ began' = [began EXCEPT ![t] = header.sequence]
      /\ UNCHANGED <<header, next, expected, link, hand, stack>>
  BY DEF Pop, Push, Iterate
<1>2. PICK o \in {"push", "pop"}, e \in Entries \cup {Null} :
        /\ op' = [op EXCEPT ![t] = o] /\ entry' = [entry EXCEPT ![t] = e]
        /\ o = "push" => e \in hand[t]
  BY DEF Pop, Push, IInv, TypeOK
<1>3. TypeOK
  BY DEF IInv
<1>4. TypeOK'
  <2>1. header.sequence \in 0..(SeqSpan - 1)  BY <1>3 DEF TypeOK, HeaderType
  <2>2. calls' \in 0..MaxCalls  BY <1>1, <1>3, SpanAssumption DEF TypeOK
  <2> QED BY <1>1, <1>2, <1>3, <2>1, <2>2 DEF TypeOK, Halves
<1>5. SeqInv'
  <2>1. /\ IsFiniteSet(Active(pc')) /\ Cardinality(Active(pc')) = Cardinality(Active(pc)) + 1
    BY <1>1, <1>3, ActiveMore DEF IInv, TypeOK, Labels
  <2>2. header.sequence \in Int /\ Cardinality(Active(pc)) \in Int /\ calls \in Int
    BY <1>3, FS_CardinalityType DEF IInv, SeqInv, TypeOK, HeaderType
  <2> QED BY <1>1, <2>1, <2>2 DEF IInv, SeqInv
<1>6. CopyInv'
  <2> SUFFICES ASSUME NEW u \in Threads, pc'[u] # "idle"
               PROVE  /\ began'[u] <= header.sequence
                      /\ pc'[u] # "copy" => toCopy'[u] = {}
                      /\ "alignment" \notin toCopy'[u] => expected[u].sequence <= header.sequence
                      /\ began'[u] = header.sequence =>
                           /\ "alignment" \notin toCopy'[u] =>
                                /\ expected[u].depth = header.depth
                                /\ expected[u].sequence = header.sequence
                           /\ "region" \notin toCopy'[u] => expected[u].next = header.next
    BY <1>1 DEF CopyInv
  <2>1. CASE u = t
    <3>1. /\ began'[u] = header.sequence /\ toCopy'[u] = Halves /\ pc'[u] = "copy"
          /\ header.sequence \in Int
      BY <1>1, <1>3, <2>1 DEF TypeOK, HeaderType
    <3> QED BY <3>1 DEF Halves
  <2>2. CASE u # t
    <3>1. began'[u] = began[u] /\ toCopy'[u] = toCopy[u] /\ pc'[u] = pc[u]
      BY <1>1, <1>3, <2>2 DEF TypeOK
    <3> QED BY <3>1 DEF IInv, CopyInv
  <2> QED BY <2>1, <2>2
<1>7. \A u \in Threads : u # t => op'[u] = op[u] /\ entry'[u] = entry[u] /\ pc'[u] = pc[u]
  BY <1>1, <1>2
<1>8. op'[t] = o /\ entry'[t] = e /\ pc'[t] = "copy"  BY <1>1, <1>2, <1>3 DEF TypeOK
<1>9. PushInv'  BY <1>1, <1>2, <1>7, <1>8 DEF IInv, PushInv
<1>10. PopInv'  BY <1>1, <1>7, <1>8 DEF IInv, PopInv
<1>11. Owned' /\ ListIsStack'  BY <1>1, LocalStep
<1> QED BY <1>4, <1>5, <1>6, <1>9, <1>10, <1>11 DEF IInv

LEMMA FailKeeps ==
  ASSUME IInv, NEW t \in Threads, Fail(t)
  PROVE  IInv'
<1>1. /\ pc[t] = "cas"
      /\ pc' = [pc EXCEPT ![t] = "copy"] /\ toCopy' = [toCopy EXCEPT ![t] = Halves]
      /\ began' = [began EXCEPT ![t] = header.sequence]
      /\ UNCHANGED <<header, next, op, entry, expected, link, hand, stack, calls>>
  BY DEF Fail, Iterate
<1>2. TypeOK
  BY DEF IInv
<1>3. /\ \A u \in Threads : u # t => /\ began'[u] = began[u] /\ toCopy'[u] = toCopy[u]
                                    /\ pc'[u] = pc[u]
      /\ began'[t] = header.sequence /\ toCopy'[t] = Halves /\ pc'[t] = "copy"
      /\ header.sequence \in 0..(SeqSpan - 1)
  BY <1>1, <1>2 DEF TypeOK, HeaderType
<1>4. TypeOK'  BY <1>1, <1>2, <1>3 DEF TypeOK, Halves
<1>5. SeqInv'
  <2>1. Active(pc') = Active(pc)  BY <1>1, <1>2, ActiveSame DEF TypeOK, Labels
  <2> QED BY <1>1, <2>1 DEF IInv, SeqInv
<1>6. CopyInv'
  <2>1. "alignment" \in Halves /\ "region" \in Halves  BY DEF Halves
  <2>2. header.sequence <= header.sequence  BY <1>3, SpanAssumption
  <2> QED BY <1>1, <1>3, <2>1, <2>2 DEF IInv, CopyInv
<1>7. PushInv' /\ PopInv'  BY <1>1, <1>3 DEF IInv, PushInv, PopInv
<1>8. Owned' /\ ListIsStack'  BY <1>1, LocalStep
<1> QED BY <1>4, <1>5, <1>6, <1>7, <1>8 DEF IInv

LEMMA CopyKeeps ==
  ASSUME IInv, NEW t \in Threads, NEW half \in Halves, Copy(t, half)
  PROVE  IInv'
<1> DEFINE x == IF half = "region"
                  THEN [expected[t] EXCEPT !.next = header.next]
                  ELSE [expected[t] EXCEPT !.depth = header.depth,
                                           !.sequence = header.sequence]
<1>1. /\ pc[t] = "copy" /\ half \in toCopy[t]
      /\ expected' = [expected EXCEPT ![t] = x]
      /\ toCopy' = [toCopy EXCEPT ![t] = @ \ {half}]
      /\ pc' = [pc EXCEPT ![t] = IF toCopy[t] = {half} THEN "link" ELSE "copy"]
      /\ UNCHANGED <<header, next, op, entry, link, began, hand, stack, calls>>
  BY DEF Copy
<1>2. TypeOK
  BY DEF IInv
<1>3. /\ header \in HeaderType /\ expected[t] \in HeaderType /\ x \in HeaderType
      /\ half = "region" => /\ x.next = header.next /\ x.depth = expected[t].depth
                            /\ x.sequence = expected[t].sequence
      /\ half = "alignment" => /\ x.next = expected[t].next /\ x.depth = header.depth
                               /\ x.sequence = header.sequence
      /\ half \in {"region", "alignment"}
  BY <1>2 DEF TypeOK, HeaderType, Halves
<1> HIDE DEF x
<1>4. /\ \A u \in Threads : u # t => /\ expected'[u] = expected[u] /\ toCopy'[u] = toCopy[u]
                                    /\ pc'[u] = pc[u]
      /\ expected'[t] = x /\ toCopy'[t] = toCopy[t] \ {half}
      /\ pc'[t] = IF toCopy[t] = {half} THEN "link" ELSE "copy"
  BY <1>1, <1>2 DEF TypeOK
<1>5. TypeOK'  BY <1>1, <1>2, <1>3 DEF TypeOK
<1>6. SeqInv'
  <2>1. Active(pc') = Active(pc)
    <3>1. CASE toCopy[t] = {half}  BY <1>1, <1>2, <3>1, ActiveSame DEF TypeOK, Labels
    <3>2. CASE toCopy[t] # {half}  BY <1>1, <1>2, <3>2, ActiveSame DEF TypeOK, Labels
    <3> QED BY <3>1, <3>2
  <2> QED BY <1>1, <2>1 DEF IInv, SeqInv
<1>7. CopyInv'
  <2> SUFFICES ASSUME NEW u \in Threads, pc'[u] # "idle"
               PROVE  /\ began[u] <= header.sequence
                      /\ pc'[u] # "copy" => toCopy'[u] = {}
                      /\ "alignment" \notin toCopy'[u] => expected'[u].sequence <= header.sequence
                      /\ began[u] = header.sequence =>
                           /\ "alignment" \notin toCopy'[u] =>
                                /\ expected'[u].depth = header.depth
                                /\ expected'[u].sequence = header.sequence
                           /\ "region" \notin toCopy'[u] => expected'[u].next = header.next
    BY <1>1 DEF CopyInv
  <2>1. CASE u # t  BY <1>4, <2>1 DEF IInv, CopyInv
  <2>2. CASE u = t
    <3>1. header.sequence \in Int  BY <1>3, SpanAssumption DEF HeaderType
    <3>2. began[t] <= header.sequence  BY <1>1 DEF IInv, CopyInv
    <3>3. pc'[t] # "copy" => toCopy'[t] = {}  BY <1>4
    <3>4. "alignment" \notin toCopy'[t] => x.sequence <= header.sequence
      BY <1>1, <1>3, <1>4, <3>1 DEF IInv, CopyInv
    <3>5. began[t] = header.sequence /\ "alignment" \notin toCopy'[t] =>
            x.depth = header.depth /\ x.sequence = header.sequence
      BY <1>1, <1>3, <1>4 DEF IInv, CopyInv
    <3>6. began[t] = header.sequence /\ "region" \notin toCopy'[t] => x.next = header.next
      BY <1>1, <1>3, <1>4 DEF IInv, CopyInv
    <3> QED BY <1>4, <2>2, <3>2, <3>3, <3>4, <3>5, <3>6
  <2> QED BY <2>1, <2>2
<1>8. PushInv' /\ PopInv'  BY <1>1, <1>4 DEF IInv, PushInv, PopInv
<1>9. Owned' /\ ListIsStack'  BY <1>1, LocalStep
<1> QED BY <1>5, <1>6, <1>7, <1>8, <1>9 DEF IInv

\* An entry in the hands of a thread is not on the stack, so its link may change.
LEMMA PushLinkKeeps ==
  ASSUME IInv, NEW t \in Threads, PushLink(t)
  PROVE  IInv'
<1>1. /\ pc[t] = "link" /\ op[t] = "push" /\ pc' = [pc EXCEPT ![t] = "cas"]
      /\ next' = [next EXCEPT ![entry[t]] = expected[t].next]
      /\ UNCHANGED <<header, op, entry, expected, toCopy, link, began, hand, stack, calls>>
  BY DEF PushLink
<1>2. TypeOK
  BY DEF IInv
<1>3. entry[t] \in hand[t] /\ entry[t] \in Entries /\ expected[t].next \in Entries \cup {Null}
  BY <1>1, <1>2 DEF IInv, PushInv, TypeOK, HeaderType
<1>4. /\ pc'[t] = "cas" /\ \A u \in Threads : u # t => pc'[u] = pc[u]
      /\ next'[entry[t]] = expected[t].next
      /\ \A e \in Entries : e # entry[t] => next'[e] = next[e]
  BY <1>1, <1>2, <1>3 DEF TypeOK
<1>5. TypeOK'  BY <1>1, <1>2, <1>3 DEF TypeOK
<1>6. SeqInv'
  <2>1. Active(pc') = Active(pc)  BY <1>1, <1>2, ActiveSame DEF TypeOK, Labels
  <2> QED BY <1>1, <2>1 DEF IInv, SeqInv
<1>7. CopyInv'  BY <1>1, <1>4 DEF IInv, CopyInv
<1>8. PushInv'
  <2> SUFFICES ASSUME NEW u \in Threads, pc'[u] # "idle", op[u] = "push"
               PROVE  entry[u] \in hand[u] /\ (pc'[u] = "cas" => next'[entry[u]] = expected[u].next)
    BY <1>1 DEF PushInv
  <2>1. CASE u = t  BY <1>3, <1>4, <2>1
  <2>2. CASE u # t
    <3>1. entry[u] \in hand[u] /\ (pc[u] = "cas" => next[entry[u]] = expected[u].next)
      BY <1>4, <2>2 DEF IInv, PushInv
    <3>2. entry[u] # entry[t] /\ entry[u] \in Entries
      BY <1>2, <1>3, <2>2, <3>1 DEF IInv, Owned, HandsApart, TypeOK
    <3> QED BY <1>4, <2>2, <3>1, <3>2
  <2> QED BY <2>1, <2>2
<1>9. \A i \in 1..Len(stack) : stack[i] \in Entries /\ stack[i] # entry[t]
  BY <1>2, <1>3 DEF IInv, Owned, StackUnowned, TypeOK
<1>10. PopInv'
  <2> SUFFICES ASSUME NEW u \in Threads, pc'[u] = "cas", op[u] = "pop"
               PROVE  /\ entry[u] = expected[u].next /\ entry[u] \in Entries
                      /\ header = expected[u] => link[u] = next'[entry[u]]
    BY <1>1 DEF PopInv
  <2>1. u # t /\ pc[u] = "cas"  BY <1>1, <1>4
  <2>2. /\ entry[u] = expected[u].next /\ entry[u] \in Entries
        /\ header = expected[u] => link[u] = next[entry[u]]
    BY <2>1 DEF IInv, PopInv
  <2>3. ASSUME header = expected[u] PROVE entry[u] # entry[t]
    <3>1. stack # <<>> /\ stack[1] = entry[u]  BY <2>2, <2>3, NullAssumption DEF IInv, ListIsStack
    <3>2. 1 \in 1..Len(stack)  BY <1>2, <3>1 DEF TypeOK
    <3> QED BY <1>9, <3>1, <3>2
  <2> QED BY <1>4, <2>2, <2>3
<1>11. Owned'
  BY <1>1 DEF IInv, Owned, StackDistinct, StackUnowned, HandsApart, NoneLost
<1>12. ListIsStack'  BY <1>1, <1>4, <1>9 DEF IInv, ListIsStack
<1> QED BY <1>5, <1>6, <1>7, <1>8, <1>10, <1>11, <1>12 DEF IInv

LEMMA PopEmptyKeeps ==
  ASSUME IInv, NEW t \in Threads, PopEmpty(t)
  PROVE  IInv'
<1>1. /\ pc[t] = "link" /\ pc' = [pc EXCEPT ![t] = "idle"]
      /\ entry' = [entry EXCEPT ![t] = Null]
      /\ UNCHANGED <<header, next, op, expected, toCopy, link, began, hand, stack, calls>>
  BY DEF PopEmpty
<1>2. TypeOK
  BY DEF IInv
<1>3. /\ pc'[t] = "idle"
      /\ \A u \in Threads : u # t => pc'[u] = pc[u] /\ entry'[u] = entry[u]
  BY <1>1, <1>2 DEF TypeOK
<1>4. TypeOK'  BY <1>1, <1>2 DEF TypeOK
<1>5. SeqInv'
  <2>1. /\ IsFiniteSet(Active(pc')) /\ Cardinality(Active(pc)) \in Nat
        /\ Cardinality(Active(pc')) = Cardinality(Active(pc)) - 1
    BY <1>1, <1>2, ActiveLess DEF IInv, TypeOK, Labels
  <2>2. header.sequence \in Int /\ calls \in Int
    BY <1>2, SpanAssumption DEF TypeOK, HeaderType
  <2> QED BY <1>1, <2>1, <2>2 DEF IInv, SeqInv
<1>6. CopyInv'  BY <1>1, <1>3 DEF IInv, CopyInv
<1>7. PushInv' /\ PopInv'  BY <1>1, <1>3 DEF IInv, PushInv, PopInv
<1>8. Owned' /\ ListIsStack'  BY <1>1, LocalStep
<1> QED BY <1>4, <1>5, <1>6, <1>7, <1>8 DEF IInv

\* If the copy is good the entry is on the stack, and its link is read as it is.
LEMMA PopLinkKeeps ==
  ASSUME IInv, NEW t \in Threads, PopLink(t)
  PROVE  IInv'
<1>1. /\ pc[t] = "link" /\ op[t] = "pop" /\ pc' = [pc EXCEPT ![t] = "cas"]
      /\ expected[t].next # Null
      /\ entry' = [entry EXCEPT ![t] = expected[t].next]
      /\ UNCHANGED <<header, next, op, expected, toCopy, began, hand, stack, calls>>
  BY DEF PopLink
<1>2. TypeOK
  BY DEF IInv
<1>3. expected[t].next \in Entries  BY <1>1, <1>2 DEF TypeOK, HeaderType
<1>4. PICK x \in Entries \cup {Null} :
        /\ link' = [link EXCEPT ![t] = x]
        /\ (\A u \in Threads : expected[t].next \notin hand[u]) => x = next[expected[t].next]
  BY <1>2, <1>3 DEF PopLink, TypeOK
<1>5. /\ pc'[t] = "cas" /\ entry'[t] = expected[t].next /\ link'[t] = x
      /\ \A u \in Threads : u # t => /\ pc'[u] = pc[u] /\ entry'[u] = entry[u]
                                    /\ link'[u] = link[u]
  BY <1>1, <1>2, <1>4 DEF TypeOK
<1>6. TypeOK'  BY <1>1, <1>2, <1>3, <1>4 DEF TypeOK
<1>7. SeqInv'
  <2>1. Active(pc') = Active(pc)  BY <1>1, <1>2, ActiveSame DEF TypeOK, Labels
  <2> QED BY <1>1, <2>1 DEF IInv, SeqInv
<1>8. CopyInv'  BY <1>1, <1>5 DEF IInv, CopyInv
<1>9. PushInv'  BY <1>1, <1>5 DEF IInv, PushInv
<1>10. header = expected[t] => x = next[expected[t].next]
  <2> SUFFICES ASSUME header = expected[t] PROVE \A u \in Threads : expected[t].next \notin hand[u]
    BY <1>4
  <2>1. stack # <<>> /\ stack[1] = expected[t].next  BY <1>1 DEF IInv, ListIsStack
  <2>2. 1 \in 1..Len(stack)  BY <1>2, <2>1 DEF TypeOK
  <2> QED BY <2>1, <2>2 DEF IInv, Owned, StackUnowned
<1>11. PopInv'  BY <1>1, <1>3, <1>5, <1>10 DEF IInv, PopInv
<1>12. Owned' /\ ListIsStack'  BY <1>1, LocalStep
<1> QED BY <1>6, <1>7, <1>8, <1>9, <1>11, <1>12 DEF IInv

\* What a successful compare-exchange does whichever the call: the sequence number is
\* one that no thread has seen.
LEMMA SucceedCommon ==
  ASSUME IInv, NEW t \in Threads, Succeed(t)
  PROVE  /\ header'.sequence = header.sequence + 1 /\ header.sequence \in Nat
         /\ header' \in HeaderType /\ SeqInv' /\ CopyInv'
         /\ \A u \in Threads : pc[u] = "cas" => header' # expected[u]
<1>1. /\ pc[t] = "cas" /\ header = expected[t] /\ header' = Desired(t)
      /\ pc' = [pc EXCEPT ![t] = "idle"]
      /\ UNCHANGED <<next, op, entry, expected, toCopy, link, began, calls>>
  BY DEF Succeed
<1>2. TypeOK
  BY DEF IInv
<1>3. /\ pc'[t] = "idle" /\ \A u \in Threads : u # t => pc'[u] = pc[u]
  BY <1>1, <1>2 DEF TypeOK
<1>4. /\ header \in HeaderType /\ header.sequence \in Nat /\ calls \in Nat
      /\ calls <= MaxCalls /\ header.depth \in Int
  BY <1>2, SpanAssumption DEF TypeOK, HeaderType
<1>5. /\ IsFiniteSet(Active(pc')) /\ Cardinality(Active(pc)) \in Nat
      /\ Cardinality(Active(pc')) = Cardinality(Active(pc)) - 1
  BY <1>1, <1>2, ActiveLess DEF IInv, TypeOK, Labels
<1>6. header.sequence + Cardinality(Active(pc)) <= calls  BY DEF IInv, SeqInv
<1>7. header.sequence + 1 \in 0..(SeqSpan - 1)
  <2>1. Cardinality(Active(pc)) >= 1
    <3>1. t \in Active(pc) /\ IsFiniteSet(Active(pc))  BY <1>1 DEF Active, IInv, SeqInv
    <3>2. Cardinality(Active(pc)) # 0  BY <3>1, FS_EmptySet
    <3> QED BY <3>2, <1>5
  <2> QED BY <1>4, <1>5, <1>6, <2>1, SpanAssumption
<1>8. header'.sequence = header.sequence + 1
  <2>1. SeqSpan \in Nat /\ SeqSpan > 0  BY <1>7, SpanAssumption
  <2>2. (header.sequence + 1) % SeqSpan = header.sequence + 1  BY <1>7, <2>1, ModSmall
  <2> QED BY <1>1, <2>2 DEF Desired
<1>9. header' \in HeaderType
  <2>1. \A k \in Int : (header.depth + k) % DepthSpan \in 0..(DepthSpan - 1)
    BY <1>4, SpanAssumption, DivMod
  <2>2. header'.depth \in 0..(DepthSpan - 1)  BY <1>1, <2>1 DEF Desired
  <2>3. (IF op[t] = "push" THEN entry[t] ELSE link[t]) \in Entries \cup {Null}
    BY <1>2 DEF TypeOK
  <2>4. header' = [depth |-> header'.depth, sequence |-> header'.sequence, next |-> header'.next]
    BY <1>1 DEF Desired
  <2>5. header'.next \in Entries \cup {Null}  BY <1>1, <2>3 DEF Desired
  <2>6. header'.sequence \in 0..(SeqSpan - 1)  BY <1>7, <1>8
  <2> QED BY <2>2, <2>4, <2>5, <2>6 DEF HeaderType
<1>10. SeqInv'  BY <1>1, <1>4, <1>5, <1>6, <1>8 DEF SeqInv
<1>11. \A u \in Threads : began[u] \in Int /\ expected[u].sequence \in Int
  BY <1>2, SpanAssumption DEF TypeOK, HeaderType
<1>12. \A u \in Threads : pc[u] # "idle" =>
         /\ began[u] < header'.sequence
         /\ "alignment" \notin toCopy[u] => expected[u].sequence < header'.sequence
  BY <1>4, <1>8, <1>11 DEF IInv, CopyInv
<1>13. CopyInv'
  <2>1. \A u \in Threads : pc'[u] # "idle" => u # t /\ pc'[u] = pc[u]  BY <1>3
  <2> QED BY <1>1, <1>4, <1>8, <1>11, <1>12, <2>1 DEF IInv, CopyInv
<1>14. ASSUME NEW u \in Threads, pc[u] = "cas" PROVE header' # expected[u]
  <2>1. toCopy[u] = {}  BY <1>14 DEF IInv, CopyInv
  <2> QED BY <1>4, <1>8, <1>11, <1>12, <1>14, <2>1
<1> QED BY <1>4, <1>8, <1>9, <1>10, <1>13, <1>14

LEMMA SucceedPushKeeps ==
  ASSUME IInv, NEW t \in Threads, Succeed(t), op[t] = "push"
  PROVE  IInv'
<1>1. /\ pc[t] = "cas" /\ header = expected[t] /\ header' = Desired(t)
      /\ pc' = [pc EXCEPT ![t] = "idle"]
      /\ stack' = <<entry[t]>> \o stack
      /\ hand' = [hand EXCEPT ![t] = @ \ {entry[t]}]
      /\ UNCHANGED <<next, op, entry, expected, toCopy, link, began, calls>>
  BY DEF Succeed
<1>2. TypeOK
  BY DEF IInv
<1>3. /\ header' \in HeaderType /\ SeqInv' /\ CopyInv'
      /\ \A u \in Threads : pc[u] = "cas" => header' # expected[u]
  BY SucceedCommon
<1>4. /\ pc'[t] = "idle" /\ \A u \in Threads : u # t => pc'[u] = pc[u] /\ hand'[u] = hand[u]
      /\ hand'[t] = hand[t] \ {entry[t]}
  BY <1>1, <1>2 DEF TypeOK
<1>5. /\ entry[t] \in hand[t] /\ entry[t] \in Entries /\ next[entry[t]] = header.next
  BY <1>1, <1>2 DEF IInv, PushInv, TypeOK
<1>6. /\ stack \in Seq(Entries) /\ stack' \in Seq(Entries) /\ Len(stack') = Len(stack) + 1
      /\ stack'[1] = entry[t] /\ Len(stack) \in Nat
      /\ \A i \in 2..(Len(stack) + 1) : stack'[i] = stack[i - 1]
      /\ \A i \in 1..Len(stack) : stack'[i + 1] = stack[i]
  BY <1>1, <1>2, <1>5, Pushed DEF TypeOK
<1>7. TypeOK'  BY <1>1, <1>2, <1>3, <1>6 DEF TypeOK
<1>8. PushInv' /\ PopInv'  BY <1>1, <1>3, <1>4 DEF IInv, PushInv, PopInv
<1>9. Owned'
  <2>1. \A i \in 1..Len(stack) : stack[i] # entry[t]
    BY <1>5 DEF IInv, Owned, StackUnowned
  <2>2. StackDistinct'
    <3> SUFFICES ASSUME NEW i \in 1..(Len(stack) + 1), NEW j \in 1..(Len(stack) + 1), i # j
                 PROVE  stack'[i] # stack'[j]
      BY <1>6 DEF StackDistinct
    <3>1. CASE i = 1
      <4>1. j - 1 \in 1..Len(stack) /\ j \in 2..(Len(stack) + 1)  BY <1>6, <3>1
      <4> QED BY <1>6, <2>1, <3>1, <4>1
    <3>2. CASE j = 1
      <4>1. i - 1 \in 1..Len(stack) /\ i \in 2..(Len(stack) + 1)  BY <1>6, <3>2
      <4> QED BY <1>6, <2>1, <3>2, <4>1
    <3>3. CASE i # 1 /\ j # 1
      <4>1. /\ i - 1 \in 1..Len(stack) /\ i \in 2..(Len(stack) + 1)
            /\ j - 1 \in 1..Len(stack) /\ j \in 2..(Len(stack) + 1) /\ i - 1 # j - 1
        BY <1>6, <3>3
      <4> QED BY <1>6, <4>1 DEF IInv, Owned, StackDistinct
    <3> QED BY <3>1, <3>2, <3>3
  <2>3. \A i \in 1..(Len(stack) + 1) :
          stack'[i] = entry[t] \/ \E j \in 1..Len(stack) : stack'[i] = stack[j]
    <3> TAKE i \in 1..(Len(stack) + 1)
    <3>1. CASE i = 1  BY <1>6, <3>1
    <3>2. CASE i # 1
      <4>1. i - 1 \in 1..Len(stack) /\ i \in 2..(Len(stack) + 1)  BY <1>6, <3>2
      <4> QED BY <1>6, <4>1
    <3> QED BY <3>1, <3>2
  <2>4. StackUnowned'
    <3> SUFFICES ASSUME NEW i \in 1..(Len(stack) + 1), NEW u \in Threads
                 PROVE  stack'[i] \notin hand'[u]
      BY <1>6 DEF StackUnowned
    <3>1. CASE stack'[i] = entry[t]
      BY <1>4, <1>5, <3>1 DEF IInv, Owned, HandsApart
    <3>2. CASE \E j \in 1..Len(stack) : stack'[i] = stack[j]
      BY <1>4, <3>2 DEF IInv, Owned, StackUnowned
    <3> QED BY <2>3, <3>1, <3>2
  <2>5. HandsApart'  BY <1>4 DEF IInv, Owned, HandsApart
  <2>6. NoneLost'
    <3> SUFFICES ASSUME NEW e \in Entries
                 PROVE  \/ \E i \in 1..(Len(stack) + 1) : stack'[i] = e
                        \/ \E u \in Threads : e \in hand'[u]
      BY <1>6 DEF NoneLost
    <3>1. CASE e = entry[t]
      <4>1. 1 \in 1..(Len(stack) + 1)  BY <1>6
      <4> QED BY <1>6, <3>1, <4>1
    <3>2. CASE e # entry[t] /\ \E i \in 1..Len(stack) : stack[i] = e
      <4>1. PICK i \in 1..Len(stack) : stack[i] = e  BY <3>2
      <4>2. i + 1 \in 1..(Len(stack) + 1) /\ stack'[i + 1] = e  BY <1>6, <4>1
      <4> QED BY <4>2
    <3>3. CASE e # entry[t] /\ \E u \in Threads : e \in hand[u]  BY <1>4, <3>3
    <3> QED BY <3>1, <3>2, <3>3 DEF IInv, Owned, NoneLost
  <2> QED BY <2>2, <2>4, <2>5, <2>6 DEF Owned
<1>10. ListIsStack'
  <2>1. header'.next = entry[t] /\ stack' # <<>>
    BY <1>1, <1>6 DEF Desired
  <2>2. header'.depth = Len(stack') % DepthSpan
    <3>1. header.depth = Len(stack) % DepthSpan /\ DepthSpan \in Nat /\ DepthSpan > 0
      BY SpanAssumption DEF IInv, ListIsStack
    <3>2. header'.depth = ((Len(stack) % DepthSpan) + 1) % DepthSpan  BY <1>1, <3>1 DEF Desired
    <3> DEFINE n == Len(stack)
    <3>3. n \in Int /\ 1 \in Int  BY <1>6
    <3> HIDE DEF n
    <3>4. ((n % DepthSpan) + 1) % DepthSpan = (n + 1) % DepthSpan  BY <3>1, <3>3, ModAdd
    <3> QED BY <1>6, <3>2, <3>4 DEF n
  <2>3. ASSUME NEW i \in 1..(Len(stack) + 1)
        PROVE  next[stack'[i]] = IF i = Len(stack) + 1 THEN Null ELSE stack'[i + 1]
    <3>1. CASE i = 1
      <4>1. next[entry[t]] = IF stack = <<>> THEN Null ELSE stack[1]
        BY <1>5 DEF IInv, ListIsStack
      <4>2. CASE stack = <<>>  BY <1>6, <3>1, <4>1, <4>2
      <4>3. CASE stack # <<>>
        <5>1. 1 \in 1..Len(stack) /\ Len(stack) + 1 # 1 /\ stack'[1 + 1] = stack[1]
          BY <1>6, <4>3
        <5> QED BY <1>6, <3>1, <4>1, <4>3, <5>1
      <4> QED BY <4>2, <4>3
    <3>2. CASE i # 1
      <4>1. i - 1 \in 1..Len(stack) /\ i \in 2..(Len(stack) + 1)  BY <1>6, <3>2
      <4>2. stack'[i] = stack[i - 1]  BY <1>6, <4>1
      <4>3. next[stack[i - 1]] = IF i - 1 = Len(stack) THEN Null ELSE stack[i - 1 + 1]
        BY <4>1 DEF IInv, ListIsStack
      <4>4. CASE i = Len(stack) + 1  BY <1>6, <4>2, <4>3, <4>4
      <4>5. CASE i # Len(stack) + 1
        <5>1. i \in 1..Len(stack) /\ i - 1 # Len(stack) /\ i - 1 + 1 = i  BY <1>6, <4>1, <4>5
        <5>2. stack'[i + 1] = stack[i]  BY <1>6, <5>1
        <5> QED BY <4>2, <4>3, <4>5, <5>1, <5>2
      <4> QED BY <4>4, <4>5
    <3> QED BY <3>1, <3>2
  <2> QED BY <1>1, <1>6, <2>1, <2>2, <2>3 DEF ListIsStack
<1> QED BY <1>3, <1>7, <1>8, <1>9, <1>10 DEF IInv

LEMMA SucceedPopKeeps ==
  ASSUME IInv, NEW t \in Threads, Succeed(t), op[t] = "pop"
  PROVE  IInv' /\ stack # <<>> /\ entry[t] = Head(stack)
<1>1. /\ pc[t] = "cas" /\ header = expected[t] /\ header' = Desired(t)
      /\ pc' = [pc EXCEPT ![t] = "idle"]
      /\ stack' = IF stack = <<>> THEN <<>> ELSE Tail(stack)
      /\ hand' = [hand EXCEPT ![t] = @ \cup {entry[t]}]
      /\ UNCHANGED <<next, op, entry, expected, toCopy, link, began, calls>>
  BY DEF Succeed
<1>2. TypeOK
  BY DEF IInv
<1>3. /\ header' \in HeaderType /\ SeqInv' /\ CopyInv'
      /\ \A u \in Threads : pc[u] = "cas" => header' # expected[u]
  BY SucceedCommon
<1>4. /\ pc'[t] = "idle" /\ \A u \in Threads : u # t => pc'[u] = pc[u] /\ hand'[u] = hand[u]
      /\ hand'[t] = hand[t] \cup {entry[t]}
  BY <1>1, <1>2 DEF TypeOK
<1>5. entry[t] \in Entries /\ entry[t] = header.next /\ link[t] = next[entry[t]]
  BY <1>1 DEF IInv, PopInv
<1>6. stack # <<>> /\ entry[t] = stack[1]
  BY <1>5, NullAssumption DEF IInv, ListIsStack
<1>7. /\ stack' = Tail(stack) /\ stack' \in Seq(Entries) /\ Len(stack') = Len(stack) - 1
      /\ Head(stack) = stack[1] /\ Len(stack) \in Nat \ {0}
      /\ \A i \in 1..(Len(stack) - 1) : stack'[i] = stack[i + 1]
  BY <1>1, <1>2, <1>6, Popped DEF TypeOK
<1>8. TypeOK'  BY <1>1, <1>2, <1>3, <1>5, <1>7 DEF TypeOK
<1>9. PushInv' /\ PopInv'  BY <1>1, <1>3, <1>4 DEF IInv, PushInv, PopInv
<1>10. \A i \in 1..(Len(stack) - 1) : i + 1 \in 1..Len(stack) /\ i + 1 # 1 /\ 1 \in 1..Len(stack)
  BY <1>7
<1>11. Owned'
  <2>1. StackDistinct'
    <3> SUFFICES ASSUME NEW i \in 1..(Len(stack) - 1), NEW j \in 1..(Len(stack) - 1), i # j
                 PROVE  stack'[i] # stack'[j]
      BY <1>7 DEF StackDistinct
    <3>1. i + 1 # j + 1  BY <1>7
    <3> QED BY <1>7, <1>10, <3>1 DEF IInv, Owned, StackDistinct
  <2>2. StackUnowned'
    <3> SUFFICES ASSUME NEW i \in 1..(Len(stack) - 1), NEW u \in Threads
                 PROVE  stack'[i] \notin hand'[u]
      BY <1>7 DEF StackUnowned
    <3>1. stack'[i] # entry[t]
      BY <1>6, <1>7, <1>10 DEF IInv, Owned, StackDistinct
    <3>2. stack'[i] \notin hand[u]
      BY <1>7, <1>10 DEF IInv, Owned, StackUnowned
    <3> QED BY <1>4, <3>1, <3>2
  <2>3. HandsApart'
    <3>1. \A u \in Threads : entry[t] \notin hand[u]
      BY <1>6, <1>7 DEF IInv, Owned, StackUnowned
    <3> QED BY <1>4, <3>1 DEF IInv, Owned, HandsApart
  <2>4. NoneLost'
    <3> SUFFICES ASSUME NEW e \in Entries
                 PROVE  \/ \E i \in 1..(Len(stack) - 1) : stack'[i] = e
                        \/ \E u \in Threads : e \in hand'[u]
      BY <1>7 DEF NoneLost
    <3>1. CASE e = entry[t]  BY <1>4, <3>1
    <3>2. CASE e # entry[t] /\ \E i \in 1..Len(stack) : stack[i] = e
      <4>1. PICK i \in 1..Len(stack) : stack[i] = e  BY <3>2
      <4>2. i - 1 \in 1..(Len(stack) - 1) /\ i - 1 + 1 = i  BY <1>6, <1>7, <3>2, <4>1
      <4>3. stack'[i - 1] = stack[i - 1 + 1]  BY <1>7, <4>2
      <4> QED BY <4>1, <4>2, <4>3
    <3>3. CASE \E u \in Threads : e \in hand[u]  BY <1>4, <3>3
    <3> QED BY <3>1, <3>2, <3>3 DEF IInv, Owned, NoneLost
  <2> QED BY <2>1, <2>2, <2>3, <2>4 DEF Owned
<1>12. ListIsStack'
  <2> DEFINE n == Len(stack)
  <2>0. n \in Nat \ {0} /\ Len(stack') = n - 1 /\ 1 \in 1..n  BY <1>7
  <2> HIDE DEF n
  <2>1. header'.depth = Len(stack') % DepthSpan
    <3>1. header.depth = Len(stack) % DepthSpan /\ DepthSpan \in Nat /\ DepthSpan > 0
      BY SpanAssumption DEF IInv, ListIsStack
    <3>2. header'.depth = ((Len(stack) % DepthSpan) + (-1)) % DepthSpan
      BY <1>1, <3>1 DEF Desired
    <3>3. n \in Int /\ -1 \in Int /\ n + (-1) = n - 1  BY <2>0
    <3>4. header'.depth = ((n % DepthSpan) + (-1)) % DepthSpan  BY <3>2 DEF n
    <3>5. ((n % DepthSpan) + (-1)) % DepthSpan = (n + (-1)) % DepthSpan  BY <3>1, <3>3, ModAdd
    <3> QED BY <2>0, <3>3, <3>4, <3>5
  <2>2. next[stack[1]] = IF 1 = Len(stack) THEN Null ELSE stack[1 + 1]
    BY <2>0 DEF IInv, ListIsStack, n
  <2>3. header'.next = IF stack' = <<>> THEN Null ELSE stack'[1]
    <3>1. header'.next = next[stack[1]]  BY <1>1, <1>5, <1>6 DEF Desired
    <3>2. CASE Len(stack) = 1
      <4>1. stack' = <<>>  BY <1>7, <3>2
      <4> QED BY <2>2, <3>1, <3>2, <4>1
    <3>3. CASE Len(stack) # 1
      <4>1. n # 1 /\ n - 1 # 0 /\ 1 \in 1..(n - 1)  BY <2>0, <3>3 DEF n
      <4>2. stack' # <<>> /\ 1 \in 1..(Len(stack) - 1)  BY <1>7, <2>0, <4>1 DEF n
      <4> QED BY <1>7, <2>2, <3>1, <3>3, <4>2
    <3> QED BY <3>2, <3>3
  <2>4. ASSUME NEW i \in 1..(Len(stack) - 1)
        PROVE  next[stack'[i]] = IF i = Len(stack) - 1 THEN Null ELSE stack'[i + 1]
    <3>1. /\ next[stack[i + 1]] = IF i + 1 = Len(stack) THEN Null ELSE stack[i + 1 + 1]
          /\ stack'[i] = stack[i + 1]
      BY <1>7, <1>10 DEF IInv, ListIsStack
    <3>2. CASE i = Len(stack) - 1  BY <1>7, <3>1, <3>2
    <3>3. CASE i # Len(stack) - 1
      <4>0. i \in 1..(n - 1) /\ i # n - 1  BY <3>3 DEF n
      <4>1. i + 1 \in 1..(n - 1) /\ i + 1 # n  BY <2>0, <4>0
      <4>2. stack'[i + 1] = stack[i + 1 + 1]  BY <1>7, <4>1 DEF n
      <4> QED BY <3>1, <3>3, <4>1, <4>2 DEF n
    <3> QED BY <3>2, <3>3
  <2> QED BY <1>1, <1>7, <2>1, <2>3, <2>4 DEF ListIsStack
<1> QED BY <1>3, <1>6, <1>7, <1>8, <1>9, <1>11, <1>12 DEF IInv

LEMMA StutterKeeps ==
  ASSUME IInv, UNCHANGED vars
  PROVE  IInv'
<1>1. TypeOK' /\ CopyInv' /\ PushInv' /\ PopInv' /\ ListIsStack'
  BY DEF vars, IInv, TypeOK, CopyInv, PushInv, PopInv, ListIsStack
<1>2. SeqInv'  BY DEF vars, IInv, SeqInv, Active
<1>3. Owned'  BY DEF vars, IInv, Owned, StackDistinct, StackUnowned, HandsApart, NoneLost
<1> QED BY <1>1, <1>2, <1>3 DEF IInv

LEMMA NextIInv == IInv /\ [Next]_vars => IInv'
<1> SUFFICES ASSUME IInv, [Next]_vars PROVE IInv'  OBVIOUS
<1>1. ASSUME NEW t \in Threads, Pop(t) \/ \E e \in hand[t] : Push(t, e) PROVE IInv'
  BY <1>1, StartKeeps
<1>2. ASSUME NEW t \in Threads, NEW half \in Halves, Copy(t, half) PROVE IInv'
  BY <1>2, CopyKeeps
<1>3. ASSUME NEW t \in Threads, PushLink(t) PROVE IInv'  BY <1>3, PushLinkKeeps
<1>4. ASSUME NEW t \in Threads, PopEmpty(t) PROVE IInv'  BY <1>4, PopEmptyKeeps
<1>5. ASSUME NEW t \in Threads, PopLink(t) PROVE IInv'  BY <1>5, PopLinkKeeps
<1>6. ASSUME NEW t \in Threads, Succeed(t) PROVE IInv'
  <2>1. op[t] = "push" \/ op[t] = "pop"  BY <1>6 DEF Succeed
  <2> QED BY <1>6, <2>1, SucceedPushKeeps, SucceedPopKeeps
<1>7. ASSUME NEW t \in Threads, Fail(t) PROVE IInv'  BY <1>7, FailKeeps
<1>8. CASE Done  BY <1>8, StutterKeeps DEF Done
<1>9. CASE UNCHANGED vars  BY <1>9, StutterKeeps
<1> QED BY <1>1, <1>2, <1>3, <1>4, <1>5, <1>6, <1>7, <1>8, <1>9 DEF Next

\* IInv is an invariant.
THEOREM Inductive == Spec => []IInv
BY InitIInv, NextIInv, PTL DEF Spec

-----------------------------------------------------------------------------
(* The results.                                                             *)

\* Type correctness; in particular depth and sequence keep to their fields.
THEOREM Typing == Spec => []TypeOK
<1>1. IInv => TypeOK  BY DEF IInv
<1> QED BY <1>1, Inductive, PTL

\* The list that PushEntrySList and PopEntrySList maintain is the stack of the
\* operations that have succeeded, whatever copies are torn and whatever links are stale.
THEOREM ListMatches == Spec => []ListIsStack
<1>1. IInv => ListIsStack  BY DEF IInv
<1> QED BY <1>1, Inductive, PTL

LEMMA OwnerCount == IInv => OneOwner
<1> SUFFICES ASSUME IInv, NEW e \in Entries
             PROVE  Cardinality({i \in 1..Len(stack) : stack[i] = e})
                      + Cardinality({t \in Threads : e \in hand[t]}) = 1
  BY DEF OneOwner
<1> DEFINE P == {i \in 1..Len(stack) : stack[i] = e}
           H == {t \in Threads : e \in hand[t]}
<1>1. P # {} \/ H # {}  BY DEF IInv, Owned, NoneLost
<1>2. P = {} \/ H = {}  BY DEF IInv, Owned, StackUnowned
<1>3. \A i, j \in P : i = j  BY DEF IInv, Owned, StackDistinct
<1>4. \A t, u \in H : t = u  BY DEF IInv, Owned, HandsApart
<1> HIDE DEF P, H
<1>5. CASE P = {}
  <2>1. PICK t : H = {t}  BY <1>1, <1>4, <1>5
  <2>2. Cardinality(P) = 0 /\ Cardinality(H) = 1  BY <1>5, <2>1, FS_EmptySet, FS_Singleton
  <2> QED BY <2>2 DEF P, H
<1>6. CASE P # {}
  <2>1. PICK i : P = {i}  BY <1>3, <1>6
  <2>2. Cardinality(P) = 1 /\ Cardinality(H) = 0
    BY <1>2, <1>6, <2>1, FS_EmptySet, FS_Singleton
  <2> QED BY <2>2 DEF P, H
<1> QED BY <1>5, <1>6

\* No entry is lost, and none is popped by two threads.
THEOREM Ownership == Spec => []OneOwner
BY OwnerCount, Inductive, PTL

\* Lock freedom of both loops: a compare-exchange that fails has been overtaken by one
\* that succeeded, also when the copy of the header was torn.
THEOREM LockFree == Spec => []RetryMeansProgress
<1>1. IInv => RetryMeansProgress
  <2> SUFFICES ASSUME IInv, NEW t \in Threads, pc[t] = "cas", header.sequence = began[t]
               PROVE  header = expected[t]
    BY DEF RetryMeansProgress
  <2>1. toCopy[t] = {}  BY DEF IInv, CopyInv
  <2>2. /\ expected[t].depth = header.depth /\ expected[t].sequence = header.sequence
        /\ expected[t].next = header.next
    BY <2>1 DEF IInv, CopyInv
  <2>3. header \in HeaderType /\ expected[t] \in HeaderType  BY DEF IInv, TypeOK
  <2> QED BY <2>2, <2>3 DEF HeaderType
<1> QED BY <1>1, Inductive, PTL

\* A step of the loops is a push, a pop or nothing.
LEMMA NextRefines ==
  ASSUME IInv, [Next]_vars
  PROVE  [Abs!SpecNext]_(Abs!specVars)
<1>1. ASSUME NEW t \in Threads, Succeed(t), op[t] = "push" PROVE Abs!SpecNext
  <2>1. entry[t] \in hand[t]  BY <1>1 DEF Succeed, IInv, PushInv
  <2>2. Abs!Push(t, entry[t])  BY <1>1, <2>1 DEF Succeed, Abs!Push
  <2> QED BY <2>1, <2>2 DEF Abs!SpecNext
<1>2. ASSUME NEW t \in Threads, Succeed(t), op[t] = "pop" PROVE Abs!SpecNext
  <2>1. stack # <<>> /\ entry[t] = Head(stack)  BY <1>2, SucceedPopKeeps
  <2>2. Abs!Pop(t)  BY <1>2, <2>1 DEF Succeed, Abs!Pop
  <2> QED BY <2>2 DEF Abs!SpecNext
<1>3. ASSUME NEW t \in Threads, Succeed(t) PROVE Abs!SpecNext
  BY <1>1, <1>2, <1>3 DEF Succeed
<1>4. ASSUME NEW t \in Threads,
             \/ Pop(t) \/ PushLink(t) \/ PopEmpty(t) \/ PopLink(t) \/ Fail(t)
             \/ \E e \in hand[t] : Push(t, e)
             \/ \E half \in Halves : Copy(t, half)
      PROVE  UNCHANGED <<stack, hand>>
  BY <1>4 DEF Pop, Push, PushLink, PopEmpty, PopLink, Fail, Copy
<1>5. ASSUME Done \/ UNCHANGED vars PROVE UNCHANGED <<stack, hand>>
  BY <1>5 DEF Done, vars
<1> QED BY <1>3, <1>4, <1>5 DEF Next, Abs!specVars

\* PushEntrySList and PopEntrySList implement a stack whose pushes and pops are atomic.
THEOREM Implements == Spec => Refines
<1>1. Init => Abs!SpecInit
  <2> SUFFICES ASSUME Init PROVE Abs!SpecInit  OBVIOUS
  <2>1. HandsApart /\ hand \in [Threads -> SUBSET Entries]
    BY InitIInv DEF IInv, Owned, TypeOK
  <2>2. \A t, u \in Threads : t # u => hand[t] \cap hand[u] = {}
    BY <2>1 DEF HandsApart
  <2> QED BY <2>2 DEF Init, Abs!SpecInit
<1>2. IInv /\ [Next]_vars => [Abs!SpecNext]_(Abs!specVars)  BY NextRefines
<1> QED BY <1>1, <1>2, Inductive, PTL DEF Spec, Refines, Abs!Spec
=============================================================================
