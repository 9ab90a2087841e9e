-------------------------- MODULE CoreGlobalProofs --------------------------
(***************************************************************************)
(* Proofs about ThreadManager and CoreGlobal, for any finite set of         *)
(* threads.                                                                 *)
(*                                                                          *)
(* The argument about ids counts the threads that InitTLS has seen:         *)
(* SThreadId is two more than their number, the ids in use are the numbers  *)
(* from 1 to SThreadId - 1, and as every thread gets one id only, the       *)
(* counter never wraps.                                                     *)
(*                                                                          *)
(* Every step of the process is a step of ThreadManager or leaves it alone, *)
(* so what holds of the manager holds in the whole process.  GInv then ties *)
(* the life of the globals to that of the manager: no thread exists while   *)
(* they are built, and all of them exist until main, in the destructor of   *)
(* the manager, has joined the threads.                                     *)
(***************************************************************************)
EXTENDS CoreGlobal, FiniteSetTheorems, SequenceTheorems, TLAPS

-----------------------------------------------------------------------------
(* ThreadManager.                                                           *)

Labels == {"none", "init", "callback", "launch", "done", "join", "deleted"}

\* The threads that have an id, by the labels of all threads.
Seen(labels) == {t \in Threads : labels[t] \notin {"none", "init"}}

\* The counter is two more than the number of threads that have taken an id.
CountInv == SThreadId = 2 + Cardinality(Seen(pc))

\* Ids are below the counter, 0 only before InitTLS, and different.
IdInv ==
  /\ pc[Main] \notin {"none", "init"}
  /\ \A t \in All :
       IF pc[t] \in {"none", "init"} THEN LThreadId[t] = 0 ELSE LThreadId[t] \in 1..(SThreadId - 1)
  /\ \A t, u \in All :
       t # u /\ LThreadId[t] = LThreadId[u] => LThreadId[t] = 0

\* The thread in Launch holds the lock and has created a thread; so has no other.
LaunchInv == \A u \in All : pc[u] = "launch" => lock = u /\ created \in Threads

IInv == TypeOK /\ CountInv /\ IdInv /\ LaunchInv

LEMMA SeenBound ==
  ASSUME NEW f
  PROVE  /\ IsFiniteSet(Seen(f)) /\ Cardinality(Seen(f)) \in Nat
         /\ 2 + Cardinality(Seen(f)) < IdSpan
<1>1. Seen(f) \subseteq Threads  BY DEF Seen
<1>2. /\ IsFiniteSet(Seen(f)) /\ Cardinality(Seen(f)) \in Nat
      /\ Cardinality(Threads) \in Nat
      /\ Cardinality(Seen(f)) <= Cardinality(Threads)
  BY <1>1, FS_Subset, FS_CardinalityType, ThreadAssumption
<1> QED BY <1>2, ThreadAssumption

\* InitTLS takes one thread more into account.
LEMMA SeenGrows ==
  ASSUME NEW t \in Threads, pc \in [All -> Labels], pc[t] = "init",
         pc' = [pc EXCEPT ![t] = "callback"]
  PROVE  Cardinality(Seen(pc')) = Cardinality(Seen(pc)) + 1
<1>1. t \in All  BY DEF All
<1>2. t \notin Seen(pc) /\ Seen(pc') = Seen(pc) \cup {t}
  BY <1>1 DEF Seen, All
<1> QED BY <1>2, SeenBound, FS_AddElement

LEMMA InitIInv == Init => IInv
<1> SUFFICES ASSUME Init PROVE IInv  OBVIOUS
<1> USE ThreadAssumption
<1>1. Cardinality(Threads) \in Nat  BY FS_CardinalityType
<1>2. TypeOK
  <2>1. 2 \in 1..(IdSpan - 1) /\ 0 \in 0..(IdSpan - 1) /\ 1 \in 0..(IdSpan - 1)  BY <1>1
  <2>2. <<>> \in Seq(Threads)  OBVIOUS
  <2> QED BY <2>1, <2>2 DEF Init, TypeOK, All
<1>3. CountInv
  <2>1. Seen(pc) = {}  BY DEF Init, Seen, All
  <2>2. Cardinality(Seen(pc)) = 0  BY <2>1, FS_EmptySet
  <2> QED BY <2>2 DEF Init, CountInv
<1>4. IdInv  BY DEF Init, IdInv, All
<1>5. LaunchInv  BY DEF Init, LaunchInv, All
<1> QED BY <1>2, <1>3, <1>4, <1>5 DEF IInv

\* A step of another thread than those that InitTLS sees keeps the counting.
LEMMA CountingKept ==
  ASSUME IInv, pc' \in [All -> Labels], UNCHANGED <<SThreadId, LThreadId>>,
         \A t \in All : pc'[t] \in {"none", "init"} <=> pc[t] \in {"none", "init"}
  PROVE  CountInv' /\ IdInv'
<1>1. Seen(pc') = Seen(pc)  BY DEF Seen, All
<1>2. CountInv'  BY <1>1 DEF CountInv, IInv
<1>3. IdInv'  BY DEF IdInv, IInv, All
<1> QED BY <1>2, <1>3

LEMMA LaunchKeeps ==
  ASSUME IInv, NEW u \in All, NEW t \in Threads, Launch(u, t)
  PROVE  IInv'
<1> USE ThreadAssumption
<1>1. t \in All /\ t # Main /\ u # t  BY DEF All, Launch
<1>2. TypeOK'  BY <1>1 DEF IInv, TypeOK, Launch, joinVars, idVars, All
<1>3. CountInv' /\ IdInv'
  <2>1. \A v \in All : pc'[v] \in {"none", "init"} <=> pc[v] \in {"none", "init"}
    BY <1>1 DEF Launch, IInv, TypeOK
  <2>2. UNCHANGED <<SThreadId, LThreadId>>  BY DEF Launch, idVars
  <2>3. pc' \in [All -> Labels]  BY <1>2 DEF TypeOK, Labels
  <2> QED BY <2>1, <2>2, <2>3, CountingKept
<1>4. LaunchInv'
  <2>1. \A v \in All : pc[v] # "launch"  BY DEF IInv, LaunchInv, Launch, All
  <2>2. \A v \in All : pc'[v] = "launch" => v = u
    BY <2>1, <1>1 DEF Launch, IInv, TypeOK
  <2> QED BY <2>2 DEF LaunchInv, Launch
<1> QED BY <1>2, <1>3, <1>4 DEF IInv

LEMMA PushBackStep == ASSUME IInv, NEW u \in All, PushBack(u) PROVE IInv'
<1>1. created \in Threads /\ pc[u] = "launch"  BY DEF PushBack, IInv, LaunchInv
<1>2. TypeOK'
  <2>1. Append(threads, created) \in Seq(Threads)
    <3>1. threads \in Seq(Threads)  BY DEF IInv, TypeOK
    <3> QED BY <1>1, <3>1, AppendProperties
  <2>2. crash' \in {"none", "terminate", "dangling iterator"}  BY DEF PushBack
  <2>3. pc' \in [All -> Labels]  BY DEF PushBack, IInv, TypeOK, Labels
  <2>4. UNCHANGED <<joined, toJoin, deleting, SThreadId, LThreadId>>
    BY DEF PushBack, joinVars, idVars
  <2> QED BY <2>1, <2>2, <2>3, <2>4 DEF IInv, TypeOK, PushBack, Labels
<1>3. CountInv' /\ IdInv'
  <2>1. \A v \in All : pc'[v] \in {"none", "init"} <=> pc[v] \in {"none", "init"}
    BY <1>1 DEF PushBack, IInv, TypeOK
  <2>2. UNCHANGED <<SThreadId, LThreadId>>  BY DEF PushBack, idVars
  <2>3. pc' \in [All -> Labels]  BY <1>2 DEF TypeOK, Labels
  <2> QED BY <2>1, <2>2, <2>3, CountingKept
<1>4. LaunchInv'
  <2>1. \A v \in All : v # u => pc[v] # "launch"
    BY <1>1 DEF IInv, LaunchInv
  <2>2. \A v \in All : pc'[v] # "launch"
    BY <2>1, <1>1 DEF PushBack, IInv, TypeOK
  <2> QED BY <2>2 DEF LaunchInv
<1> QED BY <1>2, <1>3, <1>4 DEF IInv

LEMMA InitTLSStep == ASSUME IInv, NEW t \in Threads, InitTLS(t) PROVE IInv'
<1>1. /\ t \in All /\ pc[t] = "init" /\ pc' = [pc EXCEPT ![t] = "callback"]
      /\ pc \in [All -> Labels]
  BY DEF InitTLS, All, IInv, TypeOK, Labels
<1>2. /\ SThreadId \in Nat /\ SThreadId > 1 /\ SThreadId < IdSpan /\ IdSpan \in Nat
      /\ SThreadId + 1 = 2 + Cardinality(Seen(pc')) /\ SThreadId + 1 < IdSpan
  <2>1. Cardinality(Seen(pc')) = Cardinality(Seen(pc)) + 1  BY <1>1, SeenGrows
  <2>2. Cardinality(Seen(pc)) \in Nat /\ 2 + Cardinality(Seen(pc)) < IdSpan  BY SeenBound
  <2>3. 2 + Cardinality(Seen(pc')) < IdSpan  BY SeenBound
  <2>4. SThreadId = 2 + Cardinality(Seen(pc))  BY DEF IInv, CountInv
  <2> QED BY <2>1, <2>2, <2>3, <2>4, ThreadAssumption
<1>3. SThreadId' = SThreadId + 1
  BY <1>2 DEF InitTLS
<1>4. TypeOK'
  <2>1. SThreadId' \in 1..(IdSpan - 1) /\ SThreadId \in 0..(IdSpan - 1)  BY <1>2, <1>3
  <2> QED BY <2>1, <1>1 DEF IInv, TypeOK, InitTLS, launchVars, joinVars
<1>5. CountInv'  BY <1>2, <1>3 DEF CountInv
<1>6. IdInv'
  <2>1. LThreadId' = [LThreadId EXCEPT ![t] = SThreadId] /\ LThreadId \in [All -> 0..(IdSpan - 1)]
    BY DEF InitTLS, IInv, TypeOK
  <2>2. \A v \in All : LThreadId[v] \in Nat /\ LThreadId[v] < SThreadId
    BY <1>2 DEF IInv, IdInv
  <2>3. pc'[Main] \notin {"none", "init"}  BY <1>1 DEF IInv, IdInv, All
  <2>4. \A v \in All : IF pc'[v] \in {"none", "init"} THEN LThreadId'[v] = 0
                                                     ELSE LThreadId'[v] \in 1..(SThreadId' - 1)
    <3> TAKE v \in All
    <3>1. CASE v = t  BY <3>1, <2>1, <1>1, <1>2, <1>3
    <3>2. CASE v # t
      <4>1. pc'[v] = pc[v] /\ LThreadId'[v] = LThreadId[v]  BY <3>2, <2>1, <1>1
      <4> QED BY <4>1, <1>2, <1>3 DEF IInv, IdInv
    <3> QED BY <3>1, <3>2
  <2>5. \A v, w \in All : v # w /\ LThreadId'[v] = LThreadId'[w] => LThreadId'[v] = 0
    <3> TAKE v, w \in All
    <3> HAVE v # w /\ LThreadId'[v] = LThreadId'[w]
    <3>1. CASE v = t  BY <3>1, <2>1, <2>2, <1>1
    <3>2. CASE w = t  BY <3>2, <2>1, <2>2, <1>1
    <3>3. CASE v # t /\ w # t  BY <3>3, <2>1 DEF IInv, IdInv
    <3> QED BY <3>1, <3>2, <3>3
  <2> QED BY <2>3, <2>4, <2>5 DEF IdInv
<1>7. LaunchInv'
  BY <1>1 DEF LaunchInv, IInv, InitTLS, launchVars
<1> QED BY <1>4, <1>5, <1>6, <1>7 DEF IInv

\* DestroyTLS, and the steps of main in Join: nobody comes from or goes to "none",
\* "init" or "launch".
LEMMA OtherStep ==
  ASSUME IInv, TypeOK', UNCHANGED <<SThreadId, LThreadId, lock, created>>,
         \A v \in All : pc'[v] # pc[v] => /\ pc[v] \notin {"none", "init"}
                                        /\ pc'[v] \notin {"none", "init", "launch"}
  PROVE  IInv'
<1>1. pc \in [All -> Labels] /\ pc' \in [All -> Labels]  BY DEF IInv, TypeOK, Labels
<1>2. \A v \in All : /\ pc'[v] \in {"none", "init"} <=> pc[v] \in {"none", "init"}
                     /\ pc'[v] = "launch" => pc[v] = "launch"
  OBVIOUS
<1>3. CountInv' /\ IdInv'  BY <1>1, <1>2, CountingKept
<1>4. LaunchInv'  BY <1>2 DEF LaunchInv, IInv
<1> QED BY <1>3, <1>4 DEF IInv

LEMMA DestroyTLSStep == ASSUME IInv, NEW t \in Threads, DestroyTLS(t) PROVE IInv'
<1>1. t \in All /\ pc[t] = "callback"  BY DEF DestroyTLS, All
<1>2. TypeOK'  BY <1>1 DEF IInv, TypeOK, DestroyTLS, launchVars, joinVars, idVars
<1>3. \A v \in All : pc'[v] # pc[v] => /\ pc[v] \notin {"none", "init"}
                                       /\ pc'[v] \notin {"none", "init", "launch"}
  BY <1>1 DEF DestroyTLS, IInv, TypeOK
<1>4. UNCHANGED <<SThreadId, LThreadId, lock, created>>  BY DEF DestroyTLS, launchVars, idVars
<1> QED BY <1>2, <1>3, <1>4, OtherStep

LEMMA BeginJoinStep == ASSUME IInv, Join \/ Delete PROVE IInv'
<1>1. Main \in All /\ pc[Main] = "callback"  BY DEF Join, Delete, BeginJoin, All
<1>2. TypeOK'
  BY <1>1 DEF IInv, TypeOK, Join, Delete, BeginJoin, launchVars, idVars
<1>3. \A v \in All : pc'[v] # pc[v] => /\ pc[v] \notin {"none", "init"}
                                       /\ pc'[v] \notin {"none", "init", "launch"}
  BY <1>1 DEF Join, Delete, BeginJoin, IInv, TypeOK
<1>4. UNCHANGED <<SThreadId, LThreadId, lock, created>>
  BY DEF Join, Delete, BeginJoin, launchVars, idVars
<1> QED BY <1>2, <1>3, <1>4, OtherStep

LEMMA JoinNextStep == ASSUME IInv, JoinNext PROVE IInv'
<1>1. TypeOK'
  <2>1. Head(toJoin) \in Threads /\ Tail(toJoin) \in Seq(Threads)
    <3>1. toJoin \in Seq(Threads) /\ toJoin # <<>>  BY DEF IInv, TypeOK, JoinNext
    <3> QED BY <3>1, HeadTailProperties
  <2> QED BY <2>1 DEF IInv, TypeOK, JoinNext, launchVars, idVars
<1>2. pc' = pc /\ UNCHANGED <<SThreadId, LThreadId, lock, created>>
  BY DEF JoinNext, launchVars, idVars
<1> QED BY <1>1, <1>2, OtherStep

LEMMA JoinClearStep == ASSUME IInv, JoinClear PROVE IInv'
<1>1. Main \in All /\ pc[Main] = "join"  BY DEF JoinClear, All
<1>2. TypeOK'
  <2>1. <<>> \in Seq(Threads)  OBVIOUS
  <2> QED BY <1>1, <2>1 DEF IInv, TypeOK, JoinClear, launchVars, joinVars, idVars
<1>3. \A v \in All : pc'[v] # pc[v] => /\ pc[v] \notin {"none", "init"}
                                       /\ pc'[v] \notin {"none", "init", "launch"}
  BY <1>1 DEF JoinClear, IInv, TypeOK
<1>4. UNCHANGED <<SThreadId, LThreadId, lock, created>>  BY DEF JoinClear, launchVars, idVars
<1> QED BY <1>2, <1>3, <1>4, OtherStep

LEMMA NextIInv == IInv /\ [Next]_vars => IInv'
<1> SUFFICES ASSUME IInv, [Next]_vars PROVE IInv'  OBVIOUS
<1>1. CASE UNCHANGED vars
  <2>1. Seen(pc') = Seen(pc)  BY <1>1 DEF Seen, vars
  <2> QED BY <1>1, <2>1 DEF vars, launchVars, joinVars, idVars, IInv, TypeOK, CountInv,
             IdInv, LaunchInv
<1>2. CASE \E u \in All : PushBack(u) \/ \E t \in Threads : Launch(u, t)
  BY <1>2, PushBackStep, LaunchKeeps
<1>3. CASE \E t \in Threads : InitTLS(t) \/ DestroyTLS(t)
  BY <1>3, InitTLSStep, DestroyTLSStep
<1>4. CASE Join \/ Delete \/ JoinNext \/ JoinClear
  BY <1>4, BeginJoinStep, JoinNextStep, JoinClearStep
<1> QED BY <1>1, <1>2, <1>3, <1>4 DEF Next, Done

LEMMA Inductive == Spec => []IInv
BY InitIInv, NextIInv, PTL DEF Spec

\* The counter stays in its 32 bits without wrapping, the vectors hold threads
\* only, and push_back always has a thread to push (ThreadManager.cpp:48-84).
THEOREM Typing == Spec => []TypeOK
<1>1. IInv => TypeOK  BY DEF IInv
<1> QED BY <1>1, Inductive, PTL

\* Every thread whose callback runs has an id that is not 0 and that no other
\* thread has, however the threads draw them (ThreadManager.cpp:73-84).
THEOREM Ids == Spec => []UniqueIds
<1>1. IInv => UniqueIds
  BY DEF IInv, IdInv, UniqueIds
<1> QED BY <1>1, Inductive, PTL

-----------------------------------------------------------------------------
(* Join, if callbacks do not launch.  UniqueIds and the typing say nothing  *)
(* about which threads run: JInv follows every thread from its creation     *)
(* into _threads and through the loop of Join.                              *)

\* The thread is in the vector, and in the part of it that Join has not reached.
InVector(t) == \E i \in 1..Len(threads) : threads[i] = t
StillToJoin(t) == \E i \in 1..Len(toJoin) : toJoin[i] = t

\* A thread that runs is in _threads, or about to be put there by main.
RunningListed ==
  \A t \in Threads : pc[t] \in {"init", "callback"} =>
    InVector(t) \/ (pc[Main] = "launch" /\ created = t)

\* While main is in the loop, each thread of the vector is behind or before it.
LoopCovers ==
  pc[Main] = "join" => \A t \in Threads : InVector(t) => t \in joined \/ StillToJoin(t)

JInv ==
  /\ crash = "none"
  /\ \A t \in Threads : pc[t] \in {"none", "init", "callback", "done"}
  /\ \A t \in joined : pc[t] = "done"
  /\ RunningListed
  /\ LoopCovers
  /\ pc[Main] = "deleted" => \A t \in Threads : pc[t] \in {"none", "done"}

LEMMA InitJInv == Init => JInv
<1> SUFFICES ASSUME Init PROVE JInv  OBVIOUS
<1>1. \A t \in Threads : t \in All /\ t # Main /\ pc[t] = "none"
  BY ThreadAssumption DEF Init, All
<1>2. pc[Main] = "callback"  BY DEF Init, All
<1> QED BY <1>1, <1>2 DEF Init, JInv, RunningListed, LoopCovers

LEMMA LaunchJInv ==
  ASSUME IInv, JInv, ~NestedLaunch, NEW u \in All, NEW t \in Threads, Launch(u, t)
  PROVE  JInv'
<1>1. /\ u = Main /\ t # Main /\ pc[Main] = "callback" /\ pc[t] = "none"
      /\ pc' = [pc EXCEPT ![Main] = "launch", ![t] = "init"] /\ created' = t
      /\ threads' = threads /\ joined' = joined /\ toJoin' = toJoin /\ crash' = crash
  BY ThreadAssumption DEF Launch, All, joinVars
<1>2. /\ pc \in [All -> Labels] /\ joined \subseteq Threads /\ Main \in All
      /\ Threads \subseteq All /\ Main \notin Threads
  BY ThreadAssumption DEF IInv, TypeOK, Labels, All
<1>3. /\ pc'[Main] = "launch" /\ pc'[t] = "init"
      /\ \A v \in Threads \ {t} : pc'[v] = pc[v]
  BY <1>1, <1>2
<1>4. t \notin joined  BY <1>1 DEF JInv
<1>5. RunningListed'
  <2> SUFFICES ASSUME NEW v \in Threads, pc'[v] \in {"init", "callback"}
               PROVE  InVector(v)' \/ (pc'[Main] = "launch" /\ created' = v)
    BY DEF RunningListed
  <2>1. CASE v = t  BY <2>1, <1>1, <1>3
  <2>2. CASE v # t
    <3>1. InVector(v)  BY <2>2, <1>1, <1>3 DEF JInv, RunningListed
    <3> QED BY <3>1, <1>1 DEF InVector
  <2> QED BY <2>1, <2>2
<1>6. LoopCovers'  BY <1>3 DEF LoopCovers
<1>7. \A v \in joined' : pc'[v] = "done"  BY <1>1, <1>2, <1>3, <1>4 DEF JInv
<1> QED BY <1>1, <1>3, <1>5, <1>6, <1>7 DEF JInv

LEMMA PushBackJInv == ASSUME IInv, JInv, NEW u \in All, PushBack(u) PROVE JInv'
<1>1. /\ u = Main /\ pc[Main] = "launch" /\ created \in Threads
      /\ threads' = Append(threads, created) /\ pc' = [pc EXCEPT ![Main] = "callback"]
      /\ joined' = joined /\ crash' = "none"
  BY DEF PushBack, JInv, IInv, LaunchInv, All, joinVars
<1>2. /\ pc \in [All -> Labels] /\ joined \subseteq Threads /\ Main \in All
      /\ Threads \subseteq All /\ Main \notin Threads /\ threads \in Seq(Threads)
  BY ThreadAssumption DEF IInv, TypeOK, Labels, All
<1>3. pc'[Main] = "callback" /\ \A v \in Threads : pc'[v] = pc[v]  BY <1>1, <1>2
<1>4. /\ Len(threads') = Len(threads) + 1 /\ threads'[Len(threads) + 1] = created
      /\ Len(threads) \in Nat /\ \A i \in 1..Len(threads) : threads'[i] = threads[i]
  BY <1>1, <1>2
<1>5. RunningListed'
  <2> SUFFICES ASSUME NEW v \in Threads, pc[v] \in {"init", "callback"} PROVE InVector(v)'
    BY <1>3 DEF RunningListed
  <2>1. InVector(v) \/ created = v  BY DEF JInv, RunningListed
  <2> QED BY <2>1, <1>4 DEF InVector
<1>6. LoopCovers'  BY <1>3 DEF LoopCovers
<1> QED BY <1>1, <1>2, <1>3, <1>5, <1>6 DEF JInv

LEMMA ThreadJInv ==
  ASSUME IInv, JInv, NEW t \in Threads, InitTLS(t) \/ DestroyTLS(t)
  PROVE  JInv'
<1>1. /\ pc[t] \in {"init", "callback"} /\ t # Main
      /\ pc' = [pc EXCEPT ![t] = IF pc[t] = "init" THEN "callback" ELSE "done"]
      /\ UNCHANGED <<threads, created, joined, toJoin, crash>>
  BY ThreadAssumption DEF InitTLS, DestroyTLS, launchVars, joinVars
<1>2. pc \in [All -> Labels] /\ joined \subseteq Threads /\ Main \in All /\ Threads \subseteq All
  BY DEF IInv, TypeOK, Labels, All
<1>3. /\ pc'[Main] = pc[Main] /\ \A v \in Threads \ {t} : pc'[v] = pc[v]
      /\ pc'[t] \in {"callback", "done"}
  BY <1>1, <1>2
<1>4. t \notin joined /\ pc[Main] # "deleted"  BY <1>1 DEF JInv
<1>5. RunningListed'
  <2> SUFFICES ASSUME NEW v \in Threads, pc'[v] \in {"init", "callback"}
               PROVE  InVector(v)' \/ (pc'[Main] = "launch" /\ created' = v)
    BY DEF RunningListed
  <2>1. pc[v] \in {"init", "callback"}  BY <1>1, <1>3
  <2>2. InVector(v) \/ (pc[Main] = "launch" /\ created = v)  BY <2>1 DEF JInv, RunningListed
  <2> QED BY <2>2, <1>1, <1>3 DEF InVector
<1>6. LoopCovers'  BY <1>1, <1>3 DEF JInv, LoopCovers, InVector, StillToJoin
<1>7. \A v \in joined' : pc'[v] = "done"  BY <1>1, <1>2, <1>3, <1>4 DEF JInv
<1> QED BY <1>1, <1>3, <1>4, <1>5, <1>6, <1>7 DEF JInv

LEMMA BeginJoinJInv == ASSUME IInv, JInv, Join \/ Delete PROVE JInv'
<1>1. /\ pc[Main] = "callback" /\ pc' = [pc EXCEPT ![Main] = "join"] /\ toJoin' = threads
      /\ UNCHANGED <<threads, joined, created, crash>>
  BY DEF Join, Delete, BeginJoin, launchVars
<1>2. /\ pc \in [All -> Labels] /\ joined \subseteq Threads /\ Main \in All
      /\ Threads \subseteq All /\ Main \notin Threads
  BY ThreadAssumption DEF IInv, TypeOK, Labels, All
<1>3. pc'[Main] = "join" /\ \A v \in Threads : pc'[v] = pc[v]  BY <1>1, <1>2
<1>4. RunningListed'  BY <1>1, <1>3 DEF JInv, RunningListed, InVector
<1>5. LoopCovers'  BY <1>1 DEF LoopCovers, InVector, StillToJoin
<1> QED BY <1>1, <1>2, <1>3, <1>4, <1>5 DEF JInv

LEMMA JoinNextJInv == ASSUME IInv, JInv, JoinNext PROVE JInv'
<1>1. /\ pc' = pc /\ pc[Head(toJoin)] = "done" /\ joined' = joined \cup {Head(toJoin)}
      /\ toJoin # <<>> /\ toJoin' = Tail(toJoin) /\ UNCHANGED <<threads, created, crash>>
  BY DEF JoinNext, launchVars
<1>2. toJoin \in Seq(Threads)  BY DEF IInv, TypeOK
<1>3. /\ Len(toJoin) \in Nat /\ Len(toJoin') = Len(toJoin) - 1 /\ Head(toJoin) = toJoin[1]
      /\ \A i \in 1..(Len(toJoin) - 1) : toJoin'[i] = toJoin[i + 1]
  BY <1>1, <1>2
<1>4. RunningListed'  BY <1>1 DEF JInv, RunningListed, InVector
<1>5. LoopCovers'
  <2> SUFFICES ASSUME pc[Main] = "join", NEW t \in Threads, InVector(t), t \notin joined'
               PROVE  StillToJoin(t)'
    BY <1>1 DEF LoopCovers, InVector
  <2>1. PICK i \in 1..Len(toJoin) : toJoin[i] = t
    BY <1>1 DEF JInv, LoopCovers, StillToJoin
  <2>2. i # 1  BY <1>1, <1>3, <2>1
  <2>3. i - 1 \in 1..Len(toJoin') /\ toJoin'[i - 1] = t  BY <1>3, <2>1, <2>2
  <2> QED BY <2>3 DEF StillToJoin
<1> QED BY <1>1, <1>4, <1>5 DEF JInv

\* clear() finds every thread joined, so that none runs.
LEMMA JoinClearJInv == ASSUME IInv, JInv, JoinClear PROVE JInv'
<1>1. /\ pc[Main] = "join" /\ toJoin = <<>> /\ threads' = <<>> /\ joined' = joined
      /\ pc' = [pc EXCEPT ![Main] = IF deleting THEN "deleted" ELSE "callback"]
      /\ crash' = IF \E i \in 1..Len(threads) : threads[i] \notin joined
                    THEN "terminate" ELSE "none"
  BY DEF JoinClear, joinVars
<1>2. /\ pc \in [All -> Labels] /\ joined \subseteq Threads /\ Main \in All
      /\ Threads \subseteq All /\ Main \notin Threads /\ threads \in Seq(Threads)
  BY ThreadAssumption DEF IInv, TypeOK, Labels, All
<1>3. pc'[Main] \in {"deleted", "callback"} /\ \A v \in Threads : pc'[v] = pc[v]
  BY <1>1, <1>2
<1>4. \A t \in Threads : InVector(t) => t \in joined
  BY <1>1 DEF JInv, LoopCovers, StillToJoin
<1>5. crash' = "none"
  <2>1. \A i \in 1..Len(threads) : threads[i] \in Threads  BY <1>2
  <2> QED BY <1>1, <1>4, <2>1 DEF InVector
<1>6. \A t \in Threads : pc[t] \in {"none", "done"}
  BY <1>1, <1>4 DEF JInv, RunningListed
<1>7. RunningListed' /\ LoopCovers'  BY <1>3, <1>6 DEF RunningListed, LoopCovers
<1> QED BY <1>1, <1>2, <1>3, <1>5, <1>6, <1>7 DEF JInv

LEMMA NextJInv == ASSUME ~NestedLaunch PROVE IInv /\ JInv /\ [Next]_vars => JInv'
<1> SUFFICES ASSUME IInv, JInv, [Next]_vars PROVE JInv'  OBVIOUS
<1>1. CASE UNCHANGED vars
  BY <1>1 DEF vars, launchVars, joinVars, JInv, RunningListed, LoopCovers, InVector, StillToJoin
<1>2. CASE \E u \in All : PushBack(u) \/ \E t \in Threads : Launch(u, t)
  BY <1>2, PushBackJInv, LaunchJInv
<1>3. CASE \E t \in Threads : InitTLS(t) \/ DestroyTLS(t)
  BY <1>3, ThreadJInv
<1>4. CASE Join \/ Delete \/ JoinNext \/ JoinClear
  BY <1>4, BeginJoinJInv, JoinNextJInv, JoinClearJInv
<1> QED BY <1>1, <1>2, <1>3, <1>4 DEF Next, Done

\* As long as callbacks do not launch, Join never destroys a thread that runs and never
\* loses its iterator, and the manager outlives every thread, although Join takes no
\* lock (ThreadManager.cpp:48-71).
THEOREM SafeJoin == ~NestedLaunch => (Spec => []JoinSafe)
<1> SUFFICES ASSUME ~NestedLaunch PROVE Spec => []JoinSafe  OBVIOUS
<1>1. JInv => JoinSafe  BY DEF JInv, JoinSafe
<1>2. IInv /\ JInv /\ [Next]_vars => JInv'  BY NextJInv
<1>3. Init => JInv  BY InitJInv
<1> QED BY <1>1, <1>2, <1>3, Inductive, PTL DEF Spec

-----------------------------------------------------------------------------
(* CoreGlobal.                                                              *)

LEMMA StepSimulation == [GNext]_gvars => [Next]_vars
<1> SUFFICES ASSUME [GNext]_gvars PROVE [Next]_vars  OBVIOUS
<1>1. CASE UNCHANGED gvars  BY <1>1 DEF gvars
<1>2. CASE Construct \/ ConstructFails \/ EnterMain \/ Destroy \/ Ended
  BY <1>2 DEF Construct, ConstructFails, EnterMain, Destroy, Ended, gvars
<1>3. CASE \E u \in All : LaunchStep(u) \/ PushStep(u)
  BY <1>3 DEF LaunchStep, PushStep, Next
<1>4. CASE MainJoins \/ JoinStep \/ BeginDestroy
  BY <1>4 DEF MainJoins, JoinStep, BeginDestroy, Next
<1>5. CASE \E t \in Threads : ThreadStep(t)
  BY <1>5 DEF ThreadStep, Next
<1> QED BY <1>1, <1>2, <1>3, <1>4, <1>5 DEF GNext

\* The steps of the process are those of ThreadManager with more conditions, so that what is
\* proved of ThreadManager holds of the process.
LEMMA ImplementsThreadManager == GSpec => Spec
<1>1. GInit => Init  BY DEF GInit
<1> QED BY <1>1, StepSimulation, PTL DEF GSpec, Spec

\* In the whole process, from the first global to the last, ids are unique, whether or
\* not callbacks launch (ThreadManager.cpp:73-84).
THEOREM ProcessIds == GSpec => []UniqueIds
BY ImplementsThreadManager, Ids, PTL

\* In the whole process Join, also the one in the destructor, is safe, if callbacks do
\* not launch (ThreadManager.cpp:18-71).
THEOREM ProcessJoin == ~NestedLaunch => (GSpec => []JoinSafe)
<1> SUFFICES ASSUME ~NestedLaunch PROVE GSpec => []JoinSafe  OBVIOUS
<1>1. Spec => []JoinSafe  BY SafeJoin
<1> QED BY <1>1, ImplementsThreadManager, PTL

-----------------------------------------------------------------------------
\* What exists in each stage, and where main is.
GInv ==
  /\ stage \in {"constructing", "crashed"} =>
       /\ pc[Main] = "callback" /\ ~deleting
       /\ \A t \in Threads : pc[t] = "none"
  /\ stage = "constructing" =>
       /\ built \in 0..6
       /\ "GThreadManager" \in alive
       /\ \A i \in 1..built : Construction[i] \in alive
  /\ stage = "main" => Globals \subseteq alive /\ pc[Main] # "deleted" /\ ~deleting
  /\ stage = "destroying" =>
       \/ pc[Main] = "join" /\ deleting /\ Globals \subseteq alive
       \/ pc[Main] = "deleted"
  /\ stage = "exited" => pc[Main] = "deleted"
  /\ stage \in {"constructing", "crashed", "main", "destroying", "exited"}

LEMMA ConstructionLength == Len(Construction) = 6 /\ DOMAIN Construction = 1..6
BY DEF Construction

LEMMA InitGInv == GInit => GInv
<1> SUFFICES ASSUME GInit PROVE GInv  OBVIOUS
<1>1. pc[Main] = "callback" /\ \A t \in Threads : pc[t] = "none"
  BY ThreadAssumption DEF GInit, Init, All
<1> QED BY <1>1 DEF GInit, Init, GInv

LEMMA GlobalStep ==
  ASSUME GInv, Construct \/ ConstructFails \/ EnterMain \/ Destroy \/ Ended
  PROVE  GInv'
<1>1. UNCHANGED <<pc, deleting>>
  BY DEF Construct, ConstructFails, EnterMain, Destroy, Ended, gvars, vars, joinVars
<1>2. CASE Construct
  <2>1. /\ stage = "constructing" /\ stage' = stage /\ built \in 0..5
        /\ built' = built + 1 /\ alive' = alive \cup {Construction[built + 1]}
    BY <1>2, ConstructionLength DEF Construct, GInv
  <2>2. \A i \in 1..built' : Construction[i] \in alive'
    <3> TAKE i \in 1..built'
    <3>1. i \in 1..built \/ i = built + 1  BY <2>1
    <3> QED BY <3>1, <2>1 DEF GInv
  <2> QED BY <1>1, <2>1, <2>2 DEF GInv
<1>3. CASE ConstructFails  BY <1>1, <1>3 DEF ConstructFails, GInv
<1>4. CASE EnterMain
  <2>1. stage = "constructing" /\ stage' = "main" /\ built = 6 /\ alive' = alive
    BY <1>4, ConstructionLength DEF EnterMain
  <2>2. Globals \subseteq alive'
    BY <2>1, ConstructionLength DEF GInv, Globals
  <2> QED BY <1>1, <2>1, <2>2 DEF GInv
<1>5. CASE Destroy
  <2>1. stage = "destroying" /\ pc[Main] = "deleted" /\ stage' \in {"destroying", "exited"}
    BY <1>5 DEF Destroy
  <2> QED BY <1>1, <2>1 DEF GInv
<1>6. CASE Ended
  BY <1>6 DEF Ended, gvars, globalVars, vars, joinVars, GInv
<1> QED BY <1>2, <1>3, <1>4, <1>5, <1>6

\* The steps of the threads and of main that leave the globals alone.
LEMMA ManagerStep ==
  ASSUME TypeOK, GInv,
         \/ \E u \in All : LaunchStep(u) \/ PushStep(u)
         \/ MainJoins
         \/ \E t \in Threads : ThreadStep(t)
  PROVE  GInv'
<1>1. /\ pc \in [All -> Labels] /\ Main \in All /\ Threads \subseteq All /\ Main \notin Threads
  BY ThreadAssumption DEF TypeOK, Labels, All
<1>2. UNCHANGED <<stage, built, alive>>
  BY DEF LaunchStep, PushStep, MainJoins, ThreadStep, globalVars
<1>3. CASE \E u \in All : LaunchStep(u) \/ PushStep(u)
  <2>1. stage \in {"main", "destroying"} /\ deleting' = deleting
    BY <1>3 DEF LaunchStep, PushStep, MayLaunch, Launch, PushBack, joinVars
  <2>2. PICK u \in All : LaunchStep(u) \/ PushStep(u)  BY <1>3
  <2>3. pc[u] \in {"callback", "launch"}
    BY <2>2 DEF LaunchStep, PushStep, Launch, PushBack
  <2>4. CASE u = Main
    <3>1. stage = "main"  BY <2>2, <2>4 DEF LaunchStep, PushStep, MayLaunch
    <3>2. pc'[Main] # "deleted"
      BY <2>2, <2>4, <1>1 DEF LaunchStep, PushStep, Launch, PushBack
    <3> QED BY <1>2, <2>1, <3>1, <3>2 DEF GInv
  <2>5. CASE u # Main
    <3>1. pc'[Main] = pc[Main]
      BY <2>2, <2>5, <1>1 DEF LaunchStep, PushStep, Launch, PushBack
    <3> QED BY <1>2, <2>1, <3>1 DEF GInv
  <2> QED BY <2>4, <2>5
<1>4. CASE MainJoins
  <2>1. stage = "main" /\ deleting' = FALSE /\ pc' = [pc EXCEPT ![Main] = "join"]
    BY <1>4 DEF MainJoins, Join, BeginJoin
  <2> QED BY <1>1, <1>2, <2>1 DEF GInv
<1>5. CASE \E t \in Threads : ThreadStep(t)
  <2>1. PICK t \in Threads : ThreadStep(t)  BY <1>5
  <2>2. pc[t] \in {"init", "callback"} /\ deleting' = deleting /\ pc'[Main] = pc[Main]
    BY <2>1, <1>1 DEF ThreadStep, InitTLS, DestroyTLS, joinVars
  <2>3. stage \notin {"constructing", "crashed"}  BY <2>2 DEF GInv
  <2> QED BY <1>2, <2>2, <2>3 DEF GInv
<1> QED BY <1>3, <1>4, <1>5

LEMMA JoinGInv == ASSUME TypeOK, GInv, JoinStep \/ BeginDestroy PROVE GInv'
<1>1. /\ pc \in [All -> Labels] /\ Main \in All /\ Threads \subseteq All /\ Main \notin Threads
  BY ThreadAssumption DEF TypeOK, Labels, All
<1>2. CASE JoinStep
  <2>1. UNCHANGED <<stage, built, alive, deleting>>
    BY <1>2 DEF JoinStep, globalVars, JoinNext, JoinClear, joinVars
  <2>2. pc[Main] = "join"  BY <1>2 DEF JoinStep, JoinNext, JoinClear
  <2>3. stage \in {"main", "destroying"}  BY <2>2 DEF GInv
  <2>4. pc' = pc \/ pc'[Main] = IF deleting THEN "deleted" ELSE "callback"
    BY <1>2, <1>1 DEF JoinStep, JoinNext, JoinClear
  <2> QED BY <2>1, <2>2, <2>3, <2>4 DEF GInv
<1>3. CASE BeginDestroy
  <2>1. /\ stage = "main" /\ stage' = "destroying" /\ alive' = alive /\ deleting' = TRUE
        /\ pc' = [pc EXCEPT ![Main] = "join"]
    BY <1>3 DEF BeginDestroy, Delete, BeginJoin
  <2> QED BY <1>1, <2>1 DEF GInv
<1> QED BY <1>2, <1>3

LEMMA NextGInv == TypeOK /\ GInv /\ [GNext]_gvars => GInv'
<1> SUFFICES ASSUME TypeOK, GInv, [GNext]_gvars PROVE GInv'  OBVIOUS
<1>1. CASE UNCHANGED gvars
  BY <1>1 DEF gvars, globalVars, vars, joinVars, GInv
<1>2. CASE GNext
  BY <1>2, GlobalStep, ManagerStep, JoinGInv DEF GNext
<1> QED BY <1>1, <1>2

\* No callback runs before all globals and bound functions exist or after one of them
\* is gone, as long as callbacks do not launch (CoreGlobal.cpp:18-32).
THEOREM Outlived == ~NestedLaunch => (GSpec => []GlobalsOutlive)
<1> SUFFICES ASSUME ~NestedLaunch PROVE GSpec => []GlobalsOutlive  OBVIOUS
<1>1. GSpec => []TypeOK  BY ImplementsThreadManager, Typing, PTL
<1>2. GSpec => []JoinSafe  BY ProcessJoin
<1>3. GInv /\ JoinSafe => GlobalsOutlive
  BY DEF GInv, JoinSafe, GlobalsOutlive
<1> QED BY <1>1, <1>2, <1>3, InitGInv, NextGInv, PTL DEF GSpec
=============================================================================
