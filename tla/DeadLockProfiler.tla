-------------------------- MODULE DeadLockProfiler --------------------------
(***************************************************************************)
(* class DeadLockProfiler (ServerCore/DeadLockProfiler.cpp), called by the  *)
(* debug build of Lock before it acquires and before it releases.           *)
(*                                                                          *)
(* One GDeadLockProfiler serves all threads.  PushLock and PopLock run      *)
(* under its mutex, so each is one step.  CheckCycle's verdict is HasCycle; *)
(* CheckCycle.tla shows that the depth-first search computes it.  _idToName *)
(* inverts _nameToId and is only printed.                                   *)
(***************************************************************************)
EXTENDS Integers, Sequences, FiniteSets, LockGraph

CONSTANTS Names   \* the typeid(this).name() strings given to the guards

VARIABLES
  nameToId,     \* _nameToId: NoId for a name that has not been seen
  lockStack,    \* _lockStack, top last
  lockHistory,  \* _lockHistory: <<a, b>> if b is in _lockHistory[a]
  crash         \* "none", or the cause given to the CRASH macro

profilerVars == <<nameToId, lockStack, lockHistory>>

NoId == -1

LockCount(ids) == Cardinality({n \in Names : ids[n] # NoId})
Ids(ids)       == 0..(LockCount(ids) - 1)

ProfilerInit ==
  /\ nameToId = [n \in Names |-> NoId]
  /\ lockStack = <<>>
  /\ lockHistory = {}

\* The edge from the lock on top of the stack, if there is one to record.
NewEdge(id) ==
  IF lockStack = <<>> \/ lockStack[Len(lockStack)] = id
    THEN {}
    ELSE {<<lockStack[Len(lockStack)], id>>} \ lockHistory

\* CheckCycle run on the graph without the edge just found.
PushLock_CheckFirst(n) ==
  LET id == IF nameToId[n] = NoId THEN LockCount(nameToId) ELSE nameToId[n]
  IN  /\ nameToId' = [nameToId EXCEPT ![n] = id]
      /\ lockHistory' = lockHistory \cup NewEdge(id)
      /\ IF NewEdge(id) # {} /\ HasCycle(lockHistory, Ids(nameToId'))
           THEN crash' = "DEADLOCK_DETECTED" /\ UNCHANGED lockStack
           ELSE lockStack' = Append(lockStack, id) /\ UNCHANGED crash

PushLock(n) ==
  LET id == IF nameToId[n] = NoId THEN LockCount(nameToId) ELSE nameToId[n]
  IN  /\ nameToId' = [nameToId EXCEPT ![n] = id]
      /\ lockHistory' = lockHistory \cup NewEdge(id)
      /\ IF NewEdge(id) # {} /\ HasCycle(lockHistory', Ids(nameToId'))
           THEN crash' = "DEADLOCK_DETECTED" /\ UNCHANGED lockStack
           ELSE lockStack' = Append(lockStack, id) /\ UNCHANGED crash

\* A pop that takes whatever is on top.
PopLock_Unchecked(n) ==
  /\ IF lockStack = <<>>
       THEN crash' = "MULTIPLE UNLOCK" /\ UNCHANGED lockStack
       ELSE /\ lockStack' = SubSeq(lockStack, 1, Len(lockStack) - 1)
            /\ UNCHANGED crash
  /\ UNCHANGED <<nameToId, lockHistory>>

\* _nameToId[name] inserts id 0 for a name that has not been seen.
PopLock(n) ==
  LET id == IF nameToId[n] = NoId THEN 0 ELSE nameToId[n]
  IN  /\ IF lockStack = <<>>
           THEN crash' = "MULTIPLE UNLOCK" /\ UNCHANGED <<nameToId, lockStack>>
           ELSE /\ nameToId' = [nameToId EXCEPT ![n] = id]
                /\ IF id # lockStack[Len(lockStack)]
                     THEN crash' = "INVALID_UNLOCK" /\ UNCHANGED lockStack
                     ELSE /\ lockStack' = SubSeq(lockStack, 1, Len(lockStack) - 1)
                          /\ UNCHANGED crash
      /\ UNCHANGED lockHistory
=============================================================================
