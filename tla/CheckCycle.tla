----------------------------- MODULE CheckCycle -----------------------------
(***************************************************************************)
(* DeadLockProfiler::CheckCycle and Dfs (ServerCore/DeadLockProfiler.cpp),  *)
(* one call of CheckCycle from its first line to its return or its CRASH.   *)
(*                                                                          *)
(* The recursion is a sequence of frames, innermost last; a frame has the   *)
(* node and the successors its loop has not reached.  The call runs under   *)
(* the profiler's mutex, so nothing else moves.                             *)
(***************************************************************************)
EXTENDS Integers, Sequences, FiniteSets, LockGraph

CONSTANTS LockCount   \* _nameToId.size(): the ids are 0..LockCount-1

ASSUME LockCountAssumption == LockCount \in Nat

Ids    == 0..(LockCount - 1)
NoNode == -1

VARIABLES
  history,          \* _lockHistory, as a set of edges
  frames,           \* the activations of Dfs
  lockId,           \* the loop variable of CheckCycle
  discoveredOrder,  \* _discoveredOrder, -1 for a node not reached
  discoveredCount,  \* _discoveredCount
  finished,         \* _finished
  parent,           \* _parent, -1 for a root
  status,           \* "search", "trace" (printing a cycle), "crash",
                    \* "return" or "out of bounds"
  now,              \* the local now of the printing loop
  target,           \* the local there at which the printing loop ends
  printed           \* the edges printed, in the order of their printing

vars == <<history, frames, lockId, discoveredOrder, discoveredCount, finished,
          parent, status, now, target, printed>>

Edges == {e \in Ids \X Ids : e[1] # e[2]}

\* PushLock calls CheckCycle for a new edge of a history that had no cycle: a
\* cycle would have crashed the process.
Init ==
  /\ \E E \in SUBSET Edges : \E e \in Edges \ E :
       ~HasCycle(E, Ids) /\ history = E \cup {e}
  /\ frames = <<>>
  /\ lockId = 0
  /\ discoveredOrder = [n \in Ids |-> -1]
  /\ discoveredCount = 0
  /\ finished = [n \in Ids |-> FALSE]
  /\ parent = [n \in Ids |-> NoNode]
  /\ status = "search"
  /\ now = NoNode
  /\ target = NoNode
  /\ printed = <<>>

Successors(n) == {m \in Ids : <<n, m>> \in history}
Frame(n)      == [here |-> n, rest |-> Successors(n)]
Top           == frames[Len(frames)]
Least(S)      == CHOOSE n \in S : \A m \in S : n <= m

\* The stack of frames whose innermost one has passed node n.
Passed(n) == [frames EXCEPT ![Len(frames)].rest = @ \ {n}]

\* ++_discoveredCount for _discoveredCount++.
Discover_PreIncrement(n, stack) ==
  /\ discoveredOrder' = [discoveredOrder EXCEPT ![n] = discoveredCount + 1]
  /\ discoveredCount' = discoveredCount + 1
  /\ IF Successors(n) = {}
       THEN finished' = [finished EXCEPT ![n] = TRUE] /\ frames' = stack
       ELSE frames' = Append(stack, Frame(n)) /\ UNCHANGED finished

\* The first lines of Dfs(n), for a node not reached before; stack is the
\* stack of its callers.  A node without successors returns at once.
Discover(n, stack) ==
  /\ discoveredOrder' = [discoveredOrder EXCEPT ![n] = discoveredCount]
  /\ discoveredCount' = discoveredCount + 1
  /\ IF Successors(n) = {}
       THEN finished' = [finished EXCEPT ![n] = TRUE] /\ frames' = stack
       ELSE frames' = Append(stack, Frame(n)) /\ UNCHANGED finished

\* The loop of CheckCycle.
Root ==
  /\ status = "search"
  /\ frames = <<>>
  /\ lockId < LockCount
  /\ IF discoveredOrder[lockId] # -1
       THEN UNCHANGED <<discoveredOrder, discoveredCount, finished, frames>>
       ELSE Discover(lockId, <<>>)
  /\ lockId' = lockId + 1
  /\ UNCHANGED <<history, parent, status, now, target, printed>>

\* The loop of Dfs is over, and the activation with it.
Finish ==
  /\ status = "search"
  /\ frames # <<>>
  /\ Top.rest = {}
  /\ finished' = [finished EXCEPT ![Top.here] = TRUE]
  /\ frames' = SubSeq(frames, 1, Len(frames) - 1)
  /\ UNCHANGED <<history, lockId, discoveredOrder, discoveredCount, parent, status,
                 now, target, printed>>

\* An iteration of the loop of Dfs, in the ascending order of set<int32>: there
\* has not been reached, ...
Descend ==
  /\ status = "search"
  /\ frames # <<>>
  /\ Top.rest # {}
  /\ LET there == Least(Top.rest)
     IN  /\ discoveredOrder[there] = -1
         /\ parent' = [parent EXCEPT ![there] = Top.here]
         /\ Discover(there, Passed(there))
  /\ UNCHANGED <<history, lockId, status, now, target, printed>>

\* An iteration that does not advance.
Skip_Stay ==
  /\ status = "search"
  /\ frames # <<>>
  /\ Top.rest # {}
  /\ discoveredOrder[Least(Top.rest)] # -1
  /\ UNCHANGED vars

\* ... or has been: a descendant, or a node of a finished part ...
Skip ==
  /\ status = "search"
  /\ frames # <<>>
  /\ Top.rest # {}
  /\ LET there == Least(Top.rest)
     IN  /\ discoveredOrder[there] # -1
         /\ \/ discoveredOrder[Top.here] < discoveredOrder[there]
            \/ finished[there]
         /\ frames' = Passed(there)
  /\ UNCHANGED <<history, lockId, discoveredOrder, discoveredCount, finished, parent,
                 status, now, target, printed>>

\* A search that forgets which nodes are finished.
BackEdge_NotFinished ==
  /\ status = "search"
  /\ frames # <<>>
  /\ Top.rest # {}
  /\ LET there == Least(Top.rest)
     IN  /\ discoveredOrder[there] # -1
         /\ discoveredOrder[Top.here] > discoveredOrder[there]
         /\ now' = Top.here
         /\ target' = there
         /\ printed' = <<<<Top.here, there>>>>
  /\ status' = "trace"
  /\ UNCHANGED <<history, frames, lockId, discoveredOrder, discoveredCount, finished,
                 parent>>

\* ... or an ancestor: a cycle.
BackEdge ==
  /\ status = "search"
  /\ frames # <<>>
  /\ Top.rest # {}
  /\ LET there == Least(Top.rest)
     IN  /\ discoveredOrder[there] # -1
         /\ ~(discoveredOrder[Top.here] < discoveredOrder[there])
         /\ ~finished[there]
         /\ now' = Top.here
         /\ target' = there
         /\ printed' = <<<<Top.here, there>>>>
  /\ status' = "trace"
  /\ UNCHANGED <<history, frames, lockId, discoveredOrder, discoveredCount, finished,
                 parent>>

\* A printing loop that goes on to the root of the search.
Trace_ToTheRoot ==
  /\ status = "trace"
  /\ IF parent[now] = NoNode
       THEN status' = "crash" /\ UNCHANGED <<now, printed>>
       ELSE /\ printed' = Append(printed, <<parent[now], now>>)
            /\ now' = parent[now]
            /\ UNCHANGED status
  /\ UNCHANGED <<history, frames, lockId, discoveredOrder, discoveredCount, finished,
                 parent, target>>

\* An iteration of the printing loop.  Beyond a root it reads _parent[-1].
Trace ==
  /\ status = "trace"
  /\ IF parent[now] = NoNode
       THEN status' = "out of bounds" /\ UNCHANGED <<now, printed>>
       ELSE /\ printed' = Append(printed, <<parent[now], now>>)
            /\ now' = parent[now]
            /\ status' = IF now' = target THEN "crash" ELSE "trace"
  /\ UNCHANGED <<history, frames, lockId, discoveredOrder, discoveredCount, finished,
                 parent, target>>

\* CheckCycle clears its vectors and returns.
Return ==
  /\ status = "search"
  /\ frames = <<>>
  /\ lockId = LockCount
  /\ status' = "return"
  /\ discoveredOrder' = <<>> /\ finished' = <<>> /\ parent' = <<>>
  /\ UNCHANGED <<history, frames, lockId, discoveredCount, now, target, printed>>

Next == Root \/ Finish \/ Descend \/ Skip \/ BackEdge \/ Trace \/ Return

Spec     == Init /\ [][Next]_vars
FairSpec == Spec /\ WF_vars(Next)

-----------------------------------------------------------------------------
TypeOK ==
  /\ history \subseteq Edges
  /\ frames \in Seq([here : Ids, rest : SUBSET Ids])
  /\ lockId \in 0..LockCount
  /\ discoveredCount \in 0..LockCount
  /\ status \in {"search", "trace", "crash", "return", "out of bounds"}
  /\ status # "return" =>
       /\ discoveredOrder \in [Ids -> -1..(LockCount - 1)]
       /\ finished \in [Ids -> BOOLEAN]
       /\ parent \in [Ids -> Ids \cup {NoNode}]
  /\ now \in Ids \cup {NoNode} /\ target \in Ids \cup {NoNode}
  /\ printed \in Seq(Ids \X Ids)

\* CheckCycle reports a cycle if the history has one, and returns if it has none.
ExactVerdict ==
  /\ status \in {"trace", "crash", "out of bounds"} => HasCycle(history, Ids)
  /\ status = "return" => ~HasCycle(history, Ids)

\* What it prints before the CRASH is one cycle of the history: edges of the history, no
\* two from one lock, each of them after the first ending where the one before it starts,
\* and the first where the last one starts.  The walk along _parent that finds them never
\* leaves the vector.
PrintsACycle ==
  /\ status # "out of bounds"
  /\ status = "crash" =>
       LET n == Len(printed)
       IN  /\ n > 0
           /\ \A i \in 1..n : printed[i] \in history
           /\ \A i \in 1..n : printed[i][2] = printed[IF i = 1 THEN n ELSE i - 1][1]
           /\ \A i, j \in 1..n : i # j => printed[i][1] # printed[j][1]

\* CheckCycle ends.
Ends == <>(status \in {"crash", "return"})
=============================================================================
