----------------------------- MODULE LockGraph ------------------------------
(***************************************************************************)
(* Directed graphs as sets of edges: what DeadLockProfiler::CheckCycle      *)
(* decides, stated without an algorithm.                                    *)
(***************************************************************************)

\* The finite graph with edges E on the nodes N has a cycle iff some of its
\* nodes each have a successor among themselves.
HasCycle(E, N) ==
  \E S \in (SUBSET N) \ {{}} : \A a \in S : \E b \in S : <<a, b>> \in E
=============================================================================
