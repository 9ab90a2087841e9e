----------------------------- MODULE StackSpec ------------------------------
(***************************************************************************)
(* What the SList functions of GameServer/LockFreeStack promise: a stack of *)
(* entries that threads push and pop in single steps, every entry being on  *)
(* the stack or in the hands of one thread.                                 *)
(***************************************************************************)
EXTENDS Sequences

CONSTANTS Threads

VARIABLES stack,  \* the entries on the stack, top first
          hand    \* hand[t]: the entries thread t has

specVars == <<stack, hand>>

Push(t, e) ==
  /\ e \in hand[t]
  /\ stack' = <<e>> \o stack
  /\ hand' = [hand EXCEPT ![t] = @ \ {e}]

Pop(t) ==
  /\ stack # <<>>
  /\ stack' = Tail(stack)
  /\ hand' = [hand EXCEPT ![t] = @ \cup {Head(stack)}]

SpecInit == stack = <<>> /\ \A t, u \in Threads : t # u => hand[t] \cap hand[u] = {}

SpecNext == \E t \in Threads : Pop(t) \/ \E e \in hand[t] : Push(t, e)

Spec == SpecInit /\ [][SpecNext]_specVars
=============================================================================
