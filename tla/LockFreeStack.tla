--------------------------- MODULE LockFreeStack ----------------------------
(***************************************************************************)
(* PushEntrySList and PopEntrySList of GameServer/LockFreeStack.cpp.        *)
(*                                                                          *)
(* expected = *header copies 16 bytes that other threads change with a      *)
(* 16-byte compare-exchange: the two halves (alignment: depth and sequence; *)
(* region: next) are read one after the other, in either order.             *)
(* entry->next is read from an entry that another thread may have popped    *)
(* and reused: then it may have any value.  Entries stay mapped.            *)
(*                                                                          *)
(* stack is a history variable: what the stack would be if every successful *)
(* compare-exchange were a push or a pop.                                   *)
(***************************************************************************)
EXTENDS Integers, Sequences, FiniteSets

CONSTANTS
  Threads,    \* the threads
  Entries,    \* the SListEntry objects
  Null,       \* nullptr
  DepthSpan,  \* 2^16: HeaderX64.depth is 16 bits wide
  SeqSpan,    \* 2^48: HeaderX64.sequence is 48 bits wide
  MaxCalls    \* bound: calls of Push and Pop in a run

ASSUME NullAssumption == Null \notin Entries
ASSUME SpanAssumption ==
  /\ DepthSpan \in Nat \ {0} /\ SeqSpan \in Nat
  /\ MaxCalls \in Nat /\ MaxCalls < SeqSpan

VARIABLES
  header,    \* [depth, sequence, next]
  next,      \* next[e]: SListEntry::next
  pc,        \* pc[t]: where thread t is
  op,        \* op[t]: "push" or "pop", the call thread t is in
  entry,     \* entry[t]: the parameter of Push, the local of Pop
  expected,  \* expected[t]: the copy of the header
  toCopy,    \* toCopy[t]: the halves of the header not copied yet
  link,      \* link[t]: the next that Pop read from the entry
  began,     \* began[t]: header.sequence when the iteration began (history)
  hand,      \* hand[t]: the entries that belong to thread t
  stack,     \* the entries on the stack, top first (history)
  calls      \* number of calls made

vars == <<header, next, pc, op, entry, expected, toCopy, link, began, hand, stack, calls>>

Abs == INSTANCE StackSpec WITH stack <- stack, hand <- hand

Halves   == {"alignment", "region"}
NoHeader == [depth |-> 0, sequence |-> 0, next |-> Null]

\* InitializeHead, and entries that belong to some thread each.
Init ==
  /\ header = NoHeader
  /\ next \in [Entries -> {Null}]
  /\ pc = [t \in Threads |-> "idle"]
  /\ op = [t \in Threads |-> "push"]
  /\ entry = [t \in Threads |-> Null]
  /\ expected = [t \in Threads |-> NoHeader]
  /\ toCopy = [t \in Threads |-> {}]
  /\ link = [t \in Threads |-> Null]
  /\ began = [t \in Threads |-> 0]
  /\ \E owner \in [Entries -> Threads] :
       hand = [t \in Threads |-> {e \in Entries : owner[e] = t}]
  /\ stack = <<>>
  /\ calls = 0

\* The head of the loop of either function.
Iterate(t) ==
  /\ pc' = [pc EXCEPT ![t] = "copy"]
  /\ toCopy' = [toCopy EXCEPT ![t] = Halves]
  /\ began' = [began EXCEPT ![t] = header.sequence]

Push(t, e) ==
  /\ pc[t] = "idle"
  /\ calls < MaxCalls
  /\ e \in hand[t]
  /\ Iterate(t)
  /\ op' = [op EXCEPT ![t] = "push"]
  /\ entry' = [entry EXCEPT ![t] = e]
  /\ calls' = calls + 1
  /\ UNCHANGED <<header, next, expected, link, hand, stack>>

Pop(t) ==
  /\ pc[t] = "idle"
  /\ calls < MaxCalls
  /\ Iterate(t)
  /\ op' = [op EXCEPT ![t] = "pop"]
  /\ entry' = [entry EXCEPT ![t] = Null]
  /\ calls' = calls + 1
  /\ UNCHANGED <<header, next, expected, link, hand, stack>>

\* One half of expected = *header.
Copy(t, half) ==
  /\ pc[t] = "copy"
  /\ half \in toCopy[t]
  /\ expected' = [expected EXCEPT ![t] =
       IF half = "region"
         THEN [@ EXCEPT !.next = header.next]
         ELSE [@ EXCEPT !.depth = header.depth, !.sequence = header.sequence]]
  /\ toCopy' = [toCopy EXCEPT ![t] = @ \ {half}]
  /\ pc' = [pc EXCEPT ![t] = IF toCopy[t] = {half} THEN "link" ELSE "copy"]
  /\ UNCHANGED <<header, next, op, entry, link, began, hand, stack, calls>>

\* The entry is pushed with the link it had.
PushLink_Missing(t) ==
  /\ pc[t] = "link" /\ op[t] = "push"
  /\ pc' = [pc EXCEPT ![t] = "cas"]
  /\ UNCHANGED <<header, next, op, entry, expected, toCopy, link, began, hand, stack, calls>>

\* entry->next = expected.next.
PushLink(t) ==
  /\ pc[t] = "link" /\ op[t] = "push"
  /\ next' = [next EXCEPT ![entry[t]] = expected[t].next]
  /\ pc' = [pc EXCEPT ![t] = "cas"]
  /\ UNCHANGED <<header, op, entry, expected, toCopy, link, began, hand, stack, calls>>

\* The stack is empty: Pop returns nullptr.
PopEmpty(t) ==
  /\ pc[t] = "link" /\ op[t] = "pop"
  /\ expected[t].next = Null
  /\ entry' = [entry EXCEPT ![t] = Null]
  /\ pc' = [pc EXCEPT ![t] = "idle"]
  /\ UNCHANGED <<header, next, op, expected, toCopy, link, began, hand, stack, calls>>

\* entry->next, of an entry that may be in the hands of another thread.
PopLink(t) ==
  /\ pc[t] = "link" /\ op[t] = "pop"
  /\ expected[t].next # Null
  /\ entry' = [entry EXCEPT ![t] = expected[t].next]
  /\ \E x \in IF \E u \in Threads : expected[t].next \in hand[u]
                THEN Entries \cup {Null}
                ELSE {next[expected[t].next]} :
       link' = [link EXCEPT ![t] = x]
  /\ pc' = [pc EXCEPT ![t] = "cas"]
  /\ UNCHANGED <<header, next, op, expected, toCopy, began, hand, stack, calls>>

\* A depth wider than its field.
Desired_Wide(t) ==
  [depth    |-> expected[t].depth + (IF op[t] = "push" THEN 1 ELSE -1),
   sequence |-> (expected[t].sequence + 1) % SeqSpan,
   next     |-> IF op[t] = "push" THEN entry[t] ELSE link[t]]

\* The operation is not counted: the header can return to an earlier value.
Desired_SameSequence(t) ==
  [depth    |-> (expected[t].depth + (IF op[t] = "push" THEN 1 ELSE -1)) % DepthSpan,
   sequence |-> expected[t].sequence,
   next     |-> IF op[t] = "push" THEN entry[t] ELSE link[t]]

\* The header each function wants to install.
Desired(t) ==
  [depth    |-> (expected[t].depth + (IF op[t] = "push" THEN 1 ELSE -1)) % DepthSpan,
   sequence |-> (expected[t].sequence + 1) % SeqSpan,
   next     |-> IF op[t] = "push" THEN entry[t] ELSE link[t]]

\* InterlockedCompareExchange128 succeeds and the call returns, ...
Succeed(t) ==
  /\ pc[t] = "cas"
  /\ header = expected[t]
  /\ header' = Desired(t)
  /\ pc' = [pc EXCEPT ![t] = "idle"]
  /\ \/ /\ op[t] = "push"
        /\ stack' = <<entry[t]>> \o stack
        /\ hand' = [hand EXCEPT ![t] = @ \ {entry[t]}]
     \/ /\ op[t] = "pop"
        /\ stack' = IF stack = <<>> THEN <<>> ELSE Tail(stack)
        /\ hand' = [hand EXCEPT ![t] = @ \cup {entry[t]}]
  /\ UNCHANGED <<next, op, entry, expected, toCopy, link, began, calls>>

\* The loop starts again without reading the header again.
Fail_NoReload(t) ==
  /\ pc[t] = "cas"
  /\ header # expected[t]
  /\ pc' = [pc EXCEPT ![t] = "link"]
  /\ began' = [began EXCEPT ![t] = header.sequence]
  /\ UNCHANGED <<header, next, op, entry, expected, toCopy, link, hand, stack, calls>>

\* ... or fails and the loop starts again.
Fail(t) ==
  /\ pc[t] = "cas"
  /\ header # expected[t]
  /\ Iterate(t)
  /\ UNCHANGED <<header, next, op, entry, expected, link, hand, stack, calls>>

\* MaxCalls calls have been made and all have returned.
Done ==
  /\ calls = MaxCalls
  /\ \A t \in Threads : pc[t] = "idle"
  /\ UNCHANGED vars

Next ==
  \/ \E t \in Threads :
       \/ \E e \in hand[t] : Push(t, e)
       \/ Pop(t)
       \/ \E half \in Halves : Copy(t, half)
       \/ PushLink(t)
       \/ PopEmpty(t)
       \/ PopLink(t)
       \/ Succeed(t)
       \/ Fail(t)
  \/ Done

Spec == Init /\ [][Next]_vars

-----------------------------------------------------------------------------
HeaderType ==
  [depth : 0..(DepthSpan - 1), sequence : 0..(SeqSpan - 1), next : Entries \cup {Null}]

TypeOK ==
  /\ header \in HeaderType
  /\ next \in [Entries -> Entries \cup {Null}]
  /\ pc \in [Threads -> {"idle", "copy", "link", "cas"}]
  /\ op \in [Threads -> {"push", "pop"}]
  /\ entry \in [Threads -> Entries \cup {Null}]
  /\ expected \in [Threads -> HeaderType]
  /\ toCopy \in [Threads -> SUBSET Halves]
  /\ link \in [Threads -> Entries \cup {Null}]
  /\ began \in [Threads -> 0..(SeqSpan - 1)]
  /\ hand \in [Threads -> SUBSET Entries]
  /\ stack \in Seq(Entries)
  /\ calls \in 0..MaxCalls

\* The list in memory is the stack: its head is in the header, every entry
\* links to the one below, and depth is its length, cut to 16 bits.
ListIsStack ==
  /\ header.next = IF stack = <<>> THEN Null ELSE stack[1]
  /\ \A i \in 1..Len(stack) :
       next[stack[i]] = IF i = Len(stack) THEN Null ELSE stack[i + 1]
  /\ header.depth = Len(stack) % DepthSpan

\* Every entry is on the stack once or in the hands of one thread: none is lost
\* and Pop never gives one to two threads.
OneOwner ==
  \A e \in Entries :
    Cardinality({i \in 1..Len(stack) : stack[i] = e})
      + Cardinality({t \in Threads : e \in hand[t]}) = 1

\* Lock freedom: a thread goes round its loop again only if another one has
\* completed an operation meanwhile.  A copy whose halves belong to different
\* headers is no exception.
RetryMeansProgress ==
  \A t \in Threads :
    pc[t] = "cas" /\ header # expected[t] => header.sequence # began[t]

\* Push and Pop take effect in one step each, as pushes and pops of a stack.
Refines == Abs!Spec
=============================================================================
