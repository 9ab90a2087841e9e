--------------------------- MODULE AllocatorSpec ----------------------------
(***************************************************************************)
(* What Memory (ServerCore/Memory.h) promises the program: a thread asks    *)
(* for bytes and gets a block that nobody has, with room for them and for   *)
(* the header; the block is left alone until it is released.  Pools, lists  *)
(* and marks are not part of the promise.                                   *)
(***************************************************************************)
EXTENDS Naturals

CONSTANTS
  Threads,    \* the threads
  Blocks,     \* the blocks
  Sizes,      \* the sizes asked for
  Rooms,      \* the sizes blocks have
  HeaderSize  \* what a block holds besides the data

VARIABLES
  asked,  \* asked[t], for the threads in Allocate: the size asked for
  given,  \* given[b], for the blocks the program has: the size asked for and the room
  crash   \* "none", or what ended the process

specVars == <<asked, given, crash>>

With(f, x, value) == [y \in DOMAIN f \cup {x} |-> IF y = x THEN value ELSE f[y]]
Without(f, x)     == [y \in DOMAIN f \ {x} |-> f[y]]

Ask(t, n) ==
  /\ crash = "none"
  /\ t \notin DOMAIN asked
  /\ asked' = With(asked, t, n)
  /\ UNCHANGED <<given, crash>>

Give(t, b) ==
  /\ crash = "none"
  /\ t \in DOMAIN asked
  /\ b \notin DOMAIN given
  /\ \E r \in Rooms :
       /\ r >= asked[t] + HeaderSize
       /\ given' = With(given, b, [size |-> asked[t], room |-> r])
  /\ asked' = Without(asked, t)
  /\ UNCHANGED crash

TakeBack(b) ==
  /\ crash = "none"
  /\ b \in DOMAIN given
  /\ given' = Without(given, b)
  /\ UNCHANGED <<asked, crash>>

\* The system is out of memory, which Allocate does not check.
OutOfMemory ==
  /\ crash = "none"
  /\ crash' = "null header"
  /\ UNCHANGED <<asked, given>>

SpecInit == DOMAIN asked = {} /\ DOMAIN given = {} /\ crash = "none"

SpecNext ==
  \/ \E t \in Threads :
       \/ \E n \in Sizes : Ask(t, n)
       \/ \E b \in Blocks : Give(t, b)
  \/ \E b \in Blocks : TakeBack(b)
  \/ OutOfMemory

Spec == SpecInit /\ [][SpecNext]_specVars
=============================================================================
