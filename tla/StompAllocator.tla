--------------------------- MODULE StompAllocator ---------------------------
(***************************************************************************)
(* The addresses of the _STOMP build: StompAllocator (ServerCore/           *)
(* Allocator.cpp) gives every block pages of its own and puts it at their   *)
(* end, so that a write beyond the block leaves the pages; Memory puts its  *)
(* header in front.  base stands for the result of VirtualAlloc, the start  *)
(* of a page.  Sizes are far enough from 2^31 for int32 arithmetic.         *)
(***************************************************************************)
EXTENDS Integers

CONSTANT PAGE_SIZE   \* 0x1000

ASSUME PageAssumption == PAGE_SIZE \in Nat \ {0}

\* Alloc
PageCount(size)        == (size + PAGE_SIZE - 1) \div PAGE_SIZE
DataOffset(size)       == PageCount(size) * PAGE_SIZE - size
StompAlloc(base, size) == base + DataOffset(size)

\* Release: the address given to VirtualFree, which wants the one VirtualAlloc gave.
StompRelease(address) == address - (address % PAGE_SIZE)

\* The end of the pages reserved for a block.
RegionEnd(base, size) == base + PageCount(size) * PAGE_SIZE

\* Memory::Allocate, and the address Memory::Release frees, with a header of h bytes.
MemoryAllocate(base, size, h) == StompAlloc(base, size + h) + h
MemoryRelease(ptr, h)         == StompRelease(ptr - h)

IsPage(base) == base \in Nat /\ \E n \in Nat : base = PAGE_SIZE * n

-----------------------------------------------------------------------------
\* What StompAllocator is for: the block ends where its pages end and does not begin
\* before them, and Release, which knows the block's address only, frees these pages.
BlockFits(base, size) ==
  /\ StompAlloc(base, size) >= base
  /\ StompAlloc(base, size) + size = RegionEnd(base, size)
  /\ StompRelease(StompAlloc(base, size)) = base

\* The same for a block of Memory, whose header may itself be on another page than the
\* data, or fill a page exactly.
MemoryFits(base, size, h) ==
  /\ MemoryAllocate(base, size, h) - h >= base
  /\ MemoryAllocate(base, size, h) + size = RegionEnd(base, size + h)
  /\ MemoryRelease(MemoryAllocate(base, size, h), h) = base

\* No page more than the block needs.
NoSparePage(size) == PAGE_SIZE * (PageCount(size) - 1) < size
=============================================================================
