--------------------------- MODULE MemMgrAllocator ---------------------------
(* The memory manager implements the allocator: the refinement mapping.    *)
EXTENDS MemMgr

\* The words that lie in the n bytes from p on.
Region(h, p, n) == [i \in 0..(n \div TYPE_SIZE) - 1 |-> h.mem[p + i * TYPE_SIZE]]

\* What each slot's region holds.
Content == [s \in Slot |-> IF at[s] = NULL THEN <<>> ELSE Region(heap, at[s], len[s])]

Allocator == INSTANCE Allocator WITH
  content <- Content, top <- heap.heap_end, Wordsize <- TYPE_SIZE

\* Every call does to the regions of the client what the README promises, and
\* to no region of another slot anything at all.
ImplementsAllocator == Allocator!AllocSpec
=============================================================================
