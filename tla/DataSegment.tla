----------------------------- MODULE DataSegment -----------------------------
(***************************************************************************)
(* The simulated data segment of PA3 (src/PA3/src/dataseg.c): a region of  *)
(* MaxHeapSize bytes and a break that ds_sbrk moves inside it.  Addresses  *)
(* are in bytes; memory is read and written in words of TYPE_SIZE bytes.   *)
(***************************************************************************)
EXTENDS Integers

CONSTANTS ds_heap_start,   \* where ds_allocate placed the heap
          MaxHeapSize      \* max_heap_size of ds_allocate

TYPE_SIZE == 8

ASSUME SegmentAssumption ==
  /\ ds_heap_start \in Nat \ {0} /\ ds_heap_start % TYPE_SIZE = 0
  /\ MaxHeapSize \in Nat \ {0} /\ MaxHeapSize % TYPE_SIZE = 0

ds_heap_end == ds_heap_start + MaxHeapSize

\* The break after ds_sbrk(increment), and whether the call succeeds: a break
\* outside the segment is refused and leaves everything as it was.
SbrkFits(brk, increment) ==
  /\ ds_heap_start <= brk + increment
  /\ brk + increment < ds_heap_end

ds_sbrk(brk, increment) ==
  IF SbrkFits(brk, increment) THEN brk + increment ELSE brk
=============================================================================
