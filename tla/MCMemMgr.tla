------------------------------- MODULE MCMemMgr -------------------------------
(* Instances of MemMgr for TLC.                                            *)
EXTENDS MemMgrAllocator, TLC

CONSTANTS p1, p2, p3

\* The client treats its slots alike, and each has its own fill value.
Symmetry == Permutations(Slot)

\* A word that is read before it is written: a tag or a list pointer of a
\* block, a list head, a word the client may read in its region, the header in
\* front of the pointer freed last.  What a free block has elsewhere, and what
\* lies behind the break, is written before it is read.
Read ==
  LET blocks == AllBlocks
      free_blocks == {b \in blocks : GET_STATUS(heap, b) = FREE}
      tags == blocks \cup {HDR2FTR(heap, b) : b \in blocks}
      listed == free_blocks \cup {first, last}
      pointers == {NEXT_PTR(b) : b \in listed} \cup {NEXT_NEXT_PTR(b) : b \in listed}
      payloads == UNION {Within(at[s], len[s]) : s \in {t \in Slot : at[t] # NULL}}
  IN  tags \cup payloads \cup (IF heap.policy = "fp_Explicit" THEN pointers ELSE {})
        \cup {PREV_PTR(heap_start), heap.heap_end} \cup ({PREV_PTR(stale)} \cap Address)

\* States that differ in other words only have the same future.
View == LET read == Read
        IN  <<[heap EXCEPT !.mem = [a \in read |-> heap.mem[a]]], at, len, stale>>
=============================================================================
