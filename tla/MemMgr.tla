-------------------------------- MODULE MemMgr --------------------------------
(***************************************************************************)
(* The dynamic memory manager of PA3 (src/PA3/src/memmgr.c) with a client  *)
(* that calls it.  The heap is a map from word addresses to words, and the *)
(* routines work on it with the macros of the source: a block is a header, *)
(* a payload and a footer, a free block of the explicit policy keeps two   *)
(* list pointers in its payload, and what a routine does not write stays.  *)
(* The routines are operators from heap to heap, and one action is one     *)
(* call of the API.                                                        *)
(***************************************************************************)
EXTENDS DataSegment, Sequences, FiniteSets

CONSTANTS Slot,          \* the client's variables of pointer type
          Size,          \* sizes the client asks for, in bytes
          Count,         \* numbers of elements it passes to mm_calloc
          CHUNKSIZE,     \* least growth of the heap
          SHRINKTHLD,    \* how much the heap shrinks at a time
          SIZE_MOD,      \* size_t is computed modulo this
          Policies       \* the policies mm_init is called with

BS == 32                 \* minimal block size and alignment
ALLOC == 1
FREE == 0
NULL == 0

\* The list heads, two structures outside the heap.
first == 32
last == 64

Align(a) == (a \div BS) * BS

ASSUME MemMgrAssumption ==
  /\ ds_heap_start % BS = 0 /\ ds_heap_start > last
  /\ CHUNKSIZE \in Nat /\ CHUNKSIZE % BS = 0
  /\ SHRINKTHLD \in Nat /\ SHRINKTHLD % BS = 0
  /\ CHUNKSIZE > 2 * BS /\ SHRINKTHLD > 0 /\ CHUNKSIZE < MaxHeapSize
  /\ Size \subseteq Nat /\ Count \subseteq Nat
  /\ SIZE_MOD \in Nat /\ SIZE_MOD % BS = 0 /\ SIZE_MOD > 2 * ds_heap_end
  /\ Policies \subseteq {"fp_Implicit", "fp_Explicit"}

\* Every word there is: the two heads and the data segment.
Address == {a \in first..ds_heap_end - 1 : a % TYPE_SIZE = 0}

VARIABLES heap,   \* the words and the pointers into them, see mm_init
          at,     \* the pointer in each slot of the client
          len,    \* the size it was asked for
          stale   \* a pointer freed last whose memory was not handed out again

vars == <<heap, at, len, stale>>

------------------------------------------------------------------------------
(* Macros *)

PREV_PTR(p) == p - TYPE_SIZE
NEXT_PTR(p) == p + TYPE_SIZE
NEXT_NEXT_PTR(p) == p + 2 * TYPE_SIZE

PACK(size, status) == size + status
GET(h, p) == h.mem[p]
PUT(h, p, v) == [h EXCEPT !.mem[p] = v]
GET_STATUS(h, p) == GET(h, p) % 8
GET_SIZE(h, p) == GET(h, p) - GET_STATUS(h, p)

\* What a size is once it is converted to a signed integer, as the argument of
\* ds_sbrk is; adding it to a pointer moves the pointer by as much.
Signed(size) == IF 2 * size < SIZE_MOD THEN size ELSE size - SIZE_MOD

HDR2FTR(h, p) == p + Signed(GET_SIZE(h, p)) - TYPE_SIZE
NEXT_BLKP(h, p) == p + Signed(GET_SIZE(h, p))
PREV_BLKP(h, p) == p - Signed(GET_SIZE(h, PREV_PTR(p)))
NEXT_LIST_GET(h, p) == GET(h, NEXT_PTR(p))
PREV_LIST_GET(h, p) == GET(h, NEXT_NEXT_PTR(p))

\* Header, then footer, where the header says the footer is.
PutTags(h, bp, size, status) ==
  LET g == PUT(h, bp, PACK(size, status))
  IN  PUT(g, HDR2FTR(g, bp), PACK(size, status))

\* The block size for a payload, in the arithmetic of size_t.
BlockSize(size) == Align((size + 2 * TYPE_SIZE + BS - 1) % SIZE_MOD)

\* A mutant: no room is left for the end sentinel.
EndOfWrongly(brk) == Align(brk)

\* The end sentinel, the last aligned word below the break.
EndOf(brk) == Align(brk - TYPE_SIZE)

heap_start == Align(ds_heap_start + TYPE_SIZE + BS - 1)

------------------------------------------------------------------------------
(* The explicit free list *)

add_free_block(h, bp) ==
  LET top == NEXT_LIST_GET(h, first)
      h1 == PUT(PUT(h, NEXT_PTR(bp), top), NEXT_NEXT_PTR(bp), first)
  IN  PUT(PUT(h1, NEXT_NEXT_PTR(top), bp), NEXT_PTR(first), bp)

\* A mutant: the element behind bp keeps pointing back to bp.
remove_free_blockWrongly(h, bp) ==
  LET next == NEXT_LIST_GET(h, bp)
      prev == PREV_LIST_GET(h, bp)
  IN  PUT(PUT(PUT(h, NEXT_PTR(prev), next), NEXT_PTR(bp), NULL),
          NEXT_NEXT_PTR(bp), NULL)

remove_free_block(h, bp) ==
  LET next == NEXT_LIST_GET(h, bp)
      prev == PREV_LIST_GET(h, bp)
      h1 == PUT(PUT(h, NEXT_PTR(prev), next), NEXT_NEXT_PTR(next), prev)
  IN  PUT(PUT(h1, NEXT_PTR(bp), NULL), NEXT_NEXT_PTR(bp), NULL)

\* Both only under the explicit policy.
Link(h, bp) == IF h.policy = "fp_Explicit" THEN add_free_block(h, bp) ELSE h
Unlink(h, bp) == IF h.policy = "fp_Explicit" THEN remove_free_block(h, bp) ELSE h

------------------------------------------------------------------------------
(* Best fit *)

\* Where next leads from p on, until it is NULL.  The walk is cut off after as
\* many elements as the segment has blocks, and one more: only a cycle has them.
MaxList == MaxHeapSize \div BS + 1
Walk(next, p) ==
  LET walk[n \in 0..MaxList] ==
        [a \in Address \cup {NULL} |->
           IF n = 0 \/ a = NULL THEN <<>> ELSE <<a>> \o walk[n - 1][next[a]]]
  IN  walk[MaxList][p]

\* The blocks of the heap, up to the end sentinel, whose size is 0.
Blocks(h) ==
  LET BlockAt(p) == IF p \in Address /\ GET_SIZE(h, p) # 0 THEN p ELSE NULL
  IN  Walk([p \in Address |-> BlockAt(NEXT_BLKP(h, p))], BlockAt(heap_start))

\* The list from its first element to the NULL after last.
FreeList(h) ==
  LET Element(p) == IF p \in Address THEN p ELSE NULL
  IN  Walk([p \in Address |-> Element(NEXT_LIST_GET(h, p))],
           Element(NEXT_LIST_GET(h, first)))

\* The smallest free block of a walk that is large enough, and the earliest
\* of these; NULL if there is none.
BestFit(h, walk, size) ==
  LET fits == {i \in DOMAIN walk : /\ GET_STATUS(h, walk[i]) = FREE
                                   /\ GET_SIZE(h, walk[i]) >= size}
      Before(i, j) == LET a == GET_SIZE(h, walk[i])
                          b == GET_SIZE(h, walk[j])
                      IN  a < b \/ (a = b /\ i <= j)
  IN  IF fits = {} THEN NULL
      ELSE walk[CHOOSE i \in fits : \A j \in fits : Before(i, j)]

get_free_block(h, size) ==
  BestFit(h, IF h.policy = "fp_Implicit" THEN Blocks(h) ELSE FreeList(h), size)

------------------------------------------------------------------------------
(* Splitting, growing and merging *)

\* A block that ends at heap_end, under a heap that ends where brk says.  If
\* that is below bp the size wraps.
LastBlock(h, bp, brk) ==
  LET g == [h EXCEPT !.ds_heap_brk = brk, !.heap_end = EndOf(brk)]
      size == (g.heap_end - bp) % SIZE_MOD
  IN  PUT(PutTags(g, bp, size, FREE), g.heap_end, PACK(0, ALLOC))

\* A mutant: nothing of the last block has to remain.
ShrinksWrongly(h, bp, size) ==
  /\ bp + Signed(size) = h.heap_end
  /\ size >= SHRINKTHLD
  /\ SbrkFits(h.ds_heap_brk, -SHRINKTHLD)

\* bp is large enough to shrink the heap by a part of it.
Shrinks(h, bp, size) ==
  /\ bp + Signed(size) = h.heap_end
  /\ size >= BS + SHRINKTHLD
  /\ SbrkFits(h.ds_heap_brk, -SHRINKTHLD)

\* The neighbours of bp, if free, leave the list.
UnlinkPrev(h, bp) ==
  IF GET_STATUS(h, PREV_PTR(bp)) = FREE THEN Unlink(h, PREV_BLKP(h, bp)) ELSE h

UnlinkNext(h, bp) ==
  IF GET_STATUS(h, NEXT_BLKP(h, bp)) = FREE THEN Unlink(h, NEXT_BLKP(h, bp)) ELSE h

\* Where the free blocks around and including bp begin and end.
MergedStart(h, bp) ==
  IF GET_STATUS(h, PREV_PTR(bp)) = FREE THEN PREV_BLKP(h, bp) ELSE bp

MergedEnd(h, bp) ==
  LET next_bp == NEXT_BLKP(h, bp)
  IN  IF GET_STATUS(h, next_bp) = FREE THEN NEXT_BLKP(h, next_bp) ELSE next_bp

Trim(h, bp, size) ==
  IF Shrinks(h, bp, size)
  THEN LastBlock(h, bp, ds_sbrk(h.ds_heap_brk, -SHRINKTHLD)) ELSE h

\* A call that fails leaves the heap as it was.
Fails(h) == [heap |-> h, ptr |-> NULL]

\* Free block bp, merged with the free blocks before and after it, becomes the
\* first of the list; an allocated block is refused.  (If there is nothing to
\* merge the code leaves the tags alone; they have these values then.)
coalesce(h, bp, shrink) ==
  LET result == MergedStart(h, bp)
      size == (MergedEnd(h, bp) - result) % SIZE_MOD
      merged == PutTags(UnlinkNext(UnlinkPrev(h, bp), bp), result, size, FREE)
  IN  IF GET_STATUS(h, bp) = ALLOC THEN Fails(h)
      ELSE [heap |-> Link(IF shrink THEN Trim(merged, result, size) ELSE merged, result),
            ptr |-> result]

\* The old end sentinel becomes the header of the new block.  ds_sbrk takes a
\* size of half of SIZE_MOD or more for a decrement: most leave the segment and
\* are refused, the largest ones take the break, and the sentinel, down.
extend_heap(h, size) ==
  LET increment == Signed(size)
  IN  IF SbrkFits(h.ds_heap_brk, increment)
      THEN coalesce(LastBlock(h, h.heap_end, ds_sbrk(h.ds_heap_brk, increment)),
                    h.heap_end, FALSE)
      ELSE Fails(h)

\* What is left of a block of which size bytes from bp on are allocated.
Remainder(h, bp, left) ==
  IF left = 0 THEN h
  ELSE Link(PutTags(h, NEXT_BLKP(h, bp), left, FREE), NEXT_BLKP(h, bp))

place(h, bp, req_size) ==
  LET left == (GET_SIZE(h, bp) - req_size) % SIZE_MOD
  IN  Remainder(PutTags(Unlink(h, bp), bp, req_size, ALLOC), bp, left)

------------------------------------------------------------------------------
(* The API: each routine returns the heap it leaves and its result *)

\* The block found, or else a new one at the end of the heap.
FoundOrNew(h, req_size, found) ==
  IF found # NULL THEN [heap |-> h, ptr |-> found]
  ELSE extend_heap(h, IF req_size > CHUNKSIZE THEN req_size ELSE CHUNKSIZE)

Placed(got, req_size) ==
  IF got.ptr = NULL THEN got
  ELSE [heap |-> place(got.heap, got.ptr, req_size), ptr |-> NEXT_PTR(got.ptr)]

malloc(h, size) ==
  LET req_size == BlockSize(size)
  IN  IF size = 0 THEN Fails(h)
      ELSE Placed(FoundOrNew(h, req_size, get_free_block(h, req_size)), req_size)

\* The words that lie in the n bytes from p on.
Within(p, n) == {a \in p..p + n - TYPE_SIZE : a % TYPE_SIZE = 0}

memset(h, p, value, n) ==
  [h EXCEPT !.mem = [a \in DOMAIN @ |-> IF a \in Within(p, n) THEN value ELSE @[a]]]

\* A mutant: the last word is not copied.
memcpyWrongly(h, to, from, n) ==
  [h EXCEPT !.mem = [a \in DOMAIN @ |->
     IF a \in Within(to, n - TYPE_SIZE) THEN @[a - to + from] ELSE @[a]]]

memcpy(h, to, from, n) ==
  [h EXCEPT !.mem = [a \in DOMAIN @ |->
     IF a \in Within(to, n) THEN @[a - to + from] ELSE @[a]]]

Cleared(got, bytes) ==
  IF got.ptr = NULL THEN got
  ELSE [got EXCEPT !.heap = memset(@, got.ptr, 0, bytes)]

calloc(h, nmemb, size) ==
  LET bytes == (nmemb * size) % SIZE_MOD
  IN  Cleared(malloc(h, bytes), bytes)

\* A mutant: the block is merged before it is marked free.
freeWrongly(h, ptr) ==
  LET bp == PREV_PTR(ptr)
  IN  IF ptr = NULL \/ GET_STATUS(h, bp) = FREE THEN h
      ELSE coalesce(h, bp, TRUE).heap

free(h, ptr) ==
  LET bp == PREV_PTR(ptr)
  IN  IF ptr = NULL \/ GET_STATUS(h, bp) = FREE THEN h     \* double free error!
      ELSE coalesce(PutTags(h, bp, GET_SIZE(h, bp), FREE), bp, TRUE).heap

\* A mutant: the old block is not freed.
MovedWrongly(bp, got) ==
  IF got.ptr = NULL THEN got
  ELSE [got EXCEPT !.heap = memcpy(@, got.ptr, NEXT_PTR(bp),
                                   GET_SIZE(@, bp) - 2 * TYPE_SIZE)]

\* The whole payload of the old block is copied, and the block is freed.
Moved(bp, got) ==
  IF got.ptr = NULL THEN got
  ELSE [got EXCEPT !.heap = free(memcpy(@, got.ptr, NEXT_PTR(bp),
                                        GET_SIZE(@, bp) - 2 * TYPE_SIZE),
                                 NEXT_PTR(bp))]

\* The end of the block is split off, and not merged with what follows.
Shorten(h, bp, new_size) ==
  Remainder(PutTags(h, bp, new_size, ALLOC), bp, GET_SIZE(h, bp) - new_size)

\* The size of bp and the block behind it.
Both(h, bp) == (GET_SIZE(h, bp) + GET_SIZE(h, NEXT_BLKP(h, bp))) % SIZE_MOD

\* The free block behind bp is taken in.
CanExpand(h, bp, new_size) ==
  GET_STATUS(h, NEXT_BLKP(h, bp)) = FREE /\ Both(h, bp) >= new_size

Expand(h, bp, new_size) ==
  Remainder(PutTags(Unlink(h, NEXT_BLKP(h, bp)), bp, new_size, ALLOC), bp,
            Both(h, bp) - new_size)

\* realloc of a pointer to a block that is allocated, to a size above 0.
Adjust(h, ptr, size) ==
  LET bp == PREV_PTR(ptr)
      old_size == GET_SIZE(h, bp)
      new_size == BlockSize(size)
      Stay(g) == [heap |-> g, ptr |-> ptr]
  IN  CASE old_size = new_size -> Stay(h)
        [] old_size > new_size -> Stay(Shorten(h, bp, new_size))
        [] old_size < new_size /\ CanExpand(h, bp, new_size) ->
             Stay(Expand(h, bp, new_size))
        [] old_size < new_size /\ ~CanExpand(h, bp, new_size) ->
             Moved(bp, malloc(h, size))

realloc(h, ptr, size) ==
  CASE ptr = NULL -> malloc(h, size)
    [] ptr # NULL /\ size = 0 -> [heap |-> free(h, ptr), ptr |-> NULL]
    [] ptr # NULL /\ size # 0 ->
         IF GET_STATUS(h, PREV_PTR(ptr)) = FREE THEN Fails(h)
         ELSE Adjust(h, ptr, size)

\* The first chunk, one free block between the two sentinels.
mm_init(policy) ==
  LET brk == ds_sbrk(ds_heap_start, CHUNKSIZE)
      h == [policy |-> policy, ds_heap_brk |-> brk, heap_end |-> EndOf(brk),
            mem |-> [a \in Address |-> 0]]
      h1 == LastBlock(PUT(h, PREV_PTR(heap_start), PACK(0, ALLOC)), heap_start, brk)
      h2 == PUT(PUT(h1, NEXT_PTR(first), heap_start), NEXT_NEXT_PTR(last), heap_start)
  IN  IF policy = "fp_Implicit" THEN h1
      ELSE PUT(PUT(h2, NEXT_PTR(heap_start), last), NEXT_NEXT_PTR(heap_start), first)

------------------------------------------------------------------------------
(* The client *)

\* Address a lies in a block of heap h that the client holds through held.
Covered(h, held, a) ==
  \E s \in Slot :
    /\ held[s] # NULL
    /\ PREV_PTR(held[s]) <= a
    /\ a < PREV_PTR(held[s]) + GET_SIZE(h, PREV_PTR(held[s]))

\* The client remembers p, the pointer it freed last, as long as p lies in no
\* block of its own.
Remember(p) ==
  stale' = IF p # NULL /\ Covered(heap', at', PREV_PTR(p)) THEN NULL ELSE p

\* Slot s holds what a call returned for n bytes, which may be NULL.
Hold(s, got, n) ==
  /\ heap' = got.heap
  /\ at' = [at EXCEPT ![s] = got.ptr]
  /\ len' = [len EXCEPT ![s] = IF got.ptr = NULL THEN 0 ELSE n]

Init ==
  /\ \E policy \in Policies : heap = mm_init(policy)
  /\ at = [s \in Slot |-> NULL]
  /\ len = [s \in Slot |-> 0]
  /\ stale = NULL

Malloc(s, n) ==
  /\ at[s] = NULL
  /\ Hold(s, malloc(heap, n), n)
  /\ Remember(stale)

Calloc(s, nmemb, n) ==
  /\ at[s] = NULL
  /\ Hold(s, calloc(heap, nmemb, n), nmemb * n)
  /\ Remember(stale)

\* If the call fails for a size above 0 the client keeps what it has.
Reallocated(s, n, got) ==
  IF n > 0 /\ got.ptr = NULL
  THEN heap' = got.heap /\ UNCHANGED <<at, len>> /\ Remember(stale)
  ELSE Hold(s, got, n) /\ Remember(IF at[s] \in {NULL, got.ptr} THEN stale ELSE at[s])

Realloc(s, n) == Reallocated(s, n, realloc(heap, at[s], n))

Free(s) ==
  /\ at[s] # NULL
  /\ Hold(s, [heap |-> free(heap, at[s]), ptr |-> NULL], 0)
  /\ Remember(at[s])

\* The client fills its region, every slot with a value of its own.
Store(s) ==
  /\ at[s] # NULL
  /\ heap' = memset(heap, at[s], s, len[s])
  /\ UNCHANGED <<at, len, stale>>

\* A pointer is freed, or reallocated, a second time.
FreeAgain ==
  /\ stale # NULL /\ PREV_PTR(stale) < heap.heap_end
  /\ \/ heap' = free(heap, stale)
     \/ \E n \in Size : heap' = realloc(heap, stale, n).heap
  /\ UNCHANGED <<at, len, stale>>

Next ==
  \/ \E s \in Slot :
       \/ Free(s) \/ Store(s)
       \/ \E n \in Size : Malloc(s, n) \/ Realloc(s, n)
       \/ \E m \in Count, n \in Size : Calloc(s, m, n)
  \/ FreeAgain

Spec == Init /\ [][Next]_vars

------------------------------------------------------------------------------
(* Properties *)

AllBlocks == LET run == Blocks(heap) IN {run[i] : i \in DOMAIN run}
FreeBlocks == {b \in AllBlocks : GET_STATUS(heap, b) = FREE}

\* The memory manager's globals and the client's variables have their types;
\* the end sentinel lies below the break and the break inside the segment.
TypeOK ==
  /\ heap.policy \in Policies
  /\ DOMAIN heap.mem = Address
  /\ heap.ds_heap_brk \in ds_heap_start..ds_heap_end - 1
  /\ heap.heap_end \in Address /\ heap.heap_end % BS = 0
  /\ heap.heap_end + TYPE_SIZE <= heap.ds_heap_brk
  /\ at \in [Slot -> Address \cup {NULL}]
  /\ len \in [Slot -> Nat]
  /\ stale \in Address \cup {NULL}

\* Following the headers from heap_start (NEXT_BLKP, memmgr.c:149) visits
\* blocks of at least BS bytes, each with a footer equal to its header, and
\* ends at heap_end; both sentinels are intact.  This is what mm_check
\* (memmgr.c:636-719) looks for, in every state between two calls.
HeapIsTiled ==
  LET run == Blocks(heap)
  IN  /\ run # <<>>
      /\ \A i \in DOMAIN run :
           LET b == run[i] IN
             /\ GET_SIZE(heap, b) >= BS /\ GET_SIZE(heap, b) % BS = 0
             /\ GET_STATUS(heap, b) \in {ALLOC, FREE}
             /\ GET(heap, HDR2FTR(heap, b)) = GET(heap, b)
      /\ NEXT_BLKP(heap, run[Len(run)]) = heap.heap_end
      /\ GET(heap, PREV_PTR(heap_start)) = PACK(0, ALLOC)
      /\ GET(heap, heap.heap_end) = PACK(0, ALLOC)

\* Under the explicit policy the list from first to last has every free block
\* once and nothing else, and the prev pointers lead back the same way
\* (add_free_block and remove_free_block, memmgr.c:480-502).
FreeListIsFreeBlocks ==
  heap.policy = "fp_Explicit" =>
    LET list == FreeList(heap)
        n == Len(list)
        blocks == FreeBlocks
    IN  /\ n = Cardinality(blocks) + 1
        /\ list[n] = last
        /\ {list[i] : i \in 1..n - 1} = blocks
        /\ \A i \in 1..n :
             PREV_LIST_GET(heap, list[i]) = IF i = 1 THEN first ELSE list[i - 1]

\* The allocated blocks are those the client holds: none is leaked by a split,
\* a merge or a move, none is held twice, and each is as small as it can be.
AllocatedIsHeld ==
  LET Held == {s \in Slot : at[s] # NULL}
  IN  /\ {PREV_PTR(at[s]) : s \in Held} = AllBlocks \ FreeBlocks
      /\ \A s \in Held :
           /\ GET_SIZE(heap, PREV_PTR(at[s])) = BlockSize(len[s])
           /\ \A t \in Held : at[s] = at[t] => s = t

\* A pointer that was freed, and whose memory was not handed out since, still
\* points behind a header that says FREE, whatever was split, merged, moved or
\* shrunk meanwhile, so mm_free and mm_realloc (memmgr.c:555, 615) report it.  (A
\* heap that has shrunk to exactly that header has its end sentinel there.)
FreedIsRecognized ==
  stale # NULL /\ PREV_PTR(stale) < heap.heap_end =>
    GET_STATUS(heap, PREV_PTR(stale)) = FREE
=============================================================================
