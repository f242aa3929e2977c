----------------------------- MODULE MemMgrProofs -----------------------------
(***************************************************************************)
(* The memory manager is correct, whatever the sizes of the heap and of    *)
(* its regions: the effect of each routine of the API, the inductive       *)
(* invariant of a client that calls them, and the refinement of Allocator. *)
(***************************************************************************)
EXTENDS HeapLemmas, MemMgrAllocator

\* From here on sizes are decrements that may stay in the segment, and the last
\* of them wrap.
SizeLimit == SIZE_MOD - MaxHeapSize

LEMMA LimitIs ==
  /\ SizeLimit \in Nat /\ SizeLimit > 47 /\ SizeLimit < SIZE_MOD
  /\ CHUNKSIZE < SizeLimit
<1>1. /\ SIZE_MOD \in Nat /\ MaxHeapSize \in Nat /\ MaxHeapSize > 64
      /\ SIZE_MOD > 2 * ds_heap_end /\ ds_heap_end = ds_heap_start + MaxHeapSize
      /\ ds_heap_start \in Nat /\ CHUNKSIZE \in Nat /\ CHUNKSIZE < MaxHeapSize
  BY HeapStart, MemMgrAssumption DEF BS
<1> QED BY <1>1 DEF SizeLimit

\* A block for n bytes is a multiple of BS and has room for both tags.
LEMMA BlockSizeIs ==
  ASSUME NEW n \in Nat, n + 47 < SizeLimit
  PROVE  /\ BlockSize(n) \in Nat /\ BlockSize(n) % 32 = 0
         /\ BlockSize(n) >= 32 /\ BlockSize(n) >= n + 16
         /\ BlockSize(n) < SizeLimit
<1>1. SIZE_MOD \in Nat /\ n + 47 < SIZE_MOD /\ SizeLimit \in Nat
  BY LimitIs, MemMgrAssumption
<1>2. n + 2 * TYPE_SIZE + BS - 1 = n + 47 BY DEF TYPE_SIZE, BS
<1>3. (n + 47) % SIZE_MOD = n + 47 BY <1>1
<1>4. BlockSize(n) = ((n + 47) \div 32) * 32
  BY <1>2, <1>3 DEF BlockSize, Align, BS
<1>5. PICK m \in Nat : m = (n + 47) \div 32 OBVIOUS
<1>6. 32 * m <= n + 47 /\ n + 47 < 32 * m + 32 BY <1>5
<1>7. BlockSize(n) = 32 * m BY <1>4, <1>5
<1>8. 32 * m < SizeLimit BY <1>1, <1>6
<1> QED BY <1>6, <1>7, <1>8

------------------------------------------------------------------------------
(* The routines *)

\* g differs from h in the payload of block bp only.
OnlyPayload(h, g, bp) ==
  /\ SameFrame(h, g)
  /\ \A a \in Address : ~ (bp < a /\ a < NEXT_BLKP(h, bp) - 8) => GET(g, a) = GET(h, a)

\* Writing the payload of an allocated block disturbs nothing else.
LEMMA PayloadEffect ==
  ASSUME NEW h, NEW B, Good(h, B, FreeOf(h, B)), NEW bp \in AllocOf(h, B),
         NEW g, OnlyPayload(h, g, bp)
  PROVE  /\ Good(g, B, FreeOf(g, B)) /\ AllocOf(g, B) = AllocOf(h, B)
         /\ FreeOf(g, B) = FreeOf(h, B)
         /\ \A b \in B : GET_SIZE(g, b) = GET_SIZE(h, b) /\ NEXT_BLKP(g, b) = NEXT_BLKP(h, b)
         /\ Kept(h, g, AllocOf(h, B) \ {bp})
<1>1. PICK q : q = NEXT_BLKP(h, bp) OBVIOUS
<1>2. Tiled(h, B) /\ bp \in B /\ GET_STATUS(h, bp) = ALLOC /\ Listed(h, FreeOf(h, B))
  BY DEF Good, AllocOf
<1>3. Tile(h, B, heap_start, h.heap_end) /\ IsHeap(h) BY <1>2 DEF Tiled
<1>4. q \in B \cup {h.heap_end} BY <1>1, <1>2, <1>3 DEF Tile
<1>5. /\ bp \in Grid /\ bp \in Nat /\ q \in Grid /\ q \in Nat /\ bp + 32 <= q
      /\ GET_SIZE(h, bp) = q - bp
  BY <1>1, <1>2, <1>3, TileFacts
<1>6. \A b \in B : b # bp => b \in Rest(B, bp, q)
  <2> SUFFICES ASSUME NEW b \in B, b # bp PROVE b < bp \/ q <= b
    BY DEF Rest
  <2>1. b \in Nat /\ (bp < b => q <= b) BY <1>1, <1>2, Apart
  <2> QED BY <2>1, <1>5
<1>7. /\ \A a \in Address : a < bp \/ q <= a => GET(g, a) = GET(h, a)
      /\ GET(g, bp) = GET(h, bp) /\ GET(g, q - 8) = GET(h, q - 8)
  <2>1. \A a \in Address : a \in Nat BY HeapStart DEF Address
  <2>2. \A a \in Address : ~ (bp < a /\ a < q - 8) => GET(g, a) = GET(h, a)
    BY <1>1 DEF OnlyPayload
  <2>3. bp \in Address /\ q - 8 \in Address
    <3>1. q > 32 BY <1>5, GridWords
    <3> QED BY <3>1, <1>5, GridWords
  <2>4. ~ (bp < bp) /\ ~ (q - 8 < q - 8) BY <1>5
  <2>5. \A a \in Address : a < bp \/ q <= a => ~ (bp < a /\ a < q - 8)
    BY <2>1, <1>5
  <2> QED BY <2>2, <2>3, <2>4, <2>5
<1>8. SameOutside(h, g, bp, q) BY <1>7 DEF SameOutside, OnlyPayload
<1>9. IsBlock(h, bp) BY <1>2, <1>3 DEF Tile
<1>10. IsBlock(g, bp) /\ NEXT_BLKP(g, bp) = q BY <1>1, <1>7, <1>9, SameBlock
<1>11. Tile(g, {bp}, bp, q)
  <2>1. \A b, c \in {bp} : ~ (b < c) BY <1>5
  <2>2. bp <= q /\ bp <= bp /\ bp < q BY <1>5
  <2> QED BY <2>1, <2>2, <1>5, <1>10 DEF Tile
<1>12. \A x \in FreeOf(h, B) : x < bp \/ q <= x
  <2> SUFFICES ASSUME NEW x \in FreeOf(h, B) PROVE x < bp \/ q <= x
    OBVIOUS
  <2>1. x \in B /\ x # bp BY <1>2 DEF FreeOf, ALLOC, FREE
  <2> QED BY <2>1, <1>6 DEF Rest
<1>13. bp < q BY <1>5
<1>14. /\ Good(g, Rest(B, bp, q) \cup {bp}, FreeOf(h, B))
       /\ SameBlocks(h, g, Rest(B, bp, q))
  BY <1>2, <1>4, <1>8, <1>11, <1>12, <1>13, Repartition
<1>15. Rest(B, bp, q) \cup {bp} = B
  <2>1. Rest(B, bp, q) \subseteq B BY DEF Rest
  <2> QED BY <2>1, <1>2, <1>6
<1>16. \A b \in B : /\ GET(g, b) = GET(h, b) /\ GET_STATUS(g, b) = GET_STATUS(h, b)
                    /\ GET_SIZE(g, b) = GET_SIZE(h, b) /\ NEXT_BLKP(g, b) = NEXT_BLKP(h, b)
  <2>1. \A b \in B : GET(g, b) = GET(h, b) BY <1>6, <1>7, <1>14 DEF SameBlocks
  <2> QED BY <2>1, SameTag
<1>17. AllocOf(g, B) = AllocOf(h, B) /\ FreeOf(g, B) = FreeOf(h, B)
  BY <1>16 DEF AllocOf, FreeOf
<1>18. Kept(h, g, AllocOf(h, B) \ {bp})
  <2>1. AllocOf(h, B) \ {bp} \subseteq Rest(B, bp, q) BY <1>6 DEF AllocOf
  <2> QED BY <2>1, <1>2, <1>4, <1>8, OutsideKept
<1> QED BY <1>14, <1>15, <1>16, <1>17, <1>18

\* The words that memset and memcpy write.
LEMMA WithinIs ==
  ASSUME NEW p \in Nat, NEW n \in Nat, NEW a \in Address
  PROVE  a \in Nat /\ (a \in Within(p, n) <=> p <= a /\ a + 8 <= p + n)
<1>1. a \in Nat /\ a % 8 = 0 BY HeapStart DEF Address, TYPE_SIZE
<1>2. p + n - TYPE_SIZE = p + n - 8 /\ p + n - 8 \in Int BY DEF TYPE_SIZE
<1>3. a \in p..p + n - TYPE_SIZE <=> p <= a /\ a <= p + n - 8 BY <1>1, <1>2
<1>4. a % TYPE_SIZE = 0 BY <1>1 DEF TYPE_SIZE
<1>5. a <= p + n - 8 <=> a + 8 <= p + n BY <1>1
<1> QED BY <1>1, <1>3, <1>4, <1>5 DEF Within

\* memset writes the words of a payload.
LEMMA MemsetEffect ==
  ASSUME NEW h, IsHeap(h), NEW bp \in Nat, NEW v, NEW n \in Nat,
         GET_SIZE(h, bp) \in Nat, n + 16 <= GET_SIZE(h, bp),
         NEXT_BLKP(h, bp) = bp + GET_SIZE(h, bp),
         NEW g, g = memset(h, NEXT_PTR(bp), v, n)
  PROVE  /\ OnlyPayload(h, g, bp)
         /\ \A a \in Address : bp + 8 <= a /\ a + 8 <= bp + 8 + n => GET(g, a) = v
<1>1. NEXT_PTR(bp) = bp + 8 /\ bp + 8 \in Nat BY DEF NEXT_PTR, TYPE_SIZE
<1>2. PICK m : m = [a \in Address |-> h.mem[a]] OBVIOUS
<1>3. h.mem = m /\ DOMAIN m = Address BY <1>2 DEF IsHeap
<1>4. PICK k : k = [a \in Address |-> IF a \in Within(bp + 8, n) THEN v ELSE m[a]] OBVIOUS
<1>5. g = [h EXCEPT !.mem = k] BY <1>1, <1>3, <1>4 DEF memset
<1>6. /\ g.policy = h.policy /\ g.ds_heap_brk = h.ds_heap_brk /\ g.heap_end = h.heap_end
      /\ g.mem = k
      /\ g = [policy |-> h.policy, ds_heap_brk |-> h.ds_heap_brk, heap_end |-> h.heap_end,
              mem |-> k]
  BY <1>5 DEF IsHeap
<1>7. k = [a \in Address |-> k[a]] BY <1>4
<1>8. IsHeap(g) BY <1>6, <1>7 DEF IsHeap
<1>9. SameFrame(h, g) BY <1>6, <1>8 DEF SameFrame
<1>10. \A a \in Address : GET(g, a) = IF a \in Within(bp + 8, n) THEN v ELSE GET(h, a)
  BY <1>3, <1>4, <1>6 DEF GET
<1>11. \A a \in Address : a \in Nat /\ (a \in Within(bp + 8, n) <=> bp + 8 <= a /\ a + 8 <= bp + 8 + n)
  BY <1>1, WithinIs
<1>12. \A a \in Address : bp + 8 <= a /\ a + 8 <= bp + 8 + n => GET(g, a) = v
  BY <1>10, <1>11
<1>13. \A a \in Address : ~ (bp < a /\ a < NEXT_BLKP(h, bp) - 8) => GET(g, a) = GET(h, a)
  <2> SUFFICES ASSUME NEW a \in Address, ~ (bp < a /\ a < NEXT_BLKP(h, bp) - 8)
               PROVE  a \notin Within(bp + 8, n)
    BY <1>10
  <2> QED BY <1>11
<1> QED BY <1>9, <1>12, <1>13 DEF OnlyPayload

\* Copying from outside of the block that is written.
LEMMA MemcpyEffect ==
  ASSUME NEW h, IsHeap(h), NEW bp \in Nat, NEW from, NEW n \in Nat,
         GET_SIZE(h, bp) \in Nat, n + 16 <= GET_SIZE(h, bp),
         NEXT_BLKP(h, bp) = bp + GET_SIZE(h, bp),
         NEW g, g = memcpy(h, NEXT_PTR(bp), from, n)
  PROVE  /\ OnlyPayload(h, g, bp)
         /\ \A a \in Address : bp + 8 <= a /\ a + 8 <= bp + 8 + n =>
              GET(g, a) = GET(h, a - (bp + 8) + from)
<1>1. NEXT_PTR(bp) = bp + 8 /\ bp + 8 \in Nat BY DEF NEXT_PTR, TYPE_SIZE
<1>2. PICK m : m = [a \in Address |-> h.mem[a]] OBVIOUS
<1>3. h.mem = m /\ DOMAIN m = Address BY <1>2 DEF IsHeap
<1>4. PICK k : k = [a \in Address |-> IF a \in Within(bp + 8, n)
                                      THEN m[a - (bp + 8) + from] ELSE m[a]] OBVIOUS
<1>5. g = [h EXCEPT !.mem = k] BY <1>1, <1>3, <1>4 DEF memcpy
<1>6. /\ g.policy = h.policy /\ g.ds_heap_brk = h.ds_heap_brk /\ g.heap_end = h.heap_end
      /\ g.mem = k
      /\ g = [policy |-> h.policy, ds_heap_brk |-> h.ds_heap_brk, heap_end |-> h.heap_end,
              mem |-> k]
  BY <1>5 DEF IsHeap
<1>7. k = [a \in Address |-> k[a]] BY <1>4
<1>8. IsHeap(g) BY <1>6, <1>7 DEF IsHeap
<1>9. SameFrame(h, g) BY <1>6, <1>8 DEF SameFrame
<1>10. \A a \in Address : GET(g, a) = IF a \in Within(bp + 8, n)
                                      THEN GET(h, a - (bp + 8) + from) ELSE GET(h, a)
  BY <1>3, <1>4, <1>6 DEF GET
<1>11. \A a \in Address : a \in Nat /\ (a \in Within(bp + 8, n) <=> bp + 8 <= a /\ a + 8 <= bp + 8 + n)
  BY <1>1, WithinIs
<1>12. \A a \in Address : bp + 8 <= a /\ a + 8 <= bp + 8 + n =>
         GET(g, a) = GET(h, a - (bp + 8) + from)
  BY <1>10, <1>11
<1>13. \A a \in Address : ~ (bp < a /\ a < NEXT_BLKP(h, bp) - 8) => GET(g, a) = GET(h, a)
  <2> SUFFICES ASSUME NEW a \in Address, ~ (bp < a /\ a < NEXT_BLKP(h, bp) - 8)
               PROVE  a \notin Within(bp + 8, n)
    BY <1>10
  <2> QED BY <1>11
<1> QED BY <1>9, <1>12, <1>13 DEF OnlyPayload

\* Words that say FREE, or lie where the heap ends, go on doing so, unless they
\* are in block bp of g.
Marked(h, g, bp) ==
  \A a \in Grid :
    /\ ~ (bp <= a /\ a < bp + GET_SIZE(g, bp))
    /\ GET_STATUS(h, a) = FREE \/ a = h.heap_end
    => GET_STATUS(g, a) = FREE \/ a = g.heap_end

\* r has a heap in which one block for n bytes is allocated besides the blocks A
\* of h, which keep their contents, and a pointer to its payload.
Allocated(h, A, r, n, C) ==
  /\ r = [heap |-> r.heap, ptr |-> r.ptr]
  /\ Good(r.heap, C, FreeOf(r.heap, C)) /\ r.heap.policy = h.policy
  /\ r.ptr # NULL /\ r.ptr = NEXT_PTR(PREV_PTR(r.ptr)) /\ PREV_PTR(r.ptr) \notin A
  /\ AllocOf(r.heap, C) = A \cup {PREV_PTR(r.ptr)}
  /\ GET_SIZE(r.heap, PREV_PTR(r.ptr)) = BlockSize(n)
  /\ Kept(h, r.heap, A)

\* The pointer to the payload of a block and back.
LEMMA PayloadPointer ==
  ASSUME NEW bp \in Grid
  PROVE  /\ NEXT_PTR(bp) = bp + 8 /\ PREV_PTR(NEXT_PTR(bp)) = bp
         /\ NEXT_PTR(bp) # NULL /\ NEXT_PTR(bp) \in Address /\ bp \in Nat
<1>1. bp \in Nat /\ 32 <= bp /\ bp + 8 \in Address BY GridWords
<1>2. NEXT_PTR(bp) = bp + 8 BY DEF NEXT_PTR, TYPE_SIZE
<1>3. PREV_PTR(bp + 8) = bp BY <1>1 DEF PREV_PTR, TYPE_SIZE
<1>4. bp + 8 # NULL BY <1>1 DEF NULL
<1> QED BY <1>1, <1>2, <1>3, <1>4

\* What malloc does to a heap all of whose free blocks are in the list.
LEMMA MallocEffect ==
  ASSUME NEW h, NEW B, Good(h, B, FreeOf(h, B)), NEW n \in Nat, n + 47 < SizeLimit,
         NEW r, r = malloc(h, n)
  PROVE  \/ r = Fails(h)
         \/ /\ \E C : Allocated(h, AllocOf(h, B), r, n, C)
            /\ Marked(h, r.heap, PREV_PTR(r.ptr))
<1>1. PICK size : size = BlockSize(n) OBVIOUS
<1>2. size \in Nat /\ size % 32 = 0 /\ size >= 32 /\ size < SizeLimit
  BY <1>1, BlockSizeIs
<1>3. PICK found : found = get_free_block(h, size) OBVIOUS
<1>4. PICK got : got = FoundOrNew(h, size, found) OBVIOUS
<1>5. CASE n = 0 BY <1>5 DEF malloc
<1>6. CASE n # 0
  <2>1. r = Placed(got, size) BY <1>1, <1>3, <1>4, <1>6 DEF malloc
  <2>2. \/ got = Fails(h)
        \/ /\ got.heap.policy = h.policy
           /\ \E C : /\ Good(got.heap, C, FreeOf(got.heap, C))
                     /\ got.ptr \in FreeOf(got.heap, C)
                     /\ AllocOf(got.heap, C) = AllocOf(h, B)
           /\ GET_SIZE(got.heap, got.ptr) >= size
           /\ Kept(h, got.heap, AllocOf(h, B))
           /\ \A a \in Grid : GET_STATUS(h, a) = FREE \/ a = h.heap_end =>
                GET_STATUS(got.heap, a) = FREE \/ a = got.heap.heap_end
    <3>1. CASE found # NULL
      <4>1. found \in FreeOf(h, B) /\ GET_SIZE(h, found) >= size
        BY <3>1, <1>2, <1>3, FreeBlockFound
      <4>2. got = [heap |-> h, ptr |-> found] BY <3>1, <1>4 DEF FoundOrNew
      <4>3. got.heap = h /\ got.ptr = found BY <4>2
      <4>4. Kept(h, h, AllocOf(h, B)) BY DEF Kept
      <4> QED BY <4>1, <4>3, <4>4
    <3>2. CASE found = NULL
      <4>1. PICK m : m = IF size > CHUNKSIZE THEN size ELSE CHUNKSIZE OBVIOUS
      <4>2. got = extend_heap(h, m) BY <4>1, <3>2, <1>4 DEF FoundOrNew
      <4>3. m \in Nat /\ m % 32 = 0 /\ m >= size /\ m > 0
        <5>1. CHUNKSIZE \in Nat /\ CHUNKSIZE % 32 = 0 BY MemMgrAssumption DEF BS
        <5> QED BY <5>1, <4>1, <1>2
      <4>7. m + MaxHeapSize < SIZE_MOD
        <5>1. m < SizeLimit BY <4>1, <1>2, LimitIs
        <5>2. MaxHeapSize \in Nat /\ SIZE_MOD \in Nat BY HeapStart, MemMgrAssumption
        <5> QED BY <5>1, <5>2, <4>3 DEF SizeLimit
      <4>4. \/ got = Fails(h)
            \/ /\ got.heap.policy = h.policy
               /\ \E C : /\ Good(got.heap, C, FreeOf(got.heap, C))
                         /\ got.ptr \in FreeOf(got.heap, C)
                         /\ AllocOf(got.heap, C) = AllocOf(h, B)
               /\ GET_SIZE(got.heap, got.ptr) >= m
               /\ Kept(h, got.heap, AllocOf(h, B))
               /\ \A a \in Grid : GET_STATUS(h, a) = FREE \/ a = h.heap_end =>
                    GET_STATUS(got.heap, a) = FREE \/ a = got.heap.heap_end
        BY <4>2, <4>3, <4>7, ExtendEffect
      <4>5. CASE got = Fails(h) BY <4>5
      <4>6. CASE got # Fails(h)
        <5>1. PICK C : /\ Good(got.heap, C, FreeOf(got.heap, C))
                       /\ got.ptr \in FreeOf(got.heap, C)
                       /\ AllocOf(got.heap, C) = AllocOf(h, B)
          BY <4>4, <4>6
        <5>2. GET_SIZE(got.heap, got.ptr) >= size
          <6>1. GET_SIZE(got.heap, got.ptr) \in Nat
            BY <5>1 DEF Good, Tiled, Tile, IsBlock, FreeOf
          <6>2. GET_SIZE(got.heap, got.ptr) >= m BY <4>4, <4>6
          <6> QED BY <6>1, <6>2, <4>3, <1>2
        <5> QED BY <5>1, <5>2, <4>4, <4>6
      <4> QED BY <4>5, <4>6
    <3> QED BY <3>1, <3>2
  <2>3. CASE got = Fails(h)
    <3>1. got.ptr = NULL BY <2>3 DEF Fails
    <3> QED BY <3>1, <2>1, <2>3 DEF Placed
  <2>4. CASE got # Fails(h)
    <3>1. PICK k : k = got.heap OBVIOUS
    <3>2. PICK bp : bp = got.ptr OBVIOUS
    <3>3. PICK C : /\ Good(k, C, FreeOf(k, C)) /\ bp \in FreeOf(k, C)
                   /\ AllocOf(k, C) = AllocOf(h, B)
      BY <3>1, <3>2, <2>2, <2>4
    <3>4. /\ k.policy = h.policy /\ Kept(h, k, AllocOf(h, B))
          /\ GET_SIZE(k, bp) >= size
          /\ \A a \in Grid : GET_STATUS(h, a) = FREE \/ a = h.heap_end =>
               GET_STATUS(k, a) = FREE \/ a = k.heap_end
      BY <3>1, <3>2, <2>2, <2>4
    <3>5. bp \in Grid /\ bp # NULL /\ bp \notin AllocOf(h, B)
      <4>1. Tiled(k, C) /\ bp \in C BY <3>3 DEF Good, FreeOf
      <4>2. bp \in Grid BY <4>1, TiledFacts
      <4>3. bp \notin AllocOf(k, C) BY <3>3 DEF FreeOf, AllocOf, ALLOC, FREE
      <4> QED BY <4>2, <4>3, <3>3, GridWords
    <3>6. PICK g : g = place(k, bp, size) OBVIOUS
    <3>7. r = [heap |-> g, ptr |-> NEXT_PTR(bp)]
      BY <3>1, <3>2, <3>5, <3>6, <2>1 DEF Placed
    <3>8. /\ r.heap = g /\ r.ptr = NEXT_PTR(bp) /\ PREV_PTR(r.ptr) = bp /\ r.ptr # NULL
      BY <3>5, <3>7, PayloadPointer
    <3>9. PICK D : /\ Good(g, D, FreeOf(g, D))
                   /\ AllocOf(g, D) = AllocOf(k, C) \cup {bp}
                   /\ SameFrame(k, g) /\ GET_SIZE(g, bp) = size
                   /\ Kept(k, g, AllocOf(k, C))
                   /\ \A a \in Grid : a # bp /\ GET_STATUS(k, a) = FREE => GET_STATUS(g, a) = FREE
      <4>1. size <= GET_SIZE(k, bp)
        <5>1. GET_SIZE(k, bp) \in Nat BY <3>3 DEF Good, Tiled, Tile, IsBlock, FreeOf
        <5> QED BY <5>1, <3>4, <1>2
      <4> QED BY <4>1, <3>3, <3>6, <1>2, PlaceEffect
    <3>10. Kept(h, g, AllocOf(h, B))
      <4>1. AllocOf(h, B) \subseteq B /\ Tiled(h, B) BY DEF AllocOf, Good
      <4>2. Kept(k, g, AllocOf(h, B)) BY <3>3, <3>9
      <4> QED BY <4>1, <4>2, <3>4, KeptTwice
    <3>11. Allocated(h, AllocOf(h, B), r, n, D)
      <4>1. g.policy = h.policy BY <3>4, <3>9 DEF SameFrame
      <4>2. AllocOf(g, D) = AllocOf(h, B) \cup {bp} BY <3>3, <3>9
      <4>3. r = [heap |-> r.heap, ptr |-> r.ptr] BY <3>7, <3>8
      <4> QED BY <4>1, <4>2, <4>3, <3>5, <3>8, <3>9, <3>10, <1>1 DEF Allocated
    <3>12. Marked(h, g, bp)
      <4>1. g.heap_end = k.heap_end BY <3>9 DEF SameFrame
      <4>2. bp <= bp /\ bp < bp + GET_SIZE(g, bp)
        BY <3>5, <3>9, <1>2, GridWords
      <4>3. ASSUME NEW a \in Grid, ~ (bp <= a /\ a < bp + GET_SIZE(g, bp)),
                   GET_STATUS(h, a) = FREE \/ a = h.heap_end
            PROVE  GET_STATUS(g, a) = FREE \/ a = g.heap_end
        <5>1. a # bp BY <4>2, <4>3
        <5>2. GET_STATUS(k, a) = FREE \/ a = k.heap_end BY <4>3, <3>4
        <5> QED BY <5>1, <5>2, <4>1, <3>9
      <4> QED BY <4>3 DEF Marked
    <3> QED BY <3>8, <3>11, <3>12
  <2> QED BY <2>3, <2>4
<1> QED BY <1>5, <1>6

\* The caller of malloc writes the payload of the block it got.
LEMMA FilledEffect ==
  ASSUME NEW h, NEW A, NEW k, NEW n, NEW C, Allocated(h, A, k, n, C),
         NEW g, OnlyPayload(k.heap, g, PREV_PTR(k.ptr)),
         NEW r, r = [heap |-> g, ptr |-> k.ptr], NEW B, Tiled(h, B), A \subseteq B
  PROVE  /\ Allocated(h, A, r, n, C)
         /\ Marked(h, k.heap, PREV_PTR(k.ptr)) => Marked(h, g, PREV_PTR(k.ptr))
<1>1. PICK bp : bp = PREV_PTR(k.ptr) OBVIOUS
<1>2. PICK kh : kh = k.heap OBVIOUS
<1>3. r.heap = g /\ r.ptr = k.ptr /\ PREV_PTR(r.ptr) = bp BY <1>1
<1>4. /\ Good(kh, C, FreeOf(kh, C)) /\ kh.policy = h.policy /\ bp \notin A
      /\ AllocOf(kh, C) = A \cup {bp} /\ GET_SIZE(kh, bp) = BlockSize(n) /\ Kept(h, kh, A)
      /\ k.ptr # NULL
  BY <1>1, <1>2 DEF Allocated
<1>5. OnlyPayload(kh, g, bp) /\ bp \in AllocOf(kh, C) /\ bp \in C
  BY <1>1, <1>2, <1>4 DEF AllocOf
<1>6. /\ Good(g, C, FreeOf(g, C)) /\ AllocOf(g, C) = AllocOf(kh, C)
      /\ GET_SIZE(g, bp) = GET_SIZE(kh, bp) /\ NEXT_BLKP(g, bp) = NEXT_BLKP(kh, bp)
      /\ Kept(kh, g, AllocOf(kh, C) \ {bp})
  BY <1>4, <1>5, PayloadEffect
<1>7. Kept(h, g, A)
  <2>1. AllocOf(kh, C) \ {bp} = A BY <1>4
  <2> QED BY <2>1, <1>4, <1>6, KeptTwice
<1>8. g.policy = h.policy /\ g.heap_end = kh.heap_end
  BY <1>4, <1>5 DEF OnlyPayload, SameFrame
<1>9. Allocated(h, A, r, n, C)
  <2>1. r = [heap |-> r.heap, ptr |-> r.ptr] OBVIOUS
  <2>2. r.ptr = NEXT_PTR(bp) BY <1>1, <1>3 DEF Allocated
  <2> QED BY <2>1, <2>2, <1>3, <1>4, <1>6, <1>7, <1>8 DEF Allocated
<1>10. ASSUME Marked(h, kh, bp) PROVE Marked(h, g, bp)
  <2> SUFFICES ASSUME NEW a \in Grid, ~ (bp <= a /\ a < bp + GET_SIZE(g, bp)),
                      GET_STATUS(h, a) = FREE \/ a = h.heap_end
               PROVE  GET_STATUS(g, a) = FREE \/ a = g.heap_end
    BY DEF Marked
  <2> ~ (bp <= a /\ a < bp + GET_SIZE(kh, bp)) BY <1>6
  <2>1. GET_STATUS(kh, a) = FREE \/ a = kh.heap_end BY <1>10 DEF Marked
  <2>2. a \in Address /\ a \in Nat BY GridWords
  <2>3. ~ (bp < a /\ a < NEXT_BLKP(kh, bp) - 8)
    <3>1. /\ bp \in Nat /\ NEXT_BLKP(kh, bp) \in Nat
          /\ NEXT_BLKP(kh, bp) = bp + GET_SIZE(kh, bp)
      BY <1>4, <1>5, TileFacts DEF Good, Tiled
    <3> QED BY <3>1, <2>2
  <2>4. GET(g, a) = GET(kh, a) BY <2>2, <2>3, <1>5 DEF OnlyPayload
  <2>5. GET_STATUS(g, a) = GET_STATUS(kh, a) BY <2>4, SameTag
  <2> QED BY <2>1, <2>5, <1>8
<1> QED BY <1>1, <1>2, <1>9, <1>10

\* What calloc does: a new block, and zeros in it.
LEMMA CallocEffect ==
  ASSUME NEW h, NEW B, Good(h, B, FreeOf(h, B)), NEW m \in Nat, NEW n \in Nat,
         NEW bytes \in Nat, bytes = m * n, bytes + 47 < SizeLimit,
         NEW r, r = calloc(h, m, n)
  PROVE  \/ r = Fails(h)
         \/ /\ \E C : Allocated(h, AllocOf(h, B), r, bytes, C)
            /\ Marked(h, r.heap, PREV_PTR(r.ptr))
            /\ \A a \in Address : r.ptr <= a /\ a + 8 <= r.ptr + bytes => GET(r.heap, a) = 0
<1>1. bytes % SIZE_MOD = bytes
  <2>1. SIZE_MOD \in Nat /\ SizeLimit \in Nat /\ SizeLimit < SIZE_MOD
    BY LimitIs, MemMgrAssumption
  <2> QED BY <2>1
<1>2. PICK k : k = malloc(h, bytes) OBVIOUS
<1>3. r = Cleared(k, bytes)
  <2>1. (m * n) % SIZE_MOD = bytes BY <1>1
  <2> QED BY <2>1, <1>2 DEF calloc
<1>4. CASE k = Fails(h)
  <2>1. k.ptr = NULL BY <1>4 DEF Fails
  <2> QED BY <2>1, <1>3, <1>4 DEF Cleared
<1>5. CASE k # Fails(h)
  <2>1. PICK C : Allocated(h, AllocOf(h, B), k, bytes, C) BY <1>2, <1>5, MallocEffect
  <2>2. Marked(h, k.heap, PREV_PTR(k.ptr)) BY <1>2, <1>5, MallocEffect
  <2>3. PICK bp : bp = PREV_PTR(k.ptr) OBVIOUS
  <2>4. PICK kh : kh = k.heap OBVIOUS
  <2>5. /\ k = [heap |-> kh, ptr |-> k.ptr] /\ Good(kh, C, FreeOf(kh, C))
        /\ AllocOf(kh, C) = AllocOf(h, B) \cup {bp} /\ GET_SIZE(kh, bp) = BlockSize(bytes)
        /\ k.ptr # NULL
    BY <2>1, <2>3, <2>4 DEF Allocated
  <2>6. bp \in C /\ Tiled(kh, C) BY <2>5 DEF AllocOf, Good
  <2>7. bp \in Grid /\ bp \in Nat /\ IsHeap(kh) BY <2>6, TiledFacts DEF Tiled
  <2>8. k.ptr = NEXT_PTR(bp) /\ k.ptr = bp + 8
    <3>1. k.ptr = NEXT_PTR(bp) BY <2>1, <2>3 DEF Allocated
    <3> QED BY <3>1 DEF NEXT_PTR, TYPE_SIZE
  <2>9. PICK g : g = memset(kh, NEXT_PTR(bp), 0, bytes) OBVIOUS
  <2>10. /\ BlockSize(bytes) \in Nat /\ BlockSize(bytes) >= bytes + 16
         /\ NEXT_BLKP(kh, bp) = bp + GET_SIZE(kh, bp)
    BY <2>6, BlockSizeIs, TileFacts DEF Tiled
  <2>11. /\ OnlyPayload(kh, g, bp)
         /\ \A a \in Address : bp + 8 <= a /\ a + 8 <= bp + 8 + bytes => GET(g, a) = 0
    BY <2>5, <2>7, <2>9, <2>10, MemsetEffect
  <2>12. r = [heap |-> g, ptr |-> k.ptr]
    BY <2>4, <2>5, <2>8, <2>9, <1>3 DEF Cleared
  <2>13. r.heap = g /\ r.ptr = k.ptr BY <2>12
  <2>14. Allocated(h, AllocOf(h, B), r, bytes, C) /\ Marked(h, g, bp)
    <3>1. AllocOf(h, B) \subseteq B /\ Tiled(h, B) BY DEF AllocOf, Good
    <3>2. OnlyPayload(k.heap, g, PREV_PTR(k.ptr)) BY <2>3, <2>4, <2>11
    <3> QED BY <3>1, <3>2, <2>1, <2>2, <2>3, <2>12, FilledEffect
  <2> QED BY <2>3, <2>8, <2>11, <2>13, <2>14
<1> QED BY <1>4, <1>5

\* All free blocks of g are in the list, and A are the blocks it has allocated.
Allocates(g, A, C) == Good(g, C, FreeOf(g, C)) /\ AllocOf(g, C) = A

\* What free does to an allocated block.
LEMMA FreeEffect ==
  ASSUME NEW h, NEW B, Good(h, B, FreeOf(h, B)), NEW bp \in AllocOf(h, B),
         NEW g, g = free(h, NEXT_PTR(bp))
  PROVE  /\ \E C : Allocates(g, AllocOf(h, B) \ {bp}, C)
         /\ g.policy = h.policy /\ Kept(h, g, AllocOf(h, B) \ {bp})
         /\ GET_STATUS(g, bp) = FREE \/ bp = g.heap_end
<1>1. PICK q : q = NEXT_BLKP(h, bp) OBVIOUS
<1>2. Tiled(h, B) /\ bp \in B /\ GET_STATUS(h, bp) = ALLOC /\ Listed(h, FreeOf(h, B))
  BY DEF Good, AllocOf
<1>3. Tile(h, B, heap_start, h.heap_end) /\ IsHeap(h) BY <1>2 DEF Tiled
<1>4. q \in B \cup {h.heap_end} BY <1>1, <1>2, <1>3 DEF Tile
<1>5. /\ bp \in Grid /\ bp \in Nat /\ q \in Grid /\ q \in Nat /\ bp + 32 <= q
      /\ GET_SIZE(h, bp) = q - bp
  BY <1>1, <1>2, <1>3, TileFacts
<1>6. PICK n : n = GET_SIZE(h, bp) OBVIOUS
<1>7. n \in Nat /\ n % 32 = 0 /\ n >= 32 /\ q = bp + n
  <2>1. IsBlock(h, bp) BY <1>2, <1>3 DEF Tile
  <2> QED BY <2>1, <1>5, <1>6 DEF IsBlock
<1>8. \A b \in B : b # bp => b \in Rest(B, bp, q)
  <2> SUFFICES ASSUME NEW b \in B, b # bp PROVE b < bp \/ q <= b
    BY DEF Rest
  <2>1. b \in Nat /\ (bp < b => q <= b) BY <1>1, <1>2, Apart
  <2> QED BY <2>1, <1>5
<1>9. PICK k : k = PutTags(h, bp, n, FREE) OBVIOUS
<1>10. PICK r : r = coalesce(k, bp, TRUE) OBVIOUS
<1>11. g = r.heap
  <2>1. PREV_PTR(NEXT_PTR(bp)) = bp /\ NEXT_PTR(bp) # NULL BY <1>5, PayloadPointer
  <2>2. GET_STATUS(h, bp) # FREE BY <1>2 DEF ALLOC, FREE
  <2> QED BY <2>1, <2>2, <1>6, <1>9, <1>10 DEF free
<1>12. /\ SameFrame(h, k)
       /\ GET(k, bp) = PACK(n, FREE) /\ GET(k, bp + n - 8) = PACK(n, FREE)
       /\ GET_STATUS(k, bp) = FREE
       /\ \A a \in Address : a # bp /\ a # bp + n - 8 => GET(k, a) = GET(h, a)
  <2>1. FREE \in {ALLOC, FREE} /\ bp + n \in Grid BY <1>5, <1>7
  <2> QED BY <2>1, <1>3, <1>5, <1>7, <1>9, PutTagsEffect
<1>13. SameOutside(h, k, bp, q)
  <2> SUFFICES ASSUME NEW a \in Address, a < bp \/ q <= a PROVE a # bp /\ a # bp + n - 8
    BY <1>12 DEF SameOutside
  <2>1. a \in Nat BY HeapStart DEF Address
  <2> QED BY <2>1, <1>5, <1>7
<1>14. Tile(k, {bp}, bp, q)
  <2>1. q - bp = n /\ q - 8 = bp + n - 8 /\ bp < q BY <1>5, <1>7
  <2>2. FREE \in {ALLOC, FREE} OBVIOUS
  <2> QED BY <2>1, <2>2, <1>5, <1>12, TileOne
<1>15. \A x \in FreeOf(h, B) : x < bp \/ q <= x
  <2> SUFFICES ASSUME NEW x \in FreeOf(h, B) PROVE x < bp \/ q <= x
    OBVIOUS
  <2>1. x \in B /\ x # bp BY <1>2 DEF FreeOf, ALLOC, FREE
  <2> QED BY <2>1, <1>8 DEF Rest
<1>16. bp < q BY <1>5
<1>17. /\ Good(k, Rest(B, bp, q) \cup {bp}, FreeOf(h, B))
       /\ SameBlocks(h, k, Rest(B, bp, q))
  BY <1>2, <1>4, <1>13, <1>14, <1>15, <1>16, Repartition
<1>18. Rest(B, bp, q) \cup {bp} = B
  <2>1. Rest(B, bp, q) \subseteq B BY DEF Rest
  <2> QED BY <2>1, <1>2, <1>8
<1>19. \A b \in B : b # bp => GET_STATUS(k, b) = GET_STATUS(h, b)
  BY <1>8, <1>17 DEF SameBlocks
<1>20. /\ bp \in FreeOf(k, B) /\ FreeOf(k, B) \ {bp} = FreeOf(h, B)
       /\ AllocOf(k, B) = AllocOf(h, B) \ {bp}
  BY <1>2, <1>12, <1>19 DEF FreeOf, AllocOf, ALLOC, FREE
<1>21. Good(k, B, FreeOf(k, B) \ {bp}) BY <1>17, <1>18, <1>20
<1>22. Kept(h, k, AllocOf(h, B) \ {bp})
  <2>1. AllocOf(h, B) \ {bp} \subseteq Rest(B, bp, q) BY <1>8 DEF AllocOf
  <2> QED BY <2>1, <1>2, <1>4, <1>13, OutsideKept
<1>23. PICK C : Coalesced(k, AllocOf(k, B), r, C)
  <2>1. TRUE \in BOOLEAN OBVIOUS
  <2> QED BY <2>1, <1>10, <1>20, <1>21, CoalesceEffect
<1>24. /\ Good(g, C, FreeOf(g, C)) /\ AllocOf(g, C) = AllocOf(h, B) \ {bp}
       /\ g.policy = k.policy /\ Kept(k, g, AllocOf(h, B) \ {bp}) /\ StaysFree(k, g)
  BY <1>11, <1>20, <1>23 DEF Coalesced
<1>25. Kept(h, g, AllocOf(h, B) \ {bp})
  <2>1. AllocOf(h, B) \ {bp} \subseteq B BY DEF AllocOf
  <2> QED BY <2>1, <1>2, <1>22, <1>24, KeptTwice
<1>26. GET_STATUS(g, bp) = FREE \/ bp = g.heap_end BY <1>5, <1>12, <1>24 DEF StaysFree
<1>27. g.policy = h.policy BY <1>12, <1>24 DEF SameFrame
<1>28. Allocates(g, AllocOf(h, B) \ {bp}, C) BY <1>24 DEF Allocates
<1> QED BY <1>24, <1>25, <1>26, <1>27, <1>28

\* The payload of r starts like that of block bp of h.
Copied(h, bp, r, n) ==
  \A d \in Nat : d % 8 = 0 /\ d + 24 <= GET_SIZE(h, bp) /\ d + 8 <= n =>
    GET(r.heap, r.ptr + d) = GET(h, bp + 8 + d)

\* What realloc returns for n bytes in place of block bp of h.
Reallocates(h, A, bp, r, n) ==
  /\ \E C : Allocated(h, A, r, n, C)
  /\ Copied(h, bp, r, n)
  /\ r.ptr = NEXT_PTR(bp) => Marked(h, r.heap, bp)
  /\ r.ptr # NEXT_PTR(bp) => GET_STATUS(r.heap, bp) = FREE \/ bp = r.heap.heap_end

\* Words of a payload.
LEMMA PayloadWord ==
  ASSUME NEW h, NEW B, Tiled(h, B), NEW b \in B, NEW d \in Nat, d % 8 = 0,
         d + 24 <= GET_SIZE(h, b), NEW a, a = b + 8 + d
  PROVE  /\ a \in Address /\ a \in Nat /\ b \in Nat /\ b < a
         /\ NEXT_BLKP(h, b) \in Nat /\ a + 16 <= NEXT_BLKP(h, b)
<1>1. Tile(h, B, heap_start, h.heap_end) BY DEF Tiled
<1>2. PICK q : q = NEXT_BLKP(h, b) OBVIOUS
<1>3. /\ b \in Grid /\ b \in Nat /\ q \in Nat /\ q \in Grid /\ GET_SIZE(h, b) = q - b
  BY <1>1, <1>2, TileFacts
<1>4. b % 32 = 0 /\ 32 <= b /\ q + 32 < ds_heap_end /\ ds_heap_end \in Int
  BY <1>3, HeapStart DEF Grid, BS, first
<1>5. a \in Nat /\ b < a /\ a + 16 <= q BY <1>3
<1>6. a % 8 = 0 BY <1>3, <1>4
<1>7. a \in Address
  <2>1. 32 <= a /\ a <= ds_heap_end - 1 BY <1>3, <1>4, <1>5
  <2> QED BY <2>1, <1>4, <1>5, <1>6 DEF Address, first, TYPE_SIZE
<1> QED BY <1>2, <1>3, <1>5, <1>7

\* A block that is resized where it is.
LEMMA InPlace ==
  ASSUME NEW h, NEW B, Good(h, B, FreeOf(h, B)), NEW bp \in AllocOf(h, B),
         NEW n \in Nat, n + 47 < SizeLimit,
         NEW k, SameFrame(h, k), \A a \in Grid : GET_STATUS(k, a) = GET_STATUS(h, a),
         Kept(h, k, AllocOf(h, B)),
         NEW g, NEW C, Carved(k, AllocOf(h, B) \ {bp}, bp, BlockSize(n), g, C),
         NEW r, r = [heap |-> g, ptr |-> NEXT_PTR(bp)]
  PROVE  Reallocates(h, AllocOf(h, B) \ {bp}, bp, r, n)
<1>1. PICK size : size = BlockSize(n) OBVIOUS
<1>2. size \in Nat /\ size >= n + 16 BY <1>1, BlockSizeIs
<1>3. PICK A : A = AllocOf(h, B) \ {bp} OBVIOUS
<1>4. Tiled(h, B) /\ bp \in B /\ A \subseteq B BY <1>3 DEF Good, AllocOf
<1>5. /\ bp \in Grid /\ bp \in Nat /\ NEXT_PTR(bp) = bp + 8 /\ PREV_PTR(NEXT_PTR(bp)) = bp
      /\ NEXT_PTR(bp) # NULL
  BY <1>4, TiledFacts, PayloadPointer
<1>6. /\ r.heap = g /\ r.ptr = NEXT_PTR(bp) /\ r = [heap |-> r.heap, ptr |-> r.ptr]
      /\ PREV_PTR(r.ptr) = bp
  BY <1>5
<1>7. /\ Good(g, C, FreeOf(g, C)) /\ AllocOf(g, C) = A \cup {bp}
      /\ SameFrame(k, g) /\ GET_SIZE(g, bp) = size
      /\ Kept(k, g, A)
      /\ \A a \in Address : bp < a /\ a < bp + size - 8 => GET(g, a) = GET(k, a)
      /\ \A a \in Grid : a # bp /\ GET_STATUS(k, a) = FREE => GET_STATUS(g, a) = FREE
  BY <1>1, <1>3 DEF Carved
<1>8. Allocated(h, A, r, n, C)
  <2>1. bp \notin A BY <1>3
  <2>2. g.policy = h.policy BY <1>7 DEF SameFrame
  <2>3. Kept(h, k, A) BY <1>3 DEF Kept
  <2>4. Kept(h, g, A) BY <2>3, <1>4, <1>7, KeptTwice
  <2> QED BY <2>1, <2>2, <2>4, <1>1, <1>5, <1>6, <1>7 DEF Allocated
<1>9. Copied(h, bp, r, n)
  <2> SUFFICES ASSUME NEW d \in Nat, d % 8 = 0, d + 24 <= GET_SIZE(h, bp), d + 8 <= n
               PROVE  GET(g, bp + 8 + d) = GET(h, bp + 8 + d)
    BY <1>5, <1>6 DEF Copied
  <2>1. PICK a : a = bp + 8 + d OBVIOUS
  <2>2. /\ a \in Address /\ a \in Nat /\ bp < a
        /\ NEXT_BLKP(h, bp) \in Nat /\ a + 16 <= NEXT_BLKP(h, bp)
    BY <2>1, <1>4, PayloadWord
  <2>3. GET(k, a) = GET(h, a)
    <3>1. bp \in AllocOf(h, B) /\ bp <= a /\ a < NEXT_BLKP(h, bp) BY <2>2, <1>5
    <3> QED BY <3>1, <2>2 DEF Kept
  <2>4. a < bp + size - 8 BY <2>1, <1>2, <1>5
  <2> QED BY <2>1, <2>2, <2>3, <2>4, <1>7
<1>10. Marked(h, g, bp)
  <2> SUFFICES ASSUME NEW a \in Grid, ~ (bp <= a /\ a < bp + GET_SIZE(g, bp)),
                      GET_STATUS(h, a) = FREE \/ a = h.heap_end
               PROVE  GET_STATUS(g, a) = FREE \/ a = g.heap_end
    BY DEF Marked
  <2>1. a # bp
    <3>1. bp <= bp /\ bp < bp + GET_SIZE(g, bp) BY <1>2, <1>5, <1>7
    <3> QED BY <3>1
  <2>2. g.heap_end = h.heap_end BY <1>7 DEF SameFrame
  <2> QED BY <2>1, <2>2, <1>7
<1> QED BY <1>3, <1>6, <1>8, <1>9, <1>10 DEF Reallocates

\* The end of a block is split off.
LEMMA ShortenEffect ==
  ASSUME NEW h, NEW B, Good(h, B, FreeOf(h, B)), NEW bp \in AllocOf(h, B),
         NEW n \in Nat, n + 47 < SizeLimit, BlockSize(n) <= GET_SIZE(h, bp),
         NEW r, r = [heap |-> Shorten(h, bp, BlockSize(n)), ptr |-> NEXT_PTR(bp)]
  PROVE  Reallocates(h, AllocOf(h, B) \ {bp}, bp, r, n)
<1>1. PICK size : size = BlockSize(n) OBVIOUS
<1>2. size \in Nat /\ size % 32 = 0 /\ size >= 32 BY <1>1, BlockSizeIs
<1>3. PICK q : q = NEXT_BLKP(h, bp) OBVIOUS
<1>4. PICK g : g = Shorten(h, bp, size) OBVIOUS
<1>5. Tiled(h, B) /\ bp \in B /\ GET_STATUS(h, bp) = ALLOC BY DEF Good, AllocOf
<1>6. Tile(h, B, heap_start, h.heap_end) /\ IsHeap(h) BY <1>5 DEF Tiled
<1>7. q \in B \cup {h.heap_end} BY <1>3, <1>5, <1>6 DEF Tile
<1>8. bp \in Nat /\ q \in Nat /\ bp + 32 <= q /\ GET_SIZE(h, bp) = q - bp
  BY <1>3, <1>5, <1>6, TileFacts
<1>9. \A b \in B : b \in Rest(B, bp, q) <=> b # bp
  <2> SUFFICES ASSUME NEW b \in B PROVE b < bp \/ q <= b <=> b # bp
    BY DEF Rest
  <2>1. b \in Nat /\ (bp < b => q <= b) BY <1>3, <1>5, Apart
  <2> QED BY <2>1, <1>8
<1>10. FreeOf(h, B) \cap Rest(B, bp, q) = FreeOf(h, B)
  <2>1. bp \notin FreeOf(h, B) /\ FreeOf(h, B) \subseteq B BY <1>5 DEF FreeOf, ALLOC, FREE
  <2> QED BY <2>1, <1>9
<1>11. AllocOf(h, B) \cap Rest(B, bp, q) = AllocOf(h, B) \ {bp}
  <2>1. AllocOf(h, B) \subseteq B BY DEF AllocOf
  <2> QED BY <2>1, <1>9
<1>12. PICK left : left = GET_SIZE(h, bp) - size OBVIOUS
<1>13. g = Remainder(PutTags(h, bp, size, ALLOC), bp, left)
  BY <1>4, <1>12 DEF Shorten
<1>14. left = q - (bp + size) /\ bp + size <= q /\ bp < q
  BY <1>1, <1>2, <1>8, <1>12
<1>15. PICK C : Carved(h, AllocOf(h, B) \ {bp}, bp, size, g, C)
  <2>1. Good(h, B, FreeOf(h, B) \cap Rest(B, bp, q)) BY <1>10
  <2>2. \E C : Carved(h, AllocOf(h, B) \cap Rest(B, bp, q), bp, size, g, C)
    BY <2>1, <1>2, <1>5, <1>7, <1>13, <1>14, CarveEffect
  <2> QED BY <2>2, <1>11
<1>16. SameFrame(h, h) /\ Kept(h, h, AllocOf(h, B)) BY <1>6 DEF SameFrame, Kept
<1>17. r = [heap |-> g, ptr |-> NEXT_PTR(bp)] BY <1>1, <1>4
<1> QED BY <1>1, <1>15, <1>16, <1>17, InPlace

\* The free block behind is taken in.
LEMMA ExpandEffect ==
  ASSUME NEW h, NEW B, Good(h, B, FreeOf(h, B)), NEW bp \in AllocOf(h, B),
         NEW n \in Nat, n + 47 < SizeLimit, CanExpand(h, bp, BlockSize(n)),
         NEW r, r = [heap |-> Expand(h, bp, BlockSize(n)), ptr |-> NEXT_PTR(bp)]
  PROVE  Reallocates(h, AllocOf(h, B) \ {bp}, bp, r, n)
<1>1. PICK size : size = BlockSize(n) OBVIOUS
<1>2. size \in Nat /\ size % 32 = 0 /\ size >= 32 BY <1>1, BlockSizeIs
<1>3. PICK next : next = NEXT_BLKP(h, bp) OBVIOUS
<1>4. PICK q : q = NEXT_BLKP(h, next) OBVIOUS
<1>5. PICK g : g = Expand(h, bp, size) OBVIOUS
<1>6. PICK F : F = FreeOf(h, B) OBVIOUS
<1>7. /\ Tiled(h, B) /\ bp \in B /\ GET_STATUS(h, bp) = ALLOC /\ Listed(h, F)
      /\ F \subseteq B /\ bp \notin F
  BY <1>6 DEF Good, AllocOf, FreeOf, ALLOC, FREE
<1>8. Tile(h, B, heap_start, h.heap_end) /\ IsHeap(h) BY <1>7 DEF Tiled
<1>9. next \in F /\ next \in B BY <1>1, <1>3, <1>6, <1>7, FreeNext DEF CanExpand
<1>10. q \in B \cup {h.heap_end} BY <1>4, <1>8, <1>9 DEF Tile
<1>11. /\ bp \in Nat /\ next \in Nat /\ q \in Nat /\ bp + 32 <= next /\ next + 32 <= q
       /\ GET_SIZE(h, bp) = next - bp /\ GET_SIZE(h, next) = q - next
  BY <1>3, <1>4, <1>7, <1>8, <1>9, TileFacts
<1>12. \A b \in B : b \in Rest(B, bp, q) <=> b # bp /\ b # next
  <2> SUFFICES ASSUME NEW b \in B PROVE b < bp \/ q <= b <=> b # bp /\ b # next
    BY DEF Rest
  <2>1. b \in Nat /\ (bp < b => next <= b) /\ (next < b => q <= b)
    BY <1>3, <1>4, <1>7, <1>9, Apart
  <2> QED BY <2>1, <1>11
<1>13. PICK k : k = Unlink(h, next) OBVIOUS
<1>14. Listable(F) /\ F \subseteq Grid BY <1>7, TiledFacts DEF Listable
<1>15. Listed(k, F \ {next}) /\ OnlyPointers(h, k, F)
  BY <1>7, <1>8, <1>9, <1>13, <1>14, UnlinkEffect
<1>16. /\ Tiled(k, B) /\ FreeOf(k, B) = F /\ AllocOf(k, B) = AllocOf(h, B)
       /\ \A a \in Grid : GET_STATUS(k, a) = GET_STATUS(h, a)
  BY <1>6, <1>7, <1>14, <1>15, PointersKeep
<1>17. Kept(h, k, AllocOf(h, B)) BY <1>6, <1>7, <1>15, PointersInFree
<1>18. F \cap Rest(B, bp, q) = F \ {next} BY <1>7, <1>12
<1>19. AllocOf(h, B) \cap Rest(B, bp, q) = AllocOf(h, B) \ {bp}
  <2>1. AllocOf(h, B) \subseteq B BY DEF AllocOf
  <2>2. next \notin AllocOf(h, B) BY <1>6, <1>9 DEF FreeOf, AllocOf, ALLOC, FREE
  <2> QED BY <2>1, <2>2, <1>12
<1>20. Good(k, B, FreeOf(k, B) \cap Rest(B, bp, q))
  BY <1>15, <1>16, <1>18 DEF Good
<1>27. Both(h, bp) = q - bp
  <2>1. GET_SIZE(h, bp) + GET_SIZE(h, next) = q - bp BY <1>11
  <2>2. bp \in Grid /\ q \in Grid /\ bp <= q BY <1>4, <1>7, <1>8, <1>9, <1>11, TileFacts
  <2>3. (q - bp) % SIZE_MOD = q - bp BY <2>2, SignedGap
  <2> QED BY <2>1, <2>3, <1>3 DEF Both
<1>21. PICK left : left = Both(h, bp) - size OBVIOUS
<1>22. g = Remainder(PutTags(k, bp, size, ALLOC), bp, left)
  BY <1>3, <1>5, <1>13, <1>21 DEF Expand
<1>23. left = q - (bp + size) /\ bp + size <= q /\ bp < q
  <2>1. Both(h, bp) >= size BY <1>1 DEF CanExpand
  <2> QED BY <2>1, <1>27, <1>2, <1>11, <1>21
<1>24. PICK C : Carved(k, AllocOf(h, B) \ {bp}, bp, size, g, C)
  <2>1. q \in B \cup {k.heap_end} BY <1>10, <1>15 DEF OnlyPointers, SameFrame
  <2>2. \E C : Carved(k, AllocOf(k, B) \cap Rest(B, bp, q), bp, size, g, C)
    BY <2>1, <1>2, <1>7, <1>20, <1>22, <1>23, CarveEffect
  <2> QED BY <2>2, <1>16, <1>19
<1>25. SameFrame(h, k) BY <1>15 DEF OnlyPointers
<1>26. r = [heap |-> g, ptr |-> NEXT_PTR(bp)] BY <1>1, <1>5
<1> QED BY <1>1, <1>16, <1>17, <1>24, <1>25, <1>26, InPlace

\* The payload is copied to a new block, and the old block is freed.
LEMMA MovedEffect ==
  ASSUME NEW h, NEW B, Good(h, B, FreeOf(h, B)), NEW bp \in AllocOf(h, B),
         NEW n \in Nat, n + 47 < SizeLimit, GET_SIZE(h, bp) < BlockSize(n),
         NEW r, r = Moved(bp, malloc(h, n))
  PROVE  r = Fails(h) \/ Reallocates(h, AllocOf(h, B) \ {bp}, bp, r, n)
<1>1. PICK k : k = malloc(h, n) OBVIOUS
<1>2. CASE k = Fails(h)
  <2>1. k.ptr = NULL BY <1>2 DEF Fails
  <2> QED BY <2>1, <1>1, <1>2 DEF Moved
<1>3. CASE k # Fails(h)
  <2>1. PICK A : A = AllocOf(h, B) OBVIOUS
  <2>2. PICK C : Allocated(h, A, k, n, C) BY <2>1, <1>1, <1>3, MallocEffect
  <2>3. PICK np : np = PREV_PTR(k.ptr) OBVIOUS
  <2>4. PICK kh : kh = k.heap OBVIOUS
  <2>5. PICK size : size = BlockSize(n) OBVIOUS
  <2>6. /\ k = [heap |-> kh, ptr |-> k.ptr] /\ Good(kh, C, FreeOf(kh, C))
        /\ kh.policy = h.policy
        /\ AllocOf(kh, C) = A \cup {np} /\ GET_SIZE(kh, np) = size
        /\ k.ptr # NULL /\ k.ptr = NEXT_PTR(np) /\ np \notin A /\ Kept(h, kh, A)
    BY <2>2, <2>3, <2>4, <2>5 DEF Allocated
  <2>7. Tiled(h, B) /\ bp \in A /\ bp \in B /\ A \subseteq B BY <2>1 DEF AllocOf, Good
  <2>8. Tiled(kh, C) /\ np \in C /\ bp \in C /\ bp # np BY <2>6, <2>7 DEF AllocOf, Good
  <2>9. np \in Grid /\ np \in Nat /\ bp \in Grid /\ bp \in Nat /\ IsHeap(kh)
    BY <2>8, TiledFacts DEF Tiled
  <2>10. /\ GET_SIZE(kh, bp) = GET_SIZE(h, bp) /\ GET_SIZE(h, bp) \in Nat
         /\ GET_SIZE(h, bp) >= 32 /\ size \in Nat /\ size >= n + 16
         /\ NEXT_BLKP(kh, bp) = NEXT_BLKP(h, bp)
    <3>1. GET_SIZE(kh, bp) = GET_SIZE(h, bp) /\ NEXT_BLKP(kh, bp) = NEXT_BLKP(h, bp)
      BY <2>6, <2>7, KeptHeader
    <3>2. GET_SIZE(h, bp) \in Nat /\ GET_SIZE(h, bp) >= 32
      BY <2>7 DEF Tiled, Tile, IsBlock
    <3> QED BY <3>1, <3>2, <2>5, BlockSizeIs
  <2>11. PICK m \in Nat : m = GET_SIZE(h, bp) - 16 BY <2>10
  <2>12. GET_SIZE(kh, bp) - 2 * TYPE_SIZE = m BY <2>10, <2>11 DEF TYPE_SIZE
  <2>13. /\ m + 16 <= GET_SIZE(kh, np) /\ GET_SIZE(kh, np) \in Nat
         /\ NEXT_BLKP(kh, np) = np + GET_SIZE(kh, np)
    BY <2>5, <2>6, <2>8, <2>10, <2>11, TileFacts DEF Tiled
  <2>14. PICK g : g = memcpy(kh, NEXT_PTR(np), NEXT_PTR(bp), m) OBVIOUS
  <2>15. PICK g2 : g2 = free(g, NEXT_PTR(bp)) OBVIOUS
  <2>16. r = [heap |-> g2, ptr |-> k.ptr]
    BY <2>4, <2>6, <2>12, <2>14, <2>15, <1>1 DEF Moved
  <2>17. /\ OnlyPayload(kh, g, np)
         /\ \A a \in Address : np + 8 <= a /\ a + 8 <= np + 8 + m =>
              GET(g, a) = GET(kh, a - (np + 8) + NEXT_PTR(bp))
    BY <2>9, <2>13, <2>14, MemcpyEffect
  <2>18. PICK k2 : k2 = [heap |-> g, ptr |-> k.ptr] OBVIOUS
  <2>19. k2.heap = g /\ k2.ptr = k.ptr BY <2>18
  <2>20. Allocated(h, A, k2, n, C)
    <3>1. OnlyPayload(k.heap, g, PREV_PTR(k.ptr)) BY <2>3, <2>4, <2>17
    <3> QED BY <3>1, <2>2, <2>7, <2>18, FilledEffect
  <2>21. /\ Good(g, C, FreeOf(g, C)) /\ g.policy = h.policy
         /\ AllocOf(g, C) = A \cup {np} /\ GET_SIZE(g, np) = size /\ Kept(h, g, A)
    BY <2>3, <2>5, <2>19, <2>20 DEF Allocated
  <2>22. bp \in AllocOf(g, C) BY <2>7, <2>21
  <2>23. PICK D : Good(g2, D, FreeOf(g2, D)) /\ AllocOf(g2, D) = AllocOf(g, C) \ {bp}
    <3>1. PICK D : Allocates(g2, AllocOf(g, C) \ {bp}, D)
      BY <2>15, <2>21, <2>22, FreeEffect
    <3> QED BY <3>1 DEF Allocates
  <2>24. /\ g2.policy = g.policy /\ Kept(g, g2, AllocOf(g, C) \ {bp})
         /\ GET_STATUS(g2, bp) = FREE \/ bp = g2.heap_end
    BY <2>15, <2>21, <2>22, FreeEffect
  <2>25. AllocOf(g, C) \ {bp} = (A \ {bp}) \cup {np} BY <2>8, <2>21
  <2>26. Tiled(g, C) /\ AllocOf(g, C) \ {bp} \subseteq C /\ np \in AllocOf(g, C) \ {bp}
    BY <2>21, <2>25 DEF Good, AllocOf
  <2>27. GET_SIZE(g2, np) = size BY <2>21, <2>24, <2>26, KeptHeader
  <2>28. Kept(h, g2, A \ {bp})
    <3>1. Kept(h, g, A \ {bp}) BY <2>21 DEF Kept
    <3>2. Kept(g, g2, A \ {bp}) BY <2>24, <2>25 DEF Kept
    <3>3. A \ {bp} \subseteq B BY <2>7
    <3> QED BY <3>1, <3>2, <3>3, <2>7, KeptTwice
  <2>29. r.heap = g2 /\ r.ptr = k.ptr /\ r = [heap |-> r.heap, ptr |-> r.ptr]
         /\ PREV_PTR(r.ptr) = np
    BY <2>3, <2>16
  <2>30. Allocated(h, A \ {bp}, r, n, D)
    <3>1. np \notin A \ {bp} /\ AllocOf(g2, D) = (A \ {bp}) \cup {np}
      BY <2>6, <2>23, <2>25
    <3>2. g2.policy = h.policy BY <2>21, <2>24
    <3> QED BY <3>1, <3>2, <2>5, <2>6, <2>23, <2>27, <2>28, <2>29 DEF Allocated
  <2>31. k.ptr # NEXT_PTR(bp)
    BY <2>6, <2>8, <2>9, PayloadPointer
  <2>32. Copied(h, bp, r, n)
    <3> SUFFICES ASSUME NEW d \in Nat, d % 8 = 0, d + 24 <= GET_SIZE(h, bp), d + 8 <= n
                 PROVE  GET(g2, np + 8 + d) = GET(h, bp + 8 + d)
      BY <2>6, <2>9, <2>29, PayloadPointer DEF Copied
    <3>1. PICK a : a = np + 8 + d OBVIOUS
    <3>2. PICK b : b = bp + 8 + d OBVIOUS
    <3>3. d + 24 <= GET_SIZE(g, np) BY <2>10, <2>21
    <3>4. /\ a \in Address /\ a \in Nat /\ np < a
          /\ NEXT_BLKP(g, np) \in Nat /\ a + 16 <= NEXT_BLKP(g, np)
      BY <3>1, <3>3, <2>8, <2>26, PayloadWord
    <3>5. /\ b \in Address /\ b \in Nat /\ bp < b
          /\ NEXT_BLKP(h, bp) \in Nat /\ b + 16 <= NEXT_BLKP(h, bp)
      BY <3>2, <2>7, PayloadWord
    <3>6. GET(g2, a) = GET(g, a)
      <4>1. np <= a /\ a < NEXT_BLKP(g, np) BY <3>4, <2>9
      <4> QED BY <4>1, <3>4, <2>24, <2>26 DEF Kept
    <3>7. GET(g, a) = GET(kh, b)
      <4>1. np + 8 <= a /\ a + 8 <= np + 8 + m BY <3>1, <2>9, <2>10, <2>11
      <4>2. a - (np + 8) + NEXT_PTR(bp) = b
        BY <3>1, <3>2, <2>9 DEF NEXT_PTR, TYPE_SIZE
      <4> QED BY <4>1, <4>2, <3>4, <2>17
    <3>8. GET(kh, b) = GET(h, b)
      <4>1. bp <= b /\ b < NEXT_BLKP(h, bp) BY <3>5, <2>9
      <4> QED BY <4>1, <3>5, <2>6, <2>7 DEF Kept
    <3> QED BY <3>1, <3>2, <3>6, <3>7, <3>8
  <2>33. Reallocates(h, A \ {bp}, bp, r, n)
    BY <2>24, <2>29, <2>30, <2>31, <2>32 DEF Reallocates
  <2> QED BY <2>1, <2>33
<1> QED BY <1>2, <1>3

\* What realloc of an allocated block does, for a size above 0.
LEMMA ReallocEffect ==
  ASSUME NEW h, NEW B, Good(h, B, FreeOf(h, B)), NEW bp \in AllocOf(h, B),
         NEW n \in Nat, n # 0, n + 47 < SizeLimit,
         NEW r, r = realloc(h, NEXT_PTR(bp), n)
  PROVE  r = Fails(h) \/ Reallocates(h, AllocOf(h, B) \ {bp}, bp, r, n)
<1>1. Tiled(h, B) /\ bp \in B /\ GET_STATUS(h, bp) = ALLOC BY DEF Good, AllocOf
<1>2. PREV_PTR(NEXT_PTR(bp)) = bp /\ NEXT_PTR(bp) # NULL BY <1>1, TiledFacts, PayloadPointer
<1>3. r = Adjust(h, NEXT_PTR(bp), n)
  <2>1. GET_STATUS(h, bp) # FREE BY <1>1 DEF ALLOC, FREE
  <2> QED BY <2>1, <1>2 DEF realloc
<1>4. PICK old : old = GET_SIZE(h, bp) OBVIOUS
<1>5. PICK new : new = BlockSize(n) OBVIOUS
<1>6. old \in Nat /\ new \in Nat
  <2>1. old \in Nat BY <1>1, <1>4 DEF Tiled, Tile, IsBlock
  <2> QED BY <2>1, <1>5, BlockSizeIs
<1>7. r = CASE old = new -> [heap |-> h, ptr |-> NEXT_PTR(bp)]
            [] old > new -> [heap |-> Shorten(h, bp, new), ptr |-> NEXT_PTR(bp)]
            [] old < new /\ CanExpand(h, bp, new) ->
                 [heap |-> Expand(h, bp, new), ptr |-> NEXT_PTR(bp)]
            [] old < new /\ ~CanExpand(h, bp, new) -> Moved(bp, malloc(h, n))
  BY <1>2, <1>3, <1>4, <1>5 DEF Adjust
<1>8. CASE old = new
  <2>1. r = [heap |-> h, ptr |-> NEXT_PTR(bp)] BY <1>6, <1>7, <1>8
  <2>2. IsHeap(h) BY <1>1 DEF Tiled
  <2>3. SameFrame(h, h) /\ Kept(h, h, AllocOf(h, B)) /\ Kept(h, h, AllocOf(h, B) \ {bp})
    BY <2>2 DEF SameFrame, Kept
  <2>4. (AllocOf(h, B) \ {bp}) \cup {bp} = AllocOf(h, B) OBVIOUS
  <2>5. Carved(h, AllocOf(h, B) \ {bp}, bp, BlockSize(n), h, B)
    BY <2>3, <2>4, <1>4, <1>5, <1>8 DEF Carved
  <2> QED BY <2>1, <2>3, <2>5, InPlace
<1>9. CASE old > new
  <2>1. r = [heap |-> Shorten(h, bp, new), ptr |-> NEXT_PTR(bp)] BY <1>6, <1>7, <1>9
  <2>2. BlockSize(n) <= GET_SIZE(h, bp) BY <1>4, <1>5, <1>6, <1>9
  <2> QED BY <2>1, <2>2, <1>5, ShortenEffect
<1>10. CASE old < new /\ CanExpand(h, bp, new)
  <2>1. r = [heap |-> Expand(h, bp, new), ptr |-> NEXT_PTR(bp)] BY <1>6, <1>7, <1>10
  <2> QED BY <2>1, <1>5, <1>10, ExpandEffect
<1>11. CASE old < new /\ ~CanExpand(h, bp, new)
  <2>1. r = Moved(bp, malloc(h, n)) BY <1>6, <1>7, <1>11
  <2>2. GET_SIZE(h, bp) < BlockSize(n) BY <1>4, <1>5, <1>11
  <2> QED BY <2>1, <2>2, MovedEffect
<1>12. old = new \/ old > new \/ old < new BY <1>6
<1> QED BY <1>8, <1>9, <1>10, <1>11, <1>12

\* The heap that mm_init makes: one block, which is free.
LEMMA InitEffect ==
  ASSUME NEW policy \in {"fp_Implicit", "fp_Explicit"}, NEW g, g = mm_init(policy)
  PROVE  /\ \E C : Allocates(g, {}, C)
         /\ g.policy = policy
<1> DEFINE brk == ds_sbrk(ds_heap_start, CHUNKSIZE)
           h == [policy |-> policy, ds_heap_brk |-> brk, heap_end |-> EndOf(brk),
                 mem |-> [a \in Address |-> 0]]
           h0 == PUT(h, PREV_PTR(heap_start), PACK(0, ALLOC))
           h1 == LastBlock(h0, heap_start, brk)
<1>1. PICK e : e = ds_heap_start + CHUNKSIZE - 32 OBVIOUS
<1>2. /\ ds_heap_start \in Nat /\ ds_heap_start % 32 = 0 /\ MaxHeapSize \in Nat
      /\ CHUNKSIZE \in Nat /\ CHUNKSIZE % 32 = 0 /\ CHUNKSIZE > 64 /\ CHUNKSIZE < MaxHeapSize
      /\ heap_start = ds_heap_start + 32 /\ ds_heap_end = ds_heap_start + MaxHeapSize
      /\ 64 < ds_heap_start
  BY MemMgrAssumption, HeapStart DEF BS, last
<1>3. brk = e + 32 /\ e \in Nat /\ e % 32 = 0 /\ heap_start < e /\ e + 32 < ds_heap_end
  <2>1. ds_heap_start <= ds_heap_start + CHUNKSIZE /\ ds_heap_start + CHUNKSIZE < ds_heap_end
    BY <1>2
  <2>2. brk = ds_heap_start + CHUNKSIZE BY <2>1 DEF ds_sbrk, SbrkFits
  <2> QED BY <2>2, <1>1, <1>2
<1>4. e \in Grid /\ heap_start \in Grid /\ heap_start \in Nat /\ heap_start > 32
  <2>1. first <= e BY <1>2, <1>3 DEF first
  <2> QED BY <2>1, <1>2, <1>3, HeapStart DEF Grid, BS
<1>5. IsHeap(h) /\ h.policy = policy /\ \A a \in Address : GET(h, a) = 0
  BY DEF IsHeap, GET
<1> HIDE DEF h
<1>6. PREV_PTR(heap_start) = heap_start - 8 /\ heap_start - 8 \in Address
  BY <1>4, GridWords DEF PREV_PTR, TYPE_SIZE
<1>7. PACK(0, ALLOC) = 1 BY DEF PACK, ALLOC
<1>8. /\ SameFrame(h, h0) /\ GET(h0, heap_start - 8) = 1
      /\ \A a \in Address : a # heap_start - 8 => GET(h0, a) = 0
  BY <1>5, <1>6, <1>7, PutEffect
<1>9. IsHeap(h0) /\ h0.policy = policy BY <1>5, <1>8 DEF SameFrame
<1> HIDE DEF h0, brk
<1>10. Tile(h0, {}, heap_start, heap_start) BY <1>4 DEF Tile
<1>11. /\ Tiled(h1, {} \cup {heap_start}) /\ GET_STATUS(h1, heap_start) = FREE
  <2>1. h1 = LastBlock(h0, heap_start, e + 32) BY <1>3
  <2> QED BY <2>1, <1>3, <1>4, <1>8, <1>9, <1>10, LastBlockTiles
<1>12. /\ IsHeap(h1) /\ h1.policy = policy
       /\ \A a \in Address : a # heap_start /\ a # e - 8 /\ a # e => GET(h1, a) = GET(h0, a)
  <2>1. h1 = LastBlock(h0, heap_start, e + 32) BY <1>3
  <2> QED BY <2>1, <1>3, <1>4, <1>9, LastBlockEffect
<1> HIDE DEF h1
<1> DEFINE B == {heap_start}
<1>13. Tiled(h1, B) /\ FreeOf(h1, B) = B /\ AllocOf(h1, B) = {}
  <2>1. {} \cup {heap_start} = B OBVIOUS
  <2> QED BY <2>1, <1>11 DEF FreeOf, AllocOf, ALLOC, FREE
<1>14. CASE policy = "fp_Implicit"
  <2>1. g = h1 BY <1>14 DEF mm_init, h1, h0, h, brk
  <2>2. Listed(g, FreeOf(g, B)) BY <2>1, <1>12, <1>14 DEF Listed
  <2>3. Allocates(g, {}, B) BY <2>1, <2>2, <1>13 DEF Allocates, Good
  <2> QED BY <2>1, <2>3, <1>12
<1>15. CASE policy = "fp_Explicit"
  <2>1. PICK hs : hs = heap_start OBVIOUS
  <2> DEFINE g1 == PUT(h1, first + 8, hs)
             g2 == PUT(g1, last + 16, hs)
             g3 == PUT(g2, hs + 8, last)
             g4 == PUT(g3, hs + 16, first)
  <2>2. /\ NEXT_PTR(first) = first + 8 /\ NEXT_NEXT_PTR(last) = last + 16
        /\ NEXT_PTR(hs) = hs + 8 /\ NEXT_NEXT_PTR(hs) = hs + 16
    BY DEF NEXT_PTR, NEXT_NEXT_PTR, TYPE_SIZE
  <2>3. g = g4
    <3>1. policy # "fp_Implicit" BY <1>15
    <3> QED BY <3>1, <2>1, <2>2 DEF mm_init, h1, h0, h, brk
  <2>4. /\ hs \in Grid /\ first \in Grid /\ last \in Grid /\ first # last
        /\ hs # first /\ hs # last /\ first = 32 /\ last = 64
        /\ hs \in Nat /\ hs > 96
    BY <2>1, <1>2, HeapStart
  <2>5. /\ first + 8 \in Address /\ last + 16 \in Address /\ hs + 8 \in Address
        /\ hs + 16 \in Address /\ last + 8 \in Address /\ last \in Address
    BY <2>4, GridWords
  <2>6. /\ SameFrame(h1, g1) /\ GET(g1, first + 8) = hs
        /\ \A a \in Address : a # first + 8 => GET(g1, a) = GET(h1, a)
    BY <2>5, <1>12, PutEffect
  <2>7. IsHeap(g1) BY <2>6 DEF SameFrame
  <2> HIDE DEF g1
  <2>8. /\ SameFrame(g1, g2) /\ GET(g2, last + 16) = hs
        /\ \A a \in Address : a # last + 16 => GET(g2, a) = GET(g1, a)
    BY <2>5, <2>7, PutEffect
  <2>9. IsHeap(g2) BY <2>8 DEF SameFrame
  <2> HIDE DEF g2
  <2>10. /\ SameFrame(g2, g3) /\ GET(g3, hs + 8) = last
         /\ \A a \in Address : a # hs + 8 => GET(g3, a) = GET(g2, a)
    BY <2>5, <2>9, PutEffect
  <2>11. IsHeap(g3) BY <2>10 DEF SameFrame
  <2> HIDE DEF g3
  <2>12. /\ SameFrame(g3, g4) /\ GET(g4, hs + 16) = first
         /\ \A a \in Address : a # hs + 16 => GET(g4, a) = GET(g3, a)
    BY <2>5, <2>11, PutEffect
  <2> HIDE DEF g4
  <2>13. OnlyPointers(h1, g, B)
    <3>1. SameFrame(h1, g) BY <2>3, <2>6, <2>8, <2>10, <2>12 DEF SameFrame
    <3>2. ASSUME NEW a \in Address, ~ Pointer(B, a) PROVE GET(g, a) = GET(h1, a)
      <4>1. a # first + 8 /\ a # last + 16 /\ a # hs + 8 /\ a # hs + 16
        BY <3>2, <2>1 DEF Pointer
      <4> QED BY <4>1, <2>3, <2>6, <2>8, <2>10, <2>12
    <3> QED BY <3>1, <3>2 DEF OnlyPointers
  <2>14. /\ GET(g, first + 8) = hs /\ GET(g, hs + 16) = first
         /\ GET(g, hs + 8) = last /\ GET(g, last + 16) = hs
    <3>1. /\ first + 8 # last + 16 /\ first + 8 # hs + 8 /\ first + 8 # hs + 16
          /\ last + 16 # hs + 8 /\ last + 16 # hs + 16 /\ hs + 8 # hs + 16
      BY <2>4
    <3> QED BY <3>1, <2>3, <2>5, <2>6, <2>8, <2>10, <2>12
  <2>15. GET(g, last + 8) = NULL /\ GET(g, last) = 0
    <3>1. \A a \in {last, last + 8} :
            /\ a # first + 8 /\ a # last + 16 /\ a # hs + 8 /\ a # hs + 16
            /\ a # hs /\ a # e - 8 /\ a # e /\ a # hs - 8 /\ a \in Address
      BY <2>1, <2>4, <2>5, <1>3
    <3>2. \A a \in {last, last + 8} : GET(g, a) = 0
      BY <3>1, <2>1, <2>3, <2>6, <2>8, <2>10, <2>12, <1>8, <1>12
    <3> QED BY <3>2 DEF NULL
  <2> DEFINE c == [i \in 0..1 + 1 |-> IF i = 0 THEN first ELSE IF i = 1 THEN hs ELSE last]
  <2>16. c \in [0..1 + 1 -> Grid] BY <2>4
  <2>17. c[0] = first /\ c[1] = hs /\ c[1 + 1] = last OBVIOUS
  <2>18. Chain(g, B, 1, c)
    <3>1. \A i \in 0..1 : i = 0 \/ i = 1 OBVIOUS
    <3>2. \A i \in 1..1 : i = 1 OBVIOUS
    <3>3. 0 + 1 = 1 OBVIOUS
    <3> HIDE DEF c
    <3>4. \A i \in 0..1 : GET(g, c[i] + 8) = c[i + 1] /\ GET(g, c[i + 1] + 16) = c[i]
      BY <3>1, <3>3, <2>14, <2>17
    <3> QED BY <3>2, <3>4, <2>1, <2>15, <2>17 DEF Chain
  <2>19. Listed(g, B)
    <3> HIDE DEF c, B
    <3>1. 1 \in Nat OBVIOUS
    <3> QED BY <3>1, <2>16, <2>18 DEF Listed
  <2>20. /\ Tiled(g, B) /\ FreeOf(g, B) = FreeOf(h1, B) /\ AllocOf(g, B) = AllocOf(h1, B)
    <3>1. B \subseteq Grid BY <1>4
    <3> QED BY <3>1, <2>13, <1>13, PointersKeep
  <2>21. Allocates(g, {}, B) BY <2>19, <2>20, <1>13 DEF Allocates, Good
  <2> QED BY <2>13, <2>21, <1>12 DEF OnlyPointers, SameFrame
<1> QED BY <1>14, <1>15

------------------------------------------------------------------------------
(* The inductive invariant *)

\* No size that the client passes wraps around in size_t, and none becomes, in
\* extend_heap (memmgr.c:440), a decrement that leaves the break in the segment.
\* Sizes from half of SIZE_MOD up to this limit become decrements that ds_sbrk
\* refuses; of larger ones the theorems below say nothing.
SizesInRange == \A n \in Size : n + 47 < SizeLimit /\ \A m \in Count : m * n + 47 < SizeLimit

\* Slots a with lengths l hold the blocks A of heap h, one each.
Owned(h, A, a, l) ==
  /\ a \in [Slot -> Address \cup {NULL}] /\ l \in [Slot -> Nat]
  /\ \A s \in Slot : a[s] = NULL => l[s] = 0
  /\ \A s \in Slot : a[s] # NULL =>
       /\ PREV_PTR(a[s]) \in A /\ a[s] = NEXT_PTR(PREV_PTR(a[s]))
       /\ GET_SIZE(h, PREV_PTR(a[s])) = BlockSize(l[s]) /\ l[s] + 47 < SizeLimit
  /\ \A b \in A : \E s \in Slot : a[s] = NEXT_PTR(b)
  /\ \A s, t \in Slot : a[s] # NULL /\ a[s] = a[t] => s = t

\* The header in front of p is in no block of the client and says FREE, unless
\* the heap ends there.
SaysFree(h, a, p) ==
  p # NULL =>
    /\ PREV_PTR(p) \in Grid /\ p = NEXT_PTR(PREV_PTR(p))
    /\ ~ Covered(h, a, PREV_PTR(p))
    /\ GET_STATUS(h, PREV_PTR(p)) = FREE \/ PREV_PTR(p) = h.heap_end

\* What holds of the memory manager and its client between two calls.
Sound(h, a, l, p) ==
  /\ h.policy \in Policies
  /\ \E B : Good(h, B, FreeOf(h, B)) /\ Owned(h, AllocOf(h, B), a, l)
  /\ SaysFree(h, a, p)

\* What Remember(p) leaves in stale.
Forget(h, a, p) == IF p # NULL /\ Covered(h, a, PREV_PTR(p)) THEN NULL ELSE p

\* The slots own blocks that keep their sizes.
LEMMA OwnedKept ==
  ASSUME NEW h, NEW B, Tiled(h, B), NEW A, A \subseteq B, NEW a, NEW l, Owned(h, A, a, l),
         NEW g, \A b \in A : GET_SIZE(g, b) = GET_SIZE(h, b)
  PROVE  Owned(g, A, a, l)
BY DEF Owned

\* A slot gives its block back.
LEMMA OwnedLess ==
  ASSUME NEW h, NEW A, A \subseteq Grid, NEW a, NEW l, Owned(h, A, a, l),
         NEW s \in Slot, NEW bp \in A, a[s] = NEXT_PTR(bp),
         NEW a2, a2 = [a EXCEPT ![s] = NULL], NEW l2, l2 = [l EXCEPT ![s] = 0]
  PROVE  Owned(h, A \ {bp}, a2, l2)
<1>1. /\ a \in [Slot -> Address \cup {NULL}] /\ l \in [Slot -> Nat]
      /\ \A t \in Slot : a[t] = NULL => l[t] = 0
      /\ \A t \in Slot : a[t] # NULL =>
           /\ PREV_PTR(a[t]) \in A /\ a[t] = NEXT_PTR(PREV_PTR(a[t]))
           /\ GET_SIZE(h, PREV_PTR(a[t])) = BlockSize(l[t]) /\ l[t] + 47 < SizeLimit
      /\ \A b \in A : \E t \in Slot : a[t] = NEXT_PTR(b)
      /\ \A t, u \in Slot : a[t] # NULL /\ a[t] = a[u] => t = u
  BY DEF Owned
<1>2. a2 \in [Slot -> Address \cup {NULL}] /\ l2 \in [Slot -> Nat] BY <1>1
<1>3. \A t \in Slot : /\ t = s => a2[t] = NULL /\ l2[t] = 0
                      /\ t # s => a2[t] = a[t] /\ l2[t] = l[t]
  BY <1>1
<1>4. \A t \in Slot : a2[t] # NULL => t # s /\ a2[t] = a[t] /\ l2[t] = l[t]
  BY <1>3
<1>5. a[s] # NULL BY PayloadPointer
<1>6. \A t \in Slot : a2[t] # NULL => PREV_PTR(a[t]) # bp
  <2> SUFFICES ASSUME NEW t \in Slot, a2[t] # NULL, PREV_PTR(a[t]) = bp PROVE FALSE
    OBVIOUS
  <2>1. a[t] = NEXT_PTR(bp) /\ t # s BY <1>1, <1>4
  <2> QED BY <2>1, <1>1, <1>5
<1>7. \A b \in A \ {bp} : \E t \in Slot : a2[t] = NEXT_PTR(b)
  <2> SUFFICES ASSUME NEW b \in A \ {bp} PROVE \E t \in Slot : a2[t] = NEXT_PTR(b)
    OBVIOUS
  <2>1. PICK t \in Slot : a[t] = NEXT_PTR(b) BY <1>1
  <2>2. NEXT_PTR(b) # NEXT_PTR(bp) BY PayloadPointer
  <2> QED BY <2>1, <2>2, <1>3
<1>8. \A t, u \in Slot : a2[t] # NULL /\ a2[t] = a2[u] => t = u BY <1>1, <1>4
<1>9. \A t \in Slot : a2[t] = NULL => l2[t] = 0 BY <1>1, <1>3
<1>10. \A t \in Slot : a2[t] # NULL =>
           /\ PREV_PTR(a2[t]) \in A \ {bp} /\ a2[t] = NEXT_PTR(PREV_PTR(a2[t]))
           /\ GET_SIZE(h, PREV_PTR(a2[t])) = BlockSize(l2[t]) /\ l2[t] + 47 < SizeLimit
  BY <1>1, <1>4, <1>6
<1> QED BY <1>2, <1>7, <1>8, <1>9, <1>10 DEF Owned

\* Function f with another value for s.
Updated(f, s, v) == [f EXCEPT ![s] = v]

\* A slot that holds nothing gets a block.
LEMMA OwnedMore ==
  ASSUME NEW h, NEW A, A \subseteq Grid, NEW a, NEW l, Owned(h, A, a, l),
         NEW s \in Slot, a[s] = NULL, NEW bp \in Grid, bp \notin A,
         NEW n \in Nat, n + 47 < SizeLimit, GET_SIZE(h, bp) = BlockSize(n),
         NEW a2, a2 = Updated(a, s, NEXT_PTR(bp)), NEW l2, l2 = Updated(l, s, n)
  PROVE  Owned(h, A \cup {bp}, a2, l2)
<1>1. /\ a \in [Slot -> Address \cup {NULL}] /\ l \in [Slot -> Nat]
      /\ \A t \in Slot : a[t] = NULL => l[t] = 0
      /\ \A t \in Slot : a[t] # NULL =>
           /\ PREV_PTR(a[t]) \in A /\ a[t] = NEXT_PTR(PREV_PTR(a[t]))
           /\ GET_SIZE(h, PREV_PTR(a[t])) = BlockSize(l[t]) /\ l[t] + 47 < SizeLimit
      /\ \A b \in A : \E t \in Slot : a[t] = NEXT_PTR(b)
      /\ \A t, u \in Slot : a[t] # NULL /\ a[t] = a[u] => t = u
  BY DEF Owned
<1>2. PICK p : p = NEXT_PTR(bp) OBVIOUS
<1>3. p # NULL /\ p \in Address /\ PREV_PTR(p) = bp BY <1>2, PayloadPointer
<1>4. a2 \in [Slot -> Address \cup {NULL}] /\ l2 \in [Slot -> Nat]
  BY <1>1, <1>2, <1>3 DEF Updated
<1>5. \A t \in Slot : /\ t = s => a2[t] = p /\ l2[t] = n
                      /\ t # s => a2[t] = a[t] /\ l2[t] = l[t]
  BY <1>1, <1>2 DEF Updated
<1>6. \A t \in Slot : a[t] # p
  <2> SUFFICES ASSUME NEW t \in Slot, a[t] = p PROVE FALSE
    OBVIOUS
  <2>1. PREV_PTR(a[t]) \in A BY <1>1, <1>3
  <2> QED BY <2>1, <1>3
<1>7. \A t \in Slot : a2[t] = NULL => l2[t] = 0 BY <1>1, <1>3, <1>5
<1>8. \A t \in Slot : a2[t] # NULL =>
           /\ PREV_PTR(a2[t]) \in A \cup {bp} /\ a2[t] = NEXT_PTR(PREV_PTR(a2[t]))
           /\ GET_SIZE(h, PREV_PTR(a2[t])) = BlockSize(l2[t]) /\ l2[t] + 47 < SizeLimit
  <2> SUFFICES ASSUME NEW t \in Slot, a2[t] # NULL
               PROVE  /\ PREV_PTR(a2[t]) \in A \cup {bp} /\ a2[t] = NEXT_PTR(PREV_PTR(a2[t]))
                      /\ GET_SIZE(h, PREV_PTR(a2[t])) = BlockSize(l2[t])
                      /\ l2[t] + 47 < SizeLimit
    OBVIOUS
  <2>1. CASE t = s BY <2>1, <1>2, <1>3, <1>5
  <2>2. CASE t # s BY <2>2, <1>1, <1>5
  <2> QED BY <2>1, <2>2
<1>9. \A b \in A \cup {bp} : \E t \in Slot : a2[t] = NEXT_PTR(b)
  <2> SUFFICES ASSUME NEW b \in A \cup {bp} PROVE \E t \in Slot : a2[t] = NEXT_PTR(b)
    OBVIOUS
  <2>1. CASE b = bp BY <2>1, <1>2, <1>5
  <2>2. CASE b \in A
    <3>1. PICK t \in Slot : a[t] = NEXT_PTR(b) BY <2>2, <1>1
    <3>2. t # s
      <4>1. NEXT_PTR(b) # NULL BY <2>2, PayloadPointer
      <4> QED BY <4>1, <3>1
    <3> QED BY <3>1, <3>2, <1>5
  <2> QED BY <2>1, <2>2
<1>10. \A t, u \in Slot : a2[t] # NULL /\ a2[t] = a2[u] => t = u
  BY <1>1, <1>5, <1>6
<1> QED BY <1>4, <1>7, <1>8, <1>9, <1>10 DEF Owned

\* The pointer freed last, when slot s got block bp.
LEMMA SaysFreeMarked ==
  ASSUME NEW h, NEW a, NEW p, SaysFree(h, a, p), NEW g, NEW bp \in Grid, Marked(h, g, bp),
         NEW s \in Slot, NEW a2, a2[s] = NEXT_PTR(bp)
  PROVE  SaysFree(g, a2, Forget(g, a2, p))
<1>1. CASE p = NULL \/ Covered(g, a2, PREV_PTR(p))
  BY <1>1 DEF Forget, SaysFree
<1>2. CASE p # NULL /\ ~ Covered(g, a2, PREV_PTR(p))
  <2>1. PICK x : x = PREV_PTR(p) OBVIOUS
  <2>2. /\ x \in Grid /\ p = NEXT_PTR(x)
        /\ GET_STATUS(h, x) = FREE \/ x = h.heap_end
    BY <2>1, <1>2 DEF SaysFree
  <2>3. ~ (bp <= x /\ x < bp + GET_SIZE(g, bp))
    <3>1. a2[s] # NULL /\ PREV_PTR(a2[s]) = bp BY PayloadPointer
    <3> QED BY <3>1, <2>1, <1>2 DEF Covered
  <2>4. GET_STATUS(g, x) = FREE \/ x = g.heap_end BY <2>2, <2>3 DEF Marked
  <2>5. Forget(g, a2, p) = p BY <1>2 DEF Forget
  <2> QED BY <2>1, <2>2, <2>4, <2>5, <1>2 DEF SaysFree
<1> QED BY <1>1, <1>2

\* The pointer freed last, when that was block bp.
LEMMA SaysFreeFreed ==
  ASSUME NEW g, NEW a2, NEW bp \in Grid, GET_STATUS(g, bp) = FREE \/ bp = g.heap_end
  PROVE  SaysFree(g, a2, Forget(g, a2, NEXT_PTR(bp)))
<1>1. PICK p : p = NEXT_PTR(bp) OBVIOUS
<1>2. p # NULL /\ PREV_PTR(p) = bp BY <1>1, PayloadPointer
<1>3. CASE Covered(g, a2, PREV_PTR(p))
  <2>1. Forget(g, a2, p) = NULL BY <1>2, <1>3 DEF Forget
  <2> QED BY <2>1, <1>1 DEF SaysFree
<1>4. CASE ~ Covered(g, a2, PREV_PTR(p))
  <2>1. Forget(g, a2, p) = p BY <1>4 DEF Forget
  <2> QED BY <2>1, <1>1, <1>2, <1>4 DEF SaysFree
<1> QED BY <1>3, <1>4

\* A call that fails, and one that gets a new block for an empty slot.
LEMMA SoundNew ==
  ASSUME NEW h, NEW a, NEW l, NEW p, Sound(h, a, l, p),
         NEW s \in Slot, a[s] = NULL, NEW n \in Nat, n + 47 < SizeLimit, NEW got,
         \A B : Good(h, B, FreeOf(h, B)) =>
           \/ got = Fails(h)
           \/ /\ \E C : Allocated(h, AllocOf(h, B), got, n, C)
              /\ Marked(h, got.heap, PREV_PTR(got.ptr)),
         NEW a2, a2 = Updated(a, s, got.ptr),
         NEW l2, l2 = Updated(l, s, IF got.ptr = NULL THEN 0 ELSE n)
  PROVE  Sound(got.heap, a2, l2, Forget(got.heap, a2, p))
<1>1. PICK B : Good(h, B, FreeOf(h, B)) /\ Owned(h, AllocOf(h, B), a, l) BY DEF Sound
<1>2. h.policy \in Policies /\ SaysFree(h, a, p) BY DEF Sound
<1>3. CASE got = Fails(h)
  <2>1. got.ptr = NULL /\ got.heap = h BY <1>3 DEF Fails
  <2>2. a \in [Slot -> Address \cup {NULL}] /\ l \in [Slot -> Nat] /\ l[s] = 0
    BY <1>1 DEF Owned
  <2>3. a2 = a /\ l2 = l BY <2>1, <2>2 DEF Updated
  <2>4. Forget(h, a, p) = p BY <1>2 DEF Forget, SaysFree
  <2> QED BY <2>1, <2>3, <2>4
<1>4. CASE got # Fails(h)
  <2>1. PICK C : Allocated(h, AllocOf(h, B), got, n, C) BY <1>1, <1>4
  <2>2. PICK bp : bp = PREV_PTR(got.ptr) OBVIOUS
  <2>3. PICK g : g = got.heap OBVIOUS
  <2>4. PICK A : A = AllocOf(h, B) OBVIOUS
  <2>5. /\ Good(g, C, FreeOf(g, C)) /\ g.policy = h.policy
        /\ got.ptr # NULL /\ got.ptr = NEXT_PTR(bp) /\ bp \notin A
        /\ AllocOf(g, C) = A \cup {bp} /\ GET_SIZE(g, bp) = BlockSize(n) /\ Kept(h, g, A)
    BY <2>1, <2>2, <2>3, <2>4 DEF Allocated
  <2>6. Marked(h, g, bp) BY <2>2, <2>3, <1>1, <1>4
  <2>7. Tiled(h, B) /\ A \subseteq B /\ Tiled(g, C) /\ bp \in C
    BY <2>4, <2>5, <1>1 DEF Good, AllocOf
  <2>8. A \subseteq Grid /\ bp \in Grid BY <2>7, TiledFacts
  <2>9. \A b \in A : GET_SIZE(g, b) = GET_SIZE(h, b) BY <2>5, <2>7, KeptHeader
  <2>10. Owned(g, A, a, l) BY <2>4, <2>7, <2>9, <1>1, OwnedKept
  <2>11. a2 = Updated(a, s, NEXT_PTR(bp)) /\ l2 = Updated(l, s, n)
    BY <2>5 DEF Updated
  <2>12. Owned(g, AllocOf(g, C), a2, l2)
    <3>1. bp \notin A /\ GET_SIZE(g, bp) = BlockSize(n) BY <2>5
    <3>2. Owned(g, A \cup {bp}, a2, l2) BY <3>1, <2>8, <2>10, <2>11, OwnedMore
    <3> QED BY <3>2, <2>5
  <2>13. SaysFree(g, a2, Forget(g, a2, p))
    <3>1. a2[s] = NEXT_PTR(bp)
      <4>1. a \in [Slot -> Address \cup {NULL}] BY <1>1 DEF Owned
      <4> QED BY <4>1, <2>11 DEF Updated
    <3> QED BY <3>1, <2>6, <2>8, <1>2, SaysFreeMarked
  <2> QED BY <2>3, <2>5, <2>12, <2>13, <1>2 DEF Sound
<1> QED BY <1>3, <1>4

\* The block of a slot.
LEMMA OwnedBlock ==
  ASSUME NEW h, NEW B, Tiled(h, B), NEW a, NEW l, Owned(h, AllocOf(h, B), a, l),
         NEW s \in Slot, a[s] # NULL
  PROVE  \E bp \in AllocOf(h, B) :
           /\ a[s] = NEXT_PTR(bp) /\ PREV_PTR(a[s]) = bp /\ bp \in Grid /\ bp \in B
           /\ GET_SIZE(h, bp) = BlockSize(l[s]) /\ l[s] \in Nat /\ l[s] + 47 < SizeLimit
<1>1. PICK bp : bp = PREV_PTR(a[s]) OBVIOUS
<1>2. /\ bp \in AllocOf(h, B) /\ a[s] = NEXT_PTR(bp)
      /\ GET_SIZE(h, bp) = BlockSize(l[s]) /\ l[s] \in Nat /\ l[s] + 47 < SizeLimit
  BY <1>1 DEF Owned
<1>3. bp \in B BY <1>2 DEF AllocOf
<1>4. bp \in Grid BY <1>3, TiledFacts
<1> QED BY <1>1, <1>2, <1>3, <1>4

\* A slot gives its block back.
LEMMA SoundFree ==
  ASSUME NEW h, NEW a, NEW l, NEW p, Sound(h, a, l, p), NEW s \in Slot, a[s] # NULL,
         NEW g, g = free(h, a[s]),
         NEW a2, a2 = [a EXCEPT ![s] = NULL], NEW l2, l2 = [l EXCEPT ![s] = 0]
  PROVE  Sound(g, a2, l2, Forget(g, a2, a[s]))
<1>1. PICK B : Good(h, B, FreeOf(h, B)) /\ Owned(h, AllocOf(h, B), a, l) BY DEF Sound
<1>2. PICK A : A = AllocOf(h, B) OBVIOUS
<1>3. Tiled(h, B) /\ A \subseteq B BY <1>1, <1>2 DEF Good, AllocOf
<1>4. PICK bp \in A : a[s] = NEXT_PTR(bp) /\ bp \in Grid BY <1>1, <1>2, <1>3, OwnedBlock
<1>5. PICK C : Allocates(g, A \ {bp}, C) BY <1>1, <1>2, <1>4, FreeEffect
<1>6. /\ g.policy = h.policy /\ Kept(h, g, A \ {bp})
      /\ GET_STATUS(g, bp) = FREE \/ bp = g.heap_end
  BY <1>1, <1>2, <1>4, FreeEffect
<1>7. A \subseteq Grid BY <1>3, TiledFacts
<1>8. Owned(h, A \ {bp}, a2, l2) BY <1>1, <1>2, <1>4, <1>7, OwnedLess
<1>9. Owned(g, A \ {bp}, a2, l2)
  <2>1. A \ {bp} \subseteq B BY <1>3
  <2>2. \A b \in A \ {bp} : GET_SIZE(g, b) = GET_SIZE(h, b)
    BY <2>1, <1>3, <1>6, KeptHeader
  <2> QED BY <2>1, <2>2, <1>3, <1>8, OwnedKept
<1>10. SaysFree(g, a2, Forget(g, a2, a[s])) BY <1>4, <1>6, SaysFreeFreed
<1>11. g.policy \in Policies BY <1>6 DEF Sound
<1> QED BY <1>5, <1>9, <1>10, <1>11 DEF Sound, Allocates

\* A slot exchanges its block for another one, or keeps it with another size.
LEMMA SoundAgain ==
  ASSUME NEW h, NEW a, NEW l, NEW p, Sound(h, a, l, p), NEW s \in Slot, a[s] # NULL,
         NEW n \in Nat, n # 0, n + 47 < SizeLimit,
         NEW got, got = realloc(h, a[s], n), got # Fails(h),
         NEW a2, a2 = Updated(a, s, got.ptr), NEW l2, l2 = Updated(l, s, n)
  PROVE  /\ got.ptr # NULL
         /\ Sound(got.heap, a2, l2,
                  Forget(got.heap, a2, IF a[s] = got.ptr THEN p ELSE a[s]))
<1>1. PICK B : Good(h, B, FreeOf(h, B)) /\ Owned(h, AllocOf(h, B), a, l) BY DEF Sound
<1>2. PICK A : A = AllocOf(h, B) OBVIOUS
<1>3. Tiled(h, B) /\ A \subseteq B BY <1>1, <1>2 DEF Good, AllocOf
<1>4. PICK bp \in A : a[s] = NEXT_PTR(bp) /\ bp \in Grid BY <1>1, <1>2, <1>3, OwnedBlock
<1>5. Reallocates(h, A \ {bp}, bp, got, n) BY <1>1, <1>2, <1>4, ReallocEffect
<1>6. PICK C : Allocated(h, A \ {bp}, got, n, C) BY <1>5 DEF Reallocates
<1>7. PICK np : np = PREV_PTR(got.ptr) OBVIOUS
<1>8. PICK g : g = got.heap OBVIOUS
<1>9. /\ Good(g, C, FreeOf(g, C)) /\ g.policy = h.policy
      /\ got.ptr # NULL /\ got.ptr = NEXT_PTR(np) /\ np \notin A \ {bp}
      /\ AllocOf(g, C) = (A \ {bp}) \cup {np} /\ GET_SIZE(g, np) = BlockSize(n)
      /\ Kept(h, g, A \ {bp})
  BY <1>6, <1>7, <1>8 DEF Allocated
<1>10. A \subseteq Grid /\ np \in Grid
  <2>1. Tiled(g, C) /\ np \in C BY <1>9 DEF Good, AllocOf
  <2> QED BY <2>1, <1>3, TiledFacts
<1>11. PICK a1 : a1 = [a EXCEPT ![s] = NULL] OBVIOUS
<1>12. PICK l1 : l1 = [l EXCEPT ![s] = 0] OBVIOUS
<1>13. Owned(h, A \ {bp}, a1, l1) BY <1>1, <1>2, <1>4, <1>10, <1>11, <1>12, OwnedLess
<1>14. Owned(g, A \ {bp}, a1, l1)
  <2>1. A \ {bp} \subseteq B BY <1>3
  <2>2. \A b \in A \ {bp} : GET_SIZE(g, b) = GET_SIZE(h, b)
    BY <2>1, <1>3, <1>9, KeptHeader
  <2> QED BY <2>1, <2>2, <1>3, <1>13, OwnedKept
<1>15. /\ a \in [Slot -> Address \cup {NULL}] /\ l \in [Slot -> Nat] BY <1>1 DEF Owned
<1>16. /\ a1[s] = NULL /\ a2 = Updated(a1, s, NEXT_PTR(np))
       /\ l2 = Updated(l1, s, n) /\ a2[s] = NEXT_PTR(np)
  BY <1>9, <1>11, <1>12, <1>15 DEF Updated
<1>17. Owned(g, AllocOf(g, C), a2, l2)
  <2>1. A \ {bp} \subseteq Grid BY <1>10
  <2>2. PICK A1 : A1 = A \ {bp} OBVIOUS
  <2>3. np \notin A1 /\ GET_SIZE(g, np) = BlockSize(n) /\ A1 \subseteq Grid
    BY <2>1, <2>2, <1>9
  <2>4. Owned(g, A1, a1, l1) BY <2>2, <1>14
  <2>5. Owned(g, A1 \cup {np}, a2, l2) BY <2>3, <2>4, <1>10, <1>16, OwnedMore
  <2> QED BY <2>2, <2>5, <1>9
<1>18. CASE a[s] = got.ptr
  <2>1. np = bp /\ got.ptr = NEXT_PTR(bp) BY <1>4, <1>7, <1>18, PayloadPointer
  <2>2. Marked(h, g, np) BY <2>1, <1>5, <1>8 DEF Reallocates
  <2>3. SaysFree(h, a, p) BY DEF Sound
  <2>4. SaysFree(g, a2, Forget(g, a2, p)) BY <2>2, <2>3, <1>10, <1>16, SaysFreeMarked
  <2>5. g.policy \in Policies BY <1>9 DEF Sound
  <2> QED BY <2>4, <2>5, <1>8, <1>9, <1>17, <1>18 DEF Sound
<1>19. CASE a[s] # got.ptr
  <2>1. GET_STATUS(g, bp) = FREE \/ bp = g.heap_end
    BY <1>4, <1>5, <1>8, <1>19 DEF Reallocates
  <2>2. SaysFree(g, a2, Forget(g, a2, a[s])) BY <2>1, <1>4, SaysFreeFreed
  <2>3. g.policy \in Policies BY <1>9 DEF Sound
  <2> QED BY <2>2, <2>3, <1>8, <1>9, <1>17, <1>19 DEF Sound
<1> QED BY <1>18, <1>19

\* The client fills its region.
LEMMA SoundStore ==
  ASSUME NEW h, NEW a, NEW l, NEW p, Sound(h, a, l, p), NEW s \in Slot, a[s] # NULL,
         NEW v, NEW g, g = memset(h, a[s], v, l[s])
  PROVE  Sound(g, a, l, p)
<1>1. PICK B : Good(h, B, FreeOf(h, B)) /\ Owned(h, AllocOf(h, B), a, l) BY DEF Sound
<1>2. Tiled(h, B) /\ IsHeap(h) BY <1>1 DEF Good, Tiled
<1>3. PICK bp \in AllocOf(h, B) :
        /\ a[s] = NEXT_PTR(bp) /\ PREV_PTR(a[s]) = bp /\ bp \in Grid /\ bp \in B
        /\ GET_SIZE(h, bp) = BlockSize(l[s]) /\ l[s] \in Nat /\ l[s] + 47 < SizeLimit
  BY <1>1, <1>2, OwnedBlock
<1>4. OnlyPayload(h, g, bp)
  <2>1. PICK n \in Nat : n = l[s] BY <1>3
  <2>2. GET_SIZE(h, bp) \in Nat /\ n + 16 <= GET_SIZE(h, bp) BY <2>1, <1>3, BlockSizeIs
  <2>3. bp \in Nat BY <1>3, GridWords
  <2>4. NEXT_BLKP(h, bp) = bp + GET_SIZE(h, bp) BY <1>2, <1>3, TileFacts DEF Tiled
  <2> QED BY <2>1, <2>2, <2>3, <2>4, <1>2, <1>3, MemsetEffect
<1>5. /\ Good(g, B, FreeOf(g, B)) /\ AllocOf(g, B) = AllocOf(h, B)
      /\ \A b \in B : GET_SIZE(g, b) = GET_SIZE(h, b)
  <2>1. Good(h, B, FreeOf(h, B)) /\ bp \in AllocOf(h, B) /\ OnlyPayload(h, g, bp)
    BY <1>1, <1>3, <1>4
  <2>2. /\ Good(g, B, FreeOf(g, B)) /\ AllocOf(g, B) = AllocOf(h, B)
        /\ FreeOf(g, B) = FreeOf(h, B)
        /\ \A b \in B : GET_SIZE(g, b) = GET_SIZE(h, b) /\ NEXT_BLKP(g, b) = NEXT_BLKP(h, b)
        /\ Kept(h, g, AllocOf(h, B) \ {bp})
    BY ONLY <2>1, PayloadEffect
  <2> QED BY <2>2
<1>6. g.policy = h.policy /\ g.heap_end = h.heap_end BY <1>4 DEF OnlyPayload, SameFrame
<1>7. Owned(g, AllocOf(g, B), a, l)
  <2>1. AllocOf(h, B) \subseteq B BY DEF AllocOf
  <2>2. \A b \in AllocOf(h, B) : GET_SIZE(g, b) = GET_SIZE(h, b) BY <2>1, <1>5
  <2> QED BY <2>1, <2>2, <1>1, <1>2, <1>5, OwnedKept
<1>8. \A x : Covered(g, a, x) <=> Covered(h, a, x)
  <2>1. \A t \in Slot : a[t] # NULL =>
          GET_SIZE(g, PREV_PTR(a[t])) = GET_SIZE(h, PREV_PTR(a[t]))
    BY <1>1, <1>5 DEF Owned, AllocOf
  <2> QED BY <2>1 DEF Covered
<1>9. SaysFree(g, a, p)
  <2> SUFFICES ASSUME p # NULL PROVE SaysFree(g, a, p)
    BY DEF SaysFree
  <2>1. PICK x : x = PREV_PTR(p) OBVIOUS
  <2>2. /\ x \in Grid /\ p = NEXT_PTR(x) /\ ~ Covered(h, a, x)
        /\ GET_STATUS(h, x) = FREE \/ x = h.heap_end
    BY <2>1 DEF SaysFree, Sound
  <2>3. ~ (bp <= x /\ x < NEXT_BLKP(h, bp))
    <3>1. NEXT_BLKP(h, bp) = bp + GET_SIZE(h, bp) BY <1>2, <1>3, TileFacts DEF Tiled
    <3>2. a[s] # NULL BY <1>3, PayloadPointer
    <3> QED BY <3>1, <3>2, <2>2, <1>3 DEF Covered
  <2>4. ~ (bp < x /\ x < NEXT_BLKP(h, bp) - 8) /\ x \in Address
    <3>1. bp \in Nat /\ x \in Nat /\ NEXT_BLKP(h, bp) \in Nat /\ x \in Address
      BY <2>2, <1>2, <1>3, Apart, GridWords
    <3> QED BY <3>1, <2>3
  <2>5. GET(g, x) = GET(h, x) BY <2>4, <1>4 DEF OnlyPayload
  <2>6. GET_STATUS(g, x) = GET_STATUS(h, x) BY <2>5, SameTag
  <2>7. ~ Covered(g, a, x) BY <2>2, <1>8
  <2> QED BY <2>1, <2>2, <2>6, <2>7, <1>6 DEF SaysFree
<1> QED BY <1>5, <1>6, <1>7, <1>9 DEF Sound

------------------------------------------------------------------------------
(* The invariant *)

MemInv == Sound(heap, at, len, stale)

\* mm_init establishes the invariant.
LEMMA MemInit ==
  ASSUME Init
  PROVE  MemInv
<1>1. PICK policy \in Policies : heap = mm_init(policy) BY DEF Init
<1>2. policy \in {"fp_Implicit", "fp_Explicit"} BY MemMgrAssumption
<1>3. PICK C : Allocates(heap, {}, C) BY <1>1, <1>2, InitEffect
<1>4. heap.policy \in Policies BY <1>1, <1>2, InitEffect
<1>5. Owned(heap, {}, at, len) BY DEF Init, Owned
<1>6. SaysFree(heap, at, stale) BY DEF Init, SaysFree
<1> QED BY <1>3, <1>4, <1>5, <1>6 DEF MemInv, Sound, Allocates

\* What Hold and Remember leave in the variables.
LEMMA HoldIs ==
  ASSUME NEW s, NEW got, NEW n, NEW p, Hold(s, got, n), Remember(p)
  PROVE  /\ heap' = got.heap /\ at' = Updated(at, s, got.ptr)
         /\ len' = Updated(len, s, IF got.ptr = NULL THEN 0 ELSE n)
         /\ stale' = Forget(heap', at', p)
BY DEF Hold, Remember, Updated, Forget

\* A second free or realloc of a pointer finds its block free.
LEMMA AgainChangesNothing ==
  ASSUME MemInv, FreeAgain
  PROVE  heap' = heap /\ at' = at /\ len' = len /\ stale' = stale
<1>1. Sound(heap, at, len, stale) BY DEF MemInv
<1>2. stale # NULL /\ PREV_PTR(stale) < heap.heap_end BY DEF FreeAgain
<1>3. GET_STATUS(heap, PREV_PTR(stale)) = FREE
  <2>1. PREV_PTR(stale) # heap.heap_end
    <3>1. PICK B : Tiled(heap, B) BY <1>1 DEF Sound, Good
    <3>2. heap.heap_end \in Nat BY <3>1, TiledFacts
    <3> QED BY <3>2, <1>2
  <2> QED BY <2>1, <1>1, <1>2 DEF Sound, SaysFree
<1>4. free(heap, stale) = heap BY <1>3 DEF free
<1>5. \A n \in Size : realloc(heap, stale, n).heap = heap
  <2> TAKE n \in Size
  <2>1. CASE n = 0
    <3>1. realloc(heap, stale, n) = [heap |-> free(heap, stale), ptr |-> NULL]
      BY <2>1, <1>2 DEF realloc
    <3> QED BY <3>1, <1>4
  <2>2. CASE n # 0
    <3>1. realloc(heap, stale, n) = Fails(heap) BY <2>2, <1>2, <1>3 DEF realloc
    <3> QED BY <3>1 DEF Fails
  <2> QED BY <2>1, <2>2
<1>6. heap' = heap BY <1>4, <1>5 DEF FreeAgain
<1> QED BY <1>6 DEF FreeAgain

\* One call.
LEMMA MemNext ==
  ASSUME SizesInRange, MemInv, [Next]_vars
  PROVE  Sound(heap', at', len', stale')
<1>1. Sound(heap, at, len, stale) BY DEF MemInv
<1>2. PICK B : Good(heap, B, FreeOf(heap, B)) /\ Owned(heap, AllocOf(heap, B), at, len)
  BY <1>1 DEF Sound
<1>3. Tiled(heap, B) BY <1>2 DEF Good
<1>4. Size \subseteq Nat /\ Count \subseteq Nat BY MemMgrAssumption
<1>5. ASSUME NEW s \in Slot, Free(s) PROVE Sound(heap', at', len', stale')
  <2>1. PICK got : got = [heap |-> free(heap, at[s]), ptr |-> NULL] OBVIOUS
  <2>2. at[s] # NULL /\ Hold(s, got, 0) /\ Remember(at[s]) BY <2>1, <1>5 DEF Free
  <2>3. got.heap = free(heap, at[s]) /\ got.ptr = NULL BY <2>1
  <2>4. /\ heap' = got.heap /\ at' = Updated(at, s, got.ptr)
        /\ len' = Updated(len, s, IF got.ptr = NULL THEN 0 ELSE 0)
        /\ stale' = Forget(heap', at', at[s])
    BY <2>2, HoldIs
  <2>5. at' = [at EXCEPT ![s] = NULL] /\ len' = [len EXCEPT ![s] = 0]
    BY <2>3, <2>4 DEF Updated
  <2> QED BY <2>2, <2>3, <2>4, <2>5, <1>1, SoundFree
<1>6. ASSUME NEW s \in Slot, Store(s) PROVE Sound(heap', at', len', stale')
  <2>1. at[s] # NULL /\ heap' = memset(heap, at[s], s, len[s])
        /\ at' = at /\ len' = len /\ stale' = stale
    BY <1>6 DEF Store
  <2>2. Sound(heap', at, len, stale) BY <2>1, <1>1, SoundStore
  <2> QED BY <2>1, <2>2
<1>7. ASSUME NEW s \in Slot, at[s] = NULL, NEW n \in Nat, n + 47 < SizeLimit,
             NEW got, got = malloc(heap, n), Hold(s, got, n), Remember(stale)
      PROVE  Sound(heap', at', len', stale')
  <2>1. /\ heap' = got.heap /\ at' = Updated(at, s, got.ptr)
        /\ len' = Updated(len, s, IF got.ptr = NULL THEN 0 ELSE n)
        /\ stale' = Forget(heap', at', stale)
    BY <1>7, HoldIs
  <2>2. \A C : Good(heap, C, FreeOf(heap, C)) =>
           \/ got = Fails(heap)
           \/ /\ \E D : Allocated(heap, AllocOf(heap, C), got, n, D)
              /\ Marked(heap, got.heap, PREV_PTR(got.ptr))
    BY <1>7, MallocEffect
  <2> QED BY <2>1, <2>2, <1>1, <1>7, SoundNew
<1>8. ASSUME NEW s \in Slot, NEW n \in Size, Malloc(s, n)
      PROVE  Sound(heap', at', len', stale')
  <2>1. n \in Nat /\ n + 47 < SizeLimit BY <1>4 DEF SizesInRange
  <2>2. PICK got : got = malloc(heap, n) OBVIOUS
  <2>3. at[s] = NULL /\ Hold(s, got, n) /\ Remember(stale) BY <2>2, <1>8 DEF Malloc
  <2> QED BY <2>1, <2>2, <2>3, <1>7
<1>9. ASSUME NEW s \in Slot, NEW m \in Count, NEW n \in Size, Calloc(s, m, n)
      PROVE  Sound(heap', at', len', stale')
  <2>1. m \in Nat /\ n \in Nat BY <1>4
  <2>2. PICK bytes \in Nat : bytes = m * n BY <2>1
  <2>3. bytes + 47 < SizeLimit BY <2>2 DEF SizesInRange
  <2>4. PICK got : got = calloc(heap, m, n) OBVIOUS
  <2>5. at[s] = NULL /\ Hold(s, got, bytes) /\ Remember(stale)
    BY <2>2, <2>4, <1>9 DEF Calloc
  <2>6. /\ heap' = got.heap /\ at' = Updated(at, s, got.ptr)
        /\ len' = Updated(len, s, IF got.ptr = NULL THEN 0 ELSE bytes)
        /\ stale' = Forget(heap', at', stale)
    BY <2>5, HoldIs
  <2>7. ASSUME NEW C, Good(heap, C, FreeOf(heap, C))
        PROVE  \/ got = Fails(heap)
               \/ /\ \E D : Allocated(heap, AllocOf(heap, C), got, bytes, D)
                  /\ Marked(heap, got.heap, PREV_PTR(got.ptr))
    BY <2>1, <2>2, <2>3, <2>4, <2>7, CallocEffect
  <2> QED BY <2>3, <2>5, <2>6, <2>7, <1>1, SoundNew
<1>10. ASSUME NEW s \in Slot, NEW n \in Size, Realloc(s, n)
       PROVE  Sound(heap', at', len', stale')
  <2>1. n \in Nat /\ n + 47 < SizeLimit BY <1>4 DEF SizesInRange
  <2>2. PICK got : got = realloc(heap, at[s], n) OBVIOUS
  <2>3. Reallocated(s, n, got) BY <2>2, <1>10 DEF Realloc
  <2>4. CASE n > 0 /\ got.ptr = NULL
    <3>1. heap' = got.heap /\ at' = at /\ len' = len /\ Remember(stale)
      BY <2>3, <2>4 DEF Reallocated
    <3>2. got = Fails(heap)
      <4>1. CASE at[s] = NULL
        <5>1. got = malloc(heap, n) BY <4>1, <2>2 DEF realloc
        <5>2. CASE got # Fails(heap)
          <6>1. PICK C : Allocated(heap, AllocOf(heap, B), got, n, C)
            BY <5>1, <5>2, <2>1, <1>2, MallocEffect
          <6> QED BY <6>1, <2>4 DEF Allocated
        <5> QED BY <5>2
      <4>2. CASE at[s] # NULL
        <5>1. n # 0 BY <2>1, <2>4
        <5> QED BY <5>1, <4>2, <2>1, <2>2, <2>4, <1>1, SoundAgain
      <4> QED BY <4>1, <4>2
    <3>3. heap' = heap BY <3>1, <3>2 DEF Fails
    <3>4. stale' = Forget(heap, at, stale) BY <3>1, <3>3 DEF Remember, Forget
    <3>5. Forget(heap, at, stale) = stale BY <1>1 DEF Sound, SaysFree, Forget
    <3> QED BY <3>1, <3>3, <3>4, <3>5, <1>1
  <2>5. CASE ~ (n > 0 /\ got.ptr = NULL)
    <3>1. Hold(s, got, n) /\ Remember(IF at[s] \in {NULL, got.ptr} THEN stale ELSE at[s])
      BY <2>3, <2>5 DEF Reallocated
    <3>2. CASE at[s] = NULL
      <4>1. got = malloc(heap, n) BY <3>2, <2>2 DEF realloc
      <4>2. Remember(stale) BY <3>1, <3>2
      <4> QED BY <4>1, <4>2, <3>1, <3>2, <2>1, <1>7
    <3>3. CASE at[s] # NULL /\ n = 0
      <4>1. got = [heap |-> free(heap, at[s]), ptr |-> NULL]
        BY <3>3, <2>2 DEF realloc
      <4>2. got.ptr = NULL BY <4>1
      <4>3. Remember(at[s]) BY <4>2, <3>1, <3>3
      <4>4. Free(s) BY <4>1, <4>3, <3>1, <3>3 DEF Free
      <4> QED BY <4>4, <1>5
    <3>4. CASE at[s] # NULL /\ n # 0
      <4>1. got.ptr # NULL BY <3>4, <2>1, <2>5
      <4>2. got # Fails(heap) BY <4>1 DEF Fails
      <4>3. PICK p : p = IF at[s] = got.ptr THEN stale ELSE at[s] OBVIOUS
      <4>4. Remember(p) BY <4>3, <3>1, <3>4
      <4>5. /\ heap' = got.heap /\ at' = Updated(at, s, got.ptr)
            /\ len' = Updated(len, s, IF got.ptr = NULL THEN 0 ELSE n)
            /\ stale' = Forget(heap', at', p)
        BY <4>4, <3>1, HoldIs
      <4>6. len' = Updated(len, s, n) BY <4>1, <4>5
      <4>7. Sound(got.heap, at', len',
                  Forget(got.heap, at', IF at[s] = got.ptr THEN stale ELSE at[s]))
        BY <4>2, <4>5, <4>6, <3>4, <2>1, <2>2, <1>1, SoundAgain
      <4> QED BY <4>3, <4>5, <4>7
    <3> QED BY <3>2, <3>3, <3>4
  <2> QED BY <2>4, <2>5
<1>11. ASSUME FreeAgain PROVE Sound(heap', at', len', stale')
  <2>1. heap' = heap /\ at' = at /\ len' = len /\ stale' = stale
    BY <1>11, AgainChangesNothing
  <2> QED BY <2>1, <1>1
<1>12. CASE UNCHANGED vars BY <1>1, <1>12 DEF vars
<1> QED BY <1>5, <1>6, <1>8, <1>9, <1>10, <1>11, <1>12 DEF Next

------------------------------------------------------------------------------
(* What the invariant says of the runs of the code *)

\* The blocks that a walk visits, and the free ones.
LEMMA AllBlocksAre ==
  ASSUME NEW B, Tiled(heap, B)
  PROVE  /\ AllBlocks = B /\ FreeBlocks = FreeOf(heap, B)
         /\ AllBlocks \ FreeBlocks = AllocOf(heap, B)
<1>1. PICK run : run = Blocks(heap) OBVIOUS
<1>2. run \in Seq(B) /\ \A b \in B : \E i \in 1..Len(run) : run[i] = b
  BY <1>1, BlocksAre
<1>3. AllBlocks = {run[i] : i \in DOMAIN run} BY <1>1 DEF AllBlocks
<1>4. DOMAIN run = 1..Len(run) /\ \A i \in 1..Len(run) : run[i] \in B BY <1>2
<1>5. AllBlocks = B BY <1>2, <1>3, <1>4
<1>6. \A b \in B : GET_STATUS(heap, b) \in {ALLOC, FREE}
  BY DEF Tiled, Tile, IsBlock
<1>7. FreeBlocks = FreeOf(heap, B) BY <1>5 DEF FreeBlocks, FreeOf
<1>8. \A b \in B : b \notin FreeOf(heap, B) <=> b \in AllocOf(heap, B)
  BY <1>6 DEF FreeOf, AllocOf, FREE, ALLOC
<1> QED BY <1>5, <1>7, <1>8 DEF AllocOf

\* The types follow.
LEMMA InvType ==
  ASSUME MemInv
  PROVE  TypeOK
<1>1. PICK B : Good(heap, B, FreeOf(heap, B)) /\ Owned(heap, AllocOf(heap, B), at, len)
  BY DEF MemInv, Sound
<1>2. Tiled(heap, B) BY <1>1 DEF Good
<1>3. PICK e : e = heap.heap_end OBVIOUS
<1>4. heap.policy \in Policies BY DEF MemInv, Sound
<1>5. DOMAIN heap.mem = Address
  <2>1. heap.mem = [a \in Address |-> heap.mem[a]] BY <1>2 DEF Tiled, IsHeap
  <2> QED BY <2>1
<1>6. e \in Grid /\ heap.ds_heap_brk = e + 32 /\ heap_start < e
  BY <1>2, <1>3 DEF Tiled
<1>7. /\ e \in Nat /\ e \in Address /\ e % 32 = 0 /\ e + 32 < ds_heap_end
  BY <1>6, GridWords DEF Grid, BS
<1>8. /\ ds_heap_start \in Nat /\ heap_start = ds_heap_start + 32 /\ ds_heap_end \in Nat
  BY HeapStart
<1>9. heap.ds_heap_brk \in ds_heap_start..ds_heap_end - 1
  BY <1>6, <1>7, <1>8
<1>10. e + TYPE_SIZE <= heap.ds_heap_brk BY <1>6, <1>7 DEF TYPE_SIZE
<1>11. at \in [Slot -> Address \cup {NULL}] /\ len \in [Slot -> Nat]
  BY <1>1 DEF Owned
<1>12. stale \in Address \cup {NULL}
  <2> SUFFICES ASSUME stale # NULL PROVE stale \in Address
    OBVIOUS
  <2>1. PREV_PTR(stale) \in Grid /\ stale = NEXT_PTR(PREV_PTR(stale))
    BY DEF MemInv, Sound, SaysFree
  <2> QED BY <2>1, PayloadPointer
<1> QED BY <1>3, <1>4, <1>5, <1>7, <1>9, <1>10, <1>11, <1>12 DEF TypeOK, BS

\* A walk over the headers finds the tiling.
LEMMA InvTiled ==
  ASSUME MemInv
  PROVE  HeapIsTiled
<1>1. PICK B : Tiled(heap, B) BY DEF MemInv, Sound, Good
<1>2. PICK run : run = Blocks(heap) OBVIOUS
<1>3. /\ run \in Seq(B) /\ run # <<>>
      /\ NEXT_BLKP(heap, run[Len(run)]) = heap.heap_end
  BY <1>1, <1>2, BlocksAre
<1>4. DOMAIN run = 1..Len(run) /\ \A i \in 1..Len(run) : run[i] \in B BY <1>3
<1>5. ASSUME NEW b \in B
      PROVE  /\ GET_SIZE(heap, b) >= BS /\ GET_SIZE(heap, b) % BS = 0
             /\ GET_STATUS(heap, b) \in {ALLOC, FREE}
             /\ GET(heap, HDR2FTR(heap, b)) = GET(heap, b)
  <2>1. IsBlock(heap, b) /\ b \in Nat BY <1>1, TiledFacts DEF Tiled, Tile
  <2>2. GET_SIZE(heap, b) \in Nat BY <2>1 DEF IsBlock
  <2>3. HDR2FTR(heap, b) = NEXT_BLKP(heap, b) - 8
    <3>1. /\ Signed(GET_SIZE(heap, b)) = GET_SIZE(heap, b)
          /\ NEXT_BLKP(heap, b) = b + GET_SIZE(heap, b)
      BY <2>1, <2>2, SignedSize DEF IsBlock, NEXT_BLKP
    <3> QED BY <3>1, <2>1, <2>2 DEF HDR2FTR, TYPE_SIZE
  <2> QED BY <2>1, <2>3 DEF IsBlock, BS
<1>6. /\ GET(heap, PREV_PTR(heap_start)) = PACK(0, ALLOC)
      /\ GET(heap, heap.heap_end) = PACK(0, ALLOC)
  BY <1>1 DEF Tiled, PREV_PTR, PACK, ALLOC, TYPE_SIZE
<1> QED BY <1>2, <1>3, <1>4, <1>5, <1>6 DEF HeapIsTiled

\* A walk over the list finds the free blocks.
LEMMA InvListed ==
  ASSUME MemInv
  PROVE  FreeListIsFreeBlocks
<1> SUFFICES ASSUME heap.policy = "fp_Explicit" PROVE FreeListIsFreeBlocks
  BY DEF FreeListIsFreeBlocks
<1>1. PICK B : Good(heap, B, FreeOf(heap, B)) BY DEF MemInv, Sound
<1>2. Tiled(heap, B) /\ Listed(heap, FreeOf(heap, B)) BY <1>1 DEF Good
<1>3. PICK X : X = FreeOf(heap, B) OBVIOUS
<1>4. X \subseteq B /\ FreeBlocks = X BY <1>2, <1>3, AllBlocksAre DEF FreeOf
<1>5. PICK n \in Nat : \E c \in [0..n + 1 -> Grid] : Chain(heap, X, n, c)
  BY <1>2, <1>3 DEF Listed
<1>6. PICK c \in [0..n + 1 -> Grid] : Chain(heap, X, n, c) BY <1>5
<1>7. Cardinality(X) = n BY <1>2, <1>4, <1>6, ChainShort
<1>8. PICK list : list = FreeList(heap) OBVIOUS
<1>9. Len(list) = n + 1 /\ \A i \in 1..n + 1 : list[i] = c[i]
  BY <1>2, <1>4, <1>6, <1>8, FreeListIs
<1>10. list[n + 1] = last
  <2>1. c[n + 1] = last BY <1>6 DEF Chain
  <2> QED BY <2>1, <1>9
<1>11. {list[i] : i \in 1..n} = X
  <2>1. \A i \in 1..n : list[i] = c[i] BY <1>9
  <2>2. (\A i \in 1..n : c[i] \in X) /\ \A x \in X : \E i \in 1..n : c[i] = x
    BY <1>6 DEF Chain
  <2> QED BY <2>1, <2>2
<1>12. ASSUME NEW i \in 1..n + 1
       PROVE  PREV_LIST_GET(heap, list[i]) = IF i = 1 THEN first ELSE list[i - 1]
  <2>1. PICK j \in 0..n : i = j + 1
    <3>1. i - 1 \in 0..n /\ i = (i - 1) + 1 OBVIOUS
    <3> QED BY <3>1
  <2>2. GET(heap, c[j + 1] + 16) = c[j] BY <1>6 DEF Chain
  <2>3. PREV_LIST_GET(heap, list[i]) = c[j]
    <3>1. list[i] = c[j + 1] BY <2>1, <1>9
    <3>2. 2 * TYPE_SIZE = 16 BY DEF TYPE_SIZE
    <3> QED BY <3>1, <3>2, <2>2 DEF PREV_LIST_GET, NEXT_NEXT_PTR
  <2>4. CASE i = 1
    <3>1. j = 0 BY <2>1, <2>4
    <3> QED BY <3>1, <2>3, <2>4, <1>6 DEF Chain
  <2>5. CASE i # 1
    <3>1. i - 1 = j /\ j \in 1..n + 1 BY <2>1, <2>5
    <3> QED BY <3>1, <2>3, <2>5, <1>9
  <2> QED BY <2>4, <2>5
<1>13. Len(list) - 1 = n BY <1>9
<1> QED BY <1>4, <1>7, <1>8, <1>9, <1>10, <1>11, <1>12, <1>13 DEF FreeListIsFreeBlocks

\* The allocated blocks of a walk are those of the slots.
LEMMA InvHeld ==
  ASSUME MemInv
  PROVE  AllocatedIsHeld
<1>1. PICK B : Good(heap, B, FreeOf(heap, B)) /\ Owned(heap, AllocOf(heap, B), at, len)
  BY DEF MemInv, Sound
<1>2. Tiled(heap, B) BY <1>1 DEF Good
<1>3. PICK A : A = AllocOf(heap, B) OBVIOUS
<1>4. AllBlocks \ FreeBlocks = A /\ A \subseteq Grid
  BY <1>2, <1>3, AllBlocksAre, TiledFacts DEF AllocOf
<1>5. Owned(heap, A, at, len) BY <1>1, <1>3
<1>6. \A s \in Slot : at[s] # NULL =>
        PREV_PTR(at[s]) \in A /\ GET_SIZE(heap, PREV_PTR(at[s])) = BlockSize(len[s])
  BY <1>5 DEF Owned
<1>7. ASSUME NEW b \in A PROVE \E s \in Slot : at[s] # NULL /\ PREV_PTR(at[s]) = b
  <2>1. PICK s \in Slot : at[s] = NEXT_PTR(b) BY <1>5 DEF Owned
  <2>2. NEXT_PTR(b) # NULL /\ PREV_PTR(NEXT_PTR(b)) = b BY <1>4, PayloadPointer
  <2> QED BY <2>1, <2>2
<1>8. \A s, t \in Slot : at[s] # NULL /\ at[s] = at[t] => s = t BY <1>5 DEF Owned
<1>9. {PREV_PTR(at[s]) : s \in {t \in Slot : at[t] # NULL}} = A
  BY <1>6, <1>7
<1> QED BY <1>4, <1>6, <1>8, <1>9 DEF AllocatedIsHeld

\* The pointer freed last is recognized.
LEMMA InvRecognized ==
  ASSUME MemInv
  PROVE  FreedIsRecognized
<1> SUFFICES ASSUME stale # NULL, PREV_PTR(stale) < heap.heap_end
             PROVE  GET_STATUS(heap, PREV_PTR(stale)) = FREE
  BY DEF FreedIsRecognized
<1>1. PICK B : Tiled(heap, B) BY DEF MemInv, Sound, Good
<1>2. heap.heap_end \in Nat BY <1>1, TiledFacts
<1>3. /\ PREV_PTR(stale) \in Grid
      /\ GET_STATUS(heap, PREV_PTR(stale)) = FREE \/ PREV_PTR(stale) = heap.heap_end
  BY DEF MemInv, Sound, SaysFree
<1> QED BY <1>2, <1>3

------------------------------------------------------------------------------
(* The refinement of the allocator *)

\* The words of a region, by their distance from its start.
LEMMA RegionWord ==
  ASSUME NEW n \in Nat, NEW i \in 0..(n \div TYPE_SIZE) - 1
  PROVE  /\ i \in Nat /\ 8 * i \in Nat /\ (8 * i) % 8 = 0 /\ 8 * i + 8 <= n
         /\ i * TYPE_SIZE = 8 * i
<1>1. TYPE_SIZE = 8 BY DEF TYPE_SIZE
<1>2. PICK m \in Nat : m = n \div 8 /\ 8 * m <= n
  <2>1. n \div 8 \in Nat /\ 8 * (n \div 8) <= n OBVIOUS
  <2> QED BY <2>1
<1>3. i \in Nat /\ i + 1 <= m BY <1>1, <1>2
<1>4. 8 * i + 8 <= 8 * m BY <1>2, <1>3
<1> QED BY <1>1, <1>2, <1>3, <1>4

\* The region of a slot lies in the heap, below its end.
LEMMA RegionInside ==
  ASSUME NEW h, NEW a, NEW l, NEW p, Sound(h, a, l, p), NEW s \in Slot, a[s] # NULL
  PROVE  /\ a[s] \in Address /\ l[s] \in Nat /\ h.heap_end \in Address
         /\ a[s] + l[s] <= h.heap_end
<1>1. PICK B : Good(h, B, FreeOf(h, B)) /\ Owned(h, AllocOf(h, B), a, l) BY DEF Sound
<1>2. Tiled(h, B) BY <1>1 DEF Good
<1>3. PICK bp \in AllocOf(h, B) :
        /\ a[s] = NEXT_PTR(bp) /\ PREV_PTR(a[s]) = bp /\ bp \in Grid /\ bp \in B
        /\ GET_SIZE(h, bp) = BlockSize(l[s]) /\ l[s] \in Nat /\ l[s] + 47 < SizeLimit
  BY <1>1, <1>2, OwnedBlock
<1>4. PICK size : size = GET_SIZE(h, bp) OBVIOUS
<1>5. size \in Nat /\ l[s] + 16 <= size BY <1>3, <1>4, BlockSizeIs
<1>6. /\ NEXT_BLKP(h, bp) = bp + size /\ NEXT_BLKP(h, bp) <= h.heap_end
      /\ bp \in Nat /\ h.heap_end \in Nat
  BY <1>2, <1>3, <1>4, TileFacts DEF Tiled
<1>7. a[s] = bp + 8 /\ a[s] \in Address BY <1>3, PayloadPointer
<1>8. h.heap_end \in Address BY <1>2, TiledFacts, GridWords
<1>9. l[s] \in Nat BY <1>3
<1> QED BY <1>5, <1>6, <1>7, <1>8, <1>9

\* The regions of two slots do not overlap.
LEMMA RegionsApart ==
  ASSUME NEW h, NEW a, NEW l, NEW p, Sound(h, a, l, p),
         NEW s \in Slot, a[s] # NULL, NEW t \in Slot, a[t] # NULL, s # t
  PROVE  a[s] + l[s] <= a[t] \/ a[t] + l[t] <= a[s]
<1>1. PICK B : Good(h, B, FreeOf(h, B)) /\ Owned(h, AllocOf(h, B), a, l) BY DEF Sound
<1>2. Tiled(h, B) BY <1>1 DEF Good
<1>3. PICK b \in AllocOf(h, B) :
        /\ a[s] = NEXT_PTR(b) /\ PREV_PTR(a[s]) = b /\ b \in Grid /\ b \in B
        /\ GET_SIZE(h, b) = BlockSize(l[s]) /\ l[s] \in Nat /\ l[s] + 47 < SizeLimit
  BY <1>1, <1>2, OwnedBlock
<1>4. PICK c \in AllocOf(h, B) :
        /\ a[t] = NEXT_PTR(c) /\ PREV_PTR(a[t]) = c /\ c \in Grid /\ c \in B
        /\ GET_SIZE(h, c) = BlockSize(l[t]) /\ l[t] \in Nat /\ l[t] + 47 < SizeLimit
  BY <1>1, <1>2, OwnedBlock
<1>5. b # c
  <2>1. a[s] # a[t] BY <1>1 DEF Owned
  <2> QED BY <2>1, <1>3, <1>4
<1>6. PICK x \in Nat : x = GET_SIZE(h, b) /\ l[s] + 16 <= x BY <1>3, BlockSizeIs
<1>7. PICK y \in Nat : y = GET_SIZE(h, c) /\ l[t] + 16 <= y BY <1>4, BlockSizeIs
<1>8. /\ b \in Nat /\ c \in Nat
      /\ b < c => b + x <= c
      /\ c < b => c + y <= b
  <2>1. NEXT_BLKP(h, b) = b + x /\ NEXT_BLKP(h, c) = c + y
    BY <1>2, <1>3, <1>4, <1>6, <1>7, TileFacts DEF Tiled
  <2>2. b \in Nat /\ c \in Nat BY <1>2, <1>3, <1>4, Apart
  <2>3. b < c => NEXT_BLKP(h, b) <= c BY <1>2, <1>3, <1>4, Apart
  <2>4. c < b => NEXT_BLKP(h, c) <= b BY <1>2, <1>3, <1>4, Apart
  <2> QED BY <2>1, <2>2, <2>3, <2>4
<1>9. a[s] = b + 8 /\ a[t] = c + 8 BY <1>3, <1>4, PayloadPointer
<1>10. l[s] \in Nat /\ l[t] \in Nat BY <1>3, <1>4
<1>11. b < c \/ c < b BY <1>5, <1>8
<1> QED BY <1>6, <1>7, <1>8, <1>9, <1>10, <1>11

\* A region whose block keeps its words keeps its contents.
LEMMA RegionKept ==
  ASSUME NEW h, NEW B, Tiled(h, B), NEW a, NEW l, Owned(h, AllocOf(h, B), a, l),
         NEW t \in Slot, a[t] # NULL, NEW A, PREV_PTR(a[t]) \in A, NEW g, Kept(h, g, A)
  PROVE  Region(g, a[t], l[t]) = Region(h, a[t], l[t])
<1>1. PICK c \in AllocOf(h, B) :
        /\ a[t] = NEXT_PTR(c) /\ PREV_PTR(a[t]) = c /\ c \in Grid /\ c \in B
        /\ GET_SIZE(h, c) = BlockSize(l[t]) /\ l[t] \in Nat /\ l[t] + 47 < SizeLimit
  BY OwnedBlock
<1>2. PICK n \in Nat : n = l[t] BY <1>1
<1>3. n + 16 <= GET_SIZE(h, c) /\ GET_SIZE(h, c) \in Nat BY <1>1, <1>2, BlockSizeIs
<1>4. ASSUME NEW i \in 0..(n \div TYPE_SIZE) - 1
      PROVE  g.mem[a[t] + i * TYPE_SIZE] = h.mem[a[t] + i * TYPE_SIZE]
  <2>1. PICK d \in Nat : d = 8 * i /\ d % 8 = 0 /\ d + 8 <= n /\ i * TYPE_SIZE = d
    BY RegionWord
  <2>2. PICK x : x = c + 8 + d OBVIOUS
  <2>3. d + 24 <= GET_SIZE(h, c) BY <2>1, <1>3
  <2>4. /\ x \in Address /\ x \in Nat /\ c \in Nat /\ c < x
        /\ NEXT_BLKP(h, c) \in Nat /\ x + 16 <= NEXT_BLKP(h, c)
    BY <2>1, <2>2, <2>3, <1>1, PayloadWord
  <2>5. c <= x /\ x < NEXT_BLKP(h, c) BY <2>4
  <2>6. GET(g, x) = GET(h, x) BY <2>4, <2>5, <1>1 DEF Kept
  <2>7. a[t] + i * TYPE_SIZE = x
    <3>1. a[t] = c + 8 BY <1>1, PayloadPointer
    <3> QED BY <3>1, <2>1, <2>2
  <2> QED BY <2>6, <2>7 DEF GET
<1> QED BY <1>2, <1>4 DEF Region

\* A new block leaves every region alone.
LEMMA NewKeeps ==
  ASSUME NEW h, NEW B, Tiled(h, B), NEW a, NEW l, Owned(h, AllocOf(h, B), a, l),
         NEW g, Kept(h, g, AllocOf(h, B)), NEW t \in Slot, a[t] # NULL
  PROVE  Region(g, a[t], l[t]) = Region(h, a[t], l[t])
<1>1. PREV_PTR(a[t]) \in AllocOf(h, B) BY DEF Owned
<1> QED BY <1>1, RegionKept

\* What becomes of the block of slot s leaves the other regions alone.
LEMMA OthersKeep ==
  ASSUME NEW h, NEW B, Tiled(h, B), NEW a, NEW l, Owned(h, AllocOf(h, B), a, l),
         NEW s \in Slot, NEW bp, a[s] = NEXT_PTR(bp),
         NEW g, Kept(h, g, AllocOf(h, B) \ {bp}), NEW t \in Slot, a[t] # NULL, s # t
  PROVE  Region(g, a[t], l[t]) = Region(h, a[t], l[t])
<1>1. PREV_PTR(a[t]) \in AllocOf(h, B) /\ a[t] = NEXT_PTR(PREV_PTR(a[t])) BY DEF Owned
<1>2. a[s] # a[t] BY DEF Owned
<1>3. PREV_PTR(a[t]) \in AllocOf(h, B) \ {bp} BY <1>1, <1>2
<1> QED BY <1>3, RegionKept

\* A slot gets a region, and the others keep what they have.
LEMMA GivesRegion ==
  ASSUME MemInv, Sound(heap', at', len', stale'), NEW s \in Slot, NEW p, p # NULL,
         NEW n \in Nat, at' = Updated(at, s, p), len' = Updated(len, s, n),
         \A t \in Slot : t # s /\ at[t] # NULL =>
           Region(heap', at[t], len[t]) = Region(heap, at[t], len[t])
  PROVE  /\ Allocator!Give(s, n, Region(heap', p, n))
         /\ Content'[s] = Region(heap', p, n)
<1>1. Sound(heap, at, len, stale) BY DEF MemInv
<1>2. at \in [Slot -> Address \cup {NULL}] /\ len \in [Slot -> Nat]
  BY <1>1 DEF Sound, Owned
<1>3. /\ at'[s] = p /\ len'[s] = n
      /\ \A t \in Slot : t # s => at'[t] = at[t] /\ len'[t] = len[t]
  BY <1>2 DEF Updated
<1>4. at'[s] \in Address /\ at' = [at EXCEPT ![s] = at'[s]] /\ len' = [len EXCEPT ![s] = n]
  <2>1. at'[s] \in Address BY <1>3, RegionInside
  <2> QED BY <2>1, <1>3 DEF Updated
<1>5. ASSUME NEW t \in Slot, t # s, at[t] # NULL
      PROVE  at'[s] + n <= at[t] \/ at[t] + len[t] <= at'[s]
  <2>1. at'[s] # NULL /\ at'[t] # NULL BY <1>3, <1>5
  <2>2. at'[s] + len'[s] <= at'[t] \/ at'[t] + len'[t] <= at'[s]
    BY <2>1, <1>5, RegionsApart
  <2> QED BY <2>2, <1>3, <1>5
<1>6. Allocator!Resize(at', len')
  <2>1. heap'.heap_end \in Address BY <1>3, RegionInside
  <2>2. \A t \in Slot : at'[t] # NULL => at'[t] + len'[t] <= heap'.heap_end
    BY RegionInside
  <2> QED BY <2>1, <2>2 DEF Allocator!Resize
<1>7. DOMAIN Region(heap', p, n) = Allocator!Words(n) BY DEF Region, Allocator!Words
<1>8. Content'[s] = Region(heap', p, n) BY <1>3 DEF Content
<1>9. Content' = [Content EXCEPT ![s] = Region(heap', p, n)]
  <2>1. ASSUME NEW t \in Slot, t # s
        PROVE  Content'[t] = Content[t]
    <3>1. at'[t] = at[t] /\ len'[t] = len[t] BY <2>1, <1>3
    <3>2. CASE at[t] = NULL BY <3>1, <3>2 DEF Content
    <3>3. CASE at[t] # NULL
      <4>1. Region(heap', at[t], len[t]) = Region(heap, at[t], len[t]) BY <3>3, <2>1
      <4> QED BY <4>1, <3>1, <3>3 DEF Content
    <3> QED BY <3>2, <3>3
  <2>2. /\ Content' = [t \in Slot |-> Content'[t]]
        /\ Content = [t \in Slot |-> Content[t]]
    BY DEF Content
  <2> QED BY <2>1, <2>2, <1>8
<1> QED BY <1>4, <1>5, <1>6, <1>7, <1>8, <1>9 DEF Allocator!Give, Allocator!Held

\* A slot gives its region back.
LEMMA TakesRegion ==
  ASSUME MemInv, Sound(heap', at', len', stale'), NEW s \in Slot, at[s] # NULL,
         at' = Updated(at, s, NULL), len' = Updated(len, s, 0),
         \A t \in Slot : t # s /\ at[t] # NULL =>
           Region(heap', at[t], len[t]) = Region(heap, at[t], len[t])
  PROVE  Allocator!Free(s)
<1>1. Sound(heap, at, len, stale) BY DEF MemInv
<1>2. at \in [Slot -> Address \cup {NULL}] /\ len \in [Slot -> Nat]
  BY <1>1 DEF Sound, Owned
<1>3. /\ at'[s] = NULL
      /\ \A t \in Slot : t # s => at'[t] = at[t] /\ len'[t] = len[t]
  BY <1>2 DEF Updated
<1>4. at' = [at EXCEPT ![s] = NULL] /\ len' = [len EXCEPT ![s] = 0] BY DEF Updated
<1>5. Allocator!Resize(at', len')
  <2>1. heap'.heap_end \in Address
    <3>1. PICK B : Tiled(heap', B) BY DEF Sound, Good
    <3> QED BY <3>1, TiledFacts, GridWords
  <2>2. \A t \in Slot : at'[t] # NULL => at'[t] + len'[t] <= heap'.heap_end
    BY RegionInside
  <2> QED BY <2>1, <2>2 DEF Allocator!Resize
<1>6. Content' = [Content EXCEPT ![s] = <<>>]
  <2>1. ASSUME NEW t \in Slot, t # s
        PROVE  Content'[t] = Content[t]
    <3>1. at'[t] = at[t] /\ len'[t] = len[t] BY <2>1, <1>3
    <3>2. CASE at[t] = NULL BY <3>1, <3>2 DEF Content
    <3>3. CASE at[t] # NULL
      <4>1. Region(heap', at[t], len[t]) = Region(heap, at[t], len[t]) BY <3>3, <2>1
      <4> QED BY <4>1, <3>1, <3>3 DEF Content
    <3> QED BY <3>2, <3>3
  <2>2. /\ Content' = [t \in Slot |-> Content'[t]]
        /\ Content = [t \in Slot |-> Content[t]]
    BY DEF Content
  <2>3. Content'[s] = <<>> BY <1>3 DEF Content
  <2> QED BY <2>1, <2>2, <2>3
<1> QED BY <1>4, <1>5, <1>6 DEF Allocator!Free, Allocator!Held

\* A call that fails changes nothing that the client sees.
LEMMA SeesNothing ==
  ASSUME heap' = heap, at' = at, len' = len
  PROVE  UNCHANGED Allocator!allocVars
<1>1. Content' = Content BY DEF Content
<1> QED BY <1>1 DEF Allocator!allocVars

\* What Hold leaves in the variables.
LEMMA HoldLeaves ==
  ASSUME NEW s, NEW got, NEW n, Hold(s, got, n)
  PROVE  /\ heap' = got.heap /\ at' = Updated(at, s, got.ptr)
         /\ len' = Updated(len, s, IF got.ptr = NULL THEN 0 ELSE n)
BY DEF Hold, Updated

\* A call for a slot without a region, of a routine that fails or returns a new
\* block.
LEMMA NewRegion ==
  ASSUME MemInv, Sound(heap', at', len', stale'),
         NEW B, Good(heap, B, FreeOf(heap, B)), Owned(heap, AllocOf(heap, B), at, len),
         NEW s \in Slot, at[s] = NULL, NEW n \in Nat, NEW got, Hold(s, got, n),
         got = Fails(heap) \/ \E C : Allocated(heap, AllocOf(heap, B), got, n, C)
  PROVE  \/ got = Fails(heap) /\ UNCHANGED Allocator!allocVars
         \/ /\ got # Fails(heap) /\ got.heap = heap'
            /\ Allocator!Give(s, n, Region(heap', got.ptr, n))
            /\ Content'[s] = Region(heap', got.ptr, n)
<1>1. /\ heap' = got.heap /\ at' = Updated(at, s, got.ptr)
      /\ len' = Updated(len, s, IF got.ptr = NULL THEN 0 ELSE n)
  BY HoldLeaves
<1>2. CASE got = Fails(heap)
  <2>1. got.ptr = NULL /\ got.heap = heap BY <1>2 DEF Fails
  <2>2. /\ at \in [Slot -> Address \cup {NULL}] /\ len \in [Slot -> Nat]
        /\ len[s] = 0
    BY DEF Owned
  <2>3. at' = at /\ len' = len BY <2>1, <2>2, <1>1 DEF Updated
  <2> QED BY <2>1, <2>3, <1>1, <1>2, SeesNothing
<1>3. CASE got # Fails(heap)
  <2>1. PICK C : Allocated(heap, AllocOf(heap, B), got, n, C) BY <1>3
  <2>2. got.ptr # NULL /\ Kept(heap, heap', AllocOf(heap, B))
    BY <2>1, <1>1 DEF Allocated
  <2>3. Tiled(heap, B) BY DEF Good
  <2>4. \A t \in Slot : t # s /\ at[t] # NULL =>
           Region(heap', at[t], len[t]) = Region(heap, at[t], len[t])
    BY <2>2, <2>3, NewKeeps
  <2>5. PICK p : p = got.ptr OBVIOUS
  <2>6. p # NULL /\ at' = Updated(at, s, p) /\ len' = Updated(len, s, n)
    BY <2>2, <2>5, <1>1
  <2>7. /\ Allocator!Give(s, n, Region(heap', p, n))
        /\ Content'[s] = Region(heap', p, n)
    BY <2>4, <2>6, GivesRegion
  <2> QED BY <2>5, <2>7, <1>1, <1>3
<1> QED BY <1>2, <1>3

\* malloc.
LEMMA MallocImplements ==
  ASSUME MemInv, Sound(heap', at', len', stale'), NEW s \in Slot, at[s] = NULL,
         NEW n \in Nat, n + 47 < SizeLimit, Hold(s, malloc(heap, n), n)
  PROVE  Allocator!Malloc(s, n) \/ UNCHANGED Allocator!allocVars
<1>1. PICK B : Good(heap, B, FreeOf(heap, B)) /\ Owned(heap, AllocOf(heap, B), at, len)
  BY DEF MemInv, Sound
<1>2. PICK got : got = malloc(heap, n) OBVIOUS
<1>3. got = Fails(heap) \/ \E C : Allocated(heap, AllocOf(heap, B), got, n, C)
  BY <1>1, <1>2, MallocEffect
<1>4. Hold(s, got, n) BY <1>2
<1>5. CASE UNCHANGED Allocator!allocVars BY <1>5
<1>6. CASE ~ UNCHANGED Allocator!allocVars
  <2>1. /\ got # Fails(heap)
        /\ Allocator!Give(s, n, Region(heap', got.ptr, n))
        /\ Content'[s] = Region(heap', got.ptr, n)
    BY <1>1, <1>3, <1>4, <1>6, NewRegion
  <2>2. n > 0
    <3>1. n = 0 => malloc(heap, n) = Fails(heap) BY DEF malloc
    <3>2. n # 0 BY <3>1, <2>1, <1>2
    <3> QED BY <3>2
  <2>3. Allocator!Give(s, n, Content'[s]) BY <2>1
  <2> QED BY <2>2, <2>3 DEF Allocator!Malloc, Allocator!Held
<1> QED BY <1>5, <1>6

\* calloc.
LEMMA CallocImplements ==
  ASSUME MemInv, Sound(heap', at', len', stale'), NEW s \in Slot, at[s] = NULL,
         NEW m \in Nat, NEW n \in Nat, m * n + 47 < SizeLimit,
         Hold(s, calloc(heap, m, n), m * n)
  PROVE  Allocator!Calloc(s, m, n) \/ UNCHANGED Allocator!allocVars
<1>1. PICK B : Good(heap, B, FreeOf(heap, B)) /\ Owned(heap, AllocOf(heap, B), at, len)
  BY DEF MemInv, Sound
<1>2. PICK got : got = calloc(heap, m, n) OBVIOUS
<1>3. PICK bytes \in Nat : bytes = m * n OBVIOUS
<1>4. \/ got = Fails(heap)
      \/ /\ \E C : Allocated(heap, AllocOf(heap, B), got, bytes, C)
         /\ \A a \in Address : got.ptr <= a /\ a + 8 <= got.ptr + bytes => GET(got.heap, a) = 0
  <2>1. bytes + 47 < SizeLimit BY <1>3
  <2> QED BY <2>1, <1>1, <1>2, <1>3, CallocEffect
<1>5. Hold(s, got, bytes) BY <1>2, <1>3
<1>6. CASE UNCHANGED Allocator!allocVars BY <1>6
<1>7. CASE ~ UNCHANGED Allocator!allocVars
  <2>1. /\ got # Fails(heap) /\ got.heap = heap'
        /\ Allocator!Give(s, bytes, Region(heap', got.ptr, bytes))
        /\ Content'[s] = Region(heap', got.ptr, bytes)
    BY <1>1, <1>4, <1>5, <1>7, NewRegion
  <2>2. bytes > 0
    <3>1. bytes # 0
      <4> SUFFICES ASSUME bytes = 0 PROVE FALSE
        OBVIOUS
      <4>1. (m * n) % SIZE_MOD = 0
        <5>1. SIZE_MOD \in Nat /\ SIZE_MOD > 47 BY LimitIs, MemMgrAssumption
        <5>2. 0 % SIZE_MOD = 0 BY <5>1
        <5> QED BY <5>2, <1>3
      <4>2. malloc(heap, 0) = Fails(heap) BY DEF malloc
      <4>3. got = Cleared(Fails(heap), 0) BY <4>1, <4>2, <1>2 DEF calloc
      <4>4. Fails(heap).ptr = NULL BY DEF Fails
      <4> QED BY <4>3, <4>4, <2>1 DEF Cleared
    <3> QED BY <3>1
  <2>3. Region(heap', got.ptr, bytes) = [i \in Allocator!Words(bytes) |-> 0]
    <3>1. PICK p : p = got.ptr OBVIOUS
    <3>2. at \in [Slot -> Address \cup {NULL}] /\ len \in [Slot -> Nat] BY <1>1 DEF Owned
    <3>3. at'[s] = p /\ p # NULL /\ len'[s] = bytes
      <4>1. at' = Updated(at, s, p) /\ len' = Updated(len, s, IF p = NULL THEN 0 ELSE bytes)
        BY <3>1, <1>5, HoldLeaves
      <4>2. p # NULL BY <3>1, <2>1, <1>4 DEF Allocated
      <4> QED BY <4>1, <4>2, <3>2 DEF Updated
    <3>4. /\ p \in Address /\ heap'.heap_end \in Address /\ p + bytes <= heap'.heap_end
      BY <3>3, RegionInside
    <3>5. \A a \in Address : p <= a /\ a + 8 <= p + bytes => GET(heap', a) = 0
      BY <3>1, <2>1, <1>4
    <3>6. ASSUME NEW i \in 0..(bytes \div TYPE_SIZE) - 1
          PROVE  heap'.mem[p + i * TYPE_SIZE] = 0
      <4>1. PICK d \in Nat : d = 8 * i /\ d % 8 = 0 /\ d + 8 <= bytes /\ i * TYPE_SIZE = d
        BY RegionWord
      <4>2. PICK e : e = heap'.heap_end OBVIOUS
      <4>3. /\ p \in Nat /\ p % 8 = 0 /\ 32 <= p /\ e \in Nat /\ e <= ds_heap_end - 1
            /\ ds_heap_end \in Int
        BY <4>2, <3>4, HeapStart DEF Address, TYPE_SIZE, first
      <4>4. PICK x \in Nat : x = p + d BY <4>1, <4>3
      <4>5. p <= x /\ x + 8 <= p + bytes /\ x <= e /\ x % 8 = 0
        <5>1. p + bytes <= e BY <4>2, <3>4
        <5> QED BY <5>1, <4>1, <4>3, <4>4
      <4>6. x \in Address BY <4>3, <4>4, <4>5 DEF Address, TYPE_SIZE, first
      <4>7. GET(heap', x) = 0 BY <4>5, <4>6, <3>5
      <4> QED BY <4>1, <4>4, <4>7 DEF GET
    <3> QED BY <3>1, <3>6 DEF Region, Allocator!Words
  <2>4. Allocator!Give(s, bytes, [i \in Allocator!Words(bytes) |-> 0]) BY <2>1, <2>3
  <2> QED BY <2>2, <2>4, <1>3 DEF Allocator!Calloc, Allocator!Held
<1> QED BY <1>6, <1>7

\* free.
LEMMA FreeImplements ==
  ASSUME MemInv, Sound(heap', at', len', stale'), NEW s \in Slot, at[s] # NULL,
         NEW n, Hold(s, [heap |-> free(heap, at[s]), ptr |-> NULL], n)
  PROVE  Allocator!Free(s)
<1>1. PICK B : Good(heap, B, FreeOf(heap, B)) /\ Owned(heap, AllocOf(heap, B), at, len)
  BY DEF MemInv, Sound
<1>2. Tiled(heap, B) BY <1>1 DEF Good
<1>3. PICK bp \in AllocOf(heap, B) :
        /\ at[s] = NEXT_PTR(bp) /\ PREV_PTR(at[s]) = bp /\ bp \in Grid /\ bp \in B
        /\ GET_SIZE(heap, bp) = BlockSize(len[s]) /\ len[s] \in Nat
        /\ len[s] + 47 < SizeLimit
  BY <1>1, <1>2, OwnedBlock
<1>4. PICK got : got = [heap |-> free(heap, at[s]), ptr |-> NULL] OBVIOUS
<1>5. got.heap = free(heap, at[s]) /\ got.ptr = NULL BY <1>4
<1>6. /\ heap' = got.heap /\ at' = Updated(at, s, got.ptr)
      /\ len' = Updated(len, s, IF got.ptr = NULL THEN 0 ELSE n)
  BY <1>4, HoldLeaves
<1>7. at' = Updated(at, s, NULL) /\ len' = Updated(len, s, 0) BY <1>5, <1>6
<1>8. Kept(heap, heap', AllocOf(heap, B) \ {bp}) BY <1>1, <1>3, <1>5, <1>6, FreeEffect
<1>9. \A t \in Slot : t # s /\ at[t] # NULL =>
        Region(heap', at[t], len[t]) = Region(heap, at[t], len[t])
  BY <1>1, <1>2, <1>3, <1>8, OthersKeep
<1> QED BY <1>7, <1>9, TakesRegion

\* realloc of a region.
LEMMA ReallocImplements ==
  ASSUME MemInv, Sound(heap', at', len', stale'), NEW s \in Slot, at[s] # NULL,
         NEW n \in Nat, n # 0, n + 47 < SizeLimit,
         NEW got, got = realloc(heap, at[s], n), got # Fails(heap), Hold(s, got, n)
  PROVE  Allocator!Realloc(s, n)
<1>1. PICK B : Good(heap, B, FreeOf(heap, B)) /\ Owned(heap, AllocOf(heap, B), at, len)
  BY DEF MemInv, Sound
<1>2. Tiled(heap, B) BY <1>1 DEF Good
<1>3. PICK bp \in AllocOf(heap, B) :
        /\ at[s] = NEXT_PTR(bp) /\ PREV_PTR(at[s]) = bp /\ bp \in Grid /\ bp \in B
        /\ GET_SIZE(heap, bp) = BlockSize(len[s]) /\ len[s] \in Nat
        /\ len[s] + 47 < SizeLimit
  BY <1>1, <1>2, OwnedBlock
<1>4. Reallocates(heap, AllocOf(heap, B) \ {bp}, bp, got, n)
  <2>1. got = realloc(heap, NEXT_PTR(bp), n) BY <1>3
  <2> QED BY <2>1, <1>1, <1>3, ReallocEffect
<1>5. PICK C : Allocated(heap, AllocOf(heap, B) \ {bp}, got, n, C)
  BY <1>4 DEF Reallocates
<1>6. PICK p : p = got.ptr OBVIOUS
<1>7. heap' = got.heap /\ at' = Updated(at, s, p) /\ len' = Updated(len, s, n) /\ p # NULL
  <2>1. p # NULL BY <1>5, <1>6 DEF Allocated
  <2>2. /\ heap' = got.heap /\ at' = Updated(at, s, got.ptr)
        /\ len' = Updated(len, s, IF got.ptr = NULL THEN 0 ELSE n)
    BY HoldLeaves
  <2> QED BY <2>1, <2>2, <1>6
<1>8. Kept(heap, heap', AllocOf(heap, B) \ {bp}) BY <1>5, <1>7 DEF Allocated
<1>9. \A t \in Slot : t # s /\ at[t] # NULL =>
        Region(heap', at[t], len[t]) = Region(heap, at[t], len[t])
  BY <1>1, <1>2, <1>3, <1>8, OthersKeep
<1>10. /\ Allocator!Give(s, n, Region(heap', p, n))
       /\ Content'[s] = Region(heap', p, n)
  BY <1>7, <1>9, GivesRegion
<1>11. PICK m \in Nat : m = len[s] BY <1>3
<1>12. Content[s] = Region(heap, at[s], m) BY <1>11 DEF Content
<1>13. ASSUME NEW i \in Allocator!Words(n) \cap Allocator!Words(m)
       PROVE  Region(heap', p, n)[i] = Region(heap, at[s], m)[i]
  <2>1. i \in 0..(n \div TYPE_SIZE) - 1 /\ i \in 0..(m \div TYPE_SIZE) - 1
    BY <1>13 DEF Allocator!Words
  <2>2. PICK d \in Nat : d = 8 * i /\ d % 8 = 0 /\ d + 8 <= n /\ i * TYPE_SIZE = d
    BY <2>1, RegionWord
  <2>3. d + 8 <= m BY <2>1, <2>2, RegionWord
  <2>4. m + 16 <= GET_SIZE(heap, bp) /\ GET_SIZE(heap, bp) \in Nat
    BY <1>3, <1>11, BlockSizeIs
  <2>5. d + 24 <= GET_SIZE(heap, bp) BY <2>3, <2>4
  <2>6. GET(got.heap, got.ptr + d) = GET(heap, bp + 8 + d)
    BY <2>2, <2>5, <1>4 DEF Reallocates, Copied
  <2>7. heap'.mem[p + d] = heap.mem[at[s] + d]
    <3>1. at[s] = bp + 8 BY <1>3, PayloadPointer
    <3> QED BY <3>1, <2>6, <1>6, <1>7 DEF GET
  <2>8. /\ Region(heap', p, n)[i] = heap'.mem[p + i * TYPE_SIZE]
        /\ Region(heap, at[s], m)[i] = heap.mem[at[s] + i * TYPE_SIZE]
    BY <2>1 DEF Region
  <2> QED BY <2>2, <2>7, <2>8
<1>14. \A i \in Allocator!Words(n) \cap Allocator!Words(len[s]) : Content'[s][i] = Content[s][i]
  BY <1>10, <1>11, <1>12, <1>13
<1>15. Allocator!Give(s, n, Content'[s]) BY <1>10
<1>16. n > 0 OBVIOUS
<1> QED BY <1>14, <1>15, <1>16 DEF Allocator!Realloc, Allocator!Held

\* A store into a region.
LEMMA StoreImplements ==
  ASSUME MemInv, NEW s \in Slot, Store(s)
  PROVE  Allocator!Store(s)
<1>1. PICK B : Good(heap, B, FreeOf(heap, B)) /\ Owned(heap, AllocOf(heap, B), at, len)
  BY DEF MemInv, Sound
<1>2. Tiled(heap, B) BY <1>1 DEF Good
<1>3. at[s] # NULL /\ heap' = memset(heap, at[s], s, len[s]) /\ at' = at /\ len' = len
  BY DEF Store
<1>4. PICK bp \in AllocOf(heap, B) :
        /\ at[s] = NEXT_PTR(bp) /\ PREV_PTR(at[s]) = bp /\ bp \in Grid /\ bp \in B
        /\ GET_SIZE(heap, bp) = BlockSize(len[s]) /\ len[s] \in Nat
        /\ len[s] + 47 < SizeLimit
  BY <1>1, <1>2, <1>3, OwnedBlock
<1>5. OnlyPayload(heap, heap', bp)
  <2>1. PICK n \in Nat : n = len[s] BY <1>4
  <2>2. GET_SIZE(heap, bp) \in Nat /\ n + 16 <= GET_SIZE(heap, bp)
    BY <2>1, <1>4, BlockSizeIs
  <2>3. bp \in Nat /\ IsHeap(heap) BY <1>2, <1>4, GridWords DEF Tiled
  <2>4. heap' = memset(heap, NEXT_PTR(bp), s, n) BY <2>1, <1>3, <1>4
  <2>5. NEXT_BLKP(heap, bp) = bp + GET_SIZE(heap, bp)
    BY <1>2, <1>4, TileFacts DEF Tiled
  <2> QED BY <2>2, <2>3, <2>4, <2>5, MemsetEffect
<1>6. Kept(heap, heap', AllocOf(heap, B) \ {bp})
  <2>1. Good(heap, B, FreeOf(heap, B)) /\ bp \in AllocOf(heap, B) BY <1>1, <1>4
  <2>2. /\ Good(heap', B, FreeOf(heap', B)) /\ AllocOf(heap', B) = AllocOf(heap, B)
        /\ FreeOf(heap', B) = FreeOf(heap, B)
        /\ \A b \in B : /\ GET_SIZE(heap', b) = GET_SIZE(heap, b)
                        /\ NEXT_BLKP(heap', b) = NEXT_BLKP(heap, b)
        /\ Kept(heap, heap', AllocOf(heap, B) \ {bp})
    BY ONLY <2>1, <1>5, PayloadEffect
  <2> QED BY <2>2
<1>7. \A t \in Slot : t # s /\ at[t] # NULL =>
        Region(heap', at[t], len[t]) = Region(heap, at[t], len[t])
  BY <1>1, <1>2, <1>4, <1>6, OthersKeep
<1>8. Content'[s] = Region(heap', at[s], len[s]) BY <1>3 DEF Content
<1>9. DOMAIN Content'[s] = Allocator!Words(len[s])
  BY <1>8 DEF Region, Allocator!Words
<1>10. Content' = [Content EXCEPT ![s] = Content'[s]]
  <2>1. ASSUME NEW t \in Slot, t # s
        PROVE  Content'[t] = Content[t]
    <3>1. CASE at[t] = NULL BY <3>1, <1>3 DEF Content
    <3>2. CASE at[t] # NULL
      <4>1. Region(heap', at[t], len[t]) = Region(heap, at[t], len[t])
        BY <3>2, <2>1, <1>7
      <4> QED BY <4>1, <3>2, <1>3 DEF Content
    <3> QED BY <3>1, <3>2
  <2>2. /\ Content' = [t \in Slot |-> Content'[t]]
        /\ Content = [t \in Slot |-> Content[t]]
    BY DEF Content
  <2> QED BY <2>1, <2>2
<1>11. UNCHANGED <<at, len, heap.heap_end>>
  <2>1. heap'.heap_end = heap.heap_end BY <1>5 DEF OnlyPayload, SameFrame
  <2> QED BY <2>1, <1>3
<1> QED BY <1>3, <1>9, <1>10, <1>11 DEF Allocator!Store, Allocator!Held

\* Every step of the memory manager is one of the allocator, or a stutter.
LEMMA NextAllocates ==
  ASSUME SizesInRange, MemInv, [Next]_vars
  PROVE  [Allocator!AllocNext]_Allocator!allocVars
<1>1. Sound(heap', at', len', stale') BY MemNext
<1>2. Size \subseteq Nat /\ Count \subseteq Nat BY MemMgrAssumption
<1>3. ASSUME NEW s \in Slot, Free(s) PROVE Allocator!AllocNext
  <2>1. at[s] # NULL /\ Hold(s, [heap |-> free(heap, at[s]), ptr |-> NULL], 0)
    BY <1>3 DEF Free
  <2>2. Allocator!Free(s) BY <2>1, <1>1, FreeImplements
  <2> QED BY <2>2 DEF Allocator!AllocNext
<1>4. ASSUME NEW s \in Slot, Store(s) PROVE Allocator!AllocNext
  BY <1>4, StoreImplements DEF Allocator!AllocNext
<1>5. ASSUME NEW s \in Slot, NEW n \in Size, Malloc(s, n)
      PROVE [Allocator!AllocNext]_Allocator!allocVars
  <2>1. n \in Nat /\ n + 47 < SizeLimit BY <1>2 DEF SizesInRange
  <2>2. at[s] = NULL /\ Hold(s, malloc(heap, n), n) BY <1>5 DEF Malloc
  <2>3. Allocator!Malloc(s, n) \/ UNCHANGED Allocator!allocVars
    BY <2>1, <2>2, <1>1, MallocImplements
  <2> QED BY <2>3 DEF Allocator!AllocNext
<1>6. ASSUME NEW s \in Slot, NEW m \in Count, NEW n \in Size, Calloc(s, m, n)
      PROVE [Allocator!AllocNext]_Allocator!allocVars
  <2>1. m \in Nat /\ n \in Nat /\ m * n + 47 < SizeLimit BY <1>2 DEF SizesInRange
  <2>2. at[s] = NULL /\ Hold(s, calloc(heap, m, n), m * n) BY <1>6 DEF Calloc
  <2>3. Allocator!Calloc(s, m, n) \/ UNCHANGED Allocator!allocVars
    BY <2>1, <2>2, <1>1, CallocImplements
  <2> QED BY <2>3 DEF Allocator!AllocNext
<1>7. ASSUME NEW s \in Slot, NEW n \in Size, Realloc(s, n)
      PROVE [Allocator!AllocNext]_Allocator!allocVars
  <2>1. n \in Nat /\ n + 47 < SizeLimit BY <1>2 DEF SizesInRange
  <2>2. PICK got : got = realloc(heap, at[s], n) OBVIOUS
  <2>3. Reallocated(s, n, got) BY <2>2, <1>7 DEF Realloc
  <2>4. CASE got = Fails(heap) /\ at[s] # NULL /\ n # 0
    <3>1. got.ptr = NULL /\ got.heap = heap BY <2>4 DEF Fails
    <3>2. n > 0 BY <2>1, <2>4
    <3>3. heap' = heap /\ at' = at /\ len' = len BY <3>1, <3>2, <2>3 DEF Reallocated
    <3> QED BY <3>3, SeesNothing
  <2>5. CASE got # Fails(heap) /\ at[s] # NULL /\ n # 0
    <3>1. got.ptr # NULL
      BY <2>1, <2>2, <2>5, SoundAgain DEF MemInv
    <3>2. Hold(s, got, n) BY <3>1, <2>3 DEF Reallocated
    <3>3. Allocator!Realloc(s, n) BY <3>2, <2>1, <2>2, <2>5, <1>1, ReallocImplements
    <3> QED BY <3>3 DEF Allocator!AllocNext
  <2>6. CASE at[s] # NULL /\ n = 0
    <3>1. got = [heap |-> free(heap, at[s]), ptr |-> NULL] BY <2>2, <2>6 DEF realloc
    <3>2. ~ n > 0 BY <2>6
    <3>3. Hold(s, got, n) BY <3>2, <2>3 DEF Reallocated
    <3>4. Hold(s, [heap |-> free(heap, at[s]), ptr |-> NULL], n) BY <3>1, <3>3
    <3>5. Allocator!Free(s) BY <3>4, <2>6, <1>1, FreeImplements
    <3> QED BY <3>5 DEF Allocator!AllocNext
  <2>7. CASE at[s] = NULL
    <3>1. got = malloc(heap, n) BY <2>2, <2>7 DEF realloc
    <3>2. CASE n > 0 /\ got.ptr = NULL
      <4>1. PICK B : Good(heap, B, FreeOf(heap, B)) BY DEF MemInv, Sound
      <4>2. \/ got = Fails(heap)
            \/ \E C : Allocated(heap, AllocOf(heap, B), got, n, C)
        BY <4>1, <3>1, <2>1, MallocEffect
      <4>3. got = Fails(heap) BY <4>2, <3>2 DEF Allocated
      <4>4. got.heap = heap BY <4>3 DEF Fails
      <4>5. heap' = heap /\ at' = at /\ len' = len
        BY <4>4, <3>2, <2>3 DEF Reallocated
      <4> QED BY <4>5, SeesNothing
    <3>3. CASE ~ (n > 0 /\ got.ptr = NULL)
      <4>1. Hold(s, got, n) BY <3>3, <2>3 DEF Reallocated
      <4>2. Hold(s, malloc(heap, n), n) BY <4>1, <3>1
      <4>3. Allocator!Malloc(s, n) \/ UNCHANGED Allocator!allocVars
        BY <4>2, <2>1, <2>7, <1>1, MallocImplements
      <4> QED BY <4>3 DEF Allocator!AllocNext
    <3> QED BY <3>2, <3>3
  <2> QED BY <2>4, <2>5, <2>6, <2>7
<1>8. ASSUME FreeAgain PROVE UNCHANGED Allocator!allocVars
  BY <1>8, AgainChangesNothing, SeesNothing
<1>9. ASSUME UNCHANGED vars PROVE UNCHANGED Allocator!allocVars
  <2>1. heap' = heap /\ at' = at /\ len' = len BY <1>9 DEF vars
  <2> QED BY <2>1, SeesNothing
<1> QED BY <1>3, <1>4, <1>5, <1>6, <1>7, <1>8, <1>9 DEF Next

\* mm_init leaves the client without regions.
LEMMA InitAllocates ==
  ASSUME Init
  PROVE  Allocator!AllocInit
<1>1. PICK B : Tiled(heap, B) BY MemInit DEF MemInv, Sound, Good
<1>2. heap.heap_end \in Address BY <1>1, TiledFacts, GridWords
<1>3. Content = [s \in Slot |-> <<>>] BY DEF Init, Content
<1> QED BY <1>2, <1>3 DEF Init, Allocator!AllocInit

------------------------------------------------------------------------------
(* Theorems *)

\* The inductive invariant: between two calls the blocks tile the heap, the
\* free list threads the free ones, the client's slots own the others, and the
\* header of the pointer freed last says FREE.
THEOREM MemCorrect ==
  ASSUME SizesInRange
  PROVE  Spec => []MemInv
<1>1. MemInv /\ [Next]_vars => MemInv'
  BY MemNext DEF MemInv
<1> QED BY <1>1, MemInit, PTL DEF Spec

\* The globals of memmgr.c and the client's variables keep their types, and the
\* end sentinel stays below the break.
THEOREM MemTypeOK ==
  ASSUME SizesInRange
  PROVE  Spec => []TypeOK
BY MemCorrect, InvType, PTL

\* After every call the headers lead from heap_start over whole blocks with
\* equal tags to heap_end: what mm_check looks for (memmgr.c:636-719).
THEOREM MemTiled ==
  ASSUME SizesInRange
  PROVE  Spec => []HeapIsTiled
BY MemCorrect, InvTiled, PTL

\* After every call the explicit list has the free blocks, each of them once,
\* and reads the same backwards (add_free_block and remove_free_block).
THEOREM MemListed ==
  ASSUME SizesInRange
  PROVE  Spec => []FreeListIsFreeBlocks
BY MemCorrect, InvListed, PTL

\* No call leaks a block or hands one out twice (mm_malloc, mm_calloc,
\* mm_realloc and mm_free in any order).
THEOREM MemHeld ==
  ASSUME SizesInRange
  PROVE  Spec => []AllocatedIsHeld
BY MemCorrect, InvHeld, PTL

\* A second mm_free or mm_realloc of a pointer is recognized as such
\* (memmgr.c:555, 615).
THEOREM MemRecognized ==
  ASSUME SizesInRange
  PROVE  Spec => []FreedIsRecognized
BY MemCorrect, InvRecognized, PTL

\* The memory manager implements the allocator: whatever mm_malloc, mm_calloc,
\* mm_realloc and mm_free do to blocks, tags and lists, a region is disjoint
\* from all others, and what the client stored in it stays there.
THEOREM MemImplementsAllocator ==
  ASSUME SizesInRange
  PROVE  Spec => ImplementsAllocator
<1>1. Init => Allocator!AllocInit BY InitAllocates
<1>2. MemInv /\ [Next]_vars => [Allocator!AllocNext]_Allocator!allocVars
  BY NextAllocates
<1> QED BY <1>1, <1>2, MemCorrect, PTL
        DEF Spec, ImplementsAllocator, Allocator!AllocSpec
=============================================================================
