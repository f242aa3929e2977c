------------------------------ MODULE HeapLemmas ------------------------------
(***************************************************************************)
(* What the macros and the helpers of MemMgr do to a heap that is tiled by *)
(* blocks and threaded by a free list: writing a word, linking a block,    *)
(* walking the heap, merging, growing and splitting.                       *)
(***************************************************************************)
EXTENDS MemMgr, DataLemmas, FunctionTheorems

(* Addresses *)

\* The places of a header: multiples of BS with room for a block behind them.
Grid == {a \in Nat : a % BS = 0 /\ first <= a /\ a + BS < ds_heap_end}

\* heap_start is the second multiple of BS in the segment.
LEMMA HeapStart ==
  /\ heap_start = ds_heap_start + 32 /\ ds_heap_start \in Nat /\ ds_heap_start % 32 = 0
  /\ heap_start \in Grid /\ first \in Grid /\ last \in Grid
  /\ first = 32 /\ last = 64 /\ last < ds_heap_start
  /\ ds_heap_end = ds_heap_start + MaxHeapSize /\ MaxHeapSize \in Nat
<1>1. /\ ds_heap_start \in Nat /\ MaxHeapSize \in Nat
      /\ ds_heap_start % 32 = 0 /\ ds_heap_start > 64 /\ MaxHeapSize > 64
  BY SegmentAssumption, MemMgrAssumption DEF BS, last
<1>2. (ds_heap_start + 39) \div 32 = ds_heap_start \div 32 + 1
  BY <1>1
<1>3. heap_start = ds_heap_start + 32
  BY <1>1, <1>2 DEF heap_start, Align, BS, TYPE_SIZE
<1> QED
  BY <1>1, <1>3 DEF Grid, BS, first, last, ds_heap_end

\* The words of the shortest block, and the footer of a block before it.
LEMMA GridWords ==
  ASSUME NEW a \in Grid
  PROVE  /\ a \in Nat /\ a \in Address /\ 32 <= a
         /\ a + 8 \in Address /\ a + 16 \in Address /\ a + 24 \in Address
         /\ a > 32 => a - 8 \in Address
         /\ a # NULL
<1>1. ds_heap_end \in Int /\ a \in Nat /\ 32 <= a /\ a + 32 < ds_heap_end /\ a % 32 = 0
  BY HeapStart DEF Grid, BS, first
<1>2. /\ a % 8 = 0 /\ (a + 8) % 8 = 0 /\ (a + 16) % 8 = 0 /\ (a + 24) % 8 = 0
      /\ (a - 8) % 8 = 0
  BY <1>1
<1> QED BY <1>1, <1>2 DEF Address, first, TYPE_SIZE, NULL

\* Two headers are at least one block apart.
LEMMA GridGap ==
  ASSUME NEW a \in Grid, NEW b \in Grid, a < b
  PROVE  a + 32 <= b
<1>1. a \in Nat /\ b \in Nat /\ a % 32 = 0 /\ b % 32 = 0
  BY DEF Grid, BS
<1> QED BY <1>1

\* Where a block that ends before a header ends, there may be a header.
LEMMA GridAdd ==
  ASSUME NEW a \in Grid, NEW n \in Nat, n % 32 = 0, NEW b \in Grid, a + n <= b
  PROVE  a + n \in Grid
<1>1. a \in Nat /\ b \in Nat /\ a % 32 = 0 /\ first <= a /\ b + 32 < ds_heap_end
  BY DEF Grid, BS
<1>2. (a + n) % 32 = 0 BY <1>1
<1>3. first \in Int /\ ds_heap_end \in Int BY HeapStart
<1> QED BY <1>1, <1>2, <1>3 DEF Grid, BS

\* The distance of two headers.
LEMMA GridDiff ==
  ASSUME NEW a \in Grid, NEW b \in Grid, a <= b
  PROVE  b - a \in Nat /\ (b - a) % 32 = 0 /\ (a # b => b - a >= 32)
<1>1. a \in Nat /\ b \in Nat /\ a % 32 = 0 /\ b % 32 = 0
  BY DEF Grid, BS
<1> QED BY <1>1

\* Where a block that begins after a header begins, there may be a header.
LEMMA GridSub ==
  ASSUME NEW a \in Grid, NEW n \in Nat, n % 32 = 0, NEW b \in Grid, b <= a - n
  PROVE  a - n \in Grid
<1>1. a \in Nat /\ b \in Nat /\ a % 32 = 0 /\ first <= b /\ a + 32 < ds_heap_end
  BY DEF Grid, BS
<1>2. (a - n) % 32 = 0 BY <1>1
<1>3. first \in Int /\ ds_heap_end \in Int BY HeapStart
<1> QED BY <1>1, <1>2, <1>3 DEF Grid, BS

------------------------------------------------------------------------------
(* Words *)

\* A heap is a record of these fields whose memory has every address.
IsHeap(h) ==
  h = [policy |-> h.policy, ds_heap_brk |-> h.ds_heap_brk, heap_end |-> h.heap_end,
       mem |-> [a \in Address |-> h.mem[a]]]

\* g differs from h at most in the contents of the memory.
SameFrame(h, g) ==
  /\ IsHeap(h) /\ IsHeap(g)
  /\ g.policy = h.policy /\ g.ds_heap_brk = h.ds_heap_brk /\ g.heap_end = h.heap_end

\* PUT writes one word.
LEMMA PutEffect ==
  ASSUME NEW h, IsHeap(h), NEW p \in Address, NEW v
  PROVE  /\ SameFrame(h, PUT(h, p, v))
         /\ GET(PUT(h, p, v), p) = v
         /\ \A a \in Address : a # p => GET(PUT(h, p, v), a) = GET(h, a)
<1> DEFINE m == [a \in Address |-> h.mem[a]]
<1> DEFINE m2 == [m EXCEPT ![p] = v]
<1> DEFINE g == PUT(h, p, v)
<1>1. h.mem = m BY DEF IsHeap
<1>2. g = [h EXCEPT !.mem = m2] BY <1>1 DEF PUT
<1>3. g = [policy |-> h.policy, ds_heap_brk |-> h.ds_heap_brk, heap_end |-> h.heap_end,
           mem |-> m2]
  BY <1>2 DEF IsHeap
<1>4. m2 = [a \in Address |-> m2[a]] OBVIOUS
<1>5. m2[p] = v /\ \A a \in Address : a # p => m2[a] = h.mem[a] OBVIOUS
<1> HIDE DEF m2, g
<1>6. /\ g.mem = m2 /\ g.policy = h.policy /\ g.ds_heap_brk = h.ds_heap_brk
      /\ g.heap_end = h.heap_end
  BY <1>3
<1>7. IsHeap(g) BY <1>3, <1>4, <1>6 DEF IsHeap
<1>8. SameFrame(h, g) BY <1>6, <1>7 DEF SameFrame
<1>9. g[ "mem" ] = m2 BY <1>6
<1>10. GET(g, p) = v /\ \A a \in Address : a # p => GET(g, a) = GET(h, a)
  BY <1>5, <1>6 DEF GET
<1> QED BY <1>8, <1>10 DEF g

\* What GET_SIZE and GET_STATUS take apart again.
LEMMA Packed ==
  ASSUME NEW n \in Nat, n % 32 = 0, NEW status \in {ALLOC, FREE}, NEW h, NEW p,
         GET(h, p) = PACK(n, status)
  PROVE  GET_SIZE(h, p) = n /\ GET_STATUS(h, p) = status
<1>1. status \in {0, 1} BY DEF ALLOC, FREE
<1>2. (n + status) % 8 = status BY <1>1
<1> QED BY <1>1, <1>2 DEF GET_SIZE, GET_STATUS, PACK

\* Words that are equal are read alike.
LEMMA SameTag ==
  ASSUME NEW h, NEW g, NEW p, GET(g, p) = GET(h, p)
  PROVE  /\ GET_SIZE(g, p) = GET_SIZE(h, p) /\ GET_STATUS(g, p) = GET_STATUS(h, p)
         /\ NEXT_BLKP(g, p) = NEXT_BLKP(h, p)
BY DEF GET_SIZE, GET_STATUS, NEXT_BLKP

\* Sizes below the end of the segment are the same to size_t and as a signed
\* integer.
LEMMA SignedSize ==
  ASSUME NEW n \in Nat, n < ds_heap_end
  PROVE  Signed(n) = n /\ n % SIZE_MOD = n
<1>1. ds_heap_end \in Nat /\ SIZE_MOD \in Nat /\ SIZE_MOD > 2 * ds_heap_end
  BY HeapStart, MemMgrAssumption
<1>2. 2 * n < SIZE_MOD /\ n < SIZE_MOD BY <1>1
<1> QED BY <1>1, <1>2 DEF Signed

\* So are the distances of headers.
LEMMA SignedGap ==
  ASSUME NEW a \in Grid, NEW b \in Grid, a <= b
  PROVE  /\ b - a \in Nat /\ b - a < ds_heap_end
         /\ Signed(b - a) = b - a /\ (b - a) % SIZE_MOD = b - a
<1>1. a \in Nat /\ b \in Nat /\ b + 32 < ds_heap_end /\ ds_heap_end \in Nat
  BY HeapStart DEF Grid, BS
<1>2. b - a \in Nat /\ b - a < ds_heap_end BY <1>1
<1> QED BY <1>2, SignedSize

\* PutTags writes a header and the footer that belongs to it, and nothing else.
LEMMA PutTagsEffect ==
  ASSUME NEW h, IsHeap(h), NEW bp \in Grid, NEW n \in Nat, n % 32 = 0, n >= 32,
         bp + n \in Grid, NEW status \in {ALLOC, FREE},
         NEW g, g = PutTags(h, bp, n, status)
  PROVE  /\ SameFrame(h, g)
         /\ GET(g, bp) = PACK(n, status) /\ GET(g, bp + n - 8) = PACK(n, status)
         /\ GET_SIZE(g, bp) = n /\ GET_STATUS(g, bp) = status
         /\ \A a \in Address : a # bp /\ a # bp + n - 8 => GET(g, a) = GET(h, a)
<1> DEFINE v == PACK(n, status)
           h1 == PUT(h, bp, v)
<1>1. bp \in Address /\ bp + n - 8 \in Address /\ bp # bp + n - 8 /\ bp \in Nat
  <2>1. bp \in Nat /\ bp + n > 32 BY GridWords
  <2> QED BY <2>1, GridWords
<1> HIDE DEF v
<1>2. /\ SameFrame(h, h1) /\ GET(h1, bp) = v
      /\ \A a \in Address : a # bp => GET(h1, a) = GET(h, a)
  BY <1>1, PutEffect
<1>3. GET_SIZE(h1, bp) = n BY <1>2, Packed DEF v
<1>4. g = PUT(h1, bp + n - 8, v)
  <2>1. Signed(n) = n
    <3>1. bp \in Nat /\ bp <= bp + n /\ n = (bp + n) - bp BY <1>1
    <3> QED BY <3>1, SignedGap
  <2> QED BY <1>3, <2>1 DEF PutTags, HDR2FTR, TYPE_SIZE, v
<1> HIDE DEF h1
<1>5. IsHeap(h1) BY <1>2 DEF SameFrame
<1>6. /\ SameFrame(h1, g) /\ GET(g, bp + n - 8) = v
      /\ \A a \in Address : a # bp + n - 8 => GET(g, a) = GET(h1, a)
  BY <1>1, <1>4, <1>5, PutEffect
<1>7. SameFrame(h, g) BY <1>2, <1>6 DEF SameFrame
<1>8. GET(g, bp) = v BY <1>1, <1>2, <1>6
<1>9. GET_SIZE(g, bp) = n /\ GET_STATUS(g, bp) = status BY <1>8, Packed DEF v
<1>10. \A a \in Address : a # bp /\ a # bp + n - 8 => GET(g, a) = GET(h, a)
  BY <1>2, <1>6
<1> QED BY <1>6, <1>7, <1>8, <1>9, <1>10 DEF v

------------------------------------------------------------------------------
(* Tilings *)

\* b is the header of a block: the tags agree.
IsBlock(h, b) ==
  /\ GET_SIZE(h, b) \in Nat /\ GET_SIZE(h, b) % 32 = 0 /\ GET_SIZE(h, b) >= 32
  /\ GET_SIZE(h, b) < ds_heap_end
  /\ GET_STATUS(h, b) \in {ALLOC, FREE}
  /\ GET(h, NEXT_BLKP(h, b) - 8) = GET(h, b)

\* The blocks N follow each other from lo to hi.
Tile(h, N, lo, hi) ==
  /\ lo \in Grid /\ hi \in Grid /\ lo <= hi
  /\ N \subseteq Grid /\ lo \in N \cup {hi}
  /\ \A b \in N : /\ lo <= b /\ b < hi
                  /\ IsBlock(h, b) /\ NEXT_BLKP(h, b) \in N \cup {hi}
  /\ \A b, c \in N : b < c => NEXT_BLKP(h, b) <= c

\* A block of a tiling, its size and its end.
LEMMA TileFacts ==
  ASSUME NEW h, NEW N, NEW lo, NEW hi, Tile(h, N, lo, hi), NEW b \in N
  PROVE  /\ b \in Grid /\ b \in Nat /\ NEXT_BLKP(h, b) \in Grid /\ NEXT_BLKP(h, b) \in Nat
         /\ lo \in Nat /\ hi \in Nat
         /\ lo <= b /\ b + 32 <= NEXT_BLKP(h, b) /\ NEXT_BLKP(h, b) <= hi
         /\ GET_SIZE(h, b) = NEXT_BLKP(h, b) - b
         /\ NEXT_BLKP(h, b) = b + GET_SIZE(h, b)
<1>1. b \in Grid /\ NEXT_BLKP(h, b) \in Grid /\ lo \in Grid /\ hi \in Grid
  BY DEF Tile
<1>2. b \in Nat /\ NEXT_BLKP(h, b) \in Nat /\ lo \in Nat /\ hi \in Nat
  BY <1>1, GridWords
<1>3. GET_SIZE(h, b) \in Nat /\ GET_SIZE(h, b) >= 32 BY DEF Tile, IsBlock
<1>4. NEXT_BLKP(h, b) = b + GET_SIZE(h, b)
  <2>1. GET_SIZE(h, b) < ds_heap_end BY DEF Tile, IsBlock
  <2> QED BY <1>3, <2>1, SignedSize DEF NEXT_BLKP
<1>5. lo <= b /\ b < hi /\ NEXT_BLKP(h, b) \in N \cup {hi} BY DEF Tile
<1>6. NEXT_BLKP(h, b) <= hi
  <2>1. CASE NEXT_BLKP(h, b) = hi BY <2>1, <1>2
  <2>2. CASE NEXT_BLKP(h, b) \in N
    <3>1. NEXT_BLKP(h, b) < hi BY <2>2 DEF Tile
    <3> QED BY <3>1, <1>2
  <2> QED BY <2>1, <2>2, <1>5
<1> QED BY <1>1, <1>2, <1>3, <1>4, <1>5, <1>6

\* Blocks whose tags stay are blocks.
LEMMA SameBlock ==
  ASSUME NEW h, NEW g, NEW b, IsBlock(h, b),
         GET(g, b) = GET(h, b), GET(g, NEXT_BLKP(h, b) - 8) = GET(h, NEXT_BLKP(h, b) - 8)
  PROVE  IsBlock(g, b) /\ NEXT_BLKP(g, b) = NEXT_BLKP(h, b)
<1>1. /\ GET_SIZE(g, b) = GET_SIZE(h, b) /\ GET_STATUS(g, b) = GET_STATUS(h, b)
      /\ NEXT_BLKP(g, b) = NEXT_BLKP(h, b)
  BY SameTag
<1> QED BY <1>1 DEF IsBlock

\* The tags of the blocks N of heap h are the same in heap g.
SameTags(h, g, N) ==
  \A b \in N : /\ GET(g, b) = GET(h, b)
               /\ GET(g, NEXT_BLKP(h, b) - 8) = GET(h, NEXT_BLKP(h, b) - 8)

\* A tiling stays one when no tag of its blocks is written.
LEMMA TileFrame ==
  ASSUME NEW h, NEW g, NEW N, NEW lo, NEW hi, Tile(h, N, lo, hi), SameTags(h, g, N)
  PROVE  Tile(g, N, lo, hi) /\ \A b \in N : NEXT_BLKP(g, b) = NEXT_BLKP(h, b)
<1>1. \A b \in N : IsBlock(g, b) /\ NEXT_BLKP(g, b) = NEXT_BLKP(h, b)
  BY SameBlock DEF Tile, SameTags
<1> QED BY <1>1 DEF Tile

\* The blocks before one of them, or all.
LEMMA TileCut ==
  ASSUME NEW h, NEW N, NEW lo, NEW hi, Tile(h, N, lo, hi), NEW p \in N \cup {hi}
  PROVE  Tile(h, {b \in N : b < p}, lo, p)
<1> DEFINE M == {b \in N : b < p}
<1>1. p \in Grid /\ lo \in Grid /\ lo <= p /\ p \in Nat /\ lo \in Nat
  <2>1. p \in Grid /\ lo \in Grid /\ lo <= p BY DEF Tile
  <2> QED BY <2>1, GridWords
<1>2. M \subseteq N /\ N \subseteq Grid BY DEF Tile
<1>3. lo \in M \cup {p}
  <2>1. lo \in N \cup {hi} BY DEF Tile
  <2>2. CASE lo = p BY <2>2
  <2>3. CASE lo # p
    <3>1. lo < p BY <2>3, <1>1
    <3>2. p <= hi /\ hi \in Nat
      <4>1. CASE p = hi BY <4>1, <1>1
      <4>2. CASE p \in N BY <4>2, TileFacts
      <4> QED BY <4>1, <4>2
    <3>3. lo # hi BY <3>1, <3>2, <1>1
    <3> QED BY <2>1, <3>1, <3>3
  <2> QED BY <2>2, <2>3
<1>4. ASSUME NEW b \in M
      PROVE lo <= b /\ b < p /\ IsBlock(h, b) /\ NEXT_BLKP(h, b) \in M \cup {p}
  <2>1. b \in N /\ b < p /\ lo <= b /\ IsBlock(h, b) BY DEF Tile
  <2>2. /\ b \in Nat /\ NEXT_BLKP(h, b) \in Nat /\ NEXT_BLKP(h, b) <= hi /\ hi \in Nat
        /\ NEXT_BLKP(h, b) \in N \cup {hi}
    BY <2>1, TileFacts DEF Tile
  <2>3. NEXT_BLKP(h, b) <= p
    <3>1. CASE p = hi BY <3>1, <2>2
    <3>2. CASE p \in N BY <3>2, <2>1 DEF Tile
    <3> QED BY <3>1, <3>2
  <2>4. CASE NEXT_BLKP(h, b) = p BY <2>1, <2>4
  <2>5. CASE NEXT_BLKP(h, b) # p
    <3>1. NEXT_BLKP(h, b) < p BY <2>3, <2>5, <2>2, <1>1
    <3>2. p <= hi
      <4>1. CASE p = hi BY <4>1, <1>1
      <4>2. CASE p \in N BY <4>2, TileFacts
      <4> QED BY <4>1, <4>2
    <3>3. NEXT_BLKP(h, b) # hi BY <3>1, <3>2, <2>2, <1>1
    <3> QED BY <3>1, <3>3, <2>2, <2>1
  <2> QED BY <2>4, <2>5
<1>5. \A b, c \in M : b < c => NEXT_BLKP(h, b) <= c BY <1>2 DEF Tile
<1> HIDE DEF M
<1>6. M \subseteq Grid BY <1>2
<1>7. Tile(h, M, lo, p) BY <1>1, <1>3, <1>4, <1>5, <1>6 DEF Tile
<1> QED BY <1>7 DEF M

\* The blocks from one of them on.
LEMMA TileRest ==
  ASSUME NEW h, NEW N, NEW lo, NEW hi, Tile(h, N, lo, hi), NEW p \in N \cup {hi}
  PROVE  Tile(h, {b \in N : p <= b}, p, hi)
<1> DEFINE M == {b \in N : p <= b}
<1>1. p \in Grid /\ hi \in Grid /\ p \in Nat /\ hi \in Nat
  <2>1. p \in Grid /\ hi \in Grid BY DEF Tile
  <2> QED BY <2>1, GridWords
<1>2. p <= hi /\ p \in M \cup {hi}
  <2>1. CASE p = hi BY <2>1, <1>1
  <2>2. CASE p \in N
    <3>1. p < hi BY <2>2 DEF Tile
    <3> QED BY <3>1, <2>2, <1>1
  <2> QED BY <2>1, <2>2
<1>3. ASSUME NEW b \in M
      PROVE p <= b /\ b < hi /\ IsBlock(h, b) /\ NEXT_BLKP(h, b) \in M \cup {hi}
  <2>1. b \in N /\ p <= b /\ b < hi /\ IsBlock(h, b) /\ NEXT_BLKP(h, b) \in N \cup {hi}
    BY DEF Tile
  <2>2. b \in Nat /\ NEXT_BLKP(h, b) \in Nat /\ b + 32 <= NEXT_BLKP(h, b)
    BY <2>1, TileFacts
  <2>3. p <= NEXT_BLKP(h, b) BY <2>1, <2>2, <1>1
  <2> QED BY <2>1, <2>3
<1>4. M \subseteq Grid /\ \A b, c \in M : b < c => NEXT_BLKP(h, b) <= c BY DEF Tile
<1> HIDE DEF M
<1>5. Tile(h, M, p, hi) BY <1>1, <1>2, <1>3, <1>4 DEF Tile
<1> QED BY <1>5 DEF M

\* Two tilings, one behind the other.
LEMMA TileJoin ==
  ASSUME NEW h, NEW N, NEW M, NEW lo, NEW p, NEW hi, Tile(h, N, lo, p), Tile(h, M, p, hi)
  PROVE  Tile(h, N \cup M, lo, hi)
<1>1. /\ lo \in Grid /\ p \in Grid /\ hi \in Grid /\ lo <= p /\ p <= hi
      /\ N \subseteq Grid /\ M \subseteq Grid
  BY DEF Tile
<1>2. lo \in Nat /\ p \in Nat /\ hi \in Nat BY <1>1, GridWords
<1>3. lo \in (N \cup M) \cup {hi}
  <2>1. lo \in N \cup {p} /\ p \in M \cup {hi} BY DEF Tile
  <2> QED BY <2>1
<1>4. ASSUME NEW b \in N \cup M
      PROVE /\ lo <= b /\ b < hi /\ IsBlock(h, b)
            /\ NEXT_BLKP(h, b) \in (N \cup M) \cup {hi}
  <2>1. CASE b \in N
    <3>1. lo <= b /\ b < p /\ IsBlock(h, b) /\ NEXT_BLKP(h, b) \in N \cup {p} /\ b \in Nat
      BY <2>1, <1>1, GridWords DEF Tile
    <3>2. p \in M \cup {hi} BY DEF Tile
    <3> QED BY <3>1, <3>2, <1>1, <1>2
  <2>2. CASE b \in M
    <3>1. p <= b /\ b < hi /\ IsBlock(h, b) /\ NEXT_BLKP(h, b) \in M \cup {hi} /\ b \in Nat
      BY <2>2, <1>1, GridWords DEF Tile
    <3> QED BY <3>1, <1>1, <1>2
  <2> QED BY <2>1, <2>2
<1>5. ASSUME NEW b \in N \cup M, NEW c \in N \cup M, b < c
      PROVE NEXT_BLKP(h, b) <= c
  <2>1. b \in Nat /\ c \in Nat BY <1>1, GridWords
  <2>2. CASE b \in N /\ c \in N BY <2>2, <1>5 DEF Tile
  <2>3. CASE b \in M /\ c \in M BY <2>3, <1>5 DEF Tile
  <2>4. CASE b \in N /\ c \in M
    <3>1. NEXT_BLKP(h, b) <= p /\ NEXT_BLKP(h, b) \in Nat BY <2>4, TileFacts
    <3>2. p <= c BY <2>4 DEF Tile
    <3> QED BY <3>1, <3>2, <2>1, <1>2
  <2>5. CASE b \in M /\ c \in N
    <3>1. p <= b /\ c < p BY <2>5 DEF Tile
    <3> QED BY <3>1, <2>1, <1>2, <1>5
  <2> QED BY <2>2, <2>3, <2>4, <2>5
<1> DEFINE K == N \cup M
<1>6. K \subseteq Grid BY <1>1
<1>7. lo <= hi BY <1>1, <1>2
<1> HIDE DEF K
<1>8. Tile(h, K, lo, hi)
  <2>1. lo \in K \cup {hi} BY <1>3 DEF K
  <2>2. \A b \in K : lo <= b /\ b < hi /\ IsBlock(h, b) /\ NEXT_BLKP(h, b) \in K \cup {hi}
    BY <1>4 DEF K
  <2>3. \A b, c \in K : b < c => NEXT_BLKP(h, b) <= c BY <1>5 DEF K
  <2> QED BY <1>1, <1>6, <1>7, <2>1, <2>2, <2>3 DEF Tile
<1> QED BY <1>8 DEF K

\* The blocks from p to q give way to others, and no other tag changes.
LEMMA TileReplace ==
  ASSUME NEW h, NEW g, NEW N, NEW M, NEW lo, NEW hi, Tile(h, N, lo, hi),
         NEW p \in N, NEW q \in N \cup {hi}, p < q, Tile(g, M, p, q),
         SameTags(h, g, {b \in N : b < p \/ q <= b})
  PROVE  Tile(g, {b \in N : b < p \/ q <= b} \cup M, lo, hi)
<1> DEFINE L == {b \in N : b < p}
           R == {b \in N : q <= b}
<1>1. Tile(h, L, lo, p) /\ Tile(h, R, q, hi) BY TileCut, TileRest
<1>2. SameTags(h, g, L) /\ SameTags(h, g, R) BY DEF SameTags
<1>3. {b \in N : b < p \/ q <= b} \cup M = (L \cup M) \cup R OBVIOUS
<1> HIDE DEF L, R
<1>4. Tile(g, L, lo, p) /\ Tile(g, R, q, hi) BY <1>1, <1>2, TileFrame
<1>5. Tile(g, L \cup M, lo, q) BY <1>4, TileJoin
<1>6. Tile(g, (L \cup M) \cup R, lo, hi) BY <1>4, <1>5, TileJoin
<1> QED BY <1>3, <1>6

\* One block.
LEMMA TileOne ==
  ASSUME NEW h, NEW p \in Grid, NEW q \in Grid, p < q, NEW status \in {ALLOC, FREE},
         GET(h, p) = PACK(q - p, status), GET(h, q - 8) = PACK(q - p, status)
  PROVE  Tile(h, {p}, p, q) /\ GET_STATUS(h, p) = status /\ NEXT_BLKP(h, p) = q
<1>1. p \in Nat /\ q \in Nat BY GridWords
<1>2. q - p \in Nat /\ (q - p) % 32 = 0 /\ q - p >= 32 BY <1>1, GridDiff
<1>3. GET_SIZE(h, p) = q - p /\ GET_STATUS(h, p) = status BY <1>2, Packed
<1>4. q - p < ds_heap_end /\ Signed(q - p) = q - p
  <2>1. p <= q BY <1>1
  <2> QED BY <2>1, SignedGap
<1>5. NEXT_BLKP(h, p) = q BY <1>1, <1>2, <1>3, <1>4 DEF NEXT_BLKP
<1>6. IsBlock(h, p) BY <1>2, <1>3, <1>4, <1>5 DEF IsBlock
<1>7. p <= q /\ p <= p BY <1>1
<1>8. \A b, c \in {p} : ~ (b < c) BY <1>1
<1> QED BY <1>3, <1>5, <1>6, <1>7, <1>8 DEF Tile

\* The block before another one, or before the end.
LEMMA Predecessor ==
  ASSUME NEW h, NEW N, NEW lo, NEW hi, Tile(h, N, lo, hi), NEW p \in N \cup {hi}, p # lo
  PROVE  \E b \in N : NEXT_BLKP(h, b) = p
<1> DEFINE M == {b \in N : b < p}
<1>1. Tile(h, M, lo, p) BY TileCut
<1>2. M \subseteq N OBVIOUS
<1> HIDE DEF M
<1>3. p \in Nat /\ lo \in M /\ M \subseteq Nat
  <2>1. p \in Grid /\ M \subseteq Grid /\ lo \in M \cup {p} BY <1>1 DEF Tile
  <2> QED BY <2>1, GridWords
<1>4. IsFiniteSet(M)
  <2>1. \A b \in M : b < p BY <1>1 DEF Tile
  <2>2. \A b \in M : b \in 0..p BY <2>1, <1>3
  <2>3. M \in SUBSET (0..p) BY <2>2
  <2>4. IsFiniteSet(0..p) BY <1>3, FS_Interval
  <2> QED BY <2>3, <2>4, FS_Subset
<1>5. PICK m \in M : \A b \in M : b <= m BY <1>3, <1>4, MaxLemma
<1>6. /\ NEXT_BLKP(h, m) \in M \cup {p} /\ m \in Nat /\ NEXT_BLKP(h, m) \in Nat
      /\ m + 32 <= NEXT_BLKP(h, m)
  <2>1. NEXT_BLKP(h, m) \in M \cup {p} BY <1>1 DEF Tile
  <2> QED BY <2>1, <1>1, TileFacts
<1>7. NEXT_BLKP(h, m) \notin M BY <1>5, <1>6
<1> QED BY <1>2, <1>6, <1>7

------------------------------------------------------------------------------
(* The free list *)

\* Headers, footers and list pointers are in different words.
LEMMA GridApart ==
  ASSUME NEW x \in Grid, NEW y \in Grid
  PROVE  /\ x + 8 # y + 16 /\ x + 8 # y /\ x + 16 # y /\ x # y - 8
         /\ x + 8 # y - 8 /\ x + 16 # y - 8
         /\ x + 8 = y + 8 => x = y
         /\ x + 16 = y + 16 => x = y
<1>1. x \in Nat /\ y \in Nat /\ x % 32 = 0 /\ y % 32 = 0 BY DEF Grid, BS
<1> QED BY <1>1

\* c leads through the n elements of X, between the two heads.
Chain(h, X, n, c) ==
  /\ c[0] = first /\ c[n + 1] = last
  /\ \A i \in 1..n : c[i] \in X
  /\ \A x \in X : \E i \in 1..n : c[i] = x
  /\ \A i, j \in 1..n : c[i] = c[j] => i = j
  /\ \A i \in 0..n : GET(h, c[i] + 8) = c[i + 1] /\ GET(h, c[i + 1] + 16) = c[i]
  /\ GET(h, last + 8) = NULL /\ GET(h, last) = 0

\* Under the explicit policy the blocks X, and no others, are in the list.
Listed(h, X) ==
  h.policy = "fp_Explicit" =>
    \E n \in Nat : \E c \in [0..n + 1 -> Grid] : Chain(h, X, n, c)

\* Word a is a list pointer of an element of X, or of a list head.
Pointer(X, a) == \E x \in X \cup {first, last} : a = x + 8 \/ a = x + 16

\* Blocks that can be elements of the list.
Listable(X) == X \subseteq Grid /\ \A x \in X : last < x

\* The elements of the list and the heads are different blocks.
LEMMA ChainInjective ==
  ASSUME NEW h, NEW X, Listable(X), NEW n \in Nat, NEW c \in [0..n + 1 -> Grid],
         Chain(h, X, n, c), NEW i \in 0..n + 1, NEW j \in 0..n + 1, c[i] = c[j]
  PROVE  i = j
<1>1. \A k \in 1..n : c[k] # first /\ c[k] # last
  <2> SUFFICES ASSUME NEW k \in 1..n PROVE c[k] # first /\ c[k] # last
    OBVIOUS
  <2>1. c[k] \in X BY DEF Chain
  <2>2. c[k] \in Nat /\ c[k] > last BY <2>1, GridWords DEF Listable
  <2> QED BY <2>2, HeapStart
<1>2. c[0] = first /\ c[n + 1] = last /\ first # last BY HeapStart DEF Chain
<1>3. CASE i \in 1..n /\ j \in 1..n BY <1>3 DEF Chain
<1>4. CASE i \notin 1..n
  <2>1. i = 0 \/ i = n + 1 BY <1>4
  <2>2. j \notin 1..n BY <2>1, <1>1, <1>2
  <2>3. j = 0 \/ j = n + 1 BY <2>2
  <2> QED BY <2>1, <2>3, <1>2
<1>5. CASE j \notin 1..n
  <2>1. j = 0 \/ j = n + 1 BY <1>5
  <2>2. i \notin 1..n BY <2>1, <1>1, <1>2
  <2>3. i = 0 \/ i = n + 1 BY <2>2
  <2> QED BY <2>1, <2>3, <1>2
<1> QED BY <1>3, <1>4, <1>5

\* The elements of a list are blocks or heads.
LEMMA ChainMembers ==
  ASSUME NEW h, NEW X, NEW n \in Nat, NEW c \in [0..n + 1 -> Grid],
         Chain(h, X, n, c), NEW i \in 0..n + 1
  PROVE  c[i] \in X \cup {first, last}
<1>1. i \in 1..n \/ i = 0 \/ i = n + 1 OBVIOUS
<1> QED BY <1>1 DEF Chain

\* A list is read from the pointers of its elements and the last head.
LEMMA ListFrame ==
  ASSUME NEW h, NEW g, NEW X, Listed(h, X), g.policy = h.policy,
         GET(g, last) = GET(h, last),
         \A x \in X \cup {first, last} :
           GET(g, x + 8) = GET(h, x + 8) /\ GET(g, x + 16) = GET(h, x + 16)
  PROVE  Listed(g, X)
<1> SUFFICES ASSUME g.policy = "fp_Explicit"
             PROVE  \E n \in Nat : \E c \in [0..n + 1 -> Grid] : Chain(g, X, n, c)
  BY DEF Listed
<1>1. PICK n \in Nat : \E c \in [0..n + 1 -> Grid] : Chain(h, X, n, c) BY DEF Listed
<1>2. PICK c \in [0..n + 1 -> Grid] : Chain(h, X, n, c) BY <1>1
<1>3. \A i \in 0..n : /\ GET(g, c[i] + 8) = GET(h, c[i] + 8)
                      /\ GET(g, c[i + 1] + 16) = GET(h, c[i + 1] + 16)
  <2> TAKE i \in 0..n
  <2>1. i \in 0..n + 1 /\ i + 1 \in 0..n + 1 OBVIOUS
  <2>2. c[i] \in X \cup {first, last} /\ c[i + 1] \in X \cup {first, last}
    BY <2>1, <1>2, ChainMembers
  <2> QED BY <2>2
<1>4. Chain(g, X, n, c) BY <1>2, <1>3 DEF Chain
<1> QED BY <1>4

\* g differs from h in list pointers of X and of the heads only.
OnlyPointers(h, g, X) ==
  /\ SameFrame(h, g)
  /\ \A a \in Address : ~ Pointer(X, a) => GET(g, a) = GET(h, a)

\* Unlink takes an element out of the list.
LEMMA UnlinkEffect ==
  ASSUME NEW h, IsHeap(h), NEW X, Listable(X), Listed(h, X), NEW b \in X,
         NEW g, g = Unlink(h, b)
  PROVE  Listed(g, X \ {b}) /\ OnlyPointers(h, g, X)
<1>1. CASE h.policy # "fp_Explicit"
  <2>1. g = h BY <1>1 DEF Unlink
  <2> QED BY <2>1, <1>1 DEF Listed, OnlyPointers, SameFrame
<1>2. CASE h.policy = "fp_Explicit"
  <2>1. PICK n \in Nat : \E c \in [0..n + 1 -> Grid] : Chain(h, X, n, c)
    BY <1>2 DEF Listed
  <2>2. PICK c \in [0..n + 1 -> Grid] : Chain(h, X, n, c) BY <2>1
  <2>3. PICK k \in 1..n : c[k] = b BY <2>2 DEF Chain
  <2> DEFINE next == c[k + 1]
             prev == c[k - 1]
  <2>4. k \in 0..n /\ k + 1 \in 0..n + 1 /\ k - 1 \in 0..n /\ k - 1 \in 0..n + 1
        /\ k \in 0..n + 1 /\ (k - 1) + 1 = k
    OBVIOUS
  <2>5. next \in Grid /\ prev \in Grid /\ b \in Grid
    BY <2>3, <2>4
  <2>6. GET(h, b + 8) = next /\ GET(h, b + 16) = prev
    BY <2>2, <2>3, <2>4 DEF Chain
  <2>7. next # b /\ prev # b
    <3>1. next = b => k + 1 = k
      BY ChainInjective, <2>2, <2>3, <2>4
    <3>2. prev = b => k - 1 = k
      BY ChainInjective, <2>2, <2>3, <2>4
    <3> QED BY <3>1, <3>2
  <2>8. next \in X \cup {first, last} /\ prev \in X \cup {first, last}
    BY <2>2, <2>4, ChainMembers
  <2> DEFINE h1 == PUT(h, prev + 8, next)
             h2 == PUT(h1, next + 16, prev)
             h3 == PUT(h2, b + 8, NULL)
             h4 == PUT(h3, b + 16, NULL)
  <2>9. g = h4
    BY <1>2, <2>6 DEF Unlink, remove_free_block, NEXT_LIST_GET, PREV_LIST_GET,
                      NEXT_PTR, NEXT_NEXT_PTR, TYPE_SIZE
  <2> HIDE DEF next, prev
  <2>10. /\ prev + 8 \in Address /\ next + 16 \in Address
         /\ b + 8 \in Address /\ b + 16 \in Address
    BY <2>5, GridWords
  <2>11. /\ SameFrame(h, h1) /\ GET(h1, prev + 8) = next
         /\ \A a \in Address : a # prev + 8 => GET(h1, a) = GET(h, a)
    BY <2>10, PutEffect
  <2> HIDE DEF h1
  <2>12. /\ SameFrame(h1, h2) /\ GET(h2, next + 16) = prev
         /\ \A a \in Address : a # next + 16 => GET(h2, a) = GET(h1, a)
    <3>1. IsHeap(h1) BY <2>11 DEF SameFrame
    <3> QED BY <3>1, <2>10, PutEffect
  <2> HIDE DEF h2
  <2>13. /\ SameFrame(h2, h3) /\ GET(h3, b + 8) = NULL
         /\ \A a \in Address : a # b + 8 => GET(h3, a) = GET(h2, a)
    <3>1. IsHeap(h2) BY <2>12 DEF SameFrame
    <3> QED BY <3>1, <2>10, PutEffect
  <2> HIDE DEF h3
  <2>14. /\ SameFrame(h3, g) /\ GET(g, b + 16) = NULL
         /\ \A a \in Address : a # b + 16 => GET(g, a) = GET(h3, a)
    <3>1. IsHeap(h3) BY <2>13 DEF SameFrame
    <3> QED BY <3>1, <2>9, <2>10, PutEffect
  <2> HIDE DEF h4
  <2>15. SameFrame(h, g) BY <2>11, <2>12, <2>13, <2>14 DEF SameFrame
  <2>16. /\ prev + 8 # next + 16 /\ prev + 8 # b + 8 /\ prev + 8 # b + 16
         /\ next + 16 # b + 8 /\ next + 16 # b + 16
    BY <2>5, <2>7, GridApart
  <2>17. GET(g, prev + 8) = next /\ GET(g, next + 16) = prev
    BY <2>10, <2>11, <2>12, <2>13, <2>14, <2>16
  <2>18. \A a \in Address : a # prev + 8 /\ a # next + 16 /\ a # b + 8 /\ a # b + 16
                              => GET(g, a) = GET(h, a)
    BY <2>11, <2>12, <2>13, <2>14
  <2>19. OnlyPointers(h, g, X)
    <3>1. Pointer(X, prev + 8) /\ Pointer(X, next + 16) /\ Pointer(X, b + 8)
          /\ Pointer(X, b + 16)
      BY <2>8 DEF Pointer
    <3>2. \A a \in Address : ~ Pointer(X, a) => GET(g, a) = GET(h, a)
      BY <2>18, <3>1
    <3> QED BY <2>15, <3>2 DEF OnlyPointers
  <2> DEFINE d == [i \in 0..n |-> IF i < k THEN c[i] ELSE c[i + 1]]
  <2>20. /\ n - 1 \in Nat /\ (n - 1) + 1 = n /\ d \in [0..n -> Grid]
         /\ \A i \in 0..n : d[i] = IF i < k THEN c[i] ELSE c[i + 1]
    OBVIOUS
  <2> HIDE DEF d
  <2>21. \A i \in 0..n : c[i] # prev /\ c[i] # b => GET(g, c[i] + 8) = c[i + 1]
    <3> SUFFICES ASSUME NEW i \in 0..n, c[i] # prev, c[i] # b
                 PROVE  GET(g, c[i] + 8) = c[i + 1]
      OBVIOUS
    <3>1. c[i] \in Grid OBVIOUS
    <3>2. c[i] + 8 \in Address BY <3>1, GridWords
    <3>3. c[i] + 8 # prev + 8 /\ c[i] + 8 # b + 8 /\ c[i] + 8 # b + 16
          /\ c[i] + 8 # next + 16
      BY <3>1, <2>5, GridApart
    <3>4. GET(h, c[i] + 8) = c[i + 1] BY <2>2 DEF Chain
    <3> QED BY <3>2, <3>3, <3>4, <2>18
  <2>22. \A i \in 0..n : c[i + 1] # next /\ c[i + 1] # b => GET(g, c[i + 1] + 16) = c[i]
    <3> SUFFICES ASSUME NEW i \in 0..n, c[i + 1] # next, c[i + 1] # b
                 PROVE  GET(g, c[i + 1] + 16) = c[i]
      OBVIOUS
    <3>1. c[i + 1] \in Grid OBVIOUS
    <3>2. c[i + 1] + 16 \in Address BY <3>1, GridWords
    <3>3. c[i + 1] + 16 # prev + 8 /\ c[i + 1] + 16 # b + 8 /\ c[i + 1] + 16 # b + 16
          /\ c[i + 1] + 16 # next + 16
      BY <3>1, <2>5, GridApart
    <3>4. GET(h, c[i + 1] + 16) = c[i] BY <2>2 DEF Chain
    <3> QED BY <3>2, <3>3, <3>4, <2>18
  <2>23. ASSUME NEW i \in 0..n - 1
         PROVE  GET(g, d[i] + 8) = d[i + 1] /\ GET(g, d[i + 1] + 16) = d[i]
    <3>1. i \in 0..n /\ i + 1 \in 0..n /\ i \in 0..n + 1 /\ i + 1 \in 0..n + 1 /\ i \in Int
      OBVIOUS
    <3>2. CASE i + 1 < k
      <4>1. d[i] = c[i] /\ d[i + 1] = c[i + 1] BY <3>1, <3>2, <2>20
      <4>2. c[i] # prev /\ c[i] # b /\ c[i + 1] # next /\ c[i + 1] # b
        <5>1. c[i] = c[k - 1] => i = k - 1 BY ChainInjective, <2>2, <2>4, <3>1
        <5>2. c[i] = c[k] => i = k BY ChainInjective, <2>2, <2>4, <3>1
        <5>3. c[i + 1] = c[k + 1] => i + 1 = k + 1 BY ChainInjective, <2>2, <2>4, <3>1
        <5>4. c[i + 1] = c[k] => i + 1 = k BY ChainInjective, <2>2, <2>4, <3>1
        <5> QED BY <5>1, <5>2, <5>3, <5>4, <3>2, <2>3 DEF prev, next
      <4> QED BY <4>1, <4>2, <3>1, <2>21, <2>22
    <3>3. CASE i + 1 = k
      <4>1. d[i] = prev /\ d[i + 1] = next
        <5>1. i < k /\ ~ (i + 1 < k) /\ i = k - 1 BY <3>3
        <5> QED BY <5>1, <3>1, <3>3, <2>20 DEF prev, next
      <4> QED BY <4>1, <2>17
    <3>4. CASE i + 1 > k
      <4>1. ~ (i < k) /\ ~ (i + 1 < k) /\ i + 2 \in 0..n + 1 /\ (i + 1) + 1 = i + 2
        BY <3>4
      <4>2. d[i] = c[i + 1] /\ d[i + 1] = c[i + 2] BY <3>1, <4>1, <2>20
      <4>3. c[i + 1] # prev /\ c[i + 1] # b /\ c[i + 2] # next /\ c[i + 2] # b
        <5>1. c[i + 1] = c[k - 1] => i + 1 = k - 1 BY ChainInjective, <2>2, <2>4, <3>1
        <5>2. c[i + 1] = c[k] => i + 1 = k BY ChainInjective, <2>2, <2>4, <3>1
        <5>3. c[i + 2] = c[k + 1] => i + 2 = k + 1 BY ChainInjective, <2>2, <2>4, <4>1
        <5>4. c[i + 2] = c[k] => i + 2 = k BY ChainInjective, <2>2, <2>4, <4>1
        <5> QED BY <5>1, <5>2, <5>3, <5>4, <3>4, <2>3 DEF prev, next
      <4> QED BY <4>1, <4>2, <4>3, <3>1, <2>21, <2>22
    <3> QED BY <3>1, <3>2, <3>3, <3>4
  <2>24. d[0] = first /\ d[n] = last
    BY <2>2, <2>20 DEF Chain
  <2>25. \A i \in 1..n - 1 : d[i] \in X \ {b}
    <3> SUFFICES ASSUME NEW i \in 1..n - 1 PROVE d[i] \in X \ {b}
      OBVIOUS
    <3>1. i \in 1..n /\ i + 1 \in 1..n /\ i \in 0..n + 1 /\ i + 1 \in 0..n + 1 /\ i \in 0..n
      OBVIOUS
    <3>2. c[i] \in X /\ c[i + 1] \in X BY <3>1, <2>2 DEF Chain
    <3>3. CASE i < k
      <4>1. c[i] = c[k] => i = k BY ChainInjective, <2>2, <2>4, <3>1
      <4> QED BY <4>1, <3>1, <3>2, <3>3, <2>3, <2>20
    <3>4. CASE ~ (i < k)
      <4>1. c[i + 1] = c[k] => i + 1 = k BY ChainInjective, <2>2, <2>4, <3>1
      <4> QED BY <4>1, <3>1, <3>2, <3>4, <2>3, <2>20
    <3> QED BY <3>3, <3>4
  <2>26. \A x \in X \ {b} : \E i \in 1..n - 1 : d[i] = x
    <3> SUFFICES ASSUME NEW x \in X \ {b} PROVE \E i \in 1..n - 1 : d[i] = x
      OBVIOUS
    <3>1. PICK j \in 1..n : c[j] = x BY <2>2 DEF Chain
    <3>2. j # k BY <3>1, <2>3
    <3>3. CASE j < k
      <4>1. j \in 1..n - 1 /\ j \in 0..n BY <3>3
      <4> QED BY <4>1, <3>1, <3>3, <2>20
    <3>4. CASE j > k
      <4>1. j - 1 \in 1..n - 1 /\ j - 1 \in 0..n /\ ~ (j - 1 < k) /\ (j - 1) + 1 = j
        BY <3>4
      <4>2. d[j - 1] = x BY <4>1, <3>1, <2>20
      <4> QED BY <4>1, <4>2
    <3> QED BY <3>2, <3>3, <3>4
  <2>27. \A i, j \in 1..n - 1 : d[i] = d[j] => i = j
    <3> SUFFICES ASSUME NEW i \in 1..n - 1, NEW j \in 1..n - 1, d[i] = d[j] PROVE i = j
      OBVIOUS
    <3>1. i \in 1..n /\ i + 1 \in 1..n /\ j \in 1..n /\ j + 1 \in 1..n /\ i \in 0..n /\ j \in 0..n
      OBVIOUS
    <3>2. d[i] = c[IF i < k THEN i ELSE i + 1] /\ d[j] = c[IF j < k THEN j ELSE j + 1]
      BY <3>1, <2>20
    <3>3. (IF i < k THEN i ELSE i + 1) = (IF j < k THEN j ELSE j + 1)
      BY <3>1, <3>2, <2>2 DEF Chain
    <3> QED BY <3>3
  <2>28. GET(g, last + 8) = NULL /\ GET(g, last) = 0
    <3>1. last \in Grid /\ last + 8 \in Address /\ last \in Address
      BY HeapStart, GridWords
    <3>2. prev # last
      <4>1. c[k - 1] = c[n + 1] => k - 1 = n + 1
        <5>1. n + 1 \in 0..n + 1 OBVIOUS
        <5> QED BY <5>1, ChainInjective, <2>2, <2>4
      <4> QED BY <4>1, <2>2 DEF Chain, prev
    <3>3. b # last BY HeapStart, GridWords DEF Listable
    <3>4. /\ last + 8 # prev + 8 /\ last + 8 # next + 16 /\ last + 8 # b + 8
          /\ last + 8 # b + 16 /\ last # prev + 8 /\ last # next + 16
          /\ last # b + 8 /\ last # b + 16
      BY <3>1, <3>2, <3>3, <2>5, GridApart
    <3> QED BY <3>1, <3>4, <2>18, <2>2 DEF Chain
  <2>29. Chain(g, X \ {b}, n - 1, d)
    BY <2>20, <2>23, <2>24, <2>25, <2>26, <2>27, <2>28 DEF Chain
  <2>30. Listed(g, X \ {b})
    <3>1. d \in [0..(n - 1) + 1 -> Grid] BY <2>20
    <3> QED BY <3>1, <2>20, <2>29 DEF Listed
  <2> QED BY <2>19, <2>30
<1> QED BY <1>1, <1>2

\* Link puts a block in front of the list.
LEMMA LinkEffect ==
  ASSUME NEW h, IsHeap(h), NEW X, Listable(X), Listed(h, X),
         NEW b \in Grid, last < b, b \notin X, NEW g, g = Link(h, b)
  PROVE  Listed(g, X \cup {b}) /\ OnlyPointers(h, g, X \cup {b})
<1>1. CASE h.policy # "fp_Explicit"
  <2>1. g = h BY <1>1 DEF Link
  <2> QED BY <2>1, <1>1 DEF Listed, OnlyPointers, SameFrame
<1>2. CASE h.policy = "fp_Explicit"
  <2>1. PICK n \in Nat : \E c \in [0..n + 1 -> Grid] : Chain(h, X, n, c)
    BY <1>2 DEF Listed
  <2>2. PICK c \in [0..n + 1 -> Grid] : Chain(h, X, n, c) BY <2>1
  <2> DEFINE top == c[1]
  <2>3. 0 \in 0..n /\ 1 \in 0..n + 1 /\ 0 + 1 = 1 /\ 0 \in 0..n + 1 OBVIOUS
  <2>4. top \in Grid /\ first \in Grid /\ top \in X \cup {first, last}
    BY <2>2, <2>3, ChainMembers, HeapStart
  <2>5. GET(h, first + 8) = top /\ c[0] = first
    BY <2>2, <2>3 DEF Chain
  <2>6. top # first /\ b # first /\ b # last
    <3>1. c[1] = c[0] => 1 = 0 BY ChainInjective, <2>2, <2>3
    <3>2. top # first BY <3>1, <2>5
    <3>3. b \in Nat /\ first = 32 /\ last = 64 BY HeapStart, GridWords
    <3> QED BY <3>2, <3>3
  <2>7. top # b
    <3>1. b \notin X \cup {first, last} BY <2>6
    <3> QED BY <3>1, <2>4
  <2> DEFINE h1 == PUT(h, b + 8, top)
             h2 == PUT(h1, b + 16, first)
             h3 == PUT(h2, top + 16, b)
             h4 == PUT(h3, first + 8, b)
  <2>9. g = h4
    BY <1>2, <2>5 DEF Link, add_free_block, NEXT_LIST_GET, NEXT_PTR, NEXT_NEXT_PTR, TYPE_SIZE
  <2> HIDE DEF top
  <2>10. /\ first + 8 \in Address /\ top + 16 \in Address
         /\ b + 8 \in Address /\ b + 16 \in Address
    BY <2>4, GridWords
  <2>11. /\ SameFrame(h, h1) /\ GET(h1, b + 8) = top
         /\ \A a \in Address : a # b + 8 => GET(h1, a) = GET(h, a)
    BY <2>10, PutEffect
  <2> HIDE DEF h1
  <2>12. /\ SameFrame(h1, h2) /\ GET(h2, b + 16) = first
         /\ \A a \in Address : a # b + 16 => GET(h2, a) = GET(h1, a)
    <3>1. IsHeap(h1) BY <2>11 DEF SameFrame
    <3> QED BY <3>1, <2>10, PutEffect
  <2> HIDE DEF h2
  <2>13. /\ SameFrame(h2, h3) /\ GET(h3, top + 16) = b
         /\ \A a \in Address : a # top + 16 => GET(h3, a) = GET(h2, a)
    <3>1. IsHeap(h2) BY <2>12 DEF SameFrame
    <3> QED BY <3>1, <2>10, PutEffect
  <2> HIDE DEF h3
  <2>14. /\ SameFrame(h3, g) /\ GET(g, first + 8) = b
         /\ \A a \in Address : a # first + 8 => GET(g, a) = GET(h3, a)
    <3>1. IsHeap(h3) BY <2>13 DEF SameFrame
    <3> QED BY <3>1, <2>9, <2>10, PutEffect
  <2> HIDE DEF h4
  <2>15. SameFrame(h, g) BY <2>11, <2>12, <2>13, <2>14 DEF SameFrame
  <2>16. /\ b + 8 # b + 16 /\ b + 8 # top + 16 /\ b + 8 # first + 8
         /\ b + 16 # top + 16 /\ b + 16 # first + 8 /\ top + 16 # first + 8
    BY <2>4, <2>6, <2>7, GridApart
  <2>17. /\ GET(g, b + 8) = top /\ GET(g, b + 16) = first
         /\ GET(g, top + 16) = b /\ GET(g, first + 8) = b
    BY <2>10, <2>11, <2>12, <2>13, <2>14, <2>16
  <2>18. \A a \in Address : a # b + 8 /\ a # b + 16 /\ a # top + 16 /\ a # first + 8
                              => GET(g, a) = GET(h, a)
    BY <2>11, <2>12, <2>13, <2>14
  <2>19. OnlyPointers(h, g, X \cup {b})
    <3>1. /\ Pointer(X \cup {b}, b + 8) /\ Pointer(X \cup {b}, b + 16)
          /\ Pointer(X \cup {b}, top + 16) /\ Pointer(X \cup {b}, first + 8)
      BY <2>4 DEF Pointer
    <3>2. \A a \in Address : ~ Pointer(X \cup {b}, a) => GET(g, a) = GET(h, a)
      BY <2>18, <3>1
    <3> QED BY <2>15, <3>2 DEF OnlyPointers
  <2> DEFINE d == [i \in 0..n + 2 |-> IF i = 0 THEN first ELSE IF i = 1 THEN b ELSE c[i - 1]]
  <2>20. /\ d \in [0..n + 2 -> Grid] /\ (n + 1) + 1 = n + 2 /\ n + 1 \in Nat
         /\ d[0] = first /\ d[1] = b
         /\ \A i \in 1..n + 1 : d[i + 1] = c[i]
    <3>1. \A i \in 0..n + 2 : i # 0 /\ i # 1 => i - 1 \in 0..n + 1 OBVIOUS
    <3>2. d \in [0..n + 2 -> Grid] BY <3>1, <2>4
    <3>3. \A i \in 1..n + 1 : d[i + 1] = c[i]
      <4> TAKE i \in 1..n + 1
      <4>1. i + 1 \in 0..n + 2 /\ i + 1 # 0 /\ i + 1 # 1 /\ (i + 1) - 1 = i OBVIOUS
      <4> QED BY <4>1
    <3>4. 0 \in 0..n + 2 /\ 1 \in 0..n + 2 /\ 1 # 0 OBVIOUS
    <3> QED BY <3>2, <3>3, <3>4
  <2> HIDE DEF d
  <2>21. \A i \in 1..n : GET(g, c[i] + 8) = c[i + 1] /\ GET(g, c[i + 1] + 16) = c[i]
    <3> SUFFICES ASSUME NEW i \in 1..n
                 PROVE  GET(g, c[i] + 8) = c[i + 1] /\ GET(g, c[i + 1] + 16) = c[i]
      OBVIOUS
    <3>1. i \in 0..n /\ i \in 0..n + 1 /\ i + 1 \in 0..n + 1 OBVIOUS
    <3>2. c[i] \in Grid /\ c[i + 1] \in Grid BY <3>1
    <3>3. c[i] + 8 \in Address /\ c[i + 1] + 16 \in Address BY <3>2, GridWords
    <3>4. b \notin X \cup {first, last} BY <2>6
    <3>5. c[i] # b /\ c[i + 1] # b BY <3>4, <3>1, <2>2, ChainMembers
    <3>6. c[i] # first /\ c[i + 1] # top
      <4>1. c[i] = c[0] => i = 0 BY ChainInjective, <2>2, <2>3, <3>1
      <4>2. c[i + 1] = c[1] => i + 1 = 1 BY ChainInjective, <2>2, <2>3, <3>1
      <4> QED BY <4>1, <4>2, <2>5 DEF top
    <3>7. /\ c[i] + 8 # b + 8 /\ c[i] + 8 # b + 16 /\ c[i] + 8 # top + 16
          /\ c[i] + 8 # first + 8
      BY <3>2, <3>5, <3>6, <2>4, GridApart
    <3>8. /\ c[i + 1] + 16 # b + 8 /\ c[i + 1] + 16 # b + 16
          /\ c[i + 1] + 16 # top + 16 /\ c[i + 1] + 16 # first + 8
      BY <3>2, <3>5, <3>6, <2>4, GridApart
    <3>9. GET(h, c[i] + 8) = c[i + 1] /\ GET(h, c[i + 1] + 16) = c[i]
      BY <3>1, <2>2 DEF Chain
    <3> QED BY <3>3, <3>7, <3>8, <3>9, <2>18
  <2>22. ASSUME NEW i \in 0..n + 1
         PROVE  GET(g, d[i] + 8) = d[i + 1] /\ GET(g, d[i + 1] + 16) = d[i]
    <3>1. CASE i = 0
      <4>1. d[i] = first /\ d[i + 1] = b BY <3>1, <2>20
      <4> QED BY <4>1, <2>17
    <3>2. CASE i = 1
      <4>1. d[i] = b /\ d[i + 1] = top BY <3>2, <2>3, <2>20 DEF top
      <4> QED BY <4>1, <2>17
    <3>3. CASE i # 0 /\ i # 1
      <4>1. /\ i - 1 \in 1..n /\ i - 1 \in 1..n + 1 /\ i \in 1..n + 1
            /\ (i - 1) + 1 = i
        BY <3>3
      <4>2. d[i] = c[i - 1] /\ d[i + 1] = c[i] BY <4>1, <2>20
      <4>3. GET(g, c[i - 1] + 8) = c[(i - 1) + 1] /\ GET(g, c[(i - 1) + 1] + 16) = c[i - 1]
        BY <4>1, <2>21
      <4> QED BY <4>1, <4>2, <4>3
    <3> QED BY <3>1, <3>2, <3>3
  <2>23. d[n + 2] = last
    <3>1. n + 1 \in 1..n + 1 OBVIOUS
    <3>2. c[n + 1] = last BY <2>2 DEF Chain
    <3> QED BY <3>1, <3>2, <2>20
  <2>24. \A i \in 1..n + 1 : d[i] \in X \cup {b}
    <3> SUFFICES ASSUME NEW i \in 1..n + 1 PROVE d[i] \in X \cup {b}
      OBVIOUS
    <3>1. CASE i = 1 BY <3>1, <2>20
    <3>2. CASE i # 1
      <4>1. i - 1 \in 1..n /\ i - 1 \in 1..n + 1 /\ (i - 1) + 1 = i BY <3>2
      <4>2. d[i] = c[i - 1] BY <4>1, <2>20
      <4> QED BY <4>1, <4>2, <2>2 DEF Chain
    <3> QED BY <3>1, <3>2
  <2>25. \A x \in X \cup {b} : \E i \in 1..n + 1 : d[i] = x
    <3> SUFFICES ASSUME NEW x \in X \cup {b} PROVE \E i \in 1..n + 1 : d[i] = x
      OBVIOUS
    <3>1. CASE x = b
      <4>1. 1 \in 1..n + 1 OBVIOUS
      <4> QED BY <4>1, <3>1, <2>20
    <3>2. CASE x \in X
      <4>1. PICK j \in 1..n : c[j] = x BY <3>2, <2>2 DEF Chain
      <4>2. j \in 1..n + 1 /\ j + 1 \in 1..n + 1 OBVIOUS
      <4>3. d[j + 1] = x BY <4>1, <4>2, <2>20
      <4> QED BY <4>2, <4>3
    <3> QED BY <3>1, <3>2
  <2>26. \A i, j \in 1..n + 1 : d[i] = d[j] => i = j
    <3>1. \A i \in 1..n + 1 : i # 1 => i - 1 \in 1..n /\ d[i] = c[i - 1] /\ d[i] \in X
      <4> SUFFICES ASSUME NEW i \in 1..n + 1, i # 1
                   PROVE  i - 1 \in 1..n /\ d[i] = c[i - 1] /\ d[i] \in X
        OBVIOUS
      <4>1. i - 1 \in 1..n /\ i - 1 \in 1..n + 1 /\ (i - 1) + 1 = i OBVIOUS
      <4>2. d[i] = c[i - 1] BY <4>1, <2>20
      <4> QED BY <4>1, <4>2, <2>2 DEF Chain
    <3> SUFFICES ASSUME NEW i \in 1..n + 1, NEW j \in 1..n + 1, d[i] = d[j] PROVE i = j
      OBVIOUS
    <3>2. CASE i = 1 BY <3>1, <3>2, <2>20
    <3>3. CASE j = 1 BY <3>1, <3>3, <2>20
    <3>4. CASE i # 1 /\ j # 1
      <4>1. /\ i - 1 \in 1..n /\ d[i] = c[i - 1]
            /\ j - 1 \in 1..n /\ d[j] = c[j - 1]
        BY <3>1, <3>4
      <4>2. i - 1 = j - 1 BY <4>1, <2>2 DEF Chain
      <4> QED BY <4>2
    <3> QED BY <3>2, <3>3, <3>4
  <2>27. GET(g, last + 8) = NULL /\ GET(g, last) = 0
    <3>1. last \in Grid /\ last + 8 \in Address /\ last \in Address /\ last # first
      BY HeapStart, GridWords
    <3>2. /\ last + 8 # first + 8 /\ last + 8 # top + 16 /\ last + 8 # b + 8
          /\ last + 8 # b + 16 /\ last # first + 8 /\ last # top + 16
          /\ last # b + 8 /\ last # b + 16
      BY <3>1, <2>4, <2>6, GridApart
    <3> QED BY <3>1, <3>2, <2>18, <2>2 DEF Chain
  <2>28. Chain(g, X \cup {b}, n + 1, d)
    BY <2>20, <2>22, <2>23, <2>24, <2>25, <2>26, <2>27 DEF Chain
  <2>29. Listed(g, X \cup {b})
    <3>1. d \in [0..(n + 1) + 1 -> Grid] BY <2>20
    <3> QED BY <3>1, <2>20, <2>28 DEF Listed
  <2> QED BY <2>19, <2>29
<1> QED BY <1>1, <1>2

------------------------------------------------------------------------------
(* Heaps *)

\* The blocks B lie between two intact sentinels, the second one right below
\* the break.
Tiled(h, B) ==
  /\ IsHeap(h) /\ h.policy \in {"fp_Implicit", "fp_Explicit"}
  /\ h.heap_end \in Grid /\ h.ds_heap_brk = h.heap_end + 32
  /\ heap_start < h.heap_end
  /\ Tile(h, B, heap_start, h.heap_end)
  /\ GET(h, heap_start - 8) = 1 /\ GET(h, h.heap_end) = 1

FreeOf(h, B) == {b \in B : GET_STATUS(h, b) = FREE}
AllocOf(h, B) == {b \in B : GET_STATUS(h, b) = ALLOC}

\* X are the free blocks of B that are in the list.
Good(h, B, X) == Tiled(h, B) /\ Listed(h, X) /\ X \subseteq FreeOf(h, B)

\* The blocks of a heap lie between heap_start and heap_end.
LEMMA TiledFacts ==
  ASSUME NEW h, NEW B, Tiled(h, B)
  PROVE  /\ B \subseteq Grid /\ heap_start \in B
         /\ heap_start \in Nat /\ h.heap_end \in Nat /\ h.heap_end \in Grid
         /\ \A b \in B : /\ b \in Grid /\ b \in Nat /\ last < b /\ heap_start <= b
                         /\ b < h.heap_end
         /\ Listable(B)
<1>1. Tile(h, B, heap_start, h.heap_end) /\ h.heap_end \in Grid /\ heap_start \in Grid
  BY HeapStart DEF Tiled
<1>2. heap_start \in Nat /\ h.heap_end \in Nat BY <1>1, GridWords
<1>3. heap_start \in B BY <1>2 DEF Tile, Tiled
<1>4. ASSUME NEW b \in B
      PROVE b \in Grid /\ b \in Nat /\ last < b /\ heap_start <= b /\ b < h.heap_end
  <2>1. b \in Grid /\ heap_start <= b /\ b < h.heap_end BY <1>1 DEF Tile
  <2>2. b \in Nat BY <2>1, GridWords
  <2>3. last < heap_start /\ last \in Nat BY HeapStart
  <2> QED BY <1>2, <2>1, <2>2, <2>3
<1> QED BY <1>1, <1>2, <1>3, <1>4 DEF Listable

\* Of two blocks one ends before the other begins.
LEMMA Apart ==
  ASSUME NEW h, NEW B, Tiled(h, B), NEW b \in B, NEW c \in B
  PROVE  /\ b \in Nat /\ c \in Nat /\ NEXT_BLKP(h, b) \in Nat /\ NEXT_BLKP(h, c) \in Nat
         /\ b < c => b + 32 <= NEXT_BLKP(h, b) /\ NEXT_BLKP(h, b) <= c
<1>1. Tile(h, B, heap_start, h.heap_end) BY DEF Tiled
<1>2. b < c => NEXT_BLKP(h, b) <= c BY <1>1 DEF Tile
<1> QED BY <1>1, <1>2, TileFacts

\* Writing list pointers leaves the tags alone.
LEMMA PointersKeep ==
  ASSUME NEW h, NEW B, Tiled(h, B), NEW X, X \subseteq Grid, NEW g, OnlyPointers(h, g, X)
  PROVE  /\ \A a \in Grid : GET(g, a) = GET(h, a)
         /\ \A a \in Grid : a > 32 => GET(g, a - 8) = GET(h, a - 8)
         /\ \A a \in Grid : GET_STATUS(g, a) = GET_STATUS(h, a)
         /\ Tiled(g, B) /\ FreeOf(g, B) = FreeOf(h, B) /\ AllocOf(g, B) = AllocOf(h, B)
         /\ \A b \in B : NEXT_BLKP(g, b) = NEXT_BLKP(h, b)
<1>1. \A x \in X \cup {first, last} : x \in Grid BY HeapStart
<1>2. ASSUME NEW a \in Grid
      PROVE ~ Pointer(X, a) /\ ~ Pointer(X, a - 8)
  BY <1>1, GridApart DEF Pointer
<1>3. \A a \in Grid : GET(g, a) = GET(h, a) BY <1>2, GridWords DEF OnlyPointers
<1>4. \A a \in Grid : a > 32 => GET(g, a - 8) = GET(h, a - 8)
  BY <1>2, GridWords DEF OnlyPointers
<1>5. Tile(h, B, heap_start, h.heap_end) BY DEF Tiled
<1>6. SameTags(h, g, B)
  <2> SUFFICES ASSUME NEW b \in B
               PROVE /\ GET(g, b) = GET(h, b)
                     /\ GET(g, NEXT_BLKP(h, b) - 8) = GET(h, NEXT_BLKP(h, b) - 8)
    BY DEF SameTags
  <2>1. /\ b \in Grid /\ NEXT_BLKP(h, b) \in Grid /\ b \in Nat
        /\ NEXT_BLKP(h, b) \in Nat /\ b + 32 <= NEXT_BLKP(h, b)
    BY <1>5, TileFacts
  <2>2. 32 <= b BY <2>1, GridWords
  <2>3. NEXT_BLKP(h, b) > 32 BY <2>1, <2>2
  <2> QED BY <2>1, <2>3, <1>3, <1>4
<1>7. Tile(g, B, heap_start, h.heap_end) /\ \A b \in B : NEXT_BLKP(g, b) = NEXT_BLKP(h, b)
  BY <1>5, <1>6, TileFrame
<1>8. \A a \in Grid : GET_STATUS(g, a) = GET_STATUS(h, a) BY <1>3, SameTag
<1>9. B \subseteq Grid BY TiledFacts
<1>10. FreeOf(g, B) = FreeOf(h, B) /\ AllocOf(g, B) = AllocOf(h, B)
  BY <1>8, <1>9 DEF FreeOf, AllocOf
<1>11. GET(g, heap_start - 8) = 1
  <2>1. heap_start \in Grid /\ heap_start > 32 BY HeapStart
  <2> QED BY <2>1, <1>4 DEF Tiled
<1>12. GET(g, h.heap_end) = 1 BY <1>3 DEF Tiled
<1>13. Tiled(g, B) BY <1>7, <1>11, <1>12 DEF Tiled, OnlyPointers, SameFrame
<1> QED BY <1>3, <1>4, <1>7, <1>8, <1>10, <1>13

\* The words outside of the bytes from p to q are the same.
SameOutside(h, g, p, q) ==
  /\ SameFrame(h, g)
  /\ \A a \in Address : a < p \/ q <= a => GET(g, a) = GET(h, a)

\* The headers of the blocks N are the same.
SameBlocks(h, g, N) ==
  \A b \in N : /\ GET(g, b) = GET(h, b) /\ GET_STATUS(g, b) = GET_STATUS(h, b)
               /\ NEXT_BLKP(g, b) = NEXT_BLKP(h, b)

\* The blocks before p and from q on.
Rest(B, p, q) == {b \in B : b < p \/ q <= b}

\* The bytes from p to q get other blocks, and none of the old ones is listed.
LEMMA Repartition ==
  ASSUME NEW h, NEW B, NEW X, Good(h, B, X),
         NEW p \in B, NEW q \in B \cup {h.heap_end}, p < q,
         \A x \in X : x < p \/ q <= x,
         NEW g, SameOutside(h, g, p, q), NEW M, Tile(g, M, p, q)
  PROVE  /\ Good(g, Rest(B, p, q) \cup M, X)
         /\ SameBlocks(h, g, Rest(B, p, q))
<1> DEFINE N == {b \in B : b < p \/ q <= b}
<1>1. Tiled(h, B) /\ Tile(h, B, heap_start, h.heap_end) BY DEF Good, Tiled
<1>2. /\ p \in Grid /\ p \in Nat /\ heap_start <= p /\ heap_start \in Nat
      /\ q \in Grid /\ q \in Nat /\ q <= h.heap_end /\ h.heap_end \in Nat
  <2>1. p \in Grid /\ p \in Nat /\ heap_start <= p /\ heap_start \in Nat
        /\ h.heap_end \in Nat /\ h.heap_end \in Grid
    BY <1>1, TiledFacts
  <2>2. CASE q \in B
    <3>1. q \in Grid /\ q \in Nat /\ q < h.heap_end BY <2>2, <1>1, TiledFacts
    <3> QED BY <3>1, <2>1
  <2>3. CASE q = h.heap_end BY <2>1, <2>3
  <2> QED BY <2>1, <2>2, <2>3
<1>3. ASSUME NEW b \in N
      PROVE /\ GET(g, b) = GET(h, b)
            /\ GET(g, NEXT_BLKP(h, b) - 8) = GET(h, NEXT_BLKP(h, b) - 8)
  <2>1. b \in B /\ (b < p \/ q <= b) OBVIOUS
  <2>2. /\ b \in Grid /\ b \in Nat /\ NEXT_BLKP(h, b) \in Grid /\ NEXT_BLKP(h, b) \in Nat
        /\ b + 32 <= NEXT_BLKP(h, b)
    BY <1>1, <2>1, TileFacts
  <2>3. b \in Address /\ NEXT_BLKP(h, b) - 8 \in Address
    <3>1. 32 <= b BY <2>2, GridWords
    <3>2. NEXT_BLKP(h, b) > 32 BY <2>2, <3>1
    <3> QED BY <2>2, <3>2, GridWords
  <2>4. CASE b < p
    <3>1. NEXT_BLKP(h, b) <= p BY <2>1, <2>4, <1>1, Apart
    <3>2. NEXT_BLKP(h, b) - 8 < p BY <3>1, <2>2, <1>2
    <3> QED BY <2>3, <2>4, <3>2 DEF SameOutside
  <2>5. CASE q <= b
    <3>1. q <= NEXT_BLKP(h, b) - 8 BY <2>5, <2>2, <1>2
    <3> QED BY <2>3, <2>5, <3>1 DEF SameOutside
  <2> QED BY <2>1, <2>4, <2>5
<1>4. Tile(g, N \cup M, heap_start, h.heap_end)
  <2>1. SameTags(h, g, N) BY <1>3 DEF SameTags
  <2> QED BY <1>1, <2>1, TileReplace
<1>5. SameFrame(h, g) BY DEF SameOutside
<1>6. GET(g, heap_start - 8) = 1 /\ GET(g, h.heap_end) = 1
  <2>1. heap_start \in Grid /\ heap_start > 32 BY HeapStart
  <2>2. heap_start - 8 \in Address /\ h.heap_end \in Address
    BY <2>1, <1>1, TiledFacts, GridWords
  <2>3. heap_start - 8 < p /\ q <= h.heap_end BY <1>2
  <2> QED BY <2>2, <2>3, <1>1 DEF SameOutside, Tiled
<1>7. ASSUME NEW b \in B, b < p \/ q <= b
      PROVE /\ GET(g, b) = GET(h, b) /\ GET_STATUS(g, b) = GET_STATUS(h, b)
            /\ NEXT_BLKP(g, b) = NEXT_BLKP(h, b)
  <2>1. GET(g, b) = GET(h, b) BY <1>3, <1>7
  <2> QED BY <2>1, SameTag
<1>8. X \subseteq FreeOf(g, N \cup M)
  <2>1. \A x \in X : x \in B /\ GET_STATUS(h, x) = FREE BY DEF Good, FreeOf
  <2> QED BY <2>1, <1>7 DEF FreeOf
<1>9. Listed(g, X)
  <2>1. ASSUME NEW x \in X \cup {first, last}
        PROVE GET(g, x + 8) = GET(h, x + 8) /\ GET(g, x + 16) = GET(h, x + 16)
    <3>1. x \in Grid /\ (x < p \/ q <= x)
      <4>1. CASE x \in X BY <4>1, <1>1, TiledFacts DEF Good, FreeOf
      <4>2. CASE x \in {first, last}
        <5>1. x \in Grid /\ x \in Nat /\ x < heap_start BY <4>2, HeapStart
        <5> QED BY <5>1, <1>2
      <4> QED BY <4>1, <4>2
    <3>2. x \in Nat /\ x + 8 \in Address /\ x + 16 \in Address BY <3>1, GridWords
    <3>3. CASE x < p
      <4>1. x + 32 <= p BY <3>1, <3>3, <1>2, GridGap
      <4>2. x + 8 < p /\ x + 16 < p BY <4>1, <3>2, <1>2
      <4> QED BY <4>2, <3>2 DEF SameOutside
    <3>4. CASE q <= x
      <4>1. q <= x + 8 /\ q <= x + 16 BY <3>2, <3>4, <1>2
      <4> QED BY <4>1, <3>2 DEF SameOutside
    <3> QED BY <3>1, <3>3, <3>4
  <2>2. GET(g, last) = GET(h, last)
    <3>1. last \in Address /\ last < p
      <4>1. last \in Grid /\ last \in Nat /\ last < heap_start BY HeapStart
      <4> QED BY <4>1, <1>2, GridWords
    <3> QED BY <3>1 DEF SameOutside
  <2> QED BY <2>1, <2>2, <1>5, ListFrame DEF Good, SameFrame
<1> HIDE DEF N
<1>10. Good(g, N \cup M, X)
  <2>1. Tiled(g, N \cup M) BY <1>1, <1>4, <1>5, <1>6 DEF Tiled, SameFrame
  <2> QED BY <2>1, <1>8, <1>9 DEF Good
<1>11. SameBlocks(h, g, N) BY <1>7 DEF SameBlocks, N
<1> QED BY <1>10, <1>11 DEF N, Rest

\* LastBlock moves the end of the heap.
LEMMA LastBlockEffect ==
  ASSUME NEW h, IsHeap(h), NEW p \in Grid, NEW e \in Grid, p < e,
         NEW g, g = LastBlock(h, p, e + 32)
  PROVE  /\ IsHeap(g) /\ g.policy = h.policy /\ g.ds_heap_brk = e + 32 /\ g.heap_end = e
         /\ GET(g, p) = PACK(e - p, FREE) /\ GET(g, e - 8) = PACK(e - p, FREE)
         /\ GET(g, e) = 1
         /\ \A a \in Address : a # p /\ a # e - 8 /\ a # e => GET(g, a) = GET(h, a)
<1> DEFINE h1 == [h EXCEPT !.ds_heap_brk = e + 32, !.heap_end = EndOf(e + 32)]
           h2 == PutTags(h1, p, e - p, FREE)
<1>1. p \in Nat /\ e \in Nat /\ e % 32 = 0 BY DEF Grid, BS
<1>2. EndOf(e + 32) = e
  <2>1. (e + 32 - 8) \div 32 = e \div 32 BY <1>1
  <2>2. (e \div 32) * 32 = e BY <1>1
  <2>3. EndOf(e + 32) = ((e + 32 - 8) \div 32) * 32
    BY <1>1 DEF EndOf, Align, BS, TYPE_SIZE
  <2> QED BY <2>1, <2>2, <2>3
<1>3. h1 = [policy |-> h.policy, ds_heap_brk |-> e + 32, heap_end |-> e, mem |-> h.mem]
  <2> DEFINE h0 == [policy |-> h.policy, ds_heap_brk |-> h.ds_heap_brk,
                    heap_end |-> h.heap_end, mem |-> h.mem]
  <2>1. h = h0 BY DEF IsHeap
  <2> DEFINE h01 == [policy |-> h.policy, ds_heap_brk |-> e + 32,
                     heap_end |-> h.heap_end, mem |-> h.mem]
  <2>2. [h0 EXCEPT !.ds_heap_brk = e + 32] = h01 OBVIOUS
  <2>3. [h01 EXCEPT !.heap_end = e]
          = [policy |-> h.policy, ds_heap_brk |-> e + 32, heap_end |-> e, mem |-> h.mem]
    OBVIOUS
  <2>4. h1 = [[h0 EXCEPT !.ds_heap_brk = e + 32] EXCEPT !.heap_end = e] BY <1>2, <2>1
  <2> QED BY <2>2, <2>3, <2>4
<1>4. h.mem = [a \in Address |-> h.mem[a]] BY DEF IsHeap
<1> HIDE DEF h1
<1>5. h1.mem = h.mem /\ h1.policy = h.policy /\ h1.ds_heap_brk = e + 32 /\ h1.heap_end = e
  BY <1>3
<1>6. IsHeap(h1)
  <2>1. h1 = [policy |-> h1.policy, ds_heap_brk |-> h1.ds_heap_brk,
              heap_end |-> h1.heap_end, mem |-> [a \in Address |-> h1.mem[a]]]
    BY <1>3, <1>4, <1>5
  <2> QED BY <2>1 DEF IsHeap
<1>7. \A a : GET(h1, a) = GET(h, a) BY <1>5 DEF GET
<1>8. e - p \in Nat /\ (e - p) % 32 = 0 /\ e - p >= 32 /\ p + (e - p) = e
      /\ p + (e - p) - 8 = e - 8
  BY <1>1, GridDiff
<1>9. g = PUT(h2, e, PACK(0, ALLOC))
  <2>1. (e - p) % SIZE_MOD = e - p
    <3>1. p <= e BY <1>1
    <3> QED BY <3>1, SignedGap
  <2> QED BY <2>1, <1>2, <1>5 DEF LastBlock, h1
<1>10. /\ SameFrame(h1, h2) /\ GET(h2, p) = PACK(e - p, FREE)
       /\ GET(h2, e - 8) = PACK(e - p, FREE)
       /\ \A a \in Address : a # p /\ a # e - 8 => GET(h2, a) = GET(h1, a)
  <2>1. p + (e - p) \in Grid /\ FREE \in {ALLOC, FREE} BY <1>8
  <2> HIDE DEF h2
  <2>2. h2 = PutTags(h1, p, e - p, FREE) BY DEF h2
  <2> DEFINE s == e - p
  <2>3. s \in Nat /\ s % 32 = 0 /\ s >= 32 /\ p + s \in Grid /\ p + s - 8 = e - 8
    BY <1>8, <2>1
  <2>4. h2 = PutTags(h1, p, s, FREE) BY <2>2
  <2> HIDE DEF s
  <2>5. /\ SameFrame(h1, h2) /\ GET(h2, p) = PACK(s, FREE)
        /\ GET(h2, p + s - 8) = PACK(s, FREE)
        /\ \A a \in Address : a # p /\ a # p + s - 8 => GET(h2, a) = GET(h1, a)
    BY <2>1, <2>3, <2>4, <1>6, PutTagsEffect
  <2> QED BY <2>3, <2>5 DEF s
<1> HIDE DEF h2
<1>11. /\ SameFrame(h2, g) /\ GET(g, e) = PACK(0, ALLOC)
       /\ \A a \in Address : a # e => GET(g, a) = GET(h2, a)
  <2>1. IsHeap(h2) /\ e \in Address BY <1>10, GridWords DEF SameFrame
  <2> QED BY <2>1, <1>9, PutEffect
<1>12. p \in Address /\ e - 8 \in Address /\ p # e /\ e - 8 # e
  <2>1. e > 32
    <3>1. 32 <= p BY GridWords
    <3> QED BY <3>1, <1>1
  <2> QED BY <2>1, <1>1, GridWords
<1>13. GET(g, p) = PACK(e - p, FREE) /\ GET(g, e - 8) = PACK(e - p, FREE)
  BY <1>10, <1>11, <1>12
<1>14. GET(g, e) = 1 BY <1>11 DEF PACK, ALLOC
<1>15. \A a \in Address : a # p /\ a # e - 8 /\ a # e => GET(g, a) = GET(h, a)
  BY <1>7, <1>10, <1>11
<1>16. IsHeap(g) /\ g.policy = h.policy /\ g.ds_heap_brk = e + 32 /\ g.heap_end = e
  BY <1>5, <1>10, <1>11 DEF SameFrame
<1> QED BY <1>13, <1>14, <1>15, <1>16

\* If blocks N tile the heap up to p, a last block from there completes them.
LEMMA LastBlockTiles ==
  ASSUME NEW h, IsHeap(h), h.policy \in {"fp_Implicit", "fp_Explicit"},
         NEW p \in Grid, NEW e \in Grid, p < e, NEW N, Tile(h, N, heap_start, p),
         GET(h, heap_start - 8) = 1, NEW g, g = LastBlock(h, p, e + 32)
  PROVE  /\ Tiled(g, N \cup {p}) /\ GET_STATUS(g, p) = FREE /\ NEXT_BLKP(g, p) = e
         /\ SameBlocks(h, g, N)
<1>1. p \in Nat /\ e \in Nat /\ heap_start \in Nat /\ heap_start <= p /\ e >= p + 32
  <2>1. heap_start \in Grid /\ heap_start <= p BY HeapStart DEF Tile
  <2> QED BY <2>1, GridWords, GridGap
<1>2. ASSUME NEW b \in N
      PROVE /\ GET(g, b) = GET(h, b)
            /\ GET(g, NEXT_BLKP(h, b) - 8) = GET(h, NEXT_BLKP(h, b) - 8)
  <2>1. /\ b \in Grid /\ b \in Nat /\ NEXT_BLKP(h, b) \in Grid /\ NEXT_BLKP(h, b) \in Nat
        /\ b + 32 <= NEXT_BLKP(h, b) /\ NEXT_BLKP(h, b) <= p
    BY TileFacts
  <2>2. 32 <= b /\ b \in Address BY <2>1, GridWords
  <2>3. NEXT_BLKP(h, b) > 32 BY <2>1, <2>2
  <2>4. NEXT_BLKP(h, b) - 8 \in Address BY <2>1, <2>3, GridWords
  <2>5. b < p /\ b < e - 8 /\ NEXT_BLKP(h, b) - 8 < p /\ NEXT_BLKP(h, b) - 8 < e - 8
    BY <2>1, <1>1
  <2> QED BY <2>2, <2>4, <2>5, <2>1, <1>1, LastBlockEffect
<1>3. Tile(g, N, heap_start, p) /\ \A b \in N : NEXT_BLKP(g, b) = NEXT_BLKP(h, b)
  <2>1. SameTags(h, g, N) BY <1>2 DEF SameTags
  <2> QED BY <2>1, TileFrame
<1>4. Tile(g, {p}, p, e) /\ GET_STATUS(g, p) = FREE /\ NEXT_BLKP(g, p) = e
  <2>1. GET(g, p) = PACK(e - p, FREE) /\ GET(g, e - 8) = PACK(e - p, FREE)
    BY LastBlockEffect
  <2> QED BY <2>1, TileOne
<1>5. Tile(g, N \cup {p}, heap_start, e) BY <1>3, <1>4, TileJoin
<1>6. GET(g, heap_start - 8) = 1
  <2>1. heap_start \in Grid /\ heap_start > 32 BY HeapStart
  <2>2. heap_start - 8 \in Address BY <2>1, GridWords
  <2>3. heap_start - 8 < p /\ heap_start - 8 < e - 8 BY <1>1
  <2> QED BY <2>2, <2>3, <1>1, LastBlockEffect
<1>7. /\ IsHeap(g) /\ g.policy = h.policy /\ g.ds_heap_brk = e + 32 /\ g.heap_end = e
      /\ GET(g, e) = 1
  BY LastBlockEffect
<1>8. Tiled(g, N \cup {p}) BY <1>1, <1>5, <1>6, <1>7 DEF Tiled
<1>9. \A b \in N : GET_STATUS(g, b) = GET_STATUS(h, b) BY <1>2, SameTag
<1>10. SameBlocks(h, g, N) BY <1>2, <1>3, <1>9 DEF SameBlocks
<1> QED BY <1>4, <1>8, <1>10

------------------------------------------------------------------------------
(* Walks *)

\* The functions that Walk defines: w[n][a] has at most n elements from a on.
IsWalk(next, w) ==
  w = [n \in 0..MaxList |->
         [a \in Address \cup {NULL} |->
            IF n = 0 \/ a = NULL THEN <<>> ELSE <<a>> \o w[n - 1][next[a]]]]

\* The bound of a walk is a number.
LEMMA MaxListNat == MaxList \in Nat
<1>1. MaxHeapSize \in Nat BY HeapStart
<1> QED BY <1>1 DEF MaxList, BS

\* There is one, by induction over the elements that are followed.
LEMMA WalkExists ==
  ASSUME NEW next \in [Address -> Address \cup {NULL}]
  PROVE  \E w : IsWalk(next, w)
<1> DEFINE P == Address \cup {NULL}
           Step(r) == [a \in P |-> IF a = NULL THEN <<>> ELSE <<a>> \o r[next[a]]]
           None == [a \in P |-> <<>>]
           S == {m \in Nat : \E f : /\ f = [n \in 0..m |-> f[n]] /\ f[0] = None
                                    /\ \A n \in 1..m : f[n] = Step(f[n - 1])}
<1> HIDE DEF Step, None
<1>1. 0 \in S
  <2> DEFINE f == [n \in 0..0 |-> None]
  <2>1. f = [n \in 0..0 |-> f[n]] /\ f[0] = None OBVIOUS
  <2>2. \A n \in 1..0 : f[n] = Step(f[n - 1]) OBVIOUS
  <2> HIDE DEF f
  <2> QED BY <2>1, <2>2
<1>2. ASSUME NEW m \in S PROVE m + 1 \in S
  <2>1. PICK f : /\ f = [n \in 0..m |-> f[n]] /\ f[0] = None
                 /\ \A n \in 1..m : f[n] = Step(f[n - 1])
    OBVIOUS
  <2> DEFINE g == [n \in 0..m + 1 |-> IF n <= m THEN f[n] ELSE Step(f[m])]
  <2>2. g = [n \in 0..m + 1 |-> g[n]] OBVIOUS
  <2>3. \A n \in 0..m + 1 : g[n] = IF n <= m THEN f[n] ELSE Step(f[m])
    OBVIOUS
  <2>4. m \in Nat OBVIOUS
  <2> HIDE DEF g, S
  <2>5. g[0] = None BY <2>1, <2>3, <2>4
  <2>6. ASSUME NEW n \in 1..m + 1 PROVE g[n] = Step(g[n - 1])
    <3>1. n \in 0..m + 1 /\ n - 1 \in 0..m + 1 /\ n - 1 <= m BY <2>4
    <3>2. g[n - 1] = f[n - 1] BY <3>1, <2>3
    <3>3. CASE n <= m
      <4>1. n \in 1..m BY <3>3, <2>4
      <4> QED BY <4>1, <3>1, <3>2, <3>3, <2>1, <2>3
    <3>4. CASE ~ (n <= m)
      <4>1. n - 1 = m BY <3>4, <2>4
      <4>2. g[n] = Step(f[m]) BY <3>1, <3>4, <2>3
      <4> QED BY <4>1, <4>2, <3>2
    <3> QED BY <3>3, <3>4
  <2>7. \A n \in 1..m + 1 : g[n] = Step(g[n - 1]) BY <2>6
  <2>8. PICK k \in Nat : k = m + 1 BY <2>4
  <2>9. \E f1 : /\ f1 = [n \in 0..k |-> f1[n]] /\ f1[0] = None
                /\ \A n \in 1..k : f1[n] = Step(f1[n - 1])
    BY <2>2, <2>5, <2>7, <2>8
  <2> QED BY <2>8, <2>9 DEF S
<1> HIDE DEF S
<1>3. Nat \subseteq S
  <2>1. \A m \in Nat : m \in S => m + 1 \in S BY <1>2
  <2> QED BY <1>1, <2>1, NatSetInduction
<1>4. MaxList \in S BY <1>3, MaxListNat
<1>5. PICK f : /\ f = [n \in 0..MaxList |-> f[n]] /\ f[0] = None
               /\ \A n \in 1..MaxList : f[n] = Step(f[n - 1])
  BY <1>4 DEF S
<1> DEFINE Right(n) == [a \in P |-> IF n = 0 \/ a = NULL THEN <<>>
                                    ELSE <<a>> \o f[n - 1][next[a]]]
<1>6. ASSUME NEW n \in 0..MaxList PROVE f[n] = Right(n)
  <2>1. CASE n = 0
    <3>1. Right(n) = None BY <2>1 DEF None
    <3> QED BY <3>1, <2>1, <1>5
  <2>2. CASE n # 0
    <3>1. n \in 1..MaxList BY <2>2
    <3>2. Right(n) = Step(f[n - 1]) BY <2>2 DEF Step
    <3> QED BY <3>1, <3>2, <1>5
  <2> QED BY <2>1, <2>2
<1> HIDE DEF Right
<1>7. f = [n \in 0..MaxList |-> Right(n)] BY <1>5, <1>6
<1> QED BY <1>7 DEF IsWalk, Right

\* Walk is the last of these functions.
LEMMA WalkIs ==
  ASSUME NEW next \in [Address -> Address \cup {NULL}]
  PROVE  \E w : /\ IsWalk(next, w)
                /\ \A p : Walk(next, p) = w[MaxList][p]
                /\ \A n \in 0..MaxList : w[n][NULL] = <<>>
                /\ \A a \in Address : w[0][a] = <<>>
                /\ \A n \in 1..MaxList, a \in Address : w[n][a] = <<a>> \o w[n - 1][next[a]]
<1> DEFINE w == CHOOSE w : IsWalk(next, w)
<1>1. IsWalk(next, w) BY WalkExists
<1>2. \A p : Walk(next, p) = w[MaxList][p] BY DEF Walk, IsWalk
<1> HIDE DEF w
<1>3. NULL \notin Address /\ MaxList \in Nat
  <2>1. \A a \in Address : a \in Nat /\ a >= 32 BY HeapStart DEF Address
  <2> QED BY <2>1, MaxListNat DEF NULL
<1>4. ASSUME NEW n \in 0..MaxList, NEW a \in Address \cup {NULL}
      PROVE w[n][a] = IF n = 0 \/ a = NULL THEN <<>> ELSE <<a>> \o w[n - 1][next[a]]
  <2> DEFINE Right(i) == [b \in Address \cup {NULL} |->
                            IF i = 0 \/ b = NULL THEN <<>> ELSE <<b>> \o w[i - 1][next[b]]]
  <2>1. w = [i \in 0..MaxList |-> Right(i)] BY <1>1 DEF IsWalk
  <2> HIDE DEF Right
  <2>2. w[n] = Right(n) BY <2>1
  <2>3. Right(n)[a] = IF n = 0 \/ a = NULL THEN <<>> ELSE <<a>> \o w[n - 1][next[a]]
    BY DEF Right
  <2> QED BY <2>2, <2>3
<1>5. \A n \in 0..MaxList : w[n][NULL] = <<>> BY <1>4
<1>6. \A a \in Address : w[0][a] = <<>>
  <2>1. 0 \in 0..MaxList BY <1>3
  <2> QED BY <2>1, <1>4
<1>7. ASSUME NEW n \in 1..MaxList, NEW a \in Address
      PROVE w[n][a] = <<a>> \o w[n - 1][next[a]]
  <2>1. n \in 0..MaxList /\ n # 0 /\ a # NULL BY <1>3
  <2> QED BY <2>1, <1>4
<1> QED BY <1>1, <1>2, <1>5, <1>6, <1>7

\* Blocks visits every block from heap_start on, and the last one ends where
\* the heap ends.
LEMMA BlocksAre ==
  ASSUME NEW h, NEW B, Tiled(h, B)
  PROVE  /\ Blocks(h) \in Seq(B) /\ Blocks(h) # <<>>
         /\ \A b \in B : \E i \in 1..Len(Blocks(h)) : Blocks(h)[i] = b
         /\ NEXT_BLKP(h, Blocks(h)[Len(Blocks(h))]) = h.heap_end
<1> DEFINE At(p) == IF p \in Address /\ GET_SIZE(h, p) # 0 THEN p ELSE NULL
           next == [p \in Address |-> At(NEXT_BLKP(h, p))]
<1>1. PICK e : e = h.heap_end OBVIOUS
<1>2. Tile(h, B, heap_start, e) BY <1>1 DEF Tiled
<1>3. /\ e \in Nat /\ e \in Grid /\ heap_start \in B /\ heap_start \in Nat
      /\ \A b \in B : b \in Grid /\ b \in Nat /\ b < e
  BY <1>1, TiledFacts
<1>4. next \in [Address -> Address \cup {NULL}] OBVIOUS
<1>5. Blocks(h) = Walk(next, At(heap_start)) BY DEF Blocks
<1>6. \A b \in B : At(b) = b /\ b \in Address
  <2> SUFFICES ASSUME NEW b \in B PROVE At(b) = b /\ b \in Address
    OBVIOUS
  <2>1. b \in Address BY <1>3, GridWords
  <2>2. GET_SIZE(h, b) # 0
    <3>1. /\ b \in Nat /\ NEXT_BLKP(h, b) \in Nat /\ b + 32 <= NEXT_BLKP(h, b)
          /\ GET_SIZE(h, b) = NEXT_BLKP(h, b) - b
      BY <1>2, TileFacts
    <3> QED BY <3>1
  <2> QED BY <2>1, <2>2
<1>7. At(e) = NULL
  <2>1. GET(h, e) = 1 BY <1>1 DEF Tiled
  <2>2. GET_SIZE(h, e) = 0 BY <2>1 DEF GET_SIZE, GET_STATUS
  <2> QED BY <2>2
<1>8. \A b \in B : next[b] = At(NEXT_BLKP(h, b)) BY <1>6
<1> HIDE DEF At, next
<1>9. PICK w : /\ \A p : Walk(next, p) = w[MaxList][p]
               /\ \A n \in 0..MaxList : w[n][NULL] = <<>>
               /\ \A a \in Address : w[0][a] = <<>>
               /\ \A n \in 1..MaxList, a \in Address : w[n][a] = <<a>> \o w[n - 1][next[a]]
  BY <1>4, WalkIs
<1> DEFINE Visits(s, p) ==
             /\ s \in Seq(B)
             /\ \A b \in B : p <= b => \E i \in 1..Len(s) : s[i] = b
             /\ p \in B => s # <<>> /\ NEXT_BLKP(h, s[Len(s)]) = e
           Fine(k) == \A p \in B \cup {e} : e - p <= 32 * k => Visits(w[k][At(p)], p)
           S == {k \in Nat : k <= MaxList => Fine(k)}
<1>10. Visits(<<>>, e)
  <2>1. e \notin B BY <1>3
  <2>2. \A b \in B : ~ (e <= b)
    <3> SUFFICES ASSUME NEW b \in B PROVE ~ (e <= b)
      OBVIOUS
    <3> QED BY <1>3
  <2> QED BY <2>1, <2>2
<1>11. 0 \in S
  <2>1. Fine(0)
    <3> SUFFICES ASSUME NEW p \in B \cup {e}, e - p <= 32 * 0
                 PROVE  Visits(w[0][At(p)], p)
      OBVIOUS
    <3>1. p = e BY <1>3
    <3>2. w[0][At(p)] = <<>>
      <4>1. 0 \in 0..MaxList BY MaxListNat
      <4> QED BY <4>1, <3>1, <1>7, <1>9
    <3> QED BY <3>1, <3>2, <1>10
  <2> QED BY <2>1
<1>12. ASSUME NEW k \in S PROVE k + 1 \in S
  <2> SUFFICES ASSUME k + 1 <= MaxList, NEW p \in B \cup {e}, e - p <= 32 * (k + 1)
               PROVE  Visits(w[k + 1][At(p)], p)
    OBVIOUS
  <2>1. k \in Nat /\ k + 1 \in 1..MaxList /\ k + 1 \in 0..MaxList /\ (k + 1) - 1 = k
        /\ Fine(k)
    BY MaxListNat
  <2>2. CASE p = e
    <3>1. w[k + 1][At(p)] = <<>> BY <2>1, <2>2, <1>7, <1>9
    <3> QED BY <3>1, <2>2, <1>10
  <2>3. CASE p \in B
    <3>1. PICK q : q = NEXT_BLKP(h, p) OBVIOUS
    <3>2. /\ q \in B \cup {e} /\ p \in Nat /\ q \in Nat /\ p + 32 <= q
      <4>1. q \in B \cup {e} BY <2>3, <3>1, <1>2 DEF Tile
      <4> QED BY <4>1, <2>3, <3>1, <1>2, TileFacts
    <3>3. e - q <= 32 * k BY <3>2, <2>1, <1>3
    <3>4. PICK t : t = w[k][At(q)] OBVIOUS
    <3>5. Visits(t, q) BY <3>2, <3>3, <3>4, <2>1
    <3>6. w[k + 1][At(p)] = <<p>> \o t
      <4>1. At(p) = p /\ p \in Address /\ next[p] = At(q) BY <2>3, <3>1, <1>6, <1>8
      <4>2. w[k + 1][p] = <<p>> \o w[(k + 1) - 1][next[p]] BY <4>1, <2>1, <1>9
      <4>3. w[k + 1][p] = <<p>> \o w[k][At(q)]
        <5>1. (k + 1) - 1 = k BY <2>1
        <5> QED BY <5>1, <4>1, <4>2
      <4> QED BY <4>1, <4>3, <3>4
    <3>7. PICK s : s = <<p>> \o t OBVIOUS
    <3>8. t \in Seq(B) /\ Len(t) \in Nat BY <3>5
    <3>9. /\ s \in Seq(B) /\ Len(s) = Len(t) + 1 /\ s[1] = p
          /\ \A i \in 1..Len(t) : s[i + 1] = t[i]
      BY <3>7, <3>8, <2>3
    <3>10. \A b \in B : p <= b => \E i \in 1..Len(s) : s[i] = b
      <4> SUFFICES ASSUME NEW b \in B, p <= b PROVE \E i \in 1..Len(s) : s[i] = b
        OBVIOUS
      <4>1. CASE b = p
        <5>1. 1 \in 1..Len(s) BY <3>8, <3>9
        <5> QED BY <5>1, <4>1, <3>9
      <4>2. CASE b # p
        <5>1. p < b BY <4>2, <3>2, <1>3
        <5>2. q <= b BY <5>1, <2>3, <3>1, <1>2 DEF Tile
        <5>3. PICK i \in 1..Len(t) : t[i] = b BY <5>2, <3>5
        <5>4. i + 1 \in 1..Len(s) /\ s[i + 1] = b BY <5>3, <3>8, <3>9
        <5> QED BY <5>4
      <4> QED BY <4>1, <4>2
    <3>11. s # <<>> /\ NEXT_BLKP(h, s[Len(s)]) = e
      <4>1. s # <<>> BY <3>8, <3>9
      <4>2. CASE q \in B
        <5>1. t # <<>> /\ NEXT_BLKP(h, t[Len(t)]) = e BY <4>2, <3>5
        <5>2. Len(t) \in 1..Len(t) BY <5>1, <3>8
        <5>3. s[Len(s)] = t[Len(t)] BY <5>2, <3>9
        <5> QED BY <4>1, <5>1, <5>3
      <4>3. CASE q \notin B
        <5>1. q = e BY <4>3, <3>2
        <5>2. t = <<>>
          <6>1. k \in 0..MaxList BY <2>1, MaxListNat
          <6> QED BY <5>1, <6>1, <3>4, <1>7, <1>9
        <5>3. Len(s) = 1 BY <5>2, <3>9
        <5> QED BY <4>1, <5>1, <5>3, <3>1, <3>9
      <4> QED BY <4>2, <4>3
    <3> QED BY <3>6, <3>7, <3>9, <3>10, <3>11
  <2> QED BY <2>2, <2>3
<1> HIDE DEF S
<1>13. Nat \subseteq S
  <2>1. \A k \in Nat : k \in S => k + 1 \in S BY <1>12
  <2> QED BY <1>11, <2>1, NatSetInduction
<1>14. Fine(MaxList)
  <2>1. MaxList \in S BY <1>13, MaxListNat
  <2> QED BY <2>1, MaxListNat DEF S
<1>15. e - heap_start <= 32 * MaxList
  <2>1. e + 32 < ds_heap_end BY <1>3 DEF Grid, BS
  <2>2. heap_start = ds_heap_start + 32 /\ ds_heap_start \in Nat
        /\ ds_heap_end = ds_heap_start + MaxHeapSize /\ MaxHeapSize \in Nat
    BY HeapStart
  <2>3. MaxList = MaxHeapSize \div 32 + 1 BY DEF MaxList, BS
  <2>4. 32 * (MaxHeapSize \div 32 + 1) >= MaxHeapSize BY <2>2
  <2> QED BY <2>1, <2>2, <2>3, <2>4, <1>3
<1>16. Visits(w[MaxList][At(heap_start)], heap_start) BY <1>3, <1>14, <1>15
<1>17. Visits(Blocks(h), heap_start) BY <1>5, <1>9, <1>16
<1>18. \A b \in B : heap_start <= b BY <1>2 DEF Tile
<1> QED BY <1>1, <1>3, <1>17, <1>18

\* A list of blocks of a heap is short enough for a walk to reach its end, and
\* it has as many elements as there are blocks in it.
LEMMA ChainShort ==
  ASSUME NEW h, NEW B, Tiled(h, B), NEW X, X \subseteq B,
         NEW n \in Nat, NEW c \in [0..n + 1 -> Grid], Chain(h, X, n, c)
  PROVE  n + 1 <= MaxList /\ IsFiniteSet(X) /\ Cardinality(X) = n
<1>1. IsFiniteSet(1..n) /\ Cardinality(1..n) = n
  <2>1. IsFiniteSet(1..n) /\ Cardinality(1..n) = IF 1 > n THEN 0 ELSE n - 1 + 1
    BY FS_Interval
  <2> QED BY <2>1
<1>2. \A i \in 1..n : i \in 0..n + 1 /\ c[i] \in X /\ c[i] \in B /\ c[i] \in Grid
  BY DEF Chain
<1>3. /\ ds_heap_start \in Nat /\ MaxHeapSize \in Nat /\ ds_heap_start % 32 = 0
      /\ heap_start = ds_heap_start + 32 /\ ds_heap_end = ds_heap_start + MaxHeapSize
  BY HeapStart
<1>4. PICK K : K = MaxHeapSize \div 32 OBVIOUS
<1>5. K \in Nat /\ MaxList = K + 1 /\ IsFiniteSet(1..K) /\ Cardinality(1..K) = K
  <2>1. K \in Nat BY <1>3, <1>4
  <2>2. IsFiniteSet(1..K) /\ Cardinality(1..K) = IF 1 > K THEN 0 ELSE K - 1 + 1
    BY <2>1, FS_Interval
  <2>3. MaxList = K + 1 BY <1>4 DEF MaxList, BS
  <2> QED BY <2>1, <2>2, <2>3
<1> DEFINE Spot(i) == (c[i] - ds_heap_start) \div 32
           f == [i \in 1..n |-> Spot(i)]
<1>6. ASSUME NEW i \in 1..n
      PROVE Spot(i) \in 1..K /\ c[i] = ds_heap_start + 32 * Spot(i)
  <2>1. PICK a : a = c[i] OBVIOUS
  <2>2. a \in Nat /\ a % 32 = 0 /\ a + 32 < ds_heap_end /\ heap_start <= a
    <3>1. a \in B /\ a \in Grid BY <2>1, <1>2
    <3> QED BY <3>1, TiledFacts DEF Grid, BS
  <2>3. PICK d \in Nat : a = ds_heap_start + d /\ d % 32 = 0 /\ 32 <= d /\ d <= MaxHeapSize
    BY <2>2, <1>3
  <2>4. PICK m \in Nat : d = 32 * m
    <3>1. d = 32 * (d \div 32) /\ d \div 32 \in Nat BY <2>3
    <3> QED BY <3>1
  <2>5. a - ds_heap_start = d BY <2>2, <2>3, <1>3
  <2>6. d \div 32 = m BY <2>4
  <2>7. m >= 1 /\ m <= K BY <2>3, <2>4, <1>3, <1>4
  <2> QED BY <2>1, <2>3, <2>4, <2>5, <2>6, <2>7, <1>5
<1>7. f \in [1..n -> 1..K] BY <1>6
<1>8. \A i, j \in 1..n : f[i] = f[j] => i = j
  <2> SUFFICES ASSUME NEW i \in 1..n, NEW j \in 1..n, f[i] = f[j] PROVE i = j
    OBVIOUS
  <2>1. Spot(i) = Spot(j) OBVIOUS
  <2>2. c[i] = c[j]
    <3> HIDE DEF Spot
    <3> QED BY <2>1, <1>6
  <2> QED BY <2>2 DEF Chain
<1>9. n <= K
  <2> HIDE DEF f
  <2>1. f \in Injection(1..n, 1..K) BY <1>7, <1>8, Fun_IsInj
  <2> QED BY <2>1, <1>1, <1>5, FS_Injection
<1>10. ExistsBijection(1..n, X)
  <2> DEFINE b == [i \in 1..n |-> c[i]]
  <2>1. b \in [1..n -> X] BY <1>2
  <2>2. \A i, j \in 1..n : b[i] = b[j] => i = j BY DEF Chain
  <2>3. \A x \in X : \E i \in 1..n : b[i] = x BY DEF Chain
  <2> HIDE DEF b
  <2>4. b \in Bijection(1..n, X) BY <2>1, <2>2, <2>3, Fun_IsInj, Fun_IsSurj DEF Bijection
  <2> QED BY <2>4 DEF ExistsBijection
<1> QED BY <1>1, <1>5, <1>9, <1>10, FS_Bijection

\* FreeList follows the list to its end.
LEMMA FreeListIs ==
  ASSUME NEW h, NEW B, Tiled(h, B), NEW X, X \subseteq B,
         NEW n \in Nat, NEW c \in [0..n + 1 -> Grid], Chain(h, X, n, c)
  PROVE  /\ FreeList(h) \in Seq(Grid) /\ Len(FreeList(h)) = n + 1
         /\ \A i \in 1..n + 1 : FreeList(h)[i] = c[i]
<1> DEFINE At(p) == IF p \in Address THEN p ELSE NULL
           next == [p \in Address |-> At(NEXT_LIST_GET(h, p))]
<1>1. n + 1 <= MaxList /\ MaxList \in Nat BY ChainShort, MaxListNat
<1>2. next \in [Address -> Address \cup {NULL}] OBVIOUS
<1>3. FreeList(h) = Walk(next, At(NEXT_LIST_GET(h, first))) BY DEF FreeList
<1>4. \A i \in 0..n + 1 : c[i] \in Grid /\ c[i] \in Address BY GridWords
<1>5. \A i \in 0..n : At(NEXT_LIST_GET(h, c[i])) = c[i + 1]
  <2> SUFFICES ASSUME NEW i \in 0..n PROVE At(NEXT_LIST_GET(h, c[i])) = c[i + 1]
    OBVIOUS
  <2>1. NEXT_LIST_GET(h, c[i]) = c[i + 1]
    BY DEF Chain, NEXT_LIST_GET, NEXT_PTR, TYPE_SIZE
  <2>2. i + 1 \in 0..n + 1 OBVIOUS
  <2> QED BY <2>1, <2>2, <1>4
<1>6. At(NEXT_LIST_GET(h, first)) = c[1]
  <2>1. 0 \in 0..n /\ 0 + 1 = 1 /\ c[0] = first BY DEF Chain
  <2> QED BY <2>1, <1>5
<1>7. \A i \in 1..n : next[c[i]] = c[i + 1]
  <2>1. \A i \in 1..n : i \in 0..n /\ i \in 0..n + 1 OBVIOUS
  <2> QED BY <2>1, <1>4, <1>5
<1>8. next[c[n + 1]] = NULL
  <2>1. n + 1 \in 0..n + 1 /\ c[n + 1] = last BY DEF Chain
  <2>2. NEXT_LIST_GET(h, last) = NULL BY DEF Chain, NEXT_LIST_GET, NEXT_PTR, TYPE_SIZE
  <2> QED BY <2>1, <2>2, <1>4
<1> HIDE DEF At, next
<1>9. PICK w : /\ \A p : Walk(next, p) = w[MaxList][p]
               /\ \A k \in 0..MaxList : w[k][NULL] = <<>>
               /\ \A a \in Address : w[0][a] = <<>>
               /\ \A k \in 1..MaxList, a \in Address : w[k][a] = <<a>> \o w[k - 1][next[a]]
  <2>1. PICK w : /\ IsWalk(next, w)
                 /\ \A p : Walk(next, p) = w[MaxList][p]
                 /\ \A k \in 0..MaxList : w[k][NULL] = <<>>
                 /\ \A a \in Address : w[0][a] = <<>>
                 /\ \A k \in 1..MaxList, a \in Address :
                      w[k][a] = <<a>> \o w[k - 1][next[a]]
    BY ONLY <1>2, WalkIs
  <2> QED BY ONLY <2>1
<1> DEFINE Visits(s, i) == /\ s \in Seq(Grid) /\ Len(s) = n + 2 - i
                           /\ \A j \in 1..n + 2 - i : s[j] = c[i + j - 1]
           Fine(k) == \A i \in 1..n + 1 : n + 2 - i <= k => Visits(w[k][c[i]], i)
           S == {k \in Nat : k <= MaxList => Fine(k)}
<1>10. 0 \in S
  <2>1. \A i \in 1..n + 1 : ~ (n + 2 - i <= 0) OBVIOUS
  <2> QED BY <2>1
<1>11. ASSUME NEW k \in S PROVE k + 1 \in S
  <2> SUFFICES ASSUME k + 1 <= MaxList PROVE Fine(k + 1)
    <3> HIDE DEF Fine
    <3> QED OBVIOUS
  <2> SUFFICES ASSUME NEW i \in 1..n + 1, n + 2 - i <= k + 1
               PROVE  Visits(w[k + 1][c[i]], i)
    <3> HIDE DEF Visits
    <3> QED OBVIOUS
  <2>1. k \in Nat /\ k + 1 \in 1..MaxList /\ k \in 0..MaxList /\ (k + 1) - 1 = k /\ Fine(k)
    BY <1>1
  <2>2. c[i] \in Address /\ c[i] \in Grid BY <1>4
  <2>3. w[k + 1][c[i]] = <<c[i]>> \o w[k][next[c[i]]]
    <3>1. w[k + 1][c[i]] = <<c[i]>> \o w[(k + 1) - 1][next[c[i]]] BY <2>1, <2>2, <1>9
    <3> QED BY <3>1, <2>1
  <2>4. PICK t : t = w[k][next[c[i]]] OBVIOUS
  <2>5. PICK s : s = <<c[i]>> \o t OBVIOUS
  <2>6. CASE i = n + 1
    <3>1. t = <<>> BY <2>1, <2>4, <2>6, <1>8, <1>9
    <3>2. s = <<c[i]>> BY <3>1, <2>2, <2>5
    <3>3. s \in Seq(Grid) /\ Len(s) = 1 /\ s[1] = c[i] BY <3>2, <2>2
    <3>4. n + 2 - i = 1 /\ i + 1 - 1 = i BY <2>6
    <3>5. \A j \in 1..n + 2 - i : j = 1 BY <3>4
    <3>6. Visits(s, i) BY <3>3, <3>4, <3>5
    <3> QED BY <3>6, <2>3, <2>4, <2>5
  <2>7. CASE i # n + 1
    <3>1. i \in 1..n /\ i + 1 \in 1..n + 1 /\ n + 2 - (i + 1) <= k BY <2>1, <2>7
    <3>2. Visits(t, i + 1) BY <3>1, <2>1, <2>4, <1>7
    <3>3. t \in Seq(Grid) /\ Len(t) = n + 1 - i /\ Len(t) \in Nat BY <3>1, <3>2
    <3>4. /\ s \in Seq(Grid) /\ Len(s) = Len(t) + 1 /\ s[1] = c[i]
          /\ \A j \in 1..Len(t) : s[j + 1] = t[j]
      <4>1. PICK x : x = c[i] OBVIOUS
      <4>2. x \in Grid /\ s = <<x>> \o t BY <4>1, <2>2, <2>5
      <4>3. t \in Seq(Grid) BY <3>3
      <4>4. s \in Seq(Grid) /\ Len(s) = Len(t) + 1 /\ s[1] = x BY <4>2, <4>3
      <4>5. \A j \in 1..Len(t) : s[j + 1] = t[j] BY <4>2, <4>3
      <4> QED BY <4>1, <4>4, <4>5
    <3>5. Len(s) = n + 2 - i BY <3>1, <3>3, <3>4
    <3>6. ASSUME NEW j \in 1..n + 2 - i PROVE s[j] = c[i + j - 1]
      <4>1. CASE j = 1
        <5>1. i + 1 - 1 = i OBVIOUS
        <5> QED BY <5>1, <4>1, <3>4
      <4>2. CASE j # 1
        <5>1. PICK m : m = j - 1 OBVIOUS
        <5>2. /\ m \in 1..Len(t) /\ m + 1 = j /\ m \in 1..n + 2 - (i + 1)
              /\ (i + 1) + m - 1 = i + j - 1
          BY <5>1, <4>2, <3>1, <3>3
        <5>3. t[m] = c[(i + 1) + m - 1] BY <5>2, <3>2
        <5>4. s[m + 1] = t[m] BY <5>2, <3>4
        <5> QED BY <5>2, <5>3, <5>4
      <4> QED BY <4>1, <4>2
    <3>7. Visits(s, i) BY <3>4, <3>5, <3>6
    <3> QED BY <3>7, <2>3, <2>4, <2>5
  <2> QED BY <2>6, <2>7
<1> HIDE DEF S
<1>12. Nat \subseteq S
  <2>1. \A k \in Nat : k \in S => k + 1 \in S BY <1>11
  <2> QED BY <1>10, <2>1, NatSetInduction
<1>13. Fine(MaxList)
  <2>1. MaxList \in S BY <1>12, <1>1
  <2> HIDE DEF Fine
  <2> QED BY <2>1, <1>1 DEF S
<1>14. Visits(FreeList(h), 1)
  <2>1. 1 \in 1..n + 1 /\ n + 2 - 1 <= MaxList BY <1>1
  <2> QED BY <2>1, <1>3, <1>6, <1>9, <1>13
<1>15. n + 2 - 1 = n + 1 /\ \A i \in 1..n + 1 : 1 + i - 1 = i OBVIOUS
<1> QED BY <1>14, <1>15

\* BestFit finds an element that is free and large enough, if it finds any.
LEMMA BestFitIs ==
  ASSUME NEW h, NEW walk, NEW n \in Nat, DOMAIN walk = 1..n, NEW size,
         \A i \in 1..n : GET_SIZE(h, walk[i]) \in Nat
  PROVE  \/ BestFit(h, walk, size) = NULL
         \/ \E i \in 1..n : /\ BestFit(h, walk, size) = walk[i]
                            /\ GET_STATUS(h, walk[i]) = FREE
                            /\ GET_SIZE(h, walk[i]) >= size
<1> DEFINE fits == {i \in 1..n : /\ GET_STATUS(h, walk[i]) = FREE
                                 /\ GET_SIZE(h, walk[i]) >= size}
           Before(i, j) == \/ GET_SIZE(h, walk[i]) < GET_SIZE(h, walk[j])
                           \/ /\ GET_SIZE(h, walk[i]) = GET_SIZE(h, walk[j])
                              /\ i <= j
           best == CHOOSE i \in fits : \A j \in fits : Before(i, j)
<1>1. BestFit(h, walk, size) = IF fits = {} THEN NULL ELSE walk[best] BY DEF BestFit
<1>2. CASE fits = {} BY <1>1, <1>2
<1>3. CASE fits # {}
  <2>1. PICK f : f = [i \in 1..n |-> GET_SIZE(h, walk[i])] OBVIOUS
  <2>2. PICK F : F = fits OBVIOUS
  <2>3. F \subseteq 1..n /\ F # {} /\ f \in [1..n -> Nat] BY <2>1, <2>2, <1>3
  <2>4. PICK i \in F : \A j \in F : f[i] < f[j] \/ (f[i] = f[j] /\ i <= j)
    <3> DEFINE T == {f[i] : i \in F}
    <3>1. T \subseteq Nat /\ T # {} BY <2>3
    <3>2. PICK t \in T : \A y \in T : t <= y BY <3>1, LeastNatural
    <3> DEFINE U == {i \in F : f[i] = t}
    <3>3. U \subseteq Nat /\ U # {}
      <4>1. PICK k \in F : f[k] = t BY <3>2
      <4>2. k \in U BY <4>1
      <4>3. \A j \in U : j \in F OBVIOUS
      <4>4. \A j \in F : j \in Nat BY <2>3
      <4> HIDE DEF U
      <4> QED BY <4>2, <4>3, <4>4
    <3>4. PICK i \in U : \A j \in U : i <= j BY <3>3, LeastNatural
    <3>5. ASSUME NEW j \in F PROVE f[i] < f[j] \/ (f[i] = f[j] /\ i <= j)
      <4>1. f[i] = t /\ f[j] \in T /\ f[j] \in Nat /\ t \in Nat BY <2>3, <3>1
      <4>2. t <= f[j] BY <4>1, <3>2
      <4>3. CASE f[j] = t BY <4>1, <4>3, <3>4
      <4>4. CASE f[j] # t BY <4>1, <4>2, <4>4
      <4> QED BY <4>3, <4>4
    <3> QED BY <3>5
  <2>5. i \in fits /\ \A j \in fits : Before(i, j)
    <3>1. \A j \in fits : j \in F /\ j \in 1..n /\ f[j] = GET_SIZE(h, walk[j])
      BY <2>1, <2>2
    <3>2. i \in fits BY <2>2
    <3> HIDE DEF fits
    <3> QED BY <3>1, <3>2, <2>4
  <2>6. best \in fits
    <3> HIDE DEF fits, Before
    <3> QED BY <2>5
  <2> QED BY <1>1, <1>3, <2>6
<1> QED BY <1>2, <1>3

\* Both policies find free blocks only.
LEMMA FreeBlockFound ==
  ASSUME NEW h, NEW B, Good(h, B, FreeOf(h, B)), NEW size \in Nat, size >= 32,
         NEW r, r = get_free_block(h, size)
  PROVE  r = NULL \/ (r \in FreeOf(h, B) /\ GET_SIZE(h, r) >= size)
<1>1. Tiled(h, B) /\ Tile(h, B, heap_start, h.heap_end) BY DEF Good, Tiled
<1>2. \A b \in B : GET_SIZE(h, b) \in Nat BY <1>1 DEF Tile, IsBlock
<1>3. CASE h.policy = "fp_Implicit"
  <2>1. PICK walk : walk = Blocks(h) OBVIOUS
  <2>2. r = BestFit(h, walk, size) BY <1>3, <2>1 DEF get_free_block
  <2>3. walk \in Seq(B) BY <1>1, <2>1, BlocksAre
  <2>4. /\ Len(walk) \in Nat /\ DOMAIN walk = 1..Len(walk)
        /\ \A i \in 1..Len(walk) : walk[i] \in B
    BY <2>3
  <2>5. \/ r = NULL
        \/ \E i \in 1..Len(walk) : /\ r = walk[i] /\ GET_STATUS(h, walk[i]) = FREE
                                   /\ GET_SIZE(h, walk[i]) >= size
    <3>1. \A i \in 1..Len(walk) : GET_SIZE(h, walk[i]) \in Nat BY <2>4, <1>2
    <3> QED BY <3>1, <2>2, <2>4, BestFitIs
  <2> QED BY <2>4, <2>5 DEF FreeOf
<1>4. CASE h.policy # "fp_Implicit"
  <2>1. h.policy = "fp_Explicit" BY <1>1, <1>4 DEF Tiled
  <2>2. PICK X : X = FreeOf(h, B) OBVIOUS
  <2>3. X \subseteq B BY <2>2 DEF FreeOf
  <2>4. PICK n \in Nat : \E c \in [0..n + 1 -> Grid] : Chain(h, X, n, c)
    BY <2>1, <2>2 DEF Good, Listed
  <2>5. PICK c \in [0..n + 1 -> Grid] : Chain(h, X, n, c) BY <2>4
  <2>6. PICK walk : walk = FreeList(h) OBVIOUS
  <2>7. r = BestFit(h, walk, size) BY <1>4, <2>6 DEF get_free_block
  <2>8. /\ walk \in Seq(Grid) /\ Len(walk) = n + 1
        /\ \A i \in 1..n + 1 : walk[i] = c[i]
    BY <1>1, <2>3, <2>5, <2>6, FreeListIs
  <2>9. n + 1 \in Nat /\ DOMAIN walk = 1..n + 1 BY <2>8
  <2>10. \A i \in 1..n : walk[i] \in X /\ GET_SIZE(h, walk[i]) \in Nat
    <3>1. \A i \in 1..n : i \in 1..n + 1 /\ c[i] \in X BY <2>5 DEF Chain
    <3> QED BY <3>1, <2>3, <2>8, <1>2
  <2>11. GET_SIZE(h, walk[n + 1]) = 0
    <3>1. walk[n + 1] = last
      <4>1. n + 1 \in 1..n + 1 OBVIOUS
      <4> QED BY <4>1, <2>5, <2>8 DEF Chain
    <3>2. GET(h, last) = 0 BY <2>5 DEF Chain
    <3> QED BY <3>1, <3>2 DEF GET_SIZE, GET_STATUS
  <2>12. \A i \in 1..n + 1 : i \in 1..n \/ i = n + 1 OBVIOUS
  <2>13. \/ r = NULL
         \/ \E i \in 1..n + 1 : /\ r = walk[i] /\ GET_STATUS(h, walk[i]) = FREE
                                /\ GET_SIZE(h, walk[i]) >= size
    <3>1. \A i \in 1..n + 1 : GET_SIZE(h, walk[i]) \in Nat BY <2>10, <2>11, <2>12
    <3> QED BY <3>1, <2>7, <2>9, BestFitIs
  <2>14. ASSUME NEW i \in 1..n + 1, GET_SIZE(h, walk[i]) >= size PROVE i \in 1..n
    BY <2>11, <2>12, <2>14
  <2> QED BY <2>2, <2>10, <2>13, <2>14
<1> QED BY <1>3, <1>4

------------------------------------------------------------------------------
(* What stays *)

\* The words of the blocks A, tags and contents, are the same in h and g.
Kept(h, g, A) ==
  \A b \in A, a \in Address : b <= a /\ a < NEXT_BLKP(h, b) => GET(g, a) = GET(h, a)

\* A word where a header may be, and that says FREE, goes on saying so, unless
\* the heap ends there.
StaysFree(h, g) ==
  \A a \in Grid : GET_STATUS(h, a) = FREE => GET_STATUS(g, a) = FREE \/ a = g.heap_end

\* A block that keeps its words keeps its header.
LEMMA KeptHeader ==
  ASSUME NEW h, NEW B, Tiled(h, B), NEW A, A \subseteq B, NEW g, Kept(h, g, A), NEW b \in A
  PROVE  /\ GET(g, b) = GET(h, b) /\ GET_SIZE(g, b) = GET_SIZE(h, b)
         /\ GET_STATUS(g, b) = GET_STATUS(h, b) /\ NEXT_BLKP(g, b) = NEXT_BLKP(h, b)
<1>1. b \in Grid /\ b \in Nat /\ b + 32 <= NEXT_BLKP(h, b) /\ NEXT_BLKP(h, b) \in Nat
  <2>1. b \in B OBVIOUS
  <2> QED BY <2>1, TileFacts DEF Tiled
<1>2. b \in Address /\ b <= b /\ b < NEXT_BLKP(h, b) BY <1>1, GridWords
<1>3. GET(g, b) = GET(h, b) BY <1>2 DEF Kept
<1> QED BY <1>3, SameTag

\* What two steps keep, both of them keep.
LEMMA KeptTwice ==
  ASSUME NEW h, NEW B, Tiled(h, B), NEW A, A \subseteq B, NEW g, Kept(h, g, A),
         NEW k, Kept(g, k, A)
  PROVE  Kept(h, k, A)
<1>1. \A b \in A : NEXT_BLKP(g, b) = NEXT_BLKP(h, b) BY KeptHeader
<1> QED BY <1>1 DEF Kept

\* List pointers of free blocks and heads are in no allocated block.
LEMMA PointersInFree ==
  ASSUME NEW h, NEW B, Tiled(h, B), NEW X, X \subseteq FreeOf(h, B),
         NEW g, OnlyPointers(h, g, X)
  PROVE  Kept(h, g, AllocOf(h, B)) /\ StaysFree(h, g)
<1>1. ASSUME NEW b \in AllocOf(h, B), NEW a \in Address, b <= a, a < NEXT_BLKP(h, b)
      PROVE GET(g, a) = GET(h, a)
  <2>1. b \in B /\ GET_STATUS(h, b) = ALLOC BY DEF AllocOf
  <2>2. b \in Nat /\ heap_start <= b /\ heap_start \in Nat /\ a \in Nat
    <3>1. a \in Nat BY HeapStart DEF Address
    <3> QED BY <2>1, <3>1, TiledFacts
  <2>3. ASSUME NEW x \in X, a = x + 8 \/ a = x + 16 PROVE FALSE
    <3>1. x \in B /\ x # b BY <2>1 DEF FreeOf, ALLOC, FREE
    <3>2. /\ x \in Nat /\ NEXT_BLKP(h, x) \in Nat /\ NEXT_BLKP(h, b) \in Nat
          /\ x < b => x + 32 <= NEXT_BLKP(h, x) /\ NEXT_BLKP(h, x) <= b
          /\ b < x => NEXT_BLKP(h, b) <= x
      BY <2>1, <3>1, Apart
    <3> QED BY <2>2, <2>3, <3>1, <3>2, <1>1
  <2>4. ASSUME NEW x \in {first, last}, a = x + 8 \/ a = x + 16 PROVE FALSE
    <3>1. x \in Nat /\ x <= 64 /\ 96 <= heap_start BY HeapStart
    <3> QED BY <2>2, <2>4, <3>1, <1>1
  <2>5. ~ Pointer(X, a) BY <2>3, <2>4 DEF Pointer
  <2> QED BY <2>5 DEF OnlyPointers
<1>2. X \subseteq Grid BY TiledFacts DEF FreeOf
<1>3. \A a \in Grid : GET_STATUS(g, a) = GET_STATUS(h, a) BY <1>2, PointersKeep
<1> QED BY <1>1, <1>3 DEF Kept, StaysFree

------------------------------------------------------------------------------
(* coalesce *)

\* The block before bp, if the word before bp says that it is free.
LEMMA FreePrevious ==
  ASSUME NEW h, NEW B, Tiled(h, B), NEW bp \in B, GET_STATUS(h, PREV_PTR(bp)) = FREE
  PROVE  /\ PREV_BLKP(h, bp) \in FreeOf(h, B)
         /\ NEXT_BLKP(h, PREV_BLKP(h, bp)) = bp
         /\ PREV_BLKP(h, bp) < bp
<1>1. Tile(h, B, heap_start, h.heap_end) BY DEF Tiled
<1>2. PREV_PTR(bp) = bp - 8 BY DEF PREV_PTR, TYPE_SIZE
<1>3. bp # heap_start
  <2>1. GET(h, heap_start - 8) = 1 BY DEF Tiled
  <2>2. GET_STATUS(h, heap_start - 8) = 1 BY <2>1 DEF GET_STATUS
  <2> QED BY <2>2, <1>2 DEF FREE
<1>4. PICK b \in B : NEXT_BLKP(h, b) = bp
  <2>1. bp \in B \cup {h.heap_end} OBVIOUS
  <2> QED BY <2>1, <1>1, <1>3, Predecessor
<1>5. GET(h, bp - 8) = GET(h, b) BY <1>1, <1>4 DEF Tile, IsBlock
<1>6. GET_STATUS(h, b) = FREE /\ GET_SIZE(h, PREV_PTR(bp)) = GET_SIZE(h, b)
  BY <1>2, <1>5 DEF GET_STATUS, GET_SIZE
<1>7. /\ b \in Nat /\ bp \in Nat /\ b + 32 <= bp
      /\ GET_SIZE(h, b) = bp - b
  BY <1>1, <1>4, TileFacts
<1>8. PREV_BLKP(h, bp) = b
  <2>1. b \in Grid /\ bp \in Grid BY <1>1 DEF Tile
  <2>2. Signed(bp - b) = bp - b BY <2>1, <1>7, SignedGap
  <2> QED BY <2>2, <1>6, <1>7 DEF PREV_BLKP
<1> QED BY <1>4, <1>6, <1>7, <1>8 DEF FreeOf

\* The block behind bp, if it is free.
LEMMA FreeNext ==
  ASSUME NEW h, NEW B, Tiled(h, B), NEW bp \in B, GET_STATUS(h, NEXT_BLKP(h, bp)) = FREE
  PROVE  NEXT_BLKP(h, bp) \in FreeOf(h, B)
<1>1. NEXT_BLKP(h, bp) \in B \cup {h.heap_end} BY DEF Tiled, Tile
<1>2. NEXT_BLKP(h, bp) # h.heap_end
  <2>1. GET(h, h.heap_end) = 1 BY DEF Tiled
  <2>2. GET_STATUS(h, h.heap_end) = 1 BY <2>1 DEF GET_STATUS
  <2> QED BY <2>2 DEF FREE
<1> QED BY <1>1, <1>2 DEF FreeOf

\* The free blocks around and including bp, and nothing else, lie between
\* MergedStart and MergedEnd.
LEMMA Merging ==
  ASSUME NEW h, NEW B, Tiled(h, B), NEW bp \in FreeOf(h, B),
         NEW p, p = MergedStart(h, bp), NEW q, q = MergedEnd(h, bp)
  PROVE  /\ p \in FreeOf(h, B) /\ q \in B \cup {h.heap_end} /\ p \in Nat /\ q \in Nat
         /\ p <= bp /\ bp < q /\ NEXT_BLKP(h, bp) <= q /\ q <= h.heap_end
         /\ \A b \in B : p <= b /\ b < q =>
              b \in FreeOf(h, B) /\ b \in {p, bp, NEXT_BLKP(h, bp)}
<1> DEFINE n == NEXT_BLKP(h, bp)
<1>1. Tile(h, B, heap_start, h.heap_end) BY DEF Tiled
<1>2. bp \in B /\ GET_STATUS(h, bp) = FREE BY DEF FreeOf
<1>3. /\ bp \in Nat /\ n \in Nat /\ bp + 32 <= n /\ n <= h.heap_end /\ h.heap_end \in Nat
      /\ n \in B \cup {h.heap_end}
  <2>1. n \in B \cup {h.heap_end} BY <1>1, <1>2 DEF Tile
  <2> QED BY <2>1, <1>1, <1>2, TileFacts
<1>4. /\ p \in FreeOf(h, B) /\ p \in Nat /\ p <= bp
      /\ p # bp => NEXT_BLKP(h, p) = bp
  <2>1. CASE GET_STATUS(h, PREV_PTR(bp)) = FREE
    <3>1. p = PREV_BLKP(h, bp) BY <2>1 DEF MergedStart
    <3>2. p \in FreeOf(h, B) /\ NEXT_BLKP(h, p) = bp /\ p < bp
      BY <2>1, <3>1, <1>2, FreePrevious
    <3>3. p \in Nat BY <3>2, TiledFacts DEF FreeOf
    <3> QED BY <3>2, <3>3, <1>3
  <2>2. CASE GET_STATUS(h, PREV_PTR(bp)) # FREE
    <3>1. p = bp BY <2>2 DEF MergedStart
    <3> QED BY <3>1, <1>3
  <2> QED BY <2>1, <2>2
<1>5. /\ q \in B \cup {h.heap_end} /\ q \in Nat /\ n <= q /\ q <= h.heap_end
      /\ q # n => n \in FreeOf(h, B) /\ q = NEXT_BLKP(h, n)
  <2>1. CASE GET_STATUS(h, n) = FREE
    <3>1. q = NEXT_BLKP(h, n) BY <2>1 DEF MergedEnd
    <3>2. n \in FreeOf(h, B) BY <2>1, <1>2, FreeNext
    <3>3. n \in B BY <3>2 DEF FreeOf
    <3>4. q \in B \cup {h.heap_end} /\ q \in Nat /\ n + 32 <= q /\ q <= h.heap_end
      <4>1. q \in B \cup {h.heap_end} BY <3>1, <3>3, <1>1 DEF Tile
      <4>2. q \in Nat /\ n + 32 <= q /\ q <= h.heap_end
        BY <3>1, <3>3, <1>1, TileFacts
      <4> QED BY <4>1, <4>2
    <3> QED BY <3>1, <3>2, <3>4, <1>3
  <2>2. CASE GET_STATUS(h, n) # FREE
    <3>1. q = n BY <2>2 DEF MergedEnd
    <3> QED BY <3>1, <1>3
  <2> QED BY <2>1, <2>2
<1>6. ASSUME NEW b \in B, p <= b, b < q
      PROVE b \in FreeOf(h, B) /\ b \in {p, bp, n}
  <2>1. b \in Nat BY TiledFacts
  <2>2. CASE b < bp
    <3>1. p # bp /\ NEXT_BLKP(h, p) = bp /\ p \in B
      BY <2>2, <1>4, <1>6, <2>1, <1>3 DEF FreeOf
    <3>2. p < b => NEXT_BLKP(h, p) <= b BY <3>1, Apart
    <3>3. b = p BY <3>1, <3>2, <2>1, <2>2, <1>3, <1>4, <1>6
    <3> QED BY <3>3, <1>4
  <2>3. CASE b = bp BY <2>3
  <2>4. CASE bp < b
    <3>1. n <= b BY <2>4, <1>2, Apart
    <3>2. q # n BY <3>1, <1>6, <2>1, <1>3
    <3>3. n \in FreeOf(h, B) /\ q = NEXT_BLKP(h, n) /\ n \in B
      BY <3>2, <1>5 DEF FreeOf
    <3>4. n < b => q <= b BY <3>3, Apart
    <3>5. b = n BY <3>1, <3>4, <1>6, <2>1, <1>3, <1>5
    <3> QED BY <3>3, <3>5
  <2> QED BY <2>1, <2>2, <2>3, <2>4, <1>3
<1>7. bp < q BY <1>3, <1>5
<1> QED BY <1>4, <1>5, <1>6, <1>7

\* The two neighbours, if free, leave the list.
LEMMA Unlinking ==
  ASSUME NEW h, NEW B, NEW bp \in FreeOf(h, B), Good(h, B, FreeOf(h, B) \ {bp}),
         NEW p, p = MergedStart(h, bp),
         NEW g, g = UnlinkNext(UnlinkPrev(h, bp), bp)
  PROVE  /\ Good(g, B, FreeOf(h, B) \ {p, bp, NEXT_BLKP(h, bp)})
         /\ OnlyPointers(h, g, FreeOf(h, B))
<1> DEFINE F == FreeOf(h, B)
           n == NEXT_BLKP(h, bp)
           h1 == UnlinkPrev(h, bp)
<1>1. Tiled(h, B) /\ IsHeap(h) /\ Listed(h, F \ {bp}) /\ bp \in B BY DEF Good, Tiled, FreeOf
<1>2. F \subseteq B /\ B \subseteq Grid /\ Listable(B) BY <1>1, TiledFacts DEF FreeOf
<1>3. \A X \in SUBSET F : X \subseteq Grid /\ Listable(X)
  BY <1>2 DEF Listable
<1>4. Listed(h1, F \ {p, bp}) /\ OnlyPointers(h, h1, F)
  <2>1. CASE GET_STATUS(h, PREV_PTR(bp)) = FREE
    <3>1. p = PREV_BLKP(h, bp) /\ h1 = Unlink(h, p)
      BY <2>1 DEF MergedStart, UnlinkPrev
    <3>2. p \in F /\ p < bp BY <2>1, <3>1, <1>1, FreePrevious
    <3>3. p # bp
      <4>1. p \in Nat BY <3>2, <1>1, <1>2, TiledFacts
      <4> QED BY <3>2, <4>1
    <3> HIDE DEF F, h1
    <3>4. p \in F \ {bp} /\ Listable(F \ {bp}) BY <3>2, <3>3, <1>3
    <3>5. Listed(h1, (F \ {bp}) \ {p}) /\ OnlyPointers(h, h1, F \ {bp})
      BY <3>1, <3>4, <1>1, UnlinkEffect
    <3>6. (F \ {bp}) \ {p} = F \ {p, bp} OBVIOUS
    <3>7. OnlyPointers(h, h1, F) BY <3>5 DEF OnlyPointers, Pointer
    <3> QED BY <3>5, <3>6, <3>7
  <2>2. CASE GET_STATUS(h, PREV_PTR(bp)) # FREE
    <3>1. p = bp /\ h1 = h BY <2>2 DEF MergedStart, UnlinkPrev
    <3>2. F \ {p, bp} = F \ {bp} BY <3>1
    <3> QED BY <3>1, <3>2, <1>1 DEF OnlyPointers, SameFrame
  <2> QED BY <2>1, <2>2
<1>5. /\ Tiled(h1, B) /\ FreeOf(h1, B) = F /\ NEXT_BLKP(h1, bp) = n /\ IsHeap(h1)
      /\ \A a \in Grid : GET_STATUS(h1, a) = GET_STATUS(h, a)
  <2>1. F \subseteq Grid BY <1>2
  <2> HIDE DEF F, h1
  <2>2. /\ Tiled(h1, B) /\ FreeOf(h1, B) = FreeOf(h, B) /\ NEXT_BLKP(h1, bp) = NEXT_BLKP(h, bp)
        /\ \A a \in Grid : GET_STATUS(h1, a) = GET_STATUS(h, a)
    BY <2>1, <1>1, <1>4, PointersKeep
  <2> QED BY <2>2 DEF Tiled, F
<1>6. g = UnlinkNext(h1, bp) OBVIOUS
<1>7. n \in Grid /\ n # bp
  <2>1. n \in Grid /\ n \in Nat /\ bp \in Nat /\ bp + 32 <= n
    BY <1>1, TileFacts DEF Tiled
  <2> QED BY <2>1
<1> HIDE DEF F, h1
<1>8. Listed(g, F \ {p, bp, n}) /\ OnlyPointers(h1, g, F)
  <2>1. CASE GET_STATUS(h1, n) = FREE
    <3>1. g = Unlink(h1, n) BY <2>1, <1>5, <1>6 DEF UnlinkNext
    <3>2. n \in F BY <2>1, <1>1, <1>5, FreeNext
    <3>3. CASE n # p
      <4>1. n \in F \ {p, bp} /\ Listable(F \ {p, bp}) BY <3>2, <3>3, <1>3, <1>7
      <4>2. Listed(g, (F \ {p, bp}) \ {n}) /\ OnlyPointers(h1, g, F \ {p, bp})
        BY <3>1, <4>1, <1>4, <1>5, UnlinkEffect
      <4>3. (F \ {p, bp}) \ {n} = F \ {p, bp, n} OBVIOUS
      <4>4. OnlyPointers(h1, g, F) BY <4>2 DEF OnlyPointers, Pointer
      <4> QED BY <4>2, <4>3, <4>4
    <3>4. CASE n = p
      <4>1. p <= bp /\ p \in Nat /\ bp \in Nat /\ n > bp
        <5>1. p <= bp /\ p \in Nat BY <1>1, Merging
        <5>2. n \in Nat /\ bp \in Nat /\ bp + 32 <= n
          BY <1>1, TileFacts DEF Tiled
        <5> QED BY <5>1, <5>2
      <4> QED BY <4>1, <3>4
    <3> QED BY <3>3, <3>4
  <2>2. CASE GET_STATUS(h1, n) # FREE
    <3>1. g = h1 BY <2>2, <1>5, <1>6 DEF UnlinkNext
    <3>2. n \notin F BY <2>2, <1>5, <1>7 DEF F, FreeOf
    <3>3. F \ {p, bp, n} = F \ {p, bp} BY <3>2
    <3> QED BY <3>1, <3>3, <1>4, <1>5 DEF OnlyPointers, SameFrame
  <2> QED BY <2>1, <2>2
<1>9. OnlyPointers(h, g, F) BY <1>4, <1>8 DEF OnlyPointers, SameFrame
<1>10. Tiled(g, B) /\ FreeOf(g, B) = F
  <2>1. F \subseteq Grid BY <1>3
  <2> QED BY <2>1, <1>1, <1>9, PointersKeep DEF F
<1>11. F \ {p, bp, n} \subseteq FreeOf(g, B) BY <1>10
<1>12. Good(g, B, F \ {p, bp, n}) BY <1>8, <1>10, <1>11 DEF Good
<1> QED BY <1>9, <1>12 DEF F

\* The free blocks around bp become one.
LEMMA Merged ==
  ASSUME NEW h, NEW B, NEW bp \in FreeOf(h, B), Good(h, B, FreeOf(h, B) \ {bp}),
         NEW p, p = MergedStart(h, bp), NEW q, q = MergedEnd(h, bp),
         NEW g, g = PutTags(UnlinkNext(UnlinkPrev(h, bp), bp), p, q - p, FREE)
  PROVE  \E C : /\ Good(g, C, FreeOf(g, C) \ {p}) /\ p \in FreeOf(g, C)
                /\ AllocOf(g, C) = AllocOf(h, B) /\ SameFrame(h, g)
                /\ NEXT_BLKP(g, p) = q
                /\ Kept(h, g, AllocOf(h, B)) /\ StaysFree(h, g)
<1> DEFINE k == UnlinkNext(UnlinkPrev(h, bp), bp)
           X == FreeOf(h, B) \ {p, bp, NEXT_BLKP(h, bp)}
           C == Rest(B, p, q) \cup {p}
<1>1. Tiled(h, B) /\ bp \in B BY DEF Good, FreeOf
<1>2. /\ p \in FreeOf(h, B) /\ q \in B \cup {h.heap_end} /\ p \in Nat /\ q \in Nat
      /\ p < q /\ q <= h.heap_end
      /\ \A b \in B : p <= b /\ b < q =>
           b \in FreeOf(h, B) /\ b \in {p, bp, NEXT_BLKP(h, bp)}
  <2>1. /\ p \in FreeOf(h, B) /\ q \in B \cup {h.heap_end} /\ p \in Nat /\ q \in Nat
        /\ p <= bp /\ bp < q /\ q <= h.heap_end
        /\ \A b \in B : p <= b /\ b < q =>
             b \in FreeOf(h, B) /\ b \in {p, bp, NEXT_BLKP(h, bp)}
    BY <1>1, Merging
  <2>2. bp \in Nat BY <1>1, TiledFacts
  <2> QED BY <2>1, <2>2
<1>3. Good(k, B, X) /\ OnlyPointers(h, k, FreeOf(h, B)) BY Unlinking
<1> HIDE DEF k, X
<1>4. /\ FreeOf(h, B) \subseteq Grid /\ B \subseteq Grid
      /\ p \in Grid /\ p \in B /\ q \in Grid
  <2>1. B \subseteq Grid /\ h.heap_end \in Grid BY <1>1, TiledFacts
  <2> QED BY <2>1, <1>2 DEF FreeOf
<1>5. /\ FreeOf(k, B) = FreeOf(h, B) /\ AllocOf(k, B) = AllocOf(h, B)
      /\ \A b \in B : NEXT_BLKP(k, b) = NEXT_BLKP(h, b)
      /\ \A a \in Grid : GET_STATUS(k, a) = GET_STATUS(h, a)
  <2>1. PICK F : F = FreeOf(h, B) OBVIOUS
  <2>2. F \subseteq Grid /\ OnlyPointers(h, k, F) /\ Tiled(h, B)
    BY <2>1, <1>1, <1>3, <1>4
  <2>3. /\ \A a \in Grid : GET(k, a) = GET(h, a)
        /\ \A a \in Grid : a > 32 => GET(k, a - 8) = GET(h, a - 8)
        /\ \A a \in Grid : GET_STATUS(k, a) = GET_STATUS(h, a)
        /\ Tiled(k, B) /\ FreeOf(k, B) = FreeOf(h, B) /\ AllocOf(k, B) = AllocOf(h, B)
        /\ \A b \in B : NEXT_BLKP(k, b) = NEXT_BLKP(h, b)
    BY ONLY <2>2, PointersKeep
  <2> QED BY ONLY <2>3
<1>6. /\ SameFrame(k, g)
      /\ GET(g, p) = PACK(q - p, FREE) /\ GET(g, q - 8) = PACK(q - p, FREE)
      /\ \A a \in Address : a # p /\ a # q - 8 => GET(g, a) = GET(k, a)
  <2>1. q - p \in Nat /\ (q - p) % 32 = 0 /\ q - p >= 32 BY <1>2, <1>4, GridDiff
  <2> DEFINE s == q - p
  <2>2. s \in Nat /\ s % 32 = 0 /\ s >= 32 /\ p + s = q /\ p + s - 8 = q - 8
        /\ FREE \in {ALLOC, FREE}
    BY <2>1, <1>2
  <2>3. g = PutTags(k, p, s, FREE) BY DEF k
  <2> HIDE DEF s
  <2>4. IsHeap(k) /\ p + s \in Grid BY <2>2, <1>3, <1>4 DEF Good, Tiled
  <2>5. /\ SameFrame(k, g)
        /\ GET(g, p) = PACK(s, FREE) /\ GET(g, p + s - 8) = PACK(s, FREE)
        /\ \A a \in Address : a # p /\ a # p + s - 8 => GET(g, a) = GET(k, a)
    BY <2>2, <2>3, <2>4, <1>4, PutTagsEffect
  <2>6. /\ GET(g, q - 8) = PACK(s, FREE)
        /\ \A a \in Address : a # p /\ a # q - 8 => GET(g, a) = GET(k, a)
    BY <2>2, <2>5
  <2> QED BY <2>5, <2>6 DEF s
<1>7. SameOutside(k, g, p, q)
  <2>1. p + 32 <= q BY <1>2, <1>4, GridGap
  <2>2. ASSUME NEW a \in Address, a < p \/ q <= a PROVE GET(g, a) = GET(k, a)
    <3>1. a \in Nat BY HeapStart DEF Address
    <3>2. a # p /\ a # q - 8 BY <3>1, <2>1, <2>2, <1>2
    <3> QED BY <3>2, <1>6
  <2> QED BY <2>2, <1>6 DEF SameOutside
<1>8. Tile(g, {p}, p, q) /\ GET_STATUS(g, p) = FREE /\ NEXT_BLKP(g, p) = q
  <2>1. FREE \in {ALLOC, FREE} OBVIOUS
  <2> QED BY <2>1, <1>2, <1>4, <1>6, TileOne
<1>9. \A x \in X : x < p \/ q <= x
  <2> SUFFICES ASSUME NEW x \in X PROVE x < p \/ q <= x
    OBVIOUS
  <2>1. x \in B /\ x \notin {p, bp, NEXT_BLKP(h, bp)} /\ x \in Nat
    BY <1>1, TiledFacts DEF X, FreeOf
  <2>2. ~ (p <= x /\ x < q) BY <2>1, <1>2
  <2> QED BY <2>1, <2>2, <1>2
<1>10. q \in B \cup {k.heap_end} BY <1>2, <1>3 DEF OnlyPointers, SameFrame
<1>11. /\ Good(g, C, X)
       /\ \A b \in B : b < p \/ q <= b => /\ GET(g, b) = GET(k, b)
                                          /\ GET_STATUS(g, b) = GET_STATUS(k, b)
                                          /\ NEXT_BLKP(g, b) = NEXT_BLKP(k, b)
  <2>1. PICK M : M = {p} OBVIOUS
  <2>2. Tile(g, M, p, q) /\ p < q BY <2>1, <1>2, <1>8
  <2>3. /\ Good(g, Rest(B, p, q) \cup M, X)
        /\ \A b \in B : b < p \/ q <= b => /\ GET(g, b) = GET(k, b)
                                           /\ GET_STATUS(g, b) = GET_STATUS(k, b)
                                           /\ NEXT_BLKP(g, b) = NEXT_BLKP(k, b)
    <3>1. Good(k, B, X) /\ p \in B BY <1>3, <1>4
    <3>2. Good(g, Rest(B, p, q) \cup M, X) /\ SameBlocks(k, g, Rest(B, p, q))
      BY <2>2, <3>1, <1>7, <1>9, <1>10, Repartition
    <3> QED BY <3>2 DEF SameBlocks, Rest
  <2> QED BY <2>1, <2>3
<1>12. \A b \in B : b < p \/ q <= b \/ b \in FreeOf(h, B)
  <2> SUFFICES ASSUME NEW b \in B PROVE b < p \/ q <= b \/ b \in FreeOf(h, B)
    OBVIOUS
  <2>1. b \in Nat BY <1>1, TiledFacts
  <2> QED BY <2>1, <1>2
<1>13. FreeOf(g, C) \ {p} = X
  <2>1. ASSUME NEW b \in FreeOf(g, C), b # p PROVE b \in X
    <3>1. b \in B /\ (b < p \/ q <= b) /\ GET_STATUS(g, b) = FREE BY <2>1 DEF FreeOf, Rest
    <3>2. GET_STATUS(k, b) = FREE BY <3>1, <1>11
    <3>3. b \in FreeOf(h, B) BY <3>1, <3>2, <1>5 DEF FreeOf
    <3>4. (b # bp /\ b # NEXT_BLKP(h, bp)) \/ b = NEXT_BLKP(h, bp)
      <4>1. p <= bp /\ bp < q /\ bp \in Nat BY <1>1, Merging, TiledFacts
      <4> QED BY <4>1, <3>1, <1>2
    <3>5. b # NEXT_BLKP(h, bp)
      <4> SUFFICES ASSUME b = NEXT_BLKP(h, bp) PROVE FALSE
        OBVIOUS
      <4>1. q = NEXT_BLKP(h, b) BY <3>3 DEF MergedEnd, FreeOf
      <4>2. b \in Nat /\ b + 32 <= q /\ p <= bp /\ bp + 32 <= b /\ bp \in Nat
        <5>1. b + 32 <= q /\ b \in Nat
          BY <3>1, <4>1, <1>1, TileFacts DEF Tiled
        <5>2. bp + 32 <= b /\ bp \in Nat BY <1>1, TileFacts DEF Tiled
        <5> QED BY <5>1, <5>2, <1>1, Merging
      <4> QED BY <4>2, <3>1, <1>2
    <3> QED BY <2>1, <3>3, <3>4, <3>5 DEF X
  <2>2. ASSUME NEW b \in X PROVE b \in FreeOf(g, C) /\ b # p
    <3>1. b \in FreeOf(h, B) /\ b # p /\ (b < p \/ q <= b) BY <1>9 DEF X
    <3>2. b \in B /\ GET_STATUS(k, b) = FREE BY <3>1, <1>5 DEF FreeOf
    <3> QED BY <3>1, <3>2, <1>11 DEF FreeOf, Rest
  <2> QED BY <2>1, <2>2
<1>14. p \in FreeOf(g, C) BY <1>8 DEF FreeOf
<1>15. AllocOf(g, C) = AllocOf(h, B)
  <2>1. ASSUME NEW b \in AllocOf(g, C) PROVE b \in AllocOf(h, B)
    <3>1. b \in C /\ GET_STATUS(g, b) = ALLOC BY DEF AllocOf
    <3>2. b # p BY <3>1, <1>8 DEF ALLOC, FREE
    <3>3. b \in B /\ (b < p \/ q <= b) BY <3>1, <3>2 DEF Rest
    <3>4. b \in AllocOf(k, B) BY <3>1, <3>3, <1>11 DEF AllocOf
    <3> QED BY <3>4, <1>5
  <2>2. ASSUME NEW b \in AllocOf(h, B) PROVE b \in AllocOf(g, C)
    <3>1. b \in B /\ b \notin FreeOf(h, B) BY DEF AllocOf, FreeOf, ALLOC, FREE
    <3>2. b < p \/ q <= b BY <3>1, <1>12
    <3>3. b \in AllocOf(k, B) BY <1>5
    <3> QED BY <3>1, <3>2, <3>3, <1>11 DEF AllocOf, Rest
  <2> QED BY <2>1, <2>2
<1>16. SameFrame(h, g) BY <1>3, <1>6 DEF OnlyPointers, SameFrame
<1>17. Kept(h, k, AllocOf(h, B)) /\ StaysFree(h, k)
  BY <1>1, <1>3, PointersInFree
<1>18. Kept(k, g, AllocOf(h, B))
  <2> SUFFICES ASSUME NEW b \in AllocOf(h, B), NEW a \in Address, b <= a,
                      a < NEXT_BLKP(k, b)
               PROVE  GET(g, a) = GET(k, a)
    BY DEF Kept
  <2>1. b \in B /\ b \notin FreeOf(h, B) BY DEF AllocOf, FreeOf, ALLOC, FREE
  <2>2. NEXT_BLKP(k, b) = NEXT_BLKP(h, b) BY <2>1, <1>5
  <2>3. a \in Nat BY HeapStart DEF Address
  <2>4. CASE b < p
    <3>1. b \in Nat /\ NEXT_BLKP(h, b) \in Nat /\ NEXT_BLKP(h, b) <= p
      BY <2>1, <2>4, <1>1, <1>4, Apart
    <3> QED BY <3>1, <2>2, <2>3, <1>2, <1>7 DEF SameOutside
  <2>5. CASE q <= b
    <3>1. b \in Nat BY <2>1, <1>1, TiledFacts
    <3>2. q <= a BY <3>1, <2>3, <2>5, <1>2
    <3> QED BY <3>2, <1>7 DEF SameOutside
  <2> QED BY <2>1, <2>4, <2>5, <1>12
<1>19. Kept(h, g, AllocOf(h, B))
  <2>1. AllocOf(h, B) \subseteq B BY DEF AllocOf
  <2> QED BY <2>1, <1>1, <1>17, <1>18, KeptTwice
<1>20. StaysFree(h, g)
  <2> SUFFICES ASSUME NEW a \in Grid, GET_STATUS(h, a) = FREE
               PROVE  GET_STATUS(g, a) = FREE
    BY DEF StaysFree
  <2>1. CASE a = p BY <2>1, <1>8
  <2>2. CASE a # p
    <3>1. a # q - 8 /\ a \in Address BY <1>4, GridApart, GridWords
    <3>2. GET(g, a) = GET(k, a) BY <3>1, <2>2, <1>6
    <3> QED BY <3>2, <1>5, SameTag
  <2> QED BY <2>1, <2>2
<1> HIDE DEF C
<1> QED BY <1>8, <1>11, <1>13, <1>14, <1>15, <1>16, <1>19, <1>20

\* A free block at the end of the heap is cut short.
LEMMA Trimmed ==
  ASSUME NEW h, NEW B, NEW p \in FreeOf(h, B), Good(h, B, FreeOf(h, B) \ {p}),
         NEW q, q = NEXT_BLKP(h, p), NEW g, g = Trim(h, p, q - p)
  PROVE  /\ Good(g, B, FreeOf(g, B) \ {p}) /\ p \in FreeOf(g, B)
         /\ AllocOf(g, B) = AllocOf(h, B) /\ g.policy = h.policy
         /\ Kept(h, g, AllocOf(h, B)) /\ StaysFree(h, g)
<1> DEFINE X == FreeOf(h, B) \ {p}
<1>1. Tiled(h, B) /\ Tile(h, B, heap_start, h.heap_end) /\ p \in B /\ Listed(h, X)
      /\ IsHeap(h)
  BY DEF Good, FreeOf, Tiled
<1>2. CASE ~ Shrinks(h, p, q - p)
  <2>1. g = h BY <1>2 DEF Trim
  <2>2. Kept(h, g, AllocOf(h, B)) /\ StaysFree(h, g) BY <2>1 DEF Kept, StaysFree
  <2> QED BY <2>1, <2>2
<1>3. CASE Shrinks(h, p, q - p)
  <2> DEFINE e == h.heap_end - SHRINKTHLD
  <2>1. /\ p \in Grid /\ p \in Nat /\ heap_start <= p /\ q \in Nat /\ p + 32 <= q
        /\ q <= h.heap_end /\ h.heap_end \in Nat /\ h.heap_end \in Grid
        /\ q \in B \cup {h.heap_end} /\ heap_start \in Nat
    <3>1. q \in B \cup {h.heap_end} BY <1>1 DEF Tile
    <3>2. /\ p \in Grid /\ p \in Nat /\ q \in Nat /\ p + 32 <= q /\ q <= h.heap_end
          /\ heap_start <= p
      BY <1>1, TileFacts
    <3> QED BY <3>1, <3>2, <1>1, TiledFacts
  <2>2. q = h.heap_end
    <3>1. q \in Grid BY <1>1, TileFacts
    <3>2. Signed(q - p) = q - p BY <3>1, <2>1, SignedGap
    <3> QED BY <3>2, <1>3, <2>1 DEF Shrinks
  <2>3. SHRINKTHLD \in Nat /\ SHRINKTHLD % 32 = 0 /\ SHRINKTHLD > 0
    BY MemMgrAssumption DEF BS
  <2>4. p + 32 <= e /\ e \in Nat /\ e < h.heap_end
    <3>1. q - p >= 32 + SHRINKTHLD BY <1>3 DEF Shrinks, BS
    <3> QED BY <3>1, <2>1, <2>2, <2>3
  <2>5. e \in Grid
    <3>1. p <= h.heap_end - SHRINKTHLD BY <2>1, <2>4
    <3> QED BY <3>1, <2>1, <2>3, GridSub
  <2>6. ds_sbrk(h.ds_heap_brk, -SHRINKTHLD) = e + 32
    <3>1. SbrkFits(h.ds_heap_brk, -SHRINKTHLD) BY <1>3 DEF Shrinks
    <3>2. h.ds_heap_brk = h.heap_end + 32 BY <1>1 DEF Tiled
    <3>3. ds_sbrk(h.ds_heap_brk, -SHRINKTHLD) = h.ds_heap_brk + (-SHRINKTHLD)
      BY <3>1 DEF ds_sbrk
    <3>4. (h.heap_end + 32) + (-SHRINKTHLD) = (h.heap_end - SHRINKTHLD) + 32 BY <2>1, <2>3
    <3> QED BY <3>2, <3>3, <3>4
  <2>7. g = LastBlock(h, p, e + 32) BY <1>3, <2>6 DEF Trim
  <2> HIDE DEF e
  <2> DEFINE N == {b \in B : b < p}
  <2>8. Tile(h, N, heap_start, p) BY <1>1, TileCut
  <2>9. N \cup {p} = B
    <3>1. ASSUME NEW b \in B PROVE b < p \/ b = p
      <4>1. b \in Nat /\ b < h.heap_end BY <1>1, TiledFacts
      <4>2. p < b => q <= b BY <1>1, Apart
      <4> QED BY <4>1, <4>2, <2>1, <2>2
    <3> QED BY <3>1, <1>1
  <2>10. N \subseteq B /\ \A b \in N : b < p OBVIOUS
  <2> HIDE DEF N
  <2>11. p < e BY <2>1, <2>4
  <2>12. /\ Tiled(g, N \cup {p}) /\ GET_STATUS(g, p) = FREE
         /\ SameBlocks(h, g, N)
    <3>1. h.policy \in {"fp_Implicit", "fp_Explicit"} /\ GET(h, heap_start - 8) = 1
      BY <1>1 DEF Tiled
    <3> QED BY <3>1, <2>1, <2>5, <2>7, <2>8, <2>11, <1>1, LastBlockTiles
  <2>13. /\ g.policy = h.policy /\ g.heap_end = e
         /\ \A a \in Address : a # p /\ a # e - 8 /\ a # e => GET(g, a) = GET(h, a)
    BY <2>1, <2>5, <2>7, <2>11, <1>1, LastBlockEffect
  <2>14. FreeOf(g, B) = FreeOf(h, B) /\ AllocOf(g, B) = AllocOf(h, B)
    <3>1. \A b \in B : GET_STATUS(g, b) = GET_STATUS(h, b)
      <4> SUFFICES ASSUME NEW b \in B PROVE GET_STATUS(g, b) = GET_STATUS(h, b)
        OBVIOUS
      <4>1. b \in N \/ b = p BY <2>9
      <4> QED BY <4>1, <2>12 DEF FreeOf, SameBlocks
    <3> QED BY <3>1 DEF FreeOf, AllocOf
  <2>15. \A a \in Address : a < p => GET(g, a) = GET(h, a)
    <3> SUFFICES ASSUME NEW a \in Address, a < p PROVE GET(g, a) = GET(h, a)
      OBVIOUS
    <3>1. a \in Nat BY HeapStart DEF Address
    <3>2. a # p /\ a # e - 8 /\ a # e BY <3>1, <2>1, <2>4
    <3> QED BY <3>2, <2>13
  <2>16. Listed(g, X)
    <3>1. ASSUME NEW x \in X \cup {first, last}
          PROVE GET(g, x + 8) = GET(h, x + 8) /\ GET(g, x + 16) = GET(h, x + 16)
      <4>1. x \in Grid
        <5>1. CASE x \in X BY <5>1, <1>1, TiledFacts DEF FreeOf
        <5>2. CASE x \in {first, last} BY <5>2, HeapStart
        <5> QED BY <5>1, <5>2
      <4>2. /\ x + 8 # p /\ x + 8 # e - 8 /\ x + 8 # e
            /\ x + 16 # p /\ x + 16 # e - 8 /\ x + 16 # e
            /\ x + 8 \in Address /\ x + 16 \in Address
        BY <4>1, <2>1, <2>5, GridApart, GridWords
      <4> QED BY <4>2, <2>13
    <3>2. GET(g, last) = GET(h, last)
      <4>1. last \in Grid /\ last \in Nat /\ last < heap_start BY HeapStart
      <4>2. last \in Address /\ last < p BY <4>1, <2>1, GridWords
      <4> QED BY <4>2, <2>15
    <3> QED BY <3>1, <3>2, <2>13, <1>1, ListFrame
  <2>17. Good(g, B, FreeOf(g, B) \ {p}) /\ p \in FreeOf(g, B)
    BY <2>9, <2>12, <2>14, <2>16 DEF Good
  <2>18. Kept(h, g, AllocOf(h, B))
    <3> SUFFICES ASSUME NEW b \in AllocOf(h, B), NEW a \in Address, b <= a,
                        a < NEXT_BLKP(h, b)
                 PROVE  GET(g, a) = GET(h, a)
      BY DEF Kept
    <3>1. b \in B /\ b # p BY DEF AllocOf, FreeOf, ALLOC, FREE
    <3>2. b < p BY <3>1, <2>9, <2>10
    <3>3. NEXT_BLKP(h, b) \in Nat /\ NEXT_BLKP(h, b) <= p BY <3>1, <3>2, <1>1, Apart
    <3>4. a \in Nat BY HeapStart DEF Address
    <3>5. a < p BY <3>3, <3>4, <2>1
    <3> QED BY <3>5, <2>15
  <2>19. StaysFree(h, g)
    <3> SUFFICES ASSUME NEW a \in Grid, GET_STATUS(h, a) = FREE
                 PROVE  GET_STATUS(g, a) = FREE \/ a = g.heap_end
      BY DEF StaysFree
    <3>1. CASE a = p BY <3>1, <2>12
    <3>2. CASE a = e BY <3>2, <2>13
    <3>3. CASE a # p /\ a # e
      <4>1. a \in Address /\ a # e - 8 BY <2>5, GridApart, GridWords
      <4>2. GET(g, a) = GET(h, a) BY <4>1, <3>3, <2>13
      <4> QED BY <4>2, SameTag
    <3> QED BY <3>1, <3>2, <3>3
  <2> QED BY <2>13, <2>14, <2>17, <2>18, <2>19
<1> QED BY <1>2, <1>3

\* Link puts the last free block into the list.
LEMMA Linked ==
  ASSUME NEW h, NEW B, NEW p \in FreeOf(h, B), Good(h, B, FreeOf(h, B) \ {p}),
         NEW g, g = Link(h, p)
  PROVE  /\ Good(g, B, FreeOf(g, B)) /\ FreeOf(g, B) = FreeOf(h, B)
         /\ AllocOf(g, B) = AllocOf(h, B) /\ SameFrame(h, g)
         /\ \A b \in B : NEXT_BLKP(g, b) = NEXT_BLKP(h, b)
         /\ \A a \in Grid : GET_STATUS(g, a) = GET_STATUS(h, a)
         /\ Kept(h, g, AllocOf(h, B)) /\ StaysFree(h, g)
         /\ OnlyPointers(h, g, FreeOf(h, B))
<1> DEFINE F == FreeOf(h, B)
<1>1. Tiled(h, B) /\ Listed(h, F \ {p}) /\ IsHeap(h) /\ p \in B BY DEF Good, Tiled, FreeOf
<1>2. F \subseteq Grid /\ p \in Grid /\ last < p /\ Listable(F \ {p})
  BY <1>1, TiledFacts DEF FreeOf, Listable
<1>3. p \in F /\ p \notin F \ {p} /\ (F \ {p}) \cup {p} = F OBVIOUS
<1> HIDE DEF F
<1>4. Listed(g, (F \ {p}) \cup {p}) /\ OnlyPointers(h, g, (F \ {p}) \cup {p})
  BY <1>1, <1>2, <1>3, LinkEffect
<1>5. Listed(g, F) /\ OnlyPointers(h, g, F) BY <1>3, <1>4
<1>6. /\ Tiled(g, B) /\ FreeOf(g, B) = FreeOf(h, B) /\ AllocOf(g, B) = AllocOf(h, B)
      /\ \A b \in B : NEXT_BLKP(g, b) = NEXT_BLKP(h, b)
      /\ \A a \in Grid : GET_STATUS(g, a) = GET_STATUS(h, a)
  <2>1. F \subseteq Grid /\ Tiled(h, B) BY <1>1, <1>2
  <2>2. Tiled(g, B) BY <2>1, <1>5, PointersKeep
  <2>3. FreeOf(g, B) = FreeOf(h, B) BY <2>1, <1>5, PointersKeep
  <2>4. AllocOf(g, B) = AllocOf(h, B) BY <2>1, <1>5, PointersKeep
  <2>5. \A b \in B : NEXT_BLKP(g, b) = NEXT_BLKP(h, b) BY <2>1, <1>5, PointersKeep
  <2>6. \A a \in Grid : GET_STATUS(g, a) = GET_STATUS(h, a) BY <2>1, <1>5, PointersKeep
  <2> QED BY <2>1, <2>2, <2>3, <2>4, <2>5, <2>6
<1>7. Kept(h, g, AllocOf(h, B)) /\ StaysFree(h, g)
  <2>1. F \subseteq FreeOf(h, B) BY DEF F
  <2> QED BY <2>1, <1>1, <1>5, PointersInFree
<1>8. Good(g, B, FreeOf(g, B)) BY <1>5, <1>6 DEF Good, F
<1> QED BY <1>5, <1>6, <1>7, <1>8 DEF OnlyPointers, F

\* r has a heap whose allocated blocks are still those of h, A, whose free blocks
\* are all in the list, and a pointer to one of these.
Coalesced(h, A, r, C) ==
  /\ Good(r.heap, C, FreeOf(r.heap, C)) /\ r.ptr \in FreeOf(r.heap, C)
  /\ AllocOf(r.heap, C) = A /\ r.heap.policy = h.policy
  /\ Kept(h, r.heap, A) /\ StaysFree(h, r.heap)

\* What coalesce does to a heap all of whose free blocks but bp are in the list.
LEMMA CoalesceEffect ==
  ASSUME NEW h, NEW B, NEW bp \in FreeOf(h, B), Good(h, B, FreeOf(h, B) \ {bp}),
         NEW shrink \in BOOLEAN, NEW r, r = coalesce(h, bp, shrink)
  PROVE  \E C : /\ Coalesced(h, AllocOf(h, B), r, C)
                /\ ~ shrink => /\ SameFrame(h, r.heap) /\ r.ptr <= bp
                               /\ NEXT_BLKP(h, bp) <= NEXT_BLKP(r.heap, r.ptr)
<1>1. PICK p : p = MergedStart(h, bp) OBVIOUS
<1>2. PICK q : q = MergedEnd(h, bp) OBVIOUS
<1>3. PICK k : k = PutTags(UnlinkNext(UnlinkPrev(h, bp), bp), p, q - p, FREE) OBVIOUS
<1>4. PICK m : m = IF shrink THEN Trim(k, p, q - p) ELSE k OBVIOUS
<1>5. PICK g : g = Link(m, p) OBVIOUS
<1>6. r = [heap |-> g, ptr |-> p]
  <2>1. (q - p) % SIZE_MOD = q - p
    <3>1. Tile(h, B, heap_start, h.heap_end) BY DEF Good, Tiled
    <3>2. p \in Grid /\ q \in Grid /\ p <= q
      <4>1. /\ p \in B /\ q \in B \cup {h.heap_end} /\ p <= bp /\ bp < q
            /\ p \in Nat /\ q \in Nat
        BY <1>1, <1>2, Merging DEF Good, FreeOf
      <4>2. bp \in Nat BY <3>1, TileFacts DEF FreeOf
      <4> QED BY <4>1, <4>2, <3>1 DEF Tile
    <3> QED BY <3>2, SignedGap
  <2>2. GET_STATUS(h, bp) # ALLOC BY DEF FreeOf, FREE, ALLOC
  <2> QED BY <2>1, <2>2, <1>1, <1>2, <1>3, <1>4, <1>5 DEF coalesce
<1>7. r.heap = g /\ r.ptr = p BY <1>6
<1>8. PICK C : /\ Good(k, C, FreeOf(k, C) \ {p}) /\ p \in FreeOf(k, C)
               /\ AllocOf(k, C) = AllocOf(h, B) /\ SameFrame(h, k)
               /\ NEXT_BLKP(k, p) = q
               /\ Kept(h, k, AllocOf(h, B)) /\ StaysFree(h, k)
  BY <1>1, <1>2, <1>3, Merged
<1>9. /\ Good(m, C, FreeOf(m, C) \ {p}) /\ p \in FreeOf(m, C)
      /\ AllocOf(m, C) = AllocOf(h, B) /\ m.policy = h.policy
      /\ Kept(k, m, AllocOf(h, B)) /\ StaysFree(k, m)
  <2>1. CASE shrink
    <3>1. m = Trim(k, p, q - p) BY <2>1, <1>4
    <3>2. /\ Good(m, C, FreeOf(m, C) \ {p}) /\ p \in FreeOf(m, C)
          /\ AllocOf(m, C) = AllocOf(k, C) /\ m.policy = k.policy
          /\ Kept(k, m, AllocOf(k, C)) /\ StaysFree(k, m)
      BY <3>1, <1>8, Trimmed
    <3> QED BY <3>2, <1>8 DEF SameFrame
  <2>2. CASE ~ shrink
    <3>1. m = k BY <2>2, <1>4
    <3>2. Kept(k, m, AllocOf(h, B)) /\ StaysFree(k, m) BY <3>1 DEF Kept, StaysFree
    <3> QED BY <3>1, <3>2, <1>8 DEF SameFrame
  <2> QED BY <2>1, <2>2
<1>10. /\ Good(g, C, FreeOf(g, C)) /\ FreeOf(g, C) = FreeOf(m, C)
       /\ AllocOf(g, C) = AllocOf(m, C) /\ SameFrame(m, g)
       /\ \A b \in C : NEXT_BLKP(g, b) = NEXT_BLKP(m, b)
       /\ \A a \in Grid : GET_STATUS(g, a) = GET_STATUS(m, a)
       /\ Kept(m, g, AllocOf(m, C))
  BY <1>5, <1>9, Linked
<1>11. Tiled(h, B) /\ Tiled(k, C) /\ AllocOf(h, B) \subseteq B /\ AllocOf(h, B) \subseteq C
  BY <1>8 DEF Good, AllocOf
<1>12. Kept(h, g, AllocOf(h, B))
  <2>1. Kept(k, g, AllocOf(h, B)) BY <1>9, <1>10, <1>11, KeptTwice
  <2> QED BY <2>1, <1>8, <1>11, KeptTwice
<1>13. StaysFree(h, g)
  <2> SUFFICES ASSUME NEW a \in Grid, GET_STATUS(h, a) = FREE
               PROVE  GET_STATUS(g, a) = FREE \/ a = g.heap_end
    BY DEF StaysFree
  <2>1. g.heap_end = m.heap_end /\ k.heap_end = h.heap_end BY <1>8, <1>10 DEF SameFrame
  <2>2. GET_STATUS(k, a) = FREE \/ a = k.heap_end BY <1>8 DEF StaysFree
  <2>3. CASE GET_STATUS(k, a) = FREE
    <3>1. GET_STATUS(m, a) = FREE \/ a = m.heap_end BY <2>3, <1>9 DEF StaysFree
    <3> QED BY <3>1, <2>1, <1>10
  <2>4. CASE a = k.heap_end
    <3>1. GET(h, h.heap_end) = 1 BY <1>11 DEF Tiled
    <3>2. GET_STATUS(h, h.heap_end) = 1 BY <3>1 DEF GET_STATUS
    <3> QED BY <3>2, <2>1, <2>4 DEF FREE
  <2> QED BY <2>2, <2>3, <2>4
<1>14. ASSUME ~ shrink
       PROVE  /\ SameFrame(h, g) /\ p <= bp
              /\ NEXT_BLKP(h, bp) <= NEXT_BLKP(g, p)
  <2>1. m = k BY <1>4, <1>14
  <2>2. SameFrame(h, g) BY <2>1, <1>8, <1>10 DEF SameFrame
  <2>3. p \in C BY <1>8 DEF FreeOf
  <2>4. NEXT_BLKP(g, p) = q BY <2>1, <2>3, <1>8, <1>10
  <2>5. p <= bp /\ NEXT_BLKP(h, bp) <= q BY <1>1, <1>2, <1>11, Merging
  <2> QED BY <2>2, <2>4, <2>5
<1>15. p \in FreeOf(g, C) /\ AllocOf(g, C) = AllocOf(h, B) /\ g.policy = h.policy
  BY <1>9, <1>10 DEF SameFrame
<1>16. Coalesced(h, AllocOf(h, B), r, C)
  BY <1>7, <1>10, <1>12, <1>13, <1>15 DEF Coalesced
<1> QED BY <1>7, <1>14, <1>16

------------------------------------------------------------------------------
(* Growing and splitting *)

\* What extend_heap does to a heap all of whose free blocks are in the list.  A
\* size that becomes a decrement takes the break out of the segment, unless it
\* is one of the largest.
LEMMA ExtendEffect ==
  ASSUME NEW h, NEW B, Good(h, B, FreeOf(h, B)), NEW size \in Nat, size % 32 = 0, size > 0,
         size + MaxHeapSize < SIZE_MOD, NEW r, r = extend_heap(h, size)
  PROVE  \/ r = Fails(h)
         \/ /\ r.heap.policy = h.policy
            /\ \E C : /\ Good(r.heap, C, FreeOf(r.heap, C)) /\ r.ptr \in FreeOf(r.heap, C)
                      /\ AllocOf(r.heap, C) = AllocOf(h, B)
            /\ GET_SIZE(r.heap, r.ptr) >= size
            /\ Kept(h, r.heap, AllocOf(h, B))
            /\ \A a \in Grid : GET_STATUS(h, a) = FREE \/ a = h.heap_end =>
                 GET_STATUS(r.heap, a) = FREE \/ a = r.heap.heap_end
<1>1. CASE ~ SbrkFits(h.ds_heap_brk, Signed(size)) BY <1>1 DEF extend_heap
<1>2. CASE SbrkFits(h.ds_heap_brk, Signed(size))
  <2> DEFINE e == h.heap_end + size
  <2>1. PICK p : p = h.heap_end OBVIOUS
  <2>2. PICK F : F = FreeOf(h, B) OBVIOUS
  <2>3. PICK A : A = AllocOf(h, B) OBVIOUS
  <2>4. /\ Tiled(h, B) /\ Listed(h, F) /\ IsHeap(h) /\ Tile(h, B, heap_start, p)
        /\ F \subseteq B /\ A \subseteq B /\ h.ds_heap_brk = p + 32
    BY <2>1, <2>2, <2>3 DEF Good, Tiled, FreeOf, AllocOf
  <2>5. /\ p \in Grid /\ p \in Nat /\ heap_start \in Nat /\ heap_start < p
        /\ \A b \in B : b \in Grid /\ b \in Nat /\ b < p
    BY <2>1, <2>4, TiledFacts DEF Tiled
  <2>6. e = p + size /\ p < e /\ e \in Nat /\ e >= p + 32 BY <2>1, <2>5
  <2>0. Signed(size) = size
    <3>1. p + 32 < ds_heap_end BY <2>5 DEF Grid, BS
    <3>2. SIZE_MOD \in Nat BY MemMgrAssumption
    <3>3. ~ (ds_heap_start <= (p + 32) + (size - SIZE_MOD))
      BY <3>1, <3>2, <2>5, HeapStart
    <3> QED BY <3>3, <1>2, <2>4 DEF SbrkFits, Signed
  <2>7. e \in Grid
    <3>1. p + 32 + size < ds_heap_end BY <1>2, <2>4, <2>0 DEF SbrkFits
    <3>2. e + 32 < ds_heap_end BY <3>1, <2>5, <2>6, HeapStart
    <3>3. p % 32 = 0 /\ 32 <= p BY <2>5 DEF Grid, BS, first
    <3>4. e % 32 = 0 BY <3>3, <2>5, <2>6
    <3>5. 32 <= e BY <3>3, <2>5, <2>6
    <3> QED BY <3>2, <3>4, <3>5, <2>6 DEF Grid, BS, first
  <2>8. ds_sbrk(h.ds_heap_brk, Signed(size)) = e + 32
    <3>1. (p + 32) + size = (p + size) + 32 BY <2>5
    <3> QED BY <3>1, <1>2, <2>4, <2>6, <2>0 DEF ds_sbrk
  <2>9. PICK k : k = LastBlock(h, p, e + 32) OBVIOUS
  <2>10. r = coalesce(k, p, FALSE) BY <1>2, <2>1, <2>8, <2>9 DEF extend_heap
  <2> HIDE DEF e
  <2>11. /\ Tiled(k, B \cup {p}) /\ GET_STATUS(k, p) = FREE /\ NEXT_BLKP(k, p) = e
         /\ SameBlocks(h, k, B)
    <3>1. h.policy \in {"fp_Implicit", "fp_Explicit"} /\ GET(h, heap_start - 8) = 1
      BY <2>4 DEF Tiled
    <3>2. IsHeap(h) /\ Tile(h, B, heap_start, p) /\ p \in Grid /\ p < e BY <2>4, <2>5, <2>6
    <3> QED BY <3>1, <3>2, <2>7, <2>9, LastBlockTiles
  <2>12. /\ k.policy = h.policy /\ k.heap_end = e
         /\ \A a \in Address : a # p /\ a # e - 8 /\ a # e => GET(k, a) = GET(h, a)
    BY <2>4, <2>5, <2>6, <2>7, <2>9, LastBlockEffect
  <2>13. p \notin B BY <2>5
  <2>14. FreeOf(k, B \cup {p}) = F \cup {p} /\ AllocOf(k, B \cup {p}) = A
    BY <2>2, <2>3, <2>11 DEF FreeOf, AllocOf, SameBlocks, ALLOC, FREE
  <2>15. Listed(k, F)
    <3>1. ASSUME NEW x \in F \cup {first, last}
          PROVE GET(k, x + 8) = GET(h, x + 8) /\ GET(k, x + 16) = GET(h, x + 16)
      <4>1. x \in Grid
        <5>1. CASE x \in F BY <5>1, <2>4, <2>5
        <5>2. CASE x \in {first, last} BY <5>2, HeapStart
        <5> QED BY <5>1, <5>2
      <4>2. /\ x + 8 # p /\ x + 8 # e - 8 /\ x + 8 # e
            /\ x + 16 # p /\ x + 16 # e - 8 /\ x + 16 # e
            /\ x + 8 \in Address /\ x + 16 \in Address
        BY <4>1, <2>5, <2>7, GridApart, GridWords
      <4> QED BY <4>2, <2>12
    <3>2. GET(k, last) = GET(h, last)
      <4>1. last \in Grid /\ last \in Nat /\ last < heap_start BY HeapStart
      <4>2. last \in Address /\ last < p /\ last # e - 8 /\ last # e
        BY <4>1, <2>5, <2>6, GridWords
      <4> QED BY <4>1, <4>2, <2>5, <2>12
    <3> QED BY <3>1, <3>2, <2>4, <2>12, ListFrame
  <2>16. PICK D : D = B \cup {p} OBVIOUS
  <2>17. Good(k, D, FreeOf(k, D) \ {p}) /\ p \in FreeOf(k, D) /\ AllocOf(k, D) = A
    <3>1. FreeOf(k, D) \ {p} = F /\ p \in FreeOf(k, D) BY <2>4, <2>13, <2>14, <2>16
    <3>2. F \subseteq FreeOf(k, D) BY <2>14, <2>16
    <3> QED BY <3>1, <3>2, <2>11, <2>14, <2>15, <2>16 DEF Good
  <2>18. PICK C : /\ Good(r.heap, C, FreeOf(r.heap, C)) /\ r.ptr \in FreeOf(r.heap, C)
                  /\ AllocOf(r.heap, C) = AllocOf(k, D) /\ r.heap.policy = k.policy
                  /\ Kept(k, r.heap, AllocOf(k, D)) /\ StaysFree(k, r.heap)
                  /\ SameFrame(k, r.heap) /\ r.ptr <= p
                  /\ NEXT_BLKP(k, p) <= NEXT_BLKP(r.heap, r.ptr)
    <3>1. PICK C : /\ Coalesced(k, AllocOf(k, D), r, C)
                   /\ SameFrame(k, r.heap) /\ r.ptr <= p
                   /\ NEXT_BLKP(k, p) <= NEXT_BLKP(r.heap, r.ptr)
      <4>1. PICK shrink \in BOOLEAN : shrink = FALSE OBVIOUS
      <4>2. r = coalesce(k, p, shrink) BY <2>10, <4>1
      <4>3. \E C : /\ Coalesced(k, AllocOf(k, D), r, C)
                   /\ ~ shrink => /\ SameFrame(k, r.heap) /\ r.ptr <= p
                                  /\ NEXT_BLKP(k, p) <= NEXT_BLKP(r.heap, r.ptr)
        BY <4>2, <2>17, CoalesceEffect
      <4> QED BY <4>1, <4>3
    <3> QED BY <3>1 DEF Coalesced
  <2>19. Kept(h, k, A)
    <3> SUFFICES ASSUME NEW b \in A, NEW a \in Address, b <= a, a < NEXT_BLKP(h, b)
                 PROVE  GET(k, a) = GET(h, a)
      BY DEF Kept
    <3>1. NEXT_BLKP(h, b) \in Nat /\ NEXT_BLKP(h, b) <= p
      BY <2>4, TileFacts
    <3>2. a \in Nat BY HeapStart DEF Address
    <3>3. a # p /\ a # e - 8 /\ a # e BY <3>1, <3>2, <2>5, <2>6
    <3> QED BY <3>3, <2>12
  <2>20. Kept(h, r.heap, A) BY <2>4, <2>17, <2>18, <2>19, KeptTwice
  <2>21. ASSUME NEW a \in Grid, GET_STATUS(h, a) = FREE \/ a = h.heap_end
         PROVE  GET_STATUS(r.heap, a) = FREE \/ a = r.heap.heap_end
    <3>1. CASE a = e BY <3>1, <2>12, <2>18 DEF SameFrame
    <3>2. CASE a = p
      <4>1. GET_STATUS(k, a) = FREE BY <3>2, <2>11
      <4> QED BY <4>1, <2>18 DEF StaysFree
    <3>3. CASE a # e /\ a # p
      <4>1. a \in Address /\ a # e - 8 BY <2>7, GridApart, GridWords
      <4>2. GET(k, a) = GET(h, a) BY <4>1, <3>3, <2>12
      <4>3. GET_STATUS(k, a) = FREE BY <4>2, <3>3, <2>21, <2>1, SameTag
      <4> QED BY <4>3, <2>18 DEF StaysFree
    <3> QED BY <3>1, <3>2, <3>3
  <2>22. GET_SIZE(r.heap, r.ptr) >= size
    <3>1. Tiled(r.heap, C) /\ r.ptr \in C BY <2>18 DEF Good, FreeOf
    <3>2. /\ r.ptr \in Nat /\ NEXT_BLKP(r.heap, r.ptr) \in Nat
          /\ GET_SIZE(r.heap, r.ptr) = NEXT_BLKP(r.heap, r.ptr) - r.ptr
      BY <3>1, TileFacts DEF Tiled
    <3> QED BY <3>2, <2>5, <2>6, <2>11, <2>18
  <2>23. AllocOf(r.heap, C) = AllocOf(h, B) /\ r.heap.policy = h.policy
    BY <2>3, <2>12, <2>17, <2>18
  <2> QED BY <2>3, <2>18, <2>20, <2>21, <2>22, <2>23
<1> QED BY <1>1, <1>2

\* Blocks outside of the bytes that a routine rewrites are kept.
LEMMA OutsideKept ==
  ASSUME NEW h, NEW B, Tiled(h, B), NEW p \in B, NEW q \in B \cup {h.heap_end},
         NEW g, SameOutside(h, g, p, q), NEW A, A \subseteq Rest(B, p, q)
  PROVE  Kept(h, g, A)
<1> SUFFICES ASSUME NEW b \in A, NEW a \in Address, b <= a, a < NEXT_BLKP(h, b)
             PROVE  GET(g, a) = GET(h, a)
  BY DEF Kept
<1>1. b \in B /\ (b < p \/ q <= b) BY DEF Rest
<1>2. a \in Nat /\ b \in Nat /\ p \in Nat /\ q \in Nat
  <2>1. a \in Nat BY HeapStart DEF Address
  <2> QED BY <2>1, <1>1, TiledFacts
<1>3. CASE b < p
  <2>1. NEXT_BLKP(h, b) \in Nat /\ NEXT_BLKP(h, b) <= p BY <1>1, <1>3, Apart
  <2> QED BY <2>1, <1>2 DEF SameOutside
<1>4. CASE q <= b
  <2>1. q <= a BY <1>2, <1>4
  <2> QED BY <2>1 DEF SameOutside
<1> QED BY <1>1, <1>3, <1>4

\* Block bp of the given size is allocated besides the blocks A, which keep their
\* contents, as does the payload of bp.
Carved(h, A, bp, size, g, C) ==
  /\ Good(g, C, FreeOf(g, C)) /\ AllocOf(g, C) = A \cup {bp}
  /\ SameFrame(h, g) /\ GET_SIZE(g, bp) = size
  /\ Kept(h, g, A)
  /\ \A a \in Address : bp < a /\ a < bp + size - 8 => GET(g, a) = GET(h, a)
  /\ \A a \in Grid : a # bp /\ GET_STATUS(h, a) = FREE => GET_STATUS(g, a) = FREE

\* The bytes from bp to q become an allocated block and a free one, if there is
\* anything left for it.
LEMMA CarveEffect ==
  ASSUME NEW h, NEW B, NEW bp \in B, NEW q \in B \cup {h.heap_end}, bp < q,
         Good(h, B, FreeOf(h, B) \cap Rest(B, bp, q)),
         NEW size \in Nat, size % 32 = 0, size >= 32, bp + size <= q,
         NEW left, left = q - (bp + size),
         NEW g, g = Remainder(PutTags(h, bp, size, ALLOC), bp, left)
  PROVE  \E C : Carved(h, AllocOf(h, B) \cap Rest(B, bp, q), bp, size, g, C)
<1> DEFINE X == FreeOf(h, B) \cap Rest(B, bp, q)
           A == AllocOf(h, B) \cap Rest(B, bp, q)
           m == bp + size
           h1 == PutTags(h, bp, size, ALLOC)
<1>1. Tiled(h, B) /\ IsHeap(h) BY DEF Good, Tiled
<1>2. /\ bp \in Grid /\ bp \in Nat /\ q \in Grid /\ q \in Nat
      /\ m \in Grid /\ m \in Nat /\ bp + 32 <= m /\ m <= q /\ left \in Nat /\ q = m + left
  <2>1. bp \in Grid /\ q \in Grid BY <1>1, TiledFacts
  <2>2. bp \in Nat /\ q \in Nat BY <2>1, GridWords
  <2>3. m \in Grid BY <2>1, GridAdd
  <2> QED BY <2>1, <2>2, <2>3
<1>3. PICK k : k = h1 OBVIOUS
<1>4. /\ SameFrame(h, k) /\ GET(k, bp) = PACK(size, ALLOC)
      /\ GET(k, m - 8) = PACK(size, ALLOC) /\ GET_SIZE(k, bp) = size
      /\ \A a \in Address : a # bp /\ a # m - 8 => GET(k, a) = GET(h, a)
  <2>1. ALLOC \in {ALLOC, FREE} OBVIOUS
  <2> QED BY <2>1, <1>1, <1>2, <1>3, PutTagsEffect
<1>5. g = Remainder(k, bp, left) BY <1>3
<1>6. \A x \in X : x < bp \/ q <= x BY DEF Rest
<1>7. NEXT_BLKP(k, bp) = m
  <2>1. bp <= m /\ m - bp = size BY <1>2
  <2>2. Signed(size) = size BY <2>1, <1>2, SignedGap
  <2> QED BY <2>2, <1>4 DEF NEXT_BLKP
<1> HIDE DEF X, A, m, h1
<1>8. CASE left = 0
  <2>1. g = k /\ q = m BY <1>2, <1>5, <1>8 DEF Remainder
  <2>2. PICK M : M = {bp} OBVIOUS
  <2>3. Tile(g, M, bp, q) /\ GET_STATUS(g, bp) = ALLOC
    <3>1. q - bp = size BY <1>2, <2>1 DEF m
    <3>2. GET(g, bp) = PACK(q - bp, ALLOC) /\ GET(g, q - 8) = PACK(q - bp, ALLOC)
      BY <3>1, <2>1, <1>4
    <3>3. ALLOC \in {ALLOC, FREE} OBVIOUS
    <3> QED BY <3>2, <3>3, <1>2, <2>2, TileOne
  <2>4. SameOutside(h, g, bp, q)
    <3>1. ASSUME NEW a \in Address, a < bp \/ q <= a PROVE GET(g, a) = GET(h, a)
      <4>1. a \in Nat BY HeapStart DEF Address
      <4>2. a # bp /\ a # m - 8 BY <4>1, <3>1, <1>2, <2>1
      <4> QED BY <4>2, <2>1, <1>4
    <3> QED BY <3>1, <2>1, <1>4 DEF SameOutside
  <2> DEFINE C == Rest(B, bp, q) \cup M
  <2>5. Good(g, C, X) /\ SameBlocks(h, g, Rest(B, bp, q))
    <3>1. Good(h, B, X) BY DEF X
    <3> QED BY <3>1, <2>3, <2>4, <1>6, Repartition
  <2>6. FreeOf(g, C) = X /\ AllocOf(g, C) = A \cup {bp}
    BY <2>2, <2>3, <2>5 DEF X, A, FreeOf, AllocOf, SameBlocks, Rest, ALLOC, FREE
  <2>7. Kept(h, g, A)
    <3>1. A \subseteq Rest(B, bp, q) BY DEF A
    <3> QED BY <3>1, <2>4, <1>1, OutsideKept
  <2>8. ASSUME NEW a \in Address, bp < a, a < m - 8 PROVE GET(g, a) = GET(h, a)
    <3>1. a \in Nat BY HeapStart DEF Address
    <3>2. a # bp /\ a # m - 8 BY <3>1, <2>8, <1>2
    <3> QED BY <3>2, <2>1, <1>4
  <2>9. ASSUME NEW a \in Grid, a # bp, GET_STATUS(h, a) = FREE PROVE GET_STATUS(g, a) = FREE
    <3>1. a # m - 8 /\ a \in Address BY <1>2, GridApart, GridWords
    <3>2. GET(g, a) = GET(h, a) BY <3>1, <2>1, <2>9, <1>4
    <3> QED BY <3>2, <2>9, SameTag
  <2> HIDE DEF C
  <2>10. SameFrame(h, g) /\ GET_SIZE(g, bp) = size BY <2>1, <1>4
  <2>11. Good(g, C, FreeOf(g, C)) BY <2>5, <2>6
  <2>12. Carved(h, A, bp, size, g, C)
    <3>1. \A a \in Address : bp < a /\ a < bp + size - 8 => GET(g, a) = GET(h, a)
      <4>1. bp + size - 8 = m - 8 BY <1>2 DEF m
      <4> QED BY <4>1, <2>8
    <3> QED BY <3>1, <2>6, <2>7, <2>9, <2>10, <2>11 DEF Carved
  <2> QED BY <2>12 DEF A
<1>9. CASE left # 0
  <2>1. PICK l : l = PutTags(k, m, left, FREE) OBVIOUS
  <2>2. g = Link(l, m) BY <1>5, <1>7, <1>9, <2>1 DEF Remainder
  <2>3. m < q BY <1>2, <1>9
  <2>4. left % 32 = 0 /\ left >= 32 /\ left = q - m
    <3>1. q - m = left BY <1>2
    <3> QED BY <3>1, <1>2, <2>3, GridDiff
  <2>5. /\ SameFrame(k, l) /\ GET(l, m) = PACK(left, FREE) /\ GET(l, q - 8) = PACK(left, FREE)
        /\ \A a \in Address : a # m /\ a # q - 8 => GET(l, a) = GET(k, a)
    <3>1. IsHeap(k) /\ FREE \in {ALLOC, FREE} BY <1>4 DEF SameFrame
    <3>2. m + left \in Grid /\ m + left - 8 = q - 8 BY <1>2
    <3>3. /\ SameFrame(k, l) /\ GET(l, m) = PACK(left, FREE)
          /\ GET(l, m + left - 8) = PACK(left, FREE)
          /\ \A a \in Address : a # m /\ a # m + left - 8 => GET(l, a) = GET(k, a)
      <4>1. /\ IsHeap(k) /\ m \in Grid /\ left \in Nat /\ left % 32 = 0 /\ left >= 32
            /\ m + left \in Grid /\ FREE \in {ALLOC, FREE}
        BY <3>1, <3>2, <1>2, <2>4
      <4>2. /\ SameFrame(k, l) /\ GET(l, m) = PACK(left, FREE)
            /\ GET(l, m + left - 8) = PACK(left, FREE)
            /\ GET_SIZE(l, m) = left /\ GET_STATUS(l, m) = FREE
            /\ \A a \in Address : a # m /\ a # m + left - 8 => GET(l, a) = GET(k, a)
        BY ONLY <4>1, <2>1, PutTagsEffect
      <4> QED BY <4>2
    <3> QED BY <3>2, <3>3
  <2>6. SameFrame(h, l) BY <1>4, <2>5 DEF SameFrame
  <2>7. \A a \in Address : a # bp /\ a # m - 8 /\ a # m /\ a # q - 8 => GET(l, a) = GET(h, a)
    BY <1>4, <2>5
  <2>8. bp \in Address /\ m - 8 \in Address /\ m + 32 <= q
    <3>1. bp \in Address /\ 32 <= bp BY <1>2, GridWords
    <3>2. m > 32 BY <3>1, <1>2
    <3> QED BY <3>1, <3>2, <2>3, <1>2, GridWords, GridGap
  <2>9. Tile(l, {bp}, bp, m) /\ GET_STATUS(l, bp) = ALLOC /\ NEXT_BLKP(l, bp) = m
    <3>1. m - bp = size BY <1>2 DEF m
    <3>2. bp # m /\ bp # q - 8 /\ m - 8 # m /\ m - 8 # q - 8 BY <1>2, <2>8
    <3>3. GET(l, bp) = PACK(m - bp, ALLOC) /\ GET(l, m - 8) = PACK(m - bp, ALLOC)
      BY <3>1, <3>2, <2>5, <2>8, <1>4
    <3>4. ALLOC \in {ALLOC, FREE} /\ bp < m BY <1>2
    <3> QED BY <3>3, <3>4, <1>2, TileOne
  <2>10. Tile(l, {m}, m, q) /\ GET_STATUS(l, m) = FREE
    <3>1. FREE \in {ALLOC, FREE} OBVIOUS
    <3> QED BY <3>1, <2>3, <2>4, <2>5, <1>2, TileOne
  <2>11. PICK M : M = {bp} \cup {m} OBVIOUS
  <2>12. Tile(l, M, bp, q) BY <2>9, <2>10, <2>11, TileJoin
  <2>13. SameOutside(h, l, bp, q)
    <3>1. ASSUME NEW a \in Address, a < bp \/ q <= a PROVE GET(l, a) = GET(h, a)
      <4>1. a \in Nat BY HeapStart DEF Address
      <4>2. a # bp /\ a # m - 8 /\ a # m /\ a # q - 8 BY <4>1, <3>1, <1>2, <2>8
      <4> QED BY <4>2, <2>7
    <3> QED BY <3>1, <2>6 DEF SameOutside
  <2> DEFINE C == Rest(B, bp, q) \cup M
  <2>14. Good(l, C, X) /\ SameBlocks(h, l, Rest(B, bp, q))
    <3>1. Good(h, B, X) BY DEF X
    <3> QED BY <3>1, <2>12, <2>13, <1>6, Repartition
  <2>15. m \notin Rest(B, bp, q) /\ bp \notin Rest(B, bp, q) /\ m # bp
    BY <1>2, <2>3 DEF Rest
  <2>16. FreeOf(l, C) = X \cup {m} /\ AllocOf(l, C) = A \cup {bp}
    BY <2>9, <2>10, <2>11, <2>14 DEF X, A, FreeOf, AllocOf, SameBlocks, Rest, ALLOC, FREE
  <2>17. m \notin X BY <2>15 DEF X
  <2> HIDE DEF C
  <2>18. m \in FreeOf(l, C) /\ Good(l, C, FreeOf(l, C) \ {m})
    <3>1. FreeOf(l, C) \ {m} = X BY <2>16, <2>17
    <3> QED BY <3>1, <2>14, <2>16
  <2>19. /\ Good(g, C, FreeOf(g, C)) /\ AllocOf(g, C) = AllocOf(l, C) /\ SameFrame(l, g)
         /\ \A b \in C : NEXT_BLKP(g, b) = NEXT_BLKP(l, b)
         /\ \A a \in Grid : GET_STATUS(g, a) = GET_STATUS(l, a)
         /\ Kept(l, g, AllocOf(l, C))
         /\ OnlyPointers(l, g, FreeOf(l, C))
    BY <2>2, <2>18, Linked
  <2>20. Kept(h, l, A)
    <3>1. A \subseteq Rest(B, bp, q) BY DEF A
    <3> QED BY <3>1, <2>13, <1>1, OutsideKept
  <2>21. Kept(h, g, A)
    <3>1. Kept(l, g, A) BY <2>16, <2>19 DEF Kept
    <3>2. A \subseteq B BY DEF A, AllocOf
    <3> QED BY <3>1, <3>2, <2>20, <1>1, KeptTwice
  <2>22. bp \in C BY <2>11 DEF C
  <2>23. GET_SIZE(g, bp) = size
    <3>1. Tiled(g, C) BY <2>19 DEF Good
    <3>2. NEXT_BLKP(g, bp) = m BY <2>9, <2>19, <2>22
    <3>3. GET_SIZE(g, bp) = NEXT_BLKP(g, bp) - bp BY <3>1, <2>22, TileFacts DEF Tiled
    <3>4. m - bp = size BY <1>2 DEF m
    <3> QED BY <3>2, <3>3, <3>4
  <2>24. ASSUME NEW a \in Address, bp < a, a < m - 8 PROVE GET(g, a) = GET(h, a)
    <3>1. a \in Nat BY HeapStart DEF Address
    <3>2. a # bp /\ a # m - 8 /\ a # m /\ a # q - 8 BY <3>1, <2>24, <1>2, <2>8
    <3>3. GET(l, a) = GET(h, a) BY <3>2, <2>7
    <3>4. bp \in AllocOf(l, C) BY <2>16
    <3>5. bp <= a /\ a < NEXT_BLKP(l, bp) BY <3>1, <2>24, <1>2, <2>9
    <3>6. GET(g, a) = GET(l, a) BY <3>4, <3>5, <2>19 DEF Kept
    <3> QED BY <3>3, <3>6
  <2>25. ASSUME NEW a \in Grid, a # bp, GET_STATUS(h, a) = FREE PROVE GET_STATUS(g, a) = FREE
    <3>1. CASE a = m BY <3>1, <2>10, <2>19
    <3>2. CASE a # m
      <4>1. a # m - 8 /\ a # q - 8 /\ a \in Address BY <1>2, GridApart, GridWords
      <4>2. GET(l, a) = GET(h, a) BY <4>1, <3>2, <2>25, <2>7
      <4>3. GET_STATUS(l, a) = FREE BY <4>2, <2>25, SameTag
      <4> QED BY <4>3, <2>19
    <3> QED BY <3>1, <3>2
  <2>26. SameFrame(h, g) BY <2>6, <2>19 DEF SameFrame
  <2>27. Carved(h, A, bp, size, g, C)
    <3>1. \A a \in Address : bp < a /\ a < bp + size - 8 => GET(g, a) = GET(h, a)
      <4>1. bp + size - 8 = m - 8 BY <1>2 DEF m
      <4> QED BY <4>1, <2>24
    <3> QED BY <3>1, <2>16, <2>19, <2>21, <2>23, <2>25, <2>26 DEF Carved
  <2> QED BY <2>27 DEF A
<1> QED BY <1>8, <1>9

\* place allocates a free block, or the first part of it.
LEMMA PlaceEffect ==
  ASSUME NEW h, NEW B, Good(h, B, FreeOf(h, B)), NEW bp \in FreeOf(h, B),
         NEW size \in Nat, size % 32 = 0, size >= 32, size <= GET_SIZE(h, bp),
         NEW g, g = place(h, bp, size)
  PROVE  \E C : /\ Good(g, C, FreeOf(g, C))
                /\ AllocOf(g, C) = AllocOf(h, B) \cup {bp}
                /\ SameFrame(h, g) /\ GET_SIZE(g, bp) = size
                /\ Kept(h, g, AllocOf(h, B))
                /\ \A a \in Grid : a # bp /\ GET_STATUS(h, a) = FREE => GET_STATUS(g, a) = FREE
<1>1. PICK k : k = Unlink(h, bp) OBVIOUS
<1>2. PICK q : q = NEXT_BLKP(h, bp) OBVIOUS
<1>3. PICK F : F = FreeOf(h, B) OBVIOUS
<1>4. /\ Tiled(h, B) /\ IsHeap(h) /\ Listed(h, F) /\ bp \in B /\ F \subseteq B
      /\ Tile(h, B, heap_start, h.heap_end)
  BY <1>3 DEF Good, Tiled, FreeOf
<1>5. /\ bp \in Nat /\ q \in Nat /\ bp + 32 <= q /\ GET_SIZE(h, bp) = q - bp
  BY <1>2, <1>4, TileFacts
<1>6. q \in B \cup {h.heap_end} BY <1>2, <1>4 DEF Tile
<1>7. Listable(F) /\ F \subseteq Grid BY <1>4, TiledFacts DEF Listable
<1>8. Listed(k, F \ {bp}) /\ OnlyPointers(h, k, F)
  BY <1>1, <1>3, <1>4, <1>7, UnlinkEffect
<1>9. Tiled(k, B) /\ FreeOf(k, B) = F /\ AllocOf(k, B) = AllocOf(h, B)
  BY <1>3, <1>4, <1>7, <1>8, PointersKeep
<1>10. \A a \in Grid : GET_STATUS(k, a) = GET_STATUS(h, a)
  BY <1>3, <1>4, <1>7, <1>8, PointersKeep
<1>11. Kept(h, k, AllocOf(h, B)) BY <1>3, <1>4, <1>8, PointersInFree
<1>12. \A b \in B : b # bp => b \in Rest(B, bp, q)
  <2> SUFFICES ASSUME NEW b \in B, b # bp PROVE b < bp \/ q <= b
    BY DEF Rest
  <2>1. b \in Nat /\ (bp < b => q <= b) BY <1>2, <1>4, Apart
  <2> QED BY <2>1, <1>5
<1>13. bp \notin Rest(B, bp, q) BY <1>5 DEF Rest
<1>14. F \cap Rest(B, bp, q) = F \ {bp} /\ AllocOf(k, B) \cap Rest(B, bp, q) = AllocOf(h, B)
  <2>1. bp \notin AllocOf(h, B) BY DEF FreeOf, AllocOf, ALLOC, FREE
  <2>2. AllocOf(h, B) \subseteq B BY DEF AllocOf
  <2> QED BY <2>1, <2>2, <1>4, <1>9, <1>12, <1>13
<1>15. Good(k, B, FreeOf(k, B) \cap Rest(B, bp, q))
  BY <1>8, <1>9, <1>14 DEF Good
<1>16. PICK left : left = GET_SIZE(h, bp) - size OBVIOUS
<1>17. g = Remainder(PutTags(k, bp, size, ALLOC), bp, left)
  <2>1. left \in Nat /\ left < ds_heap_end
    <3>1. bp \in Grid /\ q \in Grid /\ bp <= q BY <1>2, <1>4, <1>5, TileFacts
    <3>2. q - bp < ds_heap_end /\ ds_heap_end \in Int BY <3>1, SignedGap, HeapStart
    <3> QED BY <3>2, <1>5, <1>16
  <2>2. left % SIZE_MOD = left BY <2>1, SignedSize
  <2> QED BY <2>2, <1>1, <1>16 DEF place
<1>18. left = q - (bp + size) /\ bp + size <= q /\ bp < q
  BY <1>5, <1>16
<1>19. q \in B \cup {k.heap_end} BY <1>6, <1>8 DEF OnlyPointers, SameFrame
<1>20. PICK C : Carved(k, AllocOf(h, B), bp, size, g, C)
  <2>1. \E C : Carved(k, AllocOf(k, B) \cap Rest(B, bp, q), bp, size, g, C)
    BY <1>4, <1>15, <1>17, <1>18, <1>19, CarveEffect
  <2> QED BY <2>1, <1>14
<1>21. AllocOf(g, C) = AllocOf(h, B) \cup {bp} BY <1>20 DEF Carved
<1>22. Kept(h, g, AllocOf(h, B))
  <2>1. Kept(k, g, AllocOf(h, B)) BY <1>20 DEF Carved
  <2>2. AllocOf(h, B) \subseteq B BY DEF AllocOf
  <2> QED BY <2>1, <2>2, <1>4, <1>11, KeptTwice
<1>23. SameFrame(h, g) BY <1>8, <1>20 DEF OnlyPointers, SameFrame, Carved
<1> QED BY <1>10, <1>20, <1>21, <1>22, <1>23 DEF Carved
=============================================================================
