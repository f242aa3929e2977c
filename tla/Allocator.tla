------------------------------ MODULE Allocator ------------------------------
(***************************************************************************)
(* What the memory manager of PA3 promises its client (src/PA3/README.md,  *)
(* "API Specification"), without blocks, tags or free lists.  A client     *)
(* holds at most one region in each of its slots.  Regions lie inside the  *)
(* heap and never overlap; what the client stored in one stays there until *)
(* the client stores something else or gives the region back.              *)
(***************************************************************************)
EXTENDS Integers

CONSTANTS Slot, Size, Count, Address, NULL, Wordsize

VARIABLES at,        \* the address of the region of a slot, NULL if none
          len,       \* the bytes the client asked for
          content,   \* the words that lie inside these bytes
          top        \* the end of the heap

allocVars == <<at, len, content, top>>

Held == {s \in Slot : at[s] # NULL}
Words(n) == 0..(n \div Wordsize) - 1

AllocInit ==
  /\ at = [s \in Slot |-> NULL]
  /\ len = [s \in Slot |-> 0]
  /\ content = [s \in Slot |-> <<>>]
  /\ top \in Address

\* The heap grows or shrinks, but not below a region.
Resize(a, l) ==
  /\ top' \in Address
  /\ \A s \in Slot : a[s] # NULL => a[s] + l[s] <= top'

\* Slot s gets n bytes that no other slot holds, with the words w in them.
Give(s, n, w) ==
  /\ at'[s] \in Address
  /\ at' = [at EXCEPT ![s] = at'[s]]
  /\ \A t \in Held \ {s} : at'[s] + n <= at[t] \/ at[t] + len[t] <= at'[s]
  /\ len' = [len EXCEPT ![s] = n]
  /\ DOMAIN w = Words(n)
  /\ content' = [content EXCEPT ![s] = w]
  /\ Resize(at', len')

Malloc(s, n) ==
  /\ s \notin Held /\ n > 0
  /\ Give(s, n, content'[s])

\* nmemb elements of n bytes, all zero.
Calloc(s, nmemb, n) ==
  /\ s \notin Held /\ nmemb * n > 0
  /\ Give(s, nmemb * n, [i \in Words(nmemb * n) |-> 0])

\* The new region starts with what the old one held, up to the shorter one.
Realloc(s, n) ==
  /\ s \in Held /\ n > 0
  /\ Give(s, n, content'[s])
  /\ \A i \in Words(n) \cap Words(len[s]) : content'[s][i] = content[s][i]

Free(s) ==
  /\ s \in Held
  /\ at' = [at EXCEPT ![s] = NULL]
  /\ len' = [len EXCEPT ![s] = 0]
  /\ content' = [content EXCEPT ![s] = <<>>]
  /\ Resize(at', len')

Store(s) ==
  /\ s \in Held
  /\ DOMAIN content'[s] = Words(len[s])
  /\ content' = [content EXCEPT ![s] = content'[s]]
  /\ UNCHANGED <<at, len, top>>

\* A call may fail at any time, and then changes nothing the client sees.
AllocNext ==
  \E s \in Slot :
    \/ Free(s) \/ Store(s)
    \/ \E n \in Size : Malloc(s, n) \/ Realloc(s, n)
    \/ \E m \in Count, n \in Size : Calloc(s, m, n)

AllocSpec == AllocInit /\ [][AllocNext]_allocVars
=============================================================================
