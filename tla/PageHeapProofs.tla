--------------------------- MODULE PageHeapProofs ---------------------------
(***************************************************************************)
(* The heap inside a page frame, for every size of the frame and all sizes *)
(* of requests.                                                            *)
(***************************************************************************)
EXTENDS PageHeap, WellFoundedInduction, TLAPS

-----------------------------------------------------------------------------
(* The layout of a heap.                                                   *)

Words  == [Addresses -> 0 .. Junk]

\* Where blocks can begin and end.
Bounds == {x \in heap_listp .. PAGE_SIZE : x % DSIZE = 0}

\* x and y are next to each other in P.
Adjacent(P, x, y) ==
    /\ x \in P /\ y \in P /\ x < y
    /\ \A z \in P : z <= x \/ y <= z

\* The block from x to y has this tag at both ends.
Tagged(m, x, y, tag) == m[HDRP(x)] = tag /\ m[y - DSIZE] = tag

TagOf(x, y, A) == IF x \in A THEN PACK(y - x, 1) ELSE PACK(y - x, 0)

\* Every block has its tags, and only the prologue is less than two double
\* words.
BlockLaid(m, A, x, y) ==
    /\ Tagged(m, x, y, TagOf(x, y, A))
    /\ IF x = heap_listp THEN y = 2 * DSIZE ELSE y - x >= 2 * DSIZE

\* The blocks of m begin and end in P, the last ends at brk, and those that
\* begin in A are allocated.
Layout(m, P, A, brk) ==
    /\ m \in Words
    /\ P \in SUBSET Bounds /\ brk \in P /\ \A x \in P : x <= brk
    /\ heap_listp \in A /\ A \subseteq P /\ brk \notin A
    /\ \A x \in P : x # brk => \E y \in P : Adjacent(P, x, y)
    /\ \A y \in P : y # heap_listp => \E x \in P : Adjacent(P, x, y)
    /\ \A x, y \in P : Adjacent(P, x, y) => BlockLaid(m, A, x, y)
    /\ m[HDRP(brk)] = PACK(0, 1)

\* No two free blocks are neighbours, but for those at `but'.
Merged(P, A, brk, but) ==
    \A x, y \in P : Adjacent(P, x, y) /\ y # brk /\ x \notin but /\ y \notin but => x \in A \/ y \in A

\* Each client has room for what it asked.
Roomy(P, l) ==
    \A x, y \in P : Adjacent(P, x, y) /\ x \in DOMAIN l => l[x] + DSIZE <= y - x

Laid(m, P, brk, l) ==
    /\ heap_listp \notin DOMAIN l
    /\ Layout(m, P, DOMAIN l \cup {heap_listp}, brk)
    /\ Merged(P, DOMAIN l \cup {heap_listp}, brk, {})
    /\ Roomy(P, l)

HeapInv ==
    /\ word \in Words
    /\ \A p \in DOMAIN live : live[p] \in Sizes
    /\ IF mem_brk = 0 THEN DOMAIN live = {}
       ELSE \E P \in SUBSET Bounds : Laid(word, P, mem_brk, live)

-----------------------------------------------------------------------------
(* Arithmetic.                                                             *)

(* Addresses and bounds. *)
LEMMA BoundFacts ==
  /\ PAGE_SIZE \in Nat /\ Addresses \subseteq Nat
  /\ heap_listp = 8 /\ heap_listp \in Bounds
  /\ \A x \in Bounds : /\ x \in Nat /\ 8 <= x /\ x <= PAGE_SIZE /\ x % 8 = 0
                       /\ x \in Addresses /\ HDRP(x) \in Addresses /\ x - DSIZE \in Addresses
                       /\ HDRP(x) = x - 4 /\ x - DSIZE = x - 8
                       /\ HDRP(x) < PAGE_SIZE
  /\ \A x, y \in Bounds : x < y => x + 8 <= y /\ y - x \in Nat /\ (y - x) % 8 = 0 /\ y - x < PAGE_SIZE
  /\ \A x \in Bounds, s \in Nat : s % 8 = 0 /\ x + s <= PAGE_SIZE => x + s \in Bounds
  /\ \A a \in Addresses : a <= PAGE_SIZE + 4
<1>1. PAGE_SIZE \in Nat /\ PAGE_SIZE >= 16 /\ PAGE_SIZE % 8 = 0
  BY PageAssumption
<1>2. \A a : a \in Addresses <=> a \in Nat /\ a % 4 = 0 /\ a <= PAGE_SIZE + 4
  <2>1. ASSUME NEW i \in 0 .. (PAGE_SIZE \div 4) + 1
        PROVE  4 * i \in Nat /\ (4 * i) % 4 = 0 /\ 4 * i <= PAGE_SIZE + 4
    BY <1>1
  <2>2. ASSUME NEW a \in Nat, a % 4 = 0, a <= PAGE_SIZE + 4
        PROVE  a = 4 * (a \div 4) /\ a \div 4 \in 0 .. (PAGE_SIZE \div 4) + 1
    BY <1>1, <2>2
  <2>. QED
    BY <2>1, <2>2 DEF Addresses, WSIZE
<1>3. \A x : x \in Bounds <=> x \in Nat /\ 8 <= x /\ x <= PAGE_SIZE /\ x % 8 = 0
  BY <1>1 DEF Bounds, heap_listp, WSIZE, DSIZE
<1>4. ASSUME NEW x \in Bounds
      PROVE  /\ x \in Addresses /\ HDRP(x) \in Addresses /\ x - DSIZE \in Addresses
             /\ HDRP(x) = x - 4 /\ x - DSIZE = x - 8 /\ HDRP(x) < PAGE_SIZE
  <2>1. x \in Nat /\ 8 <= x /\ x <= PAGE_SIZE /\ x % 8 = 0
    BY <1>3
  <2>2. x % 4 = 0 /\ (x - 4) % 4 = 0 /\ (x - 8) % 4 = 0
    BY <2>1
  <2>. QED
    BY <1>1, <1>2, <2>1, <2>2 DEF HDRP, WSIZE, DSIZE
<1>5. ASSUME NEW x \in Bounds, NEW y \in Bounds, x < y
      PROVE  x + 8 <= y /\ y - x \in Nat /\ (y - x) % 8 = 0 /\ y - x < PAGE_SIZE
  <2>1. x \in Nat /\ 8 <= x /\ x % 8 = 0 /\ y \in Nat /\ y <= PAGE_SIZE /\ y % 8 = 0
    BY <1>3
  <2>. QED
    BY <1>1, <1>5, <2>1
<1>6. ASSUME NEW x \in Bounds, NEW s \in Nat, s % 8 = 0, x + s <= PAGE_SIZE
      PROVE  x + s \in Bounds
  <2>1. x \in Nat /\ 8 <= x /\ x % 8 = 0
    BY <1>3
  <2>2. (x + s) % 8 = 0
    BY <1>6, <2>1
  <2>. QED
    BY <1>3, <1>6, <2>1, <2>2
<1>7. heap_listp = 8 /\ heap_listp \in Bounds
  BY <1>1, <1>3 DEF heap_listp, WSIZE
<1>. QED
  BY <1>1, <1>2, <1>3, <1>4, <1>5, <1>6, <1>7

(* What a tag says. *)
LEMMA TagFacts ==
  ASSUME NEW m, NEW a, NEW s \in Nat, s % 8 = 0
  PROVE  /\ m[a] = PACK(s, 0) => GET_SIZE(m, a) = s /\ GET_ALLOC(m, a) = 0
         /\ m[a] = PACK(s, 1) => GET_SIZE(m, a) = s /\ GET_ALLOC(m, a) = 1
<1>1. s + 0 = s /\ s % 8 = 0 /\ s % 2 = 0 /\ s - 0 = s
  OBVIOUS
<1>2. (s + 1) % 8 = 1 /\ (s + 1) % 2 = 1 /\ (s + 1) - 1 = s
  OBVIOUS
<1>3. PACK(s, 0) = s + 0 /\ PACK(s, 1) = s + 1
  BY DEF PACK
<1>. QED
  BY <1>1, <1>2, <1>3 DEF GET_SIZE, GET_ALLOC

(* What the tags of a block say. *)
LEMMA BlockFacts ==
  ASSUME NEW m, NEW P, NEW A, NEW brk, Layout(m, P, A, brk),
         NEW x \in P, NEW y \in P, Adjacent(P, x, y)
  PROVE  /\ x \in Bounds /\ y \in Bounds /\ x < y
         /\ GET_SIZE(m, HDRP(x)) = y - x /\ NEXT_BLKP(m, x) = y /\ FTRP(m, x) = y - DSIZE
         /\ GET_SIZE(m, y - DSIZE) = y - x /\ PREV_BLKP(m, y) = x
         /\ GET_ALLOC(m, HDRP(x)) = IF x \in A THEN 1 ELSE 0
         /\ GET_ALLOC(m, y - DSIZE) = IF x \in A THEN 1 ELSE 0
         /\ m[HDRP(x)] = m[y - DSIZE]
         /\ IsFree(m, x) <=> x \notin A
         /\ x # heap_listp => y - x >= 16
<1>1. x \in Bounds /\ y \in Bounds /\ x < y /\ BlockLaid(m, A, x, y)
  BY DEF Layout, Adjacent
<1>2. /\ y - x \in Nat /\ (y - x) % 8 = 0 /\ x \in Nat /\ y \in Nat
  BY <1>1, BoundFacts
<1>. DEFINE s == y - x
<1>3. /\ x \in A => m[HDRP(x)] = PACK(s, 1) /\ m[y - DSIZE] = PACK(s, 1)
      /\ x \notin A => m[HDRP(x)] = PACK(s, 0) /\ m[y - DSIZE] = PACK(s, 0)
  BY <1>1 DEF BlockLaid, Tagged, TagOf
<1>4. x + s = y /\ y - s = x /\ x + s - DSIZE = y - DSIZE
  BY <1>2 DEF DSIZE
<1>5. s \in Nat /\ s % 8 = 0
  BY <1>2
<1>6. x # heap_listp => s >= 16
  BY <1>1 DEF BlockLaid, DSIZE
<1>. HIDE DEF s
<1>7. /\ GET_SIZE(m, HDRP(x)) = s /\ GET_SIZE(m, y - DSIZE) = s
      /\ GET_ALLOC(m, HDRP(x)) = IF x \in A THEN 1 ELSE 0
      /\ GET_ALLOC(m, y - DSIZE) = IF x \in A THEN 1 ELSE 0
  BY <1>3, <1>5, TagFacts
<1>8. /\ NEXT_BLKP(m, x) = y /\ FTRP(m, x) = y - DSIZE /\ PREV_BLKP(m, y) = x
  BY <1>4, <1>7 DEF NEXT_BLKP, FTRP, PREV_BLKP
<1>9. m[HDRP(x)] = m[y - DSIZE]
  BY <1>3
<1>10. IsFree(m, x) <=> x \notin A
  BY <1>7 DEF IsFree
<1>. QED
  BY <1>1, <1>6, <1>7, <1>8, <1>9, <1>10 DEF s

(* The least element of a set of natural numbers. *)
LEMMA LeastOf ==
  ASSUME NEW T \in SUBSET Nat, T # {}
  PROVE  \E n \in T : \A m \in T : n <= m
<1>1. PICK n \in T : \A m \in T : <<m, n>> \notin OpToRel(<, Nat)
  BY NatLessThanWellFounded, WFMin
<1>2. ASSUME NEW m \in T PROVE n <= m
  <2>1. m \in Nat /\ n \in Nat /\ ~ (m < n)
    BY <1>1 DEF OpToRel
  <2>. QED
    BY <2>1
<1>. QED
  BY <1>2

-----------------------------------------------------------------------------
(* Changes of the layout.                                                  *)

\* n is m but between the header at x and the one at y.
SameOutside(m, n, x, y) ==
    \A a \in Addresses : a < HDRP(x) \/ HDRP(y) <= a => n[a] = m[a]

\* The bounds of P that are not inside x .. y.
Without(P, x, y) == {z \in P : z <= x \/ y <= z}

(* Blocks outside of what has changed keep their tags. *)
LEMMA TagsKept ==
  ASSUME NEW m, NEW n, NEW A, NEW C, NEW x \in Bounds, NEW y \in Bounds, SameOutside(m, n, x, y),
         NEW u \in Bounds, NEW v \in Bounds, u < v, v <= x \/ y <= u, BlockLaid(m, A, u, v),
         u \in A <=> u \in C
  PROVE  BlockLaid(n, C, u, v)
<1>1. /\ HDRP(u) \in Addresses /\ v - DSIZE \in Addresses
      /\ HDRP(u) = u - 4 /\ v - DSIZE = v - 8 /\ HDRP(x) = x - 4 /\ HDRP(y) = y - 4
      /\ u \in Nat /\ v \in Nat /\ x \in Nat /\ y \in Nat /\ u + 8 <= v
  BY BoundFacts
<1>2. /\ HDRP(u) < HDRP(x) \/ HDRP(y) <= HDRP(u)
      /\ v - DSIZE < HDRP(x) \/ HDRP(y) <= v - DSIZE
  BY <1>1
<1>3. n[HDRP(u)] = m[HDRP(u)] /\ n[v - DSIZE] = m[v - DSIZE]
  BY <1>1, <1>2 DEF SameOutside
<1>. QED
  BY <1>3 DEF BlockLaid, Tagged, TagOf

(* Neighbours when what lies between x and y has gone. *)
LEMMA AdjacentWithout ==
  ASSUME NEW P \in SUBSET Bounds, NEW x \in P, NEW y \in P, x < y
  PROVE  LET Q == Without(P, x, y)
         IN  /\ Q \in SUBSET P /\ x \in Q /\ y \in Q /\ Adjacent(Q, x, y)
             /\ \A u, v \in Q : Adjacent(Q, u, v) =>
                  (u = x /\ v = y) \/ (Adjacent(P, u, v) /\ (v <= x \/ y <= u))
             /\ \A u, v \in P : Adjacent(P, u, v) /\ (v <= x \/ y <= u) => Adjacent(Q, u, v)
<1>. DEFINE Q == Without(P, x, y)
<1>1. P \subseteq Nat
  BY BoundFacts
<1>2. Q \in SUBSET P /\ x \in Q /\ y \in Q /\ \A z \in P : z \in Q <=> z <= x \/ y <= z
  BY <1>1 DEF Without
<1>. HIDE DEF Q
<1>3. Adjacent(Q, x, y)
  BY <1>2 DEF Adjacent
<1>4. ASSUME NEW u \in Q, NEW v \in Q, Adjacent(Q, u, v)
      PROVE  (u = x /\ v = y) \/ (Adjacent(P, u, v) /\ (v <= x \/ y <= u))
  <2>1. /\ u \in Nat /\ v \in Nat /\ x \in Nat /\ y \in Nat /\ u < v
        /\ (x <= u \/ v <= x) /\ (y <= u \/ v <= y)
        /\ (u <= x \/ y <= u) /\ (v <= x \/ y <= v)
    BY <1>1, <1>2, <1>4 DEF Adjacent
  <2>2. CASE v <= x \/ y <= u
    <3>1. ASSUME NEW z \in P PROVE z <= u \/ v <= z
      <4>1. z \in Nat
        BY <1>1
      <4>2. CASE z \in Q
        BY <1>4, <4>2 DEF Adjacent
      <4>3. CASE z \notin Q
        <5>1. x < z /\ z < y
          BY <1>2, <2>1, <4>1, <4>3
        <5>. QED
          BY <2>1, <2>2, <4>1, <5>1
      <4>. QED
        BY <4>2, <4>3
    <3>. QED
      BY <1>2, <2>1, <2>2, <3>1 DEF Adjacent
  <2>3. CASE x < v /\ u < y
    <3>1. u = x /\ v = y
      BY <2>1, <2>3
    <3>. QED
      BY <3>1
  <2>. QED
    BY <2>1, <2>2, <2>3
<1>5. ASSUME NEW u \in P, NEW v \in P, Adjacent(P, u, v), v <= x \/ y <= u
      PROVE  Adjacent(Q, u, v)
  <2>1. u \in Nat /\ v \in Nat /\ x \in Nat /\ y \in Nat /\ u < v
    BY <1>1, <1>5 DEF Adjacent
  <2>2. u \in Q /\ v \in Q
    BY <1>2, <1>5, <2>1
  <2>. QED
    BY <1>2, <1>5, <2>2 DEF Adjacent
<1>. QED
  BY <1>2, <1>3, <1>4, <1>5 DEF Q

(* One block takes the place of those between x and y, *)
LEMMA Joined ==
  ASSUME NEW m, NEW n \in Words, NEW P, NEW A, NEW brk, Layout(m, P, A, brk),
         NEW x \in P, NEW y \in P, x < y, x # heap_listp,
         SameOutside(m, n, x, y),
         NEW C \in SUBSET P, \A z \in P \ {x} : z \in A <=> z \in C,
         \A z \in P : x < z /\ z < y => z \notin A,
         Tagged(n, x, y, TagOf(x, y, C)), y - x >= 2 * DSIZE
  PROVE  Layout(n, Without(P, x, y), C, brk)
<1>. DEFINE Q == Without(P, x, y)
<1>1. P \in SUBSET Bounds /\ brk \in P /\ P \subseteq Nat /\ (\A z \in P : z <= brk)
      /\ x \in Bounds /\ y \in Bounds /\ heap_listp \in A /\ A \subseteq P /\ brk \notin A
  BY BoundFacts DEF Layout
<1>2. /\ Q \in SUBSET P /\ x \in Q /\ y \in Q /\ Adjacent(Q, x, y)
      /\ \A u, v \in Q : Adjacent(Q, u, v) =>
           (u = x /\ v = y) \/ (Adjacent(P, u, v) /\ (v <= x \/ y <= u))
      /\ \A u, v \in P : Adjacent(P, u, v) /\ (v <= x \/ y <= u) => Adjacent(Q, u, v)
  BY <1>1, AdjacentWithout
<1>3. \A z \in P : z \in Q <=> z <= x \/ y <= z
  BY DEF Without
<1>. HIDE DEF Q
<1>4. brk \in Q /\ heap_listp \in Q /\ x # brk /\ y <= brk /\ x < brk
  <2>1. brk \in Nat /\ x \in Nat /\ y \in Nat /\ y <= brk /\ heap_listp <= x /\ heap_listp \in P
    BY <1>1, BoundFacts
  <2>2. brk \in Q /\ heap_listp \in Q
    BY <1>1, <1>3, <2>1
  <2>3. x < brk /\ x # brk
    BY <2>1
  <2>. QED
    BY <2>1, <2>2, <2>3
<1>5. heap_listp \in C /\ brk \notin C /\ C \subseteq Q
  <2>1. \A z \in C : z \in Q
    <3>. SUFFICES ASSUME NEW z \in C, z \notin Q PROVE FALSE
      OBVIOUS
    <3>1. z \in P /\ z \in Nat /\ x \in Nat /\ y \in Nat
      BY <1>1
    <3>2. x < z /\ z < y
      BY <1>3, <3>1
    <3>3. z \in A
      BY <3>1, <3>2
    <3>. QED
      BY <3>1, <3>2, <3>3
  <2>. QED
    BY <1>1, <1>4, <2>1
<1>6. ASSUME NEW u \in Q, u # brk PROVE \E v \in Q : Adjacent(Q, u, v)
  <2>1. CASE u = x
    BY <1>2, <2>1
  <2>2. CASE u # x
    <3>1. PICK v \in P : Adjacent(P, u, v)
      BY <1>2, <1>6 DEF Layout
    <3>2. u \in Nat /\ v \in Nat /\ x \in Nat /\ y \in Nat
      BY <1>1, <1>2
    <3>3. v <= x \/ y <= u
      BY <1>3, <2>2, <3>1, <3>2 DEF Adjacent
    <3>4. Adjacent(Q, u, v)
      BY <1>2, <3>1, <3>3
    <3>. QED
      BY <3>4 DEF Adjacent
  <2>. QED
    BY <2>1, <2>2
<1>7. ASSUME NEW v \in Q, v # heap_listp PROVE \E u \in Q : Adjacent(Q, u, v)
  <2>1. CASE v = y
    BY <1>2, <2>1
  <2>2. CASE v # y
    <3>1. PICK u \in P : Adjacent(P, u, v)
      BY <1>2, <1>7 DEF Layout
    <3>2. u \in Nat /\ v \in Nat /\ x \in Nat /\ y \in Nat
      BY <1>1, <1>2
    <3>3. v <= x \/ y <= u
      BY <1>3, <2>2, <3>1, <3>2 DEF Adjacent
    <3>4. Adjacent(Q, u, v)
      BY <1>2, <3>1, <3>3
    <3>. QED
      BY <3>4 DEF Adjacent
  <2>. QED
    BY <2>1, <2>2
<1>8. ASSUME NEW u \in Q, NEW v \in Q, Adjacent(Q, u, v) PROVE BlockLaid(n, C, u, v)
  <2>1. CASE u = x /\ v = y
    BY <2>1 DEF BlockLaid
  <2>2. CASE Adjacent(P, u, v) /\ (v <= x \/ y <= u)
    <3>1. BlockLaid(m, A, u, v) /\ u \in Bounds /\ v \in Bounds /\ u < v
      BY <1>1, <1>2, <2>2 DEF Layout, Adjacent
    <3>2. u \in A <=> u \in C
      <4>1. u \in Nat /\ v \in Nat /\ x \in Nat /\ y \in Nat
        BY <1>1, <1>2
      <4>2. u # x
        BY <2>2, <3>1, <4>1
      <4>. QED
        BY <1>2, <4>2
    <3>. QED
      BY <1>1, <2>2, <3>1, <3>2, TagsKept
  <2>. QED
    BY <1>2, <1>8, <2>1, <2>2
<1>9. n[HDRP(brk)] = PACK(0, 1)
  <2>1. HDRP(brk) \in Addresses /\ HDRP(y) <= HDRP(brk)
    <3>1. brk \in Nat /\ y \in Nat /\ y <= brk /\ HDRP(brk) = brk - 4 /\ HDRP(y) = y - 4
          /\ HDRP(brk) \in Addresses
      BY <1>1, <1>4, BoundFacts
    <3>. QED
      BY <3>1
  <2>. QED
    BY <2>1 DEF SameOutside, Layout
<1>. QED
  BY <1>1, <1>2, <1>4, <1>5, <1>6, <1>7, <1>8, <1>9 DEF Layout, Q

\* In Q the bound s is between x and y, which are neighbours in P.
Halved(P, Q, x, y, s) ==
    /\ Adjacent(Q, x, s) /\ Adjacent(Q, s, y) /\ s \notin P
    /\ \A u, v \in Q : Adjacent(Q, u, v) =>
          (u = x /\ v = s) \/ (u = s /\ v = y)
             \/ (u \in P /\ v \in P /\ Adjacent(P, u, v) /\ (v <= x \/ y <= u))
    /\ \A u, v \in P : Adjacent(P, u, v) /\ u # x => Adjacent(Q, u, v)

(* Neighbours when there is a bound more between two. *)
LEMMA AdjacentWith ==
  ASSUME NEW P \in SUBSET Bounds, NEW x \in P, NEW y \in P, Adjacent(P, x, y),
         NEW s \in Bounds, x < s, s < y
  PROVE  Halved(P, P \cup {s}, x, y, s)
<1>. DEFINE Q == P \cup {s}
<1>1. /\ P \subseteq Nat /\ s \in Nat /\ x \in Nat /\ y \in Nat
      /\ \A z \in P : z <= x \/ y <= z
  BY BoundFacts DEF Adjacent
<1>2. s \notin P
  BY <1>1
<1>3. Adjacent(Q, x, s) /\ Adjacent(Q, s, y)
  <2>1. \A z \in Q : (z <= x \/ s <= z) /\ (z <= s \/ y <= z)
    BY <1>1
  <2>. QED
    BY <2>1 DEF Adjacent
<1>4. ASSUME NEW u \in Q, NEW v \in Q, Adjacent(Q, u, v)
      PROVE  (u = x /\ v = s) \/ (u = s /\ v = y)
                \/ (u \in P /\ v \in P /\ Adjacent(P, u, v) /\ (v <= x \/ y <= u))
  <2>1. /\ u \in Nat /\ v \in Nat /\ u < v
        /\ (x <= u \/ v <= x) /\ (y <= u \/ v <= y) /\ (s <= u \/ v <= s)
    BY <1>1, <1>4 DEF Adjacent
  <2>2. CASE u = s
    BY <1>1, <2>1, <2>2
  <2>3. CASE v = s
    BY <1>1, <2>1, <2>3
  <2>4. CASE u \in P /\ v \in P
    <3>1. Adjacent(P, u, v)
      BY <1>4, <2>4 DEF Adjacent
    <3>2. (u <= x \/ y <= u) /\ (v <= x \/ y <= v)
      BY <1>1, <2>4
    <3>. QED
      BY <1>1, <2>1, <2>4, <3>1, <3>2
  <2>. QED
    BY <2>2, <2>3, <2>4
<1>5. ASSUME NEW u \in P, NEW v \in P, Adjacent(P, u, v), u # x
      PROVE  Adjacent(Q, u, v)
  <2>1. u \in Nat /\ v \in Nat /\ u < v /\ (u <= x \/ y <= u) /\ (x <= u \/ v <= x)
    BY <1>1, <1>5 DEF Adjacent
  <2>2. s <= u \/ v <= s
    BY <1>1, <1>5, <2>1
  <2>. QED
    BY <1>5, <2>2 DEF Adjacent
<1>. QED
  BY <1>2, <1>3, <1>4, <1>5 DEF Halved

(* a block is split, its first part being given away, *)
LEMMA Split ==
  ASSUME NEW m, NEW n \in Words, NEW P, NEW A, NEW brk, Layout(m, P, A, brk),
         NEW x \in P, NEW y \in P, Adjacent(P, x, y), x # heap_listp, x \notin A,
         SameOutside(m, n, x, y),
         NEW s \in Bounds, x < s, s < y,
         Tagged(n, x, s, PACK(s - x, 1)), Tagged(n, s, y, PACK(y - s, 0)),
         s - x >= 2 * DSIZE, y - s >= 2 * DSIZE
  PROVE  Layout(n, P \cup {s}, A \cup {x}, brk)
<1>. DEFINE Q == P \cup {s}  C == A \cup {x}
<1>1. P \in SUBSET Bounds /\ brk \in P /\ P \subseteq Nat /\ (\A z \in P : z <= brk)
      /\ x \in Bounds /\ y \in Bounds /\ heap_listp \in A /\ A \subseteq P /\ brk \notin A
      /\ s \in Nat /\ y \in Nat /\ x \in Nat /\ brk \in Nat /\ y <= brk
  BY BoundFacts DEF Layout
<1>2. /\ Adjacent(Q, x, s) /\ Adjacent(Q, s, y) /\ s \notin P
      /\ \A u, v \in Q : Adjacent(Q, u, v) =>
           (u = x /\ v = s) \/ (u = s /\ v = y)
              \/ (u \in P /\ v \in P /\ Adjacent(P, u, v) /\ (v <= x \/ y <= u))
      /\ \A u, v \in P : Adjacent(P, u, v) /\ u # x => Adjacent(Q, u, v)
  <2>1. P \in SUBSET Bounds
    BY <1>1
  <2>. QED
    BY <2>1, AdjacentWith DEF Halved, Q
<1>3. Q \in SUBSET Bounds /\ brk \in Q /\ (\A z \in Q : z <= brk) /\ heap_listp \in C
      /\ C \subseteq Q /\ brk \notin C /\ s \notin C /\ s # heap_listp
      /\ \A z \in Q : z = s \/ z \in P
  <2>1. s <= brk /\ x # brk
    BY <1>1
  <2>. QED
    BY <1>1, <1>2, <2>1
<1>4. \A z \in P : z \in Q
  OBVIOUS
<1>5. \A z : z # x => (z \in A <=> z \in C)
  OBVIOUS
<1>. HIDE DEF Q
<1>6. ASSUME NEW u \in Q, u # brk PROVE \E v \in Q : Adjacent(Q, u, v)
  <2>1. CASE u = x \/ u = s
    BY <1>2, <2>1 DEF Adjacent
  <2>2. CASE u # x /\ u # s
    <3>1. u \in P
      BY <1>3, <2>2
    <3>2. PICK v \in P : Adjacent(P, u, v)
      BY <1>6, <3>1 DEF Layout
    <3>. QED
      BY <1>2, <1>4, <2>2, <3>1, <3>2
  <2>. QED
    BY <2>1, <2>2
<1>7. ASSUME NEW v \in Q, v # heap_listp PROVE \E u \in Q : Adjacent(Q, u, v)
  <2>1. CASE v = s \/ v = y
    BY <1>2, <2>1 DEF Adjacent
  <2>2. CASE v # s /\ v # y
    <3>1. v \in P
      BY <1>3, <2>2
    <3>2. PICK u \in P : Adjacent(P, u, v)
      BY <1>7, <3>1 DEF Layout
    <3>3. u # x
      <4>. SUFFICES ASSUME u = x PROVE v = y
        BY <2>2
      <4>1. v \in Nat /\ y \in Nat /\ x < v /\ v <= y /\ y <= v
        BY <1>1, <3>1, <3>2 DEF Adjacent
      <4>. QED
        BY <4>1
    <3>. QED
      BY <1>2, <1>4, <3>1, <3>2, <3>3
  <2>. QED
    BY <2>1, <2>2
<1>8. ASSUME NEW u \in Q, NEW v \in Q, Adjacent(Q, u, v) PROVE BlockLaid(n, C, u, v)
  <2>1. CASE u = x /\ v = s
    BY <2>1 DEF BlockLaid, TagOf
  <2>2. CASE u = s /\ v = y
    BY <1>3, <2>2 DEF BlockLaid, TagOf
  <2>3. CASE u \in P /\ v \in P /\ Adjacent(P, u, v) /\ (v <= x \/ y <= u)
    <3>1. BlockLaid(m, A, u, v) /\ u \in Bounds /\ v \in Bounds /\ u < v
      BY <1>1, <2>3 DEF Layout, Adjacent
    <3>2. u # x
      <4>1. u \in Nat /\ v \in Nat /\ x \in Nat /\ y \in Nat /\ x < y
        BY <1>1, <2>3 DEF Adjacent
      <4>. QED
        BY <2>3, <3>1, <4>1
    <3>3. u \in A <=> u \in C
      BY <1>5, <3>2
    <3>. HIDE DEF C
    <3>. QED
      BY <1>1, <2>3, <3>1, <3>3, TagsKept
  <2>. QED
    BY <1>2, <1>8, <2>1, <2>2, <2>3
<1>9. n[HDRP(brk)] = PACK(0, 1)
  <2>1. HDRP(brk) \in Addresses /\ HDRP(y) <= HDRP(brk)
    <3>1. HDRP(brk) = brk - 4 /\ HDRP(y) = y - 4 /\ HDRP(brk) \in Addresses
      BY <1>1, BoundFacts
    <3>. QED
      BY <1>1, <3>1
  <2>. QED
    BY <2>1 DEF SameOutside, Layout
<1>. QED
  BY <1>3, <1>6, <1>7, <1>8, <1>9 DEF Layout, Q

\* Q is P with a block more, from brk to e.
Lengthened(P, Q, brk, e) ==
    /\ Adjacent(Q, brk, e) /\ brk # heap_listp
    /\ \A u, v \in Q : Adjacent(Q, u, v) =>
          (u = brk /\ v = e) \/ (u \in P /\ v \in P /\ Adjacent(P, u, v) /\ u # brk /\ v # e)

(* or a free block follows the last one. *)
LEMMA Grown ==
  ASSUME NEW m, NEW n \in Words, NEW P, NEW A, NEW brk, Layout(m, P, A, brk),
         NEW e \in Bounds, brk < e, e - brk >= 2 * DSIZE,
         \A a \in Addresses : a < HDRP(brk) => n[a] = m[a],
         Tagged(n, brk, e, PACK(e - brk, 0)), n[HDRP(e)] = PACK(0, 1)
  PROVE  Layout(n, P \cup {e}, A, e) /\ Lengthened(P, P \cup {e}, brk, e)
<1>. DEFINE Q == P \cup {e}
<1>1. P \in SUBSET Bounds /\ brk \in P /\ P \subseteq Nat /\ (\A z \in P : z <= brk)
      /\ heap_listp \in A /\ A \subseteq P /\ brk \notin A
      /\ e \in Nat /\ brk \in Nat /\ \A z \in P : z < e
  <2>1. P \in SUBSET Bounds /\ brk \in P /\ P \subseteq Nat /\ (\A z \in P : z <= brk)
        /\ heap_listp \in A /\ A \subseteq P /\ brk \notin A
        /\ e \in Nat /\ brk \in Nat
    BY BoundFacts DEF Layout
  <2>2. \A z \in P : z < e
    BY <2>1
  <2>. QED
    BY <2>1, <2>2
<1>2. e \notin P /\ \A z \in Q : z \in P \/ z = e
  BY <1>1
<1>3. Adjacent(Q, brk, e)
  BY <1>1 DEF Adjacent
<1>4. ASSUME NEW u \in P, NEW v \in P, Adjacent(P, u, v) PROVE Adjacent(Q, u, v)
  <2>1. v <= e
    BY <1>1
  <2>. QED
    BY <1>4, <2>1 DEF Adjacent
<1>5. ASSUME NEW u \in Q, NEW v \in Q, Adjacent(Q, u, v)
      PROVE  (u = brk /\ v = e) \/ (u \in P /\ v \in P /\ Adjacent(P, u, v) /\ u # brk /\ v # e)
  <2>1. u < v /\ u \in Nat /\ v \in Nat /\ (brk <= u \/ v <= brk) /\ (e <= u \/ v <= e)
    BY <1>1, <1>5 DEF Adjacent
  <2>2. u \in P
    BY <1>1, <1>2, <2>1
  <2>3. u <= brk
    BY <1>1, <2>2
  <2>4. CASE v = e
    BY <1>1, <2>1, <2>2, <2>3, <2>4
  <2>5. CASE v \in P
    <3>1. Adjacent(P, u, v)
      BY <1>5, <2>2, <2>5 DEF Adjacent
    <3>2. u # brk /\ v # e
      BY <1>1, <1>2, <2>1, <2>5
    <3>. QED
      BY <2>2, <2>5, <3>1, <3>2
  <2>. QED
    BY <1>2, <2>4, <2>5
<1>6. Q \in SUBSET Bounds /\ e \in Q /\ (\A z \in Q : z <= e) /\ A \subseteq Q /\ e \notin A
  BY <1>1, <1>2
<1>7. \A u \in Q : u # e => \E v \in Q : Adjacent(Q, u, v)
  BY <1>2, <1>3, <1>4 DEF Layout
<1>8. \A v \in Q : v # heap_listp => \E u \in Q : Adjacent(Q, u, v)
  BY <1>1, <1>2, <1>3, <1>4 DEF Layout
<1>9. ASSUME NEW u \in Q, NEW v \in Q, Adjacent(Q, u, v) PROVE BlockLaid(n, A, u, v)
  <2>1. CASE u = brk /\ v = e
    BY <1>1, <2>1 DEF BlockLaid, TagOf
  <2>2. CASE u \in P /\ v \in P /\ Adjacent(P, u, v) /\ u # brk
    <3>1. BlockLaid(m, A, u, v) /\ u \in Bounds /\ v \in Bounds /\ u < v /\ v <= brk
      BY <1>1, <2>2 DEF Layout, Adjacent
    <3>2. /\ HDRP(u) \in Addresses /\ v - DSIZE \in Addresses
          /\ HDRP(u) < HDRP(brk) /\ v - DSIZE < HDRP(brk)
      <4>1. /\ HDRP(u) \in Addresses /\ v - DSIZE \in Addresses
            /\ HDRP(u) = u - 4 /\ v - DSIZE = v - 8 /\ HDRP(brk) = brk - 4
            /\ u \in Nat /\ v \in Nat
        BY <1>1, <3>1, BoundFacts
      <4>. QED
        BY <1>1, <3>1, <4>1
    <3>3. n[HDRP(u)] = m[HDRP(u)] /\ n[v - DSIZE] = m[v - DSIZE]
      BY <3>2
    <3>. QED
      BY <3>1, <3>3 DEF BlockLaid, Tagged
  <2>. QED
    BY <1>5, <1>9, <2>1, <2>2
<1>10. brk # heap_listp
  BY <1>1
<1>11. Layout(n, Q, A, e)
  <2>. HIDE DEF Q
  <2>. QED
    BY <1>1, <1>6, <1>7, <1>8, <1>9 DEF Layout
<1>. QED
  BY <1>3, <1>5, <1>10, <1>11 DEF Lengthened

-----------------------------------------------------------------------------
(* What the operations write.                                              *)

\* The allocated blocks of A have in Q the neighbours they have in P.
Kept(P, Q, A) == \A u, v \in Q : Adjacent(Q, u, v) /\ u \in A => u \in P /\ v \in P /\ Adjacent(P, u, v)

(* A block has one that follows it and one that comes before it. *)
LEMMA OneNeighbour ==
  ASSUME NEW P \in SUBSET Bounds, NEW x \in P, NEW y \in P, Adjacent(P, x, y)
  PROVE  /\ \A v \in P : Adjacent(P, x, v) => v = y
         /\ \A u \in P : Adjacent(P, u, y) => u = x
         /\ Without(P, x, y) = P
<1>1. P \subseteq Nat
  BY BoundFacts
<1>2. ASSUME NEW v \in P, Adjacent(P, x, v) PROVE v = y
  <2>1. v \in Nat /\ y \in Nat /\ x \in Nat /\ x < y /\ x < v /\ (v <= x \/ y <= v) /\ (y <= x \/ v <= y)
    BY <1>1, <1>2 DEF Adjacent
  <2>. QED
    BY <2>1
<1>3. ASSUME NEW u \in P, Adjacent(P, u, y) PROVE u = x
  <2>1. u \in Nat /\ y \in Nat /\ x \in Nat /\ x < y /\ u < y /\ (u <= x \/ y <= u) /\ (x <= u \/ y <= x)
    BY <1>1, <1>3 DEF Adjacent
  <2>. QED
    BY <2>1
<1>. QED
  BY <1>2, <1>3 DEF Adjacent, Without

(* Tag writes the header and the footer of one block. *)
LEMMA TagWrites ==
  ASSUME NEW m \in Words, NEW x \in Bounds, NEW y \in Bounds, x < y, NEW alloc \in {0, 1}
  PROVE  LET n == Tag(m, x, y - x, alloc)
         IN  /\ n \in Words /\ SameOutside(m, n, x, y)
             /\ Tagged(n, x, y, PACK(y - x, alloc))
<1>. DEFINE t == PACK(y - x, alloc)
            n == Tag(m, x, y - x, alloc)
<1>1. /\ HDRP(x) \in Addresses /\ y - DSIZE \in Addresses
      /\ HDRP(x) = x - 4 /\ y - DSIZE = y - 8 /\ HDRP(y) = y - 4
      /\ x \in Nat /\ y \in Nat /\ x + 8 <= y /\ y - x \in Nat /\ y - x < PAGE_SIZE /\ PAGE_SIZE \in Nat
      /\ Addresses \subseteq Nat
  BY BoundFacts
<1>2. t \in 0 .. Junk
  BY <1>1 DEF PACK, Junk, DSIZE
<1>3. x + (y - x) - DSIZE = y - DSIZE
  BY <1>1 DEF DSIZE
<1>. HIDE DEF t
<1>4. n = [[m EXCEPT ![HDRP(x)] = t] EXCEPT ![y - DSIZE] = t]
  BY <1>3 DEF Tag, PUT, t
<1>. HIDE DEF n
<1>5. n \in Words
  BY <1>2, <1>4 DEF Words
<1>6. \A a \in Addresses : n[a] = IF a = y - DSIZE \/ a = HDRP(x) THEN t ELSE m[a]
  BY <1>1, <1>2, <1>4 DEF Words
<1>7. Tagged(n, x, y, t)
  BY <1>1, <1>6 DEF Tagged
<1>8. ASSUME NEW a \in Addresses, a < HDRP(x) \/ HDRP(y) <= a PROVE n[a] = m[a]
  <2>1. a \in Nat /\ a # y - DSIZE /\ a # HDRP(x)
    BY <1>1, <1>8
  <2>. QED
    BY <1>6, <2>1
<1>. QED
  BY <1>5, <1>7, <1>8 DEF SameOutside, t, n

(* A block is given other tags. *)
LEMMA Retagged ==
  ASSUME NEW m, NEW n \in Words, NEW P, NEW A, NEW brk, Layout(m, P, A, brk),
         NEW x \in P, NEW y \in P, Adjacent(P, x, y), x # heap_listp,
         SameOutside(m, n, x, y),
         NEW C \in SUBSET P, \A z \in P \ {x} : z \in A <=> z \in C,
         Tagged(n, x, y, TagOf(x, y, C))
  PROVE  Layout(n, P, C, brk)
<1>1. P \in SUBSET Bounds /\ x < y /\ P \subseteq Nat
  BY BoundFacts DEF Layout, Adjacent
<1>2. y - x >= 2 * DSIZE
  BY BlockFacts DEF DSIZE
<1>3. \A z \in P : x < z /\ z < y => z \notin A
  <2>. SUFFICES ASSUME NEW z \in P, x < z, z < y PROVE FALSE
    OBVIOUS
  <2>1. z \in Nat /\ x \in Nat /\ y \in Nat /\ (z <= x \/ y <= z)
    BY <1>1 DEF Adjacent
  <2>. QED
    BY <2>1
<1>4. Without(P, x, y) = P
  BY <1>1, OneNeighbour
<1>5. Layout(n, Without(P, x, y), C, brk)
  BY <1>1, <1>2, <1>3, Joined
<1>. QED
  BY <1>4, <1>5

(* place: the block is given away, or its first part is. *)
LEMMA PlaceLays ==
  ASSUME NEW m, NEW P, NEW A, NEW brk, Layout(m, P, A, brk), Merged(P, A, brk, {}),
         NEW x \in P, NEW y \in P, Adjacent(P, x, y), x \notin A,
         NEW asize \in Nat, asize % 8 = 0, 16 <= asize, asize <= y - x
  PROVE  \E Q \in SUBSET Bounds :
            /\ Layout(place(m, x, asize), Q, A \cup {x}, brk)
            /\ Merged(Q, A \cup {x}, brk, {})
            /\ \E z \in Q : Adjacent(Q, x, z) /\ asize <= z - x
            /\ Kept(P, Q, A)
<1>. DEFINE C == A \cup {x}
<1>1. /\ P \in SUBSET Bounds /\ m \in Words /\ x \in Bounds /\ y \in Bounds
      /\ x < y /\ heap_listp \in A /\ A \subseteq P /\ P \subseteq Nat
      /\ x \in Nat /\ y \in Nat /\ x # heap_listp
  BY BoundFacts DEF Layout, Adjacent
<1>2. GET_SIZE(m, HDRP(x)) = y - x /\ y - x \in Nat
  BY <1>1, BlockFacts, BoundFacts
<1>3. x \in C /\ C \in SUBSET P /\ \A z \in P \ {x} : z \in A <=> z \in C
  BY <1>1
<1>4. CASE y - x - asize >= 2 * DSIZE
  <2>0. PICK s : s = x + asize
    OBVIOUS
  <2>. DEFINE k == Tag(m, x, asize, 1)
              n == Tag(k, s, y - x - asize, 0)
              Q == P \cup {s}
  <2>1. s \in Bounds /\ x < s /\ s < y /\ s \in Nat /\ asize = s - x /\ y - x - asize = y - s
        /\ s - x >= 16 /\ y - s >= 16
    <3>1. x + asize <= PAGE_SIZE /\ asize \in Nat /\ y <= PAGE_SIZE /\ PAGE_SIZE \in Nat
      BY <1>1, <1>4, BoundFacts DEF DSIZE
    <3>2. x + asize \in Bounds
      BY <1>1, <3>1, BoundFacts
    <3>. QED
      BY <1>1, <1>4, <2>0, <3>2 DEF DSIZE
  <2>2. place(m, x, asize) = n
    BY <1>2, <1>4, <2>0 DEF place
  <2>3. /\ k = Tag(m, x, s - x, 1) /\ n = Tag(k, s, y - s, 0)
    BY <2>1
  <2>. HIDE DEF k, n
  <2>4. k \in Words /\ SameOutside(m, k, x, s) /\ Tagged(k, x, s, PACK(s - x, 1))
    BY <1>1, <2>1, <2>3, TagWrites
  <2>5. n \in Words /\ SameOutside(k, n, s, y) /\ Tagged(n, s, y, PACK(y - s, 0))
    BY <1>1, <2>1, <2>3, <2>4, TagWrites
  <2>6. /\ HDRP(x) \in Addresses /\ s - DSIZE \in Addresses
        /\ HDRP(x) = x - 4 /\ s - DSIZE = s - 8 /\ HDRP(y) = y - 4 /\ HDRP(s) = s - 4
        /\ Addresses \subseteq Nat
    BY <1>1, <2>1, BoundFacts
  <2>7. SameOutside(m, n, x, y)
    <3>. SUFFICES ASSUME NEW a \in Addresses, a < HDRP(x) \/ HDRP(y) <= a PROVE n[a] = m[a]
      BY DEF SameOutside
    <3>1. a \in Nat
      BY <2>6
    <3>2. k[a] = m[a]
      <4>1. a < HDRP(x) \/ HDRP(s) <= a
        BY <1>1, <2>1, <2>6, <3>1
      <4>. QED
        BY <2>4, <4>1 DEF SameOutside
    <3>3. n[a] = k[a]
      <4>1. a < HDRP(s) \/ HDRP(y) <= a
        BY <1>1, <2>1, <2>6, <3>1
      <4>. QED
        BY <2>5, <4>1 DEF SameOutside
    <3>. QED
      BY <3>2, <3>3
  <2>8. Tagged(n, x, s, PACK(s - x, 1))
    <3>1. HDRP(x) < HDRP(s) /\ s - DSIZE < HDRP(s)
      BY <1>1, <2>1, <2>6
    <3>. QED
      BY <2>4, <2>5, <2>6, <3>1 DEF Tagged, SameOutside
  <2>9. Layout(n, Q, C, brk)
    <3>1. s - x >= 2 * DSIZE /\ y - s >= 2 * DSIZE
      BY <2>1 DEF DSIZE
    <3>. QED
      BY <1>1, <2>1, <2>5, <2>7, <2>8, <3>1, Split
  <2>10. /\ Adjacent(Q, x, s) /\ Adjacent(Q, s, y) /\ s \notin P
         /\ \A u, v \in Q : Adjacent(Q, u, v) =>
              (u = x /\ v = s) \/ (u = s /\ v = y)
                 \/ (u \in P /\ v \in P /\ Adjacent(P, u, v) /\ (v <= x \/ y <= u))
    <3>1. P \in SUBSET Bounds /\ s \in Bounds /\ x < s /\ s < y
      BY <1>1, <2>1
    <3>2. Halved(P, P \cup {s}, x, y, s)
      BY <3>1, AdjacentWith
    <3>. QED
      BY <3>2 DEF Halved
  <2>. HIDE DEF Q
  <2>11. Merged(Q, C, brk, {})
    <3>. SUFFICES ASSUME NEW u \in Q, NEW v \in Q, Adjacent(Q, u, v), v # brk, u \notin C, v \notin C
                  PROVE  FALSE
      BY DEF Merged
    <3>1. CASE u = s /\ v = y
      BY <3>1, <1>1 DEF Merged
    <3>2. CASE u \in P /\ v \in P /\ Adjacent(P, u, v)
      BY <3>2 DEF Merged
    <3>. QED
      BY <1>3, <2>10, <3>1, <3>2
  <2>12. Kept(P, Q, A)
    <3>1. s \notin A
      BY <1>1, <2>10
    <3>. QED
      BY <2>10, <3>1 DEF Kept
  <2>13. Q \in SUBSET Bounds /\ s \in Q /\ asize <= s - x
    BY <1>1, <2>1 DEF Q
  <2>. QED
    BY <2>2, <2>9, <2>10, <2>11, <2>12, <2>13
<1>5. CASE ~ (y - x - asize >= 2 * DSIZE)
  <2>. DEFINE n == Tag(m, x, y - x, 1)
  <2>1. place(m, x, asize) = n
    BY <1>2, <1>5 DEF place
  <2>. HIDE DEF n
  <2>2. n \in Words /\ SameOutside(m, n, x, y) /\ Tagged(n, x, y, PACK(y - x, 1))
    BY <1>1, TagWrites DEF n
  <2>3. Tagged(n, x, y, TagOf(x, y, C))
    BY <1>3, <2>2 DEF TagOf
  <2>. HIDE DEF C
  <2>4. Layout(n, P, C, brk)
    BY <1>1, <1>3, <2>2, <2>3, Retagged
  <2>5. Merged(P, C, brk, {})
    BY DEF Merged, C
  <2>6. Kept(P, P, A)
    BY DEF Kept
  <2>. QED
    BY <1>1, <2>1, <2>4, <2>5, <2>6 DEF C
<1>. QED
  BY <1>4, <1>5

(* coalesce: a free block joins the free ones next to it. *)
LEMMA CoalesceLays ==
  ASSUME NEW m, NEW P, NEW A, NEW brk, Layout(m, P, A, brk),
         NEW x \in P, NEW y \in P, Adjacent(P, x, y), x \notin A, Merged(P, A, brk, {x})
  PROVE  LET r == coalesce(m, x)
         IN  \E Q \in SUBSET Bounds :
                /\ Layout(r.mem, Q, A, brk)
                /\ Merged(Q, A, brk, {})
                /\ r.bp \in Q /\ r.bp \notin A
                /\ \E z \in Q : Adjacent(Q, r.bp, z) /\ y - x <= z - r.bp
                /\ Kept(P, Q, A)
<1>. DEFINE r == coalesce(m, x)
<1>1. /\ P \in SUBSET Bounds /\ m \in Words /\ x \in Bounds /\ y \in Bounds
      /\ x < y /\ heap_listp \in A /\ A \subseteq P /\ P \subseteq Nat
      /\ x \in Nat /\ y \in Nat /\ x # heap_listp /\ brk \notin A
      /\ (\A u \in P : u <= brk) /\ brk \in Nat /\ m[HDRP(brk)] = PACK(0, 1)
  BY BoundFacts DEF Layout, Adjacent
<1>2. PICK w \in P : Adjacent(P, w, x)
  BY <1>1 DEF Layout
<1>3. w \in Bounds /\ w \in Nat /\ w < x /\ x # brk /\ w # brk /\ y <= brk
  <2>1. w \in Bounds /\ w \in Nat /\ w < x /\ x <= brk /\ y <= brk
    BY <1>1, <1>2 DEF Adjacent
  <2>. QED
    BY <1>1, <2>1
<1>4. /\ GET_SIZE(m, HDRP(x)) = y - x /\ NEXT_BLKP(m, x) = y /\ PREV_BLKP(m, x) = w
      /\ GET_SIZE(m, HDRP(w)) = x - w /\ FTRP(m, w) = x - DSIZE
      /\ GET_ALLOC(m, x - DSIZE) = IF w \in A THEN 1 ELSE 0
  BY <1>2, BlockFacts
<1>5. PICK z \in P : /\ y # brk => Adjacent(P, y, z)
                     /\ y # brk => GET_SIZE(m, FTRP(m, y)) = z - y /\ (IsFree(m, y) <=> y \notin A)
                     /\ y = brk => z = y
  <2>1. CASE y = brk
    BY <2>1
  <2>2. CASE y # brk
    <3>1. PICK z \in P : Adjacent(P, y, z)
      BY <2>2 DEF Layout
    <3>2. GET_SIZE(m, FTRP(m, y)) = z - y /\ (IsFree(m, y) <=> y \notin A)
      BY <3>1, BlockFacts
    <3>. QED
      BY <2>2, <3>1, <3>2
  <2>. QED
    BY <2>1, <2>2
<1>6. IsFree(m, y) <=> y # brk /\ y \notin A
  <2>1. GET_ALLOC(m, HDRP(brk)) = 1
    BY <1>1, TagFacts
  <2>. QED
    BY <1>5, <2>1 DEF IsFree
<1>. DEFINE prevFree == w \notin A
            nextFree == y # brk /\ y \notin A
            first == IF prevFree THEN w ELSE x
            last  == IF nextFree THEN z ELSE y
<1>7. PICK f \in P, l \in P : f = first /\ l = last
  OBVIOUS
<1>8. f \in Nat /\ l \in Nat /\ z \in Nat /\ f <= x /\ y <= l /\ f # heap_listp /\ f \notin A /\ f \in Bounds /\ l \in Bounds
      /\ (nextFree => y < z) /\ f < l
  BY <1>1, <1>3, <1>5, <1>7 DEF Adjacent
<1>9. /\ r.bp = f
      /\ r.mem = IF prevFree \/ nextFree THEN Tag(m, f, l - f, 0) ELSE m
  <2>1. (GET_ALLOC(m, FTRP(m, w)) = 0) <=> prevFree
    BY <1>4
  <2>2. y - x + (IF prevFree THEN x - w ELSE 0) + (IF nextFree THEN z - y ELSE 0) = l - f
    <3>1. CASE prevFree
      BY <1>1, <1>3, <1>7, <1>8, <3>1
    <3>2. CASE ~ prevFree
      BY <1>1, <1>3, <1>7, <1>8, <3>2
    <3>. QED
      BY <3>1, <3>2
  <2>3. y - x + (IF prevFree THEN GET_SIZE(m, HDRP(w)) ELSE 0)
          + (IF nextFree THEN GET_SIZE(m, FTRP(m, y)) ELSE 0) = l - f
    BY <1>4, <1>5, <2>2
  <2>. QED
    BY <1>4, <1>6, <1>7, <2>1, <2>3 DEF coalesce
<1>10. \A u \in P : f < u /\ u < l => u = x \/ u = y
  <2>. SUFFICES ASSUME NEW u \in P, f < u, u < l, u # x, u # y PROVE FALSE
    OBVIOUS
  <2>1. u \in Nat /\ (u <= w \/ x <= u) /\ (u <= x \/ y <= u)
    BY <1>1, <1>2 DEF Adjacent
  <2>2. y # brk => u <= y \/ z <= u
    BY <1>5 DEF Adjacent
  <2>3. w <= f /\ (y = brk => l = y) /\ (l = y \/ l = z)
    BY <1>3, <1>5, <1>7, <1>1
  <2>. QED
    BY <1>1, <1>3, <1>8, <2>1, <2>2, <2>3
<1>11. CASE ~ (prevFree \/ nextFree)
  <2>1. r.mem = m /\ f = x
    BY <1>7, <1>9, <1>11
  <2>2. Merged(P, A, brk, {})
    <3>. SUFFICES ASSUME NEW u \in P, NEW v \in P, Adjacent(P, u, v), v # brk, u \notin A, v \notin A
                  PROVE  FALSE
      BY DEF Merged
    <3>1. u = x => v = y
      BY <1>1, OneNeighbour
    <3>2. v = x => u = w
      BY <1>1, <1>2, OneNeighbour
    <3>. QED
      BY <1>11, <3>1, <3>2 DEF Merged
  <2>3. Kept(P, P, A)
    BY DEF Kept
  <2>4. y - x <= y - f
    BY <1>1, <2>1
  <2>. QED
    BY <1>1, <1>9, <2>1, <2>2, <2>3, <2>4
<1>12. CASE prevFree \/ nextFree
  <2>. DEFINE n == Tag(m, f, l - f, 0)
              Q == Without(P, f, l)
  <2>1. r.mem = n
    BY <1>9, <1>12
  <2>. HIDE DEF n
  <2>2. n \in Words /\ SameOutside(m, n, f, l) /\ Tagged(n, f, l, PACK(l - f, 0))
    BY <1>1, <1>8, TagWrites DEF n
  <2>3. Tagged(n, f, l, TagOf(f, l, A))
    BY <1>8, <2>2 DEF TagOf
  <2>4. l - f >= 2 * DSIZE
    <3>1. y - x >= 16
      BY <1>1, BlockFacts
    <3>. QED
      BY <1>1, <1>8, <3>1 DEF DSIZE
  <2>5. \A u \in P : f < u /\ u < l => u \notin A
    <3>. SUFFICES ASSUME NEW u \in P, f < u, u < l, u \in A PROVE FALSE
      OBVIOUS
    <3>1. u = y
      BY <1>10
    <3>. QED
      BY <1>7, <1>8, <3>1
  <2>6. Layout(n, Q, A, brk)
    <3>1. \A u \in P \ {f} : u \in A <=> u \in A
      OBVIOUS
    <3>2. A \in SUBSET P
      BY <1>1
    <3>. QED
      BY <1>8, <2>2, <2>3, <2>4, <2>5, <3>1, <3>2, Joined
  <2>7. /\ Q \in SUBSET P /\ f \in Q /\ l \in Q /\ Adjacent(Q, f, l)
        /\ \A u, v \in Q : Adjacent(Q, u, v) =>
             (u = f /\ v = l) \/ (Adjacent(P, u, v) /\ (v <= f \/ l <= u))
    BY <1>1, <1>8, AdjacentWithout
  <2>. HIDE DEF Q
  <2>8. Merged(Q, A, brk, {})
    <3>. SUFFICES ASSUME NEW u \in Q, NEW v \in Q, Adjacent(Q, u, v), v # brk, u \notin A, v \notin A
                  PROVE  FALSE
      BY DEF Merged
    <3>1. CASE u = f /\ v = l
      <4>1. CASE nextFree
        <5>1. v = z /\ Adjacent(P, y, z) /\ y # x
          BY <1>1, <1>5, <1>7, <3>1, <4>1
        <5>2. z # x
          BY <1>1, <1>8, <4>1
        <5>. QED
          BY <4>1, <5>1, <5>2 DEF Merged
      <4>2. CASE ~ nextFree
        BY <1>7, <3>1, <4>2
      <4>. QED
        BY <4>1, <4>2
    <3>2. CASE Adjacent(P, u, v) /\ (v <= f \/ l <= u)
      <4>1. u \in P /\ v \in P /\ u \in Nat /\ v \in Nat
        BY <1>1, <2>7
      <4>2. u = x \/ v = x
        BY <3>2, <4>1 DEF Merged
      <4>3. v = x
        <5>. SUFFICES ASSUME u = x PROVE FALSE
          BY <4>2
        <5>1. x < v
          BY <3>2 DEF Adjacent
        <5>. QED
          BY <1>1, <1>8, <3>2, <4>1, <5>1
      <4>4. u = w
        BY <1>1, <1>2, <3>2, <4>1, <4>3, OneNeighbour
      <4>5. f = w
        BY <1>7, <4>4
      <4>. QED
        BY <1>1, <1>3, <1>8, <3>2, <4>3, <4>4, <4>5
    <3>. QED
      BY <2>7, <3>1, <3>2
  <2>9. Kept(P, Q, A)
    BY <1>8, <2>7 DEF Kept
  <2>10. y - x <= l - f
    BY <1>1, <1>8
  <2>11. Q \in SUBSET Bounds
    BY <1>1, <2>7
  <2>. QED
    BY <1>8, <1>9, <2>1, <2>6, <2>7, <2>8, <2>9, <2>10, <2>11
<1>. QED
  BY <1>11, <1>12

(* extend_heap: the last free block has room for what is asked. *)
LEMMA ExtendLays ==
  ASSUME NEW m, NEW P, NEW A, NEW brk, Layout(m, P, A, brk), Merged(P, A, brk, {}),
         NEW size \in Nat, size % 8 = 0, 16 <= size, brk + size <= PAGE_SIZE
  PROVE  LET r == extend_heap(m, brk, size)
         IN  \E Q \in SUBSET Bounds :
                /\ Layout(r.mem, Q, A, brk + size)
                /\ Merged(Q, A, brk + size, {})
                /\ r.bp \in Q /\ r.bp \notin A
                /\ \E z \in Q : Adjacent(Q, r.bp, z) /\ size <= z - r.bp
                /\ Kept(P, Q, A)
<1>1. /\ P \in SUBSET Bounds /\ m \in Words /\ brk \in Bounds /\ brk \in P /\ brk \notin A /\ A \subseteq P
      /\ brk \in Nat /\ \A u \in P : u <= brk
  BY BoundFacts DEF Layout
<1>2. PICK e : e = brk + size
  OBVIOUS
<1>3. e \in Bounds /\ e \in Nat /\ brk < e /\ size = e - brk /\ HDRP(e) = e - 4 /\ HDRP(brk) = brk - 4
      /\ HDRP(e) \in Addresses /\ HDRP(brk) \in Addresses /\ e - DSIZE = e - 8 /\ e - DSIZE \in Addresses
      /\ e - brk >= 16 /\ Addresses \subseteq Nat
  <2>1. e \in Bounds
    BY <1>1, <1>2, BoundFacts
  <2>2. e \in Nat /\ brk < e /\ size = e - brk /\ e - brk >= 16
    BY <1>1, <1>2
  <2>. QED
    BY <1>1, <2>1, <2>2, BoundFacts
<1>. DEFINE k == Tag(m, brk, e - brk, 0)
            n == PUT(k, HDRP(e), PACK(0, 1))
            Q == P \cup {e}
<1>4. extend_heap(m, brk, size) = coalesce(n, brk)
  <2>1. brk + size - WSIZE = HDRP(e)
    BY <1>1, <1>2 DEF HDRP, WSIZE
  <2>. QED
    BY <1>3, <2>1 DEF extend_heap
<1>5. k \in Words /\ SameOutside(m, k, brk, e) /\ Tagged(k, brk, e, PACK(e - brk, 0))
  BY <1>1, <1>3, TagWrites
<1>. HIDE DEF k
<1>6. n \in Words /\ \A a \in Addresses : n[a] = IF a = HDRP(e) THEN PACK(0, 1) ELSE k[a]
  <2>1. PACK(0, 1) \in 0 .. Junk
    <3>1. PAGE_SIZE \in Nat
      BY BoundFacts
    <3>. QED
      BY <3>1 DEF PACK, Junk, DSIZE
  <2>. QED
    BY <1>3, <1>5, <2>1 DEF Words, PUT
<1>. HIDE DEF n
<1>7. \A a \in Addresses : a < HDRP(brk) => n[a] = m[a]
  <2>. SUFFICES ASSUME NEW a \in Addresses, a < HDRP(brk) PROVE n[a] = m[a]
    OBVIOUS
  <2>1. a # HDRP(e)
    BY <1>1, <1>3
  <2>. QED
    BY <1>5, <1>6, <2>1 DEF SameOutside
<1>8. Tagged(n, brk, e, PACK(e - brk, 0)) /\ n[HDRP(e)] = PACK(0, 1)
  <2>1. HDRP(brk) # HDRP(e) /\ e - DSIZE # HDRP(e)
    BY <1>1, <1>3
  <2>. QED
    BY <1>3, <1>5, <1>6, <2>1 DEF Tagged
<1>9. /\ Layout(n, Q, A, e) /\ Adjacent(Q, brk, e)
      /\ \A u, v \in Q : Adjacent(Q, u, v) =>
            (u = brk /\ v = e) \/ (u \in P /\ v \in P /\ Adjacent(P, u, v) /\ u # brk /\ v # e)
  <2>1. e - brk >= 2 * DSIZE
    BY <1>3 DEF DSIZE
  <2>. QED
    <3>1. Layout(n, P \cup {e}, A, e) /\ Lengthened(P, P \cup {e}, brk, e)
      BY <1>1, <1>3, <1>6, <1>7, <1>8, <2>1, Grown
    <3>. QED
      BY <3>1 DEF Lengthened
<1>. HIDE DEF Q
<1>10. Merged(Q, A, e, {brk})
  <2>. SUFFICES ASSUME NEW u \in Q, NEW v \in Q, Adjacent(Q, u, v), v # e, u # brk, v # brk, u \notin A, v \notin A
                PROVE  FALSE
    BY DEF Merged
  <2>. QED
    BY <1>9 DEF Merged
<1>11. Kept(P, Q, A)
  BY <1>1, <1>9 DEF Kept
<1>12. PICK R \in SUBSET Bounds :
          LET r == coalesce(n, brk)
          IN  /\ Layout(r.mem, R, A, e)
              /\ Merged(R, A, e, {})
              /\ r.bp \in R /\ r.bp \notin A
              /\ \E z \in R : Adjacent(R, r.bp, z) /\ e - brk <= z - r.bp
              /\ Kept(Q, R, A)
  <2>1. brk \in Q /\ e \in Q
    BY <1>9 DEF Adjacent
  <2>. QED
    BY <1>1, <1>9, <1>10, <2>1, CoalesceLays
<1>13. Kept(P, R, A)
  BY <1>11, <1>12 DEF Kept
<1>. QED
  BY <1>2, <1>3, <1>4, <1>12, <1>13

(* page_free: the block becomes free and is merged. *)
LEMMA FreeLays ==
  ASSUME NEW m, NEW P, NEW A, NEW brk, Layout(m, P, A, brk), Merged(P, A, brk, {}),
         NEW x \in A, x # heap_listp
  PROVE  \E Q \in SUBSET Bounds :
            /\ Layout(coalesce(Tag(m, x, GET_SIZE(m, HDRP(x)), 0), x).mem, Q, A \ {x}, brk)
            /\ Merged(Q, A \ {x}, brk, {})
            /\ Kept(P, Q, A \ {x})
<1>1. /\ P \in SUBSET Bounds /\ m \in Words /\ A \subseteq P /\ x \in P /\ x # brk
  BY DEF Layout
<1>2. PICK y \in P : Adjacent(P, x, y)
  BY <1>1 DEF Layout
<1>3. x \in Bounds /\ y \in Bounds /\ x < y /\ GET_SIZE(m, HDRP(x)) = y - x
  BY <1>1, <1>2, BlockFacts
<1>. DEFINE n == Tag(m, x, y - x, 0)
            C == A \ {x}
<1>4. n \in Words /\ SameOutside(m, n, x, y) /\ Tagged(n, x, y, PACK(y - x, 0))
  BY <1>1, <1>3, TagWrites
<1>5. Tagged(n, x, y, TagOf(x, y, C)) /\ C \in SUBSET P /\ x \notin C /\ \A z \in P \ {x} : z \in A <=> z \in C
  BY <1>1, <1>4 DEF TagOf
<1>. HIDE DEF n
<1>6. Merged(P, C, brk, {x})
  BY DEF Merged
<1>. HIDE DEF C
<1>7. Layout(n, P, C, brk)
  BY <1>1, <1>2, <1>4, <1>5, Retagged
<1>8. \E Q \in SUBSET Bounds :
         /\ Layout(coalesce(n, x).mem, Q, C, brk)
         /\ Merged(Q, C, brk, {})
         /\ Kept(P, Q, C)
  BY <1>1, <1>2, <1>5, <1>6, <1>7, CoalesceLays
<1>. QED
  BY <1>3, <1>8 DEF n, C

(* What a client writes into its block leaves the layout. *)
LEMMA HandLays ==
  ASSUME NEW m, NEW P, NEW A, NEW brk, Layout(m, P, A, brk),
         NEW x \in A, x # heap_listp, NEW y \in P, Adjacent(P, x, y),
         NEW size \in Nat, size + 8 <= y - x
  PROVE  Layout([a \in Addresses |-> IF a >= x /\ a < x + size THEN Junk ELSE m[a]], P, A, brk)
<1>. DEFINE n == [a \in Addresses |-> IF a >= x /\ a < x + size THEN Junk ELSE m[a]]
<1>1. /\ m \in Words /\ A \in SUBSET P /\ x \in P /\ x \in Bounds /\ y \in Bounds /\ x < y
  BY DEF Layout, Adjacent
<1>2. /\ HDRP(x) \in Addresses /\ y - DSIZE \in Addresses
      /\ HDRP(x) = x - 4 /\ y - DSIZE = y - 8 /\ HDRP(y) = y - 4
      /\ x \in Nat /\ y \in Nat /\ Addresses \subseteq Nat /\ PAGE_SIZE \in Nat
  BY <1>1, BoundFacts
<1>3. n \in Words
  <2>1. Junk \in 0 .. Junk
    BY <1>2 DEF Junk, DSIZE
  <2>. QED
    BY <1>1, <2>1 DEF Words
<1>4. \A a \in Addresses : a < HDRP(x) \/ y - DSIZE <= a \/ a = HDRP(x) => n[a] = m[a]
  <2>. SUFFICES ASSUME NEW a \in Addresses, a < HDRP(x) \/ y - DSIZE <= a \/ a = HDRP(x)
                PROVE  n[a] = m[a]
    OBVIOUS
  <2>1. ~ (a >= x /\ a < x + size)
    BY <1>2
  <2>. QED
    BY <2>1
<1>. HIDE DEF n
<1>5. SameOutside(m, n, x, y)
  <2>. SUFFICES ASSUME NEW a \in Addresses, a < HDRP(x) \/ HDRP(y) <= a PROVE n[a] = m[a]
    BY DEF SameOutside
  <2>1. a < HDRP(x) \/ y - DSIZE <= a
    BY <1>2
  <2>. QED
    BY <1>4, <2>1
<1>6. Tagged(n, x, y, TagOf(x, y, A))
  <2>1. Tagged(m, x, y, TagOf(x, y, A))
    BY <1>1 DEF Layout, BlockLaid
  <2>2. n[HDRP(x)] = m[HDRP(x)] /\ n[y - DSIZE] = m[y - DSIZE]
    BY <1>2, <1>4
  <2>. QED
    BY <2>1, <2>2 DEF Tagged
<1>7. \A z \in P \ {x} : z \in A <=> z \in A
  OBVIOUS
<1>8. Layout(n, P, A, brk)
  BY <1>1, <1>3, <1>5, <1>6, <1>7, Retagged
<1>. QED
  BY <1>8 DEF n

(* page_init: the prologue and the epilogue. *)
LEMMA InitLays ==
  ASSUME NEW m \in Words
  PROVE  /\ Layout(page_init(m), {heap_listp, 16}, {heap_listp}, 16)
         /\ Merged({heap_listp, 16}, {heap_listp}, 16, {})
         /\ {heap_listp, 16} \in SUBSET Bounds
<1>1. PAGE_SIZE \in Nat /\ PAGE_SIZE >= 16 /\ heap_listp = 8 /\ heap_listp \in Bounds
  BY BoundFacts, PageAssumption
<1>2. 16 \in Bounds
  <2>1. heap_listp + 8 <= PAGE_SIZE /\ 8 % 8 = 0 /\ heap_listp + 8 = 16 /\ 8 \in Nat
    BY <1>1
  <2>. QED
    BY <1>1, <2>1, BoundFacts
<1>. DEFINE n == page_init(m)
            P == {heap_listp, 16}
<1>3. 0 \in Addresses /\ 4 \in Addresses /\ 8 \in Addresses /\ 12 \in Addresses
  <2>1. /\ HDRP(heap_listp) = 4 /\ HDRP(16) = 12 /\ heap_listp - DSIZE = 0
        /\ HDRP(heap_listp) \in Addresses /\ HDRP(16) \in Addresses /\ heap_listp - DSIZE \in Addresses
        /\ heap_listp \in Addresses
    BY <1>1, <1>2, BoundFacts
  <2>. QED
    BY <1>1, <2>1
<1>4. /\ PACK(DSIZE, 1) = 9 /\ PACK(0, 1) = 1
      /\ 0 \in 0 .. Junk /\ 9 \in 0 .. Junk /\ 1 \in 0 .. Junk
  BY <1>1 DEF PACK, Junk, DSIZE
<1>5. n = [m EXCEPT ![0] = 0, ![4] = 9, ![8] = 9, ![12] = 1]
  <2>1. WSIZE = 4 /\ 2 * WSIZE = 8 /\ 3 * WSIZE = 12
    BY DEF WSIZE
  <2>. QED
    BY <1>4, <2>1 DEF page_init
<1>. HIDE DEF n
<1>6. n \in Words
  BY <1>3, <1>4, <1>5 DEF Words
<1>7. n[4] = 9 /\ n[8] = 9 /\ n[12] = 1
  BY <1>3, <1>5 DEF Words
<1>8. Adjacent(P, heap_listp, 16) /\ \A u, v \in P : Adjacent(P, u, v) => u = heap_listp /\ v = 16
  BY <1>1 DEF Adjacent
<1>9. BlockLaid(n, {heap_listp}, heap_listp, 16) /\ n[HDRP(16)] = PACK(0, 1)
  <2>1. HDRP(heap_listp) = 4 /\ 16 - DSIZE = 8 /\ HDRP(16) = 12 /\ 16 - heap_listp = DSIZE /\ 16 = 2 * DSIZE
    BY <1>1 DEF HDRP, WSIZE, DSIZE
  <2>2. TagOf(heap_listp, 16, {heap_listp}) = 9
    BY <1>4, <2>1 DEF TagOf
  <2>. QED
    BY <1>4, <1>7, <2>1, <2>2 DEF BlockLaid, Tagged
<1>10. P \in SUBSET Bounds /\ 16 \in P /\ (\A x \in P : x <= 16) /\ heap_listp \in P /\ 16 \notin {heap_listp}
       /\ \A x \in P : x = heap_listp \/ x = 16
  BY <1>1, <1>2
<1>. HIDE DEF P
<1>11. Layout(n, P, {heap_listp}, 16)
  BY <1>6, <1>8, <1>9, <1>10 DEF Layout
<1>12. Merged(P, {heap_listp}, 16, {})
  BY <1>8 DEF Merged
<1>. QED
  BY <1>10, <1>11, <1>12 DEF n, P

(* What is allocated for size bytes. *)
LEMMA AdjustedFacts ==
  ASSUME NEW size \in Nat
  PROVE  /\ AdjustedSize(size) \in Nat /\ AdjustedSize(size) % 8 = 0
         /\ 16 <= AdjustedSize(size) /\ size + 8 <= AdjustedSize(size)
<1>1. CASE size <= 8
  <2>1. AdjustedSize(size) = 16 /\ 16 % 8 = 0
    BY <1>1 DEF AdjustedSize, DSIZE
  <2>. QED
    BY <1>1, <2>1
<1>2. CASE size > 8
  <2>. DEFINE q == (size + 15) \div 8
  <2>1. AdjustedSize(size) = 8 * q
    BY <1>2 DEF AdjustedSize, DSIZE
  <2>2. q \in Nat /\ 8 * q <= size + 15 /\ size + 15 < 8 * q + 8
    OBVIOUS
  <2>3. (8 * q) % 8 = 0 /\ 8 * q \in Nat /\ size + 8 <= 8 * q
    <3>. HIDE DEF q
    <3>. QED
      BY <2>2
  <2>. QED
    BY <1>2, <2>1, <2>3
<1>. QED
  BY <1>1, <1>2

-----------------------------------------------------------------------------
(* The walk over the headers.                                              *)

\* f maps each x of D to what a walk meets from there until it stops.
Collects(f, D, stop, next) ==
    f = [x \in D |-> IF x \in stop THEN {} ELSE {x} \cup f[next[x]]]

(* There is a function that collects what a walk meets until it stops: it  *)
(* maps x to what belongs to every set that contains x and is closed under *)
(* going on.                                                               *)
LEMMA WalkExists ==
  ASSUME NEW D, NEW stop \in SUBSET D, NEW next, \A x \in D : x \notin stop => next[x] \in D
  PROVE  \E f : Collects(f, D, stop, next)
<1>. DEFINE Closed(S) == \A x \in S : x \notin stop => next[x] \in S
            Reach(x)  == {z \in D : \A S \in SUBSET D : Closed(S) /\ x \in S => z \in S}
            f == [x \in D |-> Reach(x) \ stop]
<1>1. ASSUME NEW x \in D PROVE x \in Reach(x) /\ Reach(x) \in SUBSET D /\ Closed(Reach(x))
  OBVIOUS
<1>2. ASSUME NEW x \in D, x \in stop PROVE f[x] = {}
  <2>1. Closed({x}) /\ {x} \in SUBSET D
    BY <1>2
  <2>2. Reach(x) \subseteq {x}
    BY <2>1
  <2>. QED
    BY <1>2, <2>2
<1>3. ASSUME NEW x \in D, x \notin stop PROVE f[x] = {x} \cup f[next[x]]
  <2>1. next[x] \in D
    BY <1>3
  <2>2. Reach(next[x]) \subseteq Reach(x)
    <3>. SUFFICES ASSUME NEW z \in Reach(next[x]), NEW S \in SUBSET D, Closed(S), x \in S PROVE z \in S
      BY DEF Reach
    <3>1. next[x] \in S
      BY <1>3
    <3>. QED
      BY <3>1
  <2>3. Reach(x) \subseteq {x} \cup Reach(next[x])
    <3>. DEFINE S == {x} \cup Reach(next[x])
    <3>1. /\ next[x] \in Reach(next[x]) /\ Reach(next[x]) \in SUBSET D
          /\ \A z \in Reach(next[x]) : z \notin stop => next[z] \in Reach(next[x])
      BY <1>1, <2>1
    <3>. HIDE DEF Reach
    <3>2. S \in SUBSET D /\ Closed(S) /\ x \in S
      BY <3>1
    <3>. HIDE DEF S
    <3>3. \A z \in Reach(x) : z \in S
      BY <3>2 DEF Reach
    <3>. QED
      BY <3>3 DEF S
  <2>4. x \in Reach(x)
    BY <1>1
  <2>5. Reach(x) = {x} \cup Reach(next[x])
    <3>. HIDE DEF Reach
    <3>. QED
      BY <2>2, <2>3, <2>4
  <2>6. f[x] = Reach(x) \ stop /\ f[next[x]] = Reach(next[x]) \ stop
    <3>. HIDE DEF Reach
    <3>. QED
      BY <2>1
  <2>. HIDE DEF Reach, f
  <2>. QED
    BY <1>3, <2>5, <2>6
<1>4. f = [x \in D |-> f[x]]
  <2>. HIDE DEF Reach
  <2>. QED
    OBVIOUS
<1>. HIDE DEF f
<1>5. f = [x \in D |-> IF x \in stop THEN {} ELSE {x} \cup f[next[x]]]
  BY <1>2, <1>3, <1>4
<1>. QED
  BY <1>5 DEF Collects

(* The walk meets the beginnings of the blocks. *)
LEMMA WalkFinds ==
  ASSUME NEW m, NEW P, NEW A, NEW brk, Layout(m, P, A, brk)
  PROVE  Blocks(m) = {x \in P : x # brk}
<1>. DEFINE D == heap_listp .. 2 * Junk
            Ends(bp) == HDRP(bp) \notin Addresses \/ GET_SIZE(m, HDRP(bp)) = 0
            stop == {bp \in D : Ends(bp)}
            next == [bp \in D |-> NEXT_BLKP(m, bp)]
            IsWalk(f) == f = [bp \in D |-> IF HDRP(bp) \notin Addresses \/ GET_SIZE(m, HDRP(bp)) = 0
                                             THEN {} ELSE {bp} \cup f[NEXT_BLKP(m, bp)]]
            from == CHOOSE f : IsWalk(f)
<1>1. /\ P \in SUBSET Bounds /\ m \in Words /\ P \subseteq Nat /\ brk \in P /\ brk \in Nat
      /\ (\A x \in P : x <= brk /\ heap_listp <= x /\ x <= PAGE_SIZE)
      /\ heap_listp \in P /\ heap_listp = 8 /\ m[HDRP(brk)] = PACK(0, 1)
      /\ PAGE_SIZE \in Nat /\ PAGE_SIZE >= 16
      /\ Junk = 8 * PAGE_SIZE + 1
      /\ \A a \in Addresses : a \in Nat /\ a <= PAGE_SIZE + 4
  BY BoundFacts, PageAssumption DEF Layout, Junk, DSIZE
<1>2. ASSUME NEW bp \in D, ~ Ends(bp) PROVE NEXT_BLKP(m, bp) \in D
  <2>1. HDRP(bp) \in Addresses /\ bp \in Nat /\ 8 <= bp /\ bp <= PAGE_SIZE + 8
    <3>1. HDRP(bp) \in Addresses /\ bp \in Nat /\ 8 <= bp /\ HDRP(bp) = bp - 4
      BY <1>1, <1>2 DEF HDRP, WSIZE
    <3>. QED
      BY <1>1, <3>1
  <2>2. m[HDRP(bp)] \in 0 .. Junk
    BY <1>1, <2>1 DEF Words
  <2>3. PICK w : w = m[HDRP(bp)]
    OBVIOUS
  <2>4. w - (w % 8) \in Nat /\ w - (w % 8) <= Junk
    BY <1>1, <2>2, <2>3
  <2>5. NEXT_BLKP(m, bp) = bp + (w - (w % 8))
    BY <2>3 DEF NEXT_BLKP, GET_SIZE
  <2>. QED
    BY <1>1, <2>1, <2>4, <2>5
<1>3. \E f : IsWalk(f)
  <2>1. stop \in SUBSET D /\ \A x \in D : x \notin stop => next[x] \in D
    BY <1>2
  <2>2. PICK f : Collects(f, D, stop, next)
    <3>. HIDE DEF stop, next, D
    <3>. QED
      BY <2>1, WalkExists
  <2>3. \A x \in D : (x \in stop <=> Ends(x)) /\ next[x] = NEXT_BLKP(m, x)
    OBVIOUS
  <2>4. IsWalk(f)
    <3>. HIDE DEF stop, next, D
    <3>. QED
      BY <2>2, <2>3 DEF Collects
  <2>. QED
    BY <2>4
<1>4. IsWalk(from)
  <2>. HIDE DEF IsWalk
  <2>. QED
    BY <1>3
<1>5. Blocks(m) = from[heap_listp]
  BY DEF Blocks
<1>. HIDE DEF from, D
<1>6. \A x \in P : x \in D
  BY <1>1 DEF D
<1>7. \A x \in D : from[x] = IF Ends(x) THEN {} ELSE {x} \cup from[NEXT_BLKP(m, x)]
  BY <1>4
<1>. HIDE DEF IsWalk
<1>8. from[brk] = {}
  <2>1. GET_SIZE(m, HDRP(brk)) = 0
    BY <1>1, TagFacts
  <2>. QED
    BY <1>1, <1>6, <1>7, <2>1
<1>9. ASSUME NEW x \in P, NEW y \in P, Adjacent(P, x, y)
      PROVE  from[x] = {x} \cup from[y]
  <2>1. NEXT_BLKP(m, x) = y /\ GET_SIZE(m, HDRP(x)) = y - x /\ x < y /\ x \in Nat /\ y \in Nat
        /\ HDRP(x) \in Addresses
    BY <1>1, <1>9, BlockFacts, BoundFacts
  <2>2. ~ Ends(x)
    BY <2>1
  <2>. HIDE DEF Ends
  <2>. QED
    BY <1>6, <1>7, <2>1, <2>2
<1>. DEFINE Rest(x) == {z \in P : x <= z /\ z # brk}
            Bad == {n \in Nat : \E x \in P : n = PAGE_SIZE - x /\ from[x] # Rest(x)}
<1>10. ASSUME NEW x \in P, from[x] # Rest(x) PROVE FALSE
  <2>1. Bad \in SUBSET Nat /\ Bad # {}
    <3>1. PAGE_SIZE - x \in Nat
      BY <1>1
    <3>. QED
      BY <1>10, <3>1
  <2>2. PICK n \in Bad : \A k \in Bad : n <= k
    <3>. HIDE DEF Bad
    <3>. QED
      BY <2>1, LeastOf
  <2>3. PICK u \in P : n = PAGE_SIZE - u /\ from[u] # Rest(u)
    BY <2>2
  <2>4. CASE u = brk
    <3>1. Rest(brk) = {}
      <4>. SUFFICES ASSUME NEW z \in P, brk <= z, z # brk PROVE FALSE
        OBVIOUS
      <4>. QED
        BY <1>1
    <3>. QED
      BY <1>8, <2>3, <2>4, <3>1
  <2>5. CASE u # brk
    <3>1. PICK v \in P : Adjacent(P, u, v)
      BY <2>5 DEF Layout
    <3>2. u < v /\ u \in Nat /\ v \in Nat /\ v <= PAGE_SIZE /\ u <= PAGE_SIZE
      BY <1>1, <3>1 DEF Adjacent
    <3>3. from[v] = Rest(v)
      <4>. SUFFICES ASSUME from[v] # Rest(v) PROVE FALSE
        OBVIOUS
      <4>1. PAGE_SIZE - v \in Bad
        BY <1>1, <3>2
      <4>. QED
        BY <1>1, <2>2, <2>3, <3>2, <4>1
    <3>4. Rest(u) = {u} \cup Rest(v)
      <4>1. \A z \in P : z \in Nat /\ (z <= u \/ v <= z)
        BY <1>1, <3>1 DEF Adjacent
      <4>2. \A z \in P : u <= z <=> z = u \/ v <= z
        BY <3>2, <4>1
      <4>. QED
        BY <2>5, <4>2
    <3>. HIDE DEF Rest
    <3>. QED
      BY <1>9, <2>3, <3>1, <3>3, <3>4
  <2>. QED
    BY <2>4, <2>5
<1>11. Rest(heap_listp) = {x \in P : x # brk}
  BY <1>1
<1>. QED
  BY <1>1, <1>5, <1>10, <1>11

-----------------------------------------------------------------------------
(* The steps.                                                              *)

(* The first fit is a free block of the heap with room enough. *)
LEMMA FitIsFree ==
  ASSUME NEW m, NEW P, NEW A, NEW brk, Layout(m, P, A, brk), NEW asize \in Nat, Fits(m, asize) # {}
  PROVE  LET bp == find_fit(m, asize)
         IN  bp \in P /\ bp \notin A /\ \E y \in P : Adjacent(P, bp, y) /\ asize <= y - bp
<1>. DEFINE bp == find_fit(m, asize)
<1>1. Blocks(m) = {x \in P : x # brk}
  BY WalkFinds
<1>2. Fits(m, asize) \subseteq Nat
  BY <1>1, BoundFacts DEF Fits, Layout
<1>3. \E n \in Fits(m, asize) : \A k \in Fits(m, asize) : n <= k
  BY <1>2, LeastOf
<1>4. bp \in Fits(m, asize)
  BY <1>3 DEF find_fit
<1>. HIDE DEF bp
<1>5. bp \in P /\ bp # brk /\ IsFree(m, bp) /\ asize <= GET_SIZE(m, HDRP(bp))
  BY <1>1, <1>4 DEF Fits
<1>6. PICK y \in P : Adjacent(P, bp, y)
  BY <1>5 DEF Layout
<1>7. bp \notin A /\ GET_SIZE(m, HDRP(bp)) = y - bp
  BY <1>5, <1>6, BlockFacts
<1>. QED
  BY <1>5, <1>6, <1>7 DEF bp

\* What Hand makes of the memory k and of the clients' blocks l.
Filled(k, bp, size)  == [a \in Addresses |-> IF a >= bp /\ a < bp + size THEN Junk ELSE k[a]]
Holding(l, bp, size) == [p \in DOMAIN l \cup {bp} |-> IF p = bp THEN size ELSE l[p]]

(* A client is given the block, or a part of it. *)
LEMMA GiveLays ==
  ASSUME NEW m, NEW P, NEW brk, NEW l, Laid(m, P, brk, l),
         NEW bp \in P, NEW y \in P, Adjacent(P, bp, y), bp \notin DOMAIN l \cup {heap_listp},
         NEW size \in Nat, AdjustedSize(size) <= y - bp
  PROVE  LET k == place(m, bp, AdjustedSize(size))
         IN  \E Q \in SUBSET Bounds :
                Laid(Filled(k, bp, size), Q, brk, Holding(l, bp, size))
<1>. DEFINE A == DOMAIN l \cup {heap_listp}
            k == place(m, bp, AdjustedSize(size))
            h == [p \in DOMAIN l \cup {bp} |-> IF p = bp THEN size ELSE l[p]]
            n == [a \in Addresses |-> IF a >= bp /\ a < bp + size THEN Junk ELSE k[a]]
<1>1. /\ Layout(m, P, A, brk) /\ Merged(P, A, brk, {}) /\ Roomy(P, l)
      /\ heap_listp \notin DOMAIN l /\ bp # heap_listp /\ bp \notin A
  BY DEF Laid
<1>2. /\ AdjustedSize(size) \in Nat /\ AdjustedSize(size) % 8 = 0
      /\ 16 <= AdjustedSize(size) /\ size + 8 <= AdjustedSize(size)
  BY AdjustedFacts
<1>3. A \cup {bp} = DOMAIN h \cup {heap_listp} /\ heap_listp \notin DOMAIN h
  BY <1>1
<1>. HIDE DEF A
<1>4. PICK Q \in SUBSET Bounds :
         /\ Layout(k, Q, A \cup {bp}, brk)
         /\ Merged(Q, A \cup {bp}, brk, {})
         /\ \E z \in Q : Adjacent(Q, bp, z) /\ AdjustedSize(size) <= z - bp
         /\ Kept(P, Q, A)
  BY <1>1, <1>2, PlaceLays
<1>5. PICK z \in Q : Adjacent(Q, bp, z) /\ AdjustedSize(size) <= z - bp
  BY <1>4
<1>6. z \in Nat /\ bp \in Nat /\ size + 8 <= z - bp
  <2>1. z \in Nat /\ bp \in Nat
    BY <1>5, BoundFacts DEF Adjacent
  <2>. QED
    BY <1>2, <1>5, <2>1
<1>. HIDE DEF k
<1>7. Layout(n, Q, A \cup {bp}, brk)
  BY <1>1, <1>4, <1>5, <1>6, HandLays
<1>8. Roomy(Q, h)
  <2>. SUFFICES ASSUME NEW u \in Q, NEW v \in Q, Adjacent(Q, u, v), u \in DOMAIN h
                PROVE  h[u] + DSIZE <= v - u
    BY DEF Roomy
  <2>1. CASE u = bp
    <3>1. v = z /\ h[u] = size
      BY <1>4, <1>5, <2>1, OneNeighbour
    <3>. QED
      BY <1>6, <2>1, <3>1 DEF DSIZE
  <2>2. CASE u # bp
    <3>1. u \in DOMAIN l /\ h[u] = l[u]
      BY <2>2
    <3>2. u \in P /\ v \in P /\ Adjacent(P, u, v)
      BY <1>4, <3>1 DEF Kept, A
    <3>. QED
      BY <1>1, <3>1, <3>2 DEF Roomy
  <2>. QED
    BY <2>1, <2>2
<1>. HIDE DEF h, n
<1>9. Laid(n, Q, brk, h)
  BY <1>3, <1>4, <1>7, <1>8 DEF Laid
<1>. QED
  BY <1>9 DEF n, h, k, Filled, Holding

(* The frame before a request, initialised if it was not. *)
LEMMA BaseLaid ==
  ASSUME HeapInv
  PROVE  /\ \E P \in SUBSET Bounds : Laid(Base, P, Brk, live)
         /\ Base \in Words /\ Brk # 0
<1>1. CASE mem_brk = 0
  <2>. DEFINE n == page_init(word)
  <2>1. /\ Layout(n, {heap_listp, 16}, {heap_listp}, 16)
        /\ Merged({heap_listp, 16}, {heap_listp}, 16, {})
        /\ {heap_listp, 16} \in SUBSET Bounds
    BY InitLays DEF HeapInv
  <2>2. DOMAIN live = {}
    BY <1>1 DEF HeapInv
  <2>3. DOMAIN live \cup {heap_listp} = {heap_listp}
    BY <2>2
  <2>4. Roomy({heap_listp, 16}, live)
    BY <2>2 DEF Roomy
  <2>5. Base = n /\ Brk = 16
    BY <1>1 DEF Base, Brk, WSIZE
  <2>. HIDE DEF n
  <2>6. Laid(n, {heap_listp, 16}, 16, live) /\ n \in Words
    BY <2>1, <2>2, <2>3, <2>4 DEF Laid, Layout
  <2>. QED
    BY <2>1, <2>5, <2>6
<1>2. CASE mem_brk # 0
  <2>1. Base = word /\ Brk = mem_brk
    BY <1>2 DEF Base, Brk
  <2>. QED
    BY <1>2, <2>1 DEF HeapInv
<1>. QED
  BY <1>1, <1>2

(* Where allocated blocks keep their neighbours they keep their room. *)
LEMMA RoomKept ==
  ASSUME NEW P, NEW Q, NEW l, NEW h, NEW A, Roomy(P, l), Kept(P, Q, A),
         DOMAIN h \subseteq A, \A p \in DOMAIN h : p \in DOMAIN l /\ h[p] = l[p]
  PROVE  Roomy(Q, h)
BY DEF Roomy, Kept

(* A request that is declined leaves an initialised frame. *)
LEMMA DeclineKeeps ==
  ASSUME HeapInv, NEW size, Decline(size)
  PROVE  HeapInv'
<1>1. PICK P \in SUBSET Bounds : Laid(Base, P, Brk, live)
  BY BaseLaid
<1>2. word' = Base /\ mem_brk' = Brk /\ live' = live /\ Base \in Words /\ Brk # 0
  BY BaseLaid DEF Decline
<1>3. Laid(word', P, mem_brk', live')
  BY <1>1, <1>2
<1>4. word' \in Words /\ mem_brk' # 0 /\ \A p \in DOMAIN live' : live'[p] \in Sizes
  BY <1>2 DEF HeapInv
<1>. QED
  BY <1>3, <1>4 DEF HeapInv

(* A client that has been handed a block of a heap that is laid. *)
LEMMA HandKeeps ==
  ASSUME HeapInv, NEW m, NEW P, NEW brk, Laid(m, P, brk, live), brk # 0,
         NEW bp \in P, NEW y \in P, Adjacent(P, bp, y), bp \notin DOMAIN live \cup {heap_listp},
         NEW size \in Sizes, AdjustedSize(size) <= y - bp,
         Hand(place(m, bp, AdjustedSize(size)), bp, size), mem_brk' = brk
  PROVE  HeapInv'
<1>0. size \in Nat
  BY PageAssumption
<1>1. PICK k : k = place(m, bp, AdjustedSize(size))
  OBVIOUS
<1>2. PICK Q \in SUBSET Bounds :
         Laid(Filled(k, bp, size), Q, brk, Holding(live, bp, size))
  BY <1>0, <1>1, GiveLays
<1>3. live' = Holding(live, bp, size) /\ word' = Filled(k, bp, size)
  BY <1>1 DEF Hand, Filled, Holding
<1>4. Laid(word', Q, mem_brk', live')
  BY <1>2, <1>3
<1>5. word' \in Words
  BY <1>4 DEF Laid, Layout
<1>6. \A p \in DOMAIN live' : live'[p] \in Sizes
  BY <1>3 DEF HeapInv, Holding
<1>. QED
  BY <1>4, <1>5, <1>6 DEF HeapInv

(* The first fit is given. *)
LEMMA FitKeeps ==
  ASSUME HeapInv, NEW size \in Sizes, Fit(size)
  PROVE  HeapInv'
<1>1. PICK P \in SUBSET Bounds : Laid(Base, P, Brk, live)
  BY BaseLaid
<1>. DEFINE asize == AdjustedSize(size)
            bp == find_fit(Base, asize)
            A == DOMAIN live \cup {heap_listp}
<1>2. Fits(Base, asize) # {} /\ Hand(place(Base, bp, asize), bp, size) /\ mem_brk' = Brk /\ Brk # 0
  BY BaseLaid DEF Fit
<1>3. asize \in Nat
  BY AdjustedFacts, PageAssumption
<1>4. Layout(Base, P, A, Brk)
  BY <1>1 DEF Laid
<1>5. PICK m : m = Base
  OBVIOUS
<1>. HIDE DEF asize
<1>6. bp \in P /\ bp \notin A /\ \E y \in P : Adjacent(P, bp, y) /\ asize <= y - bp
  <2>1. /\ find_fit(m, asize) \in P /\ find_fit(m, asize) \notin A
        /\ \E y \in P : Adjacent(P, find_fit(m, asize), y) /\ asize <= y - find_fit(m, asize)
    <3>1. Layout(m, P, A, Brk) /\ Fits(m, asize) # {}
      BY <1>2, <1>4, <1>5
    <3>. HIDE DEF A
    <3>. QED
      BY <1>3, <3>1, FitIsFree
  <2>. QED
    BY <1>5, <2>1
<1>. HIDE DEF bp
<1>7. PICK y \in P : Adjacent(P, bp, y) /\ asize <= y - bp
  BY <1>6
<1>. QED
  BY <1>1, <1>2, <1>6, <1>7, HandKeeps DEF asize

(* The heap is extended, and what it grew by is given. *)
LEMMA ExtendKeeps ==
  ASSUME HeapInv, NEW size \in Sizes, Extend(size)
  PROVE  HeapInv'
<1>1. PICK P \in SUBSET Bounds : Laid(Base, P, Brk, live)
  BY BaseLaid
<1>2. PICK asize : asize = AdjustedSize(size)
  OBVIOUS
<1>3. asize \in Nat /\ asize % 8 = 0 /\ 16 <= asize
  BY <1>2, AdjustedFacts, PageAssumption
<1>4. PICK brk : brk = Brk
  OBVIOUS
<1>5. PICK r : r = extend_heap(Base, brk, asize)
  OBVIOUS
<1>6. /\ Hand(place(r.mem, r.bp, asize), r.bp, size) /\ mem_brk' = brk + asize
      /\ brk + asize <= PAGE_SIZE
  BY <1>2, <1>4, <1>5 DEF Extend, CanExtend
<1>. DEFINE A == DOMAIN live \cup {heap_listp}
<1>7. Layout(Base, P, A, brk) /\ Merged(P, A, brk, {}) /\ Roomy(P, live) /\ heap_listp \notin DOMAIN live
  BY <1>1, <1>4 DEF Laid
<1>8. brk \in Nat /\ brk + asize # 0
  <2>1. brk \in Nat
    BY <1>7, BoundFacts DEF Layout
  <2>. QED
    BY <1>3, <2>1
<1>9. DOMAIN live \subseteq A
  OBVIOUS
<1>. HIDE DEF A
<1>10. PICK Q \in SUBSET Bounds :
          /\ Layout(r.mem, Q, A, brk + asize)
          /\ Merged(Q, A, brk + asize, {})
          /\ r.bp \in Q /\ r.bp \notin A
          /\ \E z \in Q : Adjacent(Q, r.bp, z) /\ asize <= z - r.bp
          /\ Kept(P, Q, A)
  <2>1. PICK m : m = Base
    OBVIOUS
  <2>2. LET q == extend_heap(m, brk, asize)
        IN  \E Q \in SUBSET Bounds :
               /\ Layout(q.mem, Q, A, brk + asize)
               /\ Merged(Q, A, brk + asize, {})
               /\ q.bp \in Q /\ q.bp \notin A
               /\ \E z \in Q : Adjacent(Q, q.bp, z) /\ asize <= z - q.bp
               /\ Kept(P, Q, A)
    BY <1>3, <1>6, <1>7, <2>1, ExtendLays
  <2>. QED
    BY <1>5, <2>1, <2>2
<1>11. PICK z \in Q : Adjacent(Q, r.bp, z) /\ asize <= z - r.bp
  BY <1>10
<1>12. Roomy(Q, live)
  BY <1>7, <1>9, <1>10, RoomKept
<1>13. Laid(r.mem, Q, brk + asize, live)
  BY <1>7, <1>10, <1>12 DEF Laid, A
<1>14. r.bp \notin DOMAIN live \cup {heap_listp}
  BY <1>10 DEF A
<1>15. PICK m, bp : m = r.mem /\ bp = r.bp
  OBVIOUS
<1>. QED
  BY <1>2, <1>6, <1>8, <1>10, <1>11, <1>13, <1>14, <1>15, HandKeeps

(* A block is freed. *)
LEMMA FreeKeeps ==
  ASSUME HeapInv, NEW bp \in DOMAIN live, page_free(bp)
  PROVE  HeapInv'
<1>1. mem_brk # 0 /\ mem_brk' = mem_brk
  BY DEF HeapInv, page_free
<1>2. PICK P \in SUBSET Bounds : Laid(word, P, mem_brk, live)
  BY <1>1 DEF HeapInv
<1>. DEFINE A == DOMAIN live \cup {heap_listp}
<1>3. Layout(word, P, A, mem_brk) /\ Merged(P, A, mem_brk, {}) /\ Roomy(P, live) /\ heap_listp \notin DOMAIN live
  BY <1>2 DEF Laid
<1>4. bp \in A /\ bp # heap_listp
  BY <1>3
<1>5. /\ word' = coalesce(Tag(word, bp, GET_SIZE(word, HDRP(bp)), 0), bp).mem
      /\ live' = [p \in DOMAIN live \ {bp} |-> live[p]]
  BY DEF page_free
<1>6. DOMAIN live' = DOMAIN live \ {bp} /\ \A p \in DOMAIN live' : live'[p] = live[p]
  BY <1>5
<1>7. A \ {bp} = DOMAIN live' \cup {heap_listp} /\ heap_listp \notin DOMAIN live' /\ DOMAIN live' \subseteq A \ {bp}
  BY <1>3, <1>4, <1>6
<1>. HIDE DEF A
<1>8. PICK Q \in SUBSET Bounds :
         /\ Layout(word', Q, A \ {bp}, mem_brk)
         /\ Merged(Q, A \ {bp}, mem_brk, {})
         /\ Kept(P, Q, A \ {bp})
  <2>1. PICK m : m = word
    OBVIOUS
  <2>2. \E Q \in SUBSET Bounds :
            /\ Layout(coalesce(Tag(m, bp, GET_SIZE(m, HDRP(bp)), 0), bp).mem, Q, A \ {bp}, mem_brk)
            /\ Merged(Q, A \ {bp}, mem_brk, {})
            /\ Kept(P, Q, A \ {bp})
    BY <1>3, <1>4, <2>1, FreeLays
  <2>. QED
    BY <1>5, <2>1, <2>2
<1>9. Roomy(Q, live')
  <2>1. \A p \in DOMAIN live' : p \in DOMAIN live /\ live'[p] = live[p]
    BY <1>6
  <2>. QED
    BY <1>3, <1>7, <1>8, <2>1, RoomKept
<1>10. Laid(word', Q, mem_brk', live')
  BY <1>1, <1>7, <1>8, <1>9 DEF Laid
<1>11. word' \in Words /\ \A p \in DOMAIN live' : live'[p] \in Sizes
  BY <1>6, <1>8 DEF Layout, HeapInv
<1>. QED
  BY <1>1, <1>10, <1>11 DEF HeapInv

(* The layout of the heap is an invariant. *)
LEMMA HeapInvariant == Spec => []HeapInv
<1>1. Init => HeapInv
  <2>. SUFFICES ASSUME Init PROVE HeapInv
    OBVIOUS
  <2>1. Junk \in 0 .. Junk
    BY BoundFacts DEF Junk, DSIZE
  <2>2. word \in Words /\ mem_brk = 0 /\ DOMAIN live = {}
    BY <2>1 DEF Init, Words
  <2>. QED
    BY <2>2 DEF HeapInv
<1>2. HeapInv /\ [Next]_vars => HeapInv'
  <2>. SUFFICES ASSUME HeapInv, [Next]_vars PROVE HeapInv'
    OBVIOUS
  <2>1. ASSUME NEW size \in Sizes, page_malloc(size) PROVE HeapInv'
    BY <2>1, DeclineKeeps, FitKeeps, ExtendKeeps DEF page_malloc
  <2>2. ASSUME NEW bp \in DOMAIN live, page_free(bp) PROVE HeapInv'
    BY <2>2, FreeKeeps
  <2>3. CASE UNCHANGED vars
    <3>1. word' = word /\ mem_brk' = mem_brk /\ live' = live
      BY <2>3 DEF vars
    <3>. QED
      BY <3>1 DEF HeapInv
  <2>. QED
    BY <2>1, <2>2, <2>3 DEF Next
<1>. QED
  BY <1>1, <1>2, PTL DEF Spec

-----------------------------------------------------------------------------
(* What the walk finds in a heap that is laid.                             *)

(* The walk finds blocks end to end, *)
LEMMA LaidTiles ==
  ASSUME HeapInv
  PROVE  BlocksTileHeap
<1>. SUFFICES ASSUME mem_brk # 0
              PROVE  /\ \A bp \in Blocks(word) \ {heap_listp} :
                           /\ GET_SIZE(word, HDRP(bp)) >= 2 * DSIZE
                           /\ word[FTRP(word, bp)] = word[HDRP(bp)]
                           /\ \A other \in Blocks(word) : other > bp => other >= NEXT_BLKP(word, bp)
                     /\ \E bp \in Blocks(word) : NEXT_BLKP(word, bp) = mem_brk
                     /\ word[mem_brk - WSIZE] = PACK(0, 1)
  BY DEF BlocksTileHeap
<1>. DEFINE A == DOMAIN live \cup {heap_listp}
<1>1. PICK P \in SUBSET Bounds : Layout(word, P, A, mem_brk)
  BY DEF HeapInv, Laid
<1>. HIDE DEF A
<1>2. Blocks(word) = {x \in P : x # mem_brk} /\ P \subseteq Nat
  BY <1>1, WalkFinds, BoundFacts
<1>3. ASSUME NEW bp \in Blocks(word) \ {heap_listp}
      PROVE  /\ GET_SIZE(word, HDRP(bp)) >= 2 * DSIZE
             /\ word[FTRP(word, bp)] = word[HDRP(bp)]
             /\ \A other \in Blocks(word) : other > bp => other >= NEXT_BLKP(word, bp)
  <2>1. bp \in P /\ bp # mem_brk
    BY <1>2
  <2>2. PICK y \in P : Adjacent(P, bp, y)
    BY <1>1, <2>1 DEF Layout
  <2>3. /\ GET_SIZE(word, HDRP(bp)) = y - bp /\ y - bp >= 16
        /\ NEXT_BLKP(word, bp) = y /\ word[FTRP(word, bp)] = word[HDRP(bp)]
    BY <1>1, <2>1, <2>2, BlockFacts
  <2>4. ASSUME NEW other \in Blocks(word), other > bp PROVE other >= y
    <3>1. other \in P /\ other \in Nat /\ bp \in Nat /\ y \in Nat /\ (other <= bp \/ y <= other)
      BY <1>2, <2>1, <2>2 DEF Adjacent
    <3>. QED
      BY <2>4, <3>1
  <2>. QED
    BY <2>3, <2>4 DEF DSIZE
<1>4. \E bp \in Blocks(word) : NEXT_BLKP(word, bp) = mem_brk
  <2>1. mem_brk \in P /\ mem_brk # heap_listp
    BY <1>1 DEF Layout, A
  <2>2. PICK x \in P : Adjacent(P, x, mem_brk)
    BY <1>1, <2>1 DEF Layout
  <2>3. x # mem_brk /\ NEXT_BLKP(word, x) = mem_brk
    <3>1. x < mem_brk /\ NEXT_BLKP(word, x) = mem_brk /\ x \in Nat /\ mem_brk \in Nat
      BY <1>1, <1>2, <2>1, <2>2, BlockFacts
    <3>. QED
      BY <3>1
  <2>. QED
    BY <1>2, <2>3
<1>5. word[mem_brk - WSIZE] = PACK(0, 1)
  BY <1>1 DEF Layout, HDRP
<1>. QED
  BY <1>3, <1>4, <1>5

(* the allocated ones are those the clients hold, *)
LEMMA LaidApart ==
  ASSUME HeapInv
  PROVE  PayloadsApart
<1>. SUFFICES ASSUME mem_brk # 0
              PROVE  /\ {bp \in Blocks(word) \ {heap_listp} : ~ IsFree(word, bp)} = DOMAIN live
                     /\ \A bp \in DOMAIN live :
                           bp % DSIZE = 0 /\ live[bp] + DSIZE <= GET_SIZE(word, HDRP(bp))
  BY DEF PayloadsApart
<1>. DEFINE A == DOMAIN live \cup {heap_listp}
<1>1. PICK P \in SUBSET Bounds : Layout(word, P, A, mem_brk) /\ Roomy(P, live) /\ heap_listp \notin DOMAIN live
  BY DEF HeapInv, Laid
<1>2. Blocks(word) = {x \in P : x # mem_brk}
  BY <1>1, WalkFinds
<1>3. DOMAIN live \subseteq P /\ mem_brk \notin DOMAIN live
  BY <1>1 DEF Layout
<1>4. ASSUME NEW bp \in P, bp # mem_brk, bp # heap_listp
      PROVE  /\ ~ IsFree(word, bp) <=> bp \in DOMAIN live
             /\ bp \in DOMAIN live => live[bp] + DSIZE <= GET_SIZE(word, HDRP(bp))
             /\ bp % DSIZE = 0
  <2>1. PICK y \in P : Adjacent(P, bp, y)
    BY <1>1, <1>4 DEF Layout
  <2>2. (IsFree(word, bp) <=> bp \notin A) /\ GET_SIZE(word, HDRP(bp)) = y - bp
    BY <1>1, <2>1, BlockFacts
  <2>3. bp \in DOMAIN live => live[bp] + DSIZE <= y - bp
    BY <1>1, <2>1 DEF Roomy
  <2>4. bp % DSIZE = 0
    BY DEF Bounds
  <2>. QED
    BY <1>4, <2>2, <2>3, <2>4
<1>. QED
  BY <1>1, <1>2, <1>3, <1>4

(* and no two free ones are neighbours. *)
LEMMA LaidCoalesced ==
  ASSUME HeapInv
  PROVE  FullyCoalesced
<1>. SUFFICES ASSUME mem_brk # 0, NEW bp \in Blocks(word), IsFree(word, bp),
                     NEXT_BLKP(word, bp) < mem_brk, IsFree(word, NEXT_BLKP(word, bp))
              PROVE  FALSE
  BY DEF FullyCoalesced
<1>. DEFINE A == DOMAIN live \cup {heap_listp}
<1>1. PICK P \in SUBSET Bounds : Layout(word, P, A, mem_brk) /\ Merged(P, A, mem_brk, {})
  BY DEF HeapInv, Laid
<1>. HIDE DEF A
<1>2. bp \in P /\ bp # mem_brk /\ P \subseteq Nat /\ mem_brk \in P
  <2>1. Blocks(word) = {x \in P : x # mem_brk}
    BY <1>1, WalkFinds
  <2>2. mem_brk \in P
    BY <1>1 DEF Layout
  <2>. QED
    BY <2>1, <2>2, BoundFacts
<1>3. PICK y \in P : Adjacent(P, bp, y)
  BY <1>1, <1>2 DEF Layout
<1>4. NEXT_BLKP(word, bp) = y /\ bp \notin A
  BY <1>1, <1>2, <1>3, BlockFacts
<1>5. y # mem_brk
  BY <1>2, <1>4
<1>6. PICK z \in P : Adjacent(P, y, z)
  BY <1>1, <1>5 DEF Layout
<1>7. y \notin A
  BY <1>1, <1>4, <1>6, BlockFacts
<1>. QED
  BY <1>1, <1>2, <1>3, <1>4, <1>5, <1>7 DEF Merged

(***************************************************************************)
(* The blocks that the walk over the headers finds end where the next      *)
(* begins, the last one at mem_brk, each with equal tags at both ends and  *)
(* big enough to be freed again: page_malloc, page_free, place, coalesce   *)
(* and extend_heap never lose a word of the frame.                         *)
(***************************************************************************)
THEOREM BlocksTileHeapCorrect == Spec => []BlocksTileHeap
  BY HeapInvariant, LaidTiles, PTL

(***************************************************************************)
(* The blocks that are marked allocated are those the clients hold, and    *)
(* each has room for what was asked besides its tags.                      *)
(***************************************************************************)
THEOREM PayloadsApartCorrect == Spec => []PayloadsApart
  BY HeapInvariant, LaidApart, PTL

(***************************************************************************)
(* page_free and extend_heap leave no two free neighbours: one look at     *)
(* each side of the block that becomes free is enough.                     *)
(***************************************************************************)
THEOREM FullyCoalescedCorrect == Spec => []FullyCoalesced
  BY HeapInvariant, LaidCoalesced, PTL
=============================================================================
