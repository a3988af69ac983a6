------------------------------ MODULE PageHeap ------------------------------
(***************************************************************************)
(* The allocator inside one page frame: page_malloc and page_free of       *)
(* src/hw2/code/multiQ/memlib.c, a first-fit list of blocks with boundary  *)
(* tags.  Addresses are byte offsets in the frame; a word holds a tag      *)
(* PACK(size, alloc) or whatever a client wrote into its payload.          *)
(*                                                                         *)
(* A request the frame cannot serve goes on to the next frame in the code; *)
(* that belongs to the page manager, and is no step here.                  *)
(***************************************************************************)
EXTENDS Integers, FiniteSets

CONSTANTS
    PAGE_SIZE,   \* bytes of a frame (4096)
    Sizes        \* the request sizes that clients use

ASSUME PageAssumption ==
    /\ PAGE_SIZE \in Nat /\ PAGE_SIZE >= 16 /\ PAGE_SIZE % 8 = 0
    /\ Sizes \subseteq Nat

WSIZE == 4
DSIZE == 8

VARIABLES
    word,        \* the words of the frame, and the first two of the next frame
    mem_brk,     \* how far the frame is in use; 0 before page_init
    live         \* a function from the pointers clients hold to the sizes they asked for

vars == <<word, mem_brk, live>>

Addresses == {WSIZE * i : i \in 0 .. (PAGE_SIZE \div WSIZE) + 1}
Junk      == DSIZE * PAGE_SIZE + 1   \* a client's word, no tag of this frame

-----------------------------------------------------------------------------
(* Tags.  m is the memory an operator reads.                               *)

PACK(size, alloc)  == size + alloc
GET_SIZE(m, a)     == m[a] - (m[a] % 8)
GET_ALLOC(m, a)    == m[a] % 2
PUT(m, a, val)     == [m EXCEPT ![a] = val]

HDRP(bp)           == bp - WSIZE
FTRP(m, bp)        == bp + GET_SIZE(m, HDRP(bp)) - DSIZE
NEXT_BLKP(m, bp)   == bp + GET_SIZE(m, HDRP(bp))
PREV_BLKP(m, bp)   == bp - GET_SIZE(m, bp - DSIZE)

\* Header and footer of the block at bp.
Tag(m, bp, size, alloc) ==
    PUT(PUT(m, HDRP(bp), PACK(size, alloc)), bp + size - DSIZE, PACK(size, alloc))

heap_listp == 2 * WSIZE   \* the prologue block

\* The blocks from heap_listp up to the epilogue, in the order of the walk.
Blocks(m) ==
    LET from[bp \in heap_listp .. 2 * Junk] ==
          IF HDRP(bp) \notin Addresses \/ GET_SIZE(m, HDRP(bp)) = 0 THEN {}
          ELSE {bp} \cup from[NEXT_BLKP(m, bp)]
    IN  from[heap_listp]

IsFree(m, bp) == GET_ALLOC(m, HDRP(bp)) = 0

-----------------------------------------------------------------------------
coalesce_ForwardOnly(m, bp) ==
    LET next == NEXT_BLKP(m, bp)
    IN  [mem |-> IF IsFree(m, next)
                 THEN Tag(m, bp, GET_SIZE(m, HDRP(bp)) + GET_SIZE(m, HDRP(next)), 0)
                 ELSE m,
         bp  |-> bp]

\* coalesce, the four cases in one: the free block at bp joins its free
\* neighbours; the previous one is found through its footer.  The result is
\* the memory and the block that holds bp now.
coalesce(m, bp) ==
    LET prev     == PREV_BLKP(m, bp)
        next     == NEXT_BLKP(m, bp)
        prevFree == GET_ALLOC(m, FTRP(m, prev)) = 0
        nextFree == IsFree(m, next)
        first    == IF prevFree THEN prev ELSE bp
        size     == GET_SIZE(m, HDRP(bp))
                    + (IF prevFree THEN GET_SIZE(m, HDRP(prev)) ELSE 0)
                    + (IF nextFree THEN GET_SIZE(m, FTRP(m, next)) ELSE 0)
    IN  [mem |-> IF prevFree \/ nextFree THEN Tag(m, first, size, 0) ELSE m,
         bp  |-> first]

place_SplitsAlways(m, bp, asize) ==
    LET csize == GET_SIZE(m, HDRP(bp))
    IN  IF csize - asize >= DSIZE
        THEN Tag(Tag(m, bp, asize, 1), bp + asize, csize - asize, 0)
        ELSE Tag(m, bp, csize, 1)

\* place splits the block if the rest is at least a minimal block.
place(m, bp, asize) ==
    LET csize == GET_SIZE(m, HDRP(bp))
    IN  IF csize - asize >= 2 * DSIZE
        THEN Tag(Tag(m, bp, asize, 1), bp + asize, csize - asize, 0)
        ELSE Tag(m, bp, csize, 1)

AdjustedSize_NoOverhead(size) == DSIZE * ((size + DSIZE - 1) \div DSIZE)

\* Room for header and footer, rounded up to a double word.
AdjustedSize(size) ==
    IF size <= DSIZE THEN 2 * DSIZE
    ELSE DSIZE * ((size + DSIZE + DSIZE - 1) \div DSIZE)

Fits(m, asize) == {bp \in Blocks(m) : IsFree(m, bp) /\ asize <= GET_SIZE(m, HDRP(bp))}
find_fit(m, asize) ==
    CHOOSE bp \in Fits(m, asize) : \A other \in Fits(m, asize) : bp <= other

\* page_sbrk refuses to go beyond the frame.
CanExtend(brk, size) == brk + size <= PAGE_SIZE

\* extend_heap: a free block over the old epilogue, a new epilogue behind it.
extend_heap(m, brk, size) ==
    coalesce(PUT(Tag(m, brk, size, 0), brk + size - WSIZE, PACK(0, 1)), brk)

page_init(m) ==
    [m EXCEPT ![0] = 0, ![WSIZE] = PACK(DSIZE, 1), ![2 * WSIZE] = PACK(DSIZE, 1),
              ![3 * WSIZE] = PACK(0, 1)]

-----------------------------------------------------------------------------
Init ==
    /\ word = [a \in Addresses |-> Junk]
    /\ mem_brk = 0
    /\ live = <<>>

\* The client gets bp for size bytes and writes into all of them.
Hand(m, bp, size) ==
    /\ live' = [p \in DOMAIN live \cup {bp} |-> IF p = bp THEN size ELSE live[p]]
    /\ word' = [a \in Addresses |-> IF a >= bp /\ a < bp + size THEN Junk ELSE m[a]]

Base == IF mem_brk = 0 THEN page_init(word) ELSE word
Brk  == IF mem_brk = 0 THEN 4 * WSIZE ELSE mem_brk

\* A request of 0 or of more than a page: the frame is initialised, no more.
Decline(size) ==
    /\ size = 0 \/ size > PAGE_SIZE
    /\ word' = Base
    /\ mem_brk' = Brk
    /\ UNCHANGED live

Fit(size) ==
    LET asize == AdjustedSize(size)
        bp    == find_fit(Base, asize)
    IN  /\ size \in 1 .. PAGE_SIZE
        /\ Fits(Base, asize) # {}
        /\ Hand(place(Base, bp, asize), bp, size)
        /\ mem_brk' = Brk

Extend(size) ==
    LET asize == AdjustedSize(size)
        grown == extend_heap(Base, Brk, asize)
    IN  /\ size \in 1 .. PAGE_SIZE
        /\ Fits(Base, asize) = {}
        /\ CanExtend(Brk, asize)
        /\ Hand(place(grown.mem, grown.bp, asize), grown.bp, size)
        /\ mem_brk' = Brk + asize

page_malloc(size) == Decline(size) \/ Fit(size) \/ Extend(size)

page_free(bp) ==
    LET size == GET_SIZE(word, HDRP(bp))
    IN  /\ bp \in DOMAIN live
        /\ word' = coalesce(Tag(word, bp, size, 0), bp).mem
        /\ live' = [p \in DOMAIN live \ {bp} |-> live[p]]
        /\ UNCHANGED mem_brk

Next ==
    \/ \E size \in Sizes : page_malloc(size)
    \/ \E bp \in DOMAIN live : page_free(bp)

Spec == Init /\ [][Next]_vars
-----------------------------------------------------------------------------
(* Properties.                                                             *)

\* The types; the next frame's words are never written.
TypeOK ==
    /\ word \in [Addresses -> Nat]
    /\ \A a \in Addresses : a >= PAGE_SIZE => word[a] = Junk
    /\ mem_brk \in {0} \cup 16 .. PAGE_SIZE
    /\ DOMAIN live \subseteq Addresses
    /\ \A bp \in DOMAIN live : live[bp] \in Sizes

\* What the walk over the headers finds, through every split, merge and
\* extension: blocks that end where the next begins, the last at mem_brk,
\* each with equal header and footer, each big enough to be freed again.
BlocksTileHeap ==
    mem_brk # 0 =>
      /\ \A bp \in Blocks(word) \ {heap_listp} :
            /\ GET_SIZE(word, HDRP(bp)) >= 2 * DSIZE
            /\ word[FTRP(word, bp)] = word[HDRP(bp)]
            /\ \A other \in Blocks(word) : other > bp => other >= NEXT_BLKP(word, bp)
      /\ \E bp \in Blocks(word) : NEXT_BLKP(word, bp) = mem_brk
      /\ word[mem_brk - WSIZE] = PACK(0, 1)

\* The allocated blocks are those the clients hold, and each has room for
\* what was asked besides its tags: no two payloads overlap, and no client
\* can write over a tag.
PayloadsApart ==
    mem_brk # 0 =>
      /\ {bp \in Blocks(word) \ {heap_listp} : ~ IsFree(word, bp)} = DOMAIN live
      /\ \A bp \in DOMAIN live :
            bp % DSIZE = 0 /\ live[bp] + DSIZE <= GET_SIZE(word, HDRP(bp))

\* Freed blocks are merged at once: no two neighbours are both free.
FullyCoalesced ==
    mem_brk # 0 =>
      \A bp \in Blocks(word) :
         IsFree(word, bp) /\ NEXT_BLKP(word, bp) < mem_brk
           => ~ IsFree(word, NEXT_BLKP(word, bp))
=============================================================================
