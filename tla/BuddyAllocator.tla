--------------------------- MODULE BuddyAllocator ---------------------------
(***************************************************************************)
(* The buddy allocator of video memory (AC/CEsvga2Allocator.cpp) as the    *)
(* accelerator uses it: setupAllocator hands it the pool, and VRAMMalloc,  *)
(* VRAMRealloc and VRAMFree call it under the accelerator lock, so that    *)
(* one call is one step.  The build defines FRAGILE: freed memory and the  *)
(* bit map are not cleared, and what a chunk held stays in it.             *)
(*                                                                         *)
(* Sizes are counted in blocks of 2^minBits bytes.  The allocator keeps    *)
(* its lists inside the free memory itself: of each block the model keeps  *)
(* the words at its start that would be a free chunk's header and the word *)
(* at its end that would be a free chunk's trailer.  The owners of chunks  *)
(* leave all of them as they are, or overwrite them with arbitrary data,   *)
(* or with data that looks like a header and a trailer.                    *)
(***************************************************************************)
EXTENDS Integers, FiniteSets, FiniteSetsExt

CONSTANTS PoolBlocks,   \* poolBlocks
          NumSizes,     \* numSizes: chunks have 2^0 .. 2^(NumSizes-1) blocks
          Reserve,      \* SVGA_FB_MAX_TRACEABLE_SIZE, in blocks
          Requests,     \* sizes asked for, in blocks
          UserData      \* what the owners of chunks may write into them

ASSUME PoolAssumption ==
  /\ PoolBlocks \in Nat \ {0} /\ NumSizes \in Nat \ {0}
  /\ Reserve = 2^(NumSizes - 1) /\ Requests \subseteq Nat \ {0}
  /\ UserData \subseteq {"untouched", "garbage", "lookalike"}

OURNULL == -1
Garbage == -2           \* a word of user data
Block   == 0..(PoolBlocks - 1)
Sizes   == 0..(NumSizes - 1)

VARIABLES pool,         \* the allocator's members and the words in the pool
          live,         \* chunks handed out and not freed, as << offset, bits >>
          userData      \* what the owners of chunks write into them

vars == << pool, live, userData >>

Span(off, bits) == off..(off + 2^bits - 1)
Chunk == {c \in Block \X Sizes : Span(c[1], c[2]) \subseteq Block}

(***************************************************************************)
(* The pool after Init: the bit map takes every block for allocated.       *)
(***************************************************************************)
EmptyPool == [map     |-> Block,
              list    |-> [k \in Sizes |-> OURNULL],
              magic   |-> [b \in Block |-> FALSE],
              prev    |-> [b \in Block |-> Garbage],
              next    |-> [b \in Block |-> Garbage],
              trailer |-> [b \in Block |-> Garbage],
              free    |-> 0]

Link(f, b, v) == IF b = OURNULL THEN f ELSE [f EXCEPT ![b] = v]

\* Mutant: the old head of the list does not get its back link.
MakeFreeNoBackLink(p, i, bits) ==
  [p EXCEPT !.magic[i] = TRUE,
            !.prev[i] = OURNULL,
            !.next[i] = p.list[bits],
            !.trailer[i + 2^bits - 1] = bits,
            !.list[bits] = i,
            !.free = @ + 2^bits]

MakeFree(p, i, bits) ==
  [p EXCEPT !.magic[i] = TRUE,
            !.prev = Link([@ EXCEPT ![i] = OURNULL], p.list[bits], i),
            !.next[i] = p.list[bits],
            !.trailer[i + 2^bits - 1] = bits,
            !.list[bits] = i,
            !.free = @ + 2^bits]

\* Mutant: a chunk need not be on a boundary of its size.
FitsUnaligned(i, bits, past) == i + 2^bits <= past

\* Mutant: the memory is cut into the smallest chunks.
FitsSmallest(i, bits, past) == bits = 0 /\ i < past

Fits(i, bits, past) == i + 2^bits <= past /\ i % 2^bits = 0

\* The two inner loops of toFree: up from the size of the chunk made before,
\* then down until the chunk fits and is aligned.
NextBits(i, past, bits) ==
  LET top == Max({j \in bits..(NumSizes - 1) :
                    \A m \in (bits + 1)..j : Fits(i, m, past)})
  IN  Max({j \in 0..top : Fits(i, j, past)})

\* One turn of the loop of toFree.
ToFreeTurn(s, past) ==
  IF s.i >= past THEN s
  ELSE LET j == NextBits(s.i, past, s.bits)
       IN  [pool |-> MakeFree(s.pool, s.i, j), i |-> s.i + 2^j, bits |-> j]

\* Each turn frees a block at least, so past - first turns are enough.
ToFree(p, first, past) ==
  LET turn[n \in Nat] == IF n = 0 THEN [pool |-> p, i |-> first, bits |-> 0]
                                  ELSE ToFreeTurn(turn[n - 1], past)
  IN  turn[past - first].pool

\* Release clears the bits, which are all set when setupAllocator calls it.
Release(p, first, past) ==
  ToFree([p EXCEPT !.map = @ \ (first..(past - 1))], first, past)

\* setupAllocator: the memory past the traceable frame buffer is released, and
\* the frame buffer itself only when the device has a separate front buffer.
SetupAllocator(haveFrontBuffer) ==
  LET p == IF Reserve < PoolBlocks THEN Release(EmptyPool, Reserve, PoolBlocks)
                                   ELSE EmptyPool
  IN  IF haveFrontBuffer THEN Release(p, 0, Min({Reserve, PoolBlocks})) ELSE p

Init ==
  /\ \E haveFrontBuffer \in BOOLEAN : pool = SetupAllocator(haveFrontBuffer)
  /\ live = {}
  /\ userData \in UserData

(***************************************************************************)
(* The operations as functions of the pool.  Each one returns the new      *)
(* pool, the code and the offset of the chunk.                             *)
(***************************************************************************)
Answer(p, ret, off) == [pool |-> p, ret |-> ret, off |-> off]

BadNode(p, b) == b \notin Block \/ ~p.magic[b]

\* The first chunk of list k is taken and its part up to past marked as in use.
Taken(p, k, past) ==
  [p EXCEPT !.prev = Link(@, p.next[p.list[k]], OURNULL),
            !.list[k] = p.next[p.list[k]],
            !.map = @ \cup {past - 1},
            !.free = @ - 2^k]

BuddyMalloc(p, bits) ==
  LET found == {k \in bits..(NumSizes - 1) : p.list[k] # OURNULL} IN
  IF p.free < 2^bits \/ found = {} THEN Answer(p, "kIOReturnNoMemory", OURNULL)
  ELSE
    LET k    == Min(found)
        off  == p.list[k]
        nxt  == p.next[off]
        past == off + 2^bits
    IN  IF \/ BadNode(p, off)
           \/ p.prev[off] # OURNULL \/ p.trailer[off + 2^k - 1] # k
           \/ nxt # OURNULL /\ (BadNode(p, nxt) \/ p.prev[nxt] # off)
        THEN Answer(p, "kIOReturnInternalError", OURNULL)
        ELSE Answer(ToFree(Taken(p, k, past), past, off + 2^k),
                    "kIOReturnSuccess", off)

\* The size class of a request.
BitsFor(n) == Min({k \in 0..n : 2^k >= n})

\* Malloc gives up two sizes above the largest, BuddyMalloc one above it.
Malloc(p, n) == IF BitsFor(n) > NumSizes
                THEN Answer(p, "kIOReturnNoResources", OURNULL)
                ELSE BuddyMalloc(p, BitsFor(n))

\* BuddyAllocSize walks up the sizes to the first marked end of a chunk.
AllocSizes(p, off) ==
  {k \in Sizes : /\ off + 2^k <= PoolBlocks /\ off % 2^k = 0
                 /\ off + 2^k - 1 \in p.map
                 /\ \A j \in 0..(k - 1) : off + 2^j - 1 \notin p.map}

\* Mutant: the buddy is always the chunk above.
BuddyAbove(off, bits) == off + 2^bits

Buddy(off, bits) == IF (off \div 2^bits) % 2 = 0 THEN off + 2^bits
                                                 ELSE off - 2^bits

\* The tests of b and its neighbours on the list before it is taken off.
BadLinks(p, b) ==
  LET pr == p.prev[b]
      nx == p.next[b]
  IN  \/ BadNode(p, b)
      \/ pr # OURNULL /\ (BadNode(p, pr) \/ p.next[pr] # b)
      \/ nx # OURNULL /\ (BadNode(p, nx) \/ p.prev[nx] # b)

\* Take the free chunk b off list bits; the code tests the neighbours first.
Unlink(p, b, bits) ==
  LET pr == p.prev[b]
      nx == p.next[b]
  IN  [p EXCEPT !.list[bits] = IF pr = OURNULL THEN nx ELSE @,
                !.next = [Link(@, pr, nx) EXCEPT ![b] = 0],
                !.prev = [Link(@, nx, pr) EXCEPT ![b] = 0],
                !.magic[b] = FALSE,
                !.trailer[b + 2^bits - 1] = Garbage]

\* One turn of the loop of Free that merges a chunk with its free buddies.
MergeTurn(s) ==
  LET b == Buddy(s.off, s.bits)
      e == b + 2^s.bits - 1
      done == [s EXCEPT !.at = "done"]
      bad  == [s EXCEPT !.at = "bad"]
  IN  IF s.at # "merge" THEN s
      ELSE IF s.bits >= NumSizes - 1 \/ e \notin Block \/ e \in s.pool.map THEN done
      ELSE IF s.pool.trailer[e] \notin Sizes THEN bad
      ELSE IF s.pool.trailer[e] # s.bits THEN done
      ELSE IF BadLinks(s.pool, b) \/ s.pool.list[s.bits] = OURNULL THEN bad
      ELSE [s EXCEPT !.pool = Unlink(@, b, s.bits),
                     !.off = Min({@, b}), !.bits = @ + 1]

\* Each turn but the last doubles the chunk, so NumSizes turns are enough.
Merge(p, off, bits) ==
  LET turn[n \in Nat] ==
        IF n = 0 THEN [pool |-> p, off |-> off, bits |-> bits, at |-> "merge"]
                 ELSE MergeTurn(turn[n - 1])
  IN  turn[NumSizes]

Free(p, off) ==
  LET found == AllocSizes(p, off) IN
  IF found = {} THEN Answer(p, "kIOReturnNotAligned", off)
  ELSE
    LET bits == Min(found)
        m    == Merge([p EXCEPT !.map = @ \ {off + 2^bits - 1}], off, bits)
        head == m.pool.list[m.bits]
    IN  IF \/ m.at = "bad"
           \/ head # OURNULL /\ (BadNode(m.pool, head) \/ m.pool.prev[head] # OURNULL)
        THEN Answer(m.pool, "kIOReturnInternalError", off)
        ELSE Answer([MakeFree(m.pool, m.off, m.bits) EXCEPT !.free = p.free + 2^bits],
                    "kIOReturnSuccess", off)

\* Mutant: memcpy is called with source and destination exchanged.
CopyBack(p, from, to, n) ==
  LET Src(f) == [b \in Block |-> IF b \in from..(from + n - 1) THEN f[b - from + to]
                                                               ELSE f[b]]
  IN  [p EXCEPT !.magic = Src(@), !.prev = Src(@), !.next = Src(@),
                !.trailer = Src(@)]

\* memcpy of a chunk's blocks into another chunk.
Copy(p, from, to, n) ==
  LET Src(f) == [b \in Block |-> IF b \in to..(to + n - 1) THEN f[b - to + from]
                                                           ELSE f[b]]
  IN  [p EXCEPT !.magic = Src(@), !.prev = Src(@), !.next = Src(@),
                !.trailer = Src(@)]

Shrunk(p, off, can, bits) ==
  [p EXCEPT !.map = (@ \cup {off + 2^can - 1}) \ {off + 2^bits - 1}]

\* Realloc of a chunk in use to a size other than 0.
Realloc(p, off, n) ==
  LET found == AllocSizes(p, off)
      bits  == Min(found)
      can   == BitsFor(n)
      grown == Malloc(p, n)
      freed == Free(Copy(grown.pool, off, grown.off, 2^bits), off)
  IN  IF found = {} THEN Answer(p, "kIOReturnNotAligned", OURNULL)
      ELSE IF 2^bits >= n
           THEN IF can >= bits THEN Answer(p, "kIOReturnSuccess", off)
                ELSE Answer(ToFree(Shrunk(p, off, can, bits), off + 2^can, off + 2^bits),
                            "kIOReturnSuccess", off)
      ELSE IF grown.ret # "kIOReturnSuccess" THEN grown
      ELSE IF freed.ret # "kIOReturnSuccess"
           THEN Answer(Free(freed.pool, grown.off).pool, freed.ret, grown.off)
           ELSE Answer(freed.pool, "kIOReturnSuccess", grown.off)

(***************************************************************************)
(* The calls.                                                              *)
(***************************************************************************)
\* The chunk's owner puts its data into the chunk.
Written(p, off, bits) ==
  LET Put(f, v) == [b \in Block |-> IF b \in Span(off, bits) THEN v ELSE f[b]]
      look == userData = "lookalike"
  IN  IF userData = "untouched" THEN p
      ELSE [p EXCEPT !.magic   = Put(@, look),
                     !.prev    = Put(@, IF look THEN OURNULL ELSE Garbage),
                     !.next    = Put(@, IF look THEN OURNULL ELSE Garbage),
                     !.trailer = Put(@, IF look THEN 0 ELSE Garbage)]

\* VRAMRealloc of a NULL chunk, which allocBacking uses, is VRAMMalloc too.
VRAMMalloc(n) ==
  LET a == Malloc(pool, n)
      ok == a.ret = "kIOReturnSuccess"
  IN
  /\ pool' = IF ok THEN Written(a.pool, a.off, BitsFor(n)) ELSE a.pool
  /\ live' = IF ok THEN live \cup {<< a.off, BitsFor(n) >>} ELSE live
  /\ UNCHANGED userData

VRAMFree(c) ==
  /\ c \in live
  /\ pool' = Free(pool, c[1]).pool
  /\ live' = live \ {c}
  /\ UNCHANGED userData

VRAMRealloc(c, n) ==
  LET a == Realloc(pool, c[1], n)
      ok == a.ret = "kIOReturnSuccess"
  IN
  /\ c \in live
  /\ pool' = IF ok THEN Written(a.pool, a.off, BitsFor(n)) ELSE a.pool
  /\ live' = IF ok THEN (live \ {c}) \cup {<< a.off, BitsFor(n) >>} ELSE live
  /\ UNCHANGED userData

Next == \/ \E n \in Requests : VRAMMalloc(n)
        \/ \E c \in live : VRAMFree(c)
        \/ \E c \in live, n \in Requests : VRAMRealloc(c, n)

Spec == Init /\ [][Next]_vars

(***************************************************************************)
(* Properties.                                                             *)
(***************************************************************************)
\* What is met on list k: the least set of words that has the head and, with each
\* block, what its header names as the next.
OnList(p, k) ==
  LET Word == Block \cup {Garbage}
      Closed == {S \in SUBSET Word :
                   /\ p.list[k] \in S \cup {OURNULL}
                   /\ \A b \in S \cap Block : p.next[b] \in S \cup {OURNULL}}
  IN  {b \in Word : \A S \in Closed : b \in S}

FreeChunks == UNION {{<< b, k >> : b \in OnList(pool, k)} : k \in Sizes}

Covered(chunks) == UNION {Span(c[1], c[2]) : c \in chunks}

\* The types of the allocator's members.
TypeOK ==
  /\ pool.map \subseteq Block
  /\ pool.list \in [Sizes -> Block \cup {OURNULL}]
  /\ pool.free \in 0..PoolBlocks
  /\ live \subseteq Chunk

\* What the allocator's own Check() tests: every chunk on a free list lies in
\* the pool, is free in the bit map, has its header, its back link and its
\* trailer, and the chunks add up to freeBytes, after any sequence of calls.
CheckSucceeds ==
  /\ FreeChunks \subseteq Chunk
  /\ \A k \in Sizes : pool.list[k] # OURNULL => pool.prev[pool.list[k]] = OURNULL
  /\ \A c \in FreeChunks :
       /\ Span(c[1], c[2]) \cap pool.map = {}
       /\ pool.magic[c[1]] /\ pool.trailer[c[1] + 2^c[2] - 1] = c[2]
       /\ pool.next[c[1]] # OURNULL => pool.prev[pool.next[c[1]]] = c[1]
  /\ pool.free = Cardinality(Covered(FreeChunks))

\* Chunks in use and free chunks are aligned, do not overlap, and between them
\* make up all the memory that was released to the allocator; the bit map still
\* tells the size of every chunk in use.
ChunksPartitionPool ==
  LET all == live \cup FreeChunks IN
  /\ live \cap FreeChunks = {}
  /\ \A c \in all : c[1] % 2^c[2] = 0
  /\ \A c, d \in all : c # d => Span(c[1], c[2]) \cap Span(d[1], d[2]) = {}
  /\ Covered(all) \in {Block, Reserve..(PoolBlocks - 1), {}}
  /\ \A c \in live : AllocSizes(pool, c[1]) = {c[2]}

\* Freeing merges as far as it can: no two free chunks are buddies.
BuddiesMerged ==
  \A c \in FreeChunks :
    c[2] < NumSizes - 1 => << Buddy(c[1], c[2]), c[2] >> \notin FreeChunks

\* A call is refused for lack of memory only if there is no aligned run of free
\* blocks of the size it needs: fragmentation costs no more than alignment does.
RefusedOnlyWhenFull ==
  \A n \in Requests :
    Malloc(pool, n).ret = "kIOReturnNoMemory" /\ BitsFor(n) \in Sizes =>
      ~ \E off \in Block : /\ off % 2^BitsFor(n) = 0
                           /\ Span(off, BitsFor(n)) \subseteq Covered(FreeChunks)

\* The words of the blocks in S are the same in the pools p and q.
Same(p, q, S) ==
  \A b \in S : /\ q.magic[b] = p.magic[b] /\ q.prev[b] = p.prev[b]
               /\ q.next[b] = p.next[b] /\ q.trailer[b] = p.trailer[b]

\* The words of n blocks from x on in p are found from y on in q.
Moved(p, q, x, y, n) ==
  \A i \in 0..(n - 1) :
    /\ q.magic[y + i] = p.magic[x + i] /\ q.prev[y + i] = p.prev[x + i]
    /\ q.next[y + i] = p.next[x + i] /\ q.trailer[y + i] = p.trailer[x + i]

\* No call destroys an owner's data, although the allocator writes its lists into
\* the pool: the chunks in use stay as they are except the one that is freed, a
\* refused Realloc changes none, and one that succeeds keeps the data of the chunk
\* as far as both sizes reach, wherever it goes.
DataKept ==
  /\ \A n \in Requests : Same(pool, Malloc(pool, n).pool, Covered(live))
  /\ \A c \in live :
       /\ Same(pool, Free(pool, c[1]).pool, Covered(live \ {c}))
       /\ \A n \in Requests :
            LET a == Realloc(pool, c[1], n) IN
            /\ Same(pool, a.pool, Covered(live \ {c}))
            /\ IF a.ret = "kIOReturnSuccess"
               THEN Moved(pool, a.pool, c[1], a.off, 2^Min({c[2], BitsFor(n)}))
               ELSE Same(pool, a.pool, Span(c[1], c[2]))
=============================================================================
