------------------------------- MODULE Heap --------------------------------
(***************************************************************************)
(* The scratch heap of stdlib.c: HeapInit, malloc, free and realloc over   *)
(* boundary-tagged blocks and the doubly-linked free list HeapList.        *)
(*                                                                         *)
(* A block is named by the address of its HEAPBLOCK header (the PrevSize   *)
(* field); its Size field lies 4 bytes further and its user area starts   *)
(* BlockSize bytes after it. blocks is the heap in address order, each     *)
(* block with its SIZE, its BLOCK_FREE and BLOCK_ALIGNED flags and the     *)
(* PrevSize word stored in its header. heapList is HeapList in link order, *)
(* head first. The client holds the pointers malloc and realloc returned, *)
(* each with the size it asked for, and frees only those.                 *)
(*                                                                         *)
(* HASNEXT(x) tests x itself, so NEXT of the last block is the word just   *)
(* past the heap, whose contents the program does not control: its value  *)
(* is a choice from Beyond. Unlink of such a "block" writes through the    *)
(* pointers stored past the heap; that write is outside the model.         *)
(***************************************************************************)
EXTENDS Integers, Sequences, SequencesExt, FiniteSets

CONSTANTS
  BlockSize,   \* sizeof(HEAPBLOCK) (16)
  MinBlock,    \* MIN_BLOCKSIZE (4)
  Chunk,       \* the DMA boundary the heap is cut at (65536)
  Address,     \* HeapInit's Address argument (&ImageEndAddress)
  Length,      \* HeapInit's Size argument
  Requests,    \* sizes the client passes to malloc and realloc
  Beyond,      \* the values the Size word past the heap end may hold
  MaxLive      \* bound on the pointers the client holds at once

VARIABLES blocks, heapList, live

vars == <<blocks, heapList, live>>

FREE == 1
ALIGNED == 2
(* Seeded fault for mutation analysis: the request is rounded down.     *)
AlignDown(n) == (n \div 4) * 4
Align(n) == ((n + 3) \div 4) * 4                    \* ALIGN(x)
SizeOf(w) == w - (w % 4)                            \* w & SIZEMASK
Raw(b) == b.size + (IF b.free THEN FREE ELSE 0) + (IF b.aligned THEN ALIGNED ELSE 0)
NextAddr(b) == b.addr + b.size + BlockSize           \* NEXT(x)
Block(a, s, f, al, p) == [addr |-> a, size |-> s, free |-> f, aligned |-> al, prev |-> p]

(* HeapInit's arithmetic: the start rounded to 16, the first Chunk         *)
(* boundary, the pieces before and after the aligned chunks, each dropped  *)
(* when too small for a block.                                             *)
Start == ((Address + 15) \div 16) * 16
AlignedStart == ((Start + Chunk - 1) \div Chunk) * Chunk
BeforeRaw == AlignedStart - Start
AfterRaw == (Length - BeforeRaw) % Chunk
Chunks == (Length - BeforeRaw - AfterRaw) \div Chunk
Before == IF BeforeRaw < BlockSize + MinBlock THEN 0 ELSE BeforeRaw
After == IF AfterRaw < BlockSize + MinBlock THEN 0 ELSE AfterRaw
HeapStart == AlignedStart - Before
HeapEnd == HeapStart + Before + Chunks * Chunk + After   \* HeapStart + HeapSize

(* The blocks HeapInit creates, in address order, and its free list: it    *)
(* links the After block, the chunks from the top down, then the Before    *)
(* block, so the list starts in address order.                             *)
InitBlocks ==
  LET pre   == IF Before > 0
                 THEN << Block(Start - 4, Before - BlockSize, TRUE, FALSE, 0) >> ELSE << >>
      mid   == [k \in 1..Chunks |->
                  Block(AlignedStart + (k - 1) * Chunk - 4, Chunk - BlockSize, TRUE, TRUE, 0)]
      post  == IF After > 0
                 THEN << Block(AlignedStart + Chunks * Chunk - 4, After - BlockSize, TRUE, TRUE, 0) >>
                 ELSE << >>
      bs    == pre \o mid \o post
  IN  [k \in DOMAIN bs |-> IF k = 1 THEN bs[k] ELSE [bs[k] EXCEPT !.prev = Raw(bs[k - 1])]]

-----------------------------------------------------------------------------
(* Index in bs of the block whose header is at a, 0 if none.              *)
At(bs, a) == SelectInSeq(bs, LAMBDA b : b.addr = a)

HASNEXT(b) == b.addr + 4 <= HeapEnd
HASPREV(b) == b.addr + 4 > HeapStart

(* NEXT(Block) of block k: the next block, or past the last one the word   *)
(* at the heap end read as a header.                                       *)
NextOf(bs, k, w) ==
  IF k < Len(bs) THEN bs[k + 1]
  ELSE Block(NextAddr(bs[k]), SizeOf(w), w % 2 = 1, (w \div 2) % 2 = 1, Raw(bs[k]))

(* NEXT(Block)->PrevSize = Block->Size, and the |= and &= ~ of its FREE    *)
(* bit. Past the last block the word is the heap's last one, not a block. *)
SetPrev(bs, k, v) ==
  IF k < Len(bs) THEN [bs EXCEPT ![k + 1].prev = v] ELSE bs
NextPrev(bs, k) == IF k < Len(bs) THEN bs[k + 1].prev ELSE 0
WithFree(p) == IF p % 2 = 1 THEN p ELSE p + FREE
WithoutFree(p) == IF p % 2 = 1 THEN p - FREE ELSE p

(* Seeded fault: the header the new block needs is not counted.          *)
WorthSplittingNoHeader(rem) == rem >= MinBlock

(* "It's worth splicing the block": the remainder holds a header and     *)
(* MIN_BLOCKSIZE bytes.                                                    *)
WorthSplitting(rem) == rem >= MinBlock + BlockSize

Link(l, a) == Cons(a, l)
Unlink(l, a) == SelectSeq(l, LAMBDA x : x # a)

(* malloc(nBytes) on heap bs with list l: first fit in list order (the     *)
(* test is on the raw Size word, flags included), unlink, then split off   *)
(* the remainder as a new free block linked at the head when it can hold   *)
(* a block, else take the whole block. Returns the new heap, list and the  *)
(* block (0 for NULL).                                                     *)
MallocOp(bs, l, n) ==
  LET nb == Align(n)
      j  == SelectInSeq(l, LAMBDA a : Raw(bs[At(bs, a)]) >= nb)
  IN  IF j = 0 THEN [bs |-> bs, l |-> l, ptr |-> 0]
      ELSE
        LET k   == At(bs, l[j])
            rem == bs[k].size - nb
            l1  == RemoveAt(l, j)
        IN  IF WorthSplitting(rem)
              THEN LET b1  == [bs[k] EXCEPT !.size = nb, !.free = FALSE]
                       nw  == Block(NextAddr(b1), rem - BlockSize, TRUE, FALSE, Raw(b1))
                       bs1 == InsertAt([bs EXCEPT ![k] = b1], k + 1, nw)
                   IN  [bs |-> SetPrev(bs1, k + 1, Raw(nw)),
                        l  |-> Link(l1, nw.addr), ptr |-> bs[k].addr]
              ELSE [bs |-> SetPrev([bs EXCEPT ![k].free = FALSE], k, WithoutFree(NextPrev(bs, k))),
                    l  |-> l1, ptr |-> bs[k].addr]

(* Seeded fault for mutation analysis: a free block is merged into its    *)
(* successor even when the successor starts a Chunk.                      *)
MergeableNextAnyAlign(nx) == nx.free

(* free's test for merging with the succeeding block.                      *)
MergeableNext(nx) == nx.free /\ ~nx.aligned

(* Seeded fault: the absorbed block stays linked in HeapList.            *)
AbsorbNextNoUnlink(bs, l, k, nx) ==
  LET grown == [bs EXCEPT ![k].size = @ + nx.size + BlockSize]
      bs1   == IF k < Len(bs) THEN RemoveAt(grown, k + 1) ELSE grown
  IN  [bs |-> SetPrev(bs1, k, Raw(bs1[k])), l |-> l]

(* Block k absorbs NEXT(Block) nx: Unlink(Next), Size += SIZE(Next) +      *)
(* BLOCKSIZE, NEXT(Block)->PrevSize = Block->Size.                          *)
AbsorbNext(bs, l, k, nx) ==
  LET isReal == k < Len(bs)
      grown  == [bs EXCEPT ![k].size = @ + nx.size + BlockSize]
      bs1    == IF isReal THEN RemoveAt(grown, k + 1) ELSE grown
  IN  [bs |-> SetPrev(bs1, k, Raw(bs1[k])),
       l  |-> IF isReal THEN Unlink(l, nx.addr) ELSE l]

(* free(Address) of block a: ignored when HeapList is NULL or the block is *)
(* already free. Otherwise mark it free, merge with the succeeding block   *)
(* unless that starts a Chunk, merge into the preceding block (found       *)
(* through PrevSize) unless this one starts a Chunk, and link the result.  *)
(* w is the word past the heap end.                                        *)
FreeOp(bs, l, a, w) ==
  LET k0 == At(bs, a)
  IN  IF l = << >> \/ a = 0 \/ bs[k0].free THEN [bs |-> bs, l |-> l]
      ELSE
        LET bs1 == SetPrev([bs EXCEPT ![k0].free = TRUE], k0, WithFree(NextPrev(bs, k0)))
            nx  == NextOf(bs1, k0, w)
            m1  == IF HASNEXT(bs1[k0]) /\ MergeableNext(nx)
                     THEN AbsorbNext(bs1, l, k0, nx) ELSE [bs |-> bs1, l |-> l]
            b   == m1.bs[k0]
            kp  == At(m1.bs, b.addr - SizeOf(b.prev) - BlockSize)
        IN  IF HASPREV(b) /\ ~b.aligned /\ m1.bs[kp].free
              THEN LET m2 == AbsorbNext(m1.bs, Unlink(m1.l, m1.bs[kp].addr), kp, b)
                   IN  [bs |-> m2.bs, l |-> Link(m2.l, m1.bs[kp].addr)]
              ELSE [bs |-> m1.bs, l |-> Link(m1.l, a)]

(* realloc(Address, nBytes) of block a, nBytes > 0, HeapList not NULL and  *)
(* the block too small: grow into a free, non-Chunk-starting successor     *)
(* when the two sizes (without the header between them) suffice, keeping   *)
(* any remainder that can hold a block as a new free block; otherwise      *)
(* malloc, copy and free the old block. ptr is the result (0 for NULL).    *)
GrowOp(bs, l, a, n, w) ==
  LET k  == At(bs, a)
      nb == Align(n)
      nx == NextOf(bs, k, w)
  IN  IF HASNEXT(bs[k]) /\ MergeableNext(nx) /\ bs[k].size + nx.size >= nb
        THEN
          LET rem == bs[k].size + nx.size + BlockSize - nb
              l1  == IF k < Len(bs) THEN Unlink(l, nx.addr) ELSE l
              bs0 == IF k < Len(bs) THEN RemoveAt(bs, k + 1) ELSE bs
          IN  IF WorthSplitting(rem)
                THEN LET b1  == [bs0[k] EXCEPT !.size = nb]
                         nw  == Block(NextAddr(b1), rem - BlockSize, TRUE, FALSE, Raw(b1))
                         bs1 == InsertAt([bs0 EXCEPT ![k] = b1], k + 1, nw)
                     IN  [bs |-> SetPrev(bs1, k + 1, Raw(nw)),
                          l  |-> Link(l1, nw.addr), ptr |-> a]
                ELSE LET bs1 == [bs0 EXCEPT ![k].size = @ + nx.size + BlockSize]
                     IN  [bs |-> SetPrev(bs1, k, Raw(bs1[k])), l |-> l1, ptr |-> a]
        ELSE
          LET m == MallocOp(bs, l, nb)
          IN  IF m.ptr = 0 THEN [bs |-> bs, l |-> l, ptr |-> 0]
              ELSE LET f == FreeOp(m.bs, m.l, a, w)
                   IN  [bs |-> f.bs, l |-> f.l, ptr |-> m.ptr]

-----------------------------------------------------------------------------
Init ==
  /\ blocks = InitBlocks
  /\ heapList = [k \in DOMAIN InitBlocks |-> InitBlocks[k].addr]
  /\ live = [p \in {} |-> 0]

Holding(p, n) == [q \in DOMAIN live \cup {p} |-> IF q = p THEN n ELSE live[q]]
Dropping(p) == [q \in DOMAIN live \ {p} |-> live[q]]
Moving(p, r, n) == [q \in (DOMAIN live \ {p}) \cup {r} |-> IF q = r THEN n ELSE live[q]]

(* malloc(n), also reached as realloc(NULL, n).                            *)
Malloc(n) ==
  LET m == MallocOp(blocks, heapList, n)
  IN  /\ Cardinality(DOMAIN live) < MaxLive
      /\ blocks' = m.bs
      /\ heapList' = m.l
      /\ live' = IF m.ptr = 0 THEN live ELSE Holding(m.ptr, n)

(* free(p) of a pointer the client holds, also reached as realloc(p, 0).   *)
(* The client gives the pointer up whatever free does with it.             *)
Free(p, w) ==
  LET f == FreeOp(blocks, heapList, p, w)
  IN  /\ p \in DOMAIN live
      /\ blocks' = f.bs
      /\ heapList' = f.l
      /\ live' = Dropping(p)

(* realloc(p, n) with n > 0: NULL when HeapList is NULL, p itself when the *)
(* block is big enough, else GrowOp. On NULL the client keeps p.           *)
Realloc(p, n, w) ==
  /\ p \in DOMAIN live
  /\ n > 0
  /\ IF heapList = << >>
       THEN UNCHANGED vars
     ELSE IF n <= blocks[At(blocks, p)].size
       THEN live' = Holding(p, n) /\ UNCHANGED <<blocks, heapList>>
     ELSE LET g == GrowOp(blocks, heapList, p, n, w)
          IN  /\ blocks' = g.bs
              /\ heapList' = g.l
              /\ live' = IF g.ptr = 0 THEN live ELSE Moving(p, g.ptr, n)

Next ==
  \/ \E n \in Requests : Malloc(n)
  \/ \E p \in DOMAIN live, w \in Beyond : Free(p, w)
  \/ \E p \in DOMAIN live, n \in Requests, w \in Beyond : Realloc(p, n, w)

Spec == Init /\ [][Next]_vars

-----------------------------------------------------------------------------
TypeOK ==
  /\ blocks \in Seq([addr : Nat, size : Nat, free : BOOLEAN, aligned : BOOLEAN, prev : Nat])
  /\ heapList \in Seq(Nat)
  /\ DOMAIN live \subseteq { b.addr : b \in ToSet(blocks) }
  /\ Cardinality(DOMAIN live) <= MaxLive

(* The boundary tags stay consistent with the free list: the blocks tile   *)
(* [HeapStart, HeapEnd) with each header's PrevSize giving the size of the *)
(* block before it (which free's PREV relies on), HeapList links exactly   *)
(* the free blocks, each once, and no free block is followed by a free     *)
(* block it could have been merged with.                                   *)
HeapWellFormed ==
  /\ blocks # << >>
  /\ blocks[1].addr + 4 = HeapStart
  /\ \A k \in 1..(Len(blocks) - 1) :
       /\ blocks[k + 1].addr = NextAddr(blocks[k])
       /\ SizeOf(blocks[k + 1].prev) = blocks[k].size
       /\ blocks[k].free /\ blocks[k + 1].free => blocks[k + 1].aligned
  /\ NextAddr(Last(blocks)) = HeapEnd - 4
  /\ IsInjective(heapList)
  /\ ToSet(heapList) = { b.addr : b \in { b \in ToSet(blocks) : b.free } }

(* "All (re-)allocations are guaranteed not to cross any 64k boundaries"  *)
(* (stdlib.c, above HeapInit): the user area of every block in use lies    *)
(* within one Chunk, whatever sequence of malloc, realloc and free made it. *)
DmaSafe ==
  \A b \in ToSet(blocks) :
    ~b.free /\ b.size > 0 =>
      (b.addr + BlockSize) \div Chunk = (b.addr + BlockSize + b.size - 1) \div Chunk

(* Every pointer the client holds is a block in use at least as large as  *)
(* the size it last asked malloc or realloc for.                           *)
LiveBlocksAllocated ==
  \A p \in DOMAIN live :
    LET k == At(blocks, p)
    IN  k # 0 /\ ~blocks[k].free /\ blocks[k].size >= live[p]

====
