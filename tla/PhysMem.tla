------------------------------ MODULE PhysMem ------------------------------
(***************************************************************************)
(* The physical memory allocator of mem.c: the free list PhysMem of        *)
(* (Address, Size) regions above the 1 MB line, built by PhysInit from the *)
(* firmware memory map, carved by PhysAlloc and grown back by PhysFree,    *)
(* all three through AddToPhysList. The map PhysInit reads is the one     *)
(* main gathered with GetConventionalMemoryMap and GetSystemMemoryMap from *)
(* the BIOS (INT 12h, 15h/88h, 15h/E801h and 15h/E820h).                   *)
(*                                                                         *)
(* The linked list is a sequence in list order (head first): AddToPhysList *)
(* links new regions at the head and PhysAlloc is first-fit in that order. *)
(* Its callers (the image loader, LoadModules) are abstracted into one     *)
(* client that holds the allocations it was given, each with the size it  *)
(* requested, which is the size it later passes to PhysFree (mem.h).      *)
(*                                                                         *)
(* Addresses are scaled: Low stands for 0x100000; the 4-byte rounding of   *)
(* the request size is kept as in the code.                                *)
(***************************************************************************)
EXTENDS Integers, Sequences, SequencesExt, FiniteSets

CONSTANTS
  Low,          \* the 1 MB line (0x100000)
  Firmwares,    \* what the BIOS memory services answer
  Ext15,        \* 0x3C00, the KB count of 15 MB
  E801Unit,     \* 64, the KB per block that E801h counts in BX
  AllocStarts,  \* Start arguments of PhysAlloc (0: any address)
  AllocSizes,   \* Size arguments of PhysAlloc
  AllocAligns,  \* Alignment arguments of PhysAlloc (0: none)
  HeapOutcomes, \* possible results of malloc() in AddToPhysList
  MaxLive,      \* bound on the allocations the client holds at once
  NULL

(* A firmware: the E820 entries in the order E820h returns them, and how  *)
(* it ends the list ("ebx": EBX = 0 with the last entry; "carry": carry   *)
(* set on the call after it; with no entries, E820h is not supported), the *)
(* AX of 88h (NULL: carry set) and the AX and BX of E801h (NULL: failed).   *)
(* Lengths above 1 MB are in the units MemUpper is counted in.            *)
MapEntry == [Start : Nat, Length : Nat, Type : Nat]
ASSUME \A fw \in Firmwares :
         /\ fw.e820 \in Seq(MapEntry)
         /\ fw.e820End \in {"ebx", "carry"}
         /\ fw.e820 = << >> => fw.e820End = "carry"
         /\ fw.int88 \in Nat \cup {NULL}
         /\ fw.e801 \in [ax : Nat, bx : Nat] \cup {NULL}
ASSUME 0 \in AllocStarts /\ AllocAligns \subseteq Nat /\ HeapOutcomes \subseteq BOOLEAN

VARIABLES
  physMem,   \* the free list PhysMem, head first
  live,      \* allocations the client holds: [Address, Size] as requested
  result,    \* the value the last PhysAlloc returned (NULL on failure)
  map,       \* the multiboot memory information PhysInit was given:
             \* entries (empty when MIF_MEMORY_MAP is clear) and MemUpper
             \* (NULL when MIF_SIMPLE_MEMORY is clear); constant in a run
  firmware,  \* the BIOS it was gathered from (constant in a run)
  mallocOk   \* every malloc of AddToPhysList in the last step succeeded
             \* (no code variable)

vars == <<physMem, live, result, map, firmware, mallocOk>>

Region == [Address : Nat, Size : Nat]
End(r) == r.Address + r.Size
Bytes(r) == r.Address .. (End(r) - 1)

-----------------------------------------------------------------------------
(* Seeded fault for mutation analysis: no clipping at 1 MB.               *)
ClipToLowMissing(s, l) == [Start |-> s, Length |-> l]

(* AddToPhysList: a region that ends at or below 1 MB is ignored, one that *)
(* starts below it is clipped to start at 1 MB.                            *)
ClipToLow(s, l) ==
  IF s < Low THEN [Start |-> Low, Length |-> s + l - Low]
             ELSE [Start |-> s, Length |-> l]

(* Which of the three join tests of AddToPhysList region r passes first    *)
(* for the span (s, l): 1 start inside, 2 end inside, 3 span holds r.      *)
JoinCase(r, s, l) ==
  CASE s >= r.Address /\ s <= End(r)         -> 1
    [] s + l >= r.Address /\ s + l <= End(r) -> 2
    [] s < r.Address /\ s + l > End(r)       -> 3
    [] OTHER                                 -> 0

(* Seeded faults for mutation analysis: the size of a start-inside join   *)
(* not rebased to the region's address; the end-inside join assigning     *)
(* Address before computing Size from it.                                 *)
JoinedNoRebase(r, s, l) ==
  IF JoinCase(r, s, l) = 1 THEN [r EXCEPT !.Size = Max({r.Size, s + l})]
  ELSE IF JoinCase(r, s, l) = 2
    THEN LET ns == Min({s, r.Address}) IN [Address |-> ns, Size |-> End(r) - ns]
  ELSE [Address |-> s, Size |-> l]

JoinedSwapped(r, s, l) ==
  IF JoinCase(r, s, l) = 1 THEN [r EXCEPT !.Size = Max({r.Size, s + l - r.Address})]
  ELSE IF JoinCase(r, s, l) = 2
    THEN LET ns == Min({s, r.Address}) IN [Address |-> ns, Size |-> r.Size]
  ELSE [Address |-> s, Size |-> l]

(* Region r after the span (s, l) is joined into it.                       *)
Joined(r, s, l) ==
  CASE JoinCase(r, s, l) = 1 ->
         [r EXCEPT !.Size = Max({r.Size, s + l - r.Address})]
    [] JoinCase(r, s, l) = 2 ->
         LET ns == Min({s, r.Address})
         IN  [Address |-> ns, Size |-> End(r) - ns]
    [] OTHER -> [Address |-> s, Size |-> l]

(* The free list after AddToPhysList(s, l): the span is joined into the    *)
(* first region (in list order) it touches, and only that one; otherwise a *)
(* new region is linked at the head, unless malloc fails (heapOk FALSE),   *)
(* in which case the span is dropped.                                      *)
AddToPhysList(mem, s, l, heapOk) ==
  IF s + l <= Low THEN mem
  ELSE LET c == ClipToLow(s, l)
           k == SelectInSeq(mem, LAMBDA r : JoinCase(r, c.Start, c.Length) # 0)
       IN  IF k # 0
             THEN [mem EXCEPT ![k] = Joined(@, c.Start, c.Length)]
           ELSE IF heapOk
             THEN Cons([Address |-> c.Start, Size |-> c.Length], mem)
           ELSE mem

-----------------------------------------------------------------------------
(* GetConventionalMemoryMap: MemUpper from 88h; when 88h fails or reports  *)
(* exactly 15 MB, from E801h instead, but only when E801h's AX says the   *)
(* 15 MB below 16 MB are all there. NULL when MIF_SIMPLE_MEMORY stays clear.*)
ConventionalUpper(fw) ==
  LET askE801 == fw.int88 = NULL \/ fw.int88 = Ext15
  IN  IF askE801 /\ fw.e801 # NULL /\ fw.e801.ax = Ext15
        THEN fw.e801.bx * E801Unit + Ext15
        ELSE fw.int88

(* GetSystemMemoryMap's loop: call k first reallocs the map to k entries   *)
(* (heapOk[k] FALSE: realloc fails), then asks E820h for entry k. Either   *)
(* failure, or a carry, discards the whole map (NULL). The loop ends when  *)
(* EBX comes back 0.                                                       *)
RECURSIVE E820Loop(_, _, _)
E820Loop(fw, got, heapOk) ==
  LET k == Len(got) + 1
  IN  IF ~heapOk[k] \/ k > Len(fw.e820) THEN NULL
      ELSE IF k = Len(fw.e820) /\ fw.e820End = "ebx" THEN Append(got, fw.e820[k])
      ELSE E820Loop(fw, Append(got, fw.e820[k]), heapOk)

E820Calls(fw) == Len(fw.e820) + 1

(* The multiboot memory information main has before PhysInit.             *)
Discover(fw, heapOk) ==
  LET es == E820Loop(fw, << >>, heapOk)
  IN  [entries |-> IF es = NULL THEN << >> ELSE es, memUpper |-> ConventionalUpper(fw)]

(* main stops with MSG_MAIN_NO_MEMORY_INFO when neither flag is set.       *)
HasMemoryInfo(m) == m.entries # << >> \/ m.memUpper # NULL

DiscoveredMaps ==
  UNION { { Discover(fw, h) : h \in [1..E820Calls(fw) -> HeapOutcomes] } : fw \in Firmwares }

(* PhysInit's AddToPhysList calls: the available (Type 1) entries in map   *)
(* order, then (1 MB, MemUpper). MemUpper is counted in KB by the BIOS and *)
(* passed as a byte count, as the code does.                               *)
InitSpans(m) ==
  LET t1 == SelectSeq(m.entries, LAMBDA e : e.Type = 1)
      es == [k \in 1..Len(t1) |-> [Start |-> t1[k].Start, Length |-> t1[k].Length]]
  IN  IF m.memUpper = NULL THEN es ELSE Append(es, [Start |-> Low, Length |-> m.memUpper])

(* AddToPhysList(s, l) needs a new PHYSMEM node from malloc.               *)
NeedsNode(mem, s, l) ==
  /\ s + l > Low
  /\ SelectInSeq(mem, LAMBDA r : JoinCase(r, ClipToLow(s, l).Start, ClipToLow(s, l).Length) # 0) = 0

(* PhysInit: the calls in order; the first one whose malloc fails          *)
(* (heapOk FALSE) makes PhysInit return FALSE with the rest not added.     *)
RECURSIVE AddSpans(_, _, _)
AddSpans(mem, sp, heapOk) ==
  IF sp = << >> THEN mem
  ELSE IF NeedsNode(mem, Head(sp).Start, Head(sp).Length) /\ ~Head(heapOk) THEN mem
  ELSE AddSpans(AddToPhysList(mem, Head(sp).Start, Head(sp).Length, TRUE), Tail(sp), Tail(heapOk))

PhysInit(m, heapOk) == AddSpans(<< >>, InitSpans(m), heapOk)

(* PhysInit with every malloc succeeding.                                  *)
PhysInitOk(m) == PhysInit(m, [k \in 1..Len(InitSpans(m)) |-> TRUE])

-----------------------------------------------------------------------------
(* PhysAlloc helpers.                                                      *)
RoundSize(size) == ((size + 3) \div 4) * 4          \* (Size + 3) & -4
AlignUp(a, al)  == ((a + al - 1) \div al) * al      \* (a + al - 1) & -al

(* The start address PhysAlloc tries in region r.                          *)
CandidateStart(r, start, al) == IF start # 0 THEN start ELSE AlignUp(r.Address, al)

Fits(r, st, sz) == st >= r.Address /\ st + sz <= End(r)

(* Index of the first region that can hold the request, 0 if none.        *)
FitIndex(mem, start, sz, al) ==
  SelectInSeq(mem, LAMBDA r : Fits(r, CandidateStart(r, start, al), sz))

(* Seeded fault for mutation analysis: a fully consumed region is left    *)
(* linked.                                                                *)
CarveNoUnlink(mem, k, st, sz, heapOk) ==
  LET r == mem[k]
  IN  IF st - r.Address # 0
        THEN LET shrunk == [mem EXCEPT ![k].Size = st - r.Address]
             IN  IF End(r) - (st + sz) # 0
                   THEN AddToPhysList(shrunk, st + sz, End(r) - (st + sz), heapOk)
                   ELSE shrunk
      ELSE IF End(r) - (st + sz) # 0
        THEN [mem EXCEPT ![k] = [Address |-> st + sz, Size |-> End(r) - (st + sz)]]
      ELSE mem

(* Seeded fault: the space after the allocation computed with its         *)
(* operands swapped.                                                       *)
CarveAfterSwapped(mem, k, st, sz, heapOk) ==
  LET r      == mem[k]
      before == st - r.Address
      after  == (st + sz) - End(r)
  IN  CASE before # 0 ->
             LET shrunk == [mem EXCEPT ![k].Size = before]
             IN  IF after # 0 THEN AddToPhysList(shrunk, st + sz, after, heapOk)
                              ELSE shrunk
        [] after # 0 -> [mem EXCEPT ![k] = [Address |-> st + sz, Size |-> after]]
        [] OTHER     -> RemoveAt(mem, k)

(* Seeded fault: the tail after an interior allocation is never put back *)
(* on the list.                                                            *)
CarveTailDropped(mem, k, st, sz, heapOk) ==
  LET r      == mem[k]
      before == st - r.Address
      after  == End(r) - (st + sz)
  IN  CASE before # 0 -> [mem EXCEPT ![k].Size = before]
        [] after # 0 -> [mem EXCEPT ![k] = [Address |-> st + sz, Size |-> after]]
        [] OTHER     -> RemoveAt(mem, k)

(* The free list after the span (st, sz) is carved out of region k.        *)
Carve(mem, k, st, sz, heapOk) ==
  LET r      == mem[k]
      before == st - r.Address
      after  == End(r) - (st + sz)
  IN  CASE before # 0 ->
             LET shrunk == [mem EXCEPT ![k].Size = before]
             IN  IF after # 0 THEN AddToPhysList(shrunk, st + sz, after, heapOk)
                              ELSE shrunk
        [] after # 0 -> [mem EXCEPT ![k] = [Address |-> st + sz, Size |-> after]]
        [] OTHER     -> RemoveAt(mem, k)

-----------------------------------------------------------------------------
Init ==
  /\ firmware \in Firmwares
  /\ \E h \in [1..E820Calls(firmware) -> HeapOutcomes] : map = Discover(firmware, h)
  /\ HasMemoryInfo(map)
  /\ \E h \in [1..Len(InitSpans(map)) -> HeapOutcomes] :
       physMem = PhysInit(map, h) /\ mallocOk = \A k \in DOMAIN h : h[k]
  /\ live = <<>>
  /\ result = NULL

(* PhysAlloc(start, size, align) finds a region and carves the request.    *)
AllocSucceeds(start, size, align, heapOk) ==
  LET al == IF align = 0 THEN 1 ELSE align
      sz == RoundSize(size)
      k  == FitIndex(physMem, start, sz, al)
  IN  /\ Len(live) < MaxLive
      /\ sz # 0
      /\ k # 0
      /\ LET st == CandidateStart(physMem[k], start, al)
         IN  /\ physMem' = Carve(physMem, k, st, sz, heapOk)
             /\ live' = Append(live, [Address |-> st, Size |-> size])
             /\ result' = st
      /\ mallocOk' = heapOk
      /\ UNCHANGED <<map, firmware>>

(* PhysAlloc returns NULL (ENOMEM): zero size or no region fits.           *)
AllocFails(start, size, align) ==
  LET al == IF align = 0 THEN 1 ELSE align
      sz == RoundSize(size)
  IN  /\ Len(live) < MaxLive
      /\ sz = 0 \/ FitIndex(physMem, start, sz, al) = 0
      /\ result' = NULL /\ mallocOk' = TRUE
      /\ UNCHANGED <<physMem, live, map, firmware>>

(* PhysFree(Address, Size) of an allocation the client holds, with the     *)
(* size it requested.                                                      *)
Free(i, heapOk) ==
  /\ physMem' = AddToPhysList(physMem, live[i].Address, live[i].Size, heapOk)
  /\ live' = RemoveAt(live, i)
  /\ mallocOk' = heapOk
  /\ UNCHANGED <<result, map, firmware>>

Next ==
  \/ \E st \in AllocStarts, sz \in AllocSizes, al \in AllocAligns, h \in HeapOutcomes :
       AllocSucceeds(st, sz, al, h)
  \/ \E st \in AllocStarts, sz \in AllocSizes, al \in AllocAligns :
       AllocFails(st, sz, al)
  \/ \E i \in 1..Len(live), h \in HeapOutcomes : Free(i, h)

Spec == Init /\ [][Next]_vars

-----------------------------------------------------------------------------
(* Refinement: the free list, read as the set of bytes it covers, is the  *)
(* free set of PhysMemAbstract, and the client's allocations are held.    *)
FreeBytes == UNION { Bytes(physMem[k]) : k \in 1..Len(physMem) }

Abs == INSTANCE PhysMemAbstract
         WITH free <- FreeBytes, held <- live, heapOk <- mallocOk,
              MemoryMaps <- DiscoveredMaps

(* PhysInit, PhysAlloc and PhysFree implement the allocator's contract:   *)
(* an allocation removes exactly its rounded span from free memory and a  *)
(* free gives back exactly the span it names, no byte lost in a step      *)
(* whose malloc succeeded.                                                *)
AbsSpec == Abs!AbsSpec

-----------------------------------------------------------------------------
TypeOK ==
  /\ physMem \in Seq(Region)
  /\ live \in Seq(Region)
  /\ result \in Nat \cup {NULL}
  /\ map \in DiscoveredMaps
  /\ firmware \in Firmwares
  /\ mallocOk \in BOOLEAN

(* PhysInit, AddToPhysList and PhysAlloc keep the free regions disjoint,  *)
(* whatever order of PhysAlloc and PhysFree calls the loader makes.        *)
FreeRegionsDisjoint ==
  \A i, j \in 1..Len(physMem) :
    i # j => Bytes(physMem[i]) \cap Bytes(physMem[j]) = {}

(* No byte is handed out twice: the spans the client holds are disjoint    *)
(* from each other and from every free region. It is the contract of       *)
(* PhysAlloc towards the loader, broken by any free-list update that       *)
(* leaves an allocated byte on the list.                                   *)
NoDoubleAllocation ==
  /\ \A i, j \in 1..Len(live) :
       i # j => Bytes(live[i]) \cap Bytes(live[j]) = {}
  /\ \A i \in 1..Len(live), k \in 1..Len(physMem) :
       Bytes(live[i]) \cap Bytes(physMem[k]) = {}

(* The memory the BIOS reports at or above 1 MB: the available E820       *)
(* entries, the 88h count above 1 MB, and E801h's AX above 1 MB and BX      *)
(* blocks above 16 MB, with the hole below 16 MB that AX may leave.        *)
FirmwareMemory(fw) ==
  LET e820 == UNION { Abs!Span(e.Start, e.Length) : e \in { e \in ToSet(fw.e820) : e.Type = 1 } }
      i88  == IF fw.int88 = NULL THEN {} ELSE Abs!Span(Low, fw.int88)
      e801 == IF fw.e801 = NULL THEN {}
              ELSE Abs!Span(Low, fw.e801.ax) \cup Abs!Span(Low + Ext15, fw.e801.bx * E801Unit)
  IN  { a \in e820 \cup i88 \cup e801 : a >= Low }

(* Every free byte, and every byte handed out, is memory the BIOS         *)
(* reported available at or above 1 MB: neither the way main reads the   *)
(* 88h, E801h and E820h answers into the multiboot information, nor the   *)
(* clipping and joins of AddToPhysList, invent memory.                     *)
OnlyFirmwareMemory ==
  /\ \A k \in 1..Len(physMem) : Bytes(physMem[k]) \subseteq FirmwareMemory(firmware)
  /\ \A i \in 1..Len(live) : Bytes(live[i]) \subseteq FirmwareMemory(firmware)

=============================================================================
