------------------------------ MODULE Loader -------------------------------
(***************************************************************************)
(* LoadImage of loader.c with its format probes LoadMultiboot, LoadELF,    *)
(* LoadCOFF and LoadBinary, and LoadModules of multiboot.c, composed with  *)
(* the physical allocator of mem.c (module PhysMem): every PhysAlloc and   *)
(* PhysFree the loader makes is PhysMem's own operator on the free list.   *)
(*                                                                         *)
(* A file is abstracted to the probes that recognise it (claims) and, per  *)
(* probe, the regions it would allocate (layout): the Multiboot load range *)
(* [LoadAddr, BssEndAddr), the ELF program headers (load: p_type is        *)
(* PT_LOAD), the COFF section headers, or the binary's whole file at its   *)
(* configured Address. Header validation, the malloc of the header table   *)
(* and the file reads are nondeterministic outcomes. Malloc in             *)
(* AddToPhysList is taken to succeed (PhysMem checks its failure).          *)
(***************************************************************************)
EXTENDS Integers, Sequences, SequencesExt, FiniteSets

CONSTANTS
  Low,         \* the 1 MB line (0x100000)
  MemoryMaps,  \* the firmware memory information PhysInit may be given
  Page,        \* the module alignment for MIF_WANT_PAGE_ALIGN (4096)
  Images,      \* the images the configuration may name
  Modules      \* the file sizes of image->Modules, in configuration order

Probes == {"multiboot", "elf", "coff", "binary"}
Seg == [addr : Nat, size : Nat, load : BOOLEAN]

ASSUME \A im \in Images :
         /\ im.type \in {"auto", "relocatable", "binary", "multiboot"}
         /\ im.claims \subseteq Probes
         /\ \A p \in im.claims : im.layout[p] \in Seq(Seg)
ASSUME Modules \in Seq(Nat)

VARIABLES
  physMem,  \* the free list PhysMem
  map,      \* the firmware map PhysInit was given
  image,    \* the IMAGE being loaded
  pc,       \* "start", "dispatch", "load", "rollback", "modules",
            \* "transferred" (CallAsMultiboot) or "failed" (LoadImage returns)
  probes,   \* the probes of the dispatch not yet tried, in order
  cur,      \* the probe that claimed the file
  i,        \* the segment (section) loop index of the claiming probe
  failed,   \* where the segment loop broke: [idx, paddr]
  mods,     \* Modules[]: [id, ModStart, ModEnd], compacted on removal
  mi,       \* the LoadModules loop index
  owned,    \* ghost: the regions allocated and not released by a PhysFree
            \* naming them, [Address, Size, owner]
  before    \* ghost: the free bytes when LoadImage started

vars == <<physMem, map, image, pc, probes, cur, i, failed, mods, mi, owned, before>>

PM == INSTANCE PhysMem
        WITH live <- <<>>, result <- 0, NULL <- 0, AllocStarts <- {0}, AllocSizes <- {},
             AllocAligns <- {}, HeapOutcomes <- {TRUE}, MaxLive <- 0,
             Firmwares <- {}, Ext15 <- 0, E801Unit <- 0, firmware <- 0, mallocOk <- TRUE

Span(a, n) == a .. (a + n - 1)
OwnedBytes == UNION { Span(o.Address, PM!RoundSize(o.Size)) : o \in owned }
Segs == image.layout[cur]

(* PhysAlloc(start, size, align): the address it returns (0, NULL, on    *)
(* failure) and the free list after it.                                    *)
Alloc(start, size, align) ==
  LET sz == PM!RoundSize(size)
      k  == PM!FitIndex(physMem, start, sz, align)
      st == IF k = 0 THEN 0 ELSE PM!CandidateStart(physMem[k], start, align)
  IN  IF sz = 0 \/ k = 0 THEN [addr |-> 0, mem |-> physMem]
      ELSE [addr |-> st, mem |-> PM!Carve(physMem, k, st, sz, TRUE)]

(* PhysFree(addr, size), and the ghost release of the region it names.     *)
PhysFree(mem, a, n) == PM!AddToPhysList(mem, a, n, TRUE)
Release(a, n) == { o \in owned : ~(o.Address = a /\ o.Size = n) }

(* The probe order of LoadImage's switch on image->Type.                   *)
ChainFor(type) ==
  CASE type = "relocatable" -> <<"elf", "coff">>
    [] type = "binary"      -> <<"binary">>
    [] type = "multiboot"   -> <<"multiboot">>
    [] OTHER                -> <<"multiboot", "elf", "coff", "binary">>

(* The PhysFree calls of a probe's "free everything" loop after its        *)
(* segment loop broke at segment f.idx, in order. LoadELF loops j over the *)
(* earlier headers and, for each PT_LOAD one, frees cur: the header of     *)
(* index i, the one that failed, whose p_paddr is NULL if its PhysAlloc    *)
(* failed. LoadCOFF frees each earlier section at its VirtualAddress.      *)
(* LoadMultiboot and LoadBinary allocate one region and have no loop.      *)
ElfFrees(f) ==
  LET loads == { j \in 1..(f.idx - 1) : Segs[j].load }
  IN  [k \in 1..Cardinality(loads) |-> [a |-> f.paddr, n |-> Segs[f.idx].size]]

(* Seeded fault for mutation analysis: LoadCOFF's loop frees section i,    *)
(* the one that failed, as LoadELF's does.                                 *)
CoffFreesCur(f) ==
  [j \in 1..(f.idx - 1) |-> [a |-> Segs[f.idx].addr, n |-> Segs[f.idx].size]]

CoffFrees(f) ==
  [j \in 1..(f.idx - 1) |-> [a |-> Segs[j].addr, n |-> Segs[j].size]]

RollbackFrees(f) ==
  CASE cur = "elf"  -> ElfFrees(f)
    [] cur = "coff" -> CoffFrees(f)
    [] OTHER        -> << >>

(* LoadModules' error path: memmove(&Modules[i], &Modules[i+1], ...).      *)
Removed(ms, k) == RemoveAt(ms, k)

(* The loop index after the error path's i-- and the loop's i++.           *)
(* Seeded fault: i-- is missing, the moved-down entry is skipped.          *)
IndexAfterRemoveNoDecrement(k) == k + 1
IndexAfterRemove(k) == k

(* Memory of a module whose ReadFile failed: PhysFree(addr, Size).         *)
(* Seeded fault: the allocation is not given back.                         *)
DropModuleMemLeak(mem, a, n) == mem
DropModuleMem(mem, a, n) == PhysFree(mem, a, n)

-----------------------------------------------------------------------------
Init ==
  /\ image \in Images
  /\ map \in MemoryMaps
  /\ physMem = PM!PhysInitOk(map)
  /\ before = PM!FreeBytes
  /\ pc = "start"
  /\ probes = << >>
  /\ cur = "none"
  /\ i = 1
  /\ failed = [idx |-> 0, paddr |-> 0]
  /\ mods = [k \in 1..Len(Modules) |-> [id |-> k, ModStart |-> 0, ModEnd |-> 0]]
  /\ mi = 1
  /\ owned = {}

(* LoadImage up to the switch: OpenFile, the bootsector/device case,       *)
(* ReadMultibootHeader, the header requirement checks and EnableA20Gate,   *)
(* each of which may return before any probe runs.                         *)
Prepare(ok) ==
  /\ pc = "start"
  /\ pc' = IF ok THEN "dispatch" ELSE "failed"
  /\ probes' = IF ok THEN ChainFor(image.type) ELSE << >>
  /\ UNCHANGED <<physMem, map, image, cur, i, failed, mods, mi, owned, before>>

(* A probe returns TRUE (not this format): the next one is tried; when     *)
(* none is left, errno is EFTYPE and LoadImage gives up.                   *)
NotThisFormat ==
  /\ pc = "dispatch"
  /\ Head(probes) \notin image.claims
  /\ probes' = Tail(probes)
  /\ pc' = IF Tail(probes) = << >> THEN "failed" ELSE "dispatch"
  /\ UNCHANGED <<physMem, map, image, cur, i, failed, mods, mi, owned, before>>

(* A probe recognises the file. Its header checks (and the malloc of the   *)
(* ELF/COFF header table) pass, and it starts its segment loop, or fail    *)
(* and it returns FALSE before allocating: no later probe is tried.        *)
Claim(valid) ==
  /\ pc = "dispatch"
  /\ Head(probes) \in image.claims
  /\ cur' = Head(probes)
  /\ probes' = Tail(probes)
  /\ pc' = IF valid THEN "load" ELSE "failed"
  /\ i' = 1
  /\ UNCHANGED <<physMem, map, image, failed, mods, mi, owned, before>>

(* A program header that is not PT_LOAD is skipped by LoadELF's loop.      *)
SkipSegment ==
  /\ pc = "load"
  /\ i <= Len(Segs)
  /\ ~Segs[i].load
  /\ i' = i + 1
  /\ UNCHANGED <<physMem, map, image, pc, probes, cur, failed, mods, mi, owned, before>>

(* PhysAlloc(address, size, 0) for the segment returns NULL: ENOMEM, the  *)
(* loop breaks (p_paddr is NULL for ELF).                                  *)
SegmentAllocFails ==
  /\ pc = "load"
  /\ i <= Len(Segs)
  /\ Segs[i].load
  /\ Alloc(Segs[i].addr, Segs[i].size, 1).addr = 0
  /\ pc' = "rollback"
  /\ failed' = [idx |-> i, paddr |-> 0]
  /\ UNCHANGED <<physMem, map, image, probes, cur, i, mods, mi, owned, before>>

(* The segment is allocated; SetFilePointer and ReadFile succeed (its BSS  *)
(* is zeroed) and the loop goes on, or one fails: the segment is freed     *)
(* with the size it was allocated with and the loop breaks.                *)
SegmentLoad(readOk) ==
  LET s == Segs[i]
      a == Alloc(s.addr, s.size, 1)
  IN  /\ pc = "load"
      /\ i <= Len(Segs)
      /\ s.load
      /\ a.addr # 0
      /\ IF readOk
           THEN /\ physMem' = a.mem
                /\ owned' = owned \cup {[Address |-> a.addr, Size |-> s.size, owner |-> 0]}
                /\ i' = i + 1
                /\ UNCHANGED <<pc, failed>>
           ELSE /\ physMem' = PhysFree(a.mem, a.addr, s.size)
                /\ pc' = "rollback"
                /\ failed' = [idx |-> i, paddr |-> a.addr]
                /\ UNCHANGED <<i, owned>>
      /\ UNCHANGED <<map, image, probes, cur, mods, mi, before>>

(* "Something failed, free everything": the probe's free loop, then it     *)
(* returns FALSE and LoadImage gives up.                                   *)
Rollback ==
  LET fs == RollbackFrees(failed)
  IN  /\ pc = "rollback"
      /\ physMem' = FoldLeft(LAMBDA m, f : PhysFree(m, f.a, f.n), physMem, fs)
      /\ owned' = { o \in owned : \A k \in DOMAIN fs : ~(o.Address = fs[k].a /\ o.Size = fs[k].n) }
      /\ pc' = "failed"
      /\ UNCHANGED <<map, image, probes, cur, i, failed, mods, mi, before>>

(* Every segment is loaded: the probe calls LoadModules.                   *)
ImageLoaded ==
  /\ pc = "load"
  /\ i > Len(Segs)
  /\ pc' = "modules"
  /\ mi' = 1
  /\ UNCHANGED <<physMem, map, image, probes, cur, i, failed, mods, owned, before>>

ModuleAlign == IF image.pageAlign THEN Page ELSE 1

(* LoadModules, module i: OpenFile, PhysAlloc(0, Size, align) and ReadFile *)
(* succeed; ModStart and ModEnd are set.                                   *)
ModuleLoaded ==
  LET n == Modules[mods[mi].id]
      a == Alloc(0, n, ModuleAlign)
  IN  /\ pc = "modules"
      /\ mi <= Len(mods)
      /\ a.addr # 0
      /\ physMem' = a.mem
      /\ mods' = [mods EXCEPT ![mi].ModStart = a.addr, ![mi].ModEnd = a.addr + n]
      /\ owned' = owned \cup {[Address |-> a.addr, Size |-> n, owner |-> mods[mi].id]}
      /\ mi' = mi + 1
      /\ UNCHANGED <<map, image, pc, probes, cur, i, failed, before>>

(* Module i fails to load: OpenFile fails, PhysAlloc returns NULL (a zero  *)
(* size included), or ReadFile falls short and the memory is freed. The    *)
(* entry is removed from Modules[] and the loop index stays on its place.  *)
ModuleDropped(openOk, readOk) ==
  LET n == Modules[mods[mi].id]
      a == Alloc(0, n, ModuleAlign)
  IN  /\ pc = "modules"
      /\ mi <= Len(mods)
      /\ ~(openOk /\ a.addr # 0 /\ readOk)
      /\ physMem' = IF openOk /\ a.addr # 0 THEN DropModuleMem(a.mem, a.addr, n) ELSE physMem
      /\ mods' = Removed(mods, mi)
      /\ mi' = IndexAfterRemove(mi)
      /\ UNCHANGED <<map, image, pc, probes, cur, i, failed, owned, before>>

(* LoadModules sets ModuleCount; CallAsMultiboot does not return.          *)
Transfer ==
  /\ pc = "modules"
  /\ mi > Len(mods)
  /\ pc' = "transferred"
  /\ UNCHANGED <<physMem, map, image, probes, cur, i, failed, mods, mi, owned, before>>

Next ==
  \/ \E ok \in BOOLEAN : Prepare(ok)
  \/ NotThisFormat
  \/ \E valid \in BOOLEAN : Claim(valid)
  \/ SkipSegment
  \/ SegmentAllocFails
  \/ \E ok \in BOOLEAN : SegmentLoad(ok)
  \/ Rollback
  \/ ImageLoaded
  \/ ModuleLoaded
  \/ \E openOk, readOk \in BOOLEAN : ModuleDropped(openOk, readOk)
  \/ Transfer

Spec == Init /\ [][Next]_vars

-----------------------------------------------------------------------------
TypeOK ==
  /\ pc \in {"start", "dispatch", "load", "rollback", "modules", "transferred", "failed"}
  /\ probes \in Seq(Probes)
  /\ cur \in Probes \cup {"none"}
  /\ mods \in Seq([id : 1..Len(Modules), ModStart : Nat, ModEnd : Nat])
  /\ mi \in 1..(Len(mods) + 1)
  /\ physMem \in Seq(PM!Region)
  /\ owned \subseteq [Address : Nat, Size : Nat, owner : 0..Len(Modules)]

(* No byte the loader holds (an image segment or module it allocated and   *)
(* did not free) is on the free list, and no byte is free that was not     *)
(* free when LoadImage started: the PhysFree calls of the probes' error    *)
(* paths and "free everything" loops, and of LoadModules, only give back   *)
(* what the load itself allocated and does not keep.                       *)
OwnedMemoryNeverFree ==
  /\ PM!FreeBytes \subseteq before
  /\ PM!FreeBytes \cap OwnedBytes = {}

(* When control is transferred, the image's loadable segments are held at  *)
(* their declared addresses, the image and module regions do not overlap,  *)
(* and they and the free list together are exactly the memory that was     *)
(* free before: modules dropped by LoadModules leaked nothing.             *)
TransferAccountsMemory ==
  pc = "transferred" =>
    /\ { <<o.Address, o.Size>> : o \in { o \in owned : o.owner = 0 } }
         = { <<s.addr, s.size>> : s \in { s \in ToSet(Segs) : s.load } }
    /\ \A o1, o2 \in owned :
         o1 # o2 => Span(o1.Address, PM!RoundSize(o1.Size))
                      \cap Span(o2.Address, PM!RoundSize(o2.Size)) = {}
    /\ OwnedBytes \cup PM!FreeBytes = before

(* The module list handed to the kernel (ModuleCount entries) is exactly   *)
(* the modules LoadModules loaded, in configuration order, each with      *)
(* ModEnd - ModStart its file size and the memory it was loaded into: the  *)
(* memmove compaction and i-- of the error path drop only the failed one.  *)
ModuleListKeptInOrder ==
  pc = "transferred" =>
    /\ \A k \in 1..(Len(mods) - 1) : mods[k].id < mods[k + 1].id
    /\ \A k \in DOMAIN mods :
         [Address |-> mods[k].ModStart, Size |-> mods[k].ModEnd - mods[k].ModStart,
          owner |-> mods[k].id] \in owned
         /\ mods[k].ModEnd - mods[k].ModStart = Modules[mods[k].id]
    /\ { o.owner : o \in owned } \ {0} = { mods[k].id : k \in DOMAIN mods }

====
