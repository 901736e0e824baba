# TLA+ models of osldr

This directory holds TLA+ specifications of the osldr boot loader (`src/src/*.c`),
the TLC configurations that check them, and `PROJECT.json`. The JSON lists the
components, the runs, the seeded-fault mutants, the map from every definition to
the source lines it models, the findings, and the hazards.

## The system

osldr runs once, single-threaded, under the BIOS. `main` reads the configuration and
shows the boot menu. It builds the physical free list (`PhysInit`) and calls
`LoadImage`, which does not return on success. Everything is synchronous. The
"hard" behaviours are therefore not thread interleavings but the following:

* Long sequences of legal calls on process-wide lists: the physical free list
  (mem.c), each device's sector cache (io.c), the drive-parameter LRU (drive.c)
  and the device list (io.c).
* Failure at every step: `malloc` returning NULL (the scratch heap is a few hundred
  KB), BIOS disk reads failing and being retried `MAX_READ_TRY` times, and
  on-disk structures that are malformed.
* Loops whose termination and bounds depend on on-disk data: the extended-partition
  chain, FAT cluster chains and long-name fragments.

### Inventory

| Part | Source | State | Operations | Interacts with |
|---|---|---|---|---|
| Physical allocator | mem.c 31-199 | free list `PhysMem` of (Address, Size) regions | `PhysInit`, `PhysAlloc`, `PhysFree`, `AddToPhysList` | loader.c, multiboot.c (callers); the heap (list nodes) |
| Memory map discovery | mem.c 201-287 | `mbi` memory fields | BIOS INT 15h queries | feeds `PhysInit` |
| Sector cache + ReadSector | io.c 325-484 | per device: `Items[32]`, `nItems`, `Time` | `ReadCache`, `WriteCache`, `ReadSector` | drive.c (`ReadDrive`, `ResetDrive`, `GetDriveParameters`); the heap |
| Device resolver | io.c 30-323 | the `Devices` list | `ParseDevice`, `OpenDevice` (MBR and extended-chain walk, dedup, mount) | drive.c, fat.c/raw.c mount |
| Drive parameters and disk reads | drive.c 38-217 | `DriveParameters[16]`, count | `GetDriveParameters` (move-to-front LRU), `ReadDrive` (INT 13h AH=42h or AH=02h per track) | every disk read |
| FAT driver | fat.c | mount info, file handles (cursor, cluster), the long-name state of a directory search | `FatMount`, `GetNextCluster`, `FindDirEntry` (with `Trim`, `ValidateFilename`, `UnicodeToOem`, `CheckSum`), `_OpenFile`, `_ReadFile`, `_SetFilePointer` | `ReadSector`, the heap |
| Raw driver | raw.c | file cursor over the whole device | `_OpenFile`, `_ReadFile`, `_SetFilePointer` | `ReadSector`, the heap |
| Image loader | loader.c | the image being loaded | `LoadImage` dispatch; `LoadMultiboot`, `LoadELF`, `LoadCOFF`, `LoadBinary`, `LoadBootsector` | files, the physical allocator |
| Modules | multiboot.c 234-293 | module list | `LoadModules` | files, the physical allocator |
| Scratch heap | stdlib.c 11-288 | block list | `HeapInit`, `malloc`, `free`, `realloc` | everything |
| Not modelled | config.c, main.c menu, stdio.c, video.c, conio.c, messages.c, time.c, ctype.c | - | text parsing, formatting, screen and keyboard | - |

## Modules

### PhysMem: the physical allocator (mem.c)

* **State.** `physMem` is the linked list `PhysMem` as a sequence, head first.
  `live` holds the allocations the caller holds, each with the size it
  requested, which is the size it later passes to `PhysFree` (mem.h). `result`
  is the last return value. `firmware` is what the BIOS memory services
  answer, and `map` is the multiboot memory information `main` gathered from
  it and gives to `PhysInit`.
* **Initial states.** `Init` is `main`'s start-up sequence for memory
  (main.c 243-263, 322):
  * `ConventionalUpper` is `GetConventionalMemoryMap`. It takes `MemUpper`
    from INT 15h/88h. When 88h fails or reports exactly 15 MB, it asks E801h
    instead, and uses E801h's `BX` only when `AX` says the 15 MB below 16 MB
    are all present.
  * `E820Loop` is `GetSystemMemoryMap`'s loop. Each call first reallocs the
    map by one entry. A realloc failure, or a carry (including the carry of
    a BIOS that ends its list that way), discards the whole map.
  * `HasMemoryInfo` is main's stop when neither flag is set.
  * `PhysInit` makes its `AddToPhysList` calls: the Type 1 entries in order,
    then `MemUpper`. The first call whose `malloc` fails ends it, and main
    ignores the result.
* **Actions.** There is one action per call. `AllocSucceeds` and `AllocFails`
  together are `PhysAlloc`; `Free` is `PhysFree`. A trailing `AddToPhysList`
  (the tail of an interior carve, or the freed span) is part of the action.
  Its `malloc` can fail (`HeapOutcomes`), in which case the span is dropped,
  as in the code.
* **Helpers.** `AddToPhysList` keeps the code's structure:
  * clip at 1 MB;
  * join into the first region in list order that passes one of the three
    tests, and only that one;
  * otherwise link a new region at the head.
* **Scaling.** Addresses are scaled so that `Low` (8) stands for 0x100000. The
  rounding of sizes to 4 bytes is kept exact, because it matters (see the
  findings).

**PhysMemAbstract** is what the allocator promises. Free memory is a set of bytes,
initially the available memory in the multiboot information above 1 MB (a
subset of it when `PhysInit`'s `malloc` can fail). An allocation removes its
rounded span from the set and a free adds back the span it names. Bytes may go
missing only in a step in which `malloc` failed: the abstract variable `heapOk`
says so, and PhysMem maps it to its ghost `mallocOk`, TRUE when every `malloc`
outcome chosen in the last step (or in `PhysInit`) succeeded. Every step whose
`malloc` succeeded is checked exactly, although the run lets `malloc` fail.
PhysMem instantiates it with `free <- FreeBytes` (the union of the regions) and
checks it as `AbsSpec`.

### SectorCache: ReadSector and the per-device cache (io.c)

* **State.** The cache is `items` (`Items[0..nItems)`, with `Tag`, `Time` and
  `Data`) and `clock` (`Cache.Time`). ReadSector's locals are `sector`, `left`,
  `count` and `try`. `buf` is the data copied into the caller's buffer.
* **Steps.** One step is one pass of ReadSector's loop body:
  * `Hit`: the current sector is cached.
  * `Miss`: scan the uncached run, touching the cached sector that ends it,
    then run the halving `malloc` loop.
  * `ReadOk`: ReadDrive succeeds; cache each sector whose `malloc` succeeds,
    through `WriteCache` with LRU eviction, and copy.
  * `ReadFails`: reset, retry, and give up after `MAX_READ_TRY` tries.
  * `Call` is the entry with its range check and the `GetDriveParameters`
    failure. `Return` is the loop exit.
* **Data abstraction.** The data of a sector is the number of the drive sector it
  came from, so a buffer is correct exactly when it holds
  `StartSector + sector`.
* **Time abstraction.** `Time` is used only with `<`, and every stamp it hands
  out is larger than all earlier ones. Times are therefore kept as their ranks,
  renumbered after each step; eviction order is unchanged. A ULONG wrap would
  need 2^32 cache accesses in one boot.
* **Checked through RawFile.** SectorCache has no MC module of its own. The
  raw driver instances it, and its requests are those of raw `_ReadFile`.

### RawFile: the raw device driver (raw.c)

* **Composition.** RawFile instances SectorCache on the same variables. A pass
  of `_ReadFile`'s loop calls ReadSector (`SC!Call`), lets SectorCache's steps
  run to its return (`InReadSector`), and then copies.
* **State.** `Cursor` is `RAWFILE.Cursor`. `nBytes`, `Read` and `nSectors`
  are `_ReadFile`'s locals. `rpc` is where the handle is: closed, idle, at the
  loop head, or inside ReadSector. The ghosts `data` and `start` hold the
  bytes copied since the cursor was last set, and where it was set.
* **Data.** A byte is its offset on the device. `TmpByte` computes it from
  the drive sectors ReadSector put into the buffer, so the copy is modelled
  by what `memcpy` does at the offsets the code computes (`Skip`,
  `SectorsFor`, `FirstSector`).
* **Steps.** `OpenFile` (its `malloc`), `CloseFile`, `ReadFile` and
  `ReadReturn` (the loop's entry and exit). `AllocAndRead` is the halving
  `malloc` loop, the same loop as ReadSector's (`AllocRun`), followed by the
  call. `CopyOut` is the EIO return on a short ReadSector, or the copy and
  the advance. `SetFilePointer` is all of `_SetFilePointer`.
* **Assumption.** `GetDriveParameters` is taken to succeed. The device was
  opened, so its drive was queried and sits in the move-to-front list, and
  nothing between the open and the read can push it out.
* **Properties.** `ReadMatchesDevice`: the bytes copied are the device's
  bytes from the cursor the read started at, and the cursor moved past
  exactly those. `CursorWithinDevice`: the cursor stays within the device
  (spec: `0 <= cursor <= size`), which only ReadSector's range check ensures
  for a read that runs past the end.

### DeviceResolver: OpenFile and OpenDevice (io.c)

* **State.** `devices` is the `Devices` list, head first. Each device has its
  `DeviceId`, whether it has a file system, and its `StartSector` and
  `nSectors`. `call` is the path being opened, and `part` and `idx` are the
  extended-chain walk's locals. `ret` is the `OpenFile` result.
* **Constants.** `Drives` gives each BIOS drive its size and its partition
  tables: the sector of each table, with four entries of type, start and
  size. `FatVolumes` lists the partitions that hold a FAT file system.
* **Device numbers.** A `DeviceId` is kept as its four bytes, most
  significant first, because `drive << 24` does not fit TLC's integers. The
  byte tests of `OpenDevice` (`>> 8 & 0xFF`, `& 0xFF`) read the tuple
  directly.
* **Actions.**
  * `Open` is `OpenFile` from `ParseDevice` through the dedup lookup, the
    drive check, the MBR scan (`ScanMBR`) and the creation of a primary or
    whole-drive device. When the path names a logical partition, it ends in
    the walk state instead.
  * `WalkStep` is one pass of the extended-chain loop, reading one table.
    The read may fail.
  * `Spin` is the stray `while (part != NULL);` of io.c:246, which loops
    forever once the walk has found its partition.
  * Device creation (`CreateDevice`) checks the range, then `malloc`, then
    mounts the file system, in the code's order.
* **Reference.** `NamedPartition` is what the path names, computed directly
  from the tables as spec section 5 describes. It is checked against what the
  code returns.

### FatFile: a FAT file handle (fat.c)

* **State.** `cursor` and `cluster` are `FILE_INFO.Cursor` and `.Cluster`.
  `nBytes`, `read`, `nClusters` and `nextClus` are `_ReadFile`'s locals. `buf`,
  `start` and `want` are ghosts: the bytes copied by the last call, the cursor
  it started at, and its clamped request.
* **Data.** The file's clusters are the constant `Chain`, and the FAT
  (`FatEntry`) links them and holds 0 elsewhere. A byte is named by where it
  lies on disk, `<<cluster, offset>>`, so a read is correct when it copies the
  bytes of the chain's clusters in order.
* **Steps.** `_ReadFile` takes two kinds of step:
  * `ScanRun` is one outer pass's FAT scan for adjacent clusters.
  * `CopyPiece` is one pass of the inner loop: halving `malloc`,
    `ReadSector` and the copy, then the move to `nextClus` at a cluster
    boundary.

  `ReadCall` and `ReadReturn` are the entry and the exit. `Seek` is all of
  `_SetFilePointer`, its chain walk included.
* **Failures.** A failing `GetNextCluster` (its `malloc` or FAT read) returns
  0xFFFFFFFF. The model keeps it as `FatError`, and later walks from it fail
  again, because its FAT sector lies beyond the device.

### DirLookup: FindDirEntry (fat.c)

* **State.** The function's locals: `ci` and `si` are the cluster of the
  chain and the slot within it (`Cluster`/`Sector` and `i`), `nRoot` is
  `nRootEntries`, and `lastDir`, `dirEntry`, `checksum` and `fname` are
  `LastDirEntry`, `DirEntry`, `Checksum` and the whole 256-byte `Filename`
  buffer. `found` is the slot returned, `errno` the error set, and `failed`
  a ghost that records a failed `malloc`, `ReadSector` or FAT read.
* **Data.** Characters are byte codes. A slot is a record of the fields the
  code reads: the attribute test, `LDIR_Ord` or the 11-byte `DIR_Name`,
  `LDIR_Chksum`, the 13 name characters cut to their low byte (the `CHAR`
  assignments at fat.c 449-465), and whether `LDIR_FstClusLO` and
  `LDIR_Type` are 0. `Trim`, `ValidateFilename`, `UnicodeToOem` (its loop
  as the recursive `OemLoop`) and `CheckSum` (a `FoldLeft`) are operators
  computing what the C functions compute, signed `CHAR` comparisons
  included.
* **Steps.** `Start` is the two `malloc`s, the trim and the validation.
  `ReadCluster` is the cluster read. One step handles one slot:
  `EndOfDirectory`, `SkipDeleted`, `LongEntry` (the flag test, the first
  fragment fixing `LastDirEntry` and `Checksum`, the ordinal and checksum
  test, `StoreFragment` and the terminator, or the reset) and `ShortEntry`
  (the long name kept only with every fragment seen and the short name's
  checksum, else the OEM comparison). `LeaveCluster` and `NextCluster` are
  the loop exits and the move to the next cluster: contiguous for the
  FAT12/16 root, by the FAT otherwise.
* **Directories.** `Layout` writes the slots a FAT writer produces for a
  list of items (8.3-only, long-named, renamed by a tool that left the old
  long-name entries, deleted, orphaned fragments) and pads them to whole
  clusters. Each slot carries the index of its item, which only the
  properties read.
* **Properties.** `LookupSound`: a returned entry is the short entry of a
  live file that the path names, by the long name written under that
  file's checksum or by its short name. `LookupComplete`: with no failure
  and no orphaned fragments, the file whose full name is the path is
  returned.

* **Checked through FatOpen.** DirLookup has no MC module of its own. FatOpen
  builds its `Dirs` and `Paths` from the volume and the path components it
  walks, so each lookup is checked on the directory the walk reached.

### FatMount: mounting a FAT volume (fat.c)

* **State.** `bpb` is the boot sector on disk, chosen once from `Bpbs`.
  `mpc` is where `FatMount` is: querying the drive, allocating `Buffer`,
  reading sector 0 (`tries` is the loop's `i`), checking, or allocating
  `FAT_INFO`. `fi` is the `FAT_INFO` stored in `Device->Data`. `held` is the
  heap blocks the function still holds when it returns. `mfailed` is a ghost
  that records a failed BIOS query, `malloc` or read.
* **Data.** A BPB is a record of the fields the code reads. On a FAT12/16
  boot sector, `FSVer`, `FATSz32` and `RootClus` are the bytes at the FAT32
  offsets, which overlay `BS_DrvNum`..`BS_VolLab`. The checks (`LegalValues`,
  `KindOf`, `WidthFieldsOk`, `Fat32FieldsOk`), the geometry (`DataSec` and the
  others) and the width by cluster count (`Width`) are operators, in the
  code's order.
* **Steps.** `GetParams`, `AllocBuffer`, `ReadBoot` (one pass of the
  retry loop), `ReadGiveUp`, `Validate` and `AllocInfo`. The last one
  returns FALSE without freeing `fi` or `Buffer` when the width is FAT32 and
  `FSVer` is not 0.

### FatOpen: mounting and opening a path (io.c, fat.c)

* **Composition.** FatOpen instantiates FatMount and DirLookup. It runs
  `OpenDevice`'s mount (io.c 294-316), then `_OpenFile`'s walk over the
  path's components (fat.c 555-612). Each component is one `FindDirEntry`,
  whose steps are DirLookup's `Next`.
* **State.** This module adds `opath` (the path), `opc`, `rest` and `sep`
  (what is left of the path and `strchr`'s result), `clus` (the directory's
  first cluster), `opened` (the handle's directory cluster and item),
  `oerrno`, `depth` (components looked up) and the ghost `ofailed`.
* **Data.** `Tree` maps a directory cluster to its items. The root is at
  cluster 0 for FAT12/16 and at `RootClus` for FAT32. Items carry their
  attribute (file, directory or volume label) and first cluster.
* **Steps.** `MountStep` and `MountDone` (a failed mount ends the open as
  unmounted). `Begin` is the leading-'/' test. `Walk` sets up one lookup on
  `DirOf(clus)`. `Lookup` is a step of `FindDirEntry`. `Returned` is the
  test of what it returned: a directory with more path goes on, a file at
  the last component goes to `AllocFile`, anything else fails with
  `ENOENT` or the lookup's errno.
* **Properties.** `MountRecoversGeometry`: a formatter's boot sector
  that mounts gives back the width, cluster size, data start and data size
  it was written with. `LookupSound` and `LookupComplete` are DirLookup's,
  on every directory the walk reaches. `OpenSound`: an opened file is a
  file the path names, component by component. `OpenComplete`: with no
  failure, a path that names exactly one file by full names opens it.
  `Reach` is the reference: a recursive walk of `Tree` by names.

### DriveParams: GetDriveParameters (drive.c)

* **State.** `params` is the whole `DriveParameters[16]` array, the slots past
  `DriveParametersCount` included, because the failure path leaves data in
  them. An entry is its `Drive` number and `geo`, the drive whose BIOS answer
  filled its geometry fields. `recent` is a ghost: the distinct drives asked
  about, most recent first.
* **Actions.**
  * `Hit` is the lookup loop's memmove to the front.
  * `Miss` makes room (dropping the last entry when full), memmoves, writes
    `Drive`, and queries the BIOS. On failure, it decrements the count and
    returns NULL, exactly as the code does.
  * Success or failure of the INT 13h queries is a nondeterministic choice.
    Absent drives always fail.
  * An entry also carries `edd`, bit 0 of `ControllerFlags`: set for the
    drives of `EddDrives` when their query succeeds, cleared by a failed
    query (drive.c 106 runs before the AH=08h call that fails).
* Checked through DriveRead.

### DriveRead: ReadDrive over GetDriveParameters (drive.c)

* **Composition.** `DP == INSTANCE DriveParams`. `OtherLookup` is a call of
  `GetDriveParameters` by any other caller; `ReadDrive` starts with one.
  The loader is single-threaded, so nothing else runs during ReadDrive's
  loop and `pdi` stays `DriveParameters[0]` (`params[1]`).
* **State.** ReadDrive's `Sector`, `nSectors`, `Read` and its drive
  `rdrive`; `dpc` is "chs" inside the CHS loop. `issued` records the INT 13h
  reads the BIOS performed, as register values: AH=02h with CL, CH, DH, AL,
  or AH=42h with the packet's start and count. `first` is a ghost.
* **Data.** `Geometry[d]` is the heads and sectors per track drive `d`'s
  BIOS reports. An entry's geometry fields are `Geometry[e.geo]`. The
  buffer and `nBytesPerSector` are left out.
* **Steps.** `ReadDrive` does the lookup and returns 0 on NULL; on an EDD
  entry it makes the single AH=42h call and returns the count or 0. Otherwise
  each `ChsPass` is one pass of the loop (`ChsRegs` is the register
  arithmetic of drive.c 188-198) and breaks on a failed read; `ChsDone`
  returns `Read`.
* **Properties.** `ReadAddressesRequested` decodes every read as the BIOS of
  the drive does, with the drive's own geometry, and requires the reads to
  cover `Sector`, `Sector+1`, ... in order, each on one track, and `Read` to
  count them. It holds when every drive answers its queries. When a query
  fails it is violated (the run `driveparams_stale_geometry`).

### Heap: the scratch heap (stdlib.c)

* **State.** `blocks` is the heap in address order, one record per
  `HEAPBLOCK` with its `SIZE`, its `BLOCK_FREE` and `BLOCK_ALIGNED` flags and
  the `PrevSize` word stored in its header. A block is named by its header
  address. `heapList` is `HeapList` in link order, head first. `live` is the
  client: the pointers malloc and realloc returned, each with the size asked
  for.
* **Initial state.** `InitBlocks` is `HeapInit`'s arithmetic: a block before
  the first 64k boundary, one block per chunk and one after, each linked at
  the head, so the list runs in address order. Blocks that start a chunk
  carry `BLOCK_ALIGNED`.
* **Actions.** `Malloc`, `Free` and `Realloc` are the three calls.
  `realloc(NULL, n)` and `realloc(p, 0)` are `Malloc` and `Free`.
  * `MallocOp` is first fit on the raw `Size` word, followed by the split.
  * `FreeOp` is the early return, the merge with the next block (unless that
    block is aligned), the merge into the previous block (unless this one is
    aligned) and the final `Link`.
  * `GrowOp` is the in-place growth, or malloc-copy-free.
* **The word past the heap.** `HASNEXT(x)` tests `x` itself, so `NEXT` of
  the last block is the word just past the heap end. That word is outside the
  program's control. `NextOf` reads it as a value chosen from `Beyond`.
* **Scaling.** `Chunk = 64` stands for 65536. The header (16 bytes),
  `MIN_BLOCKSIZE` (4) and the 4-byte `ALIGN` are the code's.

### Loader: LoadImage, the format probes and LoadModules (loader.c, multiboot.c)

* **Composition.** Loader instances PhysMem. Every `PhysAlloc` and
  `PhysFree` the loader makes is PhysMem's own operator on the shared free
  list `physMem`, built by `PhysInit` from the firmware map as `main` does
  before calling `LoadImage`.
* **Data.** A file is abstracted to two things:
  * `claims`: the probes whose format checks recognise it;
  * `layout`: per probe, the regions it would allocate. These are the
    Multiboot range `[LoadAddr, BssEndAddr)`, the ELF program headers
    (PT_LOAD or not), the COFF sections, or the whole binary at its
    configured `Address`.

  Header validation, the header-table `malloc` and each file read are
  nondeterministic outcomes.
* **Actions.**
  * `Prepare` is LoadImage up to its switch.
  * `NotThisFormat` and `Claim` are the tri-state probe results. A claiming
    probe whose checks fail stops the dispatch.
  * `SkipSegment`, `SegmentAllocFails` and `SegmentLoad` make up the segment
    loop. A read failure frees the segment just allocated.
  * `Rollback` is the probe's "free everything" loop, exactly as written.
    LoadELF frees header *i* (the failed one) once per earlier PT_LOAD
    header. LoadCOFF frees each earlier section at its VirtualAddress.
  * `ModuleLoaded` and `ModuleDropped` are LoadModules. Dropping a module
    runs the memmove, `i--` and the free of a failed read.
  * `Transfer` is the call to CallAsMultiboot, which does not return.
* **Ghosts.**
  * `owned` holds the regions allocated and not released by a `PhysFree`
    that names them.
  * `before` is the free memory when LoadImage starts.
* **Halting.** A load ends in `transferred` or `failed`. In both states the
  program stops (CallAsMultiboot does not return, and main halts after a
  failed load), so the cfgs set `CHECK_DEADLOCK FALSE`.

## Runs

| Run | cfg | Expect | What it shows |
|---|---|---|---|
| physmem_safety | MC_PhysMem.cfg | pass | From four firmwares (map discovery may discard the E820 map, and `PhysInit`'s `malloc` may fail part-way), any sequence of allocs and frees (start 0 or fixed; alignment 0 or 8; sizes 3 and 8; `malloc` may fail) keeps the free regions disjoint (`FreeRegionsDisjoint`), never hands out a byte twice (`NoDoubleAllocation`), and only uses memory the BIOS reported above 1 MB (`OnlyFirmwareMemory`). The allocator implements PhysMemAbstract (`AbsSpec`), in which bytes go missing only in a step whose `malloc` failed. |
| rawfile_safety | MC_RawFile.cfg | pass | Opens, reads and seeks on a raw device are checked through ReadSector and its cache. No sector is cached twice (`TagsUnique`), and ReadSector delivers exactly the requested drive sectors in order (`DeliversDriveData`). The raw driver copies exactly the device bytes at the cursor (`ReadMatchesDevice`), and the cursor never passes the device's end (`CursorWithinDevice`). This holds whatever the mix of hits, evictions, halved buffers, failed mallocs and retries, and for reads that run past the end. |
| resolver_safety | MC_DeviceResolver.cfg | pass | Over 18 paths covering every branch of OpenFile, any sequence of opens keeps the device list free of duplicates (`DevicesUnique`). Every successful open returns the partition the path names, mounted exactly when the path names a file (`ResolvesToNamedPartition`). |
| resolver_chain_hang | MC_DeviceResolver_chain.cfg | violation | An open of a logical partition that the walk finds never returns (`ChainWalkReturns`), because of the stray `while` at io.c:246. |
| driveparams_lru | MC_DriveRead.cfg | pass | With every drive answering, the valid entries are exactly the most recently asked distinct drives in recency order (`CacheIsRecencyList`). Every returned entry is the asked drive's (`ReturnsOwnGeometry`). Every ReadDrive, by packet or track by track, reads exactly the sectors asked for, and reads may fail part-way (`ReadAddressesRequested`). |
| fatfile_safety | MC_FatFile.cfg | pass | On a FAT16 file of three clusters in two runs, any sequence of reads and seeks copies exactly the file's bytes at the cursor's offsets, with the cursor advanced by the bytes copied (`ReadMatchesFile`, spec section 8). Between calls the current cluster holds the cursor's byte (`CursorClusterConsistent`, spec section 3). This holds whatever `GetNextCluster`, `malloc` and `ReadSector` do. |
| fatfile_short_read | MC_FatFile_short.cfg | violation | With nothing failing, a 5-byte read across two runs returns 4 bytes and no errno (`ReadReturnsAll`). The loop tests `Read < nBytes` while `nBytes` shrinks (fat.c:632). |
| driveparams_stale_geometry | MC_DriveRead_stale.cfg | violation | A failed query leaves the failed drive's number on the front entry's geometry. The next ReadDrive of that drive converts its sector with another drive's heads and sectors per track, and the BIOS reads other sectors (`ReadAddressesRequested`). |
| loader_safety | MC_Loader.cfg | pass | Six images take every dispatch path: Multiboot before ELF, ELF with a non-load header, COFF whose third section collides, relocatable, binary, and unrecognised. Every allocation, read and module may fail. No held byte is ever on the free list (`OwnedMemoryNeverFree`). At transfer, the image segments sit at their declared addresses, and they, the kept modules and the free list account for all free memory (`TransferAccountsMemory`). The module list is the loaded modules, in order (`ModuleListKeptInOrder`). |
| heap_safety | MC_Heap.cfg | pass | Any sequence of up to four live mallocs, reallocs and frees (sizes 6, 24 and 40) keeps the boundary tags tiling the heap, with `HeapList` linking exactly the free blocks (`HeapWellFormed`). Every allocation stays inside one 64k chunk, as the comment above `HeapInit` promises (`DmaSafe`). Every held pointer is an in-use block of at least the size asked for (`LiveBlocksAllocated`). This holds as long as the word past the heap does not read as a free, unaligned block. |
| fatopen_safety | MC_FatOpen.cfg | pass | Nine boot sectors are used: valid FAT12, FAT16 and FAT32 at both sides of each cluster-count threshold, plus hand-made ones for each rejection and misclassification. Eleven paths go through a root, two subdirectories and a volume label, and every BIOS query, `malloc` and read may fail. A formatter's boot sector that mounts gives back its geometry (`MountRecoversGeometry`). Every lookup of the walk is sound (`LookupSound`), and complete when nothing fails (`LookupComplete`). An opened file is the one the path names (`OpenSound`). Without failures, a path naming exactly one file opens it (`OpenComplete`). |
| fatopen_volume_label | MC_FatOpen_label.cfg | violation | A volume labelled `AB` with a root directory `ab`. `/ab/ab.b` fails with `ENOENT` (`OpenComplete`), because `FindDirEntry` returns the label entry, which matches by its 11-byte name (fat.c:507). `_OpenFile` then finds that it is not a directory. |

Each property of a passing run has a mutant in `PROJECT.json`: a seeded fault,
defined in the module just before the definition it replaces, that TLC catches.

### Bounds

* **PhysMem.** Four firmwares are used (`Low + Ext15` stands for 16 MB):
  * One has an entry straddling 1 MB and a reserved entry between two
    available ones. Its 88h reports exactly 15 MB, so `MemUpper` comes from
    E801h.
  * One has three entries, two of which are adjacent, inserted out of
    address order so that the list order differs from address order. It has
    no simple information.
  * One ends its E820 list with a carry. Its map is always discarded, and
    `MemUpper` comes from E801h after 88h fails.
  * One has no E820 and an E801h whose `AX` leaves a hole below 16 MB, so
    main stops. It gives no initial state, but a discovery that ignored
    `AX` would claim the hole and break `OnlyFirmwareMemory`.

  Every realloc of the E820 loop and every `malloc` of `PhysInit` may fail,
  which gives 10 initial states.

  The client holds at most `MaxLive = 2` allocations. This is enough for a free
  to land between two live allocations, and for an interior carve to split a
  region. Fixed starts 12 and 16 hit region interiors and boundaries.
* **RawFile and SectorCache.** The device has 4 sectors of 2 bytes, the
  cache holds 2 entries, and the heap holds 0-3 sectors per `malloc`. Reads
  are 1, 2, 3 and 7 bytes. A 7-byte read spans all 4 sectors, so its buffer
  is halved to 2 sectors, and a single ReadSector call overflows the cache
  and evicts entries it has just written. Reads of 2 or 3 sectors show that
  the loop never tries one sector. From every cursor, reads start and end
  mid-sector and on boundaries, and some run past the end. Seeks by -1, 0,
  1, 3 and 7 from each origin reach both ends and rejected targets. Two
  tries per drive read reach both the retry and the EIO exit.
* **DeviceResolver.** The model uses two hard disks and a floppy:
  * hd0 has three primaries and a two-level extended chain.
  * hd1's chain links a table to itself.
  * The floppy has no partition table.

  Together they reach every exit of `OpenFile`: each error code, a dedup hit
  for raw and for mounted devices, a partition past the drive's end, a
  partition with no FAT, and the walk's three exits.
* **DriveParams.** The reliable run uses an array of 4 (16 in the code) over
  5 drives, so the array fills and entries move to the front from every
  position. The failure run uses 3 entries over 4 drives, one of them absent,
  so failures happen both with the array full and not full. Every drive
  has its own geometry and drive 129 reads by packet. Reads start at sector
  1 or 1537 and take 1 or 4 sectors: 4 sectors cross a track on every CHS
  drive, and 1537 is in cylinder 256 of drive 128 (2 heads, 3 sectors), so
  CL carries cylinder bit 8. No start reaches cylinder 1024 (see the
  drive.c:193 hazard).

* **FatFile.** A 5-byte file in 2-byte clusters, chained 5, 6, 4: two runs,
  the second one backwards. Reads of 1, 2, 3 and 5 bytes and seeks to
  offsets -1, 0, 1 and 3 from each origin reach:
  * reads that start and end mid-cluster and on boundaries;
  * clamping at end of file;
  * backward and forward seeks and rejected targets.

  A heap of 0-2 clusters makes the halving loop split and fail. MC_FatFile
  also defines the same chain moved above 65535 on FAT32. With it, and no
  failures, TLC finds `ReadMatchesFile` violated by the fat.c:755 seek (a
  hazard in `PROJECT.json`).
* **Loader.** The bounds are as follows:
  * Available memory is [8, 40), with 8 standing for 1 MB, and a page is 8.
  * There are three modules of sizes 4, 0 and 8. The empty one is always
    dropped, because `PhysAlloc` of size 0 returns NULL.
  * The six images reach every probe order, both rollback loops with earlier
    segments to free, and modules both with and without page alignment.

  Image and module sizes are multiples of 4. A failed module read is freed
  with its unrounded size, losing up to 3 bytes (the mem.c:163 rounding
  loss). PhysMem's hazard covers that loss, and the multiple-of-4 sizes keep
  it out of the accounting here.

* **Heap.** `HeapInit(5, 216)` makes a 32-byte block before the first
  boundary, two 48-byte chunk blocks and a 24-byte block after them. The
  requests are 6 (rounded to 8, a minimum-size split), 24 (a split) and 40
  (a whole chunk block). With at most 4 live pointers, the heap fills, so
  `HeapList` becomes NULL, and realloc takes each of its paths. The passing
  run fixes the word past the heap to 0. With `Beyond = {0, 1}`, TLC finds
  `HeapWellFormed` violated by the past-end merge in 6 steps (the
  stdlib.c:182 hazard). Four mallocs that use every block, followed by a
  free, show the stdlib.c:173 leak (a hazard in `PROJECT.json`).

* **FatOpen.** Clusters hold 4 slots. `RootSlots = 8` stands for
  `RootEntCnt` and fills the fixed root exactly, so the lookup reaches the
  root's entry count at a cluster's end (which reads one cluster past the
  root). The items are as follows:
  * a volume label;
  * two directories;
  * `AB.B` (8.3 only);
  * a 15-character long name (two fragments, the second with the NUL and
    0xFFFF fill);
  * a 13-character long name left behind by a rename (one fragment, so the
    code writes the terminator);
  * a deleted file;
  * an orphaned fragment.

  The eleven paths reach every exit of the walk and of the lookup: the end
  marker, the end of the chain, each failure, a missing leading '/', a file
  used as a directory, a directory as the last component, and an illegal
  character. The boot sectors sit at 4084/4085 and 65524/65525 clusters,
  which is where `Width` changes. The four hand-made ones have a wrong sector
  size, `RsvdSecCnt > 1` with a fixed root, a FAT16 layout past 65524
  clusters, and a FAT32 layout below 65525 clusters. One more has a
  `TotSec32` below the metadata. Long names stay below five fragments: the
  fat.c:417 hazard in `PROJECT.json` gives the constants that show the
  fifth-fragment rewrite. Ordinals stay at most 20, the largest whose
  fragment fits in `Filename`.

### Fairness

The code is single-threaded and each of its loops is bounded by a counter,
except the extended-partition walk. DeviceResolver therefore assumes weak
fairness of `Walk`, which is justified because nothing else runs while
`OpenDevice` is in its loop. Under that assumption `ChainWalkReturns` is
violated by the spin at io.c:246. FatOpen checks only safety. An open ends, and with it the model, so its cfgs set
`CHECK_DEADLOCK FALSE`. Weak fairness on ReadSector's
steps is not enough to check the retry bound. Drive success and failure are a
nondeterministic choice, and fairness over that choice would force an eventual
success. So the retry bound is left to the safety properties.

## Plan

The plan is ordered by how much each part can go wrong in ways tests do not
reach:

1. **DeviceResolver** (io.c 30-323, 491-517). Done.
2. **DriveParams and DriveRead** (drive.c 38-217). Done. `ResetDrive` is
   one BIOS call with no loader state; its callers' retry loops model it.
3. **FatFile** (fat.c 266-331, 555-768). Done. The raw driver (raw.c) is
   done as RawFile, over SectorCache.
4. **DirLookup** (fat.c 141-263, 333-553). Done. Ordinals above 20, which
   write past `Filename`, are a hazard rather than a run.
5. **FatMount and FatOpen** (fat.c 555-612, 785-936; io.c 294-316). Done:
   the mount, and `_OpenFile`'s walk over path components composed with
   DirLookup.
6. **Loader** (loader.c, multiboot.c LoadModules). Done. Still to do:
   `LoadBootsector` with its unchecked `GetDriveParameters` result
   (loader.c:83), and the header arithmetic of `LoadMultiboot` as operators.
7. **Heap** (stdlib.c 11-288). Done.
8. **Memory map discovery** (mem.c 201-287), with main's start-up
   sequence. Done, as PhysMem's `Init`.

## Not modelled

* Two disagreements with the code are recorded as hazards in
  `PROJECT.json` rather than as runs: overlapping E820 entries
  (mem.c:48, a byte allocated twice) and LoadELF's rollback index
  (loader.c:314). Both need a malformed map or a failed load to show.
  So do the past-end merge of the heap (stdlib.c:182) and the FAT32
  backward seek (fat.c:755). The Bounds section names the constants that
  reproduce both violations.
* `UnicodeToOem` copies 11 characters of a name without a dot and truncates
  a long extension (fat.c:185). The model computes the same short name, and
  the spec does not say which names must fail, so this is a hazard.
* Three FatMount defects are hazards rather than runs. MC_FatOpen
  includes a boot sector for each, but neither the spec nor a comment says
  what FatMount must do with them. They are the leak of `fi` and `Buffer`
  when a FAT16 layout's `BS_VolID` is read as `FSVer` (fat.c:912), the
  `DataSec` wrap, and a small FAT32 layout mounting as FAT16. The last two
  share one hazard at fat.c:892.
* FatOpen ends at the handle. `_ReadFile` and `_SetFilePointer` are
  FatFile's, and the accessors on the handle (`GetFileSize` and the others)
  are not modelled, because they only read fields.
* A raw read that runs past the device's end returns nothing with EIO
  (raw.c:61), although bytes before the end exist. This is a hazard, not a
  run, because no comment or spec sentence says how much such a read
  returns. SectorCache's `GetDriveParameters` failure at the entry of
  ReadSector is not reached from the raw driver, whose own query just
  succeeded. The range check at the same place is reached.
* A ReadDrive past cylinder 1023 on a CHS drive reads cylinder modulo 1024
  (drive.c:193). `ReadAddressesRequested` would report it, but the run slots
  are taken, so it is a hazard. An EDD drive whose AH=48h fails while AH=08h
  succeeds gets a CHS entry; the model lets an EDD drive's query succeed or
  fail as a whole.
* Configuration parsing, the menu, console and video output, formatted
  printing and time are not modelled. They are text and screen handling with
  no state the loader's correctness depends on.
* BIOS calls (INT 13h, 15h and the VBE and APM queries) are modelled only by
  their outcomes: success, failure, or the data they return.
* Addresses at or above 4 GB (mem.c:120, 153) are outside the scaled address
  range.
