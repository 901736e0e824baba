---------------------------- MODULE SectorCache ----------------------------
(***************************************************************************)
(* ReadSector of io.c on one device, with the device's sector cache        *)
(* (ReadCache, WriteCache). The cache is the array Cache.Items[0..nItems) *)
(* as a sequence, each item a Tag (device-relative sector), the Time of    *)
(* its last use and its Data; Cache.Time is the logical clock.             *)
(*                                                                         *)
(* ReadSector is a loop; each pass over its body is one step, because each *)
(* pass makes its own malloc and drive calls, whose outcomes are chosen    *)
(* nondeterministically: the heap can hold any number of sectors up to     *)
(* MaxHeap when the run buffer is allocated, each per-sector cache copy    *)
(* may or may not get memory, and a ReadDrive may fail. The data of a      *)
(* sector is the drive sector it was read from, so a buffer holds the      *)
(* right data exactly when it holds StartSector + its device sector.       *)
(***************************************************************************)
EXTENDS Integers, Sequences, SequencesExt, FiniteSets

CONSTANTS
  NSectors,     \* Device->nSectors
  StartSector,  \* Device->StartSector
  CacheSize,    \* CACHE_SIZE (32)
  MaxReadTry,   \* MAX_READ_TRY (8)
  MaxHeap,      \* the most sectors malloc can satisfy at once
  MaxRequest,   \* the largest nSectors a caller passes
  DriveCanFail  \* whether ReadDrive may return short

ASSUME CacheSize \in Nat \ {0} /\ MaxReadTry \in Nat \ {0}
ASSUME DriveCanFail \in BOOLEAN

Sectors == 0 .. (NSectors - 1)

VARIABLES
  items,    \* Cache.Items[0 .. nItems-1]
  clock,    \* Cache.Time
  pc,       \* "idle", "loop" (loop head of ReadSector), "read" (retry loop)
  req,      \* the call being served: [sector, n]
  sector,   \* local Sector
  left,     \* local nSectors
  count,    \* local count (sectors in the current run)
  try,      \* local i of the retry loop
  buf,      \* data copied into the caller's Buffer so far
  errno,    \* errno as ReadSector leaves it
  heap      \* sectors malloc could satisfy when the last run buffer was asked for

vars == <<items, clock, pc, req, sector, left, count, try, buf, errno, heap>>

-----------------------------------------------------------------------------
(* Cache.Time only ever takes part in "<" between items, and every stamp   *)
(* it hands out is larger than all earlier ones, so the model keeps times  *)
(* as their ranks: after each step the items' times are renumbered 0, 1,   *)
(* ... in their order and the clock is the next free rank. (A ULONG clock  *)
(* would need 2^32 cache accesses to wrap, which a boot never makes.)      *)
Ranked(c) ==
  [i \in 1..Len(c) |->
     [c[i] EXCEPT !.Time = Cardinality({ j \in 1..Len(c) : c[j].Time < c[i].Time })]]

(* ReadCache: index of the item with this tag (0 if none).                 *)
CacheIndex(c, tag) == SelectInSeq(c, LAMBDA it : it.Tag = tag)

(* ReadCache on a hit: the item's Time becomes the clock, which advances.  *)
Touch(c, k, t) == [c EXCEPT ![k].Time = t]

(* WriteCache: append while there is room, otherwise overwrite the first   *)
(* item with the smallest Time.                                            *)
Victim(c) == SelectInSeq(c, LAMBDA it : \A o \in ToSet(c) : it.Time <= o.Time)

(* Seeded fault for mutation analysis: no eviction when the cache is full. *)
WriteCacheNoEvict(c, t, tag, data) ==
  Append(c, [Tag |-> tag, Time |-> t, Data |-> data])

WriteCache(c, t, tag, data) ==
  IF Len(c) = CacheSize
    THEN [c EXCEPT ![Victim(c)] = [Tag |-> tag, Time |-> t, Data |-> data]]
    ELSE Append(c, [Tag |-> tag, Time |-> t, Data |-> data])

(* The per-sector copy loop after a successful ReadDrive: sector s + i is  *)
(* written to the cache when its malloc succeeded (kept[i]), in order i.   *)
(* Seeded fault: every sector of the run cached under the run's first tag. *)
RECURSIVE FillCacheSameTag(_, _, _, _, _)
FillCacheSameTag(c, t, s, n, kept) ==
  IF n = 0 THEN [cache |-> c, clock |-> t]
  ELSE LET i == Len(kept) - n
       IN  IF kept[i + 1]
             THEN FillCacheSameTag(WriteCache(c, t, s, StartSector + s + i), t + 1, s, n - 1, kept)
             ELSE FillCacheSameTag(c, t, s, n - 1, kept)

RECURSIVE FillCache(_, _, _, _, _)
FillCache(c, t, s, n, kept) ==
  IF n = 0 THEN [cache |-> c, clock |-> t]
  ELSE LET i == Len(kept) - n
       IN  IF kept[i + 1]
             THEN FillCache(WriteCache(c, t, s + i, StartSector + s + i), t + 1, s, n - 1, kept)
             ELSE FillCache(c, t, s, n - 1, kept)

(* The scan for the run of uncached sectors after a miss at s: the first  *)
(* cached sector in s+1 .. s+n-1 ends it (and is touched by ReadCache).    *)
(* Seeded fault: the scan does not stop at a cached sector.               *)
FirstCachedAfterNoBreak(c, s, n) == s + n

FirstCachedAfter(c, s, n) ==
  LET hits == { e \in (s + 1) .. (s + n - 1) : CacheIndex(c, e) # 0 }
  IN  IF hits = {} THEN s + n ELSE Min(hits)

(* The malloc loop: try count, halve while the halved count exceeds 1.     *)
(* The result is the count allocated, 0 when the loop gives up.            *)
RECURSIVE AllocRun(_, _)
AllocRun(c, avail) ==
  IF c <= avail THEN c
  ELSE IF c \div 2 > 1 THEN AllocRun(c \div 2, avail)
  ELSE 0

-----------------------------------------------------------------------------
Init ==
  /\ items = <<>>
  /\ clock = 0
  /\ pc = "idle"
  /\ req = [sector |-> 0, n |-> 0]
  /\ sector = 0 /\ left = 0 /\ count = 0 /\ try = 0
  /\ buf = <<>>
  /\ errno = "EZERO"
  /\ heap = 0

(* Seeded fault: no check that the range lies within the device.         *)
CallNoRangeCheck(s, n, paramsOk) ==
  /\ pc = "idle"
  /\ req' = [sector |-> s, n |-> n]
  /\ buf' = <<>>
  /\ IF ~paramsOk
       THEN /\ errno' = "EIO"
            /\ UNCHANGED <<pc, sector, left>>
       ELSE /\ errno' = "EZERO"
            /\ pc' = "loop" /\ sector' = s /\ left' = n
  /\ UNCHANGED <<items, clock, count, try, heap>>

(* A caller (the FAT or raw driver) calls ReadSector(s, n). It fails with *)
(* EIO at once when GetDriveParameters fails (paramsOk FALSE) or the range *)
(* does not lie within the device.                                         *)
Call(s, n, paramsOk) ==
  /\ pc = "idle"
  /\ req' = [sector |-> s, n |-> n]
  /\ buf' = <<>>
  /\ IF ~paramsOk \/ s + n > NSectors
       THEN /\ errno' = "EIO"
            /\ UNCHANGED <<pc, sector, left>>
       ELSE /\ errno' = "EZERO"
            /\ pc' = "loop" /\ sector' = s /\ left' = n
  /\ UNCHANGED <<items, clock, count, try, heap>>

(* Loop head with nothing left: ReadSector returns Read.                   *)
Return ==
  /\ pc = "loop" /\ left = 0
  /\ pc' = "idle"
  /\ UNCHANGED <<items, clock, req, sector, left, count, try, buf, errno, heap>>

(* The current sector is cached: copy it and advance by one.               *)
Hit ==
  LET k == CacheIndex(items, sector)
  IN  /\ pc = "loop" /\ left > 0 /\ k # 0
      /\ items' = Ranked(Touch(items, k, clock))
      /\ clock' = Len(items)
      /\ buf' = Append(buf, items[k].Data)
      /\ sector' = sector + 1 /\ left' = left - 1
      /\ UNCHANGED <<pc, req, count, try, errno, heap>>

(* The current sector is not cached: measure the uncached run (touching   *)
(* the cached sector that ends it) and allocate a buffer for it, halving  *)
(* on failure; no buffer at all ends ReadSector with ENOMEM.               *)
Miss(avail) ==
  LET stop    == FirstCachedAfter(items, sector, left)
      k       == CacheIndex(items, stop)
      scanned == IF k # 0 THEN Touch(items, k, clock) ELSE items
      got     == AllocRun(stop - sector, avail)
  IN  /\ pc = "loop" /\ left > 0 /\ CacheIndex(items, sector) = 0
      /\ items' = Ranked(scanned)
      /\ clock' = Len(items)
      /\ heap' = avail
      /\ IF got = 0
           THEN /\ errno' = "ENOMEM" /\ pc' = "idle"
                /\ UNCHANGED <<count, try>>
           ELSE /\ pc' = "read" /\ count' = got /\ try' = 0
                /\ UNCHANGED errno
      /\ UNCHANGED <<req, sector, left, buf>>

(* ReadDrive returns all count sectors: cache them, copy them, advance.    *)
ReadOk(kept) ==
  LET f == FillCache(items, clock, sector, count, kept)
  IN  /\ pc = "read"
      /\ items' = Ranked(f.cache) /\ clock' = Len(f.cache)
      /\ buf' = buf \o [i \in 1..count |-> StartSector + sector + i - 1]
      /\ sector' = sector + count /\ left' = left - count
      /\ pc' = "loop"
      /\ UNCHANGED <<req, count, try, errno, heap>>

(* ReadDrive returns short: reset the drive and retry, up to MAX_READ_TRY *)
(* times, then end ReadSector with EIO.                                    *)
ReadFails ==
  /\ DriveCanFail
  /\ pc = "read"
  /\ try' = try + 1
  /\ IF try + 1 = MaxReadTry
       THEN errno' = "EIO" /\ pc' = "idle"
       ELSE UNCHANGED <<errno, pc>>
  /\ UNCHANGED <<items, clock, req, sector, left, count, buf, heap>>

ReadSector ==
  \/ Return
  \/ Hit
  \/ \E avail \in 0..MaxHeap : Miss(avail)
  \/ \E kept \in [1..count -> BOOLEAN] : ReadOk(kept)
  \/ ReadFails

Next ==
  \/ \E s \in Sectors, n \in 1..MaxRequest, ok \in BOOLEAN : Call(s, n, ok)
  \/ ReadSector

Spec == Init /\ [][Next]_vars

-----------------------------------------------------------------------------
TypeOK ==
  /\ items \in Seq([Tag : Sectors, Time : Nat, Data : Nat])
  /\ Len(items) <= CacheSize
  /\ clock \in Nat
  /\ pc \in {"idle", "loop", "read"}
  /\ buf \in Seq(Nat)
  /\ errno \in {"EZERO", "EIO", "ENOMEM"}

(* A sector is cached at most once: ReadSector only reads and caches runs *)
(* of sectors that its scan found uncached, so WriteCache, which never    *)
(* looks for an existing tag, never adds a second copy.                    *)
TagsUnique ==
  \A i, j \in 1..Len(items) : i # j => items[i].Tag # items[j].Tag

(* Whatever mix of cache hits, fresh reads, evictions and retries served   *)
(* it, the caller's buffer holds, in order, the data of the drive sectors  *)
(* StartSector + s, StartSector + s + 1, ... of the request (s, n).        *)
DeliversDriveData ==
  \A i \in 1..Len(buf) : buf[i] = StartSector + req.sector + i - 1

=============================================================================
