------------------------------ MODULE FatFile ------------------------------
(***************************************************************************)
(* A file opened by the FAT driver (fat.c): its cursor and current cluster *)
(* (FILE_INFO.Cursor, .Cluster), moved by _ReadFile and _SetFilePointer.   *)
(*                                                                         *)
(* The file's cluster chain is the constant Chain; the FAT holds it (and 0 *)
(* for every other cluster). A byte is identified by where it lives on the *)
(* disk, <<cluster, offset>>, so a read returns the right data exactly     *)
(* when it returns the bytes of the file's own clusters in order.          *)
(* GetNextCluster, malloc and ReadSector are calls whose outcomes are      *)
(* chosen nondeterministically: GetNextCluster returns the FAT entry or,   *)
(* when its malloc or sector read fails, 0xFFFFFFFF; malloc of a run       *)
(* buffer gets at most some number of clusters; ReadSector may fail.       *)
(***************************************************************************)
EXTENDS Integers, Sequences, SequencesExt

CONSTANTS
  BytsPerClus,  \* FAT_INFO.BytsPerClus (a power of 2)
  EndCluster,   \* FAT_INFO.EndCluster: 0xFF7, 0xFFF7 or 0x0FFFFFF7
  EOC,          \* the end-of-chain mark in the file's last FAT entry
  Chain,        \* the file's clusters, first cluster first
  FileSize,     \* DIR_FileSize
  MaxHeap,      \* the most clusters malloc can satisfy at once
  Requests,     \* the nBytes values callers pass to ReadFile
  Offsets,      \* the offsets callers pass to SetFilePointer
  FatCanFail,   \* whether GetNextCluster may fail
  DiskCanFail   \* whether ReadSector may fail

ASSUME /\ BytsPerClus \in Nat \ {0}
       /\ Len(Chain) > 0
       /\ FileSize \in ((Len(Chain) - 1) * BytsPerClus + 1) .. (Len(Chain) * BytsPerClus)

(* 0xFFFFFFFF, GetNextCluster's result when it cannot read the FAT. It is *)
(* only ever compared with 2 and EndCluster, so any value at or above      *)
(* EndCluster that TLC can represent (here 2^31 - 1) stands for it.     *)
FatError == 2147483647

FstClus == Chain[1]

(* DIR_FstClusLO: the low 16 bits of the first cluster.                    *)
FstClusLO == FstClus % 2^16

(* The FAT: each cluster of the chain links to the next, the last to EOC,  *)
(* every other cluster is free (0).                                        *)
FatEntry(c) ==
  LET i == SelectInSeq(Chain, LAMBDA x : x = c)
  IN  CASE i = 0         -> 0
        [] i = Len(Chain) -> EOC
        [] OTHER          -> Chain[i + 1]

(* The loop conditions' test for a usable cluster number.                  *)
Valid(c) == c >= 2 /\ c < EndCluster

(* The byte at file offset o, as a reference whole-file read sees it.      *)
FileByte(o) == <<Chain[o \div BytsPerClus + 1], o % BytsPerClus>>

(* The byte at offset o into a multi-cluster read starting at cluster c.   *)
DiskByte(c, o) == <<c + o \div BytsPerClus, o % BytsPerClus>>

VARIABLES
  cursor,     \* File->Cursor
  cluster,    \* File->Cluster
  pc,         \* "idle", "outer" (_ReadFile's outer loop), "piece" (inner loop)
  nBytes,     \* _ReadFile's nBytes, decremented as data is copied
  read,       \* _ReadFile's Read
  nClusters,  \* the clusters of the current run not yet copied
  nextClus,   \* the last GetNextCluster result of the run scan
  errno,      \* errno as set by this call, "none" when it sets none
  want,       \* the clamped nBytes of the current read
  start,      \* the cursor when the current read began
  buf         \* the bytes copied into the caller's Buffer

vars == <<cursor, cluster, pc, nBytes, read, nClusters, nextClus, errno, want, start, buf>>

-----------------------------------------------------------------------------
(* Seeded fault for mutation analysis: the request is not clamped at EOF.  *)
ClampNoEOF(cur, n) == n

(* "Adjust nBytes to prevent reading past EOF".                            *)
Clamp(cur, n) == IF cur + n > FileSize THEN FileSize - cur ELSE n

(* The run scan: GetNextCluster on c, c+1, ... while each answer is valid, *)
(* the next cluster number in line and below c + lim. f is the call, if   *)
(* any, whose FAT read fails. The result is [n |-> nClusters, next |->     *)
(* nextClus].                                                              *)
(* Seeded fault: the scan does not check that the clusters are adjacent.   *)
RECURSIVE RunNoAdjacency(_, _, _, _)
RunNoAdjacency(c, k, lim, f) ==
  LET nxt == IF f = k + 1 THEN FatError ELSE FatEntry(c + k)
  IN  IF Valid(nxt) /\ nxt < c + lim
        THEN RunNoAdjacency(c, k + 1, lim, f)
        ELSE [n |-> k + 1, next |-> nxt]

RECURSIVE Run(_, _, _, _)
Run(c, k, lim, f) ==
  LET nxt == IF f = k + 1 THEN FatError ELSE FatEntry(c + k)
  IN  IF Valid(nxt) /\ nxt = c + k + 1 /\ nxt < c + lim
        THEN Run(c, k + 1, lim, f)
        ELSE [n |-> k + 1, next |-> nxt]

(* The malloc loop: try n clusters, halve while the halved count exceeds   *)
(* 1; 0 when it gives up.                                                  *)
RECURSIVE AllocClusters(_, _)
AllocClusters(n, avail) ==
  IF n <= avail THEN n
  ELSE IF n \div 2 > 1 THEN AllocClusters(n \div 2, avail)
  ELSE 0

(* k GetNextCluster calls from cluster c, the f-th of which fails; a      *)
(* failed call's 0xFFFFFFFF makes every later call fail too (its FAT       *)
(* sector lies beyond the device).                                         *)
RECURSIVE WalkChain(_, _, _)
WalkChain(c, k, f) ==
  IF k = 0 THEN c
  ELSE WalkChain(IF f = 1 \/ c = FatError THEN FatError ELSE FatEntry(c), k - 1, f - 1)

(* Where the forward walk of _SetFilePointer starts: the old cursor        *)
(* aligned down to its cluster, or, for a backward seek, offset 0 at       *)
(* DIR_FstClusLO.                                                          *)
(* Seeded fault: a backward seek only realigns, keeping the current        *)
(* cluster instead of restarting from the first one.                       *)
SeekOriginNoRestart(cur, clus, tgt) ==
  LET aligned == cur - (cur % BytsPerClus)
  IN  IF tgt < aligned THEN [pos |-> tgt - (tgt % BytsPerClus), clus |-> clus]
                       ELSE [pos |-> aligned, clus |-> clus]

SeekOrigin(cur, clus, tgt) ==
  LET aligned == cur - (cur % BytsPerClus)
  IN  IF tgt < aligned THEN [pos |-> 0, clus |-> FstClusLO]
                       ELSE [pos |-> aligned, clus |-> clus]

-----------------------------------------------------------------------------
(* _OpenFile's new FILE_INFO: cursor 0 at MAKELONG(HI, LO).                *)
Init ==
  /\ cursor = 0
  /\ cluster = FstClus
  /\ pc = "idle"
  /\ nBytes = 0 /\ read = 0 /\ nClusters = 0 /\ nextClus = 0
  /\ errno = "none"
  /\ want = 0 /\ start = 0
  /\ buf = <<>>

(* ReadFile(file, Buffer, n) enters _ReadFile.                             *)
ReadCall(n) ==
  /\ pc = "idle"
  /\ nBytes' = Clamp(cursor, n)
  /\ want' = nBytes'
  /\ pc' = "outer"
  /\ read' = 0 /\ errno' = "none" /\ start' = cursor /\ buf' = <<>>
  /\ UNCHANGED <<cursor, cluster, nClusters, nextClus>>

(* The outer loop's condition fails: _ReadFile returns Read.              *)
ReadReturn ==
  /\ pc = "outer"
  /\ ~(Valid(cluster) /\ read < nBytes)
  /\ pc' = "idle"
  /\ UNCHANGED <<cursor, cluster, nBytes, read, nClusters, nextClus, errno, want, start, buf>>

(* One outer pass begins: scan the FAT for the run of adjacent clusters   *)
(* that the remaining bytes need.                                          *)
ScanRun(f) ==
  LET lim == ((cursor % BytsPerClus) + nBytes + BytsPerClus - 1) \div BytsPerClus
      r   == Run(cluster, 0, lim, f)
  IN  /\ pc = "outer"
      /\ Valid(cluster) /\ read < nBytes
      /\ f # 0 => FatCanFail
      /\ nClusters' = r.n /\ nextClus' = r.next
      /\ pc' = "piece"
      /\ UNCHANGED <<cursor, cluster, nBytes, read, errno, want, start, buf>>

(* One pass of the inner loop: allocate a buffer for the rest of the run  *)
(* (halving), read it, copy the requested part and advance the cursor and *)
(* cluster; after the last piece, a cluster-aligned cursor moves on to     *)
(* nextClus. Failing malloc or ReadSector ends _ReadFile with what it has. *)
CopyPiece(avail, diskOk) ==
  LET got  == AllocClusters(nClusters, avail)
      off  == cursor % BytsPerClus
      full == got * BytsPerClus - off
      len  == IF nBytes < full THEN nBytes ELSE full
      adv  == cluster + (cursor + len) \div BytsPerClus - cursor \div BytsPerClus
  IN  /\ pc = "piece"
      /\ ~diskOk => DiskCanFail
      /\ CASE got = 0 ->
                /\ errno' = "ENOMEM" /\ pc' = "idle"
                /\ UNCHANGED <<cursor, cluster, nBytes, read, nClusters, buf>>
           [] ~diskOk ->
                /\ errno' = "EIO" /\ pc' = "idle"
                /\ UNCHANGED <<cursor, cluster, nBytes, read, nClusters, buf>>
           [] OTHER ->
                /\ buf' = buf \o [i \in 1..len |-> DiskByte(cluster, off + i - 1)]
                /\ read' = read + len
                /\ nBytes' = nBytes - len
                /\ cursor' = cursor + len
                /\ nClusters' = nClusters - got
                /\ cluster' = IF nClusters' = 0 /\ cursor' % BytsPerClus = 0
                                THEN nextClus ELSE adv
                /\ pc' = IF nClusters' = 0 THEN "outer" ELSE "piece"
                /\ UNCHANGED errno
      /\ UNCHANGED <<nextClus, want, start>>

(* SetFilePointer(file, offset, whence): compute and validate the target, *)
(* then walk the chain to it. A rejected target changes nothing.           *)
Seek(offset, whence, f) ==
  LET tgt == CASE whence = "FILE_BEGIN"   -> offset
               [] whence = "FILE_CURRENT" -> cursor + offset
               [] whence = "FILE_END"     -> FileSize - offset
      o   == SeekOrigin(cursor, cluster, tgt)
  IN  /\ pc = "idle"
      /\ f # 0 => FatCanFail
      /\ tgt >= 0 /\ tgt < FileSize
      /\ cluster' = WalkChain(o.clus, (tgt - o.pos) \div BytsPerClus, f)
      /\ cursor' = tgt
      /\ start' = tgt /\ buf' = <<>> /\ want' = 0
      /\ UNCHANGED <<pc, nBytes, read, nClusters, nextClus, errno>>

Whences == {"FILE_BEGIN", "FILE_CURRENT", "FILE_END"}

(* The most GetNextCluster calls one scan or seek makes.                   *)
MaxCalls == Len(Chain) + 1

Next ==
  \/ \E n \in Requests : ReadCall(n)
  \/ ReadReturn
  \/ \E f \in 0..MaxCalls : ScanRun(f)
  \/ \E avail \in 0..MaxHeap, ok \in BOOLEAN : CopyPiece(avail, ok)
  \/ \E o \in Offsets, w \in Whences, f \in 0..MaxCalls : Seek(o, w, f)

Spec == Init /\ [][Next]_vars

-----------------------------------------------------------------------------
TypeOK ==
  /\ cursor \in 0..FileSize
  /\ pc \in {"idle", "outer", "piece"}
  /\ read \in 0..FileSize
  /\ errno \in {"none", "ENOMEM", "EIO"}
  /\ buf \in Seq(Nat \X Nat)

(* Spec section 8: seek followed by read returns what a reference whole-   *)
(* file read returns at that offset. Every byte _ReadFile has copied is    *)
(* the file's byte at its offset, however the runs were split by the FAT  *)
(* layout, halved mallocs, unaligned cursors and earlier seeks, and the    *)
(* cursor has advanced by exactly the bytes copied.                        *)
ReadMatchesFile ==
  /\ \A i \in 1..Len(buf) : buf[i] = FileByte(start + i - 1)
  /\ pc = "idle" => cursor = start + Len(buf)

(* Between calls, File->Cluster is the chain's cluster holding the byte at *)
(* the cursor (the cursor invariant of spec section 3), unless a failed    *)
(* FAT read has left it at 0xFFFFFFFF.                                     *)
CursorClusterConsistent ==
  (pc = "idle" /\ cursor < FileSize /\ cluster # FatError) =>
    cluster = Chain[cursor \div BytsPerClus + 1]

(* Spec section 5: reads are only clamped at end of file. A read that sets *)
(* no errno returns all of the clamped request.                            *)
ReadReturnsAll ==
  (pc = "idle" /\ errno = "none") => Len(buf) = want

=============================================================================
