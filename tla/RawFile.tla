------------------------------ MODULE RawFile ------------------------------
(***************************************************************************)
(* The raw device driver (raw.c): a "file" that is the whole device, with  *)
(* a byte cursor.  _ReadFile reads it sector-wise through ReadSector of    *)
(* io.c, which is SectorCache, instanced on the same device and cache:     *)
(* each pass of _ReadFile's loop allocates its buffer, calls ReadSector,   *)
(* lets it run to its return (SectorCache's steps) and copies the bytes    *)
(* it needs.  A byte is named by its offset on the device, so a read is    *)
(* correct when it copies offsets cursor, cursor+1, ...                    *)
(*                                                                         *)
(* GetDriveParameters in _ReadFile and _SetFilePointer is taken to return  *)
(* the drive's entry: the device was opened, so its drive was queried and  *)
(* sits in the move-to-front list, and the call in ReadSector that follows *)
(* is a hit too.  _GetFileSize and _GetFilePointer only read fields.       *)
(***************************************************************************)
EXTENDS Integers, Sequences

CONSTANTS
  NSectors, StartSector, CacheSize, MaxReadTry, MaxHeap, DriveCanFail,  \* SectorCache's
  BytsPerSec,   \* pdi->nBytesPerSector
  ReadSizes,    \* the nBytes callers pass to ReadFile
  SeekOffsets   \* the Offset callers pass to SetFilePointer

VARIABLES
  items, clock, pc, req, sector, left, count, try, buf, errno, heap,  \* SectorCache's
  rpc,          \* "closed", "idle", "loop" (loop head of _ReadFile), "sector" (in ReadSector)
  Cursor,       \* File->Cursor
  nBytes,       \* _ReadFile's nBytes: bytes still to read
  Read,         \* _ReadFile's Read
  nSectors,     \* _ReadFile's nSectors: the sectors of TmpBuf
  data,         \* the bytes copied since the cursor was set (device offsets)
  start         \* where the cursor was set: by open, seek or the read's start
                \* (data and start are no code variables)

scVars == <<items, clock, pc, req, sector, left, count, try, buf, errno, heap>>
rawVars == <<rpc, Cursor, nBytes, Read, nSectors, data, start>>
vars == <<scVars, rawVars>>

SC == INSTANCE SectorCache WITH MaxRequest <- 0

Size == NSectors * BytsPerSec     \* _GetFileSize

(* The unaligned bytes before the cursor in its sector (raw.c 38, 74-78). *)
SkipNone(c) == 0

Skip(c) == c % BytsPerSec

(* The sectors holding [Cursor, Cursor + nBytes) and the first of them.   *)
SectorsFor(c, n) == (Skip(c) + n + BytsPerSec - 1) \div BytsPerSec
FirstSector(c) == c \div BytsPerSec

(* Byte p of TmpBuf, which ReadSector filled with the drive sectors buf.  *)
TmpByte(p) == (buf[p \div BytsPerSec + 1] - StartSector) * BytsPerSec + (p % BytsPerSec)

-----------------------------------------------------------------------------
Init ==
  /\ SC!Init
  /\ rpc = "closed" /\ Cursor = 0
  /\ nBytes = 0 /\ Read = 0 /\ nSectors = 0 /\ data = << >> /\ start = 0

(* OpenFile on a device path: _OpenFile's malloc of the RAWFILE.          *)
OpenFile(ok) ==
  /\ rpc = "closed"
  /\ IF ok THEN rpc' = "idle" /\ Cursor' = 0 /\ data' = << >> /\ start' = 0
           ELSE UNCHANGED <<rpc, Cursor, data, start>>
  /\ UNCHANGED <<scVars, nBytes, Read, nSectors>>

(* CloseFile: _CloseFile does nothing, then the handle is freed.          *)
CloseFile ==
  /\ rpc = "idle" /\ rpc' = "closed"
  /\ UNCHANGED <<scVars, Cursor, nBytes, Read, nSectors, data, start>>

ReadFile(n) ==
  /\ rpc = "idle"
  /\ rpc' = "loop" /\ nBytes' = n /\ Read' = 0 /\ data' = << >> /\ start' = Cursor
  /\ UNCHANGED <<scVars, Cursor, nSectors>>

(* The loop ends when nothing is left: _ReadFile returns Read.            *)
ReadReturn ==
  /\ rpc = "loop" /\ nBytes = 0 /\ rpc' = "idle"
  /\ UNCHANGED <<scVars, Cursor, nBytes, Read, nSectors, data, start>>

(* One pass: the malloc loop halving nSectors while it stays above 1      *)
(* (SectorCache's AllocRun is the same loop), then the ReadSector call.   *)
(* No buffer at all returns Read with ENOMEM.                             *)
AllocAndRead(avail) ==
  LET got == SC!AllocRun(SectorsFor(Cursor, nBytes), avail)
  IN  /\ rpc = "loop" /\ nBytes > 0
      /\ IF got = 0
           THEN /\ errno' = "ENOMEM" /\ rpc' = "idle"
                /\ UNCHANGED <<items, clock, pc, req, sector, left, count, try, buf, heap, nSectors>>
           ELSE /\ nSectors' = got /\ rpc' = "sector"
                /\ SC!Call(FirstSector(Cursor), got, TRUE)
      /\ UNCHANGED <<Cursor, nBytes, Read, data, start>>

(* ReadSector runs to its return.                                         *)
InReadSector ==
  /\ rpc = "sector" /\ SC!ReadSector
  /\ UNCHANGED rawVars

(* ReadSector returned.  Fewer sectors than asked: EIO and return Read.   *)
(* Otherwise copy from the cursor's byte in the first sector, at most     *)
(* nBytes, and advance.                                                   *)
CopyOut ==
  LET len == IF nBytes < nSectors * BytsPerSec - Skip(Cursor)
               THEN nBytes ELSE nSectors * BytsPerSec - Skip(Cursor)
  IN  /\ rpc = "sector" /\ pc = "idle"
      /\ IF Len(buf) # nSectors
           THEN /\ errno' = "EIO" /\ rpc' = "idle"
                /\ UNCHANGED <<Cursor, nBytes, Read, data>>
           ELSE /\ data' = data \o [i \in 1..len |-> TmpByte(Skip(Cursor) + i - 1)]
                /\ Read' = Read + len /\ nBytes' = nBytes - len
                /\ Cursor' = Cursor + len /\ rpc' = "loop"
                /\ UNCHANGED errno
      /\ UNCHANGED <<items, clock, pc, req, sector, left, count, try, buf, heap, nSectors, start>>

(* _SetFilePointer.  The signed target is compared with the unsigned size *)
(* as an unsigned value, so a negative target fails as well.              *)
SetFilePointer(off, from) ==
  LET target == CASE from = "FILE_BEGIN"   -> off
                  [] from = "FILE_CURRENT" -> Cursor + off
                  [] from = "FILE_END"     -> Size - off
  IN  /\ rpc = "idle"
      /\ IF target < 0 \/ target >= Size
           THEN UNCHANGED <<Cursor, data, start>>
           ELSE Cursor' = target /\ data' = << >> /\ start' = target
      /\ UNCHANGED <<scVars, rpc, nBytes, Read, nSectors>>

Next ==
  \/ \E ok \in BOOLEAN : OpenFile(ok)
  \/ CloseFile
  \/ \E n \in ReadSizes : ReadFile(n)
  \/ ReadReturn
  \/ \E avail \in 0..MaxHeap : AllocAndRead(avail)
  \/ InReadSector
  \/ CopyOut
  \/ \E off \in SeekOffsets, from \in {"FILE_BEGIN", "FILE_CURRENT", "FILE_END"} :
        SetFilePointer(off, from)

Spec == Init /\ [][Next]_vars

-----------------------------------------------------------------------------
TypeOK ==
  /\ SC!TypeOK
  /\ rpc \in {"closed", "idle", "loop", "sector"}
  /\ Cursor \in Nat /\ nBytes \in Nat /\ Read \in Nat
  /\ data \in Seq(Nat)

TagsUnique == SC!TagsUnique
DeliversDriveData == SC!DeliversDriveData

(* Whatever the mix of cache hits, halved buffers and failed passes, the  *)
(* bytes _ReadFile has copied are the device's bytes from the cursor the  *)
(* call started at, in order, File->Cursor has moved past exactly those  *)
(* bytes, and Read counts them: the offset arithmetic of raw.c 38-90 over *)
(* the sectors ReadSector delivers.                                       *)
ReadMatchesDevice ==
  /\ \A i \in 1..Len(data) : data[i] = start + i - 1
  /\ Cursor = start + Len(data)
  /\ rpc \in {"loop", "sector"} => Read = Len(data)

(* The cursor never passes the end of the device (spec: 0 <= cursor <=    *)
(* size).  _ReadFile has no end-of-device clamp of its own: only          *)
(* ReadSector's range check stops a read that runs past the end, and      *)
(* _SetFilePointer's check bounds seeks.                                  *)
CursorWithinDevice == Cursor <= Size

=============================================================================
