----------------------------- MODULE FatMount -----------------------------
(***************************************************************************)
(* FatMount (fat.c 785-936): read sector 0 of a partition, validate its    *)
(* BIOS Parameter Block and derive the volume's FAT_INFO.                  *)
(*                                                                         *)
(* A BPB is a record of the fields the code reads.  FSVer, FATSz32 and     *)
(* RootClus are the bytes at their FAT32 offsets whatever the layout: on   *)
(* a FAT12/16 boot sector they overlay BS_DrvNum..BS_VolLab.  Further     *)
(* fields a record may carry are read only by properties.  ULONG DataSec  *)
(* wraps below zero; the model keeps the negative difference and          *)
(* classifies it as the huge value it is.                                 *)
(***************************************************************************)
EXTENDS Integers, FiniteSets

CONSTANTS
    Bpbs,           \* the boot sectors the partition may hold
    SectorSize,     \* pdi->nBytesPerSector of the drive
    BiosCanFail,    \* whether GetDriveParameters may return NULL
    MountHeapCanFail, \* whether malloc may return NULL
    MountDiskCanFail  \* whether ReadSector of sector 0 may fail

MAX_READ_TRY == 8
FAT_VERSION == 0        \* (FAT_VERSION_HIGH << 8) | FAT_VERSION_LOW
NoFat == [FatType |-> 0]

VARIABLES
    bpb,        \* the boot sector on disk
    mpc,        \* "params", "buffer", "read", "check", "alloc" or "done"
    tries,      \* i of the read loop
    fi,         \* the FAT_INFO stored in Device->Data, or NoFat
    held,       \* heap blocks FatMount holds: "Buffer", "fi"
    mfailed     \* a BIOS query, a malloc or every read failed (no code variable)

mvars == <<bpb, mpc, tries, fi, held, mfailed>>

BiosOutcomes == IF BiosCanFail THEN BOOLEAN ELSE {TRUE}
MountHeapOutcomes == IF MountHeapCanFail THEN BOOLEAN ELSE {TRUE}
MountDiskOutcomes == IF MountDiskCanFail THEN BOOLEAN ELSE {TRUE}

(***************************************************************************)
(* The checks of fat.c 832-888, in the code's order.                       *)
(***************************************************************************)
LegalValues(b) ==
    /\ b.BytsPerSec \in {512, 1024, 2048, 4096}
    /\ b.SecPerClus \in {1, 2, 4, 8, 16, 32, 64, 128}
    /\ b.SecPerClus * b.BytsPerSec <= 32768
    /\ b.RsvdSecCnt # 0
    /\ b.BytsPerSec = SectorSize

\* FatType after the root-entry check: 32, 14 (FAT12 or FAT16), or 0 when
\* RsvdSecCnt > 1 claims FAT32 but RootEntCnt is not 0.
KindOf(b) ==
    CASE b.RootEntCnt = 0 -> 32
      [] b.RsvdSecCnt > 1 -> 0
      [] OTHER -> 14

WidthFieldsOk(b, t) ==
    ~ \/ b.TotSec16 = 0 /\ b.TotSec32 = 0
      \/ b.TotSec16 # 0 /\ t = 32
      \/ b.Media < 248 /\ b.Media # 240
      \/ (b.FATSz16 = 0) # (t = 32)

Fat32FieldsOk(b, t) == t = 32 => b.FATSz32 # 0 /\ b.FSVer = FAT_VERSION

Accepted(b) ==
    /\ LegalValues(b)
    /\ KindOf(b) # 0
    /\ WidthFieldsOk(b, KindOf(b))
    /\ Fat32FieldsOk(b, KindOf(b))

RootDirSectors(b) == (b.RootEntCnt * 32 + b.BytsPerSec - 1) \div b.BytsPerSec
FATSz(b) == IF b.FATSz16 # 0 THEN b.FATSz16 ELSE b.FATSz32
TotSec(b) == IF b.TotSec16 # 0 THEN b.TotSec16 ELSE b.TotSec32
DataSec(b) == TotSec(b) - (b.RsvdSecCnt + b.NumFATs * FATSz(b) + RootDirSectors(b))

WidthOffByOne(b) ==
    LET n == DataSec(b) \div b.SecPerClus
    IN CASE DataSec(b) >= 0 /\ n <= 4085 -> 12
         [] DataSec(b) >= 0 /\ n < 65525 -> 16
         [] OTHER -> 32

\* The width by cluster count (fat.c 906-918); a wrapped DataSec is at least
\* 2^31 and so at least 65525 clusters.
Width(b) ==
    LET n == DataSec(b) \div b.SecPerClus
    IN CASE DataSec(b) >= 0 /\ n < 4085 -> 12
         [] DataSec(b) >= 0 /\ n < 65525 -> 16
         [] OTHER -> 32

EndClusterOf(w) == CASE w = 12 -> 4087 [] w = 16 -> 65527 [] OTHER -> 268435447

\* The FAT_INFO fields (fat.c 920-925).
Info(b) ==
    [FatType |-> Width(b), EndCluster |-> EndClusterOf(Width(b)),
     nDataSectors |-> DataSec(b), FatStart |-> b.RsvdSecCnt,
     RootDirStart |-> b.RsvdSecCnt + b.NumFATs * FATSz(b),
     DataStart |-> b.RsvdSecCnt + b.NumFATs * FATSz(b) + RootDirSectors(b),
     BytsPerClus |-> b.BytsPerSec * b.SecPerClus,
     RootEntCnt |-> b.RootEntCnt, RootClus |-> b.RootClus]

MountInit ==
    /\ bpb \in Bpbs
    /\ mpc = "params" /\ tries = 0 /\ fi = NoFat
    /\ held = {} /\ mfailed = FALSE

Reject(fail) == mpc' = "done" /\ mfailed' = (mfailed \/ fail) /\ UNCHANGED fi

\* GetDriveParameters for the partition's drive.
GetParams ==
    /\ mpc = "params"
    /\ \E ok \in BiosOutcomes :
          IF ok THEN mpc' = "buffer" /\ UNCHANGED <<fi, mfailed>> ELSE Reject(TRUE)
    /\ UNCHANGED <<bpb, tries, held>>

AllocBuffer ==
    /\ mpc = "buffer"
    /\ \E ok \in MountHeapOutcomes :
          IF ok THEN mpc' = "read" /\ held' = held \cup {"Buffer"} /\ UNCHANGED <<fi, mfailed>>
          ELSE Reject(TRUE) /\ UNCHANGED held
    /\ UNCHANGED <<bpb, tries>>

\* One pass of the read loop: ReadSector of sector 0, or ResetDrive.
ReadBoot ==
    /\ mpc = "read" /\ tries < MAX_READ_TRY
    /\ \E ok \in MountDiskOutcomes :
          IF ok THEN mpc' = "check" /\ UNCHANGED <<tries, mfailed>>
          ELSE tries' = tries + 1 /\ UNCHANGED <<mpc, mfailed>>
    /\ UNCHANGED <<bpb, fi, held>>

ReadGiveUp ==
    /\ mpc = "read" /\ tries = MAX_READ_TRY
    /\ Reject(TRUE) /\ held' = held \ {"Buffer"}
    /\ UNCHANGED <<bpb, tries>>

\* The checks: a rejected BPB frees the buffer.
Validate ==
    /\ mpc = "check"
    /\ IF Accepted(bpb) THEN mpc' = "alloc" /\ UNCHANGED <<held, fi, mfailed>>
       ELSE Reject(FALSE) /\ held' = held \ {"Buffer"}
    /\ UNCHANGED <<bpb, tries>>

\* malloc of FAT_INFO, then the width by cluster count.  A FAT32 width
\* whose FSVer is not 0 returns FALSE without freeing fi or Buffer.
AllocInfo ==
    /\ mpc = "alloc"
    /\ \E ok \in MountHeapOutcomes :
          CASE ~ok -> Reject(TRUE) /\ held' = held \ {"Buffer"}
            [] Width(bpb) = 32 /\ bpb.FSVer # 0 -> Reject(FALSE) /\ held' = held \cup {"fi"}
            [] OTHER -> /\ mpc' = "done" /\ fi' = Info(bpb)
                        /\ held' = held \cup {"fi"} /\ UNCHANGED mfailed
    /\ UNCHANGED <<bpb, tries>>

MountNext ==
    \/ GetParams \/ AllocBuffer \/ ReadBoot \/ ReadGiveUp \/ Validate \/ AllocInfo

Mounted == mpc = "done" /\ fi # NoFat

====
