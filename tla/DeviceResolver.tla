--------------------------- MODULE DeviceResolver ---------------------------
(***************************************************************************)
(* OpenFile of io.c up to the device: ParseDevice turns the path prefix    *)
(* into a Multiboot device number, OpenDevice returns the device already   *)
(* on the Devices list for (DeviceId, hasFileSystem) or resolves the       *)
(* partition from the MBR and the extended-partition chain, creates the    *)
(* device and mounts it (FAT, or raw when the path names no file).         *)
(*                                                                         *)
(* A call up to the MBR scan is one step; each pass of the extended-chain  *)
(* loop is one step, because each reads a sector that may fail. A path is  *)
(* a record of what the parser reads from it; disks are partition tables. *)
(* BIOS and malloc outcomes are nondeterministic.                          *)
(***************************************************************************)
EXTENDS Integers, Sequences, SequencesExt

CONSTANTS
  Drives,      \* BIOS drive number -> [total, tables]: the drives present
  FatVolumes,  \* <<drive, start sector>> pairs on which FatMount succeeds
  BootDevice,  \* the Multiboot device number OSLDR was booted from
  Paths        \* the paths callers open

(* A path as ParseDevice reads it: "/..." (kind "boot"), "fdN" or "hdN"     *)
(* with an optional ",P" (kind "fd", "hd"), or anything else ("other"),    *)
(* and what follows the prefix ("" for the raw device).                    *)
Path == [kind : {"boot", "fd", "hd", "other"}, drive : Nat, hasPart : BOOLEAN,
         part : Nat, rest : {"", "/file"}]
NoPath == [kind |-> "other", drive |-> 0, hasPart |-> FALSE, part |-> 0, rest |-> ""]

(* A partition table entry as OpenDevice reads it: Type, StartLBA, Size.   *)
PartEntry == [Type : 0..255, StartLBA : Nat, Size : Nat]

IsUnused(e)   == e.Type = 0                      \* PART_UNUSED
IsExtended(e) == e.Type = 5 \/ e.Type = 15       \* PART_EXTENDED1, 2

(* The four entries at offset 0x1BE of sector s of drive d.                *)
Table(d, s) == Drives[d].tables[s]

VARIABLES
  devices,  \* the Devices list, most recent first: [id, hasFS, start, size]
  pc,       \* "idle", "walk" (in the extended-chain loop), "spin"
  call,     \* the call being served: [path, id, mountFS]
  part,     \* the extended entry the chain loop follows next
  idx,      \* i of the chain loop
  ret       \* what the last OpenFile returned: a device, or an errno

vars == <<devices, pc, call, part, idx, ret>>

-----------------------------------------------------------------------------
(* Multiboot device number: drive << 24 | partition << 16 | 0xFFFF, and the *)
(* byte fields OpenDevice takes apart again. The ULONG is kept as its four *)
(* bytes, most significant first (TLC integers are 32-bit signed).         *)
DeviceNumber(drive, partition) == <<drive, partition, 255, 255>>
Byte(id, k) == id[4 - k]
DriveOf(id) == Byte(id, 3)
NoId == <<0, 0, 0, 0>>
Part1Of(id) == Byte(id, 2)

(* ParseDevice: [ok, id, rest] or [ok = FALSE, err].                        *)
Fail(e) == [ok |-> FALSE, err |-> e]

(* Seeded fault for mutation analysis: no check of the drive number.       *)
ParseDeviceNoDriveCheck(p) ==
  CASE p.kind = "boot" -> [ok |-> TRUE, id |-> BootDevice, rest |-> p.rest]
    [] p.kind = "other" -> Fail("ENODEV")
    [] p.kind = "hd" /\ p.hasPart /\ p.part > 254 -> Fail("ENOPART")
    [] p.kind = "fd" /\ p.hasPart -> Fail("ENOENT")
    [] OTHER ->
         [ok   |-> TRUE,
          id   |-> DeviceNumber(IF p.kind = "hd" THEN p.drive + 128 ELSE p.drive,
                                IF p.hasPart THEN p.part ELSE 255),
          rest |-> p.rest]

ParseDevice(p) ==
  CASE p.kind = "boot" -> [ok |-> TRUE, id |-> BootDevice, rest |-> p.rest]
    [] p.kind = "other" \/ p.drive > 127 -> Fail("ENODEV")
    [] p.kind = "hd" /\ p.hasPart /\ p.part > 254 -> Fail("ENOPART")
    [] p.kind = "fd" /\ p.hasPart -> Fail("ENOENT")    \* ',' after "fdN"
    [] OTHER ->
         [ok   |-> TRUE,
          id   |-> DeviceNumber(IF p.kind = "hd" THEN p.drive + 128 ELSE p.drive,
                                IF p.hasPart THEN p.part ELSE 255),
          rest |-> p.rest]

(* The loop over the four MBR entries: the (1-based) entry to use, or 0    *)
(* when the loop breaks early or finds nothing. For p1 < 4 it is entry    *)
(* p1 unless that is extended; for p1 >= 4 it is the one extended entry.   *)
RECURSIVE ScanMBR(_, _, _, _)
ScanMBR(t, p1, i, found) ==
  IF i = 4 THEN found
  ELSE LET e == t[i + 1]
       IN  CASE IsUnused(e) -> ScanMBR(t, p1, i + 1, found)
             [] IsExtended(e) /\ p1 = i -> 0
             [] IsExtended(e) /\ p1 >= 4 /\ found # 0 -> 0
             [] IsExtended(e) /\ p1 >= 4 -> ScanMBR(t, p1, i + 1, i + 1)
             [] ~IsExtended(e) /\ p1 = i -> ScanMBR(t, p1, i + 1, i + 1)
             [] OTHER -> ScanMBR(t, p1, i + 1, found)

(* What OpenFile returns: a device, or NULL with errno set.                *)
NoDevice == [id |-> NoId, hasFS |-> FALSE, start |-> 0, size |-> 0]
Dev(d) == [ok |-> TRUE, err |-> "EZERO", dev |-> d]
Err(e) == [ok |-> FALSE, err |-> e, dev |-> NoDevice]

(* Seeded faults: the Devices list not searched; searched by DeviceId only. *)
OpenedNever(id, mountFS) == 0
OpenedIdOnly(id, mountFS) == SelectInSeq(devices, LAMBDA d : d.id = id)

(* Devices already opened for (id, mountFS): 0 when none.                  *)
Opened(id, mountFS) ==
  SelectInSeq(devices, LAMBDA d : d.id = id /\ d.hasFS = mountFS)

(* Creating the device for (start, size): the range check, malloc of the   *)
(* DEVICE, then mount (FatMount, else ENOFSYS; RawMount for raw access).   *)
(* The new device is linked at the head of Devices.                        *)
InRange(id, start, size) == start + size <= Drives[DriveOf(id)].total

CreateDevice(id, mountFS, start, size, heapOk) ==
  LET dev == [id |-> id, hasFS |-> mountFS, start |-> start, size |-> size]
  IN  CASE ~InRange(id, start, size) ->
             ret' = Err("ENOPART") /\ UNCHANGED devices
        [] ~heapOk ->
             ret' = Err("ENOMEM") /\ UNCHANGED devices
        [] mountFS /\ <<DriveOf(id), start>> \notin FatVolumes ->
             ret' = Err("ENOFSYS") /\ UNCHANGED devices
        [] OTHER ->
             ret' = Dev(dev) /\ devices' = <<dev>> \o devices

-----------------------------------------------------------------------------
Init ==
  /\ devices = <<>>
  /\ pc = "idle"
  /\ call = [path |-> NoPath, id |-> NoId, mountFS |-> FALSE]
  /\ part = [Type |-> 0, StartLBA |-> 0, Size |-> 0]
  /\ idx = 0
  /\ ret = Err("EZERO")

(* OpenFile(path) up to the extended-chain loop. paramsOk is the outcome   *)
(* of GetDriveParameters, mbrOk of malloc and ReadDrive for the MBR,       *)
(* heapOk of malloc for the DEVICE.                                        *)
Open(p, paramsOk, mbrOk, heapOk) ==
  LET r       == ParseDevice(p)
      id      == r.id
      mountFS == r.rest # ""
      d       == DriveOf(id)
      p1      == Part1Of(id)
      k       == ScanMBR(Table(d, 0), p1, 0, 0)
      paramsFine == paramsOk /\ d \in DOMAIN Drives
  IN  /\ pc = "idle"
      /\ call' = [path |-> p, id |-> IF r.ok THEN id ELSE NoId, mountFS |-> r.ok /\ mountFS]
      /\ CASE ~r.ok ->
                ret' = Err(r.err) /\ UNCHANGED <<devices, pc, part, idx>>
           [] Opened(id, mountFS) # 0 ->
                ret' = Dev(devices[Opened(id, mountFS)]) /\ UNCHANGED <<devices, pc, part, idx>>
           [] Byte(id, 1) # 255 \/ Byte(id, 0) # 255 ->
                ret' = Err("ENOPART") /\ UNCHANGED <<devices, pc, part, idx>>
           [] ~paramsFine ->
                ret' = Err("EIO") /\ UNCHANGED <<devices, pc, part, idx>>
           [] p1 = 255 ->
                CreateDevice(id, mountFS, 0, Drives[d].total, heapOk)
                /\ UNCHANGED <<pc, part, idx>>
           [] ~mbrOk ->
                ret' = Err("EIO") /\ UNCHANGED <<devices, pc, part, idx>>
           [] k = 0 ->
                ret' = Err("ENOPART") /\ UNCHANGED <<devices, pc, part, idx>>
           [] p1 < 4 ->
                CreateDevice(id, mountFS, Table(d, 0)[k].StartLBA, Table(d, 0)[k].Size, heapOk)
                /\ UNCHANGED <<pc, part, idx>>
           [] OTHER ->
                pc' = "walk" /\ part' = Table(d, 0)[k] /\ idx' = 4
                /\ UNCHANGED <<devices, ret>>

(* One pass of the extended-chain loop: read the table at part.StartLBA.  *)
(* A found logical partition breaks out of the for loop into the stray    *)
(* `while (part != NULL);` after it, which never ends.                     *)
WalkStep(readOk) ==
  LET t == Table(DriveOf(call.id), part.StartLBA)
  IN  /\ pc = "walk"
      /\ CASE ~readOk ->
                pc' = "idle" /\ ret' = Err("EIO") /\ UNCHANGED <<part, idx>>
           [] IsExtended(t[1]) ->
                pc' = "idle" /\ ret' = Err("ENOPART") /\ UNCHANGED <<part, idx>>
           [] Part1Of(call.id) = idx ->
                pc' = "spin" /\ part' = t[1] /\ UNCHANGED <<idx, ret>>
           [] ~IsUnused(t[2]) /\ IsExtended(t[2]) ->
                part' = t[2] /\ idx' = idx + 1 /\ UNCHANGED <<pc, ret>>
           [] OTHER ->
                pc' = "idle" /\ ret' = Err("ENOPART") /\ UNCHANGED <<part, idx>>
      /\ UNCHANGED <<devices, call>>

(* while (part != NULL); with part found.                                   *)
Spin ==
  /\ pc = "spin"
  /\ UNCHANGED vars

Walk == \E ok \in BOOLEAN : WalkStep(ok)

Next ==
  \/ \E p \in Paths, a, b, c \in BOOLEAN : Open(p, a, b, c)
  \/ Walk
  \/ Spin

(* OpenDevice runs to completion once called: the loader is single-threaded *)
(* and nothing preempts it.                                                  *)
Spec == Init /\ [][Next]_vars /\ WF_vars(Walk)

-----------------------------------------------------------------------------
Device == [id : [1..4 -> 0..255], hasFS : BOOLEAN, start : Nat, size : Nat]

TypeOK ==
  /\ devices \in Seq(Device)
  /\ pc \in {"idle", "walk", "spin"}
  /\ call.path \in Path /\ call.id \in [1..4 -> 0..255] /\ call.mountFS \in BOOLEAN
  /\ part \in PartEntry
  /\ idx \in 0..255
  /\ ret.ok \in BOOLEAN /\ ret.dev \in Device
  /\ ret.err \in {"EZERO", "ENODEV", "ENOPART", "ENOENT", "EIO", "ENOMEM", "ENOFSYS"}

(* OpenDevice never creates a second device for a (DeviceId, mounted or    *)
(* raw) pair it has already opened, however the paths that name it are     *)
(* spelled ("/" for the boot device, "hdN", "hdN,P") and whatever failed   *)
(* in between (spec section 3: devices are deduplicated).                  *)
DevicesUnique ==
  \A i, j \in 1..Len(devices) :
    i # j => ~(devices[i].id = devices[j].id /\ devices[i].hasFS = devices[j].hasFS)

(* The partition a path names, read straight from the path and the disk   *)
(* as spec section 4.3 describes it: the whole drive without a partition  *)
(* number, entry P of the MBR for P < 4, and for P >= 4 entry 0 of the     *)
(* (P-3)th table of the extended chain.                                    *)
PathDrive(p) == CASE p.kind = "boot" -> DriveOf(BootDevice)
                  [] p.kind = "hd"   -> p.drive + 128
                  [] OTHER           -> p.drive
PathPart(p)  == CASE p.kind = "boot" -> Part1Of(BootDevice)
                  [] p.kind = "hd" /\ p.hasPart -> p.part
                  [] OTHER -> 255

RECURSIVE Logical(_, _, _)
Logical(d, ext, n) ==
  LET t == Table(d, ext.StartLBA)
  IN  IF n = 0 THEN t[1] ELSE Logical(d, t[2], n - 1)

NamedPartition(p) ==
  LET d == PathDrive(p)
      n == PathPart(p)
      mbr == Table(d, 0)
  IN  CASE n = 255 -> [StartLBA |-> 0, Size |-> Drives[d].total]
        [] n < 4   -> mbr[n + 1]
        [] OTHER   -> Logical(d, mbr[CHOOSE i \in 1..4 : IsExtended(mbr[i])], n - 4)

(* Whatever path opened it first, and whichever device the Devices list   *)
(* returned it from, the device OpenFile returns covers exactly the        *)
(* partition the path names, and is mounted exactly when the path names a *)
(* file rather than the raw device.                                        *)
ResolvesToNamedPartition ==
  (pc = "idle" /\ ret.ok) =>
    /\ ret.dev.start = NamedPartition(call.path).StartLBA
    /\ ret.dev.size = NamedPartition(call.path).Size
    /\ ret.dev.hasFS = (call.path.rest # "")

(* Every OpenFile that enters the extended-partition loop returns.         *)
ChainWalkReturns == pc = "walk" ~> pc = "idle"

=============================================================================
