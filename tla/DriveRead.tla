----------------------------- MODULE DriveRead -----------------------------
(***************************************************************************)
(* ReadDrive of drive.c over GetDriveParameters (DriveParams): the entry   *)
(* the lookup returns decides the access method and, for CHS access, the   *)
(* geometry the LBA sector is converted with.  One INT 13h AH=42h call     *)
(* reads the whole request on an EDD entry; otherwise the loop issues one  *)
(* AH=02h call per track, each a step, until the count is read or the BIOS *)
(* fails.  Other callers of GetDriveParameters (OpenDevice, ReadSector,    *)
(* the drivers) interleave with whole calls of ReadDrive: the loader is    *)
(* single-threaded, so pdi stays DriveParameters[0] during the loop.       *)
(*                                                                         *)
(* A drive's real geometry is Geometry[d]; an entry's geometry fields are  *)
(* Geometry[e.geo].  The buffer is left out: the calls issued are the      *)
(* register values, and the BIOS reads what they address.                  *)
(***************************************************************************)
EXTENDS Integers, Sequences, SequencesExt, Bitwise

CONSTANTS
  Length, Drives, Present, EddDrives, BiosCanFail, NULL,   \* DriveParams'
  Geometry,     \* d -> [nHeads, nSectors]: what the BIOS reports for drive d
  ReadStarts,   \* the Sector callers pass to ReadDrive
  ReadCounts,   \* the nSectors callers pass to ReadDrive
  ReadCanFail   \* whether a present drive's reads may fail

VARIABLES
  params, count, ret, asked, recent,   \* DriveParams'
  dpc,       \* "idle" or "chs" (ReadDrive's CHS loop)
  Sector,    \* ReadDrive's Sector
  nSectors,  \* ReadDrive's nSectors: sectors still to read
  Read,      \* ReadDrive's Read, and its return value once idle
  issued,    \* the INT 13h reads the last ReadDrive issued and the BIOS performed
  rdrive,    \* ReadDrive's Drive
  first      \* the Sector ReadDrive was called with (no code variable)

dpVars == <<params, count, ret, asked, recent>>
rdVars == <<dpc, Sector, nSectors, Read, issued, rdrive, first>>
vars == <<dpVars, rdVars>>

DP == INSTANCE DriveParams

ReadOutcomes(d) == IF d \notin Present THEN {FALSE}
                   ELSE IF ReadCanFail THEN BOOLEAN ELSE {TRUE}

(* Seeded fault for mutation analysis: cylinder bits 8-9 taken from bits   *)
(* 14-15 (a shift by 8 where the code shifts by 2).                        *)
ChsRegsHighShift(g, s, n) ==
  LET iCylinder == s \div (g.nHeads * g.nSectors)
      iSector   == s % g.nSectors
  IN  [ah |-> 2,
       cl |-> ((iSector + 1) & 63) | (shiftR(iCylinder, 8) & 192),
       ch |-> iCylinder % 256,
       dh |-> ((s \div g.nSectors) % g.nHeads) % 256,
       al |-> IF g.nSectors - iSector > n THEN n ELSE g.nSectors - iSector]

(* The AH=02h registers for LBA sector s with n left, geometry g: the      *)
(* sector (1-based) in CL bits 0-5, cylinder bits 8-9 in CL bits 6-7, the  *)
(* low cylinder byte in CH, the head in DH, and at most the rest of the    *)
(* track in AL.                                                            *)
ChsRegs(g, s, n) ==
  LET iCylinder == s \div (g.nHeads * g.nSectors)
      iSector   == s % g.nSectors
  IN  [ah |-> 2,
       cl |-> ((iSector + 1) & 63) | (shiftR(iCylinder, 2) & 192),
       ch |-> iCylinder % 256,
       dh |-> ((s \div g.nSectors) % g.nHeads) % 256,
       al |-> IF g.nSectors - iSector > n THEN n ELSE g.nSectors - iSector]

-----------------------------------------------------------------------------
Init ==
  /\ DP!Init
  /\ dpc = "idle" /\ Sector = 0 /\ nSectors = 0 /\ Read = 0
  /\ issued = << >> /\ rdrive = NULL /\ first = 0

(* A call of GetDriveParameters outside ReadDrive.                         *)
OtherLookup(d) ==
  /\ dpc = "idle" /\ DP!GetDriveParameters(d)
  /\ UNCHANGED rdVars

(* ReadDrive(d, s, n) up to its loop: the lookup, NULL returning 0, an EDD *)
(* entry's single AH=42h call returning nBlocks or 0.                      *)
ReadDrive(d, s, n) ==
  /\ dpc = "idle"
  /\ DP!GetDriveParameters(d)
  /\ rdrive' = d /\ first' = s
  /\ \E ok \in ReadOutcomes(d) :
       CASE ret' = NULL ->
              /\ dpc' = "idle" /\ Read' = 0 /\ issued' = << >>
              /\ UNCHANGED <<Sector, nSectors>>
         [] ret'.edd ->
              /\ dpc' = "idle" /\ Read' = IF ok THEN n ELSE 0
              /\ issued' = IF ok THEN << [ah |-> 66, lba |-> s, nBlocks |-> n] >> ELSE << >>
              /\ UNCHANGED <<Sector, nSectors>>
         [] OTHER ->
              /\ dpc' = "chs" /\ Sector' = s /\ nSectors' = n /\ Read' = 0
              /\ issued' = << >>

(* One pass of the CHS loop with pdi = DriveParameters[0].                 *)
ChsPass(ok) ==
  LET r == ChsRegs(Geometry[params[1].geo], Sector, nSectors)
  IN  /\ dpc = "chs" /\ nSectors > 0
      /\ IF ok
           THEN /\ issued' = Append(issued, r)
                /\ nSectors' = nSectors - r.al /\ Sector' = Sector + r.al
                /\ Read' = Read + r.al
                /\ UNCHANGED dpc
           ELSE dpc' = "idle" /\ UNCHANGED <<issued, nSectors, Sector, Read>>
      /\ UNCHANGED <<dpVars, rdrive, first>>

(* The loop ends with nothing left: ReadDrive returns Read.                *)
ChsDone ==
  /\ dpc = "chs" /\ nSectors = 0 /\ dpc' = "idle"
  /\ UNCHANGED <<dpVars, Sector, nSectors, Read, issued, rdrive, first>>

Next ==
  \/ \E d \in Drives : OtherLookup(d)
  \/ \E d \in Drives, s \in ReadStarts, n \in ReadCounts : ReadDrive(d, s, n)
  \/ \E ok \in ReadOutcomes(rdrive) : ChsPass(ok)
  \/ ChsDone

Spec == Init /\ [][Next]_vars

-----------------------------------------------------------------------------
TypeOK ==
  /\ DP!TypeOK
  /\ dpc \in {"idle", "chs"}
  /\ Sector \in Nat /\ nSectors \in Nat /\ Read \in Nat
  /\ issued \in Seq([ah : {2}, cl : 0..255, ch : 0..255, dh : 0..255, al : 0..255]
                    \cup [ah : {66}, lba : Nat, nBlocks : Nat])

CacheIsRecencyList == DP!CacheIsRecencyList
ReturnsOwnGeometry == DP!ReturnsOwnGeometry

(* The first sector and count of a read as the BIOS of drive d decodes    *)
(* it: CHS addresses with d's own heads and sectors per track.             *)
Span(d, r) ==
  LET g == Geometry[d]
      cyl == r.ch + (r.cl & 192) * 4
  IN  IF r.ah = 66 THEN [lba |-> r.lba, n |-> r.nBlocks]
      ELSE [lba |-> (cyl * g.nHeads + r.dh) * g.nSectors + (r.cl & 63) - 1, n |-> r.al]

(* A CHS read stays on its drive's track: a sector from 1 and a head      *)
(* below the drive's, and no more sectors than the track has left.         *)
OnOneTrack(d, r) ==
  r.ah = 2 => /\ (r.cl & 63) >= 1 /\ r.dh < Geometry[d].nHeads
              /\ (r.cl & 63) - 1 + r.al <= Geometry[d].nSectors

(* The reads ReadDrive issued for drive d, decoded with the drive's own    *)
(* geometry, cover Sector, Sector+1, ... in order and each stays on one    *)
(* track, and the count ReadDrive returns (or has read so far) is what     *)
(* they cover: the LBA-to-CHS arithmetic of drive.c 188-198, with the      *)
(* cylinder's bits 8-9 in CL, over whichever entry the move-to-front list  *)
(* hands ReadDrive.                                                        *)
ReadAddressesRequested ==
  /\ \A k \in 1..Len(issued) :
        /\ OnOneTrack(rdrive, issued[k])
        /\ Span(rdrive, issued[k]).lba
              = first + FoldLeft(LAMBDA acc, r : acc + Span(rdrive, r).n, 0, SubSeq(issued, 1, k - 1))
  /\ Read = FoldLeft(LAMBDA acc, r : acc + Span(rdrive, r).n, 0, issued)

=============================================================================
