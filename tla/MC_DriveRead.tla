---------------------------- MODULE MC_DriveRead ----------------------------
(* DriveRead with a 4-entry array (DRIVE_INFO_LENGTH is 16) and five      *)
(* drives, so that the array fills, evicts and moves entries from every    *)
(* position to the front.  Drive 129 reads by packet (EDD); the others by  *)
(* CHS, each with its own geometry, so that an entry read with another     *)
(* drive's geometry addresses other sectors.  Sector 1537 lies in cylinder *)
(* 256 of drive 128 (2 heads, 3 sectors), where CL carries cylinder bit 8, *)
(* and reads of 4 sectors cross track boundaries on every CHS drive.       *)
(* MC_DriveRead_stale.cfg takes four drives, 129 absent, and a BIOS whose  *)
(* queries may fail.                                                       *)
EXTENDS DriveRead

MC_Drives5 == {0, 1, 128, 129, 130}
MC_Drives4 == {0, 128, 129, 130}
MC_Present3 == {0, 128, 130}
MC_Edd == {129}
MC_Geometry ==
  (0 :> [nHeads |-> 2, nSectors |-> 2]) @@ (1 :> [nHeads |-> 1, nSectors |-> 5])
  @@ (128 :> [nHeads |-> 2, nSectors |-> 3]) @@ (129 :> [nHeads |-> 4, nSectors |-> 4])
  @@ (130 :> [nHeads |-> 3, nSectors |-> 2])
MC_ReadStarts == {1, 1537}
MC_ReadCounts == {1, 4}
=============================================================================
