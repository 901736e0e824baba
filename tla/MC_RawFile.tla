----------------------------- MODULE MC_RawFile -----------------------------
(* A device of 4 sectors of 2 bytes starting at drive sector 10, a cache  *)
(* of 2 items, two tries per read and a heap that holds 0 to 3 sectors.   *)
(* Reads of 1, 2, 3 and 7 bytes from every cursor start and end inside    *)
(* and at sector boundaries and span up to four sectors, so the buffer is *)
(* halved (a 4-sector request on a 3-sector heap gets 2), the cache       *)
(* evicts, and reads run past the device's end.                          *)
EXTENDS RawFile

MC_NSectors == 4
MC_StartSector == 10
MC_CacheSize == 2
MC_MaxReadTry == 2
MC_MaxHeap == 3
MC_BytsPerSec == 2
MC_ReadSizes == {1, 2, 3, 7}
MC_SeekOffsets == {-1, 0, 1, 3, 7}
=============================================================================
