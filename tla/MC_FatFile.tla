----------------------------- MODULE MC_FatFile -----------------------------
(* A 5-byte file in 2-byte clusters: three clusters, the first two         *)
(* adjacent and the third before them, so that reads span runs, end mid-     *)
(* cluster and on cluster boundaries. On FAT16 the clusters are small; on  *)
(* FAT32 they lie above 65535, where DIR_FstClusLO alone is not the first  *)
(* cluster.                                                                *)
EXTENDS FatFile

MC_Chain16 == <<5, 6, 4>>
MC_Chain32 == <<65541, 65542, 65540>>
MC_EndCluster16 == 65527       \* 0x0000FFF7
MC_EOC16 == 65535              \* 0xFFFF
MC_EndCluster32 == 268435447   \* 0x0FFFFFF7
MC_EOC32 == 268435455          \* 0x0FFFFFFF
MC_Requests == {1, 2, 3, 5}
MC_Offsets == {-1, 0, 1, 3}
=============================================================================
