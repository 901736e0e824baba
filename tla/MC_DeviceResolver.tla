------------------------- MODULE MC_DeviceResolver -------------------------
(* hd0 (BIOS 0x80, 100 sectors): FAT partition 0, extended partition 1    *)
(* with a two-table chain (logical partitions at 31 and 51), partition 2   *)
(* running past the end of the disk, partition 3 unused. hd1 (0x81):       *)
(* an extended partition whose table links to itself. fd0: a FAT floppy   *)
(* without partitions. OSLDR booted from hd0,0.                            *)
EXTENDS DeviceResolver

U == [Type |-> 0, StartLBA |-> 0, Size |-> 0]
E(t, s, n) == [Type |-> t, StartLBA |-> s, Size |-> n]

MC_Drives ==
  (128 :> [total |-> 100,
           tables |-> (0  :> << E(11, 1, 20), E(5, 30, 60), E(11, 95, 10), U >>)
                   @@ (30 :> << E(11, 31, 10), E(5, 50, 20), U, U >>)
                   @@ (50 :> << E(11, 51, 15), U, U, U >>)])
  @@ (129 :> [total |-> 50,
              tables |-> (0  :> << E(5, 10, 30), E(11, 1, 5), U, U >>)
                      @@ (10 :> << E(11, 11, 5), E(5, 10, 30), U, U >>)])
  @@ (0 :> [total |-> 20, tables |-> (0 :> << U, U, U, U >>)])

MC_FatVolumes == { <<128, 1>>, <<129, 1>>, <<0, 0>> }

MC_BootDevice == <<128, 0, 255, 255>>   \* 0x8000FFFF: hd0,0

P(k, d, hp, n, r) == [kind |-> k, drive |-> d, hasPart |-> hp, part |-> n, rest |-> r]

(* Paths into the extended chain: a logical partition of hd0, a number     *)
(* beyond the chain, and the self-linked chain of hd1.                     *)
MC_ChainPaths ==
  { P("hd", 0, TRUE, 4, "/file"), P("hd", 0, TRUE, 10, ""), P("hd", 1, TRUE, 5, "") }

(* Paths that reach every branch of ParseDevice and OpenDevice, the chain *)
(* loop included.                                                          *)
MC_Paths == MC_ChainPaths \cup
  { P("boot", 0, FALSE, 0, "/file"),
    P("hd", 0, FALSE, 0, ""), P("hd", 0, FALSE, 0, "/file"),
    P("hd", 0, TRUE, 0, ""), P("hd", 0, TRUE, 0, "/file"),
    P("hd", 0, TRUE, 1, "/file"), P("hd", 0, TRUE, 2, ""), P("hd", 0, TRUE, 3, ""),
    P("hd", 1, TRUE, 1, "/file"), P("hd", 3, FALSE, 0, "/file"),
    P("hd", 0, TRUE, 300, ""), P("hd", 200, FALSE, 0, ""),
    P("fd", 0, FALSE, 0, "/file"), P("fd", 0, TRUE, 1, ""),
    P("other", 0, FALSE, 0, "/file") }

=============================================================================
