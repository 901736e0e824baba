----------------------------- MODULE MC_PhysMem -----------------------------
(***************************************************************************)
(* Model values for PhysMem. Addresses are scaled so that Low = 8 stands  *)
(* for 1 MB; the maps cover an entry straddling 1 MB, a reserved entry,    *)
(* adjacent entries reported out of order, and MemUpper inside the map.    *)
(* MemUpper-sized lengths use the same unit, so Low + Ext15 is 16 MB.      *)
(***************************************************************************)
EXTENDS PhysMem

MC_Low == 8

MC_Ext15 == 4
MC_E801Unit == 2

(* Firmwares whose available E820 entries do not overlap. 88h reporting   *)
(* exactly 15 MB sends GetConventionalMemoryMap to E801h; E820h ends its   *)
(* list with EBX = 0 or with a carry on the call after the last entry,     *)
(* which discards the map; one BIOS has no E820h and an E801h that leaves  *)
(* a hole below 16 MB, so main stops for want of memory information.       *)
MC_Firmwares ==
  { [e820    |-> << [Start |-> 4,  Length |-> 12, Type |-> 1],
                    [Start |-> 16, Length |-> 4,  Type |-> 2],
                    [Start |-> 20, Length |-> 12, Type |-> 1] >>,
     e820End |-> "ebx", int88 |-> 4, e801 |-> [ax |-> 4, bx |-> 1]],
    [e820    |-> << [Start |-> 8,  Length |-> 8,  Type |-> 1],
                    [Start |-> 24, Length |-> 8,  Type |-> 1],
                    [Start |-> 16, Length |-> 8,  Type |-> 1] >>,
     e820End |-> "ebx", int88 |-> NULL, e801 |-> NULL],
    [e820    |-> << [Start |-> 8, Length |-> 16, Type |-> 1] >>,
     e820End |-> "carry", int88 |-> NULL, e801 |-> [ax |-> 4, bx |-> 2]],
    [e820    |-> << >>, e820End |-> "carry", int88 |-> NULL, e801 |-> [ax |-> 2, bx |-> 2]] }

MC_AllocStarts == {0, 12, 16}
MC_AllocSizes  == {3, 8}
MC_AllocAligns == {0, 8}
=============================================================================
