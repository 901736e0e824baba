------------------------------ MODULE MC_Loader -----------------------------
(***************************************************************************)
(* Model values for Loader. Addresses are scaled as in MC_PhysMem: Low = 8 *)
(* stands for 1 MB, Page = 8 for 4096. One map with available memory      *)
(* [8, 40).                                                                *)
(***************************************************************************)
EXTENDS Loader

MC_Low == 8
MC_Page == 8
MC_Maps == { [entries |-> << [Start |-> 8, Length |-> 32, Type |-> 1] >>, memUpper |-> 0] }

S(a, n) == [addr |-> a, size |-> n, load |-> TRUE]
NoLoad == [addr |-> 0, size |-> 0, load |-> FALSE]

(* A Multiboot kernel that is also ELF; an ELF with a non-PT_LOAD header  *)
(* and two PT_LOAD segments, also loadable as a binary; a COFF file whose *)
(* third section overlaps the first; a relocatable image both ELF and     *)
(* COFF; a binary; a file no probe recognises.                             *)
MC_Images ==
  { [type |-> "auto", claims |-> {"multiboot", "elf"}, pageAlign |-> TRUE,
     layout |-> [p \in {"multiboot", "elf"} |-> << S(8, 12) >>]],
    [type |-> "auto", claims |-> {"elf", "binary"}, pageAlign |-> FALSE,
     layout |-> [p \in {"elf", "binary"} |->
                   IF p = "elf" THEN << S(8, 8), NoLoad, S(16, 8) >> ELSE << S(24, 8) >>]],
    [type |-> "relocatable", claims |-> {"coff"}, pageAlign |-> FALSE,
     layout |-> [p \in {"coff"} |-> << S(8, 8), S(20, 8), S(12, 4) >>]],
    [type |-> "relocatable", claims |-> {"elf", "coff"}, pageAlign |-> TRUE,
     layout |-> [p \in {"elf", "coff"} |-> << S(16, 8) >>]],
    [type |-> "binary", claims |-> {"binary"}, pageAlign |-> FALSE,
     layout |-> [p \in {"binary"} |-> << S(28, 12) >>]],
    [type |-> "multiboot", claims |-> {"elf"}, pageAlign |-> FALSE,
     layout |-> [p \in {"elf"} |-> << S(8, 4) >>]] }

(* Module file sizes, one of them empty. PhysFree of a module whose read  *)
(* fails gives back the unrounded size (the mem.c rounding loss), so the  *)
(* sizes are multiples of 4 for the accounting of TransferAccountsMemory. *)
MC_Modules == << 4, 0, 8 >>
=============================================================================
