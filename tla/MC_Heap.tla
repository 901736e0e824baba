------------------------------- MODULE MC_Heap ------------------------------
(***************************************************************************)
(* Model values for Heap, scaled: Chunk = 64 stands for 65536, the header  *)
(* and minimum block sizes are the code's. HeapInit(5, 216) makes a       *)
(* 32-byte block before the first boundary, two 48-byte chunk blocks and  *)
(* a 24-byte block after them.                                            *)
(***************************************************************************)
EXTENDS Heap

(* Request sizes: one that is not a multiple of 4, as strlen + 1 is, one  *)
(* that splits a chunk block, one that takes it whole.                    *)

MC_Requests == {6, 24, 40}
=============================================================================
