-------------------------- MODULE PhysMemAbstract ---------------------------
(***************************************************************************)
(* What the physical allocator promises its callers, without regions:     *)
(* the free memory is a set of bytes, initially the available firmware     *)
(* memory at or above 1 MB, less what PhysInit could not add for want of  *)
(* heap. An allocation takes the requested size rounded up to 4 bytes out *)
(* of the free set; a free gives the span the caller names back. Bytes    *)
(* may only go missing (neither free nor handed out) in a step in which   *)
(* the allocator's own bookkeeping could not get heap: heapOk is FALSE     *)
(* exactly after such a step.                                              *)
(* An allocation may always fail: first fit over non-coalesced regions     *)
(* promises nothing about fragmented memory.                               *)
(***************************************************************************)
EXTENDS Integers, Sequences, SequencesExt

CONSTANTS Low, MemoryMaps, AllocSizes, MaxLive, NULL

VARIABLES free, held, result, map, heapOk

absVars == <<free, held, result, map, heapOk>>

Span(a, n) == a .. (a + n - 1)

(* Sizes are handed out in multiples of 4 bytes (spec section 4.1).        *)
Granted(size) == ((size + 3) \div 4) * 4

(* The bytes the firmware reported available at or above the 1 MB line:   *)
(* the Type 1 E820 entries and the simple memory information.              *)
Available(m) ==
  LET spans  == { Span(e.Start, e.Length) : e \in { e \in ToSet(m.entries) : e.Type = 1 } }
      simple == IF m.memUpper = NULL THEN {} ELSE Span(Low, m.memUpper)
  IN  { a \in UNION spans \cup simple : a >= Low }

AbsInit ==
  /\ map \in MemoryMaps
  /\ free \subseteq Available(map)
  /\ heapOk \in BOOLEAN
  /\ heapOk => free = Available(map)
  /\ held = <<>>
  /\ result = NULL

(* An allocation hands out free bytes and removes them from the free set. *)
Allocate ==
  /\ Len(held) < MaxLive
  /\ \E a \in free, size \in AllocSizes :
       /\ Granted(size) > 0
       /\ Span(a, Granted(size)) \subseteq free
       /\ free' \subseteq free \ Span(a, Granted(size))
       /\ heapOk' \in BOOLEAN
       /\ heapOk' => free' = free \ Span(a, Granted(size))
       /\ held' = Append(held, [Address |-> a, Size |-> size])
       /\ result' = a
  /\ UNCHANGED map

Refuse ==
  /\ Len(held) < MaxLive
  /\ result' = NULL
  /\ heapOk' \in BOOLEAN
  /\ UNCHANGED <<free, held, map>>

(* A free returns the span the caller was given, with its requested size. *)
Release ==
  \E i \in 1..Len(held) :
    /\ free \subseteq free'
    /\ free' \subseteq free \cup Span(held[i].Address, held[i].Size)
    /\ heapOk' \in BOOLEAN
    /\ heapOk' => free' = free \cup Span(held[i].Address, held[i].Size)
    /\ held' = RemoveAt(held, i)
    /\ UNCHANGED <<result, map>>

AbsNext == Allocate \/ Refuse \/ Release

AbsSpec == AbsInit /\ [][AbsNext]_absVars

=============================================================================
