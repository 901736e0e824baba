---------------------------- MODULE DriveParams -----------------------------
(***************************************************************************)
(* GetDriveParameters of drive.c: the static array DriveParameters[] of    *)
(* DRIVE_INFO_LENGTH entries, the first DriveParametersCount of which are  *)
(* valid, kept in most-recently-used order by moving a found entry to the  *)
(* front and inserting new ones there.                                     *)
(*                                                                         *)
(* The whole array is modelled, the slots past the count included, because *)
(* the failure path leaves data in them. An entry is its Drive field and    *)
(* geo, the drive whose BIOS answer filled its geometry fields (nHeads,    *)
(* nSectors, nCylinders, nTotalSectors, nBytesPerSector), or ZeroGeo for   *)
(* the static initialisation, and edd, bit 0 of ControllerFlags (the      *)
(* drive is read with INT 13h AH=42h). Whether the INT 13h queries for a   *)
(* drive succeed is nondeterministic: absent drives always fail, present   *)
(* ones fail when BiosCanFail. An EDD drive's AH=48h is taken to succeed   *)
(* when its queries do.                                                    *)
(***************************************************************************)
EXTENDS Integers, Sequences, SequencesExt

CONSTANTS
  Length,       \* DRIVE_INFO_LENGTH (16)
  Drives,       \* the BIOS drive numbers callers ask about
  Present,      \* the drives the BIOS answers for
  EddDrives,    \* the drives whose AH=41h reports bit 0 of CX (packet access)
  BiosCanFail,  \* whether a present drive's queries may fail
  NULL

ASSUME Length \in Nat \ {0} /\ Present \subseteq Drives /\ BiosCanFail \in BOOLEAN
ASSUME EddDrives \subseteq Drives

(* The geometry of the zero-initialised static array (no drive's).        *)
ZeroGeo == -1

Info == [Drive : Drives \cup {0}, geo : Drives \cup {ZeroGeo}, edd : BOOLEAN]

VARIABLES
  params,  \* DriveParameters[0 .. Length-1] as a function 1..Length -> Info
  count,   \* DriveParametersCount
  ret,     \* what the last call returned: the entry at index 0, or NULL
  asked,   \* the drive the last call asked about
  recent   \* the drives asked about, most recent first, each once

vars == <<params, count, ret, asked, recent>>

-----------------------------------------------------------------------------
(* Index (1-based) of the valid entry for drive d, 0 when none.            *)
Lookup(d) == SelectInSeq(SubSeq(params, 1, count), LAMBDA e : e.Drive = d)

(* memmove(&P[1], &P[0], n * sizeof): entries 1..n move up one slot; slot  *)
(* 1 keeps its old contents until it is overwritten.                       *)
ShiftUp(p, n) ==
  [k \in 1..Length |-> IF k >= 2 /\ k <= n + 1 THEN p[k - 1] ELSE p[k]]

(* Seeded fault for mutation analysis: the found entry is swapped with the *)
(* front one instead of the ones before it moving up.                      *)
MoveToFrontSwap(p, i) ==
  [p EXCEPT ![1] = p[i], ![i] = p[1]]

(* Seeded fault for mutation analysis: the saved entry di is not written  *)
(* back to DriveParameters[0] after the memmove.                           *)
MoveToFrontNoRestore(p, i) == ShiftUp(p, i - 1)

(* A found entry moves to the front, the ones before it move up one slot. *)
MoveToFront(p, i) ==
  [ShiftUp(p, i - 1) EXCEPT ![1] = p[i]]

(* Seeded fault for mutation analysis: a full array evicts nothing.        *)
RoomNoEvict(c) == c

(* Room for a new entry: a full array drops its last (least recent) one.   *)
Room(c) == IF c = Length THEN c - 1 ELSE c

-----------------------------------------------------------------------------
Init ==
  /\ params = [k \in 1..Length |-> [Drive |-> 0, geo |-> ZeroGeo, edd |-> FALSE]]
  /\ count = 0
  /\ ret = NULL
  /\ asked = NULL
  /\ recent = <<>>

(* The ghost recent: drive d moves to (or enters at) the front.            *)
Used(d) ==
  LET l == <<d>> \o SelectSeq(recent, LAMBDA x : x # d)
  IN  IF Len(l) > Length THEN SubSeq(l, 1, Length) ELSE l

(* GetDriveParameters(d) for a drive it already holds.                     *)
Hit(d) ==
  LET i == Lookup(d)
  IN  /\ i # 0
      /\ params' = MoveToFront(params, i)
      /\ ret' = params'[1]
      /\ recent' = Used(d)
      /\ UNCHANGED count

(* GetDriveParameters(d) for a drive it does not hold: make room, insert   *)
(* at the front, set Drive, and query the BIOS (INT 13h AH=41h/48h, then   *)
(* AH=08h). On success the entry holds d's geometry; on failure the count  *)
(* is decremented again and NULL returned, the entry keeping its old       *)
(* geometry with ControllerFlags cleared (drive.c 106, before AH=08h).     *)
Miss(d, biosOk) ==
  LET c       == Room(count)
      shifted == ShiftUp(params, c)
      ok      == biosOk /\ d \in Present
  IN  /\ Lookup(d) = 0
      /\ ~biosOk => BiosCanFail
      /\ IF ok
           THEN /\ params' = [shifted EXCEPT ![1] = [Drive |-> d, geo |-> d, edd |-> d \in EddDrives]]
                /\ count' = c + 1
                /\ ret' = params'[1]
                /\ recent' = Used(d)
           ELSE /\ params' = [shifted EXCEPT ![1].Drive = d, ![1].edd = FALSE]
                /\ count' = c
                /\ ret' = NULL
                /\ UNCHANGED recent

(* One call GetDriveParameters(d).                                        *)
GetDriveParameters(d) ==
  /\ asked' = d
  /\ \/ Hit(d)
     \/ \E ok \in BOOLEAN : Miss(d, ok)

Next == \E d \in Drives : GetDriveParameters(d)

Spec == Init /\ [][Next]_vars

-----------------------------------------------------------------------------
TypeOK ==
  /\ params \in [1..Length -> Info]
  /\ count \in 0..Length
  /\ ret \in Info \cup {NULL}

(* The valid entries are exactly the distinct drives GetDriveParameters   *)
(* answered for, most recently asked first, up to DRIVE_INFO_LENGTH: the  *)
(* move-to-front memmove, the insertion at the front and the eviction of   *)
(* the last entry together implement an LRU list.                          *)
CacheIsRecencyList ==
  /\ count = Len(recent)
  /\ \A k \in 1..count : params[k].Drive = recent[k]

(* A DRIVE_INFO that GetDriveParameters returns describes the drive it was *)
(* asked about (drive.h: "Returns the drive parameters of @Drive").        *)
ReturnsOwnGeometry ==
  ret # NULL => ret.Drive = asked /\ ret.geo = asked

=============================================================================
