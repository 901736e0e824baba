----------------------------- MODULE DirLookup -----------------------------
(***************************************************************************)
(* FindDirEntry (fat.c 333-553): the search of one FAT directory for one   *)
(* path component, with its long-file-name (VFAT) state machine.          *)
(*                                                                         *)
(* A directory is a chain of clusters of 32-byte slots.  A slot is a      *)
(* record: lfn (the attribute test of fat.c 423), ord (DIR_Name[0] of a    *)
(* long entry, i.e. LDIR_Ord), name (the 11 bytes of a short entry), chk   *)
(* (LDIR_Chksum), piece (the 13 characters of a long entry, each UTF-16    *)
(* unit already cut to its low byte as the CHAR assignments do), zero     *)
(* (LDIR_FstClusLO = 0 and LDIR_Type = 0) and item, the index of the file *)
(* the slot was written for, which the code never reads and the           *)
(* properties use.  Characters are byte codes.                             *)
(*                                                                         *)
(* The state is the function's locals: the cluster and slot cursor, the   *)
(* nRootEntries count, LastDirEntry, DirEntry, Checksum and the Filename  *)
(* buffer, plus the result.  One action handles one slot.                 *)
(***************************************************************************)
EXTENDS Integers, SequencesExt

CONSTANTS
    SlotsPerClus,   \* BytsPerClus / sizeof(DIR_ENTRY)
    Dirs,           \* directories to search: [root, entcnt, items, clusters]
    Paths,          \* path components passed in, as byte sequences
    HeapCanFail,    \* whether malloc may return NULL
    DiskCanFail     \* whether ReadSector and the FAT read may fail

NUL == 0
Space == 32
Dot == 46
DELETED == 229          \* 0xE5
KANJI == 5              \* 0x05, stands for a leading 0xE5
LAST_LONG_ENTRY == 64   \* 0x40
MAX_ENTRY_VALUE == 63   \* 0x3F
BufLen == 256           \* CHAR Filename[256]

\* A CHAR holding byte c, as the signed comparisons of the code see it.
Signed(c) == IF c >= 128 THEN c - 256 ELSE c

ToUpper(c) == IF c >= 97 /\ c <= 122 THEN c - 32 ELSE c
UpperSeq(s) == [k \in DOMAIN s |-> ToUpper(s[k])]
IsAlnum(c) == c \in (48..57) \cup (65..90) \cup (97..122)

(***************************************************************************)
(* The name conversions of fat.c 141-263.                                  *)
(***************************************************************************)
RECURSIVE TrimLead(_), TrimTail(_)
TrimLead(s) == IF s # << >> /\ Head(s) = Space THEN TrimLead(Tail(s)) ELSE s
TrimTail(s) == IF s # << >> /\ Last(s) \in {Space, Dot} THEN TrimTail(Front(s)) ELSE s
Trim(s) == TrimTail(TrimLead(s))

\* \ / : * ? " < > |
FilenameIllegal == {92, 47, 58, 42, 63, 34, 60, 62, 124}

ValidateFilename(s) ==
    /\ Len(s) <= 255
    /\ \A k \in DOMAIN s :
          ~(Signed(s[k]) < 32 \/ (Signed(s[k]) < 127 /\ s[k] \in FilenameIllegal))

\* $ % ' - _ @ ~ ` ! ( ) { } ^ # &
OemAllowed == {36, 37, 39, 45, 95, 64, 126, 96, 33, 40, 41, 123, 125, 94, 35, 38}

OemIllegal(ch) == ~IsAlnum(ch) /\ ch \notin OemAllowed /\ Signed(ch) > 0

\* The for loop of UnicodeToOem: i counts Dest bytes, p points into Src
\* (past its end reads the terminating NUL).  << >> is the empty Dest.
RECURSIVE OemLoop(_, _, _, _, _)
OemLoop(src, dot, p, i, dest) ==
    IF i = 11 THEN dest
    ELSE LET ch == IF p <= Len(src) THEN src[p] ELSE NUL
         IN CASE ch = Dot /\ p = dot /\ i = 8 -> OemLoop(src, dot, p + 1, i, dest)
              [] ch = Dot /\ p = dot /\ i < 8 ->
                    OemLoop(src, dot, p, i + 1, Append(dest, Space))
              [] ch = Dot -> << >>
              [] ch = NUL -> OemLoop(src, dot, p, i + 1, Append(dest, Space))
              [] OemIllegal(ToUpper(ch)) -> << >>
              [] OTHER -> OemLoop(src, dot, p + 1, i + 1, Append(dest, ToUpper(ch)))

UnicodeToOem(src) ==
    LET dot == SelectInSeq(src, LAMBDA c : c = Dot)
    IN IF dot = 0 \/ dot - 1 <= 8 THEN OemLoop(src, dot, 1, 0, << >>) ELSE << >>

CheckSum(name) ==
    FoldLeft(LAMBDA sum, c : ((sum % 2) * 128 + sum \div 2 + c) % 256, 0, name)

\* The C string held in the Filename buffer.
CStr(f) == LET n == Min({k \in DOMAIN f : f[k] = NUL})
           IN [k \in 1..n |-> f[k - 1]]

StricmpCaseSensitive(f, name) == CStr(f) = name

\* stricmp(Filename, Name) = 0
Stricmp(f, name) == UpperSeq(CStr(f)) = UpperSeq(name)

\* strncmp(OemFilename, DIR_Name, 11) = 0; an empty OemFilename differs
\* from every name that does not start with NUL.
OemMatch(oem, name) == oem = name

ASSUME SlotsPerClus \in Nat \ {0}
ASSUME HeapCanFail \in BOOLEAN /\ DiskCanFail \in BOOLEAN

\* LDIR_Ord with the LAST_LONG_ENTRY bit cleared.
ClearLast(o) == IF (o \div LAST_LONG_ENTRY) % 2 = 1 THEN o - LAST_LONG_ENTRY ELSE o

\* The model stores fragments only inside Filename: a first fragment with
\* an ordinal of 21..63 writes past it (see fat.c:447 in the README).
ASSUME \A d \in Dirs : \A c \in DOMAIN d.clusters : \A k \in DOMAIN d.clusters[c] :
          d.clusters[c][k].lfn => ClearLast(d.clusters[c][k].ord) \notin 21..63
\* A FAT12/16 root directory holds BPB_RootEntCnt (entcnt) slots.
ASSUME \A d \in Dirs : d.root => Len(d.clusters) * SlotsPerClus >= d.entcnt

VARIABLES
    dir,        \* the directory searched (Cluster and the volume)
    path,       \* the Path argument
    pc,         \* "start", "read", "scan", "next" or "done"
    ci,         \* cluster of the chain being scanned (Cluster / Sector)
    si,         \* slot within the cluster (i / sizeof(DIR_ENTRY) + 1)
    nRoot,      \* nRootEntries
    lastDir,    \* LastDirEntry
    dirEntry,   \* DirEntry
    checksum,   \* Checksum
    fname,      \* Filename[256]
    found,      \* <<cluster, slot>> of the returned entry, or NoSlot
    errno,      \* errno as set by the call
    failed      \* a malloc, sector or FAT read failed (no code variable)

vars == <<dir, path, pc, ci, si, nRoot, lastDir, dirEntry, checksum, fname,
          found, errno, failed>>

NoSlot == <<0, 0>>
HeapOutcomes == IF HeapCanFail THEN BOOLEAN ELSE {TRUE}
DiskOutcomes == IF DiskCanFail THEN BOOLEAN ELSE {TRUE}
\* GetNextCluster fails on its malloc or its FAT sector read.
FatOutcomes == HeapOutcomes \cup DiskOutcomes

Name == Trim(path)
OemFilename == UnicodeToOem(Name)

FirstByte(e) == IF e.lfn THEN e.ord ELSE e.name[1]

\* The 0x05 first byte is rewritten to 0xE5 in the buffer (fat.c 417-421).
Kanji(e) == IF FirstByte(e) # KANJI THEN e
            ELSE IF e.lfn THEN [e EXCEPT !.ord = DELETED]
            ELSE [e EXCEPT !.name[1] = DELETED]

Init ==
    /\ dir \in Dirs
    /\ path \in Paths
    /\ pc = "start"
    /\ ci = 1 /\ si = 1 /\ nRoot = 0
    /\ lastDir = 0 /\ dirEntry = 0 /\ checksum = 0
    /\ fname = [k \in 0..(BufLen - 1) |-> NUL]
    /\ found = NoSlot
    /\ errno = "none"
    /\ failed = FALSE

Return(err, fail) ==
    /\ pc' = "done" /\ errno' = err /\ failed' = (failed \/ fail)

\* Duplicate, trim and validate the name, allocate the cluster buffer.
Start ==
    /\ pc = "start"
    /\ \E okName, okBuf \in HeapOutcomes :
          IF okName /\ ValidateFilename(Name) /\ okBuf
          THEN pc' = "read" /\ UNCHANGED <<errno, failed>>
          ELSE IF okName /\ ValidateFilename(Name)
               THEN Return("ENOMEM", TRUE)
               ELSE Return(IF okName THEN "ENOENT" ELSE "ENOMEM", ~okName)
    /\ UNCHANGED <<dir, path, ci, si, nRoot, lastDir, dirEntry, checksum, fname, found>>

\* ReadSector of the whole cluster; a short read ends the search.
ReadCluster ==
    /\ pc = "read"
    /\ \E ok \in DiskOutcomes :
          IF ok THEN pc' = "scan" /\ si' = 1 /\ UNCHANGED <<errno, failed>>
          ELSE Return("ENOENT", TRUE) /\ UNCHANGED si
    /\ UNCHANGED <<dir, path, ci, nRoot, lastDir, dirEntry, checksum, fname, found>>

\* The for loop's condition (fat.c 399).
InLoop == (~dir.root \/ nRoot < dir.entcnt) /\ si <= SlotsPerClus

Advance == si' = si + 1 /\ nRoot' = nRoot + 1

\* The loop ended: a break or the root's entry count ends the search
\* (i < BytsPerClus), a full cluster moves on to the next one.
LeaveCluster ==
    /\ pc = "scan"
    /\ ~InLoop
    /\ IF si <= SlotsPerClus THEN Return("ENOENT", FALSE) ELSE pc' = "next" /\ UNCHANGED <<errno, failed>>
    /\ UNCHANGED <<dir, path, ci, si, nRoot, lastDir, dirEntry, checksum, fname, found>>

Slot == dir.clusters[ci][si]

\* A zero first byte ends the directory, and the search (fat.c 403-407).
EndOfDirectory ==
    /\ pc = "scan" /\ InLoop
    /\ FirstByte(Slot) = NUL
    /\ Return("ENOENT", FALSE)
    /\ UNCHANGED <<dir, path, ci, si, nRoot, lastDir, dirEntry, checksum, fname, found>>

\* A deleted slot is skipped and leaves the long-name state alone.
SkipDeleted ==
    /\ pc = "scan" /\ InLoop
    /\ FirstByte(Slot) = DELETED
    /\ Advance
    /\ UNCHANGED <<dir, path, pc, ci, lastDir, dirEntry, checksum, fname, found, errno, failed>>

\* Copy the 13 characters of the fragment numbered d + 1 to Filename[d * 13]:
\* the last five only while they start below Filename[255], and the NUL
\* after them when term holds.
StoreFragment(f, d, piece, term) ==
    LET pos == d * 13
        top == IF pos + 8 < 255 THEN pos + 13 ELSE pos + 8
        stored == [k \in DOMAIN f |-> IF k >= pos /\ k < top THEN piece[k - pos + 1] ELSE f[k]]
    IN IF term THEN [stored EXCEPT ![top] = NUL] ELSE stored

\* A long-name entry (fat.c 423-490): the LAST_LONG_ENTRY flag must be set
\* exactly when no set is in progress; the first entry of a set fixes
\* LastDirEntry and Checksum; an entry is stored when its ordinal is the
\* expected one, its checksum is the set's and its cluster and type are 0.
\* Anything else resets the set.
LongEntry ==
    /\ pc = "scan" /\ InLoop
    /\ FirstByte(Slot) \notin {NUL, DELETED}
    /\ Kanji(Slot).lfn
    /\ LET e == Kanji(Slot)
           correct == (dirEntry # lastDir) # ((e.ord \div LAST_LONG_ENTRY) % 2 = 1)
           first == correct /\ lastDir = 0
           ord1 == IF first THEN ClearLast(e.ord) ELSE e.ord
           last1 == IF first THEN ord1 ELSE lastDir
           chk1 == IF first THEN e.chk ELSE checksum
           de1 == IF first THEN last1 ELSE dirEntry
           valid == /\ correct
                    /\ de1 > 0 /\ de1 <= MAX_ENTRY_VALUE
                    /\ ord1 = de1 /\ e.zero /\ e.chk = chk1
       IN IF valid
          THEN /\ lastDir' = last1 /\ dirEntry' = de1 - 1 /\ checksum' = chk1
               /\ fname' = StoreFragment(fname, de1 - 1, e.piece, de1 - 1 = last1 - 1)
          ELSE /\ lastDir' = 0 /\ dirEntry' = 0 /\ checksum' = chk1
               /\ UNCHANGED fname
    /\ Advance
    /\ UNCHANGED <<dir, path, pc, ci, found, errno, failed>>

KeepsLongNameNoChecksum(e) == lastDir # 0 /\ dirEntry = 0

\* The long name assembled is kept for a short entry only when every
\* fragment down to ordinal 1 was seen and the checksum is this entry's.
KeepsLongName(e) == lastDir # 0 /\ dirEntry = 0 /\ CheckSum(e.name) = checksum

\* The short entry is the one searched for (fat.c 494-523).
ShortMatches(e) ==
    IF KeepsLongName(e) THEN Stricmp(fname, Name) ELSE OemMatch(OemFilename, e.name)

\* A short entry: returned when it matches, else the long-name state is reset.
ShortEntry ==
    /\ pc = "scan" /\ InLoop
    /\ FirstByte(Slot) \notin {NUL, DELETED}
    /\ ~Kanji(Slot).lfn
    /\ IF ShortMatches(Kanji(Slot))
       THEN /\ found' = <<ci, si>> /\ pc' = "done"
            /\ UNCHANGED <<si, nRoot, lastDir, dirEntry>>
       ELSE /\ lastDir' = 0 /\ dirEntry' = 0 /\ Advance
            /\ UNCHANGED <<found, pc>>
    /\ UNCHANGED <<dir, path, ci, checksum, fname, errno, failed>>

ChainContinuesPastEnd(ok) == ok /\ ci <= Len(dir.clusters)

\* GetNextCluster answered and its answer is below EndCluster (fat.c 376).
ChainContinues(ok) == ok /\ ci < Len(dir.clusters)

\* The next cluster (fat.c 531-546): the root's sectors are contiguous;
\* a subdirectory follows the FAT, where a failed FAT read returns
\* 0xFFFFFFFF and so ends the chain like its last cluster does.
NextCluster ==
    /\ pc = "next"
    /\ \/ /\ dir.root
          /\ ci' = ci + 1 /\ pc' = "read" /\ UNCHANGED <<errno, failed>>
       \/ /\ ~dir.root
          /\ \E ok \in FatOutcomes :
                IF ChainContinues(ok)
                THEN ci' = ci + 1 /\ pc' = "read" /\ UNCHANGED <<errno, failed>>
                ELSE Return("ENOENT", ci < Len(dir.clusters)) /\ UNCHANGED ci
    /\ UNCHANGED <<dir, path, si, nRoot, lastDir, dirEntry, checksum, fname, found>>

Next ==
    \/ Start
    \/ ReadCluster
    \/ LeaveCluster
    \/ EndOfDirectory
    \/ SkipDeleted
    \/ LongEntry
    \/ ShortEntry
    \/ NextCluster

Spec == Init /\ [][Next]_vars

(***************************************************************************)
(* The directories searched, as a FAT writer lays them out.  An item is a  *)
(* record [kind, short, long, was, attr, clus]: a "file" has the long name *)
(* long (none when << >>) written before its short entry with the         *)
(* checksum of its short name; a "renamed" file's long name still carries *)
(* the checksum of the short name was; a "deleted" file has every first   *)
(* byte 0xE5; an "orphan" is a long name whose short entry was lost.  The  *)
(* short entry's DIR_Attr is attr ("file", "dir" or "label", the bits     *)
(* ATTR_DIRECTORY and ATTR_VOLUME_ID) and its first cluster clus.         *)
(***************************************************************************)
BlankName == [k \in 1..11 |-> Space]
BlankPiece == [k \in 1..13 |-> NUL]

\* Fragment k of long name L: 13 characters, then NUL, then 0xFFFF units.
Piece(L, k) == [j \in 1..13 |-> LET p == (k - 1) * 13 + j
                                IN IF p <= Len(L) THEN L[p]
                                   ELSE IF p = Len(L) + 1 THEN NUL ELSE 255]

\* The fragments of an item's long name, highest ordinal first.
Fragments(it, i) ==
    LET n == (Len(it.long) + 12) \div 13
    IN [j \in 1..n |-> LET k == n + 1 - j
                       IN [lfn |-> TRUE, name |-> BlankName, chk |-> CheckSum(it.was),
                           ord |-> IF j = 1 THEN k + LAST_LONG_ENTRY ELSE k,
                           piece |-> Piece(it.long, k), zero |-> TRUE, item |-> i,
                           attr |-> "lfn", clus |-> 0]]

ShortSlot(it, i) == [lfn |-> FALSE, ord |-> 0, name |-> it.short, chk |-> 0,
                     piece |-> BlankPiece, zero |-> TRUE, item |-> i,
                     attr |-> it.attr, clus |-> it.clus]

Erase(s) == IF s.lfn THEN [s EXCEPT !.ord = DELETED] ELSE [s EXCEPT !.name[1] = DELETED]

ItemSlots(it, i) ==
    CASE it.kind = "orphan" -> Fragments(it, i)
      [] it.kind = "deleted" ->
            LET w == Fragments(it, i) \o << ShortSlot(it, i) >>
            IN [k \in DOMAIN w |-> Erase(w[k])]
      [] OTHER -> Fragments(it, i) \o << ShortSlot(it, i) >>

EndSlot == [lfn |-> FALSE, ord |-> 0, name |-> [k \in 1..11 |-> NUL], chk |-> 0,
            piece |-> BlankPiece, zero |-> TRUE, item |-> 0, attr |-> "file", clus |-> 0]

\* The slots of the items in order, padded with free slots to whole clusters.
Layout(items) ==
    LET all == FlattenSeq([i \in DOMAIN items |-> ItemSlots(items[i], i)])
        n == (Len(all) + SlotsPerClus - 1) \div SlotsPerClus
        padded == all \o [k \in 1..(n * SlotsPerClus - Len(all)) |-> EndSlot]
    IN [c \in 1..n |-> SubSeq(padded, (c - 1) * SlotsPerClus + 1, c * SlotsPerClus)]

Live(it) == it.kind \in {"file", "renamed"}

\* p names the item by the long name written with its own checksum.
LongNamed(it, p) ==
    it.kind = "file" /\ it.long # << >> /\ UpperSeq(it.long) = UpperSeq(Trim(p))

\* p names the item by its 11-byte short name.
ShortNamed(it, p) == OemMatch(UnicodeToOem(Trim(p)), it.short)

\* The item's full name (spec 63-64, 103): its long name when it has a
\* valid one, else its short name.
FullNamed(it, p) ==
    IF it.kind = "file" /\ it.long # << >> THEN LongNamed(it, p) ELSE ShortNamed(it, p)

FoundItem == dir.clusters[found[1]][found[2]].item

TypeOK ==
    /\ dir \in Dirs /\ path \in Paths
    /\ pc \in {"start", "read", "scan", "next", "done"}
    /\ ci \in 1..(Len(dir.clusters) + IF dir.root THEN 1 ELSE 0)
    /\ si \in 1..(SlotsPerClus + 1)
    /\ lastDir \in 0..MAX_ENTRY_VALUE /\ dirEntry \in 0..MAX_ENTRY_VALUE
    /\ checksum \in 0..255
    /\ fname \in [0..(BufLen - 1) -> 0..255]
    /\ errno \in {"none", "ENOMEM", "ENOENT"}
    /\ (found # NoSlot) => pc = "done" /\ errno = "none"

\* FindDirEntry only returns the short entry of a live file that the path
\* names: by the long name written for that file under its checksum, or
\* by its short name.  A stale long name (its checksum from another short
\* name) and deleted entries never match.
LookupSound ==
    found # NoSlot =>
        /\ ~dir.clusters[found[1]][found[2]].lfn
        /\ Live(dir.items[FoundItem])
        /\ LongNamed(dir.items[FoundItem], path) \/ ShortNamed(dir.items[FoundItem], path)

\* When no allocation or read failed and no long name lost its short
\* entry, FindDirEntry returns the file whose full name (its long name,
\* or its short name without one) is the path, case-insensitively.
LookupComplete ==
    (pc = "done" /\ ~failed /\ \A i \in DOMAIN dir.items : dir.items[i].kind # "orphan") =>
        \A i \in DOMAIN dir.items :
            Live(dir.items[i]) /\ FullNamed(dir.items[i], path) =>
                found # NoSlot /\ FoundItem = i

====
