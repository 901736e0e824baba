----------------------------- MODULE MC_FatOpen -----------------------------
(***************************************************************************)
(* A volume with a label, a root directory, two subdirectories and the     *)
(* boot sectors it may have been formatted with: valid FAT12, FAT16 and    *)
(* FAT32 at both sides of each cluster-count threshold, and hand-made      *)
(* ones for each rejection and each misclassification of FatMount.         *)
(***************************************************************************)
EXTENDS FatOpen

a == 97
b == 98
A == 65
B == 66
One == 49
Tilde == 126
Star == 42

Rep(c, n) == [k \in 1..n |-> c]
Short(base, ext) == base \o Rep(Fmt!Space, 8 - Len(base)) \o ext \o Rep(Fmt!Space, 3 - Len(ext))

Item(kind, long, short, was, attr, c) ==
    [kind |-> kind, long |-> long, short |-> short, was |-> was, attr |-> attr, clus |-> c]

Long2Short == Short(Rep(A, 6) \o <<Tilde, One>>, << >>)
RenamedWas == Short(Rep(B, 6) \o <<Tilde, One>>, << >>)

\* The volume label, an 11-byte short entry with ATTR_VOLUME_ID.
Label(name) == Item("file", << >>, name, name, "label", 0)
\* Directory "ab" at cluster 3 and "ba" at cluster 4.
DirAB == Item("file", << >>, Short(<<A, B>>, << >>), Short(<<A, B>>, << >>), "dir", 3)
DirBA == Item("file", << >>, Short(<<B, A>>, << >>), Short(<<B, A>>, << >>), "dir", 4)
\* ab.b, 8.3 only
Plain == Item("file", << >>, Short(<<A, B>>, <<B>>), Short(<<A, B>>, <<B>>), "file", 5)
\* aaaaaaaaaaaaaab: two long-name fragments
Long2 == Item("file", Rep(a, 14) \o << b >>, Long2Short, Long2Short, "file", 6)
\* bbbbbbbbbbbbb renamed to BA by an 8.3-only tool
Renamed == Item("renamed", Rep(b, 13), Short(<<B, A>>, << >>), RenamedWas, "file", 7)
\* abab, deleted
Gone == Item("deleted", <<a, b, a, b>>, Short(<<A, B, A, B>>, << >>),
             Short(<<A, B, A, B>>, << >>), "file", 8)
\* a long name whose short entry was lost
Orphan == Item("orphan", Rep(b, 13), Short(<<B, A>>, << >>), Short(<<B, B>>, << >>), "file", 0)

\* The root is read at cluster 0 by FAT12/16 and at cluster 2 by FAT32.
Volume(label) ==
    LET root == << Label(label), DirAB, Gone, Long2, DirBA >>
    IN (0 :> root) @@ (2 :> root)
       @@ (3 :> << Plain, Gone, Long2, Renamed >>)
       @@ (4 :> << Orphan, Renamed >>)

MC_Tree == Volume(Short(<<B, B>>, << >>))
\* A label that is also the name of a root directory.
MC_LabelTree == Volume(Short(<<A, B>>, << >>))

\* The root's slots: label 1, DirAB 1, Gone 2, Long2 3, DirBA 1.
MC_RootSlots == 8
MC_SlotsPerClus == 4

(***************************************************************************)
(* Boot sectors as a formatter writes them (the FAT specification's        *)
(* layout): a width, sector and cluster size, FAT count, root entry count *)
(* and cluster count give the reserved area, FAT size and total sectors.  *)
(* On a FAT12/16 boot sector the FAT32 fields hold the bytes of           *)
(* BS_DrvNum 0x80, BS_BootSig 0x29, BS_VolID 0x12345601 and BS_VolLab     *)
(* "NO NAME".  authored is the width, 0 for a hand-made BPB.              *)
(***************************************************************************)
Authored(w, bps, spc, nfats, rootEnt, nclus) ==
    LET rsvd == IF w = 32 THEN 32 ELSE 1
        rds == (rootEnt * 32 + bps - 1) \div bps
        fatBytes == CASE w = 12 -> ((nclus + 2) * 3 + 1) \div 2
                      [] w = 16 -> (nclus + 2) * 2
                      [] OTHER -> (nclus + 2) * 4
        fatsz == (fatBytes + bps - 1) \div bps
        tot == rsvd + nfats * fatsz + rds + nclus * spc
        small == w # 32 /\ tot < 65536
    IN [BytsPerSec |-> bps, SecPerClus |-> spc, RsvdSecCnt |-> rsvd,
        NumFATs |-> nfats, RootEntCnt |-> rootEnt,
        TotSec16 |-> IF small THEN tot ELSE 0, TotSec32 |-> IF small THEN 0 ELSE tot,
        Media |-> 248, FATSz16 |-> IF w = 32 THEN 0 ELSE fatsz,
        FATSz32 |-> IF w = 32 THEN fatsz ELSE 19464320,
        FSVer |-> IF w = 32 THEN 0 ELSE 19986,
        RootClus |-> IF w = 32 THEN 2 ELSE 1095639119,
        authored |-> w, clusters |-> nclus, dataStart |-> rsvd + nfats * fatsz + rds]

(***************************************************************************)
(* Boot sectors.  Hand(...) overrides fields of a valid one.                *)
(***************************************************************************)
Fat12Max == Authored(12, 512, 8, 2, 512, 4084)
Fat16Min == Authored(16, 512, 4, 2, 512, 4085)
Fat16Max == Authored(16, 512, 1, 2, 512, 65524)
Fat32Min == Authored(32, 512, 1, 2, 0, 65525)

Hand(v, f) == [f @@ v EXCEPT !.authored = 0]

MC_Bpbs ==
    { Fat12Max, Fat16Min, Fat16Max, Fat32Min,
      \* the drive has 512-byte sectors
      Hand(Authored(16, 1024, 1, 2, 512, 5000), << >>),
      \* RsvdSecCnt > 1 with a fixed root
      Hand(Fat16Min, [RsvdSecCnt |-> 4]),
      \* a FAT16 layout with 65525 clusters: the FSVer check on VolID
      Hand(Authored(16, 512, 1, 2, 512, 65525), << >>),
      \* a FAT32 layout with 65524 clusters mounts as FAT16
      Hand(Authored(32, 512, 1, 2, 0, 65524), << >>),
      \* TotSec32 below the metadata: DataSec wraps and FAT32 mounts
      Hand(Fat32Min, [TotSec32 |-> 100]) }

MC_Paths ==
    { <<Slash, a, b, Slash, a, b, Fmt!Dot, b>>,          \* /ab/ab.b
      <<Slash>> \o Rep(A, 14) \o << B >>,                 \* the long name in upper case
      <<Slash, a, b, Slash, a, b, a, b>>,                 \* the deleted file
      <<Slash, b, a, Slash, b, a>>,                       \* renamed, after an orphan
      <<Slash, b, a, Slash, a, b>>,                       \* up to the end marker
      <<Slash, a, b, Slash>> \o Rep(b, 13),               \* a stale long name
      <<Slash, a, b>>,                                    \* a directory
      <<Slash, b, b>>,                                    \* the label
      <<Slash>> \o Rep(a, 14) \o <<b, Slash, a, b>>,      \* a file used as a directory
      <<a, b, Fmt!Dot, b>>,                               \* no leading '/'
      <<Slash, a, Star, b>> }                             \* an illegal character

\* Paths through the directory the label shadows.
MC_LabelPaths == { <<Slash, a, b, Slash, a, b, Fmt!Dot, b>> }
MC_LabelBpbs == { Fat16Min }

====
