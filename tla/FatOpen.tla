------------------------------ MODULE FatOpen ------------------------------
(***************************************************************************)
(* A FAT volume mounted by FatMount and a path opened on it by _OpenFile   *)
(* (fat.c 555-612), which calls FindDirEntry (DirLookup) once per path     *)
(* component.  The two components are instances: FatMount steps until it  *)
(* is done, then _OpenFile walks the path, and each call of FindDirEntry  *)
(* resets DirLookup's locals and runs it to its return.                   *)
(*                                                                         *)
(* The volume's directories are Tree, a function from first cluster to    *)
(* items (DirLookup's records).  Their contents do not depend on the BPB:  *)
(* a cluster holds SlotsPerClus slots whatever BytsPerClus is, and the     *)
(* fixed FAT12/16 root holds RootSlots slots when BPB_RootEntCnt is not 0  *)
(* (none when it is 0).  The root is cluster 0 of Tree as FAT12/16 sees it *)
(* and cluster RootClus (2) as FAT32 does.                                 *)
(***************************************************************************)
EXTENDS Integers, SequencesExt

CONSTANTS
    Bpbs, SectorSize, BiosCanFail,      \* FatMount's
    SlotsPerClus, HeapCanFail, DiskCanFail,
    Tree,           \* first cluster -> items of that directory
    RootSlots,      \* slots of the FAT12/16 root, standing for BPB_RootEntCnt
    OpenPaths       \* the Path arguments of OpenFile

Slash == 47

VARIABLES
    bpb, mpc, tries, fi, held, mfailed,             \* FatMount
    dir, path, pc, ci, si, nRoot, lastDir, dirEntry, checksum, fname,
    found, errno, failed,                            \* FindDirEntry
    opath,      \* the Path argument of _OpenFile
    opc,        \* "mount", "begin", "walk", "lookup", "alloc", "done", "unmounted"
    rest,       \* Path: the part of the path not yet looked up
    sep,        \* p: the index of the next '/' in rest, 0 for NULL
    clus,       \* Cluster: the directory FindDirEntry searches
    opened,     \* the FILE returned: <<directory, item>>, or NoFile
    oerrno,     \* errno when _OpenFile returns NULL
    depth,      \* FindDirEntry calls made (no code variable)
    ofailed     \* some FindDirEntry call failed on malloc or I/O

mountVars == <<bpb, mpc, tries, fi, held, mfailed>>
lookupVars == <<dir, path, pc, ci, si, nRoot, lastDir, dirEntry, checksum,
                fname, found, errno, failed>>
openVars == <<opath, opc, rest, sep, clus, opened, oerrno, depth, ofailed>>
vars == <<mountVars, lookupVars, openVars>>

FM == INSTANCE FatMount WITH MountHeapCanFail <- HeapCanFail,
                             MountDiskCanFail <- DiskCanFail

\* DirLookup's constant operators: the slot layout and the naming of items.
Fmt == INSTANCE DirLookup WITH Dirs <- {}, Paths <- {}

\* The directory starting at cluster c: clusters below 2 are the fixed root.
MkDir(c, entcnt) == [root |-> c < 2, entcnt |-> entcnt, items |-> Tree[c],
                     clusters |-> Fmt!Layout(Tree[c])]

LookupDirs == {MkDir(c, e) : c \in DOMAIN Tree, e \in {0, RootSlots}}

\* strchr(Path, '/'): the index of the first '/', 0 for NULL.
Strchr(s) == SelectInSeq(s, LAMBDA ch : ch = Slash)

\* The components a path is cut into at its '/'s.
RECURSIVE Components(_)
Components(s) == IF Strchr(s) = 0 THEN << s >>
                 ELSE << SubSeq(s, 1, Strchr(s) - 1) >>
                      \o Components(SubSeq(s, Strchr(s) + 1, Len(s)))

LookupPaths == UNION {Range(Components(Tail(p))) : p \in {q \in OpenPaths : q # << >>}}

DL == INSTANCE DirLookup WITH Dirs <- LookupDirs, Paths <- LookupPaths

NoFile == <<0, 0>>

\* The directory FindDirEntry searches for Cluster c on the mounted volume.
DirOf(c) == MkDir(c, IF fi.RootEntCnt = 0 THEN 0 ELSE RootSlots)

Init ==
    /\ FM!MountInit
    /\ dir = MkDir(0, RootSlots) /\ path = << >> /\ pc = "done"
    /\ ci = 1 /\ si = 1 /\ nRoot = 0 /\ lastDir = 0 /\ dirEntry = 0 /\ checksum = 0
    /\ fname = [k \in 0..(DL!BufLen - 1) |-> DL!NUL]
    /\ found = DL!NoSlot /\ errno = "none" /\ failed = FALSE
    /\ opath \in OpenPaths
    /\ opc = "mount" /\ rest = << >> /\ sep = 0 /\ clus = 0
    /\ opened = NoFile /\ oerrno = "none" /\ depth = 0 /\ ofailed = FALSE

\* DeviceResolver mounts the partition before OpenFile is called on it.
MountStep ==
    /\ opc = "mount"
    /\ FM!MountNext
    /\ UNCHANGED <<lookupVars, openVars>>

\* A rejected mount leaves the partition without a FAT driver.
MountDone ==
    /\ opc = "mount" /\ mpc = "done"
    /\ opc' = IF FM!Mounted THEN "begin" ELSE "unmounted"
    /\ UNCHANGED <<mountVars, lookupVars, opath, rest, sep, clus, opened, oerrno, depth, ofailed>>

RootClusterZero == 0

\* Cluster starts at the root: BPB_RootClus on FAT32, else 0.
RootCluster == IF fi.FatType = 32 THEN fi.RootClus ELSE 0

\* The path must start with '/'.
Begin ==
    /\ opc = "begin"
    /\ IF opath # << >> /\ Head(opath) = Slash
       THEN /\ opc' = "walk" /\ rest' = Tail(opath)
            /\ clus' = RootCluster
            /\ UNCHANGED oerrno
       ELSE opc' = "done" /\ oerrno' = "ENOENT" /\ UNCHANGED <<rest, clus>>
    /\ UNCHANGED <<mountVars, lookupVars, opath, sep, opened, depth, ofailed>>

\* p = strchr(Path, '/'), *p = '\0', and the call FindDirEntry(Cluster, Path),
\* whose locals start as in DirLookup's Init.
Walk ==
    /\ opc = "walk"
    /\ sep' = Strchr(rest)
    /\ dir' = DirOf(clus)
    /\ path' = IF sep' = 0 THEN rest ELSE SubSeq(rest, 1, sep' - 1)
    /\ pc' = "start" /\ ci' = 1 /\ si' = 1 /\ nRoot' = 0
    /\ lastDir' = 0 /\ dirEntry' = 0 /\ checksum' = 0
    /\ fname' = [k \in 0..(DL!BufLen - 1) |-> DL!NUL]
    /\ found' = DL!NoSlot /\ errno' = "none" /\ failed' = FALSE
    /\ opc' = "lookup" /\ depth' = depth + 1
    /\ UNCHANGED <<mountVars, opath, rest, clus, opened, oerrno, ofailed>>

\* One step of the running FindDirEntry.
Lookup ==
    /\ opc = "lookup" /\ pc # "done"
    /\ DL!Next
    /\ UNCHANGED <<mountVars, openVars>>

\* The directory entry FindDirEntry copied out (de).
Entry == dir.clusters[found[1]][found[2]]

IsFileNotDir(e) == e.attr # "dir"

\* attr == 0: neither ATTR_DIRECTORY nor ATTR_VOLUME_ID is set.
IsFile(e) == e.attr = "file"

\* FindDirEntry returned (fat.c 578-611): Path moves past the '/'; the walk
\* goes on into a directory while a component follows, a file at the end
\* of the path is opened, and anything else fails, with ENOENT when the
\* entry was found and FindDirEntry's errno when it was not.  Cluster
\* becomes the entry's first cluster; for a file the model keeps the
\* directory, as file->Cluster is the entry's.
Returned ==
    /\ opc = "lookup" /\ pc = "done"
    /\ ofailed' = (ofailed \/ failed)
    /\ LET ret == found # DL!NoSlot
       IN CASE ret /\ Entry.attr = "dir" /\ sep # 0 ->
                  /\ opc' = "walk" /\ clus' = Entry.clus
                  /\ rest' = SubSeq(rest, sep + 1, Len(rest))
                  /\ UNCHANGED oerrno
            [] ret /\ IsFile(Entry) /\ sep = 0 ->
                  opc' = "alloc" /\ UNCHANGED <<clus, rest, oerrno>>
            [] OTHER ->
                  /\ opc' = "done" /\ oerrno' = IF ret THEN "ENOENT" ELSE errno
                  /\ UNCHANGED <<clus, rest>>
    /\ UNCHANGED <<mountVars, lookupVars, opath, sep, opened, depth>>

\* malloc of the FILE_INFO.
AllocFile ==
    /\ opc = "alloc"
    /\ \E ok \in DL!HeapOutcomes :
          IF ok THEN opened' = <<clus, DL!FoundItem>> /\ UNCHANGED <<oerrno, ofailed>>
          ELSE oerrno' = "ENOMEM" /\ ofailed' = TRUE /\ UNCHANGED opened
    /\ opc' = "done"
    /\ UNCHANGED <<mountVars, lookupVars, opath, rest, sep, clus, depth>>

Next ==
    \/ MountStep
    \/ MountDone
    \/ Begin
    \/ Walk
    \/ Lookup
    \/ Returned
    \/ AllocFile

Spec == Init /\ [][Next]_vars

(***************************************************************************)
(* The files a path names on the volume.                                   *)
(***************************************************************************)
\* An item is named by a component: exactly, by its full name (spec 103),
\* or loosely, by its long name or its short name.
Named(it, p, exact) ==
    IF exact THEN Fmt!FullNamed(it, p) ELSE Fmt!LongNamed(it, p) \/ Fmt!ShortNamed(it, p)

\* A directory holding a long name without its short entry.
HasOrphan(c) == \E i \in DOMAIN Tree[c] : Tree[c][i].kind = "orphan"

\* The <<directory, item>> pairs that the components comps lead to from
\* directory c: through live directories to a live file.  Exact naming
\* only passes through directories without orphans.
RECURSIVE Reach(_, _, _)
Reach(c, comps, exact) ==
    LET named == IF exact /\ HasOrphan(c) THEN {}
                 ELSE {i \in DOMAIN Tree[c] : Fmt!Live(Tree[c][i]) /\ Named(Tree[c][i], Head(comps), exact)}
        files == {i \in named : Tree[c][i].attr = "file"}
        dirs == {i \in named : Tree[c][i].attr = "dir"}
    IN IF Len(comps) = 1 THEN {<<c, i>> : i \in files}
       ELSE UNION {Reach(Tree[c][i].clus, Tail(comps), exact) : i \in dirs}

Absolute == opath # << >> /\ Head(opath) = Slash

\* The file an absolute path names, from the root as the volume was authored.
RootOf(w) == IF w = 32 THEN 2 ELSE 0
Targets(exact) ==
    IF Absolute THEN Reach(RootOf(bpb.authored), Components(Tail(opath)), exact) ELSE {}

TypeOK ==
    /\ opc \in {"mount", "begin", "walk", "lookup", "alloc", "done", "unmounted"}
    /\ opath \in OpenPaths
    /\ mpc \in {"params", "buffer", "read", "check", "alloc", "done"}
    /\ tries \in 0..FM!MAX_READ_TRY
    /\ held \subseteq {"Buffer", "fi"}
    /\ depth \in 0..Len(opath)
    /\ depth > 0 => DL!TypeOK
    /\ oerrno \in {"none", "ENOENT", "ENOMEM"}
    /\ opened # NoFile => opc = "done" /\ oerrno = "none" /\ clus \in DOMAIN Tree

\* FatMount recovers what the formatter wrote (spec 102): a boot sector
\* authored for a valid volume, read without a failure, mounts with the
\* authored width, cluster size, data-region offset and data sectors.
MountRecoversGeometry ==
    (mpc = "done" /\ ~mfailed /\ bpb.authored # 0) =>
        /\ FM!Mounted
        /\ fi.FatType = bpb.authored
        /\ fi.BytsPerClus = bpb.BytsPerSec * bpb.SecPerClus
        /\ fi.DataStart = bpb.dataStart
        /\ fi.nDataSectors = bpb.clusters * bpb.SecPerClus

\* Each FindDirEntry call of the walk returns only an entry its component
\* names (DirLookup's LookupSound), in the directory _OpenFile passed.
LookupSound == depth > 0 => DL!LookupSound

\* On a validly formatted volume, where the root's entry count covers its
\* entries, each call finds the file the component fully names in the
\* directory _OpenFile passed (DirLookup's LookupComplete).
LookupComplete == depth > 0 /\ bpb.authored # 0 => DL!LookupComplete

\* _OpenFile returns a FILE only for a file the path names from the root,
\* component by component: never a directory or the volume label.
OpenSound ==
    opened # NoFile =>
        opened \in Reach(0, Components(Tail(opath)), FALSE)
                   \cup Reach(2, Components(Tail(opath)), FALSE)

\* On a validly formatted volume, with no allocation or read failing, a
\* path whose components name exactly one file by full names (spec 103)
\* opens that file.
OpenComplete ==
    (opc = "done" /\ ~ofailed /\ ~mfailed /\ bpb.authored # 0
     /\ Cardinality(Targets(TRUE)) = 1) =>
        opened \in Targets(TRUE)
====
