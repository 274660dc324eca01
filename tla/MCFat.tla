--------------------------------- MODULE MCFat ---------------------------------
(***************************************************************************)
(* A volume of six clusters, two sectors each, behind a partition table as  *)
(* the kernel's is, just formatted and nearly full; and as the repository's *)
(* own, without bit 7 of ext_flags and with an item more in the table than *)
(* the volume has clusters.                                                *)
(***************************************************************************)
EXTENDS FatFile, TLC

MCNames  == {"a", "bb", "d"}
MCLfnCnt == [n \in MCNames |-> IF n = "bb" THEN 2 ELSE 1]
MCSfnOf  == [n \in MCNames |-> IF n = "d" THEN "D" ELSE "AB"]

MCFilePaths == {<<"a">>, <<"d", "bb">>}
MCDirPaths  == {<<"d">>}

\* A disk with a table, given as a function on the clusters in use, and the
\* contents of data sectors.
DataFree == [t |-> "data", v |-> [i \in 0 .. Units - 1 |-> <<>>]]
\* The sectors of a directory's cluster, and of a file's.
DirAt(clust, entries) ==
  [s \in ClustToSect(clust) .. ClustToSect(clust + 1) - 1 |->
     [t |-> "dir", v |-> [i \in 0 .. DirEnts - 1 |->
        LET k == (s - ClustToSect(clust)) * DirEnts + i + 1
        IN  IF k \in DOMAIN entries THEN entries[k] ELSE LastEnt]]]
FileAt(clust, p) ==
  [s \in ClustToSect(clust) .. ClustToSect(clust + 1) - 1 |->
     [t |-> "data", v |-> [i \in 0 .. Units - 1 |->
        <<p, (s - ClustToSect(clust)) * Units + i + 1>>]]]

Flags(bit7, second) == [t |-> "bpb", bit7 |-> bit7, second |-> second]

DiskWith(bpb, slack, table, contents, last) ==
  LET TableSect(k) ==
        [t |-> "fat", v |-> [i \in 0 .. FatItems - 1 |->
           LET c == k * FatItems + i
           IN  IF c < 2 THEN EOC ELSE IF c \in DOMAIN table THEN table[c] ELSE FREE]]
  IN  [s \in 0 .. DataSect + (ClustCnt - 2 - slack) * SectPerClust - 1 |->
         CASE s = 0 -> [t |-> "mbr", part |-> [p \in 0 .. 3 |-> IF p = 1 THEN Lba ELSE 0]]
           [] s = Lba -> bpb
           [] s = InfoSect -> Info(last, ClustCnt - 2 - slack - Cardinality(DOMAIN table))
           [] s \in Fat0 .. Fat1 - 1 -> TableSect(s - Fat0)
           [] s \in Fat1 .. DataSect - 1 -> TableSect(s - Fat1)
           [] s \in DOMAIN contents -> contents[s]
           [] OTHER -> DataFree]

Label == SfnEnt("VOL", "label", 0, 0)

\* Just formatted.
Empty(bpb) == DiskWith(bpb, 0, 2 :> EOC, DirAt(2, <<Label>>), 2)

\* A directory with a file, and a file of exactly one cluster; two clusters
\* are free.
Used(bpb, slack) ==
  DiskWith(bpb, slack, 2 :> EOC @@ 3 :> EOC @@ 4 :> EOC @@ 5 :> EOC,
    DirAt(2, <<Label, LfnEnt("d", 1), SfnEnt("D", "dir", 3, 0),
                              LfnEnt("a", 1), SfnEnt("AB", "arch", 4, ClustUnits)>>)
    @@ DirAt(3, <<SfnEnt(".", "dir", 3, 0), SfnEnt("..", "dir", 0, 0),
                                 LfnEnt("bb", 2), LfnEnt("bb", 1),
                                 SfnEnt("AB", "arch", 5, 1)>>)
    @@ FileAt(4, <<"a">>)
    @@ FileAt(5, <<"d", "bb">>), 5)

MCDisks == {Empty(Flags(TRUE, FALSE)), Used(Flags(TRUE, TRUE), 0),
            Used(Flags(FALSE, FALSE), 1)}
================================================================================
