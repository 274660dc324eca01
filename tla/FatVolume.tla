------------------------------- MODULE FatVolume -------------------------------
(***************************************************************************)
(* The volume layer of the FAT32 library (kernel/fat32/fat32.c): the       *)
(* one-sector cache, the two copies of the allocation table, the FsInfo    *)
(* sector and the cluster chains.                                          *)
(*                                                                         *)
(* The library is called by one caller at a time, so a call is one step    *)
(* and its body is a chain of operators on a record s, the library's       *)
(* memory and the disk together:                                           *)
(*   disk, io            the sectors, and how many accesses the drive      *)
(*                       still answers in this call                        *)
(*   mounted, fat_sect, sect, buf, dirty, infoDirty, last, free            *)
(*                       the struct Fat                                    *)
(*   err                 the error the call is returning                   *)
(*   val, fl, clust      what get_fat and stretch_chain return             *)
(*   junk                what an uninitialised local holds in this call    *)
(*   beyond              a sector behind the volume's end was asked for    *)
(*   dir, loc, crc, pieces, rest, f, got, lost   used by the layers above  *)
(***************************************************************************)
EXTENDS Integers, Sequences, FiniteSets

CONSTANTS
  Lba,            \* first sector of the volume
  ResSects,       \* reserved sectors (boot sector, FsInfo)
  SectPerFat,     \* sectors of one copy of the table
  FatItems,       \* clusters per sector of the table (128)
  SectPerClust,
  RootClust

ASSUME VolumeAssumption ==
  /\ {Lba, ResSects} \subseteq Nat
  /\ {SectPerFat, FatItems, SectPerClust} \subseteq Nat \ {0}
  /\ RootClust \in 2 .. SectPerFat * FatItems - 1

\* Items of the table (the top nibble is ignored): 0 is free, 2.. a link.
FREE == 0
EOC  == -1
BAD  == -2

\* The clusters are as many as the table has room for, though the volume may
\* end before the last of them.
ClustCnt == SectPerFat * FatItems
Fat0     == Lba + ResSects
Fat1     == Lba + ResSects + SectPerFat
InfoSect == Lba + 1
DataSect == Lba + ResSects + 2 * SectPerFat

Clusters == 2 .. ClustCnt - 1

\* The active copy of the table, and the one that is kept like it (0: none).
\* Bit 7 of ext_flags turns the second on. (FAT32's turns it off.)
FatSects(bpb) == LET active == IF bpb.second THEN Fat1 ELSE Fat0
                     other  == IF bpb.second THEN Fat0 ELSE Fat1
                 IN  <<active, IF bpb.bit7 THEN other ELSE 0>>

SectToClust(sect) == (sect - DataSect) \div SectPerClust + 2
ClustToSect(clust) == (clust - 2) * SectPerClust + DataSect

\* The next cluster to try: past the end the search goes on with cluster 2.
NextClust(clust) == IF clust + 1 >= ClustCnt THEN 2 ELSE clust + 1

--------------------------------------------------------------------------------
\* "if (err) return err;" between two calls.
Bind(s, F(_)) == IF s.err = "NONE" THEN F(s) ELSE s
Fail(s, e)    == [s EXCEPT !.err = e]

\* ops.read and ops.write: false, and nothing moved, once the drive fails, and
\* for a sector behind the volume, which ends with the disk.
Behind(s, sect) == sect \notin DOMAIN s.disk
DevRead(s, sect) ==
  IF s.io <= 0 THEN [s EXCEPT !.err = "IO", !.io = -1]
  ELSE IF Behind(s, sect) THEN [s EXCEPT !.err = "IO", !.beyond = TRUE]
  ELSE [s EXCEPT !.io = @ - 1]
DevWrite(s, sect, content) ==
  IF s.io <= 0 THEN [s EXCEPT !.err = "IO", !.io = -1]
  ELSE IF Behind(s, sect) THEN [s EXCEPT !.err = "IO", !.beyond = TRUE]
  ELSE [s EXCEPT !.io = @ - 1, !.disk[sect] = content]

SyncBuf(s) ==
  IF ~s.dirty THEN s
  ELSE Bind(DevWrite(s, s.sect, s.buf), LAMBDA t : [t EXCEPT !.dirty = FALSE])

UpdateBuf(s, sect) ==
  IF s.sect = sect THEN s
  ELSE Bind(SyncBuf(s), LAMBDA t :
         Bind(DevRead(t, sect), LAMBDA u :
           [u EXCEPT !.buf = u.disk[sect], !.sect = sect]))

Info(last, free) == [t |-> "info", v |-> <<last, free>>]

SyncFs(s) ==
  Bind(SyncBuf(s), LAMBDA t :
    IF ~t.infoDirty THEN t
    ELSE Bind(UpdateBuf(t, InfoSect), LAMBDA u :
           Bind(SyncBuf([u EXCEPT !.dirty = TRUE, !.buf = Info(u.last, u.free)]),
                LAMBDA w : [w EXCEPT !.infoDirty = FALSE])))

--------------------------------------------------------------------------------
(* The table.                                                              *)

GetFat(s, clust) ==
  Bind(UpdateBuf(s, s.fat_sect[1] + clust \div FatItems), LAMBDA t :
    LET val == t.buf.v[clust % FatItems]
    IN  IF val = 1 \/ val >= ClustCnt THEN Fail(t, "BROKEN")
        ELSE [t EXCEPT !.val = val,
                       !.fl = CASE val = FREE -> "free"
                                [] val = BAD  -> "bad"
                                [] val = EOC  -> "last"
                                [] OTHER      -> "used"])

PutFat2(s, fat, clust, val) ==
  Bind(UpdateBuf(s, fat + clust \div FatItems), LAMBDA t :
    [t EXCEPT !.buf.v[clust % FatItems] = val, !.dirty = TRUE])

PutFat(s, clust, val) ==
  Bind(IF s.fat_sect[2] # 0 THEN PutFat2(s, s.fat_sect[2], clust, val) ELSE s,
       LAMBDA t : PutFat2(t, t.fat_sect[1], clust, val))

RECURSIVE RemoveFrom(_, _)
RemoveFrom(s, clust) ==
  Bind(GetFat(s, clust), LAMBDA t :
    IF t.fl \in {"bad", "free"} THEN Fail(t, "BROKEN")
    ELSE Bind(PutFat(t, clust, FREE), LAMBDA u :
           LET w == [u EXCEPT !.free = @ + 1]
           IN  IF t.fl = "last" THEN SyncFs(w) ELSE RemoveFrom(w, t.val)))

RemoveChain(s, clust) == RemoveFrom([s EXCEPT !.infoDirty = TRUE], clust)

\* The search from last_used. A cluster that cannot be read ends it with
\* "return flags": what the variable held, or, when nothing was read into it
\* yet, whatever is on the stack (s.junk: 0 for a byte that is not zero).
RECURSIVE Scan(_, _)
Scan(s, prev) ==
  LET clust == NextClust(prev)
      t     == GetFat(s, clust)
  IN  CASE clust = s.last    -> Fail(s, "FULL")
        [] t.err # "NONE"    -> Fail(t, IF t.fl = "unset" /\ t.junk # 0
                                        THEN "UNSET" ELSE "FLAGS")
        [] t.fl = "free"     -> [t EXCEPT !.clust = clust]
        [] OTHER             -> Scan(t, clust)

FindFreeOrLast(s, prev) ==   \* mutant: the end of a chain passes for free
  IF prev = 0 THEN Scan([s EXCEPT !.fl = "unset"], s.last)
  ELSE Bind(GetFat(s, NextClust(prev)), LAMBDA t :
         IF t.fl \in {"free", "last"} THEN [t EXCEPT !.clust = NextClust(prev)]
         ELSE Scan(t, t.last))
FindFreeNear(s, prev) ==   \* mutant: full when the next cluster is taken
  IF prev = 0 THEN Scan([s EXCEPT !.fl = "unset"], s.last)
  ELSE Bind(GetFat(s, NextClust(prev)), LAMBDA t :
         IF t.fl = "free" THEN [t EXCEPT !.clust = NextClust(prev)]
         ELSE Fail(t, "FULL"))
\* A free cluster: the one after prev if it is free, else the scan's.
FindFree(s, prev) ==
  IF prev = 0 THEN Scan([s EXCEPT !.fl = "unset"], s.last)
  ELSE Bind(GetFat(s, NextClust(prev)), LAMBDA t :
         IF t.fl = "free" THEN [t EXCEPT !.clust = NextClust(prev)]
         ELSE Scan(t, t.last))

StretchChainLinkFirst(s, prev) ==   \* mutant: linked before it is marked
  Bind(FindFree([s EXCEPT !.infoDirty = TRUE], prev), LAMBDA t :
    Bind(IF prev = 0 THEN t ELSE PutFat(t, prev, t.clust), LAMBDA u :
      Bind(PutFat(u, t.clust, EOC), LAMBDA w :
        SyncFs([w EXCEPT !.last = t.clust, !.free = @ - 1, !.clust = t.clust]))))
\* The new cluster is marked as an end before it is linked.
StretchChain(s, prev) ==
  LET found == FindFree([s EXCEPT !.infoDirty = TRUE], prev)
  IN  IF found.err = "UNSET"
      THEN [found EXCEPT !.err = "NONE", !.clust = found.junk]
      ELSE Bind(found, LAMBDA t :
             Bind(PutFat(t, t.clust, EOC), LAMBDA u :
               Bind(IF prev = 0 THEN u ELSE PutFat(u, prev, t.clust), LAMBDA w :
                 SyncFs([w EXCEPT !.last = t.clust, !.free = @ - 1,
                                  !.clust = t.clust]))))

CreateChain(s) == StretchChain(s, 0)

\* The sectors of a cluster are overwritten one after the other from the cache.
RECURSIVE ClearFrom(_, _, _, _)
ClearFrom(s, sect, n, zero) ==
  IF n = 0 THEN s
  ELSE Bind(SyncBuf([s EXCEPT !.buf = zero, !.dirty = TRUE, !.sect = sect]),
            LAMBDA t : ClearFrom(t, sect + 1, n - 1, zero))

ClustClear(s, clust, zero) ==
  Bind(SyncBuf(s), LAMBDA t :
    ClearFrom(t, ClustToSect(clust), SectPerClust, zero))
================================================================================
