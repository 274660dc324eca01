--------------------------------- MODULE Loader ---------------------------------
(***************************************************************************)
(* The last stage of the boot loader (bootloader_partition/loader.aex):    *)
(* main reads /mnt/kernel.bin from the second partition with a FAT32       *)
(* library of its own and jumps into it.                                   *)
(*                                                                         *)
(* The library writes to no disk here: ops.write is fake(), which only     *)
(* says that it wrote, so that nothing depends on the dirty bit of the     *)
(* one-sector cache. What the library changes there is lost when another   *)
(* sector takes its place, and a read past the last cluster of the file    *)
(* still looks for a free cluster and "appends" it. ops.read never fails:  *)
(* ata_lba_read polls until the drive has data, so a sector the drive      *)
(* cannot read is polled for ever (error POLLING).                         *)
(*                                                                         *)
(* A call of the library is one step, or one for each turn of its loops.   *)
(* The body of a step is a chain of operators on the record fat of what    *)
(* the library and the handle hold:                                        *)
(*   name, sect, buf, info, last        the struct Fat                     *)
(*   dir, f, crc, pieces, cnt           the cursor, the handle, a long name *)
(*   err, val, fl, clust                what the functions return          *)
(*   got, len, off, links, ssect        the read and the seek at work      *)
(*   next                               where it goes on without an error  *)
(***************************************************************************)
EXTENDS Integers, Sequences

CONSTANTS
  Volumes,        \* disks to boot from: [disk, bad, root, chain, size], see below
  Lba, ResSects, SectPerFat, SectPerClust, RootClust,
  FatItems,       \* clusters per sector of the table (128)
  DirEnts,        \* entries per sector (16)
  Units           \* units (of 512 / Units bytes) in a sector

FREE == 0
EOC  == -1
BAD  == -2

\* What fat_mount derives from the boot sector of a volume of two tables that
\* uses the first.
ClustCnt == SectPerFat * FatItems
ActiveFat == Lba + ResSects
MirrorFat == Lba + ResSects + SectPerFat
InfoSect == Lba + 1
DataSect == Lba + ResSects + 2 * SectPerFat

Clusters == 2 .. ClustCnt - 1
FatSects == ActiveFat .. ActiveFat + SectPerFat - 1
ClustUnits == Units * SectPerClust

clust_to_sect(clust) == (clust - 2) * SectPerClust + DataSect
NextClust(clust) == IF clust + 1 >= ClustCnt THEN 2 ELSE clust + 1

(* A volume: the disk's sectors, those the drive cannot read, and for the  *)
(* properties the clusters of the root directory, those of kernel.bin, as  *)
(* far as its size needs them and the table has them, and its size.        *)
Link(v, clust) == v.disk[ActiveFat + clust \div FatItems].v[clust % FatItems]
Needed(v) == (v.size + ClustUnits - 1) \div ClustUnits
Follows(v, chain) == /\ chain \in Seq(Clusters)
                     /\ \A i \in 1 .. Len(chain) - 1 : Link(v, chain[i]) = chain[i + 1]

RootEntries(v) == 0 .. Len(v.root) * SectPerClust * DirEnts - 1
Entry(v, n) ==
  LET sect == n \div DirEnts
  IN  v.disk[clust_to_sect(v.root[sect \div SectPerClust + 1])
               + (sect % SectPerClust)].v[n % DirEnts]

\* The entries that open takes for kernel.bin's: of its short name, or one a
\* long name goes with.
Named(v, n) ==
  /\ Entry(v, n).k = "sfn"
  /\ \/ Entry(v, n).name = "kernel"
     \/ \E m \in RootEntries(v) : /\ Entry(v, m).k = "lfn" /\ Entry(v, m).frag = "kernel"
                                  /\ Entry(v, m).crc = Entry(v, n).name

IsVolume(v) ==
  /\ v.size \in Nat
  /\ \A c \in 0 .. ClustCnt - 1 : Link(v, c) \in Int /\ Link(v, c) >= BAD
  /\ Follows(v, v.root) /\ v.root # <<>> /\ v.root[1] = RootClust
  /\ Link(v, v.root[Len(v.root)]) \notin Clusters
  /\ Follows(v, v.chain) /\ Len(v.chain) <= Needed(v)
  /\ v.chain # <<>> /\ Len(v.chain) < Needed(v) =>
       Link(v, v.chain[Len(v.chain)]) \notin Clusters
  /\ \A n \in RootEntries(v) :
       /\ Entry(v, n).k \in {"last", "free", "sfn", "lfn"}
       /\ Entry(v, n).k = "lfn" => Entry(v, n).seq \in Nat
       /\ Named(v, n) => /\ Entry(v, n).size = v.size
                         /\ v.chain # <<>> => Entry(v, n).clust = v.chain[1]

ASSUME BootAssumption ==
  /\ {Lba, SectPerFat, FatItems, SectPerClust, Units, DirEnts} \subseteq Nat \ {0}
  /\ ResSects \in Nat /\ ResSects > 1
  /\ DataSect % SectPerClust = 0   \* dir_next supposes it
  /\ \A v \in Volumes : IsVolume(v)

VARIABLES
  volume,   \* the disk
  stage,    \* where main is, or how it ended
  fat,      \* the library, as above
  memory    \* the units copied to 0x10000 onwards, <<sector, place>> each

loaderVars == <<volume, stage, fat, memory>>

disk == volume.disk

--------------------------------------------------------------------------------
\* "if (err) return err;" between two calls.
Then(r, F(_)) == IF r.err = "NONE" THEN F(r) ELSE r
Fails(r, e)   == [r EXCEPT !.err = e]

\* ata_lba_read, through read().
ReadDisk(r, sect) == IF sect \in volume.bad THEN Fails(r, "POLLING") ELSE r

update_buf(r, sect) ==
  IF r.sect = sect THEN r
  ELSE Then(ReadDisk(r, sect), LAMBDA t : [t EXCEPT !.buf = disk[sect], !.sect = sect])

sync_fs(r) ==
  IF r.info = "clean" THEN r
  ELSE Then(update_buf(r, InfoSect), LAMBDA t :
         [t EXCEPT !.buf.next_free = t.last, !.info = "clean"])

get_fat(r, clust) ==
  Then(update_buf(r, ActiveFat + clust \div FatItems), LAMBDA t :
    LET val == t.buf.v[clust % FatItems]
    IN  IF val = 1 \/ val >= ClustCnt THEN Fails(t, "BROKEN")
        ELSE [t EXCEPT !.val = val,
                       !.fl = CASE val = FREE -> "free"
                                [] val = BAD  -> "bad"
                                [] val = EOC  -> "last"
                                [] OTHER      -> "used"])

put_fat2(r, table, clust, val) ==
  Then(update_buf(r, table + clust \div FatItems),
       LAMBDA t : [t EXCEPT !.buf.v[clust % FatItems] = val])

\* Bit 7 of ext_flags is taken for "keep both tables", the inverse of what it means.
Mirrored == disk[Lba].bit7 = "set"
put_fat(r, clust, val) ==
  IF Mirrored THEN Then(put_fat2(r, MirrorFat, clust, val),
                        LAMBDA t : put_fat2(t, ActiveFat, clust, val))
  ELSE put_fat2(r, ActiveFat, clust, val)

\* Only ever called to stretch the chain of the file, whose last cluster the
\* handle is at: the cluster after it, or the next free one after last_used. A
\* handle at cluster 0 has no chain: the free cluster is linked to nothing.
AddLink(r, clust) == IF r.f.clust = 0 THEN r ELSE put_fat(r, r.f.clust, clust)
LinkIn(r, clust) ==
  Then(put_fat(r, clust, EOC), LAMBDA t :
    Then(AddLink(t, clust), LAMBDA u :
      Then(sync_fs([u EXCEPT !.last = clust]), LAMBDA w :
        [w EXCEPT !.f.clust = clust, !.links = @ - 1, !.next = "follow"])))

BeginScan(r) == [r EXCEPT !.clust = r.last, !.next = "scan"]
stretch_chain(r) ==
  LET s == [r EXCEPT !.info = "dirty"]
  IN  IF s.f.clust = 0 THEN BeginScan(s)
      ELSE Then(get_fat(s, NextClust(s.f.clust)), LAMBDA t :
             IF t.fl = "free" THEN LinkIn(t, NextClust(t.f.clust)) ELSE BeginScan(t))

\* A turn of its search. Where an entry cannot be read the error is the flags
\* of the entry before it, which are never zero. It does not end on a full
\* table when last_used is no cluster of it.
ScanTurn(r) ==
  LET clust == NextClust(r.clust)
      t     == get_fat(r, clust)
  IN  CASE clust = r.last                                   -> Fails(r, "FULL")
        [] clust # r.last /\ t.err = "BROKEN"               -> Fails(t, "FLAGS")
        [] clust # r.last /\ t.err = "NONE" /\ t.fl = "free" -> LinkIn(t, clust)
        [] OTHER                                            -> [t EXCEPT !.clust = clust]

--------------------------------------------------------------------------------
(* The root directory.                                                     *)

Ent(r) == r.buf.v[r.dir.idx]

dir_at_clust(r, clust) ==
  [r EXCEPT !.dir = [clust |-> clust, sect |-> clust_to_sect(clust), idx |-> 0]]

dir_next_by_sector(r) ==   \* mutant: every sector ends a cluster
  IF r.dir.idx + 1 < DirEnts THEN [r EXCEPT !.dir.idx = @ + 1]
  ELSE Then(get_fat(r, r.dir.clust), LAMBDA u :
         IF u.fl = "last" THEN Fails(u, "EOF") ELSE dir_at_clust(u, u.val))
\* One entry forward; a cluster ends where the sector number is a multiple of
\* the cluster size.
dir_next(r) ==
  IF r.dir.idx + 1 < DirEnts THEN [r EXCEPT !.dir.idx = @ + 1]
  ELSE LET t == [r EXCEPT !.dir.idx = 0, !.dir.sect = @ + 1]
       IN  IF t.dir.sect % SectPerClust # 0 THEN t
           ELSE Then(get_fat(t, t.dir.clust), LAMBDA u :
                  CASE u.fl \in {"bad", "free"} -> Fails(u, "BROKEN")
                    [] u.fl = "last" -> Fails(u, "EOF")
                    [] OTHER -> dir_at_clust(u, u.val))

MoveTo(r) ==
  LET sect == clust_to_sect(r.f.clust) + ((r.off \div Units) % SectPerClust)
      t    == [r EXCEPT !.f.off = r.off, !.f.sect = sect]
  IN  IF sect = r.ssect THEN t
      ELSE Then(ReadDisk(t, sect), LAMBDA u : [u EXCEPT !.f.buf = sect])

\* The rest of fat_file_open, on the entry found by name; that it is a file is
\* not asked.
Found(r) ==
  LET e == Ent(r)
  IN  MoveTo([r EXCEPT !.f = [dsect |-> r.dir.sect, sclust |-> e.clust, clust |-> e.clust,
                              sect |-> -1, off |-> 0, size |-> e.size, acc |-> "no",
                              buf |-> -1],
                       !.off = 0, !.ssect = -1, !.next = "read"])

\* A turn of dir_search; the name is kernel.bin.
dir_search(r) ==
  Then(update_buf(r, r.dir.sect), LAMBDA t :
    CASE Ent(t).k = "last" -> Fails(t, "EOF")
      [] Ent(t).k = "free" -> dir_next(t)
      [] Ent(t).k = "sfn"  -> IF Ent(t).name = "kernel" THEN Found(t) ELSE dir_next(t)
      [] Ent(t).k = "lfn"  ->
           IF ~Ent(t).head \/ Ent(t).seq > 20 THEN Fails(t, "BROKEN")
           ELSE [t EXCEPT !.crc = Ent(t).crc, !.pieces = <<>>, !.cnt = Ent(t).seq,
                          !.next = "fragments"])

\* A turn of parse_lfn_name: the fragments of a long name, last one first.
Fragment(r) ==
  IF Ent(r).k # "lfn" \/ Ent(r).crc # r.crc THEN Fails(r, "BROKEN")
  ELSE Then(dir_next([r EXCEPT !.pieces = <<Ent(r).frag>> \o @, !.cnt = @ - 1]),
            LAMBDA t : update_buf(t, t.dir.sect))

\* The rest of dir_search's turn, on the entry that follows them.
LongName(r) ==
  CASE Ent(r).k # "sfn" -> Fails(r, "BROKEN")
    [] Ent(r).k = "sfn" /\ Ent(r).name # r.crc -> Fails(r, "BROKEN")
    [] Ent(r).k = "sfn" /\ Ent(r).name = r.crc ->
         IF r.pieces = <<"kernel">> THEN Found(r) ELSE dir_next([r EXCEPT !.next = "search"])

\* "/mnt/kernel.bin": one name below the root of the one mounted volume.
follow_path(r) ==
  IF r.name # "mnt" THEN Fails(r, "PATH")
  ELSE [dir_at_clust(r, RootClust) EXCEPT !.next = "search"]

--------------------------------------------------------------------------------
(* Mounting.                                                               *)

get_part_lba(content, part) == IF content.t = "mbr" THEN content.part[part] ELSE 0
check_fat(content) == content.t = "bpb"

probe(r, part) ==
  Then(ReadDisk(r, 0), LAMBDA t :
    LET lba == get_part_lba(disk[0], part)
    IN  CASE check_fat(disk[0]) -> IF part = 0 THEN t ELSE Fails(t, "NOFAT")
          [] ~check_fat(disk[0]) /\ lba = 0 -> Fails(t, "NOFAT")
          [] OTHER -> Then(ReadDisk(t, lba), LAMBDA u :
                        IF check_fat(disk[lba]) THEN u ELSE Fails(u, "NOFAT")))

\* An FsInfo that does not know its free clusters is refused.
fat_mount(r, part) ==
  Then(probe(r, part), LAMBDA t :
    Then(ReadDisk(t, InfoSect), LAMBDA u :
      IF disk[InfoSect].t # "info" THEN Fails(u, "NOFAT")
      ELSE [u EXCEPT !.name = "mnt", !.sect = 0, !.last = disk[InfoSect].next_free]))

fat_umount(r) ==
  IF r.name # "mnt" THEN Fails(r, "PARAM") ELSE sync_fs([r EXCEPT !.name = "none"])

--------------------------------------------------------------------------------
(* Reading and closing the file.                                           *)

Least(a, b) == IF a < b THEN a ELSE b

fat_file_read(r, len) ==
  [r EXCEPT !.got = <<>>, !.len = len, !.f.acc = "yes", !.next = "copy"]

\* A turn of it, down to the loop of fat_file_seek over the links to follow.
CopyTurn(r) ==
  LET idx  == r.f.off % Units
      n    == Least(r.len, Least(Units - idx, r.f.size - r.f.off))
      off  == r.f.off + n
      back == off \div ClustUnits < r.f.off \div ClustUnits
      t    == [r EXCEPT !.got = @ \o [i \in 1 .. n |-> <<r.f.buf, idx + i - 1>>],
                        !.len = @ - n, !.off = off, !.ssect = r.f.sect, !.next = "follow"]
      u    == IF back THEN [t EXCEPT !.f.clust = t.f.sclust, !.f.off = 0,
                                     !.f.sect = clust_to_sect(t.f.sclust)]
              ELSE t
  IN  [u EXCEPT !.links = off \div ClustUnits - u.f.off \div ClustUnits]

\* A turn of that loop.
FollowLink(r) ==
  Then(get_fat(r, r.f.clust), LAMBDA t :
    CASE t.fl \in {"bad", "free"} -> Fails(t, "BROKEN")
      [] t.fl = "last" -> stretch_chain(t)
      [] OTHER -> [t EXCEPT !.f.clust = t.val, !.links = @ - 1])

\* The handle is never dirty: nothing writes to it.
fat_file_close(r) ==
  Then(IF r.f.acc = "no" THEN r ELSE update_buf(r, r.f.dsect), LAMBDA t :
    Then(sync_fs(t), LAMBDA u : [u EXCEPT !.f.acc = "no"]))

--------------------------------------------------------------------------------
(* main.                                                                   *)

Fresh == [err |-> "NONE", name |-> "none", sect |-> 0, buf |-> [t |-> "none"],
          info |-> "clean", last |-> 0, val |-> 0, fl |-> "unset", clust |-> 0,
          dir |-> [clust |-> 0, sect |-> 0, idx |-> 0],
          f |-> [dsect |-> 0, sclust |-> 0, clust |-> 0, sect |-> 0, off |-> 0,
                 size |-> 0, acc |-> "no", buf |-> 0],
          crc |-> "none", pieces |-> <<>>, cnt |-> 0,
          got |-> <<>>, len |-> 0, off |-> 0, links |-> 0, ssect |-> 0, next |-> "mount"]

LoaderInit == /\ volume \in Volumes
              /\ stage = "probe"
              /\ fat = Fresh
              /\ memory = <<>>

\* A polled read never returns; otherwise main goes on, or stops and says so.
Goes(r, failed) ==
  /\ fat' = r
  /\ stage' = CASE r.err = "NONE"    -> r.next
                [] r.err = "POLLING" -> "polling"
                [] OTHER             -> failed
  /\ UNCHANGED <<volume, memory>>

Probe == stage = "probe" /\ Goes([probe(fat, 1) EXCEPT !.next = "mount"], "failed probe")
Mount == stage = "mount" /\ Goes([fat_mount(fat, 1) EXCEPT !.next = "open"], "failed mount")
Open  == stage = "open" /\ Goes(follow_path(fat), "no file")

Search        == stage = "search" /\ Goes(dir_search(fat), "no file")
ParseFragment == stage = "fragments" /\ fat.cnt > 0 /\ Goes(Fragment(fat), "no file")
CompareName   == stage = "fragments" /\ fat.cnt = 0 /\ Goes(LongName(fat), "no file")

Read == /\ stage = "read"
        /\ fat' = fat_file_read(fat, Units)
        /\ stage' = "copy"
        /\ UNCHANGED <<volume, memory>>

ReturnsByBreak(r) ==   \* mutant: an error ends the loop as a short read does
  /\ fat' = r
  /\ memory' = memory \o r.got
  /\ stage' = IF Len(r.got) < Units \/ r.err # "NONE" THEN "close" ELSE "read"
  /\ UNCHANGED volume
\* What main does with what fat_file_read returns. The error of a read that
\* gave 512 bytes is seen in the next round; the one of a shorter read never.
Returns(r) ==
  /\ fat' = r
  /\ memory' = memory \o r.got
  /\ stage' = CASE Len(r.got) < Units -> "close"
                [] Len(r.got) = Units /\ r.err # "NONE" -> "failed read"
                [] OTHER -> "read"
  /\ UNCHANGED volume

\* A turn of fat_file_seek: it goes on, has its error returned, or polls for ever.
Continues(r) == IF r.err \in {"NONE", "POLLING"} THEN Goes(r, "failed read") ELSE Returns(r)

Copying == fat.len > 0 /\ fat.f.off < fat.f.size

Copy       == stage = "copy" /\ Copying /\ Goes(CopyTurn(fat), "failed read")
ReturnRead == stage = "copy" /\ ~Copying /\ Returns(fat)
Follow     == stage = "follow" /\ fat.links > 0 /\ Continues(FollowLink(fat))
Scan       == stage = "scan" /\ Continues(ScanTurn(fat))
Arrive     == /\ stage = "follow" /\ fat.links = 0
              /\ Goes(MoveTo([fat EXCEPT !.next = "copy"]), "failed read")

\* What close and umount return is not looked at; umount follows in any case.
Close ==
  LET closed == fat_file_close([fat EXCEPT !.err = "NONE", !.next = "kernel"])
  IN  /\ stage = "close"
      /\ Goes(IF closed.err = "POLLING" THEN closed
              ELSE fat_umount([closed EXCEPT !.err = "NONE"]), "kernel")

LoaderNext == \/ Probe \/ Mount \/ Open \/ Search \/ ParseFragment \/ CompareName
              \/ Read \/ Copy \/ Follow \/ Scan \/ Arrive \/ ReturnRead \/ Close

LoaderSpec == LoaderInit /\ [][LoaderNext]_loaderVars

--------------------------------------------------------------------------------
(* Properties.                                                             *)

\* The clusters the file's size needs, or as many as the table has of them.
Whole    == Len(volume.chain) = Needed(volume)
CutShort == /\ ~Whole /\ volume.chain # <<>>
            /\ Link(volume, volume.chain[Len(volume.chain)]) = EOC

\* The units of the file that its clusters hold.
Content == [i \in 1 .. Least(volume.size, Len(volume.chain) * ClustUnits) |->
              <<clust_to_sect(volume.chain[(i - 1) \div ClustUnits + 1]) +
                  (((i - 1) \div Units) % SectPerClust), (i - 1) % Units>>]

(* main.c:82 jumps to 0x10000: by then as many units are there as          *)
(* kernel.bin has, and they begin with those its clusters hold, in order.  *)
(* A damaged chain never gets that far; but one that is closed before the  *)
(* file's end is taken for a file that grows, and what its missing part    *)
(* loads is a free cluster. An empty file, or a directory of that name, is *)
(* jumped into with nothing loaded; so is whatever lies at the first       *)
(* cluster of an entry that names none of the volume.                      *)
KernelIsWhole ==
  stage = "kernel" /\ (volume.chain # <<>> \/ volume.size = 0) =>
    /\ Whole \/ CutShort
    /\ Len(memory) = volume.size
    /\ SubSeq(memory, 1, Len(Content)) = Content

\* The entries before the kernel's are well formed: a long name begins with
\* its last fragment and is complete, the short name after it.
LongNameAt(v, n, end) ==
  LET e == Entry(v, n)
  IN  /\ e.head /\ e.seq \in 1 .. 20 /\ n + e.seq <= end
      /\ \A i \in 1 .. e.seq - 1 : Entry(v, n + i).k = "lfn" /\ Entry(v, n + i).crc = e.crc
      /\ Entry(v, n + e.seq).k = "sfn" /\ Entry(v, n + e.seq).name = e.crc
Begins(v, n) == n = 0 \/ Entry(v, n - 1).k # "lfn"
ListedAt(v, n) ==
  /\ \/ Begins(v, n) /\ Entry(v, n).k = "sfn" /\ Entry(v, n).name = "kernel"
     \/ /\ n > 0 /\ Begins(v, n - 1) /\ Entry(v, n - 1).k = "lfn"
        /\ Entry(v, n - 1).seq = 1 /\ Entry(v, n - 1).frag = "kernel"
  /\ \A m \in 0 .. n - 1 :
       /\ Entry(v, m).k # "last"
       /\ Begins(v, m) /\ Entry(v, m).k = "lfn" => LongNameAt(v, m, n)

(* Nothing stops the boot from a volume that lists the file and holds the  *)
(* whole of it, unless the file ends exactly at the end of a cluster: the  *)
(* last read then asks for a cluster more, and a full or damaged table     *)
(* stops the boot although every byte was read (fat32.c:1726, main.c:67).  *)
Bootable == /\ disk[0].t = "mbr" /\ disk[0].part[1] = Lba /\ disk[Lba].t = "bpb"
            /\ disk[InfoSect].t = "info"
            /\ volume.bad = {}
            /\ \E n \in RootEntries(volume) : ListedAt(volume, n)
            /\ Whole /\ volume.size % ClustUnits # 0
Stopped == {"failed probe", "failed mount", "no file", "failed read", "polling"}
WholeFileBoots == stage \in Stopped => ~Bootable
================================================================================
