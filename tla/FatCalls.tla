-------------------------------- MODULE FatCalls --------------------------------
(***************************************************************************)
(* The calls of the FAT32 library (kernel/fat32/fat32.c) on mounting,      *)
(* files, directories and removal, as operators on the record s of         *)
(* FatVolume; FatFile gives them callers.                                  *)
(*                                                                         *)
(* The unit a caller writes at place i of the file p is <<p, i>>, so that  *)
(* a unit found at a wrong place or in a wrong file is seen.               *)
(***************************************************************************)
EXTENDS FatDir

CONSTANT
  Units           \* units (of 512 / Units bytes) in a sector

ASSUME CallsAssumption == Units \in Nat \ {0}

NoSect == -1

--------------------------------------------------------------------------------
(* Mounting.                                                               *)

\* The boot sector of a FAT32 volume, or the partition table (0: not FAT32).
IsBpb(content) == content.t = "bpb"
PartLba(content, part) == IF content.t = "mbr" THEN content.part[part] ELSE 0

\* The volume's first sector, or -1.
Probe(d, part) ==
  LET lba == PartLba(d[0], part)
  IN  CASE IsBpb(d[0])            -> IF part = 0 THEN 0 ELSE -1
        [] ~IsBpb(d[0]) /\ lba = 0 -> -1
        [] OTHER                  -> IF IsBpb(d[lba]) THEN lba ELSE -1

\* 0xffffffff of the FsInfo sector; and what free_cnt becomes below zero.
Unknown == -1

\* The flags of the struct are left as they are.
MountFat(s, part) ==
  Bind(DevRead(s, 0), LAMBDA t :
    IF Probe(t.disk, part) # Lba THEN Fail(t, "NOFAT")
    ELSE Bind(DevRead(t, Lba), LAMBDA u : Bind(DevRead(u, InfoSect), LAMBDA w :
           LET info == w.disk[InfoSect]
           IN  IF info.t # "info" \/ Unknown \in {info.v[1], info.v[2]}
               THEN Fail(w, "NOFAT")
               ELSE [w EXCEPT !.mounted = TRUE, !.sect = 0,
                              !.fat_sect = FatSects(w.disk[Lba]),
                              !.last = info.v[1], !.free = info.v[2]])))

\* fat_umount takes the volume off the list before it writes what is left.
UmountFat(s) == IF ~s.mounted THEN Fail(s, "PARAM")
                ELSE SyncFs([s EXCEPT !.mounted = FALSE])

--------------------------------------------------------------------------------
(* Files. The handle at work is s.f.                                       *)

AsData(content) == IF content.t = "data" THEN content.v
                   ELSE [i \in 0 .. Units - 1 |-> <<>>]
ClustUnits == Units * SectPerClust

\* A seek past the last cluster appends to the chain, whatever the handle was
\* opened for.
RECURSIVE FollowChain(_, _)
FollowChain(s, n) ==
  IF n <= 0 THEN s
  ELSE Bind(GetFat(s, s.f.clust), LAMBDA t :
         IF t.fl \in {"bad", "free"} THEN Fail(t, "BROKEN")
         ELSE Bind(IF t.fl = "last" THEN StretchChain(t, t.f.clust)
                   ELSE [t EXCEPT !.clust = t.val], LAMBDA u :
                FollowChain([u EXCEPT !.f.clust = u.clust], n - 1)))

LoadSectHere(s, from) ==   \* mutant: written to the sector the seek goes to
  IF s.f.sect = from THEN s
  ELSE Bind(IF s.f.dirty
            THEN DevWrite(s, s.f.sect, [t |-> "data", v |-> s.f.buf]) ELSE s,
         LAMBDA t : Bind(DevRead([t EXCEPT !.f.dirty = FALSE], t.f.sect), LAMBDA u :
           [u EXCEPT !.f.buf = AsData(u.disk[u.f.sect])]))
\* The buffer is written back when the seek leaves its sector.
LoadSect(s, from) ==
  IF s.f.sect = from THEN s
  ELSE Bind(IF s.f.dirty
            THEN DevWrite(s, from, [t |-> "data", v |-> s.f.buf]) ELSE s,
         LAMBDA t : Bind(DevRead([t EXCEPT !.f.dirty = FALSE], t.f.sect), LAMBDA u :
           [u EXCEPT !.f.buf = AsData(u.disk[u.f.sect])]))

SeekForward(s, off) ==   \* mutant: a seek back goes on from where it is
  Bind(FollowChain(s, off \div ClustUnits - s.f.off \div ClustUnits), LAMBDA u :
    LoadSect([u EXCEPT !.f.off = off, !.f.sect =
                ClustToSect(u.f.clust) + ((off \div Units) % SectPerClust)],
             s.f.sect))
SeekTo(s, off) ==
  LET back == off \div ClustUnits < s.f.off \div ClustUnits
      t    == IF back THEN [s EXCEPT !.f.clust = s.f.sclust, !.f.off = 0,
                                     !.f.sect = ClustToSect(s.f.sclust)]
              ELSE s
  IN  IF off < 0 THEN Fail(s, "EOF")
      ELSE Bind(FollowChain(t, off \div ClustUnits - t.f.off \div ClustUnits),
             LAMBDA u :
               LoadSect([u EXCEPT !.f.off = off, !.f.sect =
                           ClustToSect(u.f.clust) + ((off \div Units) % SectPerClust)],
                        s.f.sect))

Least(a, b) == IF a < b THEN a ELSE b

RECURSIVE ReadUnits(_, _)
ReadUnits(s, len) ==
  IF len = 0 \/ s.f.off >= s.f.size THEN s
  ELSE LET idx == s.f.off % Units
           cnt == Least(len, Least(Units - idx, s.f.size - s.f.off))
           t   == [s EXCEPT !.got = @ \o [i \in 1 .. cnt |-> s.f.buf[idx + i - 1]]]
       IN  Bind(SeekTo(t, s.f.off + cnt), LAMBDA u : ReadUnits(u, len - cnt))

FileRead(s, len) ==
  IF ~s.f.read THEN Fail(s, "DENIED")
  ELSE ReadUnits([s EXCEPT !.f.acc = TRUE], len)

RECURSIVE WriteUnits(_, _, _)
WriteUnits(s, path, len) ==
  IF len = 0 THEN s
  ELSE LET off == s.f.off
           idx == off % Units
           cnt == Least(len, Units - idx)
           t   == [s EXCEPT !.f.dirty = TRUE, !.f.buf =
                     [i \in 0 .. Units - 1 |->
                        IF i \in idx .. idx + cnt - 1 THEN <<path, off - idx + i + 1>>
                        ELSE @[i]]]
       IN  Bind(SeekTo(t, off + cnt), LAMBDA u : WriteUnits(u, path, len - cnt))

\* The error of the loop is a variable of the loop's own: the call returns
\* FAT_ERR_NONE. s.lost keeps it for the properties.
FileWrite(s, path, len) ==
  IF ~s.f.write THEN Fail(s, "DENIED")
  ELSE LET t == WriteUnits([s EXCEPT !.f.mod = TRUE, !.f.acc = TRUE], path, len)
       IN  [t EXCEPT !.f.size = IF t.f.off > @ THEN t.f.off ELSE @,
                     !.err = "NONE", !.lost = t.err]

\* The buffer is written whether or not it was changed.
FileSync(s) ==
  Bind(DevWrite(s, s.f.sect, [t |-> "data", v |-> s.f.buf]), LAMBDA t :
    Bind(IF ~(t.f.acc \/ t.f.mod) THEN t
         ELSE Bind(UpdateBuf(t, t.f.dsect), LAMBDA u :
                LET e == Ents(u.buf)[u.f.didx]
                IN  [u EXCEPT
                      !.dirty = TRUE,
                      !.buf = [t |-> "dir", v |-> [Ents(u.buf) EXCEPT
                                ![u.f.didx] = IF u.f.mod /\ e.k = "sfn"
                                              THEN [e EXCEPT !.size = u.f.size]
                                              ELSE e]]]),
         LAMBDA u : Bind(SyncFs(u), LAMBDA w :
                      [w EXCEPT !.f.acc = FALSE, !.f.mod = FALSE])))

\* mode: the flags of the call. TRUNC empties the file and keeps its chain.
FileOpen(s, path, mode) ==
  LET found  == FollowPath(s, path)
      absent == found.err = "EOF"
      made   == CASE absent /\ "CREATE" \notin mode -> Fail(found, "DENIED")
                  [] absent /\ Len(found.rest) # 1  -> Fail(found, "PATH")
                  [] absent -> Bind(CreateChain([found EXCEPT !.err = "NONE"]),
                                    LAMBDA t : DirAdd(t, path[Len(path)], "arch",
                                                      t.clust))
                  [] OTHER  -> found
  IN  Bind(made, LAMBDA t :
        LET e     == Ent(t)
            trunc == e.size # 0 /\ "TRUNC" \in mode
            f     == [open |-> TRUE, path |-> path, dsect |-> t.dir.sect,
                      didx |-> t.dir.idx, sclust |-> e.clust, clust |-> e.clust,
                      sect |-> NoSect, off |-> 0, dirty |-> FALSE, acc |-> FALSE,
                      size |-> IF trunc THEN 0 ELSE e.size, mod |-> trunc,
                      read |-> "READ" \in mode, write |-> "WRITE" \in mode,
                      buf |-> [i \in 0 .. Units - 1 |-> <<>>]]
        IN  SeekTo([t EXCEPT !.f = f], IF "APPEND" \in mode THEN f.size ELSE 0))

--------------------------------------------------------------------------------
(* Directories.                                                            *)

DirCreate(s, path) ==
  LET found == FollowPath(s, path)
  IN  CASE found.err # "EOF"     -> found
        [] Len(found.rest) # 1   -> Fail(found, "PATH")
        [] OTHER ->
             LET parent == IF found.dir.sclust = RootClust THEN 0 ELSE found.dir.sclust
             IN  Bind(CreateChain([found EXCEPT !.err = "NONE"]), LAMBDA t :
                   Bind(ClustClear(t, t.clust, ZeroSect), LAMBDA u :
                     Bind(UpdateBuf(u, ClustToSect(t.clust)), LAMBDA w :
                       Bind(DirAdd([w EXCEPT !.dirty = TRUE,
                                     !.buf.v[0] = SfnEnt(".", "dir", t.clust, 0),
                                     !.buf.v[1] = SfnEnt("..", "dir", parent, 0)],
                                   path[Len(path)], "dir", t.clust),
                            SyncFs))))

\* The entry under the cursor or the first in use after it.
RECURSIVE DirRead(_)
DirRead(s) ==
  LET Take(t, name) == [t EXCEPT !.got = Append(@, <<name, Ent(t).size>>)]
  IN  Bind(UpdateBuf(s, s.dir.sect), LAMBDA t :
        LET e == Ent(t)
        IN  CASE e.k = "last" -> Fail(t, "EOF")
              [] e.k = "free" -> Bind(DirNext(t), DirRead)
              [] e.k = "lfn"  -> Bind(ParseLfnName(t), LAMBDA u :
                                   LET short == Ent(u)
                                   IN  IF short.k = "sfn" /\ Crc(short.name) = u.crc
                                       THEN Take(u, <<"long", u.pieces>>)
                                       ELSE Fail(u, "BROKEN"))
              [] OTHER        -> Take(t, <<"short", e.name>>))

DirOpen(s, path) ==
  Bind(FollowPath(s, path), LAMBDA t :
    IF DirAtRoot(t) THEN t
    ELSE Bind(UpdateBuf(t, t.dir.sect), LAMBDA u :
           IF Ent(u).attr = "dir" THEN Enter(u, Ent(u).clust) ELSE Fail(u, "PATH")))

\* How a caller lists a directory: read and step until the end.
RECURSIVE ReadAll(_)
ReadAll(s) == Bind(DirRead(s), LAMBDA t : Bind(DirNext(t), ReadAll))
List(s, path) == Bind(DirOpen(s, path), ReadAll)

Stat(s, path) == Bind(FollowPath(s, path), LAMBDA t : DirRead(MoveTo(t, t.loc)))

\* Only free entries up to the end mark, after "." and "..".
RECURSIVE AllFree(_)
AllFree(s) ==
  Bind(UpdateBuf(s, s.dir.sect), LAMBDA t :
    CASE Ent(t).k = "last" -> t
      [] Ent(t).k = "free" -> Bind(DirNext(t), AllFree)
      [] OTHER             -> Fail(t, "DENIED"))

\* The chain goes first, then the entries.
Unlink(s, path) ==
  Bind(FollowPath(s, path), LAMBDA t :
    LET e == Ent(t)
        checked == IF e.attr = "dir"
                   THEN Bind(DirAdvance(Enter(t, e.clust), 2), AllFree) ELSE t
    IN  IF DirAtRoot(t) \/ e.attr = "label" THEN Fail(t, "DENIED")
        ELSE Bind(checked, LAMBDA u :
               Bind(RemoveChain(u, e.clust), LAMBDA w :
                 Bind(RemoveEntries([w EXCEPT !.dir = t.dir]), SyncFs))))
================================================================================
