--------------------------------- MODULE FatDir ---------------------------------
(***************************************************************************)
(* Directories of the FAT32 library: the cursor (struct Dir), the search   *)
(* for a name, paths, and the writing and removal of entries.              *)
(*                                                                         *)
(* A name is a member of Names. Its long form takes LfnCnt[n] entries      *)
(* before the short one, the i-th holding the fragment <<n, i>>; its short *)
(* form is SfnOf[n], which two names may share. The checksum that ties the *)
(* entries together is the short name itself.                              *)
(***************************************************************************)
EXTENDS FatVolume

CONSTANTS Names, LfnCnt, SfnOf,
          DirEnts         \* entries per sector (16)

ASSUME DirAssumption ==
  /\ LfnCnt \in [Names -> 1 .. 20]
  /\ DOMAIN SfnOf = Names
  /\ DirEnts \in Nat \ {0}

\* Entries: a free one, the end mark, a long-name fragment, a short entry.
LastEnt == [k |-> "last"]
FreeEnt == [k |-> "free"]

\* put_sfn_name, and the checksum of a short name (taken to be injective).
ShortName(n) == SfnOf[n]
Crc(short)   == short

\* put_lfn_name_frag.
LfnEnt(n, i) == [k |-> "lfn", frag |-> <<n, i>>, seq |-> i,
                 head |-> i = LfnCnt[n], crc |-> Crc(ShortName(n))]
SfnEnt(name, attr, clust, size) ==
  [k |-> "sfn", name |-> name, attr |-> attr, clust |-> clust, size |-> size]

IsFree(e) == e.k \in {"last", "free"}

ZeroSect == [t |-> "dir", v |-> [i \in 0 .. DirEnts - 1 |-> LastEnt]]

\* A sector that never was a directory's, read as one.
JunkEnt == SfnEnt("junk", "junk", FREE, 0)
Ents(content) ==
  IF content.t = "dir" THEN content.v ELSE [i \in 0 .. DirEnts - 1 |-> JunkEnt]

\* The entry under the cursor (dir_ptr): in whatever sector the cache holds.
Ent(s) == Ents(s.buf)[s.dir.idx]
PutEnt(s, e) ==
  Bind(UpdateBuf(s, s.dir.sect), LAMBDA t :
    [t EXCEPT !.buf = [t |-> "dir", v |-> [Ents(t.buf) EXCEPT ![t.dir.idx] = e]],
              !.dirty = TRUE])

--------------------------------------------------------------------------------
(* The cursor.                                                             *)

AtClust(s, clust) ==
  [s EXCEPT !.dir.clust = clust, !.dir.sect = ClustToSect(clust), !.dir.idx = 0]

Enter(s, clust) ==
  LET c == IF clust = 0 THEN RootClust ELSE clust
  IN  AtClust([s EXCEPT !.dir.sclust = c], c)

\* Rewind to an entry: its cluster is found from its sector.
MoveTo(s, at) ==
  [s EXCEPT !.dir.clust = SectToClust(at[1]), !.dir.sect = at[1], !.dir.idx = at[2]]
Here(s) == <<s.dir.sect, s.dir.idx>>

\* One entry forward. A cluster ends where the sector number is a multiple of
\* the cluster size, which supposes that the data area starts at one.
DirNext(s) ==
  IF s.dir.idx + 1 < DirEnts THEN [s EXCEPT !.dir.idx = @ + 1]
  ELSE LET t == [s EXCEPT !.dir.idx = 0, !.dir.sect = @ + 1]
       IN  IF t.dir.sect % SectPerClust # 0 THEN t
           ELSE Bind(GetFat(t, t.dir.clust), LAMBDA u :
                  CASE u.fl \in {"bad", "free"} -> Fail(u, "BROKEN")
                    [] u.fl = "last" -> Fail(u, "EOF")
                    [] OTHER -> AtClust(u, u.val))

RECURSIVE DirAdvance(_, _)
DirAdvance(s, cnt) ==
  IF cnt = 0 THEN s ELSE Bind(DirNext(s), LAMBDA t : DirAdvance(t, cnt - 1))

DirNextStretch(s) ==
  LET t == DirNext(s)
  IN  IF t.err # "EOF" THEN t
      ELSE Bind(StretchChain([t EXCEPT !.err = "NONE"], t.dir.clust), LAMBDA u :
             ClustClear(AtClust(u, u.clust), u.clust, ZeroSect))

DirAtRoot(s) == /\ s.dir.clust = RootClust
                /\ Here(s) = <<ClustToSect(RootClust), 0>>

--------------------------------------------------------------------------------
(* Names.                                                                  *)

Pieces(n) == [i \in 1 .. LfnCnt[n] |-> <<n, i>>]

\* As many entries as the head's number says, all with the head's checksum;
\* the cursor ends on the entry after them.
RECURSIVE TakePieces(_, _)
TakePieces(s, cnt) ==
  LET e == Ent(s)
  IN  CASE cnt = 0 -> s
        [] cnt > 0 /\ (e.k # "lfn" \/ (e.k = "lfn" /\ e.crc # s.crc)) ->
             Fail(s, "BROKEN")
        [] OTHER -> Bind(DirNext([s EXCEPT !.pieces = <<e.frag>> \o @]), LAMBDA t :
                      Bind(UpdateBuf(t, t.dir.sect), LAMBDA u :
                        TakePieces(u, cnt - 1)))

ParseLfnName(s) ==
  Bind(UpdateBuf(s, s.dir.sect), LAMBDA t :
    LET e == Ent(t)
    IN  IF ~e.head THEN Fail(t, "BROKEN")
        ELSE TakePieces([t EXCEPT !.crc = e.crc, !.pieces = <<>>], e.seq))

RECURSIVE Search(_, _)
Search(s, n) ==
  LET Next(t) == Bind(DirNext(t), LAMBDA u : Search(u, n))
  IN  Bind(UpdateBuf(s, s.dir.sect), LAMBDA t :
        LET e    == Ent(t)
            here == [t EXCEPT !.loc = Here(t)]
        IN  CASE e.k = "last" -> Fail(t, "EOF")
              [] e.k = "free" -> Next(t)
              [] e.k = "lfn"  ->
                   Bind(ParseLfnName(here), LAMBDA u :
                     LET short == Ent(u)
                     IN  CASE short.k # "sfn" -> Fail(u, "BROKEN")
                           [] short.k = "sfn" /\ Crc(short.name) # u.crc ->
                                Fail(u, "BROKEN")
                           [] short.k = "sfn" /\ u.pieces = Pieces(n) -> u
                           [] OTHER -> Next(u))
              [] OTHER -> IF e.name = ShortName(n) THEN here ELSE Next(here))

DirSearch(s, n) == Search(AtClust(s, s.dir.sclust), n)

\* follow_path: the last name is found, not entered. On failure s.rest is the
\* part of the path that was not found.
RECURSIVE Walk(_, _, _)
Walk(s, clust, enterable) ==
  CASE s.rest = <<>> -> s
    [] s.rest # <<>> /\ ~enterable -> Fail(s, "PATH")
    [] OTHER -> Bind(DirSearch(Enter(s, clust), Head(s.rest)), LAMBDA t :
                  Walk([t EXCEPT !.rest = Tail(@)], Ent(t).clust,
                       Ent(t).attr = "dir"))

FollowPath(s, path) ==
  IF ~s.mounted THEN Fail(s, "PATH")
  ELSE Walk([Enter(s, RootClust) EXCEPT !.rest = path], RootClust, TRUE)

--------------------------------------------------------------------------------
(* Writing and removing entries.                                           *)

\* From loc to the entry under the cursor.
RECURSIVE FreeTo(_, _)
FreeTo(s, end) ==
  Bind(PutEnt(s, FreeEnt), LAMBDA t :
    IF Here(t) = end THEN t ELSE Bind(DirNext(t), LAMBDA u : FreeTo(u, end)))

RemoveEntries(s) == FreeTo(MoveTo(s, s.loc), Here(s))

\* Find n free entries in a row; behind the end mark every entry counts as
\* free. The first is left in s.loc, s.eod says whether the end was met.
RECURSIVE FindRun(_, _, _)
FindRun(s, cnt, n) ==
  IF cnt = n THEN s
  ELSE Bind(UpdateBuf(s, s.dir.sect), LAMBDA t :
         LET e    == Ent(t)
             free == t.eod \/ IsFree(e)
             u    == [t EXCEPT !.loc = IF free /\ cnt = 0 THEN Here(t) ELSE @,
                               !.eod = @ \/ e.k = "last"]
         IN  Bind(DirNextStretch(u), LAMBDA w :
               FindRun(w, IF free THEN cnt + 1 ELSE 0, n)))

RECURSIVE PutLfns(_, _, _)
PutLfns(s, n, i) ==
  IF i = 0 THEN s
  ELSE Bind(PutEnt(s, LfnEnt(n, i)), LAMBDA t :
         Bind(DirNext(t), LAMBDA u : PutLfns(u, n, i - 1)))

DirAdd(s, n, attr, clust) ==
  Bind(FindRun([Enter(s, s.dir.sclust) EXCEPT !.eod = FALSE], 0, LfnCnt[n] + 1),
       LAMBDA t :
    Bind(IF t.eod THEN PutEnt(t, LastEnt) ELSE t, LAMBDA u :
      Bind(PutLfns(MoveTo(u, u.loc), n, LfnCnt[n]), LAMBDA w :
        PutEnt(w, SfnEnt(ShortName(n), attr, clust, 0)))))
================================================================================
