-------------------------------- MODULE FatFile --------------------------------
(***************************************************************************)
(* The FAT32 library as its callers see it: mounting, files, directories,  *)
(* removal, and what a drive that fails or a power cut leaves behind.      *)
(*                                                                         *)
(* A call is one step. The drive may stop answering at any access of a     *)
(* call (io runs out): the call then returns FAT_ERR_IO where it is, and   *)
(* the machine may lose power there, which loses the library's memory.     *)
(*                                                                         *)
(* The unit a caller writes at place i of the file p is <<p, i>>, so that  *)
(* a unit found at a wrong place or in a wrong file is seen.               *)
(***************************************************************************)
EXTENDS FatCalls

CONSTANTS
  Handles,        \* the struct Files of the callers
  FilePaths, DirPaths,  \* the paths callers name files and directories by
  Disks,          \* disks as they were formatted and filled elsewhere
  Junk,           \* clusters an uninitialised local may name
  MaxSize,        \* bound: units of a file
  MaxLen,         \* bound: units of one read or write
  MaxCalls,       \* bound: calls of the library
  MaxIO           \* bound: accesses before the drive fails, when it does

ASSUME FileAssumption ==
  /\ {MaxSize, MaxLen, MaxCalls, MaxIO} \subseteq Nat
  /\ Junk \subseteq Clusters
  /\ FilePaths \cap DirPaths = {}

VARIABLES
  disk,       \* sector number -> content
  fat,        \* the struct Fat
  file,       \* handle -> struct File
  res,        \* what the last call returned: its error, its data
  calls,      \* how many calls were made
  store,      \* what is on the volume, for the properties (StoreOf)
  fault       \* "none", or how the first failure was met: "io", "power", or
              \* "end", a sector behind the end of the volume

vars == <<disk, fat, file, res, calls, store, fault>>

Closed == [open |-> FALSE]

--------------------------------------------------------------------------------
(* What is on the volume, read without the library's search: the cache     *)
(* shadows the disk, an open handle shadows its entry and its sector.      *)

View(v, sect) == IF v.fat.mounted /\ v.fat.sect = sect THEN v.fat.buf ELSE v.disk[sect]
ItemIn(v, table, c) == View(v, table + c \div FatItems).v[c % FatItems]
ActiveOf(v) == FatSects(v.disk[Lba])[1]
OtherOf(v)  == FatSects(v.disk[Lba])[2]
Item(v, c)  == ItemIn(v, ActiveOf(v), c)

\* The items of the table that have no cluster on the volume.
Slack(v) == {c \in Clusters : ClustToSect(c + 1) - 1 \notin DOMAIN v.disk}
FreeItems(v) == {c \in Clusters : Item(v, c) = FREE}

\* The sectors of the chain from cluster c on; seen stops a chain that loops.
RECURSIVE SectsOf(_, _, _)
SectsOf(v, c, seen) ==
  IF c \notin Clusters \ (seen \cup Slack(v)) THEN <<>>
  ELSE [k \in 1 .. SectPerClust |-> ClustToSect(c) + k - 1]
         \o SectsOf(v, Item(v, c), seen \cup {c})

RECURSIVE EntsOf(_, _)
EntsOf(v, sects) ==
  IF sects = <<>> THEN <<>>
  ELSE [i \in 1 .. DirEnts |-> Ents(View(v, Head(sects)))[i - 1]]
         \o EntsOf(v, Tail(sects))

\* The entries that name a file or a directory, before the end mark.
InUse(ents) ==
  LET Ended(i) == \E j \in 1 .. i : ents[j].k = "last"
  IN  {[name |-> IF i > 1 /\ ents[i - 1].k = "lfn" THEN ents[i - 1].frag[1]
                 ELSE ents[i].name, e |-> ents[i]] :
         i \in {j \in DOMAIN ents : /\ ~Ended(j)
                                    /\ ents[j].k = "sfn"
                                    /\ ents[j].name \notin {".", ".."}
                                    /\ ents[j].attr # "label"}}
Listed(v, c) == InUse(EntsOf(v, SectsOf(v, c, {})))

\* All paths of one and two names, with their entries.
AndBelow(v, top) ==
  top \cup UNION {{[path |-> Append(d.path, x.name), e |-> x.e] :
                     x \in Listed(v, d.e.clust)} :
                  d \in {y \in top : y.e.attr = "dir"}}
Tree(v) == AndBelow(v, {[path |-> <<x.name>>, e |-> x.e] : x \in Listed(v, RootClust)})

\* The units of a file; a sector a handle stands in is in the handle's buffer.
UnitAt(v, open, sects, i) ==
  LET k == (i - 1) \div Units + 1
  IN  CASE k \notin DOMAIN sects -> <<>>
        [] \E h \in open : k \in DOMAIN sects /\ v.file[h].sect = sects[k] ->
             v.file[CHOOSE h \in open : TRUE].buf[(i - 1) % Units]
        [] OTHER -> AsData(View(v, sects[k]))[(i - 1) % Units]
Marked(v, path, open, sects, size) ==
  SubSeq([i \in 1 .. size |->
            IF UnitAt(v, open, sects, i) = <<path, i>> THEN "own" ELSE "gap"], 1, size)
Content(v, path, e) ==
  LET open == {h \in Handles : v.file[h].open /\ v.file[h].path = path}
  IN  Marked(v, path, open, SectsOf(v, e.clust, {}),
             IF open = {} THEN e.size ELSE v.file[CHOOSE h \in open : TRUE].size)

Contents(v, tree) ==
  [p \in {x.path : x \in tree} |->
     LET e == (CHOOSE x \in tree : x.path = p).e
     IN  [dir  |-> e.attr = "dir",
          data |-> IF e.attr = "dir" THEN <<>> ELSE Content(v, p, e)]]
StoreOf(v) == Contents(v, Tree(v))

Now == [disk |-> disk, fat |-> fat, file |-> file]
Store == INSTANCE FileStore WITH Path <- FilePaths \cup DirPaths

--------------------------------------------------------------------------------
(* Calls.                                                                  *)

Plenty == 1000
Memory0 == [mounted |-> FALSE, fat_sect |-> <<0, 0>>, sect |-> 0, buf |-> ZeroSect, dirty |-> FALSE,
            infoDirty |-> FALSE, last |-> 0, free |-> 0]
NoQuery == [op |-> "none", arg |-> <<>>]
NoResult == [query |-> NoQuery, err |-> "NONE", lost |-> "NONE", got |-> <<>>]

Lib(f, io, junk) ==
  [disk |-> disk, io |-> io, junk |-> junk, beyond |-> FALSE, f |-> f,
   mounted |-> fat.mounted, fat_sect |-> fat.fat_sect, sect |-> fat.sect, buf |-> fat.buf,
   dirty |-> fat.dirty, infoDirty |-> fat.infoDirty,
   last |-> fat.last, free |-> fat.free,
   err |-> "NONE", lost |-> "NONE", val |-> 0, fl |-> "unset", clust |-> 0,
   dir |-> [sclust |-> 0, clust |-> 0, sect |-> 0, idx |-> 0],
   loc |-> <<0, 0>>, eod |-> FALSE, crc |-> "", pieces |-> <<>>, rest |-> <<>>,
   got |-> <<>>]

MemoryOf(s) == [mounted |-> s.mounted, fat_sect |-> s.fat_sect, sect |-> s.sect, buf |-> s.buf,
                dirty |-> s.dirty, infoDirty |-> s.infoDirty,
                last |-> s.last, free |-> s.free]

Failed(s) == s.io < 0

OnDisk(d) == [disk |-> d, fat |-> Memory0, file |-> [h \in Handles |-> Closed]]

\* The call F, q, of a caller whose handle is h, which holds f before it. Keep
\* says what the handle holds after the call. At most one call fails; the
\* machine then goes on with the error or loses power.
Call(q, h, f, F(_), Keep(_)) ==
  /\ calls < MaxCalls /\ calls' = calls + 1
  /\ fault # "power"
  /\ \E io \in {Plenty} \cup (IF fault = "none" THEN 0 .. MaxIO ELSE {}),
        junk \in {0} \cup Junk :
       \E s \in {F(Lib(f, io, junk))} :
         /\ (io # Plenty) = Failed(s)
         /\ junk # 0 => Failed(s)
         /\ disk' = s.disk
         /\ \/ /\ fault' = IF Failed(s) THEN "io"
                          ELSE IF s.beyond /\ fault = "none" THEN "end" ELSE fault
               /\ fat' = MemoryOf(s)
               /\ file' = [file EXCEPT ![h] = Keep(s)]
               /\ res' = [query |-> IF q.op \in {"read", "list"} \/ fault' # fault THEN q
                                    ELSE NoQuery,
                          err |-> s.err, lost |-> s.lost,
                          got |-> IF q.op \in {"read", "list"} THEN s.got ELSE <<>>]
               /\ store' = IF fault' # "none" THEN store
                           ELSE StoreOf([disk |-> disk', fat |-> fat', file |-> file'])
            \/ /\ Failed(s)
               /\ fault' = "power"
               /\ fat' = Memory0
               /\ file' = [i \in Handles |-> Closed]
               /\ res' = [NoResult EXCEPT !.query = q]
               /\ store' = StoreOf(OnDisk(disk'))

Query(op, arg) == [op |-> op, arg |-> arg]
SomeFile == CHOOSE h \in Handles : TRUE

\* A call that needs no handle, and one on an open handle, which goes on with
\* what the call left in it.
CallPath(q, F(_)) == Call(q, SomeFile, file[SomeFile], F, LAMBDA s : s.f)
CallFile(q, h, F(_)) ==
  file[h].open /\ fat.mounted /\ Call(q, h, file[h], F, LAMBDA s : s.f)

IsOpen(path) == \E h \in Handles : file[h].open /\ file[h].path = path
Modes == {{"READ"}, {"READ", "WRITE", "CREATE"}, {"WRITE", "APPEND"},
          {"WRITE", "TRUNC", "CREATE"}}

--------------------------------------------------------------------------------
(* The callers. A path is open through one handle at a time, an open file  *)
(* is not unlinked, a directory is not opened as a file, and the volume is *)
(* unmounted when every file is closed.                                    *)

Mount == ~fat.mounted /\ \E part \in 0 .. 3 :
           CallPath(Query("mount", <<>>), LAMBDA s : MountFat(s, part))
Umount == /\ \A h \in Handles : ~file[h].open
          /\ fat.mounted /\ CallPath(Query("umount", <<>>), UmountFat)
Sync   == fat.mounted /\ CallPath(Query("sync", <<>>), SyncFs)

Open(h, p, mode) ==
  /\ fat.mounted /\ ~file[h].open /\ ~IsOpen(p)
  /\ Call(Query("open", p), h, Closed, LAMBDA s : FileOpen(s, p, mode),
          LAMBDA s : IF s.err = "NONE" THEN s.f ELSE Closed)

Read(h, len) ==
  /\ file[h].open
  /\ CallFile(Query("read", <<file[h].path, file[h].off, len>>), h,
              LAMBDA s : FileRead(s, len))
Write(h, len) ==
  /\ file[h].open /\ file[h].off + len <= MaxSize
  /\ CallFile(Query("write", file[h].path), h, LAMBDA s : FileWrite(s, s.f.path, len))
Seek(h, off) == CallFile(Query("seek", <<>>), h, LAMBDA s : SeekTo(s, off))
SyncFile(h)  == CallFile(Query("fsync", <<>>), h, FileSync)
Close(h) == /\ file[h].open /\ fat.mounted
            /\ Call(Query("close", <<>>), h, file[h], FileSync, LAMBDA s : Closed)

UnlinkPath(p) == /\ fat.mounted /\ ~IsOpen(p)
                 /\ CallPath(Query("unlink", p), LAMBDA s : Unlink(s, p))
MakeDir(p)  == fat.mounted /\ CallPath(Query("mkdir", p), LAMBDA s : DirCreate(s, p))
ListDir(p)  == fat.mounted /\ CallPath(Query("list", p), LAMBDA s : List(s, p))
StatPath(p) == fat.mounted /\ CallPath(Query("stat", p), LAMBDA s : Stat(s, p))

Init ==
  /\ disk \in Disks
  /\ calls = 0
  /\ fat = Memory0
  /\ file = [h \in Handles |-> Closed]
  /\ res = NoResult
  /\ store = StoreOf(Now)
  /\ fault = "none"

Next ==
  \/ Mount \/ Umount \/ Sync
  \/ \E h \in Handles :
       \/ \E p \in FilePaths, mode \in Modes : Open(h, p, mode)
       \/ \E len \in 1 .. MaxLen : Read(h, len) \/ Write(h, len)
       \/ \E off \in 0 .. MaxSize : Seek(h, off)
       \/ SyncFile(h) \/ Close(h)
  \/ \E p \in FilePaths \cup DirPaths : UnlinkPath(p) \/ StatPath(p)
  \/ \E p \in DirPaths : MakeDir(p)
  \/ \E p \in DirPaths \cup {<<>>} : ListDir(p)

Spec == Init /\ [][Next]_vars

--------------------------------------------------------------------------------
(* Properties.                                                             *)

\* Every variable keeps its shape: the cache holds the copy of one sector,
\* and an open handle stands in a sector of the data area, both of the clusters
\* the table has room for.
TypeOK ==
  /\ \E d \in Disks : DOMAIN disk = DOMAIN d /\ disk[Lba] = d[Lba]
  /\ fat.sect \in 0 .. ClustToSect(ClustCnt) - 1
  /\ {fat.mounted, fat.dirty, fat.infoDirty} \subseteq BOOLEAN
  /\ \A h \in Handles : file[h].open =>
       /\ file[h].sect \in DataSect .. ClustToSect(ClustCnt) - 1
       /\ file[h].size \in 0 .. MaxSize /\ file[h].off \in 0 .. MaxSize
  /\ fault \in {"none", "io", "power", "end"}

\* Whenever the power goes, on the disk a cluster of a chain is never followed
\* by a free one: stretch_chain marks the new cluster before it links it, and
\* remove_chain frees a chain from its head.
LinksAllocated ==
  fault # "io" =>
    \A table \in {ActiveOf(Now), OtherOf(Now)} \ {0}, c \in Clusters :
      LET On(x) == disk[table + x \div FatItems].v[x % FatItems]
      IN  On(c) \in Clusters => On(On(c)) # FREE

\* free_cnt is the number of free items of the table, as the cache and the disk
\* hold it together, less those without a cluster, after calls that succeed,
\* fail and fill the volume: it falls below zero when one of those is given out.
FreeCountExact ==
  fat.mounted /\ fault \in {"none", "end"} =>
    fat.free + Cardinality(Slack(Now)) = Cardinality(FreeItems(Now))

\* On a volume with bit 7 the two copies of the table agree after every call; a
\* failure in the middle of one leaves them apart in at most one cluster. On
\* one without it no call ever writes the other copy.
MirrorAgrees ==
  LET table == OtherOf(Now)
  IN  IF table # 0
      THEN Cardinality({c \in Clusters : Item(Now, c) # ItemIn(Now, table, c)})
             <= IF fault = "none" THEN 0 ELSE 1
      ELSE LET copy == (Fat0 .. DataSect - 1)
                         \ (ActiveOf(Now) .. ActiveOf(Now) + SectPerFat - 1)
           IN  \E d \in Disks : \A s \in copy \cup {Lba} : disk[s] = d[s]

\* The tables, the counter and the cache agree with each other, whatever fails
\* and whenever the power goes.
VolumeConsistent == TypeOK /\ LinksAllocated /\ FreeCountExact /\ MirrorAgrees

\* A call that fails for want of space leaves at most one cluster free: the
\* one last_used names, which the scan never tries.
FullOnlyWhenFull ==
  "FULL" \in {res.err, res.lost} =>
    Cardinality(FreeItems(Now)) <= 1

\* A read returns what the file holds from the handle's place on, as far as
\* the file goes, and a listing returns each name of the directory once.
ReadsReturnContent ==
  fault = "none" =>
    /\ res.query.op = "read" /\ res.err = "NONE" =>
         LET data == store[res.query.arg[1]].data
             off  == res.query.arg[2]
         IN  /\ Len(res.got) = Least(res.query.arg[3],
                                     IF off < Len(data) THEN Len(data) - off ELSE 0)
             /\ \A i \in DOMAIN res.got :
                  data[off + i] = "own" => res.got[i] = <<res.query.arg[1], off + i>>
    /\ res.query.op = "list" =>
         LET long == {i \in DOMAIN res.got : \E n \in Names : res.got[i][1] = <<"long", Pieces(n)>>}
         IN  \A n \in Names :
               Append(res.query.arg, n) \in DOMAIN store =>
                 Cardinality({i \in long : res.got[i][1] = <<"long", Pieces(n)>>}) = 1

\* Without a failure the library is a file store: each call is one of the
\* store's operations, in whole or, for a write on a full volume, in part, or
\* leaves every file as it is. Nothing is lost in the cache, in the buffer of
\* a handle, at the end of a cluster or in a cluster two files share.
StoreStep ==
  \/ \E p \in FilePaths \cup DirPaths :
       Store!Create(p) \/ Store!MakeDir(p) \/ Store!Remove(p) \/ Store!Truncate(p)
  \/ \E p \in FilePaths, off \in 0 .. MaxSize, n \in 1 .. MaxLen : Store!Write(p, off, n)
ImplementsStore ==
  [][fault' = "none" /\ store' # store => StoreStep]_vars

\* A call that ends in a power cut, a failure of the drive or behind the end of
\* the volume leaves every other closed file on the disk as it was: the
\* one-sector cache writes in the order of the changes, so a cluster is never
\* given to a second file while the disk still shows it in the first.
CutKeepsOthers ==
  [][fault = "none" /\ fault' # "none" =>
       LET before == StoreOf(OnDisk(disk))
           after  == StoreOf(OnDisk(disk'))
       IN  \A p \in FilePaths \cap DOMAIN before :
             p = res'.query.arg \/ IsOpen(p)
               \/ (p \in DOMAIN after /\ after[p] = before[p])]_vars
================================================================================
