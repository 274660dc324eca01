-------------------------------- MODULE MCLoader --------------------------------
(***************************************************************************)
(* Volumes of six clusters, 2 to 7, the first of them the root directory:  *)
(* kernel.bin of up to three clusters in any order, its chain closed, cut  *)
(* or damaged; the rest of the table free or taken; the directory written  *)
(* in several ways. And disks that are no such volume, or cannot be read.  *)
(* FsInfo once names no cluster of the table: the search of a full one     *)
(* does not end then.                                                      *)
(***************************************************************************)
EXTENDS Loader

Chains == {<<a>> : a \in 3 .. 7}
            \cup {c \in (3 .. 7) \X (3 .. 7) : c[1] # c[2]}
            \cup {<<3, 4, 5>>, <<7, 3, 6>>, <<5, 4, 3>>}
Ends  == {EOC, BAD, FREE, 1}
Sizes == {1, 4, 5, 8, 9}

Lfn(frag, seq, head, crc) ==
  [k |-> "lfn", frag |-> frag, seq |-> seq, head |-> head, crc |-> crc]
Sfn(name, clust, size) == [k |-> "sfn", name |-> name, clust |-> clust, size |-> size]
None == [k |-> "free"]
Last == [k |-> "last"]

\* The root directory's four entries.
ByShort(c, n)   == <<Sfn("kernel", c, n), Last, Last, Last>>
ByLong(c, n)    == <<None, Lfn("kernel", 1, TRUE, "k1"), Sfn("k1", c, n), Last>>
AfterOther(c, n) == <<Lfn("two", 2, TRUE, "o"), Lfn("one", 1, FALSE, "o"),
                      Sfn("o", 3, 1), Sfn("kernel", c, n)>>
Unlisted(c, n)  == <<None, Sfn("o", 3, 1), None, None>>
Mixed(c, n)     == <<Lfn("two", 2, TRUE, "o"), Lfn("one", 1, FALSE, "p"),
                     Sfn("o", 3, 1), Sfn("kernel", c, n)>>
Headless(c, n)  == <<Lfn("one", 1, FALSE, "o"), Sfn("o", 3, 1), Last, Last>>
Orphan(c, n)    == <<Lfn("one", 1, TRUE, "o"), Sfn("k1", c, n), Last, Last>>

Table(chain, end, rest) ==
  [c \in 0 .. 7 |->
     IF c < 3 THEN EOC
     ELSE IF \E i \in DOMAIN chain : chain[i] = c
     THEN LET i == CHOOSE i \in DOMAIN chain : chain[i] = c
          IN  IF i = Len(chain) THEN end ELSE chain[i + 1]
     ELSE rest]
Sect(table, n) == [t |-> "fat", v |-> [i \in 0 .. 3 |-> table[4 * n + i]]]

Disk(entries, table, last) ==
  [n \in 0 .. 19 |->
     CASE n = 0 -> [t |-> "mbr", part |-> [p \in 0 .. 1 |-> p]]
       [] n = 1 -> [t |-> "bpb", bit7 |-> "clear"]   \* as mformat makes them
       [] n = 2 -> [t |-> "info", next_free |-> last]
       [] n \in {4, 6} -> Sect(table, 0)
       [] n \in {5, 7} -> Sect(table, 1)
       [] n \in {8, 9} -> [t |-> "dir", v |-> [i \in 0 .. 1 |->
                                                 entries[2 * (n - 8) + i + 1]]]
       [] OTHER -> [t |-> "data"]]

\* As many clusters of the chain as the size needs and the table links.
Clip(chain, n) ==
  LET need == (n + ClustUnits - 1) \div ClustUnits
  IN  SubSeq(chain, 1, IF need < Len(chain) THEN need ELSE Len(chain))

Volume(d, chain, n, bad) ==
  [disk |-> d, bad |-> bad, root |-> <<2>>, chain |-> Clip(chain, n), size |-> n]

Layouts(Dir(_, _)) ==
  {Volume(Disk(Dir(chain[1], n), Table(chain, end, rest), last), chain, n, {}) :
     chain \in Chains, end \in Ends, rest \in {FREE, EOC}, last \in {2, 7}, n \in Sizes}

Sample(Dir(_, _)) == Volume(Disk(Dir(5, 5), Table(<<5, 3>>, EOC, FREE), 4), <<5, 3>>, 5, {})
Without(v) == [v EXCEPT !.chain = <<>>, !.size = 0]

\* A root directory of a second cluster, 7, where the kernel is listed.
Deleted(c, n) == <<None, None, Sfn("o", 4, 1), None>>
LongRoot(link) ==
  LET v == Sample(Deleted)
  IN  [v EXCEPT !.disk[4].v[2] = link, !.disk[5].v[3] = EOC,
                !.disk[18] = [t |-> "dir", v |-> [i \in 0 .. 1 |->
                    IF i = 0 THEN Lfn("kernel", 1, TRUE, "k1") ELSE Sfn("k1", 5, 5)]],
                !.disk[19] = [t |-> "dir", v |-> [i \in 0 .. 1 |-> Last]],
                !.root = IF link = 7 THEN <<2, 7>> ELSE <<2>>,
                !.chain = IF link = 7 THEN @ ELSE <<>>,
                !.size = IF link = 7 THEN @ ELSE 0]

Unusual ==
  {[Sample(ByLong) EXCEPT !.bad = {n}] : n \in 0 .. 19}
    \cup {Sample(ByLong), Sample(AfterOther), Sample(Mixed)}
    \cup {Without(Sample(Unlisted)),
          Without(Sample(Headless)), Without(Sample(Orphan))}
    \cup {[Sample(ByShort) EXCEPT !.disk[n] = c] :
            n \in {0, 1, 2}, c \in {[t |-> "bpb", bit7 |-> "set"], [t |-> "data"],
                                    [t |-> "mbr", part |-> [p \in 0 .. 1 |-> 0]]}}
    \cup {Volume(Disk(ByShort(0, n), Table(<<>>, EOC, FREE), 4), <<>>, n, {}) : n \in {0, 3, 5}}
    \cup {Volume(Disk(ByShort(5, 5), Table(<<5>>, EOC, EOC), 0), <<5>>, 5, {})}
    \cup {[Volume(Disk(ByShort(5, 8), Table(<<5, 3>>, EOC, rest), 4), <<5, 3>>, 8, {})
             EXCEPT !.disk[1].bit7 = "set"] : rest \in {FREE, EOC}}
    \cup {LongRoot(link) : link \in {7, EOC, FREE}}

MCVolumes == Layouts(ByShort) \cup Layouts(AfterOther) \cup Unusual
================================================================================
