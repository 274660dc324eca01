------------------------------- MODULE FileStore -------------------------------
(***************************************************************************)
(* What a file system promises its callers, without clusters, caches or    *)
(* handles: a set of paths, each a directory or a sequence of units.       *)
(*                                                                         *)
(* A unit is "own" when it holds what was last written at that place of    *)
(* that file, and "gap" when nothing was written there (a file extended by *)
(* a write beyond its end).                                                *)
(***************************************************************************)
EXTENDS Integers, Sequences

CONSTANT Path          \* sequences of names
VARIABLE store         \* a function from the paths that exist

ParentOf(p) == SubSeq(p, 1, Len(p) - 1)
IsDir(p)    == p = <<>> \/ (p \in DOMAIN store /\ store[p].dir)
Exists(p)   == p \in DOMAIN store
Children(p) == {q \in DOMAIN store : q # <<>> /\ ParentOf(q) = p}

Put(p, isDir, data) ==
  store' = [q \in DOMAIN store \cup {p} |->
              IF q = p THEN [dir |-> isDir, data |-> data] ELSE store[q]]

Create(p)  == ~Exists(p) /\ IsDir(ParentOf(p)) /\ Put(p, FALSE, <<>>)
MakeDir(p) == ~Exists(p) /\ IsDir(ParentOf(p)) /\ Put(p, TRUE, <<>>)

Truncate(p) == Exists(p) /\ ~store[p].dir /\ Put(p, FALSE, <<>>)

Remove(p) == /\ Exists(p) /\ Children(p) = {}
             /\ store' = [q \in DOMAIN store \ {p} |-> store[q]]

\* n units from place off on: the rest of the file keeps its content.
Write(p, off, n) ==
  /\ Exists(p) /\ ~store[p].dir /\ n > 0
  /\ LET old == store[p].data
         len == IF off + n > Len(old) THEN off + n ELSE Len(old)
     IN  \E data \in [1 .. len -> {"own", "gap"}] :
           /\ \A i \in 1 .. len :
                /\ i \in off + 1 .. off + n => data[i] = "own"
                /\ i \in (1 .. Len(old)) \ (off + 1 .. off + n) => data[i] = old[i]
           /\ Put(p, FALSE, data)
================================================================================
