-------------------------------- MODULE Heap --------------------------------
(***************************************************************************)
(* The kernel heap of memory/malloc.c: a bitmap of 32-byte blocks, and a   *)
(* table of records, one per allocation, that itself lives on the heap.    *)
(* The table is allocated by the first kmalloc and moved, Chunk records    *)
(* larger, whenever it is full; both happen inside a kmalloc that has      *)
(* already reserved its blocks.                                            *)
(*                                                                         *)
(* An address is named by its block: address = MEM_BLOCK_START + 32 * start.*)
(***************************************************************************)
EXTENDS Integers, Sequences, SequencesExt

CONSTANTS
  TotalBlocks,   \* total_blocks (98303)
  BlockBytes,    \* MEM_BLOCK_BYTE_SIZE (32)
  RecordBytes,   \* sizeof(struct metadata) (12)
  Chunk,         \* records the table gains at a time (1024)
  Sizes,         \* the sizes clients ask for, in bytes
  Alignments     \* the alignments clients ask for, in bytes

ASSUME HeapAssumption ==
  /\ TotalBlocks \in Nat /\ RecordBytes \in Nat \ {0}
  /\ BlockBytes \in Nat \ {0} /\ Chunk \in Nat \ {0, 1}
  /\ Sizes \subseteq Nat /\ Alignments \subseteq Nat \ {0}

VARIABLES
  heap,    \* [used, items, size, table]: memfree, items, items_size and the
           \* region items points to
  owned,   \* the regions clients were given and have not freed
  panic    \* why the machine was restarted, or "none"

vars == <<heap, owned, panic>>

BlockIds == 0 .. TotalBlocks - 1
Region(start, bytes) == [start |-> start, bytes |-> bytes]
NoTable == Region(-1, 0)

Init == /\ heap = [used |-> {}, items |-> << >>, size |-> 0, table |-> NoTable]
        /\ owned = {}
        /\ panic = "none"

BlocksFor(bytes) ==
  IF bytes % BlockBytes = 0 THEN bytes \div BlockBytes ELSE bytes \div BlockBytes + 1

BlocksOf(r) == r.start .. r.start + BlocksFor(r.bytes) - 1

(* The aligned starts of free runs of blocks.  The scan keeps the first    *)
(* aligned block of a run and starts over at a used one, so what it finds  *)
(* is the least of them; a request of 0 bytes never finds one.             *)
FitsOneShort(used, bytes, alignment) ==   \* mutant: the last block is not looked at
  {s \in BlockIds : /\ BlocksFor(bytes) > 0 /\ s + BlocksFor(bytes) <= TotalBlocks
                    /\ (s * BlockBytes) % alignment = 0
                    /\ (s .. s + BlocksFor(bytes) - 2) \cap used = {}}
Fits(used, bytes, alignment) ==
  {s \in BlockIds : /\ BlocksFor(bytes) > 0 /\ s + BlocksFor(bytes) <= TotalBlocks
                    /\ (s * BlockBytes) % alignment = 0
                    /\ (s .. s + BlocksFor(bytes) - 1) \cap used = {}}
Least(S) == CHOOSE s \in S : \A t \in S : s <= t
FirstFit(used, bytes, alignment) == Region(Least(Fits(used, bytes, alignment)), bytes)

Ok(h) == [panic |-> "none", heap |-> h]
Panics(h, why) == [panic |-> why, heap |-> h]

-----------------------------------------------------------------------------
(* kfree: the first record with that address goes, the later ones move     *)
(* down, and the blocks it records are freed.                              *)
RemoveLast(items, i) == Front(items)   \* mutant: the later records do not move down
RemoveRecord(items, i) == RemoveAt(items, i)

FreedBlocks(r) == BlocksOf(r)

Matches(items, start) == {i \in DOMAIN items : items[i].start = start}
Free(h, start) ==
  IF Matches(h.items, start) = {} THEN Panics(h, "invalid pointer")
  ELSE LET i == Least(Matches(h.items, start))
       IN Ok([h EXCEPT !.used = @ \ FreedBlocks(h.items[i]),
                       !.items = RemoveRecord(@, i)])

Reserve(h, r) == [h EXCEPT !.used = @ \cup BlocksOf(r)]
Record(h, r) == [h EXCEPT !.items = Append(@, r)]

(* _alloc_items: the first table, recorded in itself before the allocation *)
(* that needed it.                                                         *)
MakeTable(h) ==
  IF Fits(h.used, RecordBytes * Chunk, 1) = {} THEN Panics(h, "out of memory")
  ELSE LET t == FirstFit(h.used, RecordBytes * Chunk, 1)
       IN Ok(Record([Reserve(h, t) EXCEPT !.size = Chunk, !.table = t], t))

(* _realloc_items: the last record is set aside and krealloc moves the     *)
(* table.  Its kmalloc records the new table in the old array; the array   *)
(* is copied; its kfree removes the old table's record from the old array; *)
(* and the last record is put back in the new array where the record of    *)
(* the new table was.                                                      *)
MoveTable(h) ==
  LET bytes == RecordBytes * (h.size + Chunk)
  IN IF Fits(h.used, bytes, 1) = {} THEN Panics(h, "out of memory")
     ELSE LET t == FirstFit(h.used, bytes, 1)
              old == [Reserve(h, t) EXCEPT !.items = Append(Front(@), t)]
              freed == Free(old, h.table.start)
              items == Append(Front(old.items), Last(h.items))
          IN [freed EXCEPT !.heap = [@ EXCEPT !.items = items, !.size = h.size + Chunk,
                                              !.table = t]]

RoomForRecord(h) == IF h.table = NoTable THEN MakeTable(h)
                    ELSE IF Len(h.items) >= h.size THEN MoveTable(h)
                    ELSE Ok(h)

(* kmalloc_aligned of a size that fits: the blocks first, then the table,  *)
(* then the record.                                                        *)
Place(h, bytes, alignment) ==
  LET r == FirstFit(h.used, bytes, alignment)
      room == RoomForRecord(Reserve(h, r))
  IN [room EXCEPT !.heap = Record(@, r)]

Alloc(h, bytes, alignment) ==
  IF Fits(h.used, bytes, alignment) = {} THEN Panics(h, "out of memory")
  ELSE Place(h, bytes, alignment)

-----------------------------------------------------------------------------
(* What a call leaves: its heap and the clients' regions, or a restart.    *)
Returns(result, regions) ==
  /\ panic' = result.panic
  /\ IF result.panic = "none"
     THEN heap' = result.heap /\ owned' = regions
     ELSE UNCHANGED <<heap, owned>>

kmalloc_aligned(bytes, alignment) ==
  /\ panic = "none"
  /\ Returns(Alloc(heap, bytes, alignment),
             owned \cup {FirstFit(heap.used, bytes, alignment)})

kfree(r) == /\ panic = "none"
            /\ Returns(Free(heap, r.start), owned \ {r})

(* krealloc: the new region is allocated and filled before the old is      *)
(* freed.                                                                  *)
krealloc(r, bytes) ==
  /\ panic = "none"
  /\ LET grown == Alloc(heap, bytes, 1)
         freed == IF grown.panic = "none" THEN Free(grown.heap, r.start) ELSE grown
     IN Returns(freed, (owned \cup {FirstFit(heap.used, bytes, 1)}) \ {r})

Next == \/ \E bytes \in Sizes, alignment \in Alignments : kmalloc_aligned(bytes, alignment)
        \/ \E r \in owned : kfree(r)
        \/ \E r \in owned, bytes \in Sizes : krealloc(r, bytes)

Spec == Init /\ [][Next]_vars

-----------------------------------------------------------------------------
Regions == [start : BlockIds, bytes : Nat]

(* The bitmap covers the heap, and the records are regions.                *)
TypeOK == /\ heap.used \subseteq BlockIds
          /\ heap.items \in Seq(Regions)
          /\ heap.size \in Nat
          /\ heap.table \in Regions \cup {NoTable}
          /\ owned \subseteq Regions
          /\ panic \in {"none", "out of memory", "invalid pointer"}

Live == owned \cup ({heap.table} \ {NoTable})
NeverMoved == heap.size <= Chunk

(* While the table has never been moved, no two live regions overlap (what *)
(* one client stores no other client and no record overwrites)...          *)
LiveDisjoint ==
  NeverMoved => \A r, s \in Live : r # s => BlocksOf(r) \cap BlocksOf(s) = {}

(* ... a block is marked used exactly while a live region covers it, so    *)
(* that nothing leaks...                                                   *)
UsedIsLive == NeverMoved => heap.used = UNION {BlocksOf(r) : r \in Live}

(* ... and the table has one record per live region, with which kfree      *)
(* frees that region and not another.                                      *)
RecordsMatchLive ==
  NeverMoved => /\ ToSet(heap.items) = Live
                /\ \A i, j \in DOMAIN heap.items :
                     heap.items[i].start = heap.items[j].start => i = j

(* The table always has room for the records it holds, before and after    *)
(* it is moved.                                                            *)
RecordsFit == Len(heap.items) <= heap.size

(* The bitmap, the table and the live regions tell the same story.         *)
HeapConsistent == TypeOK /\ UsedIsLive /\ RecordsMatchLive /\ RecordsFit

(* malloc.c:167 "Invalid pointer passed to kfree": kfree stops the kernel  *)
(* only for a pointer that kmalloc did not return.  The clients here free  *)
(* only what they own, so it never stops for them.                         *)
OnlyInvalidPointersPanic == panic # "invalid pointer"
=============================================================================
