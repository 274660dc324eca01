---------------------------- MODULE Heap_proofs ----------------------------
(***************************************************************************)
(* The kernel heap is type correct, its table of records always has room,  *)
(* and until the table is first moved no two live regions overlap, no      *)
(* block leaks and every live region has one record: for every heap size,  *)
(* every block and record size, every table chunk and every sequence of    *)
(* calls.                                                                  *)
(***************************************************************************)
EXTENDS Heap, SequenceTheorems, WellFoundedInduction, TLAPS

Heaps == [used : SUBSET BlockIds, items : Seq(Regions), size : Nat,
          table : Regions \cup {NoTable}]
Reasons == {"none", "out of memory", "invalid pointer"}
Results == [panic : Reasons, heap : Heaps]

(* The table, its length and its capacity agree: no table has no records,  *)
(* and a table has at least its first chunk.                               *)
Tabled(h) == /\ h \in Heaps
             /\ Len(h.items) <= h.size
             /\ h.table = NoTable => h.size = 0
             /\ h.table # NoTable => h.size >= Chunk

(* The records of h are of regions that do not overlap each other or the   *)
(* blocks in "reserved", and these are the used blocks.                    *)
Covered(items) == UNION {BlocksOf(items[i]) : i \in DOMAIN items}
Booked(h, reserved) ==
  /\ \A i \in DOMAIN h.items : BlocksFor(h.items[i].bytes) > 0
  /\ \A i, j \in DOMAIN h.items :
       i # j => BlocksOf(h.items[i]) \cap BlocksOf(h.items[j]) = {}
  /\ Covered(h.items) \cap reserved = {}
  /\ h.used = Covered(h.items) \cup reserved

(* While the table has not moved, the records are of what the clients own  *)
(* and of the table, which no client owns.                                 *)
Matched(h, regions) ==
  h.size <= Chunk => /\ Booked(h, {})
                     /\ ToSet(h.items) = regions \cup ({h.table} \ {NoTable})
                     /\ h.table \notin regions

IInv == /\ Tabled(heap)
        /\ owned \subseteq Regions
        /\ panic \in Reasons
        /\ Matched(heap, owned)

-----------------------------------------------------------------------------
(* A nonempty set of numbers has a least element.                          *)
LEMMA LeastIsLeast ==
  ASSUME NEW S \in SUBSET Nat, S # {}
  PROVE  Least(S) \in S /\ \A t \in S : Least(S) <= t
<1>1. IsWellFoundedOn(OpToRel(<, Nat), Nat)
  BY NatLessThanWellFounded
<1>2. PICK x \in S : \A y \in S : ~ (<<y, x>> \in OpToRel(<, Nat))
  BY <1>1, WFMin
<1>3. OpToRel(<, Nat) = {ss \in Nat \X Nat : ss[1] < ss[2]}
  BY Zenon DEF OpToRel
<1> DEFINE R == OpToRel(<, Nat)
<1>4. \A y \in S : <<y, x>> \notin R
  BY <1>2
<1>5. R = {ss \in Nat \X Nat : ss[1] < ss[2]}
  BY <1>3
<1> HIDE DEF R
<1>6. ASSUME NEW y \in S PROVE x <= y
  <2> DEFINE p == <<y, x>>
  <2>1. p \in Nat \X Nat /\ p[1] = y /\ p[2] = x
    OBVIOUS
  <2>2. p \notin R
    BY <1>4
  <2> HIDE DEF p
  <2>3. ~ (y < x)
    BY <1>5, <2>1, <2>2
  <2>4. QED BY <2>3
<1>7. QED BY <1>6 DEF Least

(* A request needs a whole number of blocks.                               *)
LEMMA BlocksForNat == ASSUME NEW bytes \in Nat PROVE BlocksFor(bytes) \in Nat
BY HeapAssumption DEF BlocksFor

(* The first fit is a nonempty region of clear blocks of the heap.         *)
LEMMA FirstFitIsFree ==
  ASSUME NEW used \in SUBSET BlockIds, NEW bytes \in Nat, NEW alignment,
         Fits(used, bytes, alignment) # {}
  PROVE  LET r == FirstFit(used, bytes, alignment)
         IN /\ r \in Regions
            /\ BlocksFor(r.bytes) > 0
            /\ BlocksOf(r) \subseteq BlockIds
            /\ BlocksOf(r) \cap used = {}
<1> DEFINE s == Least(Fits(used, bytes, alignment))
           r == FirstFit(used, bytes, alignment)
<1>1. Fits(used, bytes, alignment) \in SUBSET Nat
  BY HeapAssumption DEF Fits, BlockIds
<1>2. s \in Fits(used, bytes, alignment)
  BY <1>1, LeastIsLeast
<1>3. r.start = s /\ r.bytes = bytes /\ r = [start |-> s, bytes |-> bytes]
  BY DEF FirstFit, Region
<1>4. BlocksFor(bytes) \in Nat
  BY BlocksForNat
<1>5. /\ s \in BlockIds /\ BlocksFor(bytes) > 0 /\ s + BlocksFor(bytes) <= TotalBlocks
      /\ (s .. s + BlocksFor(bytes) - 1) \cap used = {}
  BY <1>2 DEF Fits
<1>6. BlocksOf(r) = s .. s + BlocksFor(bytes) - 1
  BY <1>3 DEF BlocksOf
<1>7. BlocksOf(r) \subseteq BlockIds
  BY <1>4, <1>5, <1>6, HeapAssumption DEF BlockIds
<1> HIDE DEF s, r
<1>8. QED BY <1>3, <1>5, <1>6, <1>7 DEF Regions, r

(* Removing a record leaves the others in their order.                     *)
LEMMA RemoveAtProperties ==
  ASSUME NEW S, NEW s \in Seq(S), NEW i \in 1 .. Len(s)
  PROVE  /\ RemoveAt(s, i) \in Seq(S)
         /\ Len(RemoveAt(s, i)) = Len(s) - 1
         /\ \A j \in 1 .. Len(s) - 1 :
              RemoveAt(s, i)[j] = s[IF j < i THEN j ELSE j + 1]
<1> DEFINE a == SubSeq(s, 1, i - 1)
           b == SubSeq(s, i + 1, Len(s))
<1>1. Len(s) \in Nat /\ \A j \in 1 .. Len(s) : s[j] \in S
  BY LenProperties, ElementOfSeq
<1>2. /\ a \in Seq(S) /\ Len(a) = i - 1
      /\ \A j \in 1 .. i - 1 : a[j] = s[j]
  <2>1. \A j \in 1 .. i - 1 : s[j] \in S
    BY <1>1
  <2>2. /\ a \in Seq(S) /\ Len(a) = IF 1 <= i - 1 THEN i - 1 - 1 + 1 ELSE 0
        /\ \A j \in 1 .. i - 1 - 1 + 1 : a[j] = s[1 + j - 1]
    BY <2>1, SubSeqProperties
  <2>3. QED BY <2>2
<1>3. /\ b \in Seq(S) /\ Len(b) = Len(s) - i
      /\ \A j \in 1 .. Len(s) - i : b[j] = s[i + j]
  <2>1. \A j \in i + 1 .. Len(s) : s[j] \in S
    BY <1>1
  <2>2. /\ b \in Seq(S) /\ Len(b) = IF i + 1 <= Len(s) THEN Len(s) - (i + 1) + 1 ELSE 0
        /\ \A j \in 1 .. Len(s) - (i + 1) + 1 : b[j] = s[i + 1 + j - 1]
    BY <1>1, <2>1, SubSeqProperties
  <2>3. QED BY <1>1, <2>2
<1>4. RemoveAt(s, i) = a \o b
  BY DEF RemoveAt
<1> HIDE DEF a, b
<1>5. /\ a \o b \in Seq(S) /\ Len(a \o b) = Len(a) + Len(b)
      /\ \A j \in 1 .. Len(a) + Len(b) :
           (a \o b)[j] = IF j <= Len(a) THEN a[j] ELSE b[j - Len(a)]
  BY <1>2, <1>3, ConcatProperties
<1>6. ASSUME NEW j \in 1 .. Len(s) - 1
      PROVE  (a \o b)[j] = s[IF j < i THEN j ELSE j + 1]
  BY <1>1, <1>2, <1>3, <1>5, <1>6
<1>7. QED BY <1>1, <1>2, <1>3, <1>4, <1>5, <1>6

(* The last record but the others: what set-aside of a record leaves.      *)
LEMMA FrontLast ==
  ASSUME NEW S, NEW s \in Seq(S), s # << >>
  PROVE  /\ Front(s) \in Seq(S) /\ Len(Front(s)) = Len(s) - 1
         /\ Last(s) \in S
<1> DEFINE n == Len(s)
           f == SubSeq(s, 1, n - 1)
<1>1. n \in Nat \ {0} /\ \A j \in 1 .. n : s[j] \in S
  BY LenProperties, ElementOfSeq, EmptySeq
<1>2. Front(s) = f /\ Last(s) = s[n]
  BY DEF Front, Last
<1> HIDE DEF n
<1>3. f \in Seq(S) /\ Len(f) = IF 1 <= n - 1 THEN n - 1 - 1 + 1 ELSE 0
  <2>1. \A j \in 1 .. n - 1 : s[j] \in S
    BY <1>1
  <2>2. QED BY <1>1, <2>1, SubSeqProperties
<1> HIDE DEF f
<1>4. Len(f) = n - 1 /\ s[n] \in S
  BY <1>1, <1>3
<1>5. QED BY <1>2, <1>3, <1>4 DEF n

-----------------------------------------------------------------------------
(* Whatever kfree is asked for, it leaves a heap whose table it has not    *)
(* grown or moved.                                                         *)
LEMMA FreeTyped ==
  ASSUME NEW h \in Heaps, NEW start
  PROVE  /\ Free(h, start) \in Results
         /\ Len(Free(h, start).heap.items) <= Len(h.items)
         /\ Free(h, start).heap.size = h.size
         /\ Free(h, start).heap.table = h.table
<1> DEFINE i == Least(Matches(h.items, start))
           g == [h EXCEPT !.used = @ \ FreedBlocks(h.items[i]),
                          !.items = RemoveRecord(@, i)]
<1>1. Len(h.items) \in Nat /\ DOMAIN h.items = 1 .. Len(h.items)
  BY LenProperties DEF Heaps
<1>2. CASE Matches(h.items, start) = {}
  BY <1>1, <1>2 DEF Free, Panics, Results, Reasons
<1>3. CASE Matches(h.items, start) # {}
  <2>1. i \in 1 .. Len(h.items)
    <3>1. Matches(h.items, start) \in SUBSET Nat
      BY <1>1 DEF Matches
    <3>2. i \in Matches(h.items, start)
      BY <1>3, <3>1, LeastIsLeast
    <3>3. QED BY <1>1, <3>2 DEF Matches
  <2>2. Free(h, start) = [panic |-> "none", heap |-> g]
    BY <1>3 DEF Free, Ok
  <2> HIDE DEF i
  <2>3. RemoveAt(h.items, i) \in Seq(Regions) /\ Len(RemoveAt(h.items, i)) = Len(h.items) - 1
    BY <2>1, RemoveAtProperties DEF Heaps
  <2>4. /\ g \in Heaps /\ g.items = RemoveAt(h.items, i)
        /\ g.size = h.size /\ g.table = h.table
    BY <2>3 DEF Heaps, RemoveRecord
  <2> HIDE DEF g
  <2>5. QED BY <1>1, <2>2, <2>3, <2>4 DEF Results, Reasons
<1>4. QED BY <1>2, <1>3

(* A first table holds its own record and has room for another.            *)
LEMMA MakeTableTyped ==
  ASSUME NEW h, Tabled(h), h.table = NoTable
  PROVE  /\ MakeTable(h) \in Results
         /\ MakeTable(h).panic = "none" =>
              LET g == MakeTable(h).heap
              IN /\ Tabled(g) /\ Len(g.items) < g.size
                 /\ g.size >= h.size /\ g.table # NoTable
<1> DEFINE bytes == RecordBytes * Chunk
           t == FirstFit(h.used, bytes, 1)
           g == Record([Reserve(h, t) EXCEPT !.size = Chunk, !.table = t], t)
<1>1. h \in Heaps /\ h.size = 0 /\ Len(h.items) = 0 /\ h.items \in Seq(Regions)
  BY LenProperties DEF Tabled, Heaps
<1>2. bytes \in Nat
  BY HeapAssumption
<1>3. CASE Fits(h.used, bytes, 1) = {}
  BY <1>1, <1>3 DEF MakeTable, Panics, Results, Reasons
<1>4. CASE Fits(h.used, bytes, 1) # {}
  <2>1. MakeTable(h) = [panic |-> "none", heap |-> g]
    BY <1>4 DEF MakeTable, Ok
  <2>2. t \in Regions /\ BlocksOf(t) \subseteq BlockIds
    <3> HIDE DEF bytes
    <3>1. h.used \in SUBSET BlockIds
      BY <1>1 DEF Heaps
    <3>2. QED BY <1>2, <1>4, <3>1, FirstFitIsFree
  <2> HIDE DEF t
  <2>3. Append(h.items, t) \in Seq(Regions) /\ Len(Append(h.items, t)) = 1
    BY <1>1, <2>2, AppendProperties
  <2>4. /\ g \in Heaps /\ g.items = Append(h.items, t)
        /\ g.size = Chunk /\ g.table = t
    BY <1>1, <2>2, <2>3, HeapAssumption DEF Heaps, Record, Reserve
  <2>5. t # NoTable
    BY <2>2, HeapAssumption DEF Regions, NoTable, Region, BlockIds
  <2> HIDE DEF g
  <2>6. QED BY <1>1, <2>1, <2>3, <2>4, <2>5, HeapAssumption DEF Results, Reasons, Tabled
<1>5. QED BY <1>3, <1>4

(* A table that was full is one chunk larger after it has moved, holds as  *)
(* many records as before, and has room for another.                       *)
LEMMA MoveTableTyped ==
  ASSUME NEW h, Tabled(h), h.table # NoTable, Len(h.items) >= h.size
  PROVE  /\ MoveTable(h) \in Results
         /\ MoveTable(h).panic = "none" =>
              LET g == MoveTable(h).heap
              IN /\ Tabled(g) /\ Len(g.items) < g.size
                 /\ g.size >= h.size /\ g.size > Chunk /\ g.table # NoTable
<1> DEFINE bytes == RecordBytes * (h.size + Chunk)
           t == FirstFit(h.used, bytes, 1)
           old == [Reserve(h, t) EXCEPT !.items = Append(Front(@), t)]
           freed == Free(old, h.table.start)
           items == Append(Front(old.items), Last(h.items))
           g == [freed.heap EXCEPT !.items = items, !.size = h.size + Chunk, !.table = t]
           moved == [freed EXCEPT !.heap = g]
<1>1. /\ h \in Heaps /\ h.items \in Seq(Regions) /\ h.size \in Nat /\ h.size >= Chunk
      /\ Len(h.items) = h.size /\ h.items # << >>
  BY HeapAssumption, LenProperties, EmptySeq DEF Tabled, Heaps
<1>2. bytes \in Nat
  BY <1>1, HeapAssumption
<1>3. CASE Fits(h.used, bytes, 1) = {}
  BY <1>1, <1>3 DEF MoveTable, Panics, Results, Reasons
<1>4. CASE Fits(h.used, bytes, 1) # {}
  <2>1. MoveTable(h) = moved
    BY <1>4 DEF MoveTable
  <2>2. t \in Regions /\ BlocksOf(t) \subseteq BlockIds
    <3> HIDE DEF bytes
    <3>1. h.used \in SUBSET BlockIds
      BY <1>1 DEF Heaps
    <3>2. QED BY <1>2, <1>4, <3>1, FirstFitIsFree
  <2> HIDE DEF t
  <2>3. /\ Front(h.items) \in Seq(Regions) /\ Len(Front(h.items)) = h.size - 1
        /\ Last(h.items) \in Regions
    BY <1>1, FrontLast
  <2> DEFINE appended == Append(Front(h.items), t)
  <2>4. appended \in Seq(Regions) /\ Len(appended) = h.size /\ appended # << >>
    BY <1>1, <2>2, <2>3, AppendProperties
  <2>5. old \in Heaps /\ old.items = appended
    <3> HIDE DEF appended
    <3>1. old = [h EXCEPT !.used = @ \cup BlocksOf(t), !.items = appended]
      BY <1>1 DEF Heaps, Reserve, appended
    <3>2. QED BY <1>1, <2>2, <2>4, <3>1 DEF Heaps
  <2> HIDE DEF appended, old
  <2>6. /\ Front(appended) \in Seq(Regions) /\ Len(Front(appended)) = h.size - 1
    BY <2>4, FrontLast
  <2>7. items \in Seq(Regions) /\ Len(items) = h.size
    <3>1. items = Append(Front(appended), Last(h.items))
      BY <2>5
    <3>2. QED BY <1>1, <2>3, <2>6, <3>1, AppendProperties
  <2>8. freed \in Results
    BY <2>5, FreeTyped
  <2> HIDE DEF items, freed
  <2>9. freed.heap \in Heaps /\ freed.panic \in Reasons
    BY <2>8 DEF Results
  <2>10. h.size + Chunk \in Nat
    BY <1>1, HeapAssumption
  <2>11. /\ g \in Heaps /\ g.items = items /\ g.size = h.size + Chunk /\ g.table = t
    BY <2>2, <2>7, <2>9, <2>10 DEF Heaps
  <2> HIDE DEF g
  <2>12. /\ moved \in Results /\ moved.heap = g
    BY <2>8, <2>11 DEF Results
  <2>13. t # NoTable
    BY <2>2, HeapAssumption DEF Regions, NoTable, Region, BlockIds
  <2> HIDE DEF moved
  <2>14. QED BY <1>1, <2>1, <2>7, <2>11, <2>12, <2>13, HeapAssumption DEF Results, Tabled
<1>5. QED BY <1>3, <1>4

(* Making room for a record, whatever it takes.                            *)
LEMMA RoomTyped ==
  ASSUME NEW h, Tabled(h)
  PROVE  /\ RoomForRecord(h) \in Results
         /\ RoomForRecord(h).panic = "none" =>
              LET g == RoomForRecord(h).heap
              IN /\ Tabled(g) /\ Len(g.items) < g.size
                 /\ g.size >= h.size /\ g.table # NoTable
<1>1. CASE h.table = NoTable
  BY <1>1, MakeTableTyped DEF RoomForRecord
<1>2. CASE h.table # NoTable /\ Len(h.items) >= h.size
  BY <1>2, MoveTableTyped DEF RoomForRecord
<1>3. CASE h.table # NoTable /\ ~ (Len(h.items) >= h.size)
  <2>1. RoomForRecord(h) = [panic |-> "none", heap |-> h]
    BY <1>3 DEF RoomForRecord, Ok
  <2>2. h \in Heaps /\ Len(h.items) \in Nat /\ h.size \in Nat
    BY LenProperties DEF Tabled, Heaps
  <2>3. QED BY <1>3, <2>1, <2>2 DEF Results, Reasons
<1>4. QED BY <1>1, <1>2, <1>3

(* An allocation leaves a heap whose table has room for its records.       *)
LEMMA AllocTyped ==
  ASSUME NEW h, Tabled(h), NEW bytes \in Nat, NEW alignment
  PROVE  /\ Alloc(h, bytes, alignment) \in Results
         /\ Alloc(h, bytes, alignment).panic = "none" =>
              LET g == Alloc(h, bytes, alignment).heap
              IN /\ Tabled(g) /\ g.size >= h.size /\ g.table # NoTable
                 /\ FirstFit(h.used, bytes, alignment) \in Regions
<1> DEFINE r == FirstFit(h.used, bytes, alignment)
           reserved == Reserve(h, r)
           room == RoomForRecord(reserved)
           g == Record(room.heap, r)
<1>1. h \in Heaps /\ h.used \in SUBSET BlockIds
  BY DEF Tabled, Heaps
<1>2. CASE Fits(h.used, bytes, alignment) = {}
  BY <1>1, <1>2 DEF Alloc, Panics, Results, Reasons
<1>3. CASE Fits(h.used, bytes, alignment) # {}
  <2>1. r \in Regions /\ BlocksOf(r) \subseteq BlockIds
    BY <1>1, <1>3, FirstFitIsFree
  <2>2. Alloc(h, bytes, alignment) = [room EXCEPT !.heap = Record(@, r)]
    BY <1>3 DEF Alloc, Place
  <2> HIDE DEF r
  <2>3. Tabled(reserved) /\ reserved.size = h.size
    BY <1>1, <2>1 DEF Tabled, Reserve, Heaps
  <2> HIDE DEF reserved
  <2>4. /\ room \in Results
        /\ room.panic = "none" =>
             /\ Tabled(room.heap) /\ Len(room.heap.items) < room.heap.size
             /\ room.heap.size >= h.size /\ room.heap.table # NoTable
    BY <2>3, RoomTyped
  <2> HIDE DEF room
  <2>5. room.heap \in Heaps /\ room.panic \in Reasons
    BY <2>4 DEF Results
  <2>6. /\ Append(room.heap.items, r) \in Seq(Regions)
        /\ Len(Append(room.heap.items, r)) = Len(room.heap.items) + 1
        /\ Len(room.heap.items) \in Nat
    BY <2>1, <2>5, AppendProperties, LenProperties DEF Heaps
  <2>7. /\ g \in Heaps /\ g.items = Append(room.heap.items, r)
        /\ g.size = room.heap.size /\ g.table = room.heap.table
    BY <2>5, <2>6 DEF Record, Heaps
  <2>8. Alloc(h, bytes, alignment) = [panic |-> room.panic, heap |-> g]
    BY <2>2, <2>4 DEF Results
  <2> HIDE DEF g
  <2>9. g.size \in Nat
    BY <2>7 DEF Heaps
  <2>10. QED BY <2>1, <2>4, <2>5, <2>6, <2>7, <2>8, <2>9 DEF Results, Tabled, r
<1>4. QED BY <1>2, <1>3

-----------------------------------------------------------------------------
(* A record appended adds its blocks to the records' and itself to them.   *)
LEMMA CoveredAppend ==
  ASSUME NEW items \in Seq(Regions), NEW r \in Regions
  PROVE  /\ Covered(Append(items, r)) = Covered(items) \cup BlocksOf(r)
         /\ ToSet(Append(items, r)) = ToSet(items) \cup {r}
<1> DEFINE more == Append(items, r)
           n == Len(items)
<1>1. /\ n \in Nat /\ DOMAIN items = 1 .. n /\ DOMAIN more = 1 .. n + 1
      /\ \A i \in 1 .. n : more[i] = items[i]
      /\ more[n + 1] = r
  BY AppendProperties, LenProperties
<1> HIDE DEF more, n
<1>2. \A b : (\E i \in 1 .. n + 1 : b \in BlocksOf(more[i]))
               <=> (\E i \in 1 .. n : b \in BlocksOf(items[i])) \/ b \in BlocksOf(r)
  <2> TAKE b
  <2>1. ASSUME NEW i \in 1 .. n + 1, b \in BlocksOf(more[i])
        PROVE  (\E j \in 1 .. n : b \in BlocksOf(items[j])) \/ b \in BlocksOf(r)
    <3>1. i \in 1 .. n \/ i = n + 1
      BY <1>1
    <3>2. QED BY <1>1, <2>1, <3>1
  <2>2. ASSUME NEW i \in 1 .. n, b \in BlocksOf(items[i])
        PROVE  i \in 1 .. n + 1 /\ b \in BlocksOf(more[i])
    BY <1>1, <2>2
  <2>3. n + 1 \in 1 .. n + 1 /\ more[n + 1] = r
    BY <1>1
  <2>4. QED BY <2>1, <2>2, <2>3
<1>3. Covered(more) = Covered(items) \cup BlocksOf(r)
  BY <1>1, <1>2 DEF Covered
<1>4. ToSet(more) = ToSet(items) \cup {r}
  <2>1. \A i \in 1 .. n + 1 : i \in 1 .. n \/ i = n + 1
    BY <1>1
  <2>2. n + 1 \in 1 .. n + 1 /\ \A i \in 1 .. n : i \in 1 .. n + 1
    BY <1>1
  <2>3. QED BY <1>1, <2>1, <2>2 DEF ToSet
<1>5. QED BY <1>3, <1>4 DEF more

(* Clear blocks may be reserved before a record is written for them.       *)
LEMMA BookReserve ==
  ASSUME NEW h \in Heaps, NEW X, Booked(h, X), NEW r, BlocksOf(r) \cap h.used = {}
  PROVE  Booked(Reserve(h, r), X \cup BlocksOf(r))
<1>1. Reserve(h, r).used = h.used \cup BlocksOf(r) /\ Reserve(h, r).items = h.items
  BY DEF Reserve, Heaps
<1>2. QED BY <1>1 DEF Booked

(* The record of reserved blocks accounts for them.                        *)
LEMMA BookRecord ==
  ASSUME NEW h \in Heaps, NEW X, NEW r \in Regions, Booked(h, X \cup BlocksOf(r)),
         BlocksOf(r) \cap X = {}, BlocksFor(r.bytes) > 0
  PROVE  Booked(Record(h, r), X)
<1> DEFINE more == Append(h.items, r)
           n == Len(h.items)
<1>1. /\ n \in Nat /\ DOMAIN h.items = 1 .. n /\ DOMAIN more = 1 .. n + 1
      /\ \A i \in 1 .. n : more[i] = h.items[i]
      /\ more[n + 1] = r
  BY AppendProperties, LenProperties DEF Heaps
<1>2. Record(h, r).items = more /\ Record(h, r).used = h.used
  BY DEF Record, Heaps
<1>3. Covered(more) = Covered(h.items) \cup BlocksOf(r)
  BY CoveredAppend DEF Heaps
<1> HIDE DEF more, n
<1>4. \A i \in 1 .. n : BlocksOf(h.items[i]) \subseteq Covered(h.items)
  BY <1>1 DEF Covered
<1>5. \A i \in 1 .. n : BlocksOf(h.items[i]) \cap BlocksOf(r) = {}
  BY <1>4 DEF Booked
<1>6. \A i \in 1 .. n + 1 : i \in 1 .. n \/ i = n + 1
  BY <1>1
<1>7. \A i \in 1 .. n + 1 : BlocksFor(more[i].bytes) > 0
  BY <1>1, <1>6 DEF Booked
<1>8. \A i, j \in 1 .. n + 1 : i # j => BlocksOf(more[i]) \cap BlocksOf(more[j]) = {}
  <2> SUFFICES ASSUME NEW i \in 1 .. n + 1, NEW j \in 1 .. n + 1, i # j
               PROVE  BlocksOf(more[i]) \cap BlocksOf(more[j]) = {}
    OBVIOUS
  <2>1. CASE i \in 1 .. n /\ j \in 1 .. n
    BY <1>1, <2>1 DEF Booked
  <2>2. CASE i \in 1 .. n /\ j = n + 1
    BY <1>1, <1>5, <2>2
  <2>3. CASE i = n + 1 /\ j \in 1 .. n
    BY <1>1, <1>5, <2>3
  <2>4. QED BY <1>6, <2>1, <2>2, <2>3
<1>9. Covered(more) \cap X = {} /\ h.used = Covered(more) \cup X
  BY <1>3 DEF Booked
<1>10. QED BY <1>1, <1>2, <1>7, <1>8, <1>9 DEF Booked

(* When a record goes, so do its blocks, and no other's.                   *)
LEMMA BookRemove ==
  ASSUME NEW h \in Heaps, Booked(h, {}), NEW i \in DOMAIN h.items
  PROVE  LET g == [h EXCEPT !.used = @ \ FreedBlocks(h.items[i]),
                            !.items = RemoveRecord(@, i)]
         IN Booked(g, {}) /\ ToSet(g.items) = ToSet(h.items) \ {h.items[i]}
<1> DEFINE n == Len(h.items)
           rest == RemoveAt(h.items, i)
           g == [h EXCEPT !.used = @ \ FreedBlocks(h.items[i]),
                          !.items = RemoveRecord(@, i)]
           from(j) == IF j < i THEN j ELSE j + 1
<1>1. h.items \in Seq(Regions) /\ n \in Nat /\ DOMAIN h.items = 1 .. n
  BY LenProperties DEF Heaps
<1>2. /\ rest \in Seq(Regions) /\ Len(rest) = n - 1 /\ DOMAIN rest = 1 .. n - 1
      /\ \A j \in 1 .. n - 1 : rest[j] = h.items[from(j)]
  <2> USE <1>1
  <2>1. /\ rest \in Seq(Regions) /\ Len(rest) = n - 1
        /\ \A j \in 1 .. n - 1 : rest[j] = h.items[from(j)]
    BY RemoveAtProperties
  <2> HIDE DEF rest
  <2>2. DOMAIN rest = 1 .. Len(rest)
    BY <2>1, LenProperties
  <2>3. QED BY <2>1, <2>2
<1>3. g.items = rest /\ g.used = h.used \ BlocksOf(h.items[i])
  BY DEF Heaps, RemoveRecord, FreedBlocks
<1> HIDE DEF g, rest, n
<1>4. \A j \in 1 .. n - 1 : from(j) \in (1 .. n) \ {i}
  BY <1>1
<1>5. \A j, k \in 1 .. n - 1 : j # k => from(j) # from(k)
  BY <1>1
<1>6. \A j \in (1 .. n) \ {i} : \E k \in 1 .. n - 1 : from(k) = j
  <2> TAKE j \in (1 .. n) \ {i}
  <2>1. CASE j < i
    <3>1. j \in 1 .. n - 1 /\ from(j) = j
      BY <1>1, <2>1
    <3>2. QED BY <3>1
  <2>2. CASE j > i
    <3>1. j - 1 \in 1 .. n - 1 /\ from(j - 1) = j
      BY <1>1, <2>2
    <3>2. QED BY <3>1
  <2>3. QED BY <1>1, <2>1, <2>2
<1> HIDE DEF from
<1>7. \A j \in (1 .. n) \ {i} : BlocksOf(h.items[j]) \cap BlocksOf(h.items[i]) = {}
  BY <1>1 DEF Booked
<1>8. Covered(rest) = Covered(h.items) \ BlocksOf(h.items[i])
  <2>1. \A b : (\E j \in 1 .. n - 1 : b \in BlocksOf(rest[j]))
                 <=> \E j \in (1 .. n) \ {i} : b \in BlocksOf(h.items[j])
    BY <1>2, <1>4, <1>6
  <2>2. \A b : (\E j \in (1 .. n) \ {i} : b \in BlocksOf(h.items[j]))
                 <=> /\ \E j \in 1 .. n : b \in BlocksOf(h.items[j])
                     /\ b \notin BlocksOf(h.items[i])
    BY <1>1, <1>7
  <2>3. QED BY <1>1, <1>2, <2>1, <2>2 DEF Covered
<1>9. \A j \in 1 .. n - 1 : BlocksFor(rest[j].bytes) > 0
  BY <1>1, <1>2, <1>4 DEF Booked
<1>10. \A j, k \in 1 .. n - 1 : j # k => BlocksOf(rest[j]) \cap BlocksOf(rest[k]) = {}
  BY <1>1, <1>2, <1>4, <1>5 DEF Booked
<1>11. Booked(g, {})
  BY <1>2, <1>3, <1>8, <1>9, <1>10 DEF Booked
<1>12. \A j \in (1 .. n) \ {i} : h.items[j] # h.items[i]
  <2> TAKE j \in (1 .. n) \ {i}
  <2>1. h.items[i].start \in BlocksOf(h.items[i])
    <3>1. BlocksFor(h.items[i].bytes) > 0
      BY DEF Booked
    <3>2. h.items[i] \in Regions
      BY <1>1, ElementOfSeq
    <3>3. BlocksFor(h.items[i].bytes) \in Nat
      BY <3>2, BlocksForNat DEF Regions
    <3>4. QED BY <3>1, <3>2, <3>3 DEF BlocksOf, Regions, BlockIds
  <2>2. QED BY <1>7, <2>1
<1>13. ToSet(rest) = ToSet(h.items) \ {h.items[i]}
  <2>1. \A r : (\E j \in 1 .. n - 1 : r = rest[j])
                 <=> \E j \in (1 .. n) \ {i} : r = h.items[j]
    BY <1>2, <1>4, <1>6
  <2>2. \A r : (\E j \in (1 .. n) \ {i} : r = h.items[j])
                 <=> (\E j \in 1 .. n : r = h.items[j]) /\ r # h.items[i]
    BY <1>1, <1>12
  <2>3. \A r : r \in ToSet(rest) <=> \E j \in 1 .. n - 1 : r = rest[j]
    BY <1>2 DEF ToSet
  <2>4. \A r : r \in ToSet(h.items) <=> \E j \in 1 .. n : r = h.items[j]
    BY <1>1 DEF ToSet
  <2>5. \A r : r \in ToSet(rest) <=> r \in ToSet(h.items) /\ r # h.items[i]
    BY <2>1, <2>2, <2>3, <2>4
  <2>6. QED BY <2>5
<1>14. QED BY <1>3, <1>11, <1>13 DEF g

(* A nonempty region contains its start.                                   *)
LEMMA StartIsCovered ==
  ASSUME NEW r \in Regions, BlocksFor(r.bytes) > 0
  PROVE  r.start \in BlocksOf(r)
<1>1. BlocksFor(r.bytes) \in Nat
  BY BlocksForNat DEF Regions
<1>2. QED BY <1>1 DEF BlocksOf, Regions, BlockIds

(* kfree of a recorded region finds its record, and frees it and no other. *)
LEMMA FreeBooked ==
  ASSUME NEW h \in Heaps, Booked(h, {}), NEW r \in ToSet(h.items)
  PROVE  /\ Free(h, r.start).panic = "none"
         /\ Booked(Free(h, r.start).heap, {})
         /\ ToSet(Free(h, r.start).heap.items) = ToSet(h.items) \ {r}
<1> DEFINE i == Least(Matches(h.items, r.start))
           g == [h EXCEPT !.used = @ \ FreedBlocks(h.items[i]),
                          !.items = RemoveRecord(@, i)]
<1>1. DOMAIN h.items = 1 .. Len(h.items) /\ \A j \in DOMAIN h.items : h.items[j] \in Regions
  BY LenProperties, ElementOfSeq DEF Heaps
<1>2. PICK k \in DOMAIN h.items : h.items[k] = r
  BY DEF ToSet
<1>3. k \in Matches(h.items, r.start)
  BY <1>2 DEF Matches
<1>4. i \in Matches(h.items, r.start)
  <2>1. Matches(h.items, r.start) \in SUBSET Nat
    BY <1>1 DEF Matches
  <2>2. QED BY <1>3, <2>1, LeastIsLeast
<1>5. Free(h, r.start) = [panic |-> "none", heap |-> g]
  BY <1>3 DEF Free, Ok
<1> HIDE DEF i
<1>6. i \in DOMAIN h.items /\ h.items[i].start = r.start
  BY <1>4 DEF Matches
<1>7. r.start \in BlocksOf(h.items[i]) /\ r.start \in BlocksOf(h.items[k])
  <2>1. BlocksFor(h.items[i].bytes) > 0 /\ BlocksFor(h.items[k].bytes) > 0
    BY <1>2, <1>6 DEF Booked
  <2>2. QED BY <1>1, <1>2, <1>6, <2>1, StartIsCovered
<1>8. h.items[i] = r
  BY <1>2, <1>6, <1>7 DEF Booked
<1>9. Booked(g, {}) /\ ToSet(g.items) = ToSet(h.items) \ {h.items[i]}
  BY <1>6, BookRemove
<1> HIDE DEF g
<1>10. QED BY <1>5, <1>8, <1>9

(* Until the table moves, room for a record is either there already or the *)
(* first table, in clear blocks, recorded.                                 *)
LEMMA RoomBooked ==
  ASSUME NEW h, Tabled(h), NEW X, Booked(h, X),
         RoomForRecord(h).panic = "none", RoomForRecord(h).heap.size <= Chunk
  PROVE  LET g == RoomForRecord(h).heap
         IN /\ Booked(g, X)
            /\ \/ g = h /\ h.table # NoTable
               \/ /\ h.table = NoTable /\ g.table \in Regions
                  /\ ToSet(g.items) = ToSet(h.items) \cup {g.table}
                  /\ BlocksOf(g.table) \cap X = {}
<1>1. CASE h.table # NoTable /\ Len(h.items) >= h.size
  <2>1. RoomForRecord(h) = MoveTable(h)
    BY <1>1 DEF RoomForRecord
  <2>2. MoveTable(h).heap.size > Chunk /\ MoveTable(h).heap \in Heaps
    BY <1>1, <2>1, MoveTableTyped DEF Tabled
  <2>3. QED BY <2>1, <2>2, HeapAssumption DEF Heaps
<1>2. CASE h.table # NoTable /\ ~ (Len(h.items) >= h.size)
  BY <1>2 DEF RoomForRecord, Ok
<1>3. CASE h.table = NoTable
  <2> DEFINE bytes == RecordBytes * Chunk
             t == FirstFit(h.used, bytes, 1)
             held == Reserve(h, t)
             sized == [held EXCEPT !.size = Chunk, !.table = t]
             g == Record(sized, t)
  <2>1. h \in Heaps /\ h.used \in SUBSET BlockIds /\ h.items \in Seq(Regions)
    BY DEF Tabled, Heaps
  <2>2. bytes \in Nat
    BY HeapAssumption
  <2>3. Fits(h.used, bytes, 1) # {} /\ RoomForRecord(h) = [panic |-> "none", heap |-> g]
    BY <1>3 DEF RoomForRecord, MakeTable, Panics, Ok
  <2>4. /\ t \in Regions /\ BlocksFor(t.bytes) > 0 /\ BlocksOf(t) \subseteq BlockIds
        /\ BlocksOf(t) \cap h.used = {}
    <3> HIDE DEF bytes
    <3>1. QED BY <2>1, <2>2, <2>3, FirstFitIsFree
  <2> HIDE DEF t
  <2>5. held \in Heaps /\ Booked(held, X \cup BlocksOf(t)) /\ held.items = h.items
    BY <2>1, <2>4, BookReserve DEF Heaps, Reserve
  <2> HIDE DEF held
  <2>6. sized \in Heaps /\ sized.used = held.used /\ sized.items = held.items
    BY <2>4, <2>5, HeapAssumption DEF Heaps
  <2> HIDE DEF sized
  <2>7. Booked(sized, X \cup BlocksOf(t))
    BY <2>5, <2>6 DEF Booked
  <2>8. BlocksOf(t) \cap X = {}
    BY <2>4 DEF Booked
  <2>9. Booked(g, X)
    BY <2>4, <2>6, <2>7, <2>8, BookRecord
  <2>10. g.items = Append(h.items, t) /\ g.table = t
    <3>1. sized.table = t
      BY <2>4, <2>5 DEF sized, Heaps
    <3>2. QED BY <2>5, <2>6, <3>1 DEF Record, Heaps
  <2>11. ToSet(g.items) = ToSet(h.items) \cup {t}
    BY <2>1, <2>4, <2>10, CoveredAppend
  <2> HIDE DEF g
  <2>12. RoomForRecord(h).heap = g
    BY <2>3
  <2>13. QED BY <1>3, <2>4, <2>8, <2>9, <2>10, <2>11, <2>12
<1>4. QED BY <1>1, <1>2, <1>3

(* Until the table moves, an allocation records the client's region and,   *)
(* if it had to be made, the table: regions apart from all that were live. *)
LEMMA AllocBooked ==
  ASSUME NEW h, Tabled(h), Booked(h, {}), NEW bytes \in Nat, NEW alignment,
         Alloc(h, bytes, alignment).panic = "none",
         Alloc(h, bytes, alignment).heap.size <= Chunk
  PROVE  LET g == Alloc(h, bytes, alignment).heap
             r == FirstFit(h.used, bytes, alignment)
         IN /\ Booked(g, {})
            /\ r \in Regions /\ r \notin ToSet(h.items)
            /\ \/ /\ g.table = h.table /\ h.table # NoTable
                  /\ ToSet(g.items) = ToSet(h.items) \cup {r}
               \/ /\ h.table = NoTable /\ g.table \in Regions /\ g.table # r
                  /\ ToSet(g.items) = ToSet(h.items) \cup {g.table, r}
<1> DEFINE r == FirstFit(h.used, bytes, alignment)
           reserved == Reserve(h, r)
           room == RoomForRecord(reserved)
           g == Record(room.heap, r)
<1>1. h \in Heaps /\ h.used \in SUBSET BlockIds /\ h.items \in Seq(Regions)
  BY DEF Tabled, Heaps
<1>2. Fits(h.used, bytes, alignment) # {}
  BY DEF Alloc, Panics
<1>3. /\ r \in Regions /\ BlocksFor(r.bytes) > 0 /\ BlocksOf(r) \subseteq BlockIds
      /\ BlocksOf(r) \cap h.used = {}
  BY <1>1, <1>2, FirstFitIsFree
<1>4. Alloc(h, bytes, alignment) = [room EXCEPT !.heap = Record(@, r)]
  BY <1>2 DEF Alloc, Place
<1> HIDE DEF r
<1>5. /\ reserved \in Heaps /\ Tabled(reserved) /\ Booked(reserved, BlocksOf(r))
      /\ reserved.items = h.items /\ reserved.table = h.table
  <2>1. Booked(reserved, {} \cup BlocksOf(r))
    BY <1>1, <1>3, BookReserve
  <2>2. QED BY <1>1, <1>3, <2>1 DEF Tabled, Reserve, Heaps
<1> HIDE DEF reserved
<1>6. room \in Results
  BY <1>5, RoomTyped
<1>7. Alloc(h, bytes, alignment) = [panic |-> room.panic, heap |-> g]
  BY <1>4, <1>6 DEF Results
<1>8. room.panic = "none" /\ room.heap \in Heaps
  BY <1>6, <1>7 DEF Results
<1> HIDE DEF room
<1>9. /\ g.items = Append(room.heap.items, r) /\ g.size = room.heap.size
      /\ g.table = room.heap.table
  BY <1>8 DEF Record, Heaps
<1>10. /\ Booked(room.heap, BlocksOf(r))
       /\ \/ room.heap = reserved /\ reserved.table # NoTable
          \/ /\ reserved.table = NoTable /\ room.heap.table \in Regions
             /\ ToSet(room.heap.items) = ToSet(reserved.items) \cup {room.heap.table}
             /\ BlocksOf(room.heap.table) \cap BlocksOf(r) = {}
  BY <1>5, <1>7, <1>8, <1>9, RoomBooked DEF room
<1>11. Booked(g, {})
  <2>1. Booked(room.heap, {} \cup BlocksOf(r))
    BY <1>10
  <2>2. QED BY <1>3, <1>8, <2>1, BookRecord
<1>12. ToSet(g.items) = ToSet(room.heap.items) \cup {r}
  BY <1>3, <1>8, <1>9, CoveredAppend DEF Heaps
<1>13. r.start \in BlocksOf(r)
  BY <1>3, StartIsCovered
<1>14. r \notin ToSet(h.items)
  <2>1. \A i \in DOMAIN h.items : BlocksOf(h.items[i]) \subseteq h.used
    BY DEF Booked, Covered
  <2>2. QED BY <1>3, <1>13, <2>1 DEF ToSet
<1>15. BlocksOf(room.heap.table) \cap BlocksOf(r) = {} => room.heap.table # r
  BY <1>13
<1>16. \/ /\ g.table = h.table /\ h.table # NoTable
          /\ ToSet(g.items) = ToSet(h.items) \cup {r}
       \/ /\ h.table = NoTable /\ g.table \in Regions /\ g.table # r
          /\ ToSet(g.items) = ToSet(h.items) \cup {g.table, r}
  <2> HIDE DEF g
  <2>1. CASE room.heap = reserved /\ reserved.table # NoTable
    BY <1>5, <1>9, <1>12, <2>1
  <2>2. CASE /\ reserved.table = NoTable /\ room.heap.table \in Regions
             /\ ToSet(room.heap.items) = ToSet(reserved.items) \cup {room.heap.table}
             /\ BlocksOf(room.heap.table) \cap BlocksOf(r) = {}
    BY <1>5, <1>9, <1>12, <1>15, <2>2
  <2>3. QED BY <1>10, <2>1, <2>2
<1>17. Alloc(h, bytes, alignment).heap = g
  BY <1>7
<1> HIDE DEF g
<1>18. QED BY <1>3, <1>11, <1>14, <1>16, <1>17 DEF r

-----------------------------------------------------------------------------
(* At boot nothing is used, recorded or owned.                             *)
LEMMA InitIInv == Init => IInv
<1> SUFFICES ASSUME Init PROVE IInv
  OBVIOUS
<1>1. << >> \in Seq(Regions) /\ Len(<< >>) = 0
  BY EmptySeq
<1>2. heap \in Heaps
  BY <1>1 DEF Init, Heaps
<1>3. Tabled(heap)
  BY <1>1, <1>2, HeapAssumption DEF Init, Tabled
<1>4. DOMAIN heap.items = {}
  BY <1>1 DEF Init
<1>5. Booked(heap, {}) /\ ToSet(heap.items) = {}
  BY <1>4 DEF Init, Booked, Covered, ToSet
<1>6. QED BY <1>3, <1>5 DEF Init, IInv, Matched, Reasons

(* What a call returns is what its heap and its regions promise.           *)
LEMMA ReturnsIInv ==
  ASSUME IInv, NEW result \in Results, NEW regions, Returns(result, regions),
         result.panic = "none" => /\ Tabled(result.heap)
                                  /\ regions \subseteq Regions
                                  /\ Matched(result.heap, regions)
  PROVE  IInv'
<1>1. panic' \in Reasons
  BY DEF Returns, Results
<1>2. CASE result.panic = "none"
  <2>1. heap' = result.heap /\ owned' = regions
    BY <1>2 DEF Returns
  <2>2. Tabled(heap') /\ owned' \subseteq Regions /\ Matched(heap', owned')
    BY <1>2, <2>1
  <2>3. QED BY <1>1, <2>2 DEF IInv
<1>3. CASE result.panic # "none"
  BY <1>1, <1>3 DEF IInv, Returns
<1>4. QED BY <1>2, <1>3

(* What an allocation adds to the clients' regions is matched.             *)
LEMMA AllocMatched ==
  ASSUME IInv, NEW bytes \in Nat, NEW alignment, Alloc(heap, bytes, alignment).panic = "none"
  PROVE  LET g == Alloc(heap, bytes, alignment).heap
             r == FirstFit(heap.used, bytes, alignment)
         IN /\ Tabled(g) /\ r \in Regions
            /\ Matched(g, owned \cup {r})
            /\ g.size <= Chunk => heap.size <= Chunk /\ r \notin owned
<1> DEFINE g == Alloc(heap, bytes, alignment).heap
           r == FirstFit(heap.used, bytes, alignment)
<1>1. Tabled(heap)
  BY DEF IInv
<1>2. Tabled(g) /\ g.size >= heap.size /\ g.table # NoTable /\ r \in Regions
  BY <1>1, AllocTyped
<1>3. heap.size \in Nat /\ g.size \in Nat
  BY <1>1, <1>2 DEF Tabled, Heaps
<1>4. ASSUME g.size <= Chunk
      PROVE  heap.size <= Chunk /\ r \notin owned /\ Matched(g, owned \cup {r})
  <2>1. heap.size <= Chunk
    BY <1>2, <1>3, <1>4, HeapAssumption
  <2>2. /\ Booked(heap, {}) /\ heap.table \notin owned
        /\ ToSet(heap.items) = owned \cup ({heap.table} \ {NoTable})
    BY <2>1 DEF IInv, Matched
  <2>3. /\ Booked(g, {}) /\ r \notin ToSet(heap.items)
        /\ \/ /\ g.table = heap.table /\ heap.table # NoTable
              /\ ToSet(g.items) = ToSet(heap.items) \cup {r}
           \/ /\ heap.table = NoTable /\ g.table \in Regions /\ g.table # r
              /\ ToSet(g.items) = ToSet(heap.items) \cup {g.table, r}
    BY <1>1, <1>4, <2>2, AllocBooked
  <2> HIDE DEF g, r
  <2>4. heap.table = NoTable => owned = {}
    <3> SUFFICES ASSUME heap.table = NoTable PROVE owned = {}
      OBVIOUS
    <3>1. Len(heap.items) = 0 /\ heap.items \in Seq(Regions)
      BY <1>1, LenProperties DEF Tabled, Heaps
    <3>2. ToSet(heap.items) = {}
      BY <3>1, LenProperties DEF ToSet
    <3>3. QED BY <2>2, <3>2
  <2>5. QED BY <1>2, <2>1, <2>2, <2>3, <2>4 DEF Matched
<1>5. QED BY <1>2, <1>4 DEF Matched

(* kmalloc keeps the books.                                                *)
LEMMA KmallocIInv ==
  ASSUME IInv, NEW bytes \in Nat, NEW alignment, kmalloc_aligned(bytes, alignment)
  PROVE  IInv'
<1> DEFINE result == Alloc(heap, bytes, alignment)
           r == FirstFit(heap.used, bytes, alignment)
<1>1. result \in Results
  BY AllocTyped DEF IInv
<1>2. result.panic = "none" =>
        Tabled(result.heap) /\ r \in Regions /\ Matched(result.heap, owned \cup {r})
  BY AllocMatched
<1>3. Returns(result, owned \cup {r})
  BY DEF kmalloc_aligned
<1> HIDE DEF result, r
<1>4. QED BY <1>1, <1>2, <1>3, ReturnsIInv DEF IInv

(* What kfree of an owned region leaves is matched.                        *)
LEMMA FreeMatched ==
  ASSUME NEW h, Tabled(h), NEW regions \in SUBSET Regions, Matched(h, regions),
         NEW r \in regions
  PROVE  /\ Tabled(Free(h, r.start).heap)
         /\ Matched(Free(h, r.start).heap, regions \ {r})
<1> DEFINE g == Free(h, r.start).heap
<1>1. h \in Heaps
  BY DEF Tabled
<1>2. /\ g \in Heaps /\ Len(g.items) <= Len(h.items)
      /\ g.size = h.size /\ g.table = h.table
  BY <1>1, FreeTyped DEF Results
<1>3. Len(g.items) \in Nat /\ Len(h.items) \in Nat /\ h.size \in Nat
  BY <1>1, <1>2, LenProperties DEF Heaps
<1>4. Tabled(g)
  BY <1>2, <1>3 DEF Tabled
<1>5. ASSUME h.size <= Chunk
      PROVE  /\ Booked(g, {})
             /\ ToSet(g.items) = (regions \ {r}) \cup ({h.table} \ {NoTable})
             /\ h.table \notin regions
  <2>1. /\ Booked(h, {}) /\ r \in ToSet(h.items) /\ h.table \notin regions
        /\ ToSet(h.items) = regions \cup ({h.table} \ {NoTable})
    BY <1>5 DEF Matched
  <2>2. Booked(g, {}) /\ ToSet(g.items) = ToSet(h.items) \ {r}
    BY <1>1, <2>1, FreeBooked
  <2>3. QED BY <2>1, <2>2
<1> HIDE DEF g
<1>6. QED BY <1>2, <1>4, <1>5 DEF Matched, g

(* kfree keeps the books.                                                  *)
LEMMA KfreeIInv == ASSUME IInv, NEW r \in owned, kfree(r) PROVE IInv'
<1> DEFINE result == Free(heap, r.start)
<1>1. Tabled(heap) /\ heap \in Heaps /\ owned \in SUBSET Regions /\ Matched(heap, owned)
  BY DEF IInv, Tabled
<1>2. result \in Results
  BY <1>1, FreeTyped
<1>3. Tabled(result.heap) /\ Matched(result.heap, owned \ {r})
  BY <1>1, FreeMatched
<1>4. Returns(result, owned \ {r})
  BY DEF kfree
<1> HIDE DEF result
<1>5. QED BY <1>1, <1>2, <1>3, <1>4, ReturnsIInv

(* krealloc keeps the books: what it frees is not what it just allocated.  *)
LEMMA KreallocIInv ==
  ASSUME IInv, NEW r \in owned, NEW bytes \in Nat, krealloc(r, bytes)
  PROVE  IInv'
<1> DEFINE grown == Alloc(heap, bytes, 1)
           s == FirstFit(heap.used, bytes, 1)
           freed == IF grown.panic = "none" THEN Free(grown.heap, r.start) ELSE grown
<1>1. Returns(freed, (owned \cup {s}) \ {r})
  BY DEF krealloc
<1>2. grown \in Results
  BY AllocTyped DEF IInv
<1>3. CASE grown.panic # "none"
  <2> HIDE DEF grown, s
  <2>1. freed = grown
    BY <1>3
  <2>2. QED BY <1>1, <1>2, <1>3, <2>1, ReturnsIInv
<1>4. CASE grown.panic = "none"
  <2>1. /\ Tabled(grown.heap) /\ s \in Regions /\ Matched(grown.heap, owned \cup {s})
    BY <1>4, AllocMatched
  <2> HIDE DEF grown, s
  <2>2. freed = Free(grown.heap, r.start)
    BY <1>4
  <2> HIDE DEF freed
  <2>3. grown.heap \in Heaps /\ owned \cup {s} \in SUBSET Regions /\ r \in owned \cup {s}
    BY <2>1 DEF Tabled, IInv
  <2>4. freed \in Results
    BY <2>2, <2>3, FreeTyped
  <2>5. Tabled(freed.heap) /\ Matched(freed.heap, (owned \cup {s}) \ {r})
    BY <2>1, <2>2, <2>3, FreeMatched
  <2>6. QED BY <1>1, <2>3, <2>4, <2>5, ReturnsIInv
<1>5. QED BY <1>3, <1>4

(* Every call keeps the books.                                             *)
LEMMA NextIInv == IInv /\ [Next]_vars => IInv'
<1> SUFFICES ASSUME IInv, [Next]_vars PROVE IInv'
  OBVIOUS
<1>1. ASSUME NEW bytes \in Sizes, NEW alignment \in Alignments,
             kmalloc_aligned(bytes, alignment)
      PROVE  IInv'
  BY <1>1, KmallocIInv, HeapAssumption
<1>2. ASSUME NEW r \in owned, kfree(r)
      PROVE  IInv'
  BY <1>2, KfreeIInv
<1>3. ASSUME NEW r \in owned, NEW bytes \in Sizes, krealloc(r, bytes)
      PROVE  IInv'
  BY <1>3, KreallocIInv, HeapAssumption
<1>4. CASE UNCHANGED vars
  BY <1>4 DEF vars, IInv
<1>5. QED BY <1>1, <1>2, <1>3, <1>4 DEF Next

(* The books are kept in every reachable state.                            *)
LEMMA HeapInvariant == Spec => []IInv
BY InitIInv, NextIInv, PTL DEF Spec

(* The bitmap covers the heap and the records are regions of it.           *)
THEOREM HeapTypeCorrect == Spec => []TypeOK
<1>1. IInv => TypeOK
  BY DEF IInv, Tabled, Heaps, TypeOK, Reasons
<1>2. QED BY <1>1, HeapInvariant, PTL

(* malloc.c hands out blocks that no live allocation and not the table of  *)
(* records covers, until the table is first moved.                         *)
THEOREM HeapLiveDisjoint == Spec => []LiveDisjoint
<1>1. IInv => LiveDisjoint
  <2> SUFFICES ASSUME IInv, NeverMoved, NEW r \in Live, NEW s \in Live, r # s
               PROVE  BlocksOf(r) \cap BlocksOf(s) = {}
    BY DEF LiveDisjoint
  <2>1. Booked(heap, {}) /\ r \in ToSet(heap.items) /\ s \in ToSet(heap.items)
    BY DEF IInv, Matched, Live, NeverMoved
  <2>2. PICK i, j \in DOMAIN heap.items : r = heap.items[i] /\ s = heap.items[j]
    BY <2>1 DEF ToSet
  <2>3. QED BY <2>1, <2>2 DEF Booked
<1>2. QED BY <1>1, HeapInvariant, PTL

(* Until the table is first moved, the bitmap, the records and the live    *)
(* regions of malloc.c agree: nothing leaks, and each live region has one  *)
(* record; and the table has room for its records even after it has moved. *)
THEOREM HeapIsConsistent == Spec => []HeapConsistent
<1>1. IInv => TypeOK
  BY DEF IInv, Tabled, Heaps, TypeOK, Reasons
<1>2. IInv => UsedIsLive
  <2> SUFFICES ASSUME IInv, NeverMoved
               PROVE  heap.used = UNION {BlocksOf(r) : r \in Live}
    BY DEF UsedIsLive
  <2>1. heap.used = Covered(heap.items) /\ ToSet(heap.items) = Live
    BY DEF IInv, Matched, Booked, Live, NeverMoved
  <2>2. Covered(heap.items) = UNION {BlocksOf(r) : r \in ToSet(heap.items)}
    BY DEF Covered, ToSet
  <2>3. QED BY <2>1, <2>2
<1>3. IInv => RecordsMatchLive
  <2> SUFFICES ASSUME IInv, NeverMoved
               PROVE  /\ ToSet(heap.items) = Live
                      /\ \A i, j \in DOMAIN heap.items :
                           heap.items[i].start = heap.items[j].start => i = j
    BY DEF RecordsMatchLive
  <2>1. Booked(heap, {}) /\ ToSet(heap.items) = Live
    BY DEF IInv, Matched, Live, NeverMoved
  <2>2. \A i \in DOMAIN heap.items : heap.items[i] \in Regions
    BY LenProperties, ElementOfSeq DEF IInv, Tabled, Heaps
  <2>3. \A i \in DOMAIN heap.items : heap.items[i].start \in BlocksOf(heap.items[i])
    BY <2>1, <2>2, StartIsCovered DEF Booked
  <2>4. QED BY <2>1, <2>3 DEF Booked
<1>4. IInv => RecordsFit
  BY DEF IInv, Tabled, RecordsFit
<1>5. IInv => HeapConsistent
  BY <1>1, <1>2, <1>3, <1>4 DEF HeapConsistent
<1>6. QED BY <1>5, HeapInvariant, PTL

(* Until the table is first moved, kfree never rejects what kmalloc gave   *)
(* (malloc.c:167).                                                         *)
THEOREM OwnedCanBeFreed ==
  Spec => [](NeverMoved => \A r \in owned : Free(heap, r.start).panic = "none")
<1>1. IInv => (NeverMoved => \A r \in owned : Free(heap, r.start).panic = "none")
  <2> SUFFICES ASSUME IInv, NeverMoved, NEW r \in owned
               PROVE  Free(heap, r.start).panic = "none"
    OBVIOUS
  <2>1. heap \in Heaps /\ Booked(heap, {}) /\ r \in ToSet(heap.items)
    BY DEF IInv, Tabled, Matched, NeverMoved
  <2>2. QED BY <2>1, FreeBooked
<1>2. QED BY <1>1, HeapInvariant, PTL
=============================================================================
