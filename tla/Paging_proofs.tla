--------------------------- MODULE Paging_proofs ---------------------------
(***************************************************************************)
(* Paging keeps every user page on a frame of its own and implements       *)
(* VirtualMemory, for every size of directory, tables and heap.            *)
(*                                                                         *)
(* The inductive invariant PInv says where each frame and each table is:   *)
(* the tables are distinct heap regions, their entries are allocated user  *)
(* frames, no two pages share one, and each allocated user frame is some   *)
(* page's.  The last part is what rules out the null frame: a page that is *)
(* not mapped leaves fewer pages than frames, so a frame is clear.         *)
(***************************************************************************)
EXTENDS Paging, FiniteSetTheorems, TLAPS

FP == INSTANCE FrameAllocator_proofs WITH FirstFrame <- Entries

-----------------------------------------------------------------------------
(* The page number splits into directory index and table index.            *)
LEMMA TotalPagesNat == TotalPages \in Nat /\ Entries < TotalPages
  BY PagingAssumption DEF TotalPages

LEMMA PageSplit ==
  ASSUME NEW v \in Pages
  PROVE  /\ DirOf(v) \in DirIndexes /\ EntryOf(v) \in EntryIndexes
         /\ v = Entries * DirOf(v) + EntryOf(v)
         /\ DirOf(v) = 0 <=> v < Entries
         /\ v < Entries => EntryOf(v) = v
<1>1. v \in Nat /\ v < Dirs * Entries
  BY TotalPagesNat DEF Pages, TotalPages
<1>2. /\ v \div Entries \in Int /\ v % Entries \in 0 .. Entries - 1
      /\ v = Entries * (v \div Entries) + (v % Entries)
  BY <1>1, PagingAssumption
<1>3. v \div Entries \in 0 .. Dirs - 1
  BY <1>1, <1>2, PagingAssumption
<1>4. v \div Entries = 0 <=> v < Entries
  BY <1>1, <1>2, <1>3, PagingAssumption
<1>5. v \div Entries = 0 => v = v % Entries
  <2>1. Entries * 0 = 0
    BY PagingAssumption
  <2>2. QED BY <1>1, <1>2, <2>1
<1>6. QED BY <1>2, <1>3, <1>4, <1>5 DEF DirOf, EntryOf, DirIndexes, EntryIndexes

LEMMA PageSplitInjective ==
  ASSUME NEW v \in Pages, NEW w \in Pages, DirOf(v) = DirOf(w), EntryOf(v) = EntryOf(w)
  PROVE  v = w
  BY PageSplit

LEMMA UserPageDir ==
  ASSUME NEW v \in UserPages
  PROVE  v \in Pages /\ DirOf(v) # 0 /\ v # NullPage
  BY PageSplit, PagingAssumption, TotalPagesNat DEF UserPages, Pages, NullPage

-----------------------------------------------------------------------------
(* The frame allocator's invariant and steps, as proved in its own module. *)
LEMMA FrameAssumptionHolds == FP!FrameAssumption
  BY PagingAssumption, TotalPagesNat DEF FP!FrameAssumption

FramesInv == Frames!TypeOK /\ Frames!HintIsFree

LEMMA SameInv == FramesInv <=> FP!IInv
  BY DEF FramesInv, FP!IInv, FP!TypeOK, Frames!TypeOK, FP!HintIsFree, Frames!HintIsFree,
         FP!AllFrames, Frames!AllFrames, FP!UserFrames, Frames!UserFrames,
         FP!null, Frames!null, FP!bitmap_test, Frames!bitmap_test

LEMMA SameAlloc == FP!alloc_frame <=> Frames!alloc_frame
<1>1. ASSUME NEW f PROVE FP!HintAfter(f) = Frames!HintAfter(f)
  BY DEF FP!HintAfter, Frames!HintAfter, FP!Successor, Frames!Successor,
         FP!bitmap_test, Frames!bitmap_test, FP!null, Frames!null
<1>2. FP!OpenGroups = Frames!OpenGroups
  BY DEF FP!OpenGroups, Frames!OpenGroups, FP!bitmap_test, Frames!bitmap_test,
         FP!UserFrames, Frames!UserFrames
<1>3. FP!AllocHinted <=> Frames!AllocHinted
  BY <1>1 DEF FP!AllocHinted, Frames!AllocHinted, FP!null, Frames!null
<1>4. FP!AllocSwept <=> Frames!AllocSwept
  BY <1>1, <1>2 DEF FP!AllocSwept, Frames!AllocSwept, FP!null, Frames!null,
         FP!IsFirstOpenGroup, Frames!IsFirstOpenGroup, FP!bitmap_test, Frames!bitmap_test,
         FP!UserFrames, Frames!UserFrames
<1>5. FP!AllocFails <=> Frames!AllocFails
  BY <1>2 DEF FP!AllocFails, Frames!AllocFails, FP!null, Frames!null
<1>6. QED BY <1>3, <1>4, <1>5 DEF FP!alloc_frame, Frames!alloc_frame

LEMMA AllocStep ==
  ASSUME FramesInv, Frames!alloc_frame
  PROVE  /\ FramesInv' /\ ~panicked /\ UNCHANGED panicked
         /\ \/ /\ frame' \in UserPages \ page_bitmap
               /\ page_bitmap' = page_bitmap \cup {frame'}
            \/ /\ frame' = 0 /\ page_bitmap' = page_bitmap
               /\ UserPages \subseteq page_bitmap
<1>1. FP!IInv /\ FP!alloc_frame
  BY SameInv, SameAlloc
<1>2. FP!IInv' => FramesInv'
  BY DEF FramesInv, FP!IInv, FP!TypeOK, Frames!TypeOK, FP!HintIsFree, Frames!HintIsFree,
         FP!AllFrames, Frames!AllFrames, FP!UserFrames, Frames!UserFrames,
         FP!null, Frames!null, FP!bitmap_test, Frames!bitmap_test
<1>3. QED BY <1>1, <1>2, FrameAssumptionHolds, FP!AllocFrameStep
             DEF FP!UserFrames, FP!null, UserPages

LEMMA FreeStep ==
  ASSUME FramesInv, NEW f \in UserPages, Frames!free_frame(f)
  PROVE  /\ FramesInv' /\ ~panicked /\ UNCHANGED panicked
         /\ f \in page_bitmap /\ page_bitmap' = page_bitmap \ {f}
  BY PagingAssumption, TotalPagesNat
     DEF FramesInv, Frames!TypeOK, Frames!HintIsFree, Frames!free_frame, Frames!AllFrames,
         Frames!UserFrames, Frames!null, Frames!bitmap_test, UserPages

LEMMA FramesInit == Frames!Init => FramesInv
<1>1. 0 .. Entries - 1 \subseteq 0 .. TotalPages - 1
  BY PagingAssumption, TotalPagesNat
<1>2. QED BY <1>1 DEF Frames!Init, FramesInv, Frames!TypeOK, Frames!HintIsFree,
                       Frames!AllFrames, Frames!null

-----------------------------------------------------------------------------
(* The directory and the tables.                                           *)
TInv == TypeOK /\ TablesCounted /\ KernelIdentityMapped

LEMMA CountTo ==
  ASSUME TypeOK, NEW d \in DirIndexes, NEW delta \in Int, Count(d, delta),
         page_directory_counts[d] + delta \in 0 .. CountMod - 1
  PROVE  /\ page_directory_counts' \in [DirIndexes -> 0 .. CountMod - 1]
         /\ page_directory_counts'[d] = page_directory_counts[d] + delta
         /\ \A c \in DirIndexes \ {d} : page_directory_counts'[c] = page_directory_counts[c]
<1>1. u16(page_directory_counts[d] + delta) = page_directory_counts[d] + delta
  BY PagingAssumption DEF u16
<1>2. page_directory_counts' =
        [page_directory_counts EXCEPT ![d] = page_directory_counts[d] + delta]
  BY <1>1 DEF Count
<1>3. QED BY <1>2 DEF TypeOK

LEMMA PresentInFinite ==
  ASSUME NEW table
  PROVE  IsFiniteSet(PresentIn(table)) /\ Cardinality(PresentIn(table)) \in 0 .. Entries
<1>1. IsFiniteSet(EntryIndexes) /\ Cardinality(EntryIndexes) = Entries
  <2>1. 0 \in Int /\ Entries - 1 \in Int /\ ~(0 > Entries - 1)
    BY PagingAssumption
  <2>2. Entries - 1 - 0 + 1 = Entries
    BY PagingAssumption
  <2>3. QED BY <2>1, <2>2, FS_Interval DEF EntryIndexes
<1>2. PresentIn(table) \subseteq EntryIndexes
  BY DEF PresentIn
<1>3. QED BY <1>1, <1>2, FS_Subset, FS_CardinalityType, PagingAssumption

LEMMA TablesDistinct ==
  ASSUME TInv, NEW c \in DirIndexes, NEW d \in DirIndexes, c # d, pd[d] # absent
  PROVE  pd[c] # pd[d]
  BY DEF TInv, TypeOK, TablesCounted

LEMMA KernelPagesPresent ==
  ASSUME TInv, NEW v \in Pages \ UserPages, v # NullPage
  PROVE  Present(v)
  BY PagingAssumption DEF TInv, KernelIdentityMapped, Present, Pages, UserPages, NullPage

(* A step of alloc_page_at_addr that maps v gives it the frame allocated   *)
(* and leaves every other page as it was.                                  *)
LEMMA MapsOnly ==
  ASSUME TInv, NEW v \in Pages, Maps(v), frame' # absent
  PROVE  /\ v \in UserPages /\ ~Present(v) /\ Frames!alloc_frame
         /\ Phys(v)' = frame'
         /\ \A w \in Pages \ {v} : Phys(w)' = Phys(w)
<1> DEFINE d == DirOf(v)
           e == EntryOf(v)
<1>1. d \in DirIndexes /\ e \in EntryIndexes
  BY PageSplit
<1>2. CASE MapsInTable(v)
  <2>1. ~Present(v) /\ Frames!alloc_frame /\ v # NullPage /\ pd[d] # absent
    BY <1>2 DEF MapsInTable, Mappable
  <2>2. pd' = pd /\ pt' = [pt EXCEPT ![pd[d]][e] = frame']
    BY <1>2 DEF MapsInTable
  <2>3. pd[d] \in Tables /\ pt[pd[d]] \in [EntryIndexes -> Frames!AllFrames \cup {absent}]
    BY <1>1, <2>1 DEF TInv, TypeOK
  <2>4. pt'[pd[d]][e] = frame'
    BY <1>1, <2>2, <2>3 DEF TInv, TypeOK
  <2>5. ASSUME NEW w \in Pages \ {v} PROVE Phys(w)' = Phys(w)
    <3>1. DirOf(w) \in DirIndexes /\ EntryOf(w) \in EntryIndexes
      BY PageSplit
    <3>2. CASE DirOf(w) = d
      <4>1. EntryOf(w) # e
        BY <3>2, PageSplitInjective
      <4>2. QED BY <3>1, <3>2, <4>1, <2>2, <2>3 DEF Phys, TInv, TypeOK
    <3>3. CASE DirOf(w) # d
      <4>1. pd[DirOf(w)] # pd[d]
        BY <1>1, <2>1, <3>1, <3>3, TablesDistinct
      <4>2. QED BY <3>1, <4>1, <2>2, <2>3 DEF Phys, TInv, TypeOK
    <3>4. QED BY <3>2, <3>3
  <2>6. v \in UserPages
    BY <2>1, KernelPagesPresent
  <2>7. Phys(v)' = frame'
    BY <2>1, <2>2, <2>4 DEF Phys
  <2>8. QED BY <2>1, <2>5, <2>6, <2>7
<1>3. CASE MapsNewTable(v)
  <2>1. PICK t \in TableRegions :
          /\ heap[t] = "free" /\ pd[d] = absent /\ Frames!alloc_frame
          /\ pd' = [pd EXCEPT ![d] = t]
          /\ pt' = [pt EXCEPT ![t] = [EmptyTable EXCEPT ![e] = frame']]
    BY <1>3 DEF MapsNewTable, FreeRegions
  <2>2. pt'[t] = [EmptyTable EXCEPT ![e] = frame'] /\ pd'[d] = t /\ t # absent
    BY <1>1, <2>1, PagingAssumption DEF TInv, TypeOK, Tables
  <2>3. Phys(v)' = frame'
    BY <1>1, <2>2 DEF Phys, EmptyTable
  <2>4. ~Present(v) /\ Phys(v) = absent
    BY <2>1 DEF Present, Phys
  <2>5. v # NullPage
    <3>1. d # 0
      BY <2>1, <1>1, PagingAssumption DEF TInv, TypeOK
    <3>2. QED BY <3>1, PageSplit, PagingAssumption DEF NullPage
  <2>6. ASSUME NEW w \in Pages \ {v} PROVE Phys(w)' = Phys(w)
    <3>1. DirOf(w) \in DirIndexes /\ EntryOf(w) \in EntryIndexes
      BY PageSplit
    <3>2. CASE DirOf(w) = d
      <4>1. EntryOf(w) # e
        BY <3>2, PageSplitInjective
      <4>2. QED BY <3>1, <3>2, <4>1, <2>1, <2>2 DEF Phys, EmptyTable
    <3>3. CASE DirOf(w) # d
      <4>1. pd[DirOf(w)] # t
        BY <2>1, <3>1, PagingAssumption DEF TInv, TypeOK, TablesCounted
      <4>2. pd'[DirOf(w)] = pd[DirOf(w)]
        BY <2>1, <3>1, <3>3 DEF TInv, TypeOK
      <4>3. pd[DirOf(w)] # absent => pt'[pd[DirOf(w)]] = pt[pd[DirOf(w)]]
        BY <2>1, <3>1, <4>1 DEF TInv, TypeOK
      <4>4. QED BY <4>2, <4>3 DEF Phys
    <3>4. QED BY <3>2, <3>3
  <2>7. v \in UserPages
    BY <2>4, <2>5, KernelPagesPresent
  <2>8. QED BY <2>1, <2>3, <2>4, <2>6, <2>7
<1>4. QED BY <1>2, <1>3 DEF Maps

(* ... and the counts and the heap follow.                                 *)
LEMMA MapsCounted ==
  ASSUME TInv, NEW v \in Pages, Maps(v), frame' \in Frames!AllFrames, Frames!TypeOK',
         UNCHANGED call \/ call' \in Calls
  PROVE  TypeOK' /\ TablesCounted'
<1> DEFINE d == DirOf(v)
           e == EntryOf(v)
<1> USE PagingAssumption
<1>1. d \in DirIndexes /\ e \in EntryIndexes
  BY PageSplit
<1>2. frame' # absent
  BY TotalPagesNat DEF Frames!AllFrames
<1>3. v \in UserPages /\ ~Present(v)
  BY <1>2, MapsOnly
<1>4. d # 0
  BY <1>3, UserPageDir
<1>5. call' \in Calls
  BY DEF TInv, TypeOK
<1>6. CASE MapsInTable(v)
  <2>1. /\ pd[d] # absent /\ pd' = pd /\ heap' = heap
        /\ pt' = [pt EXCEPT ![pd[d]][e] = frame'] /\ Count(d, 1)
    BY <1>6 DEF MapsInTable
  <2> DEFINE old == PresentIn(pt[pd[d]])
  <2>2. pd[d] \in TableRegions
    BY <1>1, <1>4, <2>1 DEF TInv, TypeOK, Tables
  <2>3. page_directory_counts[d] = Cardinality(old)
    BY <1>1, <1>4, <2>1 DEF TInv, TablesCounted
  <2>4. PresentIn(pt'[pd[d]]) = old \cup {e} /\ e \notin old
    <3>1. pt[pd[d]][e] = absent
      BY <1>3, <2>1 DEF Present, Phys
    <3>2. pt'[pd[d]] = [pt[pd[d]] EXCEPT ![e] = frame']
      BY <2>1, <2>2 DEF TInv, TypeOK, Tables
    <3>3. pt[pd[d]] \in [EntryIndexes -> Frames!AllFrames \cup {absent}]
      BY <2>2 DEF TInv, TypeOK, Tables
    <3>4. QED BY <1>1, <1>2, <3>1, <3>2, <3>3 DEF PresentIn
  <2>5. Cardinality(PresentIn(pt'[pd[d]])) = Cardinality(old) + 1
    BY <2>4, PresentInFinite, FS_AddElement
  <2>6. Cardinality(old) + 1 \in 1 .. Entries
    BY <2>5, PresentInFinite
  <2>7. /\ page_directory_counts' \in [DirIndexes -> 0 .. CountMod - 1]
        /\ page_directory_counts'[d] = Cardinality(old) + 1
        /\ \A c \in DirIndexes \ {d} : page_directory_counts'[c] = page_directory_counts[c]
    <3>1. page_directory_counts[d] + 1 \in 0 .. CountMod - 1
      BY <2>3, <2>6
    <3>2. QED BY <1>1, <2>1, <2>3, <3>1, CountTo DEF TInv
  <2>8. TypeOK'
    <3>1. pt' \in [Tables -> [EntryIndexes -> Frames!AllFrames \cup {absent}]]
      BY <1>1, <2>1, <2>2 DEF TInv, TypeOK, Tables
    <3>2. QED BY <1>5, <2>1, <2>7, <3>1 DEF TInv, TypeOK, Frames!AllFrames
  <2>9. TablesCounted'
    <3>1. ASSUME NEW c \in DirIndexes \ {0}
          PROVE  /\ pd'[c] = absent <=> page_directory_counts'[c] = 0
                 /\ pd'[c] # absent =>
                      page_directory_counts'[c] = Cardinality(PresentIn(pt'[pd'[c]]))
      <4>1. CASE c = d
        BY <1>1, <2>1, <2>5, <2>6, <2>7, <4>1
      <4>2. CASE c # d
        <5>1. page_directory_counts'[c] = page_directory_counts[c]
          BY <2>7, <4>2 DEF TInv, TypeOK
        <5>2. pd[c] # absent => pd[c] # pd[d] /\ pt'[pd[c]] = pt[pd[c]]
          BY <1>1, <2>1, <4>2, TablesDistinct DEF TInv, TypeOK
        <5>3. QED BY <2>1, <5>1, <5>2 DEF TInv, TablesCounted
      <4>3. QED BY <4>1, <4>2
    <3>2. QED BY <2>1, <3>1 DEF TInv, TablesCounted
  <2>10. QED BY <2>8, <2>9
<1>7. CASE MapsNewTable(v)
  <2>1. PICK t \in TableRegions :
          /\ heap[t] = "free" /\ pd[d] = absent
          /\ heap' = [heap EXCEPT ![t] = "table"]
          /\ pd' = [pd EXCEPT ![d] = t]
          /\ pt' = [pt EXCEPT ![t] = [EmptyTable EXCEPT ![e] = frame']]
          /\ Count(d, 1)
    BY <1>7 DEF MapsNewTable, FreeRegions
  <2>2. page_directory_counts[d] = 0
    BY <1>1, <1>4, <2>1 DEF TInv, TablesCounted
  <2>3. /\ page_directory_counts' \in [DirIndexes -> 0 .. CountMod - 1]
        /\ page_directory_counts'[d] = 1
        /\ \A c \in DirIndexes \ {d} : page_directory_counts'[c] = page_directory_counts[c]
    BY <1>1, <2>1, <2>2, CountTo DEF TInv
  <2>4. pt'[t] = [EmptyTable EXCEPT ![e] = frame'] /\ pd'[d] = t
    BY <1>1, <2>1 DEF TInv, TypeOK, Tables
  <2>5. Cardinality(PresentIn(pt'[t])) = 1
    <3>1. PresentIn(pt'[t]) = {} \cup {e}
      BY <1>1, <1>2, <2>4 DEF PresentIn, EmptyTable
    <3>2. Cardinality({} \cup {e}) = Cardinality({}) + 1
      BY FS_EmptySet, FS_AddElement
    <3>3. QED BY <3>1, <3>2, FS_EmptySet
  <2>6. \A c \in DirIndexes : pd[c] # t
    BY <2>1 DEF TInv, TypeOK, TablesCounted
  <2>7. TypeOK'
    <3>1. pt' \in [Tables -> [EntryIndexes -> Frames!AllFrames \cup {absent}]]
      BY <1>1, <2>1 DEF TInv, TypeOK, Tables, EmptyTable
    <3>2. pd' \in [DirIndexes -> Tables \cup {absent}] /\ \A c \in DirIndexes : pd'[c] = KernelTable <=> c = 0
      BY <1>1, <1>4, <2>1 DEF TInv, TypeOK, Tables
    <3>3. QED BY <1>5, <2>1, <2>3, <3>1, <3>2 DEF TInv, TypeOK, Frames!AllFrames
  <2>8. TablesCounted'
    <3>1. ASSUME NEW c \in DirIndexes \ {0}
          PROVE  /\ pd'[c] = absent <=> page_directory_counts'[c] = 0
                 /\ pd'[c] # absent =>
                      page_directory_counts'[c] = Cardinality(PresentIn(pt'[pd'[c]]))
                 /\ \A b \in DirIndexes \ {0, c} : pd'[c] # absent => pd'[b] # pd'[c]
      <4>1. CASE c = d
        BY <2>1, <2>3, <2>4, <2>5, <2>6, <4>1 DEF TInv, TypeOK
      <4>2. CASE c # d
        <5>1. page_directory_counts'[c] = page_directory_counts[c] /\ pd'[c] = pd[c]
          BY <2>1, <2>3, <4>2 DEF TInv, TypeOK
        <5>2. pd[c] # absent => pt'[pd[c]] = pt[pd[c]]
          BY <2>1, <2>6, <4>2 DEF TInv, TypeOK
        <5>3. \A b \in DirIndexes \ {0, c} : pd[c] # absent => pd'[b] # pd[c]
          BY <1>1, <2>1, <2>6, <4>2 DEF TInv, TypeOK, TablesCounted
        <5>4. QED BY <5>1, <5>2, <5>3 DEF TInv, TablesCounted
      <4>3. QED BY <4>1, <4>2
    <3>2. {r \in TableRegions : heap'[r] = "table"} = {r \in TableRegions : heap[r] = "table"} \cup {t}
      BY <2>1 DEF TInv, TypeOK
    <3>3. {pd'[c] : c \in DirIndexes} \ {KernelTable, absent}
            = ({pd[c] : c \in DirIndexes} \ {KernelTable, absent}) \cup {t}
      BY <1>1, <2>1 DEF TInv, TypeOK
    <3>4. QED BY <3>1, <3>2, <3>3 DEF TInv, TablesCounted
  <2>9. QED BY <2>7, <2>8
<1>8. QED BY <1>6, <1>7 DEF Maps

(* free_page of a user page clears that page and no other, keeps the       *)
(* counts, and frees the table exactly with its last entry.                *)
LEMMA FreeOnly ==
  ASSUME TInv, NEW v \in UserPages, free_page(v), Frames!TypeOK'
  PROVE  /\ TypeOK' /\ TablesCounted'
         /\ Phys(v)' = absent
         /\ \A w \in Pages \ {v} : Phys(w)' = Phys(w)
<1> DEFINE d == DirOf(v)
           e == EntryOf(v)
           t == pd[d]
           old == PresentIn(pt[t])
<1> USE PagingAssumption
<1>1. v \in Pages /\ d \in DirIndexes \ {0} /\ e \in EntryIndexes
  BY PageSplit, UserPageDir
<1>2. t # absent /\ pt[t][e] # absent
  BY DEF free_page, Present, Phys
<1>3. t \in TableRegions
  BY <1>1, <1>2 DEF TInv, TypeOK, Tables
<1>4. /\ pt' = [pt EXCEPT ![t][e] = absent] /\ call' = call /\ Count(d, -1)
      /\ pt[t] \in [EntryIndexes -> Frames!AllFrames \cup {absent}]
  BY <1>3 DEF free_page, ClearsEntry, TInv, TypeOK, Tables
<1>5. pt' \in [Tables -> [EntryIndexes -> Frames!AllFrames \cup {absent}]]
  BY <1>1, <1>3, <1>4 DEF TInv, TypeOK, Tables
<1>6. pt'[t] = [pt[t] EXCEPT ![e] = absent] /\ \A r \in Tables \ {t} : pt'[r] = pt[r]
  BY <1>3, <1>4 DEF TInv, TypeOK, Tables
<1>7. PresentIn(pt'[t]) = old \ {e} /\ e \in old
  BY <1>1, <1>2, <1>4, <1>6 DEF PresentIn
<1>8. page_directory_counts[d] = Cardinality(old)
  BY <1>1, <1>2 DEF TInv, TablesCounted
<1>9. /\ Cardinality(PresentIn(pt'[t])) = Cardinality(old) - 1
      /\ Cardinality(old) \in 1 .. Entries
  <2>1. IsFiniteSet(old) /\ Cardinality(old) \in 0 .. Entries
    BY PresentInFinite
  <2>2. Cardinality(old \ {e}) = Cardinality(old) - 1
    BY <1>7, <2>1, FS_RemoveElement
  <2>3. Cardinality(PresentIn(pt'[t])) \in 0 .. Entries
    BY PresentInFinite
  <2>4. QED BY <1>7, <2>1, <2>2, <2>3
<1>10. page_directory_counts[d] + (-1) = Cardinality(old) - 1 /\ Cardinality(old) - 1 \in 0 .. CountMod - 1
  BY <1>8, <1>9
<1>11. /\ page_directory_counts' \in [DirIndexes -> 0 .. CountMod - 1]
       /\ page_directory_counts'[d] = Cardinality(old) - 1
       /\ \A c \in DirIndexes \ {d} : page_directory_counts'[c] = page_directory_counts[c]
  BY <1>1, <1>4, <1>10, CountTo DEF TInv
<1>12. Empties(d) <=> Cardinality(old) = 1
  BY <1>8, <1>9 DEF Empties, u16
<1>13. \A c \in DirIndexes \ {d} : pd[c] # t
  BY <1>1, <1>2, TablesDistinct
<1>14. ASSUME NEW c \in DirIndexes \ {d}, pd[c] # absent PROVE pt'[pd[c]] = pt[pd[c]]
  BY <1>6, <1>13, <1>14 DEF TInv, TypeOK
<1>15. CASE Empties(d)
  <2>1. /\ heap' = [heap EXCEPT ![t] = "free"] /\ pd' = [pd EXCEPT ![d] = absent]
    BY <1>15 DEF free_page
  <2>2. pd'[d] = absent /\ \A c \in DirIndexes \ {d} : pd'[c] = pd[c]
    BY <1>1, <2>1 DEF TInv, TypeOK
  <2>3. TypeOK'
    <3>1. pd' \in [DirIndexes -> Tables \cup {absent}] /\ \A c \in DirIndexes : pd'[c] = KernelTable <=> c = 0
      BY <1>1, <2>1 DEF TInv, TypeOK, Tables
    <3>2. heap' \in [TableRegions -> {"free", "table", "other"}]
      BY <2>1 DEF TInv, TypeOK
    <3>3. QED BY <1>4, <1>5, <1>11, <3>1, <3>2 DEF TInv, TypeOK, Frames!AllFrames
  <2>4. PresentIn(pt'[t]) = {}
    BY <1>9, <1>12, <1>15, PresentInFinite, FS_EmptySet
  <2>5. ASSUME NEW w \in Pages \ {v} PROVE Phys(w)' = Phys(w)
    <3>1. DirOf(w) \in DirIndexes /\ EntryOf(w) \in EntryIndexes
      BY PageSplit
    <3>2. CASE DirOf(w) = d
      <4>1. EntryOf(w) # e
        BY <1>1, <3>2, PageSplitInjective
      <4>2. pt[t][EntryOf(w)] = absent
        BY <1>4, <1>6, <2>4, <3>1, <4>1 DEF PresentIn
      <4>3. QED BY <2>2, <3>2, <4>2 DEF Phys
    <3>3. CASE DirOf(w) # d
      BY <1>14, <2>2, <3>1, <3>3 DEF Phys
    <3>4. QED BY <3>2, <3>3
  <2>6. TablesCounted'
    <3>1. ASSUME NEW c \in DirIndexes \ {0}
          PROVE  /\ pd'[c] = absent <=> page_directory_counts'[c] = 0
                 /\ pd'[c] # absent =>
                      page_directory_counts'[c] = Cardinality(PresentIn(pt'[pd'[c]]))
                 /\ \A b \in DirIndexes \ {0, c} : pd'[c] # absent => pd'[b] # pd'[c]
      <4>1. CASE c = d
        BY <1>9, <1>11, <1>12, <1>15, <2>2, <4>1
      <4>2. CASE c # d
        BY <1>11, <1>14, <2>2, <4>2 DEF TInv, TablesCounted
      <4>3. QED BY <4>1, <4>2
    <3>2. {r \in TableRegions : heap'[r] = "table"} = {r \in TableRegions : heap[r] = "table"} \ {t}
      BY <1>3, <2>1 DEF TInv, TypeOK
    <3>3. {pd'[c] : c \in DirIndexes} \ {KernelTable, absent}
            = ({pd[c] : c \in DirIndexes} \ {KernelTable, absent}) \ {t}
      BY <1>1, <1>3, <1>13, <2>2
    <3>4. QED BY <3>1, <3>2, <3>3 DEF TInv, TablesCounted
  <2>7. QED BY <2>2, <2>3, <2>5, <2>6 DEF Phys
<1>16. CASE ~Empties(d)
  <2>1. heap' = heap /\ pd' = pd
    BY <1>16 DEF free_page
  <2>2. TypeOK'
    BY <1>4, <1>5, <1>11, <2>1 DEF TInv, TypeOK, Frames!AllFrames
  <2>3. TablesCounted'
    <3>1. ASSUME NEW c \in DirIndexes \ {0}
          PROVE  /\ pd[c] = absent <=> page_directory_counts'[c] = 0
                 /\ pd[c] # absent =>
                      page_directory_counts'[c] = Cardinality(PresentIn(pt'[pd[c]]))
      <4>1. CASE c = d
        BY <1>2, <1>9, <1>11, <1>12, <1>16, <4>1
      <4>2. CASE c # d
        BY <1>11, <1>14, <4>2 DEF TInv, TablesCounted
      <4>3. QED BY <4>1, <4>2
    <3>2. QED BY <2>1, <3>1 DEF TInv, TablesCounted
  <2>4. ASSUME NEW w \in Pages \ {v} PROVE Phys(w)' = Phys(w)
    <3>1. DirOf(w) \in DirIndexes /\ EntryOf(w) \in EntryIndexes
      BY PageSplit
    <3>2. CASE DirOf(w) = d
      <4>1. EntryOf(w) # e
        BY <1>1, <3>2, PageSplitInjective
      <4>2. QED BY <1>4, <1>6, <2>1, <3>1, <3>2, <4>1 DEF Phys
    <3>3. CASE DirOf(w) # d
      BY <1>14, <2>1, <3>1, <3>3 DEF Phys
    <3>4. QED BY <3>2, <3>3
  <2>5. Phys(v)' = absent
    BY <1>1, <1>4, <1>6, <2>1 DEF Phys
  <2>6. QED BY <2>2, <2>3, <2>4, <2>5
<1>17. QED BY <1>15, <1>16

-----------------------------------------------------------------------------
(* The inductive invariant: the table part, the frame part, and the null   *)
(* page, which maps frame 0 when it is readable.                           *)
NullPageMapsNull == Phys(NullPage) \in {0, absent}

BaseInv == /\ TInv /\ Frames!HintIsFree
           /\ FramesExclusive /\ FramesAccounted /\ NullPageMapsNull

(* Fewer pages mapped than frames: while a user page is absent, some user  *)
(* frame is clear.                                                         *)
LEMMA FrameRemains ==
  ASSUME FramesAccounted, NEW v \in UserPages, ~Present(v)
  PROVE  ~(UserPages \subseteq page_bitmap)
<1> SUFFICES ASSUME UserPages \subseteq page_bitmap PROVE FALSE
  OBVIOUS
<1> DEFINE Used == {Phys(w) : w \in Mapped}
           f == [w \in Mapped |-> Phys(w)]
<1>1. IsFiniteSet(UserPages)
  <2>1. Entries \in Int /\ TotalPages - 1 \in Int
    BY PagingAssumption, TotalPagesNat
  <2>2. QED BY <2>1, FS_Interval DEF UserPages
<1>2. UserPages \subseteq Used
  BY PagingAssumption DEF FramesAccounted, UserPages
<1>3. Mapped \subseteq UserPages \ {v}
  BY DEF Mapped
<1>4. /\ IsFiniteSet(UserPages \ {v})
      /\ Cardinality(UserPages \ {v}) = Cardinality(UserPages) - 1
  BY <1>1, FS_RemoveElement
<1>5. IsFiniteSet(Mapped) /\ Cardinality(Mapped) <= Cardinality(UserPages \ {v})
  BY <1>3, <1>4, FS_Subset
<1>6. f \in Surjection(Mapped, Used)
  BY DEF Surjection
<1>7. IsFiniteSet(Used) /\ Cardinality(Used) <= Cardinality(Mapped)
  BY <1>5, <1>6, FS_Surjection
<1>8. Cardinality(UserPages) <= Cardinality(Used)
  BY <1>2, <1>7, FS_Subset
<1>9. Cardinality(UserPages) \in Nat /\ Cardinality(Used) \in Nat /\ Cardinality(Mapped) \in Nat
  BY <1>1, <1>5, <1>7, FS_CardinalityType
<1>10. QED BY <1>4, <1>5, <1>7, <1>8, <1>9

(* Mapping a page preserves the invariant and is a Map of VirtualMemory.   *)
LEMMA MapStep ==
  ASSUME BaseInv, NEW v \in Pages, Maps(v), UNCHANGED call \/ call' \in Calls
  PROVE  /\ BaseInv' /\ Memory!Map
         /\ v \in UserPages /\ ~Present(v) /\ Present(v)'
         /\ \A w \in Pages \ {v} : Phys(w)' = Phys(w)
<1> USE PagingAssumption
<1>1. Frames!alloc_frame
  BY DEF Maps, MapsInTable, MapsNewTable
<1>2. FramesInv /\ TInv
  BY DEF BaseInv, TInv, TypeOK, FramesInv
<1>3. /\ FramesInv'
      /\ \/ frame' \in UserPages \ page_bitmap /\ page_bitmap' = page_bitmap \cup {frame'}
         \/ frame' = 0 /\ page_bitmap' = page_bitmap /\ UserPages \subseteq page_bitmap
  BY <1>1, <1>2, AllocStep
<1>4. frame' \in Frames!AllFrames /\ frame' # absent
  BY <1>3, TotalPagesNat DEF Frames!AllFrames, UserPages
<1>5. /\ v \in UserPages /\ ~Present(v) /\ Phys(v)' = frame'
      /\ \A w \in Pages \ {v} : Phys(w)' = Phys(w)
  BY <1>2, <1>4, MapsOnly
<1>6. frame' \in UserPages \ page_bitmap /\ page_bitmap' = page_bitmap \cup {frame'}
  BY <1>3, <1>5, FrameRemains DEF BaseInv
<1>7. TypeOK' /\ TablesCounted'
  BY <1>2, <1>3, <1>4, MapsCounted DEF FramesInv
<1>8. UserPages \subseteq Pages
  BY UserPageDir
<1>9. KernelIdentityMapped' /\ NullPageMapsNull'
  <2>1. \A w \in 0 .. Entries - 1 : w \in Pages \ {v}
    BY <1>5, TotalPagesNat DEF UserPages, Pages
  <2>2. QED BY <1>2, <1>5, <2>1 DEF BaseInv, TInv, KernelIdentityMapped, NullPageMapsNull, NullPage
<1>10. \A w \in UserPages : Present(w) => Phys(w) \in page_bitmap \ (0 .. Entries - 1)
  BY DEF BaseInv, FramesAccounted, Mapped
<1>11. Present(v)' /\ \A w \in UserPages \ {v} : Present(w)' <=> Present(w)
  BY <1>4, <1>5, <1>8 DEF Present
<1>12. FramesExclusive'
  <2> SUFFICES ASSUME NEW u \in UserPages, NEW w \in UserPages, Present(u)', Phys(u)' = Phys(w)'
               PROVE  u = w
    BY DEF FramesExclusive
  <2>1. CASE u # v /\ w # v
    BY <1>5, <1>8, <1>11, <2>1 DEF BaseInv, FramesExclusive
  <2>2. CASE u = v /\ w # v
    <3>1. Phys(w) = frame' /\ Present(w)
      BY <1>4, <1>5, <1>8, <2>2 DEF Present
    <3>2. QED BY <1>6, <1>10, <3>1
  <2>3. CASE u # v /\ w = v
    <3>1. Phys(u) = frame' /\ Present(u)
      BY <1>4, <1>5, <1>8, <2>3 DEF Present
    <3>2. QED BY <1>6, <1>10, <3>1
  <2>4. QED BY <2>1, <2>2, <2>3
<1>13. FramesAccounted'
  <2>1. page_bitmap' \ (0 .. Entries - 1) = (page_bitmap \ (0 .. Entries - 1)) \cup {frame'}
    BY <1>6 DEF UserPages
  <2>2. {w \in UserPages : Present(w)'} = Mapped \cup {v}
    BY <1>5, <1>11 DEF Mapped
  <2>3. {Phys(w)' : w \in Mapped \cup {v}} = {Phys(w) : w \in Mapped} \cup {frame'}
    BY <1>5, <1>8 DEF Mapped
  <2>4. QED BY <2>1, <2>2, <2>3 DEF BaseInv, FramesAccounted, Mapped
<1>14. Memory!Map
  <2>1. \A w \in UserPages : Phys(w) # frame'
    BY <1>4, <1>6, <1>10 DEF Present
  <2>2. frame' \in Frames!UserFrames
    BY <1>6 DEF Frames!UserFrames, UserPages
  <2>3. frame' \in Frames!UserFrames \ {[w \in UserPages |-> Phys(w)][u] : u \in UserPages}
    BY <2>1, <2>2
  <2>4. [w \in UserPages |-> Phys(w)'] = [[w \in UserPages |-> Phys(w)] EXCEPT ![v] = frame']
    BY <1>5, <1>8
  <2>5. [w \in UserPages |-> Phys(w)][v] = absent
    BY <1>5 DEF Present
  <2>6. QED BY <1>5, <2>3, <2>4, <2>5 DEF Memory!Map, Memory!InUse, Backing
<1>15. QED BY <1>2, <1>3, <1>5, <1>7, <1>9, <1>11, <1>12, <1>13, <1>14
              DEF BaseInv, TInv, FramesInv

(* free_page only ever runs on a user page: the frames below 4 MiB, which  *)
(* back the kernel and the null page, are refused by free_frame.           *)
LEMMA FreedIsUser ==
  ASSUME BaseInv, NEW v \in Pages, free_page(v)
  PROVE  v \in UserPages /\ Phys(v) \in UserPages
<1> USE PagingAssumption
<1>1. Present(v) /\ Phys(v) >= Entries
  BY DEF free_page, Frames!free_frame
<1>2. v \in UserPages
  <2> SUFFICES ASSUME v \notin UserPages PROVE FALSE
    OBVIOUS
  <2>1. v \in 0 .. Entries - 1
    BY TotalPagesNat DEF Pages, UserPages
  <2>2. Phys(v) = v \/ Phys(v) = 0
    BY <1>1, <2>1 DEF BaseInv, TInv, KernelIdentityMapped, NullPageMapsNull, NullPage, Present
  <2>3. QED BY <1>1, <2>1, <2>2
<1>3. Phys(v) \in page_bitmap \ (0 .. Entries - 1)
  BY <1>1, <1>2 DEF BaseInv, FramesAccounted, Mapped
<1>4. page_bitmap \subseteq 0 .. TotalPages - 1
  BY DEF BaseInv, TInv, TypeOK, Frames!TypeOK, Frames!AllFrames
<1>5. Phys(v) \in 0 .. TotalPages - 1 /\ Phys(v) \notin 0 .. Entries - 1
  BY <1>3, <1>4
<1>6. QED BY <1>2, <1>5, TotalPagesNat DEF UserPages

(* Freeing a page preserves the invariant and is an Unmap of VirtualMemory. *)
LEMMA FreePageStep ==
  ASSUME BaseInv, NEW v \in Pages, free_page(v)
  PROVE  BaseInv' /\ Memory!Unmap
<1> USE PagingAssumption
<1>1. v \in UserPages /\ Phys(v) \in UserPages /\ Present(v)
  BY FreedIsUser DEF free_page
<1>2. FramesInv' /\ page_bitmap' = page_bitmap \ {Phys(v)}
  BY <1>1, FreeStep DEF free_page, FramesInv, BaseInv, TInv, TypeOK
<1>3. /\ TypeOK' /\ TablesCounted' /\ Phys(v)' = absent
      /\ \A w \in Pages \ {v} : Phys(w)' = Phys(w)
  BY <1>1, <1>2, FreeOnly DEF BaseInv, FramesInv
<1>4. UserPages \subseteq Pages
  BY UserPageDir
<1>5. KernelIdentityMapped' /\ NullPageMapsNull'
  <2>1. \A w \in 0 .. Entries - 1 : w \in Pages \ {v}
    BY <1>1, TotalPagesNat DEF UserPages, Pages
  <2>2. QED BY <1>3, <2>1 DEF BaseInv, TInv, KernelIdentityMapped, NullPageMapsNull, NullPage
<1>6. ~Present(v)' /\ \A w \in UserPages \ {v} : Present(w)' <=> Present(w)
  BY <1>3, <1>4 DEF Present
<1>7. FramesExclusive'
  <2> SUFFICES ASSUME NEW u \in UserPages, NEW w \in UserPages, Present(u)', Phys(u)' = Phys(w)'
               PROVE  u = w
    BY DEF FramesExclusive
  <2>1. u # v /\ Present(u) /\ Phys(u)' = Phys(u)
    BY <1>3, <1>4, <1>6
  <2>2. w # v
    BY <1>3, <2>1 DEF Present
  <2>3. Phys(w)' = Phys(w)
    BY <1>3, <1>4, <2>2
  <2>4. QED BY <2>1, <2>3 DEF BaseInv, FramesExclusive
<1>8. FramesAccounted'
  <2>1. page_bitmap' \ (0 .. Entries - 1) = (page_bitmap \ (0 .. Entries - 1)) \ {Phys(v)}
    BY <1>2
  <2>2. {w \in UserPages : Present(w)'} = Mapped \ {v}
    BY <1>6 DEF Mapped
  <2>3. \A w \in Mapped \ {v} : Phys(w) # Phys(v)
    BY <1>1 DEF Mapped, BaseInv, FramesExclusive
  <2>4. {Phys(w)' : w \in Mapped \ {v}} = {Phys(w) : w \in Mapped} \ {Phys(v)}
    BY <1>3, <1>4, <2>3 DEF Mapped
  <2>5. QED BY <2>1, <2>2, <2>4 DEF BaseInv, FramesAccounted, Mapped
<1>9. Memory!Unmap
  <2>1. [w \in UserPages |-> Phys(w)'] = [[w \in UserPages |-> Phys(w)] EXCEPT ![v] = absent]
    BY <1>3, <1>4
  <2>2. [w \in UserPages |-> Phys(w)][v] # absent
    BY <1>1 DEF Present
  <2>3. QED BY <1>1, <2>1, <2>2 DEF Memory!Unmap, Backing
<1>10. QED BY <1>2, <1>3, <1>5, <1>7, <1>8, <1>9 DEF BaseInv, TInv, FramesInv

(* A step that leaves the frames and every page but the null page alone.   *)
LEMMA SamePages ==
  ASSUME BaseInv, UNCHANGED frame_vars, TypeOK', TablesCounted',
         \A w \in Pages \ {NullPage} : Phys(w)' = Phys(w), NullPageMapsNull'
  PROVE  BaseInv' /\ UNCHANGED Backing
<1> USE PagingAssumption
<1>1. \A w \in UserPages : w \in Pages \ {NullPage}
  BY UserPageDir
<1>2. \A w \in 1 .. Entries - 1 : w \in Pages \ {NullPage}
  BY TotalPagesNat DEF Pages, NullPage
<1>3. \A w \in UserPages : Phys(w)' = Phys(w) /\ (Present(w)' <=> Present(w))
  BY <1>1 DEF Present
<1>4. KernelIdentityMapped'
  BY <1>2 DEF BaseInv, TInv, KernelIdentityMapped
<1>5. FramesExclusive'
  BY <1>3 DEF BaseInv, FramesExclusive
<1>6. FramesAccounted'
  <2>1. {w \in UserPages : Present(w)'} = Mapped
    BY <1>3 DEF Mapped
  <2>2. {Phys(w)' : w \in Mapped} = {Phys(w) : w \in Mapped}
    BY <1>3 DEF Mapped
  <2>3. QED BY <2>1, <2>2 DEF BaseInv, FramesAccounted, Mapped, frame_vars
<1>7. Frames!HintIsFree'
  BY DEF BaseInv, Frames!HintIsFree, Frames!bitmap_test, Frames!null, frame_vars
<1>8. QED BY <1>3, <1>4, <1>5, <1>6, <1>7 DEF BaseInv, TInv, Backing

(* Toggling the null page moves a count and an entry that no user page     *)
(* depends on.                                                             *)
LEMMA NullPageStep ==
  ASSUME BaseInv, allow_null_page_read \/ disallow_null_page
  PROVE  BaseInv' /\ UNCHANGED Backing
<1> USE PagingAssumption
<1>1. PICK x \in {0, absent}, delta \in {1, -1} :
        pt' = [pt EXCEPT ![pd[0]][0] = x] /\ Count(0, delta)
  BY DEF allow_null_page_read, disallow_null_page
<1>2. UNCHANGED <<frame_vars, pd, heap, call>>
  BY DEF allow_null_page_read, disallow_null_page
<1>3. 0 \in DirIndexes /\ 0 \in EntryIndexes /\ pd[0] = KernelTable /\ KernelTable \in Tables
  BY DEF DirIndexes, EntryIndexes, BaseInv, TInv, TypeOK, Tables
<1>4. 0 \in Frames!AllFrames
  BY TotalPagesNat DEF Frames!AllFrames
<1>5. pt' \in [Tables -> [EntryIndexes -> Frames!AllFrames \cup {absent}]]
  BY <1>1, <1>3, <1>4 DEF BaseInv, TInv, TypeOK
<1>6. pt'[KernelTable] = [pt[KernelTable] EXCEPT ![0] = x] /\ \A r \in TableRegions : pt'[r] = pt[r]
  BY <1>1, <1>3 DEF BaseInv, TInv, TypeOK, Tables
<1>7. /\ page_directory_counts' \in [DirIndexes -> 0 .. CountMod - 1]
      /\ \A c \in DirIndexes \ {0} : page_directory_counts'[c] = page_directory_counts[c]
  <2>1. u16(page_directory_counts[0] + delta) \in 0 .. CountMod - 1
    <3>1. page_directory_counts[0] \in 0 .. CountMod - 1
      BY <1>3 DEF BaseInv, TInv, TypeOK
    <3>2. CASE delta = 1
      BY <3>1, <3>2 DEF u16
    <3>3. CASE delta = -1
      BY <3>1, <3>3 DEF u16
    <3>4. QED BY <3>2, <3>3
  <2>2. page_directory_counts'
          = [page_directory_counts EXCEPT ![0] = u16(page_directory_counts[0] + delta)]
    BY <1>1 DEF Count
  <2>3. QED BY <1>3, <2>1, <2>2 DEF BaseInv, TInv, TypeOK
<1>8. TypeOK'
  BY <1>2, <1>5, <1>7 DEF BaseInv, TInv, TypeOK, frame_vars, Frames!TypeOK, Frames!AllFrames,
                          Frames!UserFrames, Frames!null
<1>9. \A d \in DirIndexes \ {0} : pd[d] # absent => pt'[pd[d]] = pt[pd[d]]
  BY <1>6 DEF BaseInv, TInv, TypeOK, Tables
<1>10. TablesCounted'
  <2>1. ASSUME NEW d \in DirIndexes \ {0}
        PROVE  /\ pd[d] = absent <=> page_directory_counts'[d] = 0
               /\ pd[d] # absent => page_directory_counts'[d] = Cardinality(PresentIn(pt'[pd[d]]))
    BY <1>7, <1>9 DEF BaseInv, TInv, TablesCounted
  <2>2. QED BY <1>2, <2>1 DEF BaseInv, TInv, TablesCounted
<1>11. ASSUME NEW w \in Pages \ {NullPage} PROVE Phys(w)' = Phys(w)
  <2>1. DirOf(w) \in DirIndexes /\ EntryOf(w) \in EntryIndexes
    BY PageSplit
  <2>2. CASE DirOf(w) = 0
    <3>1. EntryOf(w) # 0
      BY <2>2, PageSplit DEF NullPage
    <3>2. pt[KernelTable] \in [EntryIndexes -> Frames!AllFrames \cup {absent}]
      BY <1>3 DEF BaseInv, TInv, TypeOK
    <3>3. QED BY <1>2, <1>3, <1>6, <2>1, <2>2, <3>1, <3>2 DEF Phys
  <2>3. CASE DirOf(w) # 0
    BY <1>2, <1>9, <2>1, <2>3 DEF Phys
  <2>4. QED BY <2>2, <2>3
<1>12. NullPageMapsNull'
  <2>1. NullPage \in Pages /\ NullPage < Entries /\ NullPage = 0
    BY TotalPagesNat DEF NullPage, Pages
  <2>2. DirOf(NullPage) = 0 /\ EntryOf(NullPage) = 0
    BY <2>1, PageSplit
  <2>3. pt'[KernelTable][0] = x
    BY <1>3, <1>6 DEF BaseInv, TInv, TypeOK
  <2>4. QED BY <1>2, <1>3, <2>2, <2>3 DEF NullPageMapsNull, Phys
<1>13. QED BY <1>2, <1>8, <1>10, <1>11, <1>12, SamePages

(* The rest of the kernel takes and frees regions that hold no table.      *)
LEMMA OtherHeapStep ==
  ASSUME BaseInv, NEW t \in TableRegions, OtherKmalloc(t) \/ OtherKfree(t)
  PROVE  BaseInv' /\ UNCHANGED Backing
<1>1. /\ UNCHANGED <<frame_vars, pd, pt, page_directory_counts, call>>
      /\ heap[t] \in {"free", "other"}
      /\ \E s \in {"free", "other"} : heap' = [heap EXCEPT ![t] = s]
  BY DEF OtherKmalloc, OtherKfree
<1>2. TypeOK'
  BY <1>1 DEF BaseInv, TInv, TypeOK, frame_vars, Frames!TypeOK, Frames!AllFrames,
              Frames!UserFrames, Frames!null
<1>3. {r \in TableRegions : heap'[r] = "table"} = {r \in TableRegions : heap[r] = "table"}
  BY <1>1 DEF BaseInv, TInv, TypeOK
<1>4. TablesCounted'
  BY <1>1, <1>3 DEF BaseInv, TInv, TablesCounted
<1>5. \A w \in Pages : Phys(w)' = Phys(w)
  BY <1>1 DEF Phys
<1>6. NullPageMapsNull'
  BY <1>1 DEF BaseInv, NullPageMapsNull, Phys
<1>7. QED BY <1>1, <1>2, <1>4, <1>5, <1>6, SamePages

(* A step that leaves tables and frames alone, but for a panic or a call   *)
(* that begins or goes on.                                                 *)
LEMMA SameMemory ==
  ASSUME BaseInv, UNCHANGED <<page_bitmap, next_available_frame, frame, table_vars>>,
         panicked' \in BOOLEAN, call' \in Calls
  PROVE  BaseInv' /\ UNCHANGED Backing
<1>1. UNCHANGED <<pd, pt, page_directory_counts, heap>>
  BY DEF table_vars
<1>2. TypeOK' /\ Frames!HintIsFree'
  BY <1>1 DEF BaseInv, TInv, TypeOK, Frames!TypeOK, Frames!AllFrames, Frames!UserFrames,
              Frames!null, Frames!HintIsFree, Frames!bitmap_test
<1>3. TablesCounted'
  BY <1>1 DEF BaseInv, TInv, TablesCounted
<1>4. \A w : Phys(w)' = Phys(w) /\ (Present(w)' <=> Present(w))
  BY <1>1 DEF Phys, Present
<1>5. KernelIdentityMapped' /\ NullPageMapsNull' /\ FramesExclusive'
  BY <1>4 DEF BaseInv, TInv, KernelIdentityMapped, NullPageMapsNull, FramesExclusive
<1>6. {w \in UserPages : Present(w)'} = Mapped
  BY <1>4 DEF Mapped
<1>7. {Phys(w)' : w \in Mapped} = {Phys(w) : w \in Mapped}
  BY <1>4
<1>8. FramesAccounted'
  BY <1>6, <1>7 DEF BaseInv, FramesAccounted, Mapped
<1>9. QED BY <1>2, <1>3, <1>4, <1>5, <1>8 DEF BaseInv, TInv, Backing

-----------------------------------------------------------------------------
(* The range calls.  RangeUnfinished: a range that runs has a page left.   *)
RangeUnfinished == call.op \in {"range", "range_at"} => call.done < call.pages

PInv == BaseInv /\ RangeNeverRefused /\ RangeUnfinished

(* The pages of a range are pages, and different ones.                     *)
LEMMA RangePages ==
  ASSUME NEW start \in Pages, NEW n \in 1 .. MaxRange, NEW i \in 0 .. n - 1, NEW j \in 0 .. n - 1
  PROVE  PageOf(start, i) \in Pages /\ (PageOf(start, i) = PageOf(start, j) => i = j)
  BY PagingAssumption, TotalPagesNat DEF PageOf, Pages

LEMMA CallFields ==
  ASSUME TypeOK, call.op \in {"range", "range_at"}
  PROVE  /\ call.start \in Pages /\ call.pages \in 1 .. MaxRange
         /\ call.done \in 0 .. MaxRange - 1
         /\ call \in [op : {"range", "range_at"}, start : Pages, pages : 1 .. MaxRange,
                      done : 0 .. MaxRange - 1]
  BY DEF TypeOK, Calls, Idle

LEMMA BeginStep ==
  ASSUME PInv, NEW op \in {"range", "range_at"}, NEW start \in Pages, NEW n \in 1 .. MaxRange,
         BeginRange(op, start, n), UNCHANGED <<frame_vars, table_vars>>,
         \A i \in 0 .. n - 1 : /\ ~Present(PageOf(start, i)) 
                               /\ PageOf(start, i) = NullPage => op = "range_at"
  PROVE  PInv' /\ UNCHANGED Backing
<1>1. /\ call' = [op |-> op, start |-> start, pages |-> n, done |-> 0]
      /\ call'.op = op /\ call'.start = start /\ call'.pages = n /\ call'.done = 0
  BY DEF BeginRange
<1>2. call' \in Calls
  BY <1>1, PagingAssumption, TotalPagesNat DEF Calls
<1>3. BaseInv' /\ UNCHANGED Backing
  BY <1>2, SameMemory DEF PInv, BaseInv, TInv, TypeOK, Frames!TypeOK, frame_vars
<1>4. \A w : Present(w)' <=> Present(w)
  BY DEF Present, Phys, table_vars
<1>5. RangeNeverRefused' /\ RangeUnfinished'
  BY <1>1, <1>4 DEF RangeNeverRefused, RangeUnfinished
<1>6. QED BY <1>3, <1>5 DEF PInv

LEMMA AllocPageRangeStep ==
  ASSUME PInv, NEW n \in 1 .. MaxRange, alloc_page_range(n)
  PROVE  PInv' /\ UNCHANGED Backing
<1>1. PICK start \in Pages : FirstFreeRun(start, n) /\ BeginRange("range", start, n)
  BY DEF alloc_page_range
<1>2. \A i \in 0 .. n - 1 : PageOf(start, i) = start + i
  BY <1>1, PagingAssumption, TotalPagesNat DEF FirstFreeRun, FreeRun, PageOf, Pages
<1>3. \A i \in 0 .. n - 1 : ~Present(PageOf(start, i)) /\ PageOf(start, i) # NullPage
  BY <1>1, <1>2 DEF FirstFreeRun, FreeRun
<1>4. QED BY <1>1, <1>3, BeginStep DEF alloc_page_range

LEMMA AllocPageRangeAtStep ==
  ASSUME PInv, NEW start \in Pages, NEW n \in 1 .. MaxRange, alloc_page_range_at_addr(start, n)
  PROVE  PInv' /\ UNCHANGED Backing
  BY BeginStep DEF alloc_page_range_at_addr

(* A panic in the middle of a range leaves the range where it was.         *)
LEMMA PanicStep ==
  ASSUME PInv, panicked' = TRUE,
         UNCHANGED <<page_bitmap, next_available_frame, frame, table_vars, call>>
  PROVE  PInv' /\ UNCHANGED Backing
<1>1. BaseInv' /\ UNCHANGED Backing
  BY SameMemory DEF PInv, BaseInv, TInv, TypeOK
<1>2. \A w : Present(w)' <=> Present(w)
  BY DEF Present, Phys, table_vars
<1>3. RangeNeverRefused' /\ RangeUnfinished'
  BY <1>2 DEF PInv, RangeNeverRefused, RangeUnfinished
<1>4. QED BY <1>1, <1>3 DEF PInv

(* One iteration maps the next page of the range, unless it is the null    *)
(* page, and the pages that remain stay absent.                            *)
LEMMA RangeStepStep ==
  ASSUME PInv, RangeStep
  PROVE  PInv' /\ (Memory!Map \/ UNCHANGED Backing)
<1>0. /\ call.start \in Pages /\ call.pages \in 1 .. MaxRange
      /\ call.done \in 0 .. call.pages - 1
      /\ call \in [op : {"range", "range_at"}, start : Pages, pages : 1 .. MaxRange,
                   done : 0 .. MaxRange - 1]
      /\ call.op \in {"range", "range_at"}
  BY CallFields, PagingAssumption, TotalPagesNat
     DEF RangeStep, PInv, BaseInv, TInv, RangeUnfinished
<1>1. PICK start \in Pages, n \in 1 .. MaxRange, done \in 0 .. MaxRange - 1 :
        /\ start = call.start /\ n = call.pages /\ done = call.done
        /\ done \in 0 .. n - 1
  BY <1>0
<1>2. PICK v \in Pages : v = PageOf(start, done) /\ v = RangeNext
  BY <1>1, RangePages DEF RangeNext
<1>3. CASE MapPanics(v)
  BY <1>3, PanicStep DEF MapPanics
<1>4. CASE /\ Maps(v) \/ (Refuses(v) /\ UNCHANGED <<frame_vars, table_vars>>)
           /\ call' = IF done + 1 = n THEN Idle ELSE [call EXCEPT !.done = @ + 1]
  <2>1. call' \in Calls
    <3>1. CASE done + 1 = n
      BY <1>4, <3>1 DEF Calls
    <3>2. CASE done + 1 # n
      <4>1. done + 1 \in 0 .. MaxRange - 1
        BY <1>1, <3>2, PagingAssumption, TotalPagesNat
      <4>2. call' = [call EXCEPT !.done = done + 1]
        BY <1>1, <1>4, <3>2
      <4>3. call' \in [op : {"range", "range_at"}, start : Pages, pages : 1 .. MaxRange,
                      done : 0 .. MaxRange - 1]
        BY <1>0, <4>1, <4>2
      <4>4. QED BY <4>3 DEF Calls
    <3>3. QED BY <3>1, <3>2
  <2>2. /\ BaseInv'
        /\ Memory!Map \/ UNCHANGED Backing
        /\ v # NullPage => Present(v)'
        /\ \A w \in Pages \ {v} : Present(w)' <=> Present(w)
    <3>1. CASE Maps(v)
      BY <1>2, <2>1, <3>1, MapStep DEF PInv, Present
    <3>2. CASE Refuses(v) /\ UNCHANGED <<frame_vars, table_vars>>
      <4>1. BaseInv' /\ UNCHANGED Backing
        BY <2>1, <3>2, SameMemory DEF PInv, BaseInv, TInv, TypeOK, Frames!TypeOK, frame_vars
      <4>2. \A w : Present(w)' <=> Present(w)
        BY <3>2 DEF Present, Phys, table_vars
      <4>3. v # NullPage => Present(v)
        BY <3>2 DEF Refuses, Mappable
      <4>4. QED BY <4>1, <4>2, <4>3
    <3>3. QED BY <1>4, <3>1, <3>2
  <2>3. CASE done + 1 = n
    <3>1. call'.op = "none"
      BY <1>4, <2>3 DEF Idle
    <3>2. QED BY <2>2, <3>1 DEF PInv, RangeNeverRefused, RangeUnfinished
  <2>4. CASE done + 1 # n
    <3>1. /\ call'.op = call.op /\ call'.start = start /\ call'.pages = n
          /\ call'.done = done + 1
      BY <1>0, <1>1, <1>4, <2>4
    <3>2. ASSUME NEW i \in 0 .. n - 1
          PROVE  /\ PageOf(start, i) = NullPage => call.op = "range_at"
                 /\ PageOf(start, i) # NullPage =>
                      (Present(PageOf(start, i))' <=> i < done + 1)
      <4>1. /\ PageOf(start, i) = NullPage => call.op = "range_at"
            /\ PageOf(start, i) # NullPage => (Present(PageOf(start, i)) <=> i < done)
        BY <1>0, <1>1 DEF PInv, RangeNeverRefused
      <4>2. PICK w \in Pages : w = PageOf(start, i) /\ (w = v => i = done)
        <5>1. n \in 1 .. MaxRange /\ i \in 0 .. n - 1 /\ done \in 0 .. n - 1
          BY <1>1
        <5>2. PageOf(start, i) \in Pages /\ (PageOf(start, i) = PageOf(start, done) => i = done)
          BY <5>1, RangePages
        <5>3. QED BY <1>2, <5>2
      <4>3. w # NullPage => (Present(w)' <=> i < done + 1)
        <5>1. CASE w = v
          BY <1>1, <2>2, <4>2, <5>1
        <5>2. CASE w # v
          <6>1. i # done
            BY <1>2, <4>2, <5>2
          <6>2. (Present(w)' <=> Present(w)) /\ (w # NullPage => (Present(w) <=> i < done))
            BY <2>2, <4>1, <4>2, <5>2
          <6>3. QED BY <1>1, <6>1, <6>2
        <5>3. QED BY <5>1, <5>2
      <4>4. Present(PageOf(start, i))' <=> Present(w)'
        BY <4>2 DEF Present, Phys
      <4>5. QED BY <4>1, <4>2, <4>3, <4>4
    <3>3. RangeNeverRefused'
      BY <3>1, <3>2 DEF RangeNeverRefused, PageOf
    <3>4. RangeUnfinished'
      BY <1>1, <2>4, <3>1 DEF RangeUnfinished
    <3>5. QED BY <2>2, <3>3, <3>4 DEF PInv
  <2>5. QED BY <2>3, <2>4
<1>5. QED BY <1>1, <1>2, <1>3, <1>4 DEF RangeStep

(* Every other step leaves no range running.                               *)
LEMMA NoRange ==
  ASSUME BaseInv', call' = Idle \/ call' = [op |-> "page"]
  PROVE  PInv'
<1>1. call'.op \notin {"range", "range_at"}
  BY DEF Idle
<1>2. QED BY <1>1 DEF PInv, RangeNeverRefused, RangeUnfinished

LEMMA AllocPageSteps ==
  ASSUME PInv, alloc_page \/ \E v \in Pages : AllocPageStep(v)
  PROVE  PInv' /\ (Memory!Map \/ UNCHANGED Backing)
<1>1. CASE alloc_page
  <2>1. call' = [op |-> "page"] /\ call' \in Calls /\ UNCHANGED <<frame_vars, table_vars>>
    BY <1>1 DEF alloc_page, Calls
  <2>2. QED BY <2>1, SameMemory, NoRange DEF PInv, BaseInv, TInv, TypeOK, Frames!TypeOK, frame_vars
<1>2. ASSUME NEW v \in Pages, AllocPageStep(v)
      PROVE  PInv' /\ (Memory!Map \/ UNCHANGED Backing)
  <2>1. call = [op |-> "page"]
    <3>1. call.op = "page" /\ call \in Calls
      BY <1>2 DEF AllocPageStep, PInv, BaseInv, TInv, TypeOK
    <3>2. QED BY <3>1 DEF Calls, Idle
  <2>2. CASE Maps(v) /\ UNCHANGED call
    BY <2>1, <2>2, MapStep, NoRange DEF PInv
  <2>3. CASE MapPanics(v)
    BY <2>3, PanicStep DEF MapPanics
  <2>4. CASE call' = Idle /\ UNCHANGED <<frame_vars, table_vars>>
    <3>1. call' \in Calls
      BY <2>4 DEF Calls
    <3>2. QED BY <2>4, <3>1, SameMemory, NoRange
                 DEF PInv, BaseInv, TInv, TypeOK, Frames!TypeOK, frame_vars
  <2>5. QED BY <1>2, <2>2, <2>3, <2>4 DEF AllocPageStep
<1>3. QED BY <1>1, <1>2

(* With no range running, the range conjuncts hold of any Idle state.      *)
LEMMA IdleStep ==
  ASSUME PInv, BaseInv', call = Idle, UNCHANGED call
  PROVE  PInv'
  BY NoRange

LEMMA NextPInv ==
  ASSUME PInv, [Next]_vars
  PROVE  PInv' /\ [Memory!Next]_Backing
<1> SUFFICES PInv' /\ (Memory!Map \/ Memory!Unmap \/ UNCHANGED Backing)
  BY DEF Memory!Next
<1>1. ASSUME NEW v \in Pages, alloc_page_at_addr(v)
      PROVE  PInv' /\ (Memory!Map \/ UNCHANGED Backing)
  <2>1. CASE Maps(v) /\ UNCHANGED call
    BY <1>1, <2>1, MapStep, IdleStep DEF PInv, alloc_page_at_addr
  <2>2. CASE MapPanics(v)
    BY <2>2, PanicStep DEF MapPanics
  <2>3. QED BY <1>1, <2>1, <2>2 DEF alloc_page_at_addr
<1>2. ASSUME NEW v \in Pages, free_page(v) PROVE PInv' /\ Memory!Unmap
  BY <1>2, FreePageStep, IdleStep DEF PInv, free_page
<1>3. ASSUME NEW v \in Pages, free_page_panics(v)
      PROVE  PInv' /\ UNCHANGED Backing
  BY <1>3, PanicStep DEF free_page_panics, Frames!free_frame_panics
<1>4. CASE alloc_page \/ \E v \in Pages : AllocPageStep(v)
  BY <1>4, AllocPageSteps
<1>5. ASSUME NEW n \in 1 .. MaxRange, alloc_page_range(n)
      PROVE  PInv' /\ UNCHANGED Backing
  BY <1>5, AllocPageRangeStep
<1>6. ASSUME NEW start \in Pages, NEW n \in 1 .. MaxRange, alloc_page_range_at_addr(start, n)
      PROVE  PInv' /\ UNCHANGED Backing
  BY <1>6, AllocPageRangeAtStep
<1>7. CASE RangeStep
  BY <1>7, RangeStepStep
<1>8. ASSUME NEW t \in TableRegions, OtherKmalloc(t) \/ OtherKfree(t)
      PROVE  PInv' /\ UNCHANGED Backing
  BY <1>8, OtherHeapStep, IdleStep DEF PInv, OtherKmalloc, OtherKfree
<1>9. CASE allow_null_page_read \/ disallow_null_page
  BY <1>9, NullPageStep, IdleStep DEF PInv, allow_null_page_read, disallow_null_page
<1>10. CASE UNCHANGED vars
  <2>1. UNCHANGED <<page_bitmap, next_available_frame, frame, panicked, table_vars, call>>
    BY <1>10 DEF vars, frame_vars
  <2>2. BaseInv' /\ UNCHANGED Backing
    BY <2>1, SameMemory DEF PInv, BaseInv, TInv, TypeOK, Frames!TypeOK
  <2>3. \A w : Present(w)' <=> Present(w)
    BY <2>1 DEF Present, Phys, table_vars
  <2>4. RangeNeverRefused' /\ RangeUnfinished'
    BY <2>1, <2>3 DEF PInv, RangeNeverRefused, RangeUnfinished
  <2>5. QED BY <2>2, <2>4 DEF PInv
<1>11. QED BY <1>1, <1>2, <1>3, <1>4, <1>5, <1>6, <1>7, <1>8, <1>9, <1>10 DEF Next

LEMMA InitPInv == Init => PInv /\ Memory!Init
<1> SUFFICES ASSUME Init PROVE PInv /\ Memory!Init
  OBVIOUS
<1> USE PagingAssumption
<1>1. FramesInv
  BY FramesInit DEF Init
<1>2. TypeOK
  <2>1. 0 \in DirIndexes /\ \A e \in EntryIndexes : e \in Frames!AllFrames
    BY TotalPagesNat DEF DirIndexes, EntryIndexes, Frames!AllFrames
  <2>2. pd \in [DirIndexes -> Tables \cup {absent}] /\ \A d \in DirIndexes : pd[d] = KernelTable <=> d = 0
    BY DEF Init, Tables
  <2>3. pt \in [Tables -> [EntryIndexes -> Frames!AllFrames \cup {absent}]]
    BY <2>1 DEF Init, EmptyTable
  <2>4. page_directory_counts \in [DirIndexes -> 0 .. CountMod - 1]
    BY DEF Init
  <2>5. QED BY <1>1, <2>2, <2>3, <2>4 DEF Init, TypeOK, FramesInv, Calls
<1>3. \A w \in UserPages : Phys(w) = absent
  <2> SUFFICES ASSUME NEW w \in UserPages PROVE Phys(w) = absent
    OBVIOUS
  <2>1. DirOf(w) \in DirIndexes \ {0}
    BY UserPageDir, PageSplit
  <2>2. QED BY <2>1 DEF Init, Phys
<1>4. \A w \in 0 .. Entries - 1 : Phys(w) = IF w = 0 THEN absent ELSE w
  <2> SUFFICES ASSUME NEW w \in 0 .. Entries - 1 PROVE Phys(w) = IF w = 0 THEN absent ELSE w
    OBVIOUS
  <2>1. DirOf(w) = 0 /\ EntryOf(w) = w
    BY PageSplit, TotalPagesNat DEF Pages
  <2>2. pd[0] = KernelTable /\ KernelTable \in Tables /\ KernelTable # absent
    BY DEF Init, DirIndexes, Tables
  <2>3. QED BY <2>1, <2>2 DEF Init, Phys, EntryIndexes
<1>5. TablesCounted
  <2>1. \A d \in DirIndexes \ {0} : pd[d] = absent /\ page_directory_counts[d] = 0
    BY DEF Init
  <2>2. {t \in TableRegions : heap[t] = "table"} = {}
    BY DEF Init
  <2>3. {pd[d] : d \in DirIndexes} \ {KernelTable, absent} = {}
    BY DEF Init
  <2>4. QED BY <2>1, <2>2, <2>3 DEF TablesCounted
<1>6. KernelIdentityMapped /\ NullPageMapsNull
  BY <1>4 DEF KernelIdentityMapped, NullPageMapsNull, NullPage
<1>7. Mapped = {}
  BY <1>3 DEF Mapped, Present
<1>8. FramesExclusive /\ FramesAccounted
  BY <1>3, <1>7 DEF FramesExclusive, Present, FramesAccounted, Init, Frames!Init
<1>9. RangeNeverRefused /\ RangeUnfinished
  BY DEF Init, Idle, RangeNeverRefused, RangeUnfinished
<1>10. Memory!Init
  BY <1>3 DEF Memory!Init, Backing
<1>11. QED BY <1>1, <1>2, <1>5, <1>6, <1>8, <1>9, <1>10 DEF PInv, BaseInv, TInv, FramesInv

-----------------------------------------------------------------------------
LEMMA PInvAlways == Spec => []PInv
<1>1. Init => PInv
  BY InitPInv
<1>2. PInv /\ [Next]_vars => PInv'
  BY NextPInv
<1>3. QED BY <1>1, <1>2, PTL DEF Spec

(* Directory, tables and counts keep their widths, whatever is mapped.     *)
THEOREM PagingTypeCorrect == Spec => []TypeOK
<1>1. PInv => TypeOK
  BY DEF PInv, BaseInv, TInv
<1>2. QED BY <1>1, PInvAlways, PTL

(* No two user pages are ever backed by the same frame.                    *)
THEOREM FramesAreExclusive == Spec => []FramesExclusive
<1>1. PInv => FramesExclusive
  BY DEF PInv, BaseInv
<1>2. QED BY <1>1, PInvAlways, PTL

(* A user frame is allocated exactly while a page maps it: none leaks, and *)
(* frame 0, the unchecked null answer of alloc_frame, is never mapped.     *)
THEOREM FramesAreAccounted == Spec => []FramesAccounted
<1>1. PInv => FramesAccounted
  BY DEF PInv, BaseInv
<1>2. QED BY <1>1, PInvAlways, PTL

(* The counts are those of the present entries, and a table lives on the   *)
(* heap exactly while it has one.                                          *)
THEOREM TablesAreCounted == Spec => []TablesCounted
<1>1. PInv => TablesCounted
  BY DEF PInv, BaseInv, TInv
<1>2. QED BY <1>1, PInvAlways, PTL

(* No sequence of calls, panics included, changes a page the kernel runs   *)
(* from.                                                                   *)
THEOREM KernelStaysMapped == Spec => []KernelIdentityMapped
<1>1. PInv => KernelIdentityMapped
  BY DEF PInv, BaseInv, TInv
<1>2. QED BY <1>1, PInvAlways, PTL

(* The results of alloc_page_at_addr that the range loops ignore are true, *)
(* except for the null page.                                               *)
THEOREM RangesAreMapped == Spec => []RangeNeverRefused
<1>1. PInv => RangeNeverRefused
  BY DEF PInv
<1>2. QED BY <1>1, PInvAlways, PTL

(* Paging over the bitmap allocator implements virtual memory: each user   *)
(* page has a frame of its own from its mapping to its unmapping.          *)
THEOREM PagingRefinement == Spec => ImplementsVirtualMemory
<1>1. Init => Memory!Init
  BY InitPInv
<1>2. PInv /\ [Next]_vars => [Memory!Next]_Backing
  BY NextPInv
<1>3. QED BY <1>1, <1>2, PInvAlways, PTL DEF Spec, ImplementsVirtualMemory, Memory!Spec
=============================================================================
