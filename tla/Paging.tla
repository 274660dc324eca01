------------------------------- MODULE Paging -------------------------------
(***************************************************************************)
(* memory/paging.c on top of the frame allocator.  A virtual page is named *)
(* by its number, a page table by the heap region kmalloc_aligned returned *)
(* for it, and a page table entry by the frame it maps or absent.          *)
(* Table 0x2000, the identity map of the first 4 MiB, is KernelTable.      *)
(*                                                                         *)
(* The loops of alloc_page, alloc_page_range and alloc_page_range_at_addr  *)
(* call alloc_page_at_addr once per iteration; an iteration is a step and  *)
(* call says which loop is running, so that nothing else runs meanwhile.   *)
(***************************************************************************)
EXTENDS Integers, FiniteSets

CONSTANTS
  Dirs,          \* entries of the page directory (1024)
  Entries,       \* entries of a page table (1024)
  Group,         \* frames per bitmap element
  TableRegions,  \* the page aligned regions of the heap
  KernelTable,   \* the page table at 0x2000
  absent,        \* an entry whose present bit is clear
  CountMod,      \* values of a u16 count (65536)
  MaxRange       \* bound: pages of one range call

\* One frame per virtual page: both spaces are 4 GiB.
TotalPages == Dirs * Entries

ASSUME PagingAssumption ==
  /\ Dirs \in Nat \ {0, 1} /\ Entries \in Nat \ {0}
  /\ Group \in {1, 2, 4, 8} /\ Entries % Group = 0 /\ TotalPages % Group = 0
  /\ CountMod \in Nat /\ Entries < CountMod
  /\ MaxRange \in 1 .. TotalPages
  /\ KernelTable \notin TableRegions
  /\ absent \notin Nat /\ absent \notin TableRegions \cup {KernelTable}

Pages == 0 .. TotalPages - 1
UserPages == Entries .. TotalPages - 1
NullPage == 0

DirOf(v) == v \div Entries
EntryOf(v) == v % Entries
DirIndexes == 0 .. Dirs - 1
EntryIndexes == 0 .. Entries - 1
Tables == TableRegions \cup {KernelTable}

VARIABLES
  page_bitmap, next_available_frame, frame, panicked,   \* FrameAllocator
  pd,                      \* the table of each directory entry, or absent
  pt,                      \* the contents of each table's memory
  page_directory_counts,   \* the present entries counted per table
  heap,                    \* who holds each heap region, as the heap records it
  call                     \* the range or alloc_page loop that is running

frame_vars == <<page_bitmap, next_available_frame, frame, panicked>>
table_vars == <<pd, pt, page_directory_counts, heap>>
vars == <<frame_vars, table_vars, call>>

Frames == INSTANCE FrameAllocator WITH FirstFrame <- Entries

Idle == [op |-> "none"]
FreeRegions == {t \in TableRegions : heap[t] = "free"}
EmptyTable == [e \in EntryIndexes |-> absent]

(* paging_init: the first 4 MiB are identity-mapped but for the null page, *)
(* whose entry is cleared again without being uncounted.                   *)
Init == /\ Frames!Init
        /\ pd = [d \in DirIndexes |-> IF d = 0 THEN KernelTable ELSE absent]
        /\ pt = [t \in Tables |->
                   IF t = KernelTable
                   THEN [e \in EntryIndexes |-> IF e = 0 THEN absent ELSE e]
                   ELSE EmptyTable]
        /\ page_directory_counts = [d \in DirIndexes |-> IF d = 0 THEN Entries ELSE 0]
        /\ heap = [t \in TableRegions |-> "free"]
        /\ call = Idle

(* The frame a page maps, through the directory.                           *)
Phys(v) == IF pd[DirOf(v)] = absent THEN absent ELSE pt[pd[DirOf(v)]][EntryOf(v)]
Present(v) == Phys(v) # absent

u16(n) == IF n = CountMod THEN 0 ELSE IF n = -1 THEN CountMod - 1 ELSE n
Count(d, delta) ==
  page_directory_counts' = [page_directory_counts EXCEPT ![d] = u16(@ + delta)]

-----------------------------------------------------------------------------
(* The pages alloc_page_at_addr maps; it returns false for the others.     *)
MappableTwice(v) == v # NullPage   \* mutant: a present entry is overwritten
Mappable(v) == v # NullPage /\ ~Present(v)

(* alloc_page_at_addr of a page whose table exists.  The frame is not      *)
(* checked: a null answer would map frame 0.                               *)
MapsInTable(v) ==
  /\ Mappable(v)
  /\ pd[DirOf(v)] # absent
  /\ Frames!alloc_frame
  /\ pt' = [pt EXCEPT ![pd[DirOf(v)]][EntryOf(v)] = frame']
  /\ Count(DirOf(v), 1)
  /\ UNCHANGED <<pd, heap>>

(* ... of a page whose table must be made: kmalloc_aligned, memset, and    *)
(* the directory entry first.                                              *)
MapsNewTable(v) ==
  /\ pd[DirOf(v)] = absent
  /\ \E t \in FreeRegions :
       /\ heap' = [heap EXCEPT ![t] = "table"]
       /\ pd' = [pd EXCEPT ![DirOf(v)] = t]
       /\ Frames!alloc_frame
       /\ pt' = [pt EXCEPT ![t] = [EmptyTable EXCEPT ![EntryOf(v)] = frame']]
  /\ Count(DirOf(v), 1)

Maps(v) == MapsInTable(v) \/ MapsNewTable(v)

Refuses(v) == ~panicked /\ ~Mappable(v)

(* ... when the heap has no region left: kmalloc_aligned panics.           *)
MapPanics(v) == /\ ~panicked
                /\ pd[DirOf(v)] = absent
                /\ FreeRegions = {}
                /\ panicked' = TRUE
                /\ UNCHANGED <<page_bitmap, next_available_frame, frame, table_vars, call>>

alloc_page_at_addr(v) == /\ call = Idle
                         /\ \/ Maps(v) /\ UNCHANGED call
                            \/ MapPanics(v)

-----------------------------------------------------------------------------
(* free_page of a present page: the entry, the count, the table when it    *)
(* was the last entry, then the frame.  (An absent page is left alone.)    *)
ClearsNothing(v) == UNCHANGED pt   \* mutant: the entry outlives its frame
ClearsEntry(v) == pt' = [pt EXCEPT ![pd[DirOf(v)]][EntryOf(v)] = absent]

NeverEmpties(d) == page_directory_counts[d] = 0   \* mutant: tested before the decrement
Empties(d) == u16(page_directory_counts[d] - 1) = 0

free_page(v) ==
  /\ call = Idle
  /\ Present(v)
  /\ Frames!free_frame(Phys(v))
  /\ ClearsEntry(v)
  /\ Count(DirOf(v), -1)
  /\ IF Empties(DirOf(v))
     THEN /\ heap' = [heap EXCEPT ![pd[DirOf(v)]] = "free"]
          /\ pd' = [pd EXCEPT ![DirOf(v)] = absent]
     ELSE UNCHANGED <<heap, pd>>
  /\ UNCHANGED call

(* free_page of a kernel page or of the null page while it is readable:    *)
(* free_frame refuses a frame below 4 MiB, or kfree the table at 0x2000.   *)
(* The machine restarts, and with it the memory that was half changed.     *)
free_page_panics(v) ==
  /\ call = Idle
  /\ Present(v)
  /\ Frames!free_frame_panics(Phys(v), TRUE)
  /\ UNCHANGED <<table_vars, call>>

(* The first page table's null entry, which drivers toggle.  Neither call  *)
(* looks at what the entry was: the count moves every time.                *)
allow_null_page_read ==
  /\ call = Idle /\ ~panicked
  /\ pt' = [pt EXCEPT ![pd[0]][0] = 0]
  /\ Count(0, 1)
  /\ UNCHANGED <<frame_vars, pd, heap, call>>

disallow_null_page ==
  /\ call = Idle /\ ~panicked
  /\ pt' = [pt EXCEPT ![pd[0]][0] = absent]
  /\ Count(0, -1)
  /\ UNCHANGED <<frame_vars, pd, heap, call>>

-----------------------------------------------------------------------------
(* The i-th page of a range; addresses wrap at 4 GiB.                      *)
PageOf(start, i) ==
  IF start + i < TotalPages THEN start + i ELSE start + i - TotalPages

FreeRunUnchecked(start, n) == start + n <= TotalPages /\ ~Present(start)   \* mutant: the run is not restarted
FreeRun(start, n) == /\ start + n <= TotalPages
                     /\ \A i \in 0 .. n - 1 : start + i # NullPage /\ ~Present(start + i)
FirstFreeRun(start, n) == FreeRun(start, n) /\ \A s \in 0 .. start - 1 : ~FreeRun(s, n)

BeginRange(op, start, n) ==
  call' = [op |-> op, start |-> start, pages |-> n, done |-> 0]

(* alloc_page_range: the first run of n free pages, found before any page  *)
(* of it is mapped.  (No pages asked for, or no run left: 0, no change.)   *)
alloc_page_range(n) ==
  /\ call = Idle /\ ~panicked
  /\ n > 0
  /\ \E start \in Pages : FirstFreeRun(start, n) /\ BeginRange("range", start, n)
  /\ UNCHANGED <<frame_vars, table_vars>>

(* alloc_page_range_at_addr: false unless every page of the range is       *)
(* absent.  The null page counts as free.                                  *)
alloc_page_range_at_addr(start, n) ==
  /\ call = Idle /\ ~panicked
  /\ n > 0
  /\ \A i \in 0 .. n - 1 : ~Present(PageOf(start, i))
  /\ BeginRange("range_at", start, n)
  /\ UNCHANGED <<frame_vars, table_vars>>

RangeNext == PageOf(call.start, call.done)

(* One iteration of the mapping loop of both; what alloc_page_at_addr      *)
(* returns is not looked at, and the call returns after the last one.      *)
RangeStep ==
  /\ call.op \in {"range", "range_at"}
  /\ \/ /\ Maps(RangeNext) \/ (Refuses(RangeNext) /\ UNCHANGED <<frame_vars, table_vars>>)
        /\ call' = IF call.done + 1 = call.pages THEN Idle
                   ELSE [call EXCEPT !.done = @ + 1]
     \/ MapPanics(RangeNext)

(* alloc_page: maps pages drawn at random until a mapping is refused, and  *)
(* returns the page that was refused.                                      *)
alloc_page ==
  /\ call = Idle /\ ~panicked
  /\ call' = [op |-> "page"]
  /\ UNCHANGED <<frame_vars, table_vars>>

AllocPageStep(v) ==
  /\ call.op = "page"
  /\ \/ Maps(v) /\ UNCHANGED call
     \/ MapPanics(v)
     \/ /\ Refuses(v)
        /\ call' = Idle
        /\ UNCHANGED <<frame_vars, table_vars>>

(* The rest of the kernel takes and returns heap regions of its own.       *)
OtherKmalloc(t) == /\ call = Idle /\ ~panicked
                   /\ heap[t] = "free"
                   /\ heap' = [heap EXCEPT ![t] = "other"]
                   /\ UNCHANGED <<frame_vars, pd, pt, page_directory_counts, call>>
OtherKfree(t) == /\ call = Idle /\ ~panicked
                 /\ heap[t] = "other"
                 /\ heap' = [heap EXCEPT ![t] = "free"]
                 /\ UNCHANGED <<frame_vars, pd, pt, page_directory_counts, call>>

Next == \/ \E v \in Pages : \/ alloc_page_at_addr(v) \/ free_page(v) \/ free_page_panics(v)
                            \/ AllocPageStep(v)
        \/ \E n \in 1 .. MaxRange : alloc_page_range(n)
        \/ \E start \in Pages, n \in 1 .. MaxRange : alloc_page_range_at_addr(start, n)
        \/ RangeStep \/ alloc_page
        \/ \E t \in TableRegions : OtherKmalloc(t) \/ OtherKfree(t)
        \/ allow_null_page_read \/ disallow_null_page

Spec == Init /\ [][Next]_vars

-----------------------------------------------------------------------------
Mapped == {v \in UserPages : Present(v)}
Calls == {Idle, [op |-> "page"]}
           \cup [op : {"range", "range_at"}, start : Pages, pages : 1 .. MaxRange,
                 done : 0 .. MaxRange - 1]

(* Directory, tables and counts have their widths, the kernel's table is   *)
(* always the first and the others are heap regions.                       *)
TypeOK == /\ Frames!TypeOK
          /\ pd \in [DirIndexes -> Tables \cup {absent}]
          /\ \A d \in DirIndexes : pd[d] = KernelTable <=> d = 0
          /\ pt \in [Tables -> [EntryIndexes -> Frames!AllFrames \cup {absent}]]
          /\ page_directory_counts \in [DirIndexes -> 0 .. CountMod - 1]
          /\ heap \in [TableRegions -> {"free", "table", "other"}]
          /\ call \in Calls

(* No two pages share a frame, whatever was mapped and freed before: what  *)
(* one page stores no other page overwrites.                               *)
FramesExclusive ==
  \A v, w \in UserPages : Present(v) /\ Phys(v) = Phys(w) => v = w

(* A frame is allocated exactly while a page maps it: free_page leaks none *)
(* and leaves no page pointing at a frame that was given back.  Frame 0,   *)
(* the unchecked null answer, is never mapped: the pages above 4 MiB are   *)
(* as many as the frames above 4 MiB, so a free page means a free frame.   *)
FramesAccounted ==
  page_bitmap \ (0 .. Entries - 1) = {Phys(v) : v \in Mapped}

(* A page table is live on the heap exactly while its count is not zero,   *)
(* the count is that of its present entries, and no table serves two       *)
(* directory entries: free_page frees a table when the last entry goes,    *)
(* never before and never later.                                           *)
PresentIn(table) == {e \in EntryIndexes : table[e] # absent}
TablesCounted ==
  /\ \A d \in DirIndexes \ {0} :
       /\ pd[d] = absent <=> page_directory_counts[d] = 0
       /\ pd[d] # absent =>
            page_directory_counts[d] = Cardinality(PresentIn(pt[pd[d]]))
       /\ \A c \in DirIndexes \ {0, d} : pd[d] # absent => pd[c] # pd[d]
  /\ {t \in TableRegions : heap[t] = "table"}
       = {pd[d] : d \in DirIndexes} \ {KernelTable, absent}

(* The kernel runs from the identity map: no call changes a page of it.    *)
KernelIdentityMapped == \A v \in 1 .. Entries - 1 : Phys(v) = v

(* While a range is being mapped the pages done are present and the pages  *)
(* left are absent, so the results of alloc_page_at_addr that the loops    *)
(* ignore are all true; only a range_at that covers page 0 has one false.  *)
RangeNeverRefused ==
  call.op \in {"range", "range_at"} =>
    \A i \in 0 .. call.pages - 1 :
      /\ PageOf(call.start, i) = NullPage => call.op = "range_at"
      /\ PageOf(call.start, i) # NullPage => (Present(PageOf(call.start, i)) <=> i < call.done)

(* Paging implements VirtualMemory: each user page is backed by a frame of *)
(* its own from the call that maps it to the call that frees it.           *)
Backing == [v \in UserPages |-> Phys(v)]
Memory == INSTANCE VirtualMemory WITH Pages <- UserPages, PhysFrames <- Frames!UserFrames,
            backing <- Backing
ImplementsVirtualMemory == Memory!Spec
=============================================================================
