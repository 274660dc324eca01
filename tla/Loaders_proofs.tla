----------------------------- MODULE Loaders_proofs -----------------------------
(***************************************************************************)
(* Proofs about the two loaders.  ElfLoader, for every set of programs and *)
(* every layout, and DriverLoader: whatever the driver's file, what        *)
(* ElfLoader guarantees of programs holds from the boot on.  And the boot  *)
(* loader: what it jumps into is the file on the disk, and a volume that   *)
(* is in order boots.                                                      *)
(***************************************************************************)
EXTENDS DriverLoader, Loader, FiniteSetTheorems, SequenceTheorems, TLAPS

(* What is mapped for a program is on its list, or its entry was lost; at  *)
(* the prompt there is no list.                                            *)
Loads == {"loading", "segment", "launching", "cleanup", "running"}
ProgramRecorded ==
  /\ mode \in Loads => HeldBy("program") \subseteq Listed(addrs) \cup lost
  /\ mode = "prompt" => HeldBy("program") \subseteq lost

(* The segments read so far are where the program expects them, and of the *)
(* one at work the pages that were visited.                                *)
SegmentsPresent ==
  mode \in {"loading", "segment", "launching"} =>
    \A i \in DOMAIN program :
      i < next /\ program[i].load /\ Aligned(program[i]) =>
        Extent(program[i], program[i].memsz) \subseteq HeldBy("program")

SegmentUnderWay ==
  mode = "segment" =>
    /\ next \in DOMAIN program /\ program[next].load
    /\ Listed(todo) \subseteq Asked
    /\ \A p \in Listed(SegmentList(program[next])) : p \in Listed(todo) \/ owner[p] = "program"

(* Of the heap and the stack, the pages that were visited are mapped.      *)
LaunchUnderWay ==
  mode = "launching" =>
    /\ next \notin DOMAIN program
    /\ Listed(todo) \subseteq Memory
    /\ \A p \in Memory : p \in Listed(todo) \/ owner[p] # "none"

(* A file without headers panics before anything is loaded; its array of   *)
(* pages would have no room.                                               *)
SomeHeader ==
  mode \in {"loading", "segment", "launching"} => program # <<>> /\ addrs_size # 0

(* The list names nothing but what this program asked for.                 *)
AskedRecorded == mode \in Loads => Listed(addrs) \subseteq Asked

Inv == TypeOK /\ ProgramRecorded /\ SegmentsPresent /\ SegmentUnderWay /\ LaunchUnderWay
       /\ SomeHeader /\ AskedRecorded /\ RunningProgramIsMapped

(* Rounding down to pages: an aligned address contributes whole pages.     *)
LEMMA AlignedDivision ==
  ASSUME NEW b \in Nat \ {0}, NEW a \in Nat, NEW m \in Nat \ {0}, a % b = 0
  PROVE  (a + m - 1) \div b <= (a \div b) + (m \div b)
<1> DEFINE q == a \div b
           r == m \div b
           x == (a + m - 1) \div b
<1>1. q \in Int /\ r \in Int /\ x \in Int
  OBVIOUS
<1>2. a = b * q
  OBVIOUS
<1>3. m < b * r + b
  OBVIOUS
<1>4. b * x <= a + m - 1
  OBVIOUS
<1> HIDE DEF q, r, x
<1>5. b * x < b * (q + r + 1)
  BY <1>1, <1>2, <1>3, <1>4
<1>6. x < q + r + 1
  BY <1>1, <1>5
<1> QED
  BY <1>1, <1>6 DEF q, r, x

(* The header a load is at is one the assumption speaks of.                *)
LEMMA HeaderFits ==
  ASSUME NEW f \in Programs, NEW i \in DOMAIN f
  PROVE  /\ f[i] \in Header /\ f[i].filesz <= f[i].memsz
         /\ FirstPage(f[i]) + (f[i].memsz \div PageBytes) < TotalPages
  BY LoaderAssumption

(* The loop over a segment visits pages of the address space, ...          *)
LEMMA SegmentListInPages ==
  ASSUME NEW h \in Header, FirstPage(h) + (h.memsz \div PageBytes) < TotalPages
  PROVE  /\ SegmentList(h) \in Seq(Pages)
         /\ DOMAIN SegmentList(h) = 1 .. (h.memsz \div PageBytes) + 1
         /\ Listed(SegmentList(h)) =
              FirstPage(h) .. FirstPage(h) + (h.memsz \div PageBytes)
<1> DEFINE n == h.memsz \div PageBytes
<1>1. n \in Nat /\ FirstPage(h) \in Nat /\ TotalPages \in Nat
  <2>1. h.va \in Nat /\ h.memsz \in Nat
    BY DEF Header
  <2>2. PageBytes \in Nat \ {0} /\ TotalPages \in Nat
    BY LoaderAssumption
  <2>3. \A a \in Nat, b \in Nat \ {0} : a \div b \in Nat
    OBVIOUS
  <2> QED BY <2>1, <2>2, <2>3 DEF FirstPage
<1> HIDE DEF n
<1>2. SegmentList(h) = [i \in 1 .. n + 1 |-> FirstPage(h) + i - 1]
  BY DEF n, SegmentList
<1>3. \A i \in 1 .. n + 1 : FirstPage(h) + i - 1 \in Pages
  BY <1>1 DEF n, Pages
<1>4. SegmentList(h) \in Seq(Pages)
  BY <1>1, <1>2, <1>3
<1>5. ASSUME NEW p \in FirstPage(h) .. FirstPage(h) + n
      PROVE  p \in Listed(SegmentList(h))
  <2>1. p - FirstPage(h) + 1 \in 1 .. n + 1
    BY <1>1
  <2>2. SegmentList(h)[p - FirstPage(h) + 1] = p
    BY <1>1, <1>2, <2>1
  <2> QED BY <1>2, <2>1, <2>2 DEF Listed
<1>6. Listed(SegmentList(h)) \subseteq FirstPage(h) .. FirstPage(h) + n
  BY <1>1, <1>2 DEF Listed
<1> QED BY <1>2, <1>4, <1>5, <1>6 DEF n

(* ... and all of them, when its address is that of a page.                *)
LEMMA AlignedExtentIsVisited ==
  ASSUME NEW h \in Header, Aligned(h),
         FirstPage(h) + (h.memsz \div PageBytes) < TotalPages
  PROVE  Extent(h, h.memsz) \subseteq Listed(SegmentList(h))
<1>1. CASE h.memsz = 0
  BY <1>1 DEF Extent
<1>2. CASE h.memsz # 0
  <2>1. (h.va + h.memsz - 1) \div PageBytes <= FirstPage(h) + (h.memsz \div PageBytes)
    BY <1>2, AlignedDivision, LoaderAssumption DEF Header, FirstPage, Aligned
  <2>2. Extent(h, h.memsz) = FirstPage(h) .. (h.va + h.memsz - 1) \div PageBytes
    BY <1>2 DEF Extent
  <2>3. /\ FirstPage(h) \in Int /\ (h.va + h.memsz - 1) \div PageBytes \in Int
        /\ h.memsz \div PageBytes \in Int
    BY LoaderAssumption DEF Header, FirstPage
  <2> QED BY <2>1, <2>2, <2>3, SegmentListInPages
<1> QED BY <1>1, <1>2

(* The loop's <= visits the page of the byte after the segment's end, and  *)
(* none above it.                                                          *)
LEMMA DivisionOfSum ==
  ASSUME NEW b \in Nat \ {0}, NEW a \in Nat, NEW m \in Nat
  PROVE  (a \div b) + (m \div b) <= (a + m) \div b
<1> DEFINE q == a \div b
           r == m \div b
           x == (a + m) \div b
<1>1. q \in Int /\ r \in Int /\ x \in Int
  OBVIOUS
<1>2. b * q <= a /\ b * r <= m
  OBVIOUS
<1>3. a + m < b * x + b
  OBVIOUS
<1> HIDE DEF q, r, x
<1>4. b * (q + r) < b * (x + 1)
  BY <1>1, <1>2, <1>3
<1>5. q + r < x + 1
  BY <1>1, <1>4
<1> QED
  BY <1>1, <1>5 DEF q, r, x

LEMMA VisitedIsAsked ==
  ASSUME NEW h \in Header, FirstPage(h) + (h.memsz \div PageBytes) < TotalPages
  PROVE  Listed(SegmentList(h)) \subseteq Extent(h, h.memsz + 1)
<1>1. h.memsz \in Nat /\ h.va \in Nat /\ PageBytes \in Nat \ {0}
  BY LoaderAssumption DEF Header
<1>2. FirstPage(h) + (h.memsz \div PageBytes) <= (h.va + h.memsz) \div PageBytes
  BY <1>1, DivisionOfSum DEF FirstPage
<1>3. /\ FirstPage(h) \in Int /\ (h.va + h.memsz) \div PageBytes \in Int
      /\ h.memsz \div PageBytes \in Int
  BY <1>1 DEF FirstPage
<1>4. Extent(h, h.memsz + 1) = FirstPage(h) .. (h.va + h.memsz) \div PageBytes
  <2>1. h.memsz + 1 # 0 /\ h.va + (h.memsz + 1) - 1 = h.va + h.memsz
    BY <1>1
  <2> QED BY <2>1 DEF Extent
<1> QED BY <1>2, <1>3, <1>4, SegmentListInPages

(* The heap and the stack are in the address space too.                    *)
LEMMA HeapListInPages ==
  ASSUME NEW base \in Pages
  PROVE  HeapList(base) \in Seq(Pages)
<1>1. \A x \in Nat : x % TotalPages \in Pages
  BY LoaderAssumption DEF Pages
<1>2. \A i \in 1 .. HeapPages : (base + i - 1) % TotalPages \in Pages
  BY <1>1, LoaderAssumption DEF Pages
<1> QED BY <1>2, LoaderAssumption DEF HeapList

LEMMA StackListInPages == StackList \in Seq(Pages)
<1>1. \A i \in 1 .. StackPages : StackBase + i - 1 \in Pages
  BY LoaderAssumption DEF Pages
<1> QED BY <1>1, LoaderAssumption DEF StackList

(* What is on two lists is on their concatenation, and nothing else.       *)
LEMMA ListedConcat ==
  ASSUME NEW s \in Seq(Pages), NEW t \in Seq(Pages)
  PROVE  s \o t \in Seq(Pages) /\ Listed(s \o t) = Listed(s) \cup Listed(t)
<1>1. s \o t \in Seq(Pages) /\ Len(s \o t) = Len(s) + Len(t)
  OBVIOUS
<1>2. Listed(s \o t) \subseteq Listed(s) \cup Listed(t)
  BY <1>1 DEF Listed
<1>3. Listed(s) \subseteq Listed(s \o t)
  BY <1>1 DEF Listed
<1>4. ASSUME NEW j \in DOMAIN t
      PROVE  t[j] \in Listed(s \o t)
  <2>1. Len(s) + j \in DOMAIN (s \o t) /\ (s \o t)[Len(s) + j] = t[j]
    BY <1>1
  <2> QED BY <2>1 DEF Listed
<1> QED BY <1>1, <1>2, <1>3, <1>4 DEF Listed

(* The first of the pages to visit, and the others.                        *)
LEMMA TodoPages ==
  ASSUME NEW s \in Seq(Pages), s # <<>>
  PROVE  /\ Head(s) \in Pages /\ Tail(s) \in Seq(Pages)
         /\ Listed(s) = {Head(s)} \cup Listed(Tail(s))
<1>1. Len(s) \in Nat \ {0} /\ Head(s) = s[1] /\ Head(s) \in Pages /\ Tail(s) \in Seq(Pages)
  OBVIOUS
<1>2. Len(Tail(s)) = Len(s) - 1 /\ \A i \in 1 .. Len(s) - 1 : Tail(s)[i] = s[i + 1]
  OBVIOUS
<1>3. Listed(Tail(s)) \subseteq Listed(s) /\ Head(s) \in Listed(s)
  BY <1>1, <1>2 DEF Listed
<1>4. ASSUME NEW i \in DOMAIN s
      PROVE  s[i] \in {Head(s)} \cup Listed(Tail(s))
  <2>1. CASE i = 1
    BY <1>1, <2>1
  <2>2. CASE i # 1
    <3>1. i - 1 \in 1 .. Len(s) - 1 /\ Tail(s)[i - 1] = s[i]
      BY <1>1, <1>2, <2>2
    <3> QED BY <1>1, <1>2, <3>1 DEF Listed
  <2> QED BY <2>1, <2>2
<1> QED BY <1>1, <1>3, <1>4 DEF Listed

(* A page is recorded: it is on the list from now on, or it is lost. What  *)
(* the list names is what it named before, and the page.                   *)
LEMMA RecordedPage ==
  ASSUME addrs \in Seq(Pages), addrs_size \in Nat \ {0}, lost \subseteq Pages,
         NEW page \in Pages, Record(page)
  PROVE  /\ addrs' \in Seq(Pages) /\ addrs_size' \in Nat \ {0} /\ lost' \subseteq Pages
         /\ Listed(addrs) \cup lost \cup {page} \subseteq Listed(addrs') \cup lost'
         /\ Listed(addrs') \subseteq Listed(addrs) \cup {page}
<1>1. addrs_size' \in Nat \ {0}
  BY DEF Record
<1>2. ASSUME NEW a \in Pages
      PROVE  /\ Append(addrs, a) \in Seq(Pages)
             /\ Listed(Append(addrs, a)) = Listed(addrs) \cup {a}
  <2>1. /\ Append(addrs, a) \in Seq(Pages) /\ Len(Append(addrs, a)) = Len(addrs) + 1
        /\ \A i \in 1 .. Len(addrs) : Append(addrs, a)[i] = addrs[i]
        /\ Append(addrs, a)[Len(addrs) + 1] = a
    OBVIOUS
  <2>2. DOMAIN Append(addrs, a) = (DOMAIN addrs) \cup {Len(addrs) + 1}
    BY <2>1
  <2> QED BY <2>1, <2>2 DEF Listed
<1>3. CASE addrs' = Append(addrs, page) /\ UNCHANGED lost
  BY <1>1, <1>2, <1>3
<1>4. CASE BehindArray /\ addrs' = Append(addrs, addrs[1]) /\ lost' = lost \cup {page}
  <2>1. 1 \in DOMAIN addrs
    BY <1>4 DEF BehindArray, Full
  <2>2. addrs[1] \in Pages /\ addrs[1] \in Listed(addrs)
    BY <2>1 DEF Listed
  <2> QED BY <1>1, <1>2, <1>4, <2>2
<1> QED BY <1>3, <1>4 DEF Record

(* Claiming a page and releasing a list, seen from the program.            *)
LEMMA ClaimedPage ==
  ASSUME owner \in [Pages -> Owners], NEW page \in Pages, owner' = Claim(page)
  PROVE  /\ owner' \in [Pages -> Owners]
         /\ HeldBy("program") \subseteq HeldBy("program")'
         /\ HeldBy("program")' \subseteq HeldBy("program") \cup {page}
         /\ owner'[page] # "none"
         /\ owner[page] = "none" => owner'[page] = "program"
         /\ \A p \in Pages : owner[p] # "none" => owner'[p] = owner[p]
  BY DEF Claim, HeldBy, Owners

LEMMA ReleasedPages ==
  ASSUME owner \in [Pages -> Owners], lost \subseteq Pages,
         HeldBy("program") \subseteq Listed(addrs) \cup lost,
         owner' = Release(addrs), lost' = lost \ Listed(addrs)
  PROVE  /\ owner' \in [Pages -> Owners] /\ lost' \subseteq Pages
         /\ HeldBy("program")' \subseteq lost'
  BY DEF Release, HeldBy, Owners

-----------------------------------------------------------------------------
LEMMA InitInv == Init => Inv
<1> SUFFICES ASSUME Init PROVE Inv
  OBVIOUS
<1>1. TypeOK
  <2>1. owner \in [Pages -> Owners]
    BY DEF Init, PagesOf, Owners
  <2>2. /\ program \in Programs \cup {<<>>} /\ next \in 1 .. Len(program) + 1
        /\ todo \in Seq(Pages)
        /\ addrs \in Seq(Pages) /\ addrs_size \in Nat /\ lost \subseteq Pages
        /\ heap_base \in Pages
    BY LoaderAssumption DEF Init, Pages, NullPage
  <2> QED BY <2>1, <2>2 DEF TypeOK, Init
<1>2. HeldBy("program") = {}
  BY DEF Init, PagesOf, HeldBy
<1> QED BY <1>1, <1>2 DEF Inv, ProgramRecorded, Loads, SegmentsPresent, SegmentUnderWay,
                          LaunchUnderWay, SomeHeader, AskedRecorded, RunningProgramIsMapped, Init

(* A load that starts has nothing mapped but what was lost, and an empty   *)
(* list.                                                                   *)
LEMMA StartKeepsInv ==
  ASSUME Inv, NEW f \in Programs, NEW who \in {"kernel", "program"}, Start(f, who),
         owner' \in [Pages -> Owners], lost' \subseteq Pages,
         HeldBy("program")' \subseteq lost'
  PROVE  Inv'
<1>1. f \in Seq(Header)
  BY LoaderAssumption
<1>2. TypeOK'
  <2>1. next' \in 1 .. Len(program') + 1 /\ addrs_size' \in Nat
    BY <1>1 DEF Start
  <2>2. addrs' \in Seq(Pages) /\ todo' \in Seq(Pages) /\ heap_base' \in Pages
    BY LoaderAssumption DEF Start, Pages, NullPage
  <2> QED BY <2>1, <2>2 DEF Start, TypeOK
<1>3. Listed(addrs') = {}
  BY DEF Start, Listed
<1>4. mode' \in {"loading", "panicked"}
  BY DEF Start
<1>5. SomeHeader'
  BY <1>1 DEF SomeHeader, Start
<1>6. \A i \in DOMAIN f : ~(i < 1)
  BY <1>1
<1>7. SegmentsPresent'
  BY <1>6 DEF SegmentsPresent, Start
<1>8. ProgramRecorded' /\ SegmentUnderWay' /\ LaunchUnderWay' /\ AskedRecorded'
      /\ RunningProgramIsMapped'
  BY <1>3, <1>4 DEF ProgramRecorded, SegmentUnderWay, LaunchUnderWay, AskedRecorded,
                    RunningProgramIsMapped
<1> QED BY <1>2, <1>5, <1>7, <1>8 DEF Inv

(* The steps that end a load without a program.                            *)
LEMMA EndKeepsInv ==
  ASSUME Inv, mode' \in {"prompt", "faulted", "panicked", "corrupted"},
         owner' \in [Pages -> Owners], lost' \subseteq Pages,
         mode' = "prompt" => HeldBy("program")' \subseteq lost',
         \/ /\ UNCHANGED <<program, next, todo, addrs, addrs_size, heap_base>>
            /\ caller' \in {"kernel", "program"}
         \/ Return
  PROVE  Inv'
<1>1. TypeOK'
  <2>1. CASE UNCHANGED <<program, next, todo, addrs, addrs_size, heap_base>>
             /\ caller' \in {"kernel", "program"}
    BY <2>1 DEF Inv, TypeOK
  <2>2. CASE Return
    <3>1. heap_base' \in Pages
      BY <2>2, LoaderAssumption DEF Return, Pages, NullPage
    <3>2. /\ program' \in Programs \cup {<<>>} /\ next' \in 1 .. Len(program') + 1
          /\ todo' \in Seq(Pages) /\ addrs' \in Seq(Pages) /\ addrs_size' \in Nat
          /\ caller' \in {"kernel", "program"}
      BY <2>2 DEF Return
    <3> QED BY <3>1, <3>2 DEF TypeOK
  <2> QED BY <2>1, <2>2
<1>2. mode' \notin Loads
  BY DEF Loads
<1> QED BY <1>1, <1>2 DEF Inv, ProgramRecorded, Loads, SegmentsPresent, SegmentUnderWay,
          LaunchUnderWay, SomeHeader, AskedRecorded, RunningProgramIsMapped

LEMMA PanicKeepsInv == ASSUME Inv, Panic PROVE Inv'
  BY EndKeepsInv DEF Panic, pagelist, Inv, TypeOK

LEMMA LoadKeepsInv ==
  ASSUME Inv, NEW f \in Programs, elf_load_and_run(f)
  PROVE  Inv'
<1>1. HeldBy("program")' \subseteq lost' /\ lost' \subseteq Pages
  BY DEF elf_load_and_run, Inv, TypeOK, ProgramRecorded, HeldBy
<1> QED BY <1>1, StartKeepsInv DEF elf_load_and_run, Inv, TypeOK

LEMMA LoadnewKeepsInv ==
  ASSUME Inv, NEW f \in Programs, loadnew(f)
  PROVE  Inv'
<1>1. CASE Panic
  BY <1>1, PanicKeepsInv
<1>2. CASE owner' = elf_free(addrs) /\ lost' = lost \ Listed(addrs)
  <2>1. owner' \in [Pages -> Owners] /\ lost' \subseteq Pages /\ HeldBy("program")' \subseteq lost'
    BY <1>2, ReleasedPages DEF elf_free, Inv, TypeOK, ProgramRecorded, Loads, loadnew
  <2>2. CASE Start(f, "program")
    BY <2>1, <2>2, StartKeepsInv
  <2>3. CASE /\ mode' = "faulted" /\ caller' = "program"
             /\ UNCHANGED <<program, next, todo, addrs, addrs_size, heap_base>>
    BY <2>1, <2>3, EndKeepsInv
  <2>4. Start(f, "program") \/ /\ mode' = "faulted" /\ caller' = "program"
                               /\ UNCHANGED <<program, next, todo, addrs, addrs_size, heap_base>>
        \/ Panic
    BY DEF loadnew
  <2> QED BY <2>2, <2>3, <2>4, PanicKeepsInv
<1> QED BY <1>1, <1>2 DEF loadnew

(* The header a load is at.                                                *)
LEMMA HeaderHere ==
  ASSUME TypeOK, Loading
  PROVE  /\ program \in Programs /\ program \in Seq(Header)
         /\ next \in 1 .. Len(program)
         /\ program[next] \in Header
         /\ FirstPage(program[next]) + (program[next].memsz \div PageBytes) < TotalPages
<1>1. program \in Programs
  BY DEF TypeOK, Loading
<1>2. program \in Seq(Header)
  BY <1>1, LoaderAssumption
<1> QED BY <1>1, <1>2, HeaderFits DEF Loading

(* Pages asked for stay asked for while the load goes on.                  *)
LEMMA AskedGrows ==
  ASSUME TypeOK, UNCHANGED <<program, heap_base>>, next <= next', next' \in Int,
         mode' \in {"launching", "running"} \/ mode \notin {"launching", "running"}
  PROVE  Asked \subseteq Asked'
<1>1. next \in Int
  BY DEF TypeOK
<1>2. \A j \in DOMAIN program : j \in Int
  BY LoaderAssumption DEF TypeOK
<1>3. {j \in DOMAIN program : j <= next /\ program[j].load}
        \subseteq {j \in DOMAIN program' : j <= next' /\ program'[j].load}
  BY <1>1, <1>2
<1>4. Memory' = Memory
  BY DEF Memory, Listed, HeapList, StackList
<1> QED BY <1>3, <1>4 DEF Asked, Segments, Extent, FirstPage

LEMMA SkipKeepsInv == ASSUME Inv, SkipHeader PROVE Inv'
<1>1. program \in Seq(Header) /\ next \in 1 .. Len(program)
  BY HeaderHere DEF Inv, SkipHeader
<1>2. TypeOK'
  BY <1>1 DEF SkipHeader, pagelist, Inv, TypeOK
<1>3. SegmentsPresent'
  <2> SUFFICES ASSUME NEW i \in DOMAIN program, i < next + 1,
                      program[i].load, Aligned(program[i])
               PROVE  Extent(program[i], program[i].memsz) \subseteq HeldBy("program")
    BY DEF SkipHeader, SegmentsPresent, HeldBy, Extent, FirstPage, Aligned
  <2>1. i # next
    BY DEF SkipHeader
  <2>2. i < next
    BY <1>1, <2>1
  <2> QED BY <2>2 DEF Inv, SegmentsPresent, SkipHeader, Loading
<1>4. Asked \subseteq Asked'
  BY <1>1, AskedGrows DEF SkipHeader, Loading, Inv
<1>5. AskedRecorded'
  BY <1>4 DEF SkipHeader, pagelist, Loading, Inv, AskedRecorded, Loads, Listed
<1>6. ProgramRecorded' /\ SegmentUnderWay' /\ LaunchUnderWay' /\ SomeHeader' /\ RunningProgramIsMapped'
  BY DEF SkipHeader, pagelist, Loading, Inv, ProgramRecorded, SegmentUnderWay, LaunchUnderWay,
         SomeHeader, RunningProgramIsMapped, HeldBy, Loads, Listed
<1> QED BY <1>2, <1>3, <1>5, <1>6 DEF Inv

LEMMA RejectKeepsInv ==
  ASSUME Inv, mode \in {"loading", "segment"}, mode' = "cleanup",
         UNCHANGED <<owner, program, next, todo, addrs, addrs_size, lost, heap_base, caller>>
  PROVE  Inv'
<1>1. Asked \subseteq Asked'
  BY AskedGrows DEF Inv, TypeOK
<1>2. TypeOK' /\ SegmentsPresent' /\ SegmentUnderWay' /\ LaunchUnderWay' /\ SomeHeader'
      /\ RunningProgramIsMapped'
  BY DEF Inv, TypeOK, SegmentsPresent, SegmentUnderWay, LaunchUnderWay, SomeHeader,
         RunningProgramIsMapped
<1>3. ProgramRecorded'
  BY DEF Inv, ProgramRecorded, Loads, HeldBy, Listed
<1>4. AskedRecorded'
  BY <1>1 DEF Inv, AskedRecorded, Loads, Listed
<1> QED BY <1>2, <1>3, <1>4 DEF Inv

LEMMA BeginSegmentKeepsInv == ASSUME Inv, BeginSegment PROVE Inv'
<1> DEFINE h == program[next]
<1>1. /\ program \in Seq(Header) /\ next \in 1 .. Len(program) /\ h \in Header
      /\ FirstPage(h) + (h.memsz \div PageBytes) < TotalPages
  BY HeaderHere DEF Inv, BeginSegment
<1>2. /\ mode = "loading" /\ mode' = "segment" /\ todo' = SegmentList(h) /\ h.load
      /\ UNCHANGED <<owner, program, next, addrs, addrs_size, lost, heap_base, caller>>
  BY DEF BeginSegment, Loading, pagelist
<1>3. todo' \in Seq(Pages)
  BY <1>1, <1>2, SegmentListInPages
<1>4. Asked \subseteq Asked'
  BY <1>1, <1>2, AskedGrows DEF Inv
<1>5. Listed(todo') \subseteq Asked'
  <2>1. Listed(todo') \subseteq Extent(h, h.memsz + 1)
    BY <1>1, <1>2, VisitedIsAsked
  <2>2. next \in {j \in DOMAIN program : j <= next /\ program[j].load}
    BY <1>1, <1>2
  <2>3. Extent(h, h.memsz + 1) \subseteq Asked
    BY <2>2 DEF Asked, Segments
  <2> QED BY <1>4, <2>1, <2>3
<1>6. TypeOK'
  BY <1>2, <1>3 DEF Inv, TypeOK
<1>7. SegmentUnderWay'
  BY <1>1, <1>2, <1>5 DEF SegmentUnderWay, SegmentList, FirstPage
<1>8. ProgramRecorded' /\ LaunchUnderWay' /\ SomeHeader' /\ RunningProgramIsMapped'
  BY <1>2 DEF Inv, ProgramRecorded, LaunchUnderWay, SomeHeader, RunningProgramIsMapped,
              Loads, HeldBy, Listed
<1>9. SegmentsPresent'
  BY <1>2 DEF Inv, SegmentsPresent, HeldBy, Extent, FirstPage, Aligned
<1>10. AskedRecorded'
  BY <1>2, <1>4 DEF Inv, AskedRecorded, Loads, Listed
<1> QED BY <1>6, <1>7, <1>8, <1>9, <1>10 DEF Inv

(* A step of one of the two loops: a page is claimed and recorded.         *)
LEMMA VisitedPage ==
  ASSUME Inv, mode \in {"segment", "launching"}, todo # <<>>,
         Record(Head(todo)), owner' = Claim(Head(todo)),
         UNCHANGED <<program, next, heap_base, caller>>,
         \/ todo' = Tail(todo) /\ mode' = mode
         \/ mode = "segment" /\ mode' = "cleanup" /\ todo' = <<>>
  PROVE  /\ TypeOK' /\ ProgramRecorded' /\ SegmentsPresent' /\ SomeHeader' /\ AskedRecorded'
         /\ RunningProgramIsMapped'
<1>1. todo \in Seq(Pages) /\ addrs \in Seq(Pages) /\ addrs_size \in Nat \ {0} /\ lost \subseteq Pages
  BY DEF Inv, TypeOK, SomeHeader
<1>2. /\ Head(todo) \in Pages /\ Tail(todo) \in Seq(Pages) /\ Head(todo) \in Listed(todo)
  BY <1>1, TodoPages
<1>3. /\ addrs' \in Seq(Pages) /\ addrs_size' \in Nat \ {0} /\ lost' \subseteq Pages
      /\ Listed(addrs) \cup lost \cup {Head(todo)} \subseteq Listed(addrs') \cup lost'
      /\ Listed(addrs') \subseteq Listed(addrs) \cup {Head(todo)}
  BY <1>1, <1>2, RecordedPage
<1>4. /\ owner' \in [Pages -> Owners]
      /\ HeldBy("program") \subseteq HeldBy("program")'
      /\ HeldBy("program")' \subseteq HeldBy("program") \cup {Head(todo)}
  BY <1>2, ClaimedPage DEF Inv, TypeOK
<1>5. TypeOK'
  <2>1. todo' \in Seq(Pages)
    <3>1. <<>> \in Seq(Pages)
      OBVIOUS
    <3> QED BY <1>2, <3>1
  <2>2. mode' \in {"segment", "launching", "cleanup"}
    OBVIOUS
  <2> QED BY <1>3, <1>4, <2>1, <2>2 DEF Inv, TypeOK
<1>6. ProgramRecorded'
  BY <1>3, <1>4 DEF Inv, ProgramRecorded, Loads
<1>7. SegmentsPresent'
  BY <1>4 DEF Inv, SegmentsPresent, Extent, FirstPage, Aligned
<1>8. SomeHeader' /\ RunningProgramIsMapped'
  BY <1>3 DEF Inv, SomeHeader, RunningProgramIsMapped
<1>9. AskedRecorded'
  <2>1. Asked \subseteq Asked'
    BY AskedGrows DEF Inv, TypeOK
  <2>2. Listed(todo) \subseteq Asked
    <3>1. CASE mode = "segment"
      BY <3>1 DEF Inv, SegmentUnderWay
    <3>2. CASE mode = "launching"
      <4>1. Memory \subseteq Asked
        <5>1. mode \in {"launching", "running"}
          BY <3>2
        <5> QED BY <5>1 DEF Asked
      <4> QED BY <3>2, <4>1 DEF Inv, LaunchUnderWay
    <3> QED BY <3>1, <3>2
  <2>3. Listed(addrs) \subseteq Asked
    BY DEF Inv, AskedRecorded, Loads
  <2> QED BY <1>2, <1>3, <2>1, <2>2, <2>3 DEF AskedRecorded
<1> QED BY <1>5, <1>6, <1>7, <1>8, <1>9

LEMMA CorruptKeepsInv ==
  ASSUME Inv, Corrupt, UNCHANGED <<program, next, heap_base, caller>>
  PROVE  Inv'
  BY EndKeepsInv DEF Corrupt, pagelist, Inv, TypeOK

LEMMA MapSegmentPageKeepsInv == ASSUME Inv, MapSegmentPage PROVE Inv'
<1>1. CASE Corrupt
  BY <1>1, CorruptKeepsInv DEF MapSegmentPage
<1>2. CASE /\ Record(Head(todo)) /\ owner' = Claim(Head(todo))
           /\ owner[Head(todo)] # "none" /\ mode' = "cleanup" /\ todo' = <<>>
  <2>1. /\ TypeOK' /\ ProgramRecorded' /\ SegmentsPresent' /\ SomeHeader' /\ AskedRecorded'
        /\ RunningProgramIsMapped'
    BY <1>2, VisitedPage DEF MapSegmentPage
  <2>2. SegmentUnderWay' /\ LaunchUnderWay'
    BY <1>2 DEF SegmentUnderWay, LaunchUnderWay
  <2> QED BY <2>1, <2>2 DEF Inv
<1>3. CASE /\ Record(Head(todo)) /\ owner' = Claim(Head(todo))
           /\ owner[Head(todo)] = "none" /\ todo' = Tail(todo) /\ UNCHANGED mode
  <2>1. /\ TypeOK' /\ ProgramRecorded' /\ SegmentsPresent' /\ SomeHeader' /\ AskedRecorded'
        /\ RunningProgramIsMapped'
    BY <1>3, VisitedPage DEF MapSegmentPage
  <2>2. LaunchUnderWay'
    BY <1>3 DEF MapSegmentPage, LaunchUnderWay
  <2>3. todo \in Seq(Pages) /\ todo # <<>> /\ mode = "segment" /\ owner \in [Pages -> Owners]
        /\ UNCHANGED <<program, next, heap_base>>
    BY DEF Inv, TypeOK, MapSegmentPage
  <2>4. Head(todo) \in Pages /\ Listed(todo) = {Head(todo)} \cup Listed(todo')
    BY <1>3, <2>3, TodoPages
  <2>5. /\ owner'[Head(todo)] = "program"
        /\ \A p \in Pages : owner[p] # "none" => owner'[p] = owner[p]
    BY <1>3, <2>3, <2>4, ClaimedPage
  <2>6. Asked \subseteq Asked'
    BY <1>3, <2>3, AskedGrows DEF Inv, TypeOK
  <2>7. ASSUME NEW p \in Listed(SegmentList(program[next]))
        PROVE  p \in Listed(todo') \/ owner'[p] = "program"
    <3>1. p \in Listed(todo) \/ owner[p] = "program"
      BY <2>3 DEF Inv, SegmentUnderWay
    <3>2. p \in Pages
      <4>1. next \in DOMAIN program
        BY <2>3 DEF Inv, SegmentUnderWay
      <4>2. program \in Programs
        BY <4>1 DEF Inv, TypeOK
      <4>3. SegmentList(program[next]) \in Seq(Pages)
        BY <4>1, <4>2, HeaderFits, SegmentListInPages
      <4> QED BY <4>3 DEF Listed
    <3> QED BY <2>4, <2>5, <3>1, <3>2
  <2>8. SegmentUnderWay'
    <3>1. next \in DOMAIN program /\ program[next].load /\ Listed(todo) \subseteq Asked
      BY <2>3 DEF Inv, SegmentUnderWay
    <3>2. SegmentList(program[next])' = SegmentList(program[next])
      BY <2>3 DEF SegmentList, FirstPage
    <3> QED BY <2>3, <2>4, <2>6, <2>7, <3>1, <3>2 DEF SegmentUnderWay
  <2> QED BY <2>1, <2>2, <2>8 DEF Inv
<1> QED BY <1>1, <1>2, <1>3 DEF MapSegmentPage

LEMMA ReadSegmentKeepsInv == ASSUME Inv, ReadSegment PROVE Inv'
<1> DEFINE h == program[next]
<1>1. /\ mode = "segment" /\ todo = <<>>
      /\ UNCHANGED <<owner, program, todo, addrs, addrs_size, lost, heap_base, caller>>
  BY DEF ReadSegment, pagelist
<1>2. next \in DOMAIN program /\ program \in Programs
  BY <1>1 DEF Inv, SegmentUnderWay, TypeOK
<1>3. CASE mode' = "cleanup" /\ UNCHANGED next
  BY <1>1, <1>3, RejectKeepsInv
<1>4. CASE mode' = "faulted" /\ UNCHANGED next
  BY <1>1, <1>4, EndKeepsInv DEF Inv, TypeOK
<1>5. CASE mode' = "loading" /\ next' = next + 1
  <2>1. program \in Seq(Header) /\ next \in 1 .. Len(program) /\ h \in Header
        /\ FirstPage(h) + (h.memsz \div PageBytes) < TotalPages
    BY <1>2, HeaderFits, LoaderAssumption
  <2>2. TypeOK'
    BY <1>1, <1>5, <2>1 DEF Inv, TypeOK
  <2>3. SegmentList(h) \in Seq(Pages) /\ Listed(SegmentList(h)) \subseteq HeldBy("program")
    <3>1. SegmentList(h) \in Seq(Pages)
      BY <2>1, SegmentListInPages
    <3>2. Listed(todo) = {}
      BY <1>1 DEF Listed
    <3>3. \A p \in Listed(SegmentList(h)) : p \in Pages /\ owner[p] = "program"
      BY <1>1, <3>1, <3>2 DEF Inv, SegmentUnderWay, Listed
    <3> QED BY <3>1, <3>3 DEF HeldBy
  <2>4. SegmentsPresent'
    <3> SUFFICES ASSUME NEW i \in DOMAIN program, i < next + 1,
                        program[i].load, Aligned(program[i])
                 PROVE  Extent(program[i], program[i].memsz) \subseteq HeldBy("program")
      BY <1>1, <1>5 DEF SegmentsPresent, HeldBy, Extent, FirstPage, Aligned
    <3>1. CASE i = next
      BY <2>1, <2>3, <3>1, AlignedExtentIsVisited
    <3>2. CASE i < next
      BY <1>1, <3>2 DEF Inv, SegmentsPresent
    <3> QED BY <2>1, <3>1, <3>2
  <2>5. Asked \subseteq Asked'
    BY <1>1, <1>5, <2>1, AskedGrows DEF Inv
  <2>6. AskedRecorded'
    BY <1>1, <1>5, <2>5 DEF Inv, AskedRecorded, Loads, Listed
  <2>7. ProgramRecorded' /\ SegmentUnderWay' /\ LaunchUnderWay' /\ SomeHeader' /\ RunningProgramIsMapped'
    BY <1>1, <1>5 DEF Inv, ProgramRecorded, SegmentUnderWay, LaunchUnderWay, SomeHeader,
                      RunningProgramIsMapped, Loads, HeldBy, Listed
  <2> QED BY <2>2, <2>4, <2>6, <2>7 DEF Inv
<1> QED BY <1>3, <1>4, <1>5 DEF ReadSegment

LEMMA CleanupKeepsInv == ASSUME Inv, Cleanup PROVE Inv'
<1>1. CASE Panic
  BY <1>1, PanicKeepsInv
<1>2. CASE owner' = Release(addrs) /\ lost' = lost \ Listed(addrs) /\ Return
  <2>1. owner' \in [Pages -> Owners] /\ lost' \subseteq Pages /\ HeldBy("program")' \subseteq lost'
    BY <1>2, ReleasedPages DEF Inv, TypeOK, ProgramRecorded, Loads, Cleanup
  <2>2. mode' \in {"prompt", "faulted"}
    BY <1>2 DEF Return
  <2> QED BY <1>2, <2>1, <2>2, EndKeepsInv
<1> QED BY <1>1, <1>2 DEF Cleanup

(* No address found means no address recorded: nothing is mapped.          *)
LEMMA NothingToRunKeepsInv == ASSUME Inv, NothingToRun PROVE Inv'
<1>1. program \in Seq(Header) /\ program # <<>> /\ addrs \in Seq(Pages)
  BY LoaderAssumption DEF NothingToRun, Loaded, SomeHeader, Inv, TypeOK
<1>2. \A s \in Scanned : s \in Pages /\ s <= -1
  BY <1>1 DEF NothingToRun, IsHighest, Scanned
<1>3. Scanned = {}
  BY <1>2 DEF Pages
<1>4. 1 \notin DOMAIN addrs
  BY <1>1, <1>3 DEF Scanned
<1>5. Listed(addrs) = {}
  BY <1>1, <1>4 DEF Listed
<1>6. HeldBy("program")' \subseteq lost'
  BY <1>5 DEF NothingToRun, Loaded, Inv, ProgramRecorded, Loads, HeldBy
<1>7. mode' \in {"prompt", "faulted"} /\ Return
  BY DEF NothingToRun, Return
<1> QED BY <1>6, <1>7, EndKeepsInv DEF NothingToRun, Inv, TypeOK

LEMMA LaunchKeepsInv == ASSUME Inv, Launch PROVE Inv'
<1>1. PICK a \in Pages : /\ heap_base' = (a + 1) % TotalPages
                         /\ todo' = HeapList(heap_base') \o StackList
  BY DEF Launch
<1>2. /\ mode = "loading" /\ mode' = "launching" /\ next \notin DOMAIN program
      /\ UNCHANGED <<owner, program, next, addrs, addrs_size, lost, caller>>
  BY DEF Launch, Loaded, pagelist
<1>3. heap_base' \in Pages
  <2>1. a \in Nat /\ TotalPages \in Nat \ {0}
    BY LoaderAssumption DEF Pages
  <2> QED BY <1>1, <2>1 DEF Pages
<1>4. todo' \in Seq(Pages) /\ Listed(todo') = Listed(HeapList(heap_base')) \cup Listed(StackList)
  BY <1>1, <1>3, HeapListInPages, StackListInPages, ListedConcat
<1>5. Listed(todo') = Memory'
  BY <1>4 DEF Memory, Listed, HeapList, StackList
<1>6. TypeOK'
  BY <1>2, <1>3, <1>4 DEF Inv, TypeOK
<1>7. LaunchUnderWay'
  BY <1>2, <1>5 DEF LaunchUnderWay
<1>8. ProgramRecorded' /\ SegmentUnderWay' /\ SomeHeader' /\ RunningProgramIsMapped'
  BY <1>2 DEF Inv, ProgramRecorded, SegmentUnderWay, SomeHeader, RunningProgramIsMapped,
              Loads, HeldBy, Listed
<1>9. SegmentsPresent'
  BY <1>2 DEF Inv, SegmentsPresent, HeldBy, Extent, FirstPage, Aligned
<1>10. AskedRecorded'
  <2>1. Asked \subseteq Asked'
    BY <1>2 DEF Asked, Segments, Extent, FirstPage
  <2> QED BY <1>2, <2>1 DEF Inv, AskedRecorded, Loads, Listed
<1> QED BY <1>6, <1>7, <1>8, <1>9, <1>10 DEF Inv

LEMMA MapLaunchPageKeepsInv == ASSUME Inv, MapLaunchPage PROVE Inv'
<1>1. CASE Corrupt
  BY <1>1, CorruptKeepsInv DEF MapLaunchPage
<1>2. CASE /\ Record(Head(todo)) /\ owner' = Claim(Head(todo))
           /\ todo' = Tail(todo) /\ UNCHANGED mode
  <2>1. todo \in Seq(Pages) /\ todo # <<>> /\ mode = "launching" /\ owner \in [Pages -> Owners]
        /\ UNCHANGED <<program, next, heap_base, caller>> /\ heap_base \in Pages
    BY DEF Inv, TypeOK, MapLaunchPage
  <2>2. /\ TypeOK' /\ ProgramRecorded' /\ SegmentsPresent' /\ SomeHeader' /\ AskedRecorded'
        /\ RunningProgramIsMapped'
    BY <1>2, <2>1, VisitedPage
  <2>3. SegmentUnderWay'
    BY <1>2, <2>1 DEF SegmentUnderWay
  <2>4. Head(todo) \in Pages /\ Listed(todo) = {Head(todo)} \cup Listed(todo')
    BY <1>2, <2>1, TodoPages
  <2>5. /\ owner'[Head(todo)] # "none"
        /\ \A p \in Pages : owner[p] # "none" => owner'[p] = owner[p]
    BY <1>2, <2>1, <2>4, ClaimedPage
  <2>6. Memory' = Memory /\ Memory \subseteq Pages
    <3>1. Memory' = Memory
      BY <2>1 DEF Memory, Listed, HeapList, StackList
    <3>2. HeapList(heap_base) \in Seq(Pages) /\ StackList \in Seq(Pages)
      BY <2>1, HeapListInPages, StackListInPages
    <3>3. Listed(HeapList(heap_base)) \subseteq Pages
      BY <3>2 DEF Listed
    <3>4. Listed(StackList) \subseteq Pages
      BY <3>2 DEF Listed
    <3> QED BY <3>1, <3>3, <3>4 DEF Memory
  <2>7. LaunchUnderWay'
    BY <1>2, <2>1, <2>4, <2>5, <2>6 DEF Inv, LaunchUnderWay
  <2> QED BY <2>2, <2>3, <2>7 DEF Inv
<1> QED BY <1>1, <1>2 DEF MapLaunchPage

LEMMA EnterKeepsInv == ASSUME Inv, entryuser32 PROVE Inv'
<1>1. /\ mode = "launching" /\ mode' = "running" /\ todo = <<>>
      /\ UNCHANGED <<owner, program, next, todo, addrs, addrs_size, lost, heap_base, caller>>
  BY DEF entryuser32, pagelist
<1>2. Listed(todo) = {}
  BY <1>1 DEF Listed
<1>3. Memory' = Memory
  BY <1>1 DEF Memory, Listed, HeapList, StackList
<1>4. \A i \in DOMAIN program : i < next
  <2>1. program \in Seq(Header) /\ next \in 1 .. Len(program) + 1 /\ next \notin DOMAIN program
    <3>1. next \notin DOMAIN program
      BY <1>1 DEF Inv, LaunchUnderWay
    <3>2. next \in 1 .. Len(program) + 1 /\ program \in Programs \cup {<<>>}
      BY DEF Inv, TypeOK
    <3>3. <<>> \in Seq(Header)
      OBVIOUS
    <3>4. program \in Seq(Header)
      BY <3>2, <3>3, LoaderAssumption
    <3> QED BY <3>1, <3>2, <3>4
  <2> QED BY <2>1
<1>5. ASSUME NEW i \in DOMAIN program, program[i].load, Aligned(program[i])
      PROVE  Extent(program[i], program[i].memsz) \subseteq HeldBy("program")
  BY <1>1, <1>4, <1>5 DEF Inv, SegmentsPresent
<1>6. \A p \in Memory : owner[p] # "none"
  BY <1>1, <1>2 DEF Inv, LaunchUnderWay
<1>7. RunningProgramIsMapped'
  BY <1>1, <1>3, <1>5, <1>6 DEF RunningProgramIsMapped, HeldBy, Extent, FirstPage, Aligned
<1>8. TypeOK' /\ SegmentsPresent' /\ SegmentUnderWay' /\ LaunchUnderWay' /\ SomeHeader'
  BY <1>1 DEF Inv, TypeOK, SegmentsPresent, SegmentUnderWay, LaunchUnderWay, SomeHeader
<1>9. ProgramRecorded'
  BY <1>1 DEF Inv, ProgramRecorded, Loads, HeldBy, Listed
<1>10. Asked \subseteq Asked'
  BY <1>1, AskedGrows DEF Inv, TypeOK
<1>11. AskedRecorded'
  BY <1>1, <1>10 DEF Inv, AskedRecorded, Loads, Listed
<1> QED BY <1>7, <1>8, <1>9, <1>11 DEF Inv

-----------------------------------------------------------------------------
LEMMA InvStep == Inv /\ [Next]_vars => Inv'
<1> SUFFICES ASSUME Inv, [Next]_vars PROVE Inv'
  OBVIOUS
<1>1. CASE \E f \in Programs : elf_load_and_run(f)
  BY <1>1, LoadKeepsInv
<1>2. CASE \E f \in Programs : loadnew(f)
  BY <1>2, LoadnewKeepsInv
<1>3. CASE SkipHeader
  BY <1>3, SkipKeepsInv
<1>4. CASE RejectHeader
  BY <1>4, RejectKeepsInv DEF RejectHeader, Loading, pagelist
<1>5. CASE BeginSegment \/ MapSegmentPage \/ ReadSegment
  BY <1>5, BeginSegmentKeepsInv, MapSegmentPageKeepsInv, ReadSegmentKeepsInv
<1>6. CASE Cleanup
  BY <1>6, CleanupKeepsInv
<1>7. CASE NothingToRun
  BY <1>7, NothingToRunKeepsInv
<1>8. CASE Launch \/ MapLaunchPage \/ entryuser32
  BY <1>8, LaunchKeepsInv, MapLaunchPageKeepsInv, EnterKeepsInv
<1>9. CASE UNCHANGED vars
  <2>1. UNCHANGED <<owner, mode, program, next, todo, addrs, addrs_size, lost, heap_base, caller>>
    BY <1>9 DEF vars, pagelist
  <2>2. Memory' = Memory /\ Asked' = Asked
    BY <2>1 DEF Asked, Segments, Memory, Listed, HeapList, StackList, Extent, FirstPage
  <2>3. TypeOK' /\ ProgramRecorded' /\ SegmentsPresent' /\ SomeHeader' /\ AskedRecorded'
    BY <2>1, <2>2 DEF Inv, TypeOK, ProgramRecorded, SegmentsPresent, SomeHeader,
                      AskedRecorded, HeldBy, Listed, Extent, FirstPage, Aligned
  <2>4. SegmentUnderWay' /\ LaunchUnderWay' /\ RunningProgramIsMapped'
    BY <2>1, <2>2 DEF Inv, SegmentUnderWay, LaunchUnderWay, RunningProgramIsMapped,
                      HeldBy, Listed, SegmentList, Extent, FirstPage, Aligned
  <2> QED BY <2>3, <2>4 DEF Inv
<1> QED BY <1>1, <1>2, <1>3, <1>4, <1>5, <1>6, <1>7, <1>8, <1>9 DEF Next

LEMMA InvAlways == Spec => []Inv
  BY InitInv, InvStep, PTL DEF Spec

(* Whatever files are loaded, in whatever order and whichever loads fail,  *)
(* the loader's pages and page list keep their types: no address outside   *)
(* the address space is ever recorded, not even by a heap that wraps.      *)
THEOREM LoaderTypeCorrect == Spec => []TypeOK
<1>1. Inv => TypeOK
  BY DEF Inv
<1> QED BY <1>1, InvAlways, PTL

LEMMA LosesAtMost == Inv => OnlyLostPagesStay
<1> SUFFICES ASSUME Inv PROVE OnlyLostPagesStay
  OBVIOUS
<1>1. addrs = <<>> => Listed(addrs) = {}
  BY DEF Listed
<1> QED BY <1>1 DEF Inv, ProgramRecorded, Loads, OnlyLostPagesStay

(* Whatever files are loaded, and wherever the heap puts the growing page  *)
(* list: when a new file is asked for or a new load starts, no page of an  *)
(* earlier program is mapped but those whose entry the list lost. Cleanup  *)
(* and elf_free release all the others.                                    *)
THEOREM LostPagesStay == Spec => []OnlyLostPagesStay
<1>1. Inv => OnlyLostPagesStay
  BY LosesAtMost
<1> QED BY <1>1, InvAlways, PTL

(* A step takes a page from the driver only by freeing the page list.      *)
LEMMA DriverStepLosesAsked ==
  ASSUME Inv, [Next]_vars, NEW p \in Pages, owner[p] = "driver", owner'[p] # "driver"
  PROVE  p \in Asked
<1>1. Listed(addrs) \subseteq Asked \/ mode \notin Loads
  BY DEF Inv, AskedRecorded
<1>2. CASE Release(addrs) = owner' /\ mode \in {"cleanup", "running"}
  <2>1. p \in Listed(addrs)
    BY <1>2 DEF Release
  <2> QED BY <1>1, <1>2, <2>1 DEF Loads
<1>3. CASE \E page \in Pages : owner' = Claim(page)
  BY <1>3 DEF Claim
<1>4. CASE owner' = owner
  BY <1>4
<1>5. CASE \E f \in Programs : loadnew(f)
  BY <1>2, <1>4, <1>5 DEF loadnew, Panic, elf_free
<1>6. CASE Cleanup
  BY <1>2, <1>4, <1>6 DEF Cleanup, Panic
<1>7. CASE MapSegmentPage \/ MapLaunchPage
  <2>1. todo # <<>> => Head(todo) \in Pages
    BY TodoPages DEF Inv, TypeOK
  <2> QED BY <1>3, <1>4, <1>7, <2>1 DEF MapSegmentPage, MapLaunchPage, Corrupt
<1>8. CASE \/ \E f \in Programs : elf_load_and_run(f)
           \/ SkipHeader \/ RejectHeader \/ BeginSegment \/ ReadSegment
           \/ NothingToRun \/ Launch \/ entryuser32 \/ UNCHANGED vars
  BY <1>4, <1>8 DEF elf_load_and_run, SkipHeader, RejectHeader, BeginSegment, ReadSegment,
                    NothingToRun, Launch, entryuser32, vars
<1> QED BY <1>5, <1>6, <1>7, <1>8 DEF Next

(* Whatever files are loaded over whatever the driver holds, the driver    *)
(* loses a page only to a program that asks for it.                        *)
THEOREM DriverKept == Spec => DriverLosesOnlyAsked
<1>1. Inv /\ [Next]_vars =>
        [\A p \in Pages : mode # "prompt" /\ owner[p] = "driver" /\ owner'[p] # "driver"
                           => p \in Asked]_vars
  BY DriverStepLosesAsked
<1> QED BY <1>1, InvAlways, PTL DEF Spec, DriverLosesOnlyAsked

(* Whatever files are loaded over whatever the display driver holds, a     *)
(* program runs only with its heap, its stack and its page-aligned         *)
(* segments mapped, although elf_load_and_run looks at no result of the    *)
(* heap's and the stack's alloc_page_at_addr.                              *)
THEOREM RunningIsMapped == Spec => []RunningProgramIsMapped
<1>1. Inv => RunningProgramIsMapped
  BY DEF Inv
<1> QED BY <1>1, InvAlways, PTL

-----------------------------------------------------------------------------
(* From the boot on.                                                       *)

(* While the driver is loaded no program is, and no page is one's.         *)
NothingLoaded ==
  /\ owner \in [Pages -> Owners \ {"program"}]
  /\ mode \in {"prompt", "panicked"}
  /\ program = <<>> /\ next = 1 /\ todo = <<>>
  /\ addrs = <<>> /\ addrs_size = 0 /\ lost = {}
  /\ heap_base = NullPage /\ caller = "kernel"

BootInv == IF boot = "done" THEN Inv ELSE NothingLoaded

bootVars == <<vars, driverVars>>

LEMMA NothingLoadedInv == NothingLoaded => Inv
<1> SUFFICES ASSUME NothingLoaded PROVE Inv
  OBVIOUS
<1>1. owner \in [Pages -> Owners] /\ HeldBy("program") = {}
  BY DEF NothingLoaded, HeldBy
<1>2. /\ program \in Programs \cup {<<>>} /\ next \in 1 .. Len(program) + 1
      /\ todo \in Seq(Pages) /\ addrs \in Seq(Pages) /\ addrs_size \in Nat
      /\ lost \subseteq Pages /\ heap_base \in Pages
  BY LoaderAssumption DEF NothingLoaded, Pages, NullPage
<1> QED
  BY <1>1, <1>2 DEF NothingLoaded, Inv, TypeOK, ProgramRecorded, Loads, SegmentsPresent,
                    SegmentUnderWay, LaunchUnderWay, SomeHeader, AskedRecorded,
                    RunningProgramIsMapped

LEMMA NothingLoadedAfter ==
  ASSUME BootInit
  PROVE  boot # "done" /\ NothingLoaded
<1>1. PagesOf({}) \in [Pages -> Owners \ {"program"}]
  BY DEF PagesOf, Owners
<1> QED BY <1>1 DEF BootInit, NothingLoaded

(* Every step of attempt_install_driver leaves the loader's state alone    *)
(* but for the pages, which it takes for the driver or gives back.         *)
LEMMA DriverStep ==
  ASSUME NothingLoaded, attempt_install_driver,
         UNCHANGED <<program, next, todo, pagelist, heap_base, caller>>
  PROVE  NothingLoaded'
<1> DEFINE Driving == [Pages -> Owners \ {"program"}]
<1>1. owner \in Driving /\ mode \in {"prompt", "panicked"}
  BY DEF NothingLoaded
<1>2. (owner' = owner /\ mode' = mode) \/ (owner' = owner /\ mode' = "panicked") => NothingLoaded'
  BY DEF NothingLoaded, pagelist
<1>3. CASE OpenFile
  BY <1>2, <1>3 DEF OpenFile, PageFault
<1>4. CASE load_program_headers_elf \/ load_section_headers_elf
  BY <1>2, <1>4 DEF load_program_headers_elf, load_section_headers_elf
<1>5. CASE DriverSegment
  <2> DEFINE h == file.headers[header]
  <2>1. CASE h.kind = "load" /\ LoadDriverSegment(h)
    <3>1. CASE UNCHANGED <<owner, mode, Locals>>
      BY <1>2, <3>1
    <3>2. ASSUME NEW start \in Pages, Take(PagesFrom(start, PagesNeeded(h))),
                 mode' = mode \/ mode' = "panicked"
          PROVE  NothingLoaded'
      <4>1. owner' \in Driving
        BY <1>1, <3>2 DEF Take, Owners
      <4> QED BY <1>1, <3>2, <4>1 DEF NothingLoaded, pagelist
    <3> QED BY <2>1, <3>1, <3>2 DEF LoadDriverSegment
  <2>2. CASE UNCHANGED <<mode, owner>>
    BY <1>2, <2>2
  <2> QED BY <1>5, <2>1, <2>2 DEF DriverSegment
<1>6. CASE ReadDynamic
  BY <1>2, <1>6 DEF ReadDynamic, PageFault
<1>7. CASE Relocate
  BY <1>2, <1>7 DEF Relocate, PageFault
<1>8. CASE FindDriver
  BY <1>2, <1>8 DEF FindDriver, PageFault
<1>9. CASE CleanupDriver
  <2>1. owner' \in Driving
    BY <1>1, <1>9 DEF CleanupDriver, Owners
  <2> QED BY <1>1, <1>9, <2>1 DEF CleanupDriver, NothingLoaded, pagelist
<1>10. CASE AskForProgram
  BY <1>2, <1>10 DEF AskForProgram
<1> QED
  BY <1>3, <1>4, <1>5, <1>6, <1>7, <1>8, <1>9, <1>10 DEF attempt_install_driver

LEMMA BootStep == BootInv /\ [BootNext]_bootVars => BootInv'
<1> SUFFICES ASSUME BootInv, [BootNext]_bootVars PROVE BootInv'
  OBVIOUS
<1>1. CASE boot # "done" /\ attempt_install_driver
           /\ UNCHANGED <<program, next, todo, pagelist, heap_base, caller>>
  <2>1. NothingLoaded'
    BY <1>1, DriverStep DEF BootInv
  <2>2. NothingLoaded' => Inv'
    BY NothingLoadedInv, PTL
  <2> QED BY <2>1, <2>2 DEF BootInv
<1>2. CASE boot = "done" /\ Next /\ UNCHANGED driverVars
  BY <1>2, InvStep DEF BootInv, driverVars
<1>3. CASE UNCHANGED bootVars
  <2>1. UNCHANGED vars /\ UNCHANGED boot
    BY <1>3 DEF bootVars, driverVars
  <2>2. CASE boot = "done"
    BY <2>1, <2>2, InvStep DEF BootInv
  <2>3. CASE boot # "done"
    BY <2>1, <2>3 DEF BootInv, NothingLoaded, vars, pagelist
  <2> QED BY <2>2, <2>3
<1> QED BY <1>1, <1>2, <1>3 DEF BootNext

(* From the boot on, whatever file the driver was loaded from and however  *)
(* that failed: after a load that failed no page of a program is mapped,   *)
(* and a running program has its segments, its heap and its stack (the     *)
(* theorems above, in the address space the driver shares).                *)
THEOREM ProgramsAfterBoot == BootSpec => [](OnlyLostPagesStay /\ RunningProgramIsMapped)
<1>1. BootInit => BootInv
  BY NothingLoadedAfter DEF BootInv
<1>2. BootInv => OnlyLostPagesStay /\ RunningProgramIsMapped
  <2>1. BootInv => Inv
    BY NothingLoadedInv DEF BootInv
  <2> QED BY <2>1, LosesAtMost DEF Inv
<1> QED BY <1>1, <1>2, BootStep, PTL DEF BootSpec, bootVars

-----------------------------------------------------------------------------
(* Where a driver's pages are.                                             *)

(* Quotient and remainder of an integer make up the integer.               *)
LEMMA IntDivMod ==
  ASSUME NEW x \in Int, NEW n \in Nat \ {0}
  PROVE  x \div n \in Int /\ x % n \in 0 .. n - 1 /\ x = n * (x \div n) + (x % n)
OBVIOUS

(* There is one quotient with one remainder below the divisor.             *)
LEMMA IntQuotientIsUnique ==
  ASSUME NEW x \in Int, NEW n \in Nat \ {0}, NEW q \in Int, NEW r \in 0 .. n - 1, x = n * q + r
  PROVE  x \div n = q /\ x % n = r
<1> DEFINE p == x \div n
           s == x % n
<1>1. p \in Int /\ s \in 0 .. n - 1 /\ x = n * p + s
  BY IntDivMod
<1> HIDE DEF p, s
<1>2. n * p < n * (q + 1) /\ n * q < n * (p + 1)
  BY <1>1
<1>3. p < q + 1 /\ q < p + 1
  BY <1>1, <1>2
<1>4. p = q
  BY <1>1, <1>3
<1> QED BY <1>1, <1>4 DEF p, s

(* A remainder may be taken before or after something is added.            *)
LEMMA RemainderOfSum ==
  ASSUME NEW x \in Int, NEW j \in Int, NEW n \in Nat \ {0}
  PROVE  ((x % n) + j) % n = (x + j) % n
<1> DEFINE q == x \div n
           r == x % n
           k == (r + j) \div n
           s == (r + j) % n
<1>1. q \in Int /\ r \in 0 .. n - 1 /\ x = n * q + r
  BY IntDivMod
<1>2. k \in Int /\ s \in 0 .. n - 1 /\ r + j = n * k + s
  BY <1>1, IntDivMod
<1> HIDE DEF q, r, k, s
<1>3. x + j = n * (q + k) + s
  <2>1. n * (q + k) = n * q + n * k
    BY <1>1, <1>2
  <2> QED BY <1>1, <1>2, <2>1
<1>4. x + j \in Int /\ q + k \in Int
  BY <1>1, <1>2
<1>5. (x + j) % n = s
  BY <1>2, <1>3, <1>4, IntQuotientIsUnique, Zenon
<1> QED BY <1>5 DEF r, s

(* Moving an address by pages moves its page, around the address space.    *)
LEMMA PageMoves ==
  ASSUME NEW x \in Nat, NEW d \in Int
  PROVE  PageAt(x, d) = ((x \div PageBytes) + d) % TotalPages
<1> DEFINE q == x \div PageBytes
           r == x % PageBytes
           k == (q + d) \div TotalPages
           m == (q + d) % TotalPages
<1>0. PageBytes \in Nat \ {0} /\ TotalPages \in Nat \ {0}
  BY LoaderAssumption
<1>1. q \in Int /\ r \in 0 .. PageBytes - 1 /\ x = PageBytes * q + r
  BY <1>0, IntDivMod
<1>2. k \in Int /\ m \in 0 .. TotalPages - 1 /\ q + d = TotalPages * k + m
  BY <1>0, <1>1, IntDivMod
<1> HIDE DEF q, r, k, m
<1>3. PageBytes * (q + d) = PageBytes * (TotalPages * k) + PageBytes * m
  BY <1>0, <1>1, <1>2
<1>4. x + d * PageBytes = (TotalPages * PageBytes) * k + (PageBytes * m + r)
  BY <1>0, <1>1, <1>2, <1>3
<1>5. PageBytes * m <= PageBytes * (TotalPages - 1) /\ PageBytes * m \in Nat
  BY <1>0, <1>2
<1>6. /\ TotalPages * PageBytes \in Nat \ {0}
      /\ PageBytes * m + r \in 0 .. TotalPages * PageBytes - 1
  BY <1>0, <1>1, <1>2, <1>5
<1>7. x + d * PageBytes \in Int /\ PageBytes * m + r \in Int /\ m \in Int
  BY <1>0, <1>1, <1>2, <1>5
<1>8. (x + d * PageBytes) % (TotalPages * PageBytes) = PageBytes * m + r
  BY <1>2, <1>4, <1>6, <1>7, IntQuotientIsUnique, Zenon
<1>9. (PageBytes * m + r) \div PageBytes = m
  BY <1>0, <1>1, <1>7, IntQuotientIsUnique, Zenon
<1> QED BY <1>8, <1>9 DEF PageAt, At, q, m

(* The bytes of a segment lie in the pages that are taken for it.          *)
LEMMA ReachIsTaken ==
  ASSUME NEW h \in DriverHeader, NEW d \in Int, NEW start,
         start = (FirstPage(h) + d) % TotalPages
  PROVE  Reach(h.va, h.memsz, d) \subseteq PagesFrom(start, PagesNeeded(h))
<1> DEFINE v == h.va
           z == h.memsz
           f == v \div PageBytes
           o == v % PageBytes
           w == z + o + PageBytes - 1
           n == w \div PageBytes
<1>0. PageBytes \in Nat \ {0} /\ TotalPages \in Nat \ {0} /\ v \in Nat /\ z \in Nat
  BY LoaderAssumption DEF DriverHeader
<1>i. v \in Int
  BY <1>0
<1> HIDE DEF v, z
<1>1. f \in Int /\ o \in 0 .. PageBytes - 1 /\ v = PageBytes * f + o
  BY <1>0, <1>i, IntDivMod, Zenon
<1> HIDE DEF f, o
<1>2. n \in Int /\ z + o <= PageBytes * n
  <2>1. w \in Int
    BY <1>0, <1>1
  <2>2. n \in Int /\ w % PageBytes \in 0 .. PageBytes - 1 /\ w = PageBytes * n + (w % PageBytes)
    BY <1>0, <2>1, IntDivMod, Zenon
  <2> DEFINE t == w % PageBytes
  <2>3. t \in 0 .. PageBytes - 1 /\ z + o + PageBytes - 1 = PageBytes * n + t
    BY <2>2
  <2> HIDE DEF n, t
  <2> QED BY <1>0, <1>1, <2>2, <2>3
<1> HIDE DEF n
<1>3. SUFFICES ASSUME NEW i \in 0 .. z - 1
               PROVE  PageAt(v + i, d) \in PagesFrom(start, n)
  BY DEF Reach, PagesNeeded, PageOffset, n, o, v, z
<1> DEFINE j == (o + i) \div PageBytes
           s == (o + i) % PageBytes
<1>4. j \in Int /\ s \in 0 .. PageBytes - 1 /\ o + i = PageBytes * j + s
  <2>1. o + i \in Int
    BY <1>0, <1>1, <1>3
  <2> QED BY <1>0, <2>1, IntDivMod, Zenon
<1> HIDE DEF j, s
<1>5. j \in 0 .. n - 1
  <2>1. PageBytes * j < PageBytes * n
    BY <1>0, <1>1, <1>2, <1>3, <1>4
  <2>2. PageBytes * 0 < PageBytes * (j + 1)
    BY <1>0, <1>1, <1>3, <1>4
  <2>3. j < n
    BY <1>0, <1>2, <1>4, <2>1
  <2>4. 0 < j + 1
    BY <1>0, <1>4, <2>2
  <2> QED BY <1>2, <1>4, <2>3, <2>4
<1>6. (v + i) \div PageBytes = f + j
  <2>1. v + i = PageBytes * (f + j) + s
    <3>1. PageBytes * (f + j) = PageBytes * f + PageBytes * j
      BY <1>0, <1>1, <1>4
    <3> QED BY <1>0, <1>1, <1>3, <1>4, <3>1
  <2>2. v + i \in Int /\ f + j \in Int
    BY <1>0, <1>1, <1>3, <1>4
  <2> DEFINE x == v + i
             q == f + j
  <2>3. x \in Int /\ q \in Int /\ x = PageBytes * q + s
    BY <2>1, <2>2
  <2>4. PageBytes \in Nat \ {0} /\ s \in 0 .. PageBytes - 1
    BY <1>0, <1>4
  <2> HIDE DEF x, q
  <2>5. x \div PageBytes = q
    BY <2>3, <2>4, IntQuotientIsUnique, Zenon
  <2> QED BY <2>5 DEF x, q
<1>7. PageAt(v + i, d) = (f + j + d) % TotalPages
  <2>1. v + i \in Nat
    BY <1>0, <1>3
  <2>2. PageAt(v + i, d) = (((v + i) \div PageBytes) + d) % TotalPages
    BY <2>1, PageMoves, Zenon
  <2> QED BY <1>6, <2>2
<1>8. (start + j) % TotalPages = (f + d + j) % TotalPages
  <2>1. start = (f + d) % TotalPages
    BY DEF FirstPage, f, v
  <2>2. f + d \in Int
    BY <1>1
  <2> QED BY <1>0, <1>4, <2>1, <2>2, RemainderOfSum, Zenon
<1>9. f + j + d = f + d + j
  BY <1>1, <1>4
<1> QED BY <1>5, <1>7, <1>8, <1>9 DEF PagesFrom

(* A file with these tables is not refused for them.                       *)
Accepted(f) == ~Linked(f) /\ Tables(f) # {} /\ ~SizesDisagree(f)

Steps == {"open", "headers", "sections", "segments", "relocate", "strings",
          "cleanup", "installed", "returned", "done"}

(* The pages of the driver are those of the list, from the first segment   *)
(* to the cleanup.                                                         *)
PagesListed ==
  /\ boot \in Steps /\ header \in Nat \ {0} /\ delta.pages \in Int
  /\ segments \in Seq([page : Int, size : Int])
  /\ boot \in {"open", "headers", "sections"} => segments = <<>> /\ header = 1 /\ moved = <<>>
  /\ boot \notin {"returned", "done"} => owner = PagesOf(SegmentPages)
  /\ boot = "returned" => owner = PagesOf({})
  /\ boot \notin {"open", "done"} => file \in DriverFiles

(* Every header read so far has its bytes in pages of the driver, at the   *)
(* distance from the file that the first one set.                          *)
HeaderDone(i) ==
  LET h == file.headers[i]
  IN  delta.ready /\ Reach(h.va, h.memsz, delta.pages) \subseteq HeldBy("driver")
HeadersDone ==
  /\ boot \in {"segments", "relocate", "strings", "installed"} =>
       \A i \in DOMAIN file.headers : i < header /\ LoadHeader(i) => HeaderDone(i)
  /\ boot \in {"relocate", "strings", "installed"} => header \notin DOMAIN file.headers

(* No word is moved before the relocations, and each once by them.         *)
MovedAsListed ==
  \A a \in DOMAIN moved :
    moved[a] = IF ListedAs(a, {"pc32"}) THEN Spoiled
               ELSE IF ListedAs(a, {"32", "relative"}) THEN 1 ELSE 0
WordsMoved ==
  /\ boot \in {"segments", "relocate"} => \A a \in DOMAIN moved : moved[a] = 0
  /\ boot = "relocate" => Accepted(file)
  /\ boot \in {"strings", "installed"} => MovedAsListed

PlacedInv == PagesListed /\ HeadersDone /\ WordsMoved

(* The kernel's start has it, ...                                          *)
LEMMA PlacedInit == BootInit => PlacedInv
<1> SUFFICES ASSUME BootInit PROVE PlacedInv
  OBVIOUS
<1>1. SegmentPages = {}
  BY DEF BootInit, SegmentPages
<1>2. PagesListed
  BY <1>1 DEF BootInit, PagesListed, Steps
<1> QED BY <1>2 DEF BootInit, HeadersDone, WordsMoved, PlacedInv

(* attempt_install_driver reads the headers: nothing is mapped yet.        *)
LEMMA HeadersPlaced ==
  ASSUME PlacedInv, OpenFile \/ load_program_headers_elf \/ load_section_headers_elf
  PROVE  PlacedInv'
<1> USE DEF PlacedInv, PagesListed, HeadersDone, WordsMoved, Steps
<1>1. SegmentPages' = SegmentPages
  BY DEF OpenFile, load_program_headers_elf, load_section_headers_elf, Locals, SegmentPages,
         PageFault
<1>2. CASE OpenFile
  BY <1>1, <1>2 DEF OpenFile, PageFault, Locals, Goto
<1>3. CASE load_program_headers_elf
  BY <1>1, <1>3 DEF load_program_headers_elf, Locals, Goto, Fail
<1>4. CASE load_section_headers_elf
  <2>1. CASE Fail(3) \/ Fail(4)
    BY <1>1, <1>4, <2>1 DEF load_section_headers_elf, Locals, Goto, Fail
  <2>2. CASE Goto("segments")
    <3>1. \A i \in DOMAIN file.headers : ~(i < header)
      BY <1>4, DriverAssumption DEF load_section_headers_elf
    <3> QED BY <1>1, <1>4, <2>2, <3>1 DEF load_section_headers_elf, Locals, Goto
  <2> QED BY <1>4, <2>1, <2>2 DEF load_section_headers_elf
<1> QED BY <1>2, <1>3, <1>4

(* Taking pages for a segment adds them to the driver's, and takes none    *)
(* away.                                                                   *)
LEMMA TakeAdds ==
  ASSUME NEW S, NEW P, owner = PagesOf(S), Take(P)
  PROVE  owner' = PagesOf(S \cup P) /\ HeldBy("driver") \subseteq HeldBy("driver")'
<1>1. \A p \in Pages : PagesOf(S)[p] = IF p = NullPage THEN "null"
                                       ELSE IF p < KernelPages THEN "kernel"
                                       ELSE IF p \in S THEN "driver" ELSE "none"
  BY DEF PagesOf
<1> QED BY <1>1 DEF Take, PagesOf, HeldBy

(* The header's bytes lie in pages that are the driver's once they are     *)
(* taken, but for the null page.                                           *)
LEMMA SegmentTaken ==
  ASSUME NEW S, owner = PagesOf(S), NEW h \in DriverHeader, NEW start \in Pages, NEW d \in Int,
         start = (FirstPage(h) + d) % TotalPages,
         \A p \in PagesFrom(start, PagesNeeded(h)) : Free(p) \/ p = NullPage,
         Take(PagesFrom(start, PagesNeeded(h))),
         \A p \in Reach(h.va, h.memsz, d) : owner'[p] \notin {"none", "null"}
  PROVE  Reach(h.va, h.memsz, d) \subseteq HeldBy("driver")'
<1> SUFFICES ASSUME NEW p \in Reach(h.va, h.memsz, d) PROVE p \in HeldBy("driver")'
  OBVIOUS
<1>1. p \in PagesFrom(start, PagesNeeded(h))
  BY ReachIsTaken
<1>2. p \in Pages
  <2>1. \A i \in Int : (start + i) % TotalPages \in Pages
    BY LoaderAssumption DEF Pages
  <2> QED BY <1>1, <2>1 DEF PagesFrom
<1>3. owner[NullPage] = "null"
  BY LoaderAssumption DEF PagesOf, Pages, NullPage
<1>4. CASE Free(p)
  BY <1>1, <1>2, <1>4 DEF Free, Take, HeldBy
<1>5. CASE p = NullPage
  BY <1>2, <1>3, <1>5 DEF Take
<1> QED BY <1>1, <1>4, <1>5

(* Where the first segment is put is a place at its distance, too.         *)
LEMMA FirstRunIsPlace ==
  ASSUME NEW h \in DriverHeader, NEW start \in Pages, FirstRun(start, PagesNeeded(h))
  PROVE  /\ start - FirstPage(h) \in Int
         /\ start = (FirstPage(h) + (start - FirstPage(h))) % TotalPages
         /\ \A p \in PagesFrom(start, PagesNeeded(h)) : Free(p) \/ p = NullPage
<1>1. /\ TotalPages \in Nat \ {0} /\ start \in 0 .. TotalPages - 1 /\ FirstPage(h) \in Int
      /\ PagesNeeded(h) \in Int
  BY LoaderAssumption DEF Pages, FirstPage, DriverHeader, PagesNeeded, PageOffset
<1> DEFINE n == PagesNeeded(h)
           f == FirstPage(h)
<1>2. n > 0 /\ start + n <= TotalPages /\ \A p \in start .. start + n - 1 : Free(p)
  BY DEF FirstRun, FreeRun
<1> HIDE DEF n, f
<1>3. \A i \in 0 .. n - 1 : /\ (start + i) % TotalPages = start + i
                            /\ start + i \in start .. start + n - 1
  BY <1>1, <1>2 DEF n
<1>4. start % TotalPages = start /\ f + (start - f) = start /\ start - f \in Int
  BY <1>1 DEF f
<1> QED BY <1>2, <1>3, <1>4 DEF PagesFrom, n, f

(* The list of segments, one longer.                                       *)
LEMMA ListGrows ==
  ASSUME segments \in Seq([page : Int, size : Int]), NEW start \in Int, NEW n \in Int,
         segments' = Append(segments, [page |-> start, size |-> n])
  PROVE  /\ segments' \in Seq([page : Int, size : Int])
         /\ SegmentPages' = SegmentPages \cup PagesFrom(start, n)
<1>1. segments' \in Seq([page : Int, size : Int])
  OBVIOUS
<1>2. DOMAIN segments' = DOMAIN segments \cup {Len(segments) + 1}
  OBVIOUS
<1>3. /\ \A i \in DOMAIN segments : segments'[i] = segments[i]
      /\ segments'[Len(segments) + 1] = [page |-> start, size |-> n]
  OBVIOUS
<1> DEFINE At0(s, i) == PagesFrom(s[i].page, s[i].size)
<1>4. /\ \A i \in DOMAIN segments : At0(segments', i) = At0(segments, i)
      /\ At0(segments', Len(segments) + 1) = PagesFrom(start, n)
  BY <1>3
<1>5. /\ SegmentPages = UNION {At0(segments, i) : i \in DOMAIN segments}
      /\ SegmentPages' = UNION {At0(segments', i) : i \in DOMAIN segments'}
  BY DEF SegmentPages, PagesFrom
<1> HIDE DEF At0
<1> QED BY <1>1, <1>2, <1>4, <1>5

(* A segment is loaded, or not.                                            *)
LEMMA SegmentPlaced ==
  ASSUME PlacedInv, DriverSegment, file.headers[header].kind = "load"
  PROVE  PlacedInv'
<1> DEFINE h == file.headers[header]
<1>0. /\ boot = "segments" /\ file \in DriverFiles /\ header \in DOMAIN file.headers
      /\ owner = PagesOf(SegmentPages) /\ header \in Nat \ {0} /\ delta.pages \in Int
  BY DEF PlacedInv, PagesListed, DriverSegment
<1>1. h \in DriverHeader /\ LoadDriverSegment(h)
  BY <1>0, DriverAssumption DEF DriverSegment
<1>2. CASE Fail(5) /\ UNCHANGED <<owner, mode, Locals>>
  <2>1. SegmentPages' = SegmentPages
    BY <1>2 DEF SegmentPages, Locals
  <2> QED BY <1>0, <1>2, <2>1
          DEF PlacedInv, PagesListed, HeadersDone, WordsMoved, Steps, Fail, Goto, Locals
<1>3. ASSUME NEW start \in Pages,
             Placed(h, start),
             Take(PagesFrom(start, PagesNeeded(h))),
             delta' = IF delta.ready THEN delta
                      ELSE [ready |-> TRUE, pages |-> start - FirstPage(h)],
             segments' = Append(segments, [page |-> start, size |-> PagesNeeded(h)]),
             moved' = [a \in DOMAIN moved \cup (h.va .. h.va + h.memsz - 1) |-> 0],
             \/ Fail(6) /\ UNCHANGED <<mode, header>>
             \/ IF \A p \in Reach(h.va, h.memsz, delta'.pages)
                            \cup Reach(h.va, h.filesz, delta'.pages) : owner'[p] \notin {"none", "null"}
                THEN header' = header + 1 /\ UNCHANGED <<mode, boot, errno>>
                ELSE mode' = "panicked" /\ Goto("done") /\ UNCHANGED <<header, errno>>,
             UNCHANGED <<file, dynamic>>
      PROVE  PlacedInv'
  <2>1. start \in Int /\ PagesNeeded(h) \in Int /\ FirstPage(h) \in Int
    BY <1>1, LoaderAssumption DEF Pages, PagesNeeded, PageOffset, FirstPage, DriverHeader
  <2>2. /\ segments' \in Seq([page : Int, size : Int])
        /\ SegmentPages' = SegmentPages \cup PagesFrom(start, PagesNeeded(h))
    BY <1>3, <2>1, ListGrows DEF PlacedInv, PagesListed
  <2>3. owner' = PagesOf(SegmentPages') /\ HeldBy("driver") \subseteq HeldBy("driver")'
    <3>1. PagesOf(SegmentPages') = PagesOf(SegmentPages \cup PagesFrom(start, PagesNeeded(h)))
      BY <2>2
    <3> HIDE DEF h
    <3> QED BY <1>0, <1>3, <3>1, TakeAdds
  <2>4. /\ delta'.pages \in Int /\ delta'.ready
        /\ start = (FirstPage(h) + delta'.pages) % TotalPages
        /\ \A p \in PagesFrom(start, PagesNeeded(h)) : Free(p) \/ p = NullPage
    <3>1. CASE delta.ready
      BY <1>0, <1>3, <3>1 DEF Placed
    <3>2. CASE ~delta.ready
      <4>1. FirstRun(start, PagesNeeded(h))
        BY <1>3, <3>2 DEF Placed
      <4>2. delta'.pages = start - FirstPage(h) /\ delta'.ready
        BY <1>3, <3>2
      <4> HIDE DEF h
      <4> QED BY <1>1, <1>3, <4>1, <4>2, FirstRunIsPlace
    <3> QED BY <3>1, <3>2
  <2>5. boot' \in Steps /\ header' \in Nat \ {0} /\ boot' \in {"segments", "cleanup", "done"}
    BY <1>0, <1>3 DEF Fail, Goto, Steps
  <2>6. PagesListed'
    BY <1>0, <1>3, <2>2, <2>3, <2>4, <2>5 DEF PagesListed
  <2>7. HeadersDone'
    <3>1. SUFFICES ASSUME boot' = "segments"
                   PROVE  \A i \in DOMAIN file.headers :
                            i < header' /\ LoadHeader(i) => HeaderDone(i)'
      BY <1>3, <2>5 DEF HeadersDone, LoadHeader
    <3>2. /\ header' = header + 1
          /\ \A p \in Reach(h.va, h.memsz, delta'.pages) : owner'[p] \notin {"none", "null"}
      BY <1>0, <1>3, <3>1 DEF Fail, Goto
    <3>3. Reach(h.va, h.memsz, delta'.pages) \subseteq HeldBy("driver")'
      <4> HIDE DEF h
      <4> QED BY <1>0, <1>1, <1>3, <2>4, <3>2, SegmentTaken
    <3>4. \A i \in {header} : HeaderDone(i)'
      BY <1>3, <2>4, <3>3 DEF HeaderDone, Reach, PageAt, At
    <3>5. ASSUME NEW i \in DOMAIN file.headers, i < header, LoadHeader(i) PROVE HeaderDone(i)'
      <4>1. HeaderDone(i)
        BY <1>0, <3>5 DEF PlacedInv, HeadersDone
      <4>2. delta' = delta
        BY <1>3, <4>1 DEF HeaderDone
      <4> QED BY <1>3, <2>3, <4>1, <4>2 DEF HeaderDone, Reach, PageAt, At
    <3>6. \A i \in DOMAIN file.headers : i < header + 1 => i < header \/ i = header
      BY <1>0, DriverAssumption
    <3> HIDE DEF h
    <3> QED BY <3>2, <3>4, <3>5, <3>6
  <2>8. WordsMoved'
    BY <1>3, <2>5 DEF WordsMoved
  <2> QED BY <2>6, <2>7, <2>8 DEF PlacedInv
<1> QED BY <1>1, <1>2, <1>3 DEF LoadDriverSegment

(* Any other header is passed by.                                          *)
LEMMA OtherHeaderPlaced ==
  ASSUME PlacedInv, DriverSegment, file.headers[header].kind # "load"
  PROVE  PlacedInv'
<1>1. /\ boot = "segments" /\ header' = header + 1
      /\ UNCHANGED <<boot, file, delta, segments, moved, errno, mode, owner>>
  BY DEF DriverSegment
<1>2. SegmentPages' = SegmentPages
  BY <1>1 DEF SegmentPages
<1>3. PagesListed'
  BY <1>1, <1>2 DEF PlacedInv, PagesListed
<1>4. HeadersDone'
  <2>1. SUFFICES ASSUME NEW i \in DOMAIN file.headers, i < header + 1, LoadHeader(i)
                 PROVE  HeaderDone(i)'
    BY <1>1 DEF HeadersDone, LoadHeader
  <2>2. file.headers \in Seq(DriverHeader) /\ header \in Nat
    BY <1>1, DriverAssumption DEF PlacedInv, PagesListed
  <2>3. i < header
    BY <2>1, <2>2 DEF LoadHeader
  <2>4. HeaderDone(i)
    BY <1>1, <2>1, <2>3 DEF PlacedInv, HeadersDone
  <2> QED BY <1>1, <2>4 DEF HeaderDone, Reach, PageAt, At, HeldBy
<1> QED BY <1>1, <1>3, <1>4 DEF PlacedInv, WordsMoved, MovedAsListed, ListedAs

(* .dynamic is read: what it lists is not refused.                         *)
LEMMA DynamicPlaced ==
  ASSUME PlacedInv, ReadDynamic
  PROVE  PlacedInv'
<1>1. SegmentPages' = SegmentPages
  BY DEF ReadDynamic, PageFault, Locals, SegmentPages
<1>2. CASE PageFault
  BY <1>1, <1>2 DEF PageFault, Goto, Locals, PlacedInv, PagesListed, Steps, HeadersDone, WordsMoved
<1>3. CASE Fail(Refusal) /\ UNCHANGED <<owner, mode, Locals>>
  BY <1>1, <1>3 DEF ReadDynamic, Fail, Goto, Locals, PlacedInv, PagesListed, Steps,
                    HeadersDone, WordsMoved
<1>4. CASE Refusal = 0 /\ Goto("relocate") /\ UNCHANGED <<owner, mode, Locals>>
  <2>1. Accepted(file)
    BY <1>4 DEF Refusal, Accepted
  <2>2. PagesListed'
    BY <1>1, <1>4 DEF ReadDynamic, Goto, Locals, PlacedInv, PagesListed, Steps
  <2>3. HeadersDone'
    BY <1>4 DEF ReadDynamic, Goto, Locals, PlacedInv, HeadersDone, HeaderDone, LoadHeader,
                HeldBy, Reach, PageAt, At
  <2>4. WordsMoved'
    BY <1>4, <2>1 DEF ReadDynamic, Goto, Locals, PlacedInv, WordsMoved
  <2> QED BY <2>2, <2>3, <2>4 DEF PlacedInv
<1> QED BY <1>2, <1>3, <1>4 DEF ReadDynamic

(* Two tables, one after the other, have the entries of both.              *)
Entered(table) == {table[i] : i \in DOMAIN table}
LEMMA EntriesOfBoth ==
  ASSUME NEW S, NEW s \in Seq(S), NEW t \in Seq(S)
  PROVE  /\ DOMAIN (s \o t) = 1 .. Len(s) + Len(t)
         /\ Entered(s \o t) = Entered(s) \cup Entered(t)
<1> DEFINE R == s \o t
<1>1. Len(s) \in Nat /\ Len(t) \in Nat /\ DOMAIN s = 1 .. Len(s) /\ DOMAIN t = 1 .. Len(t)
  OBVIOUS
<1>2. DOMAIN R = 1 .. Len(s) + Len(t)
  OBVIOUS
<1>3. \A i \in DOMAIN s : R[i] = s[i] /\ i \in DOMAIN R
  BY <1>1
<1>4. \A i \in DOMAIN t : R[Len(s) + i] = t[i] /\ Len(s) + i \in DOMAIN R
  BY <1>1
<1>5. \A i \in DOMAIN R : i \in DOMAIN s \/ (i - Len(s) \in DOMAIN t /\ i = Len(s) + (i - Len(s)))
  BY <1>1, <1>2
<1> HIDE DEF R
<1>6. ASSUME NEW i \in DOMAIN R
      PROVE  R[i] \in {s[j] : j \in DOMAIN s} \cup {t[j] : j \in DOMAIN t}
  BY <1>3, <1>4, <1>5
<1>7. {R[i] : i \in DOMAIN R} = {s[i] : i \in DOMAIN s} \cup {t[i] : i \in DOMAIN t}
  BY <1>3, <1>4, <1>6
<1> QED BY <1>2, <1>7 DEF R, Entered

(* Of the relocations of an accepted file, all known, one at most moves a  *)
(* word.                                                                   *)
LEMMA MovedOnce ==
  ASSUME file \in DriverFiles, Accepted(file), UnknownAt = {}, NEW a \in DOMAIN moved, moved[a] = 0
  PROVE  MovedBy(a) = IF ListedAs(a, {"pc32"}) THEN Spoiled
                      ELSE IF ListedAs(a, {"32", "relative"}) THEN 1 ELSE 0
<1> DEFINE R == Relocations(file)
           here == {i \in Applied : R[i].offset = a}
           M == {i \in here : Moving(R[i])}
<1>1. /\ file.rel \in Seq(Relocation) /\ file.rela \in Seq(Relocation)
      /\ R = file.rel \o file.rela
      /\ \A i, j \in DOMAIN R :
           Moving(R[i]) /\ Moving(R[j]) /\ R[i].offset = R[j].offset => i = j
  BY DriverAssumption DEF Accepted, Relocations
<1>2. Listed32 = {R[i] : i \in DOMAIN R}
  <2>1. Entered(file.rel \o file.rela) = Entered(file.rel) \cup Entered(file.rela)
    BY <1>1, EntriesOfBoth
  <2>2. Entered(R) = Entered(file.rel) \cup Entered(file.rela)
    BY <1>1, <2>1
  <2> HIDE DEF R
  <2> QED BY <2>2 DEF Listed32, Entered
<1>3. Applied = DOMAIN R
  BY DEF Applied, UnknownAt
<1>4. ListedAs(a, {"pc32"}) <=> \E i \in here : R[i].type = "pc32"
  BY <1>2, <1>3 DEF ListedAs
<1>5. ASSUME ~ListedAs(a, {"pc32"}) PROVE MovedBy(a) = Cardinality(M)
  <2>1. MovedBy(a) = 0 + Cardinality(M)
    BY <1>4, <1>5 DEF MovedBy
  <2>2. IsFiniteSet(M)
    <3>1. DOMAIN R = 1 .. Len(file.rel) + Len(file.rela)
      BY <1>1, EntriesOfBoth
    <3>2. 1 \in Int /\ Len(file.rel) + Len(file.rela) \in Int
      BY <1>1
    <3>3. IsFiniteSet(DOMAIN R)
      BY <3>1, <3>2, FS_Interval, Zenon
    <3>4. M \subseteq DOMAIN R
      BY <1>3
    <3> HIDE DEF M
    <3> QED BY <3>3, <3>4, FS_Subset
  <2>3. Cardinality(M) \in Nat
    BY <2>2, FS_CardinalityType
  <2> HIDE DEF M
  <2> QED BY <2>1, <2>3
<1>6. ASSUME ~ListedAs(a, {"pc32"}), ListedAs(a, {"32", "relative"}) PROVE MovedBy(a) = 1
  <2>1. PICK i \in DOMAIN R : R[i].offset = a /\ Moving(R[i])
    BY <1>2, <1>6 DEF ListedAs, Moving
  <2>2. M = {i}
    BY <1>1, <1>3, <2>1
  <2>3. Cardinality(M) = 1
    BY <2>2, FS_Singleton
  <2> QED BY <1>5, <1>6, <2>3
<1>7. ASSUME ~ListedAs(a, {"pc32"}), ~ListedAs(a, {"32", "relative"}) PROVE MovedBy(a) = 0
  <2>1. M = {}
    BY <1>2, <1>3, <1>7 DEF ListedAs, Moving
  <2>2. Cardinality(M) = 0
    BY <2>1, FS_EmptySet
  <2> QED BY <1>5, <1>7, <2>2
<1>8. ASSUME ListedAs(a, {"pc32"}) PROVE MovedBy(a) = Spoiled
  BY <1>4, <1>8 DEF MovedBy
<1> QED BY <1>6, <1>7, <1>8

(* The relocations are applied.                                            *)
LEMMA RelocationsPlaced ==
  ASSUME PlacedInv, Relocate
  PROVE  PlacedInv'
<1>1. SegmentPages' = SegmentPages
  BY DEF Relocate, PageFault, Locals, SegmentPages
<1>2. CASE PageFault
  BY <1>1, <1>2 DEF PageFault, Goto, Locals, PlacedInv, PagesListed, Steps, HeadersDone, WordsMoved
<1>3. CASE /\ moved' = [a \in DOMAIN moved |-> MovedBy(a)]
           /\ (UnknownAt = {} /\ Goto("strings")) \/ \E code \in {10, 11} : Fail(code)
           /\ UNCHANGED <<owner, mode, file, header, delta, dynamic, segments>>
  <2>1. PagesListed' /\ boot' \in {"strings", "cleanup"}
    BY <1>1, <1>3 DEF Relocate, Fail, Goto, PlacedInv, PagesListed, Steps
  <2>2. HeadersDone'
    BY <1>3, <2>1 DEF Relocate, PlacedInv, HeadersDone, HeaderDone, LoadHeader,
                      HeldBy, Reach, PageAt, At
  <2>3. ASSUME boot' = "strings" PROVE MovedAsListed'
    <3>1. UnknownAt = {}
      BY <1>3, <2>3 DEF Fail, Goto
    <3>2. file \in DriverFiles /\ Accepted(file) /\ \A a \in DOMAIN moved : moved[a] = 0
      BY DEF Relocate, PlacedInv, PagesListed, WordsMoved
    <3>3. \A a \in DOMAIN moved :
            MovedBy(a) = IF ListedAs(a, {"pc32"}) THEN Spoiled
                         ELSE IF ListedAs(a, {"32", "relative"}) THEN 1 ELSE 0
      BY <3>1, <3>2, MovedOnce
    <3>4. Listed32' = Listed32
      BY <1>3 DEF Listed32
    <3>5. DOMAIN moved' = DOMAIN moved /\ \A a \in DOMAIN moved : moved'[a] = MovedBy(a)
      BY <1>3
    <3> QED BY <3>3, <3>4, <3>5 DEF MovedAsListed, ListedAs
  <2> QED BY <2>1, <2>2, <2>3 DEF PlacedInv, WordsMoved
<1> QED BY <1>2, <1>3 DEF Relocate

(* The driver is installed, or its pages are given back.                   *)
LEMMA EndPlaced ==
  ASSUME PlacedInv, FindDriver \/ CleanupDriver \/ AskForProgram
  PROVE  PlacedInv'
<1>1. CASE FindDriver
  <2>1. SegmentPages' = SegmentPages /\ Listed32' = Listed32
    BY <1>1 DEF FindDriver, PageFault, Locals, SegmentPages, Listed32
  <2>2. CASE PageFault
    BY <2>1, <2>2 DEF PageFault, Goto, Locals, PlacedInv, PagesListed, Steps,
                      HeadersDone, WordsMoved
  <2>3. CASE UNCHANGED <<owner, mode, Locals>> /\ boot' \in {"cleanup", "installed"}
    <3>1. PagesListed'
      BY <1>1, <2>1, <2>3 DEF FindDriver, Locals, PlacedInv, PagesListed, Steps
    <3>2. HeadersDone'
      BY <1>1, <2>3 DEF FindDriver, Locals, PlacedInv, HeadersDone, HeaderDone, LoadHeader,
                        HeldBy, Reach, PageAt, At
    <3>3. WordsMoved'
      BY <1>1, <2>1, <2>3 DEF FindDriver, Locals, PlacedInv, WordsMoved, MovedAsListed, ListedAs
    <3> QED BY <3>1, <3>2, <3>3 DEF PlacedInv
  <2> QED BY <1>1, <2>2, <2>3 DEF FindDriver, install_driver, Fail, Goto
<1>2. CASE CleanupDriver
  <2>1. owner = PagesOf(SegmentPages)
    BY <1>2 DEF CleanupDriver, PlacedInv, PagesListed
  <2>2. \A p \in Pages : owner[p] = IF p = NullPage THEN "null"
                                    ELSE IF p < KernelPages THEN "kernel"
                                    ELSE IF p \in SegmentPages THEN "driver" ELSE "none"
    BY <2>1 DEF PagesOf
  <2>3. owner' = PagesOf({})
    BY <1>2, <2>2 DEF CleanupDriver, PagesOf
  <2> QED BY <1>2, <2>3 DEF CleanupDriver, Goto, Locals, PlacedInv, PagesListed, Steps,
                            HeadersDone, WordsMoved
<1>3. CASE AskForProgram
  <2>1. segments' \in Seq([page : Int, size : Int])
    BY <1>3 DEF AskForProgram
  <2> QED BY <1>3, <2>1 DEF AskForProgram, Goto, PlacedInv, PagesListed, Steps,
                            HeadersDone, WordsMoved
<1> QED BY <1>1, <1>2, <1>3

(* ... and every step, the programs' included, keeps it.                   *)
LEMMA PlacedStep == PlacedInv /\ [BootNext]_bootVars => PlacedInv'
<1> SUFFICES ASSUME PlacedInv, [BootNext]_bootVars PROVE PlacedInv'
  OBVIOUS
<1>1. CASE boot # "done" /\ attempt_install_driver
  BY <1>1, HeadersPlaced, SegmentPlaced, OtherHeaderPlaced, DynamicPlaced, RelocationsPlaced,
     EndPlaced
     DEF attempt_install_driver
<1>2. CASE boot = "done" /\ UNCHANGED driverVars
  BY <1>2 DEF driverVars, PlacedInv, PagesListed, HeadersDone, WordsMoved
<1>3. CASE UNCHANGED bootVars
  <2>1. UNCHANGED <<owner, driverVars>>
    BY <1>3 DEF bootVars, vars
  <2>2. SegmentPages' = SegmentPages /\ Listed32' = Listed32
    BY <2>1 DEF driverVars, SegmentPages, Listed32
  <2>3. PagesListed' /\ WordsMoved'
    BY <2>1, <2>2 DEF driverVars, PlacedInv, PagesListed, WordsMoved, MovedAsListed, ListedAs
  <2>4. HeadersDone'
    BY <2>1 DEF driverVars, PlacedInv, HeadersDone, HeaderDone, LoadHeader,
                HeldBy, Reach, PageAt, At
  <2> QED BY <2>3, <2>4 DEF PlacedInv
<1> QED BY <1>1, <1>2, <1>3 DEF BootNext

(* For every file a linker makes and every layout of the address space: an *)
(* installed driver has exactly its segments' pages, every byte of them at *)
(* one distance from the file, and each word it lists was moved once; one  *)
(* that is not installed leaves no page (attempt_install_driver).          *)
THEOREM DriverIsPlaced == BootSpec => []DriverPlaced
<1>1. ASSUME PlacedInv PROVE DriverPlaced
  <2>1. ASSUME boot = "installed", NEW i \in DOMAIN file.headers, LoadHeader(i)
        PROVE  HeaderDone(i)
    <3>1. /\ file.headers \in Seq(DriverHeader)
          /\ header \in Nat \ {0} /\ header \notin DOMAIN file.headers
      BY <1>1, <2>1, DriverAssumption DEF PlacedInv, PagesListed, HeadersDone
    <3>2. i < header
      BY <2>1, <3>1 DEF LoadHeader
    <3> QED BY <1>1, <2>1, <3>2 DEF PlacedInv, HeadersDone
  <2>2. boot = "installed" => MovedAsListed /\ owner = PagesOf(SegmentPages)
    BY <1>1 DEF PlacedInv, WordsMoved, PagesListed
  <2>3. boot = "returned" => owner = PagesOf({})
    BY <1>1 DEF PlacedInv, PagesListed
  <2>4. DriverMovedOnce
    BY <2>2 DEF MovedAsListed, DriverMovedOnce
  <2> QED BY <2>1, <2>2, <2>3, <2>4 DEF HeaderDone, DriverPlaced, DriverPagesExact
<1> QED BY <1>1, PlacedInit, PlacedStep, PTL DEF BootSpec, bootVars

-----------------------------------------------------------------------------
(* The boot loader.                                                        *)
(*                                                                         *)
(* Its invariant LInv says of each stage where the library's cursor, its   *)
(* handle and a seek under way are, and what main has of the file: AtLink  *)
(* k of the chain, so many links before the offset, all units before that  *)
(* Copied. The cache is Clean, but for the FsInfo that nobody    *)
(* reads back, while anything still depends on it: the search of a free    *)
(* cluster for a chain that ends begins only in the file's last portion.   *)

(* What the library and the handle hold.                                   *)
Shape(r) ==
  /\ DOMAIN r = {"err", "name", "sect", "buf", "info", "last", "val", "fl", "clust", "dir",
                 "f", "crc", "pieces", "cnt", "got", "len", "off", "links", "ssect", "next"}
  /\ DOMAIN r.f = {"dsect", "sclust", "clust", "sect", "off", "size", "acc", "buf"}
  /\ DOMAIN r.dir = {"clust", "sect", "idx"}

(* Where the directory's cursor is: at the entry n.                        *)
DirAt(r, n) ==
  LET clust == volume.root[(n \div DirEnts) \div SectPerClust + 1]
  IN  /\ r.dir.clust = clust
      /\ r.dir.sect = clust_to_sect(clust) + ((n \div DirEnts) % SectPerClust)
      /\ r.dir.idx = n % DirEnts

\* The cache holds what the disk does, but for the sector of FsInfo.
Clean(r) == r.sect \notin {0, InfoSect} => r.buf = disk[r.sect]

IsSeq(units) == \E S : units \in Seq(S)

\* The fragments collected are of long names with the checksum looked for.
Collected(r) ==
  /\ IsSeq(r.pieces)
  /\ \A i \in 1 .. Len(r.pieces) :
       \E m \in RootEntries(volume) : /\ Entry(volume, m).k = "lfn"
                                      /\ Entry(volume, m).frag = r.pieces[i]
                                      /\ Entry(volume, m).crc = r.crc

\* The handle is at the k-th cluster of the file, or beyond its end.
AtLink(r, k) ==
  /\ k < Len(volume.chain) => r.f.clust = volume.chain[k + 1]
  /\ k >= Len(volume.chain) => Whole \/ CutShort

\* What was copied is as long as the offset, and right.
Copied(units, off) ==
  /\ IsSeq(units) /\ Len(units) = off
  /\ off \in 0 .. volume.size
  /\ \A i \in 1 .. off : i <= Len(Content) => units[i] = Content[i]
  /\ off % Units = 0 \/ off = volume.size
  /\ off = volume.size => Whole \/ CutShort

\* So is what the read at work adds to what main has.
Reading(r, m, off) ==
  /\ IsSeq(m) /\ IsSeq(r.got) /\ Copied(m \o r.got, off)
  /\ r.len \in Nat /\ r.len + Len(r.got) = Units

Opened(r) == r.f.size = volume.size /\ r.f.buf = r.f.sect

\* Between two seeks.
Settled(r) ==
  /\ Opened(r) /\ r.f.off \in Nat
  /\ AtLink(r, r.f.off \div ClustUnits)
  /\ r.f.sect = clust_to_sect(r.f.clust) + ((r.f.off \div Units) % SectPerClust)

\* In one, with so many links still to follow.
Seeking(r, m) ==
  /\ Opened(r) /\ r.f.sect = r.ssect
  /\ Reading(r, m, r.off)
  /\ r.len = 0 \/ r.off = volume.size
  /\ r.links \in 0 .. r.off \div ClustUnits
  /\ AtLink(r, r.off \div ClustUnits - r.links)

LastTurn(r) ==
  LET k == r.off \div ClustUnits - r.links
  IN  r.links > 0 /\ k + 1 >= Len(volume.chain) /\ (Whole \/ CutShort)

Early == {"probe", "mount", "open", "search", "fragments"}
Late  == {"read", "copy", "follow", "scan"}

\* Each stage, with what the library holds and what main has in memory.
Good(st, r, m) ==
  /\ st \in Early \cup Late => r.err = "NONE" /\ Clean(r)
  /\ st \in Early => m = <<>>
  /\ st = "search" => r.next = "search" /\ \E n \in RootEntries(volume) : DirAt(r, n)
  /\ st = "fragments" => /\ r.next = "fragments" /\ r.cnt \in Nat /\ Collected(r)
                         /\ r.sect = r.dir.sect
                         /\ \E n \in RootEntries(volume) : DirAt(r, n)
  /\ st = "read" => Settled(r) /\ Copied(m, r.f.off)
  /\ st = "copy" => /\ Settled(r) /\ Reading(r, m, r.f.off)
                    /\ r.got = <<>> \/ r.len = 0 \/ r.f.off = volume.size
  /\ st = "follow" => Seeking(r, m) /\ r.next = "follow"
  /\ st = "scan" => /\ Seeking(r, m) /\ LastTurn(r)
                    /\ r.next = "scan" /\ r.info = "dirty"
  /\ st \in {"close", "kernel"} => Copied(m, volume.size)

HasClusters == volume.chain # <<>> \/ volume.size = 0

LInv == HasClusters => Shape(fat) /\ Good(stage, fat, memory)

-----------------------------------------------------------------------------
(* What a look at the table leaves alone.                                  *)

KeptRead(r, t) == /\ t.got = r.got /\ t.len = r.len /\ t.off = r.off
                  /\ t.ssect = r.ssect

KeptName(r, t) == /\ t.crc = r.crc /\ t.pieces = r.pieces /\ t.cnt = r.cnt

Kept(r, t) == /\ KeptRead(r, t) /\ KeptName(r, t)
              /\ t.dir = r.dir /\ t.f = r.f /\ t.links = r.links /\ t.next = r.next
              /\ t.info = r.info /\ t.last = r.last /\ t.clust = r.clust /\ t.name = r.name

LEMMA KeptTransitive ==
  ASSUME NEW r, NEW t, NEW u, Kept(r, t), Kept(t, u)
  PROVE  Kept(r, u)
  BY DEF Kept, KeptRead, KeptName

LEMMA KeptByFailing ==
  ASSUME NEW r, Shape(r), NEW e
  PROVE  Shape(Fails(r, e)) /\ Kept(r, Fails(r, e)) /\ Fails(r, e).err = e
         /\ Fails(r, e).sect = r.sect /\ Fails(r, e).buf = r.buf
  BY DEF Fails, Kept, KeptRead, KeptName, Shape

LEMMA UpdateBuf ==
  ASSUME NEW r, Shape(r), r.err = "NONE", NEW sect
  PROVE  LET t == update_buf(r, sect)
         IN  /\ Shape(t) /\ Kept(r, t) /\ t.err \in {"NONE", "POLLING"}
             /\ t.err = "NONE" => t.sect = sect /\ (Clean(r) => Clean(t))
             /\ volume.bad = {} => t.err = "NONE"
<1> DEFINE t == update_buf(r, sect)
<1>1. CASE r.sect = sect
  BY <1>1 DEF update_buf, Kept, KeptRead, KeptName
<1>2. CASE r.sect # sect /\ sect \in volume.bad
  <2>1. t = Fails(r, "POLLING")
    <3>1. ReadDisk(r, sect).err = "POLLING" /\ ReadDisk(r, sect) = Fails(r, "POLLING")
      BY <1>2, KeptByFailing DEF ReadDisk
    <3>2. QED BY <1>2, <3>1 DEF update_buf, Then
  <2>2. QED BY <1>2, <2>1, KeptByFailing
<1>3. CASE r.sect # sect /\ sect \notin volume.bad
  <2>1. t = [r EXCEPT !.buf = disk[sect], !.sect = sect]
    BY <1>3 DEF update_buf, Then, ReadDisk
  <2> DEFINE w == [r EXCEPT !.buf = disk[sect], !.sect = sect]
  <2>2. /\ Shape(w) /\ Kept(r, w) /\ w.err = r.err /\ w.sect = sect /\ w.buf = disk[sect]
    BY DEF Kept, KeptRead, KeptName, Shape
  <2> HIDE DEF t, w
  <2>3. t = w
    BY <2>1 DEF w
  <2>4. t.err = "NONE" /\ t.sect = sect /\ Clean(t) /\ Kept(r, t) /\ Shape(t)
    BY <2>2, <2>3 DEF Clean
  <2>5. QED BY <2>4 DEF t
<1>4. QED BY <1>1, <1>2, <1>3

(* get_fat leaves alone all but the cache and what it returns.              *)
Answered(t, val) ==
  [t EXCEPT !.val = val,
            !.fl = CASE val = FREE -> "free"
                     [] val = BAD  -> "bad"
                     [] val = EOC  -> "last"
                     [] OTHER      -> "used"]

LEMMA EnteredParts ==
  ASSUME NEW t, Shape(t), NEW val
  PROVE  LET u == Answered(t, val)
         IN  /\ Shape(u) /\ Kept(t, u) /\ u.err = t.err /\ u.sect = t.sect /\ u.buf = t.buf
             /\ u.val = val
             /\ u.fl = CASE val = FREE -> "free"
                         [] val = BAD  -> "bad"
                         [] val = EOC  -> "last"
                         [] OTHER      -> "used"
  BY DEF Answered, Kept, KeptRead, KeptName, Shape

LEMMA GetFatCases ==
  ASSUME NEW r, Shape(r), r.err = "NONE", NEW clust
  PROVE  LET w == update_buf(r, ActiveFat + clust \div FatItems)
             t == get_fat(r, clust)
             val == w.buf.v[clust % FatItems]
         IN  \/ w.err # "NONE" /\ t = w
             \/ w.err = "NONE" /\ (val = 1 \/ val >= ClustCnt) /\ t = Fails(w, "BROKEN")
             \/ w.err = "NONE" /\ ~(val = 1 \/ val >= ClustCnt) /\ t = Answered(w, val)
  BY DEF get_fat, Then, Answered

Flags == {"free", "bad", "last", "used"}

LEMMA GetFat ==
  ASSUME NEW r, Shape(r), r.err = "NONE", NEW clust
  PROVE  LET t == get_fat(r, clust)
         IN  /\ Shape(t) /\ Kept(r, t) /\ t.err \in {"NONE", "POLLING", "BROKEN"}
             /\ t.err # "POLLING" /\ Clean(r) => Clean(t)
             /\ t.err = "NONE" => t.fl \in Flags
<1> DEFINE w == update_buf(r, ActiveFat + clust \div FatItems)
           t == get_fat(r, clust)
           val == w.buf.v[clust % FatItems]
<1>1. /\ Shape(w) /\ Kept(r, w) /\ w.err \in {"NONE", "POLLING"}
      /\ w.err = "NONE" => (Clean(r) => Clean(w))
  BY UpdateBuf
<1>2. \/ w.err # "NONE" /\ t = w
      \/ w.err = "NONE" /\ (val = 1 \/ val >= ClustCnt) /\ t = Fails(w, "BROKEN")
      \/ w.err = "NONE" /\ ~(val = 1 \/ val >= ClustCnt) /\ t = Answered(w, val)
  BY GetFatCases
<1> HIDE DEF w, t, val
<1>3. /\ Shape(Fails(w, "BROKEN")) /\ Kept(w, Fails(w, "BROKEN")) /\ Fails(w, "BROKEN").err = "BROKEN"
      /\ Fails(w, "BROKEN").sect = w.sect /\ Fails(w, "BROKEN").buf = w.buf
  BY <1>1, KeptByFailing
<1>4. /\ Shape(Answered(w, val)) /\ Kept(w, Answered(w, val)) /\ Answered(w, val).err = w.err
      /\ Answered(w, val).sect = w.sect /\ Answered(w, val).buf = w.buf
      /\ Answered(w, val).fl \in Flags
  BY <1>1, EnteredParts DEF Flags
<1>5. CASE w.err # "NONE" /\ t = w
  <2>1. Shape(t) /\ Kept(r, t) /\ t.err = "POLLING"
    BY <1>1, <1>5
  <2>2. QED BY <2>1 DEF t
<1>6. CASE w.err = "NONE" /\ t = Fails(w, "BROKEN")
  <2>1. Shape(t) /\ Kept(r, t) /\ t.err = "BROKEN" /\ (Clean(r) => Clean(t))
    BY <1>1, <1>3, <1>6, KeptTransitive DEF Clean
  <2>2. QED BY <2>1 DEF t
<1>7. CASE w.err = "NONE" /\ t = Answered(w, val)
  <2>1. /\ Shape(t) /\ Kept(r, t) /\ t.err = "NONE" /\ (Clean(r) => Clean(t))
        /\ t.fl \in Flags
    BY <1>1, <1>4, <1>7, KeptTransitive DEF Clean
  <2>2. QED BY <2>1 DEF t
<1>8. QED BY <1>2, <1>5, <1>6, <1>7

(* Sizes.                                                                  *)
LEMMA Sizes ==
  /\ Lba \in Nat /\ SectPerFat \in Nat /\ FatItems \in Nat /\ SectPerClust \in Nat
  /\ Units \in Nat /\ DirEnts \in Nat /\ ResSects \in Nat
  /\ Lba > 0 /\ SectPerFat > 0 /\ FatItems > 0 /\ SectPerClust > 0
  /\ Units > 0 /\ DirEnts > 0 /\ ResSects > 1
  BY BootAssumption

LEMMA ClustUnitsNat == ClustUnits \in Nat /\ ClustUnits > 0
  BY Sizes DEF ClustUnits

(* The sector of a cluster's entry.                                        *)
LEMMA FatSector ==
  ASSUME NEW clust \in 0 .. ClustCnt - 1
  PROVE  ActiveFat + clust \div FatItems \in FatSects
<1>1. clust \div FatItems \in 0 .. SectPerFat - 1
  BY Sizes DEF ClustCnt
<1>2. QED BY <1>1, Sizes DEF FatSects, ActiveFat

LEMMA FatSectsApart == 0 \notin FatSects /\ InfoSect \notin FatSects
  BY Sizes DEF FatSects, InfoSect, ActiveFat

LEMMA GetFatValue ==
  ASSUME NEW r, Shape(r), r.err = "NONE", Clean(r), NEW clust \in 0 .. ClustCnt - 1,
         IsVolume(volume)
  PROVE  LET t == get_fat(r, clust)
         IN  /\ t.err = "NONE" =>
                  /\ t.fl = "used" <=> Link(volume, clust) \in Clusters
                  /\ t.fl = "used" => t.val = Link(volume, clust)
                  /\ t.fl = "last" <=> Link(volume, clust) = EOC
             /\ volume.bad = {} /\ Link(volume, clust) \in Clusters => t.err = "NONE"
<1> DEFINE s == ActiveFat + clust \div FatItems
           w == update_buf(r, s)
           t == get_fat(r, clust)
           val == w.buf.v[clust % FatItems]
<1>1. /\ Shape(w) /\ w.err \in {"NONE", "POLLING"}
      /\ w.err = "NONE" => w.sect = s /\ Clean(w)
      /\ volume.bad = {} => w.err = "NONE"
  BY UpdateBuf
<1>2. \/ w.err # "NONE" /\ t = w
      \/ w.err = "NONE" /\ (val = 1 \/ val >= ClustCnt) /\ t = Fails(w, "BROKEN")
      \/ w.err = "NONE" /\ ~(val = 1 \/ val >= ClustCnt) /\ t = Answered(w, val)
  BY GetFatCases
<1>3. s \notin {0, InfoSect}
  BY FatSector, FatSectsApart
<1>4. w.err = "NONE" => val = Link(volume, clust)
  BY <1>1, <1>3 DEF Clean, disk, Link
<1>5. Link(volume, clust) \in Int /\ Link(volume, clust) >= BAD
  BY DEF IsVolume
<1>6. Shape(w) => /\ Fails(w, "BROKEN").err = "BROKEN"
                  /\ Answered(w, val).err = w.err /\ Answered(w, val).val = val
                  /\ Answered(w, val).fl = CASE val = FREE -> "free"
                                            [] val = BAD  -> "bad"
                                            [] val = EOC  -> "last"
                                            [] OTHER      -> "used"
  BY KeptByFailing, EnteredParts
<1> HIDE DEF w, t, val, s
<1> DEFINE link == Link(volume, clust)
<1>7. ClustCnt \in Nat
  BY Sizes DEF ClustCnt
<1>8. CASE w.err # "NONE" /\ t = w
  BY <1>1, <1>8 DEF t
<1>9. CASE w.err = "NONE" /\ (val = 1 \/ val >= ClustCnt) /\ t = Fails(w, "BROKEN")
  <2>1. t.err = "BROKEN" /\ link \notin Clusters
    BY <1>1, <1>4, <1>5, <1>6, <1>7, <1>9 DEF Clusters
  <2>2. QED BY <2>1 DEF t
<1>10. CASE w.err = "NONE" /\ ~(val = 1 \/ val >= ClustCnt) /\ t = Answered(w, val)
  <2>1. /\ t.err = "NONE" /\ t.val = link
        /\ t.fl = CASE link = FREE -> "free" [] link = BAD -> "bad" [] link = EOC -> "last"
                    [] OTHER -> "used"
    BY <1>1, <1>4, <1>6, <1>10
  <2>2. link \in Int /\ link >= -2 /\ link # 1 /\ link < ClustCnt
    BY <1>4, <1>5, <1>7, <1>10 DEF BAD
  <2> HIDE DEF link
  <2>3. t.fl = "used" <=> link \in Clusters
    BY <2>1, <2>2, <1>7 DEF Clusters, FREE, BAD, EOC
  <2>4. t.fl = "last" <=> link = EOC
    BY <2>1, <2>2 DEF FREE, BAD, EOC
  <2>5. QED BY <2>1, <2>3, <2>4 DEF t, link
<1>11. QED BY <1>2, <1>8, <1>9, <1>10

(* Writing the table: where the cache goes is lost on nobody, for FsInfo's   *)
(* sector takes its place.                                                   *)
LEMMA PutFat2 ==
  ASSUME NEW r, Shape(r), r.err = "NONE", NEW table, NEW clust, NEW val
  PROVE  LET t == put_fat2(r, table, clust, val)
         IN  Shape(t) /\ Kept(r, t) /\ t.err \in {"NONE", "POLLING"}
<1> DEFINE w == update_buf(r, table + clust \div FatItems)
           t == put_fat2(r, table, clust, val)
           u == [w EXCEPT !.buf.v[clust % FatItems] = val]
<1>1. Shape(w) /\ Kept(r, w) /\ w.err \in {"NONE", "POLLING"}
  BY UpdateBuf
<1>2. t = IF w.err = "NONE" THEN u ELSE w
  BY DEF put_fat2, Then
<1> HIDE DEF w, t
<1>3. Shape(u) /\ Kept(w, u) /\ u.err = w.err
  BY <1>1 DEF Kept, KeptRead, KeptName, Shape
<1> HIDE DEF u
<1>4. Shape(t) /\ Kept(r, t) /\ t.err \in {"NONE", "POLLING"}
  BY <1>1, <1>2, <1>3, KeptTransitive
<1>5. QED BY <1>4 DEF t

LEMMA PutFat ==
  ASSUME NEW r, Shape(r), r.err = "NONE", NEW clust, NEW val
  PROVE  LET t == put_fat(r, clust, val)
         IN  Shape(t) /\ Kept(r, t) /\ t.err \in {"NONE", "POLLING"}
<1> DEFINE w == put_fat2(r, MirrorFat, clust, val)
           t == put_fat(r, clust, val)
           u == put_fat2(w, ActiveFat, clust, val)
           x == put_fat2(r, ActiveFat, clust, val)
<1>1. /\ Shape(w) /\ Kept(r, w) /\ w.err \in {"NONE", "POLLING"}
      /\ Shape(x) /\ Kept(r, x) /\ x.err \in {"NONE", "POLLING"}
  BY PutFat2
<1>2. t = IF Mirrored THEN IF w.err = "NONE" THEN u ELSE w ELSE x
  BY DEF put_fat, Then
<1> HIDE DEF w, x
<1>3. w.err = "NONE" => Shape(u) /\ Kept(w, u) /\ u.err \in {"NONE", "POLLING"}
  BY <1>1, PutFat2
<1> HIDE DEF u, t
<1>4. Shape(t) /\ Kept(r, t) /\ t.err \in {"NONE", "POLLING"}
  BY <1>1, <1>2, <1>3, KeptTransitive
<1>5. QED BY <1>4 DEF t

LEMMA AddedLink ==
  ASSUME NEW r, Shape(r), r.err = "NONE", NEW clust
  PROVE  LET t == AddLink(r, clust)
         IN  Shape(t) /\ Kept(r, t) /\ t.err \in {"NONE", "POLLING"}
<1> DEFINE p == put_fat(r, r.f.clust, clust)
           t == AddLink(r, clust)
<1>1. Shape(p) /\ Kept(r, p) /\ p.err \in {"NONE", "POLLING"}
  BY PutFat
<1>2. t = IF r.f.clust = 0 THEN r ELSE p
  BY DEF AddLink
<1>3. Kept(r, r)
  BY DEF Kept, KeptRead, KeptName
<1> HIDE DEF p, t
<1>4. Shape(t) /\ Kept(r, t) /\ t.err \in {"NONE", "POLLING"}
  BY <1>1, <1>2, <1>3
<1>5. QED BY <1>4 DEF t

LEMMA SyncFs ==
  ASSUME NEW r, Shape(r), r.err = "NONE"
  PROVE  LET t == sync_fs(r)
         IN  /\ Shape(t) /\ t.err \in {"NONE", "POLLING"}
             /\ KeptRead(r, t) /\ t.f = r.f /\ t.links = r.links /\ t.next = r.next
             /\ t.err = "NONE" /\ r.info # "clean" => Clean(t)
             /\ volume.bad = {} => t.err = "NONE"
<1> DEFINE w == update_buf(r, InfoSect)
           t == sync_fs(r)
           u == [w EXCEPT !.buf.next_free = w.last, !.info = "clean"]
<1>1. /\ Shape(w) /\ Kept(r, w) /\ w.err \in {"NONE", "POLLING"}
      /\ w.err = "NONE" => w.sect = InfoSect
      /\ volume.bad = {} => w.err = "NONE"
  BY UpdateBuf
<1>2. t = IF r.info = "clean" THEN r ELSE IF w.err = "NONE" THEN u ELSE w
  BY DEF sync_fs, Then
<1> HIDE DEF w, t
<1>3. Shape(u) /\ KeptRead(w, u) /\ u.f = w.f /\ u.links = w.links /\ u.next = w.next
      /\ u.err = w.err /\ u.sect = w.sect
  BY <1>1 DEF KeptRead, Shape
<1> HIDE DEF u
<1>4. /\ Shape(t) /\ t.err \in {"NONE", "POLLING"}
      /\ KeptRead(r, t) /\ t.f = r.f /\ t.links = r.links /\ t.next = r.next
      /\ t.err = "NONE" /\ r.info # "clean" => Clean(t)
      /\ volume.bad = {} => t.err = "NONE"
  BY <1>1, <1>2, <1>3 DEF Kept, KeptRead, Clean
<1>5. QED BY <1>4 DEF t

LEMMA LinkedIn ==
  ASSUME NEW r, Shape(r), r.err = "NONE", r.info = "dirty", NEW clust
  PROVE  LET t == LinkIn(r, clust)
         IN  /\ Shape(t) /\ t.err \in {"NONE", "POLLING"}
             /\ t.err = "NONE" => /\ KeptRead(r, t) /\ Clean(t) /\ t.next = "follow"
                                  /\ t.f = [r.f EXCEPT !.clust = clust]
                                  /\ t.links = r.links - 1
<1> DEFINE p == put_fat(r, clust, EOC)
           q == AddLink(p, clust)
           u == [q EXCEPT !.last = clust]
           w == sync_fs(u)
           x == [w EXCEPT !.f.clust = clust, !.links = @ - 1, !.next = "follow"]
           t == LinkIn(r, clust)
<1>1. Shape(p) /\ Kept(r, p) /\ p.err \in {"NONE", "POLLING"}
  BY PutFat
<1>2. t = IF p.err # "NONE" THEN p
          ELSE IF q.err # "NONE" THEN q
          ELSE IF w.err # "NONE" THEN w ELSE x
  BY DEF LinkIn, Then
<1> HIDE DEF p
<1>3. p.err = "NONE" => Shape(q) /\ Kept(p, q) /\ q.err \in {"NONE", "POLLING"}
  BY <1>1, AddedLink
<1> HIDE DEF q
<1>4. CASE p.err # "NONE"
  <2>1. t = p
    BY <1>2, <1>4
  <2> HIDE DEF t
  <2>2. Shape(t) /\ t.err = "POLLING"
    BY <1>1, <1>4, <2>1
  <2>3. QED BY <2>2 DEF t
<1>5. CASE p.err = "NONE" /\ q.err # "NONE"
  <2>1. t = q
    BY <1>2, <1>5
  <2> HIDE DEF t
  <2>2. Shape(t) /\ t.err = "POLLING"
    BY <1>3, <1>5, <2>1
  <2>3. QED BY <2>2 DEF t
<1>6. CASE p.err = "NONE" /\ q.err = "NONE"
  <2>1. Kept(r, q) /\ Shape(q)
    BY <1>1, <1>3, <1>6, KeptTransitive
  <2>2. /\ Shape(u) /\ KeptRead(r, u) /\ u.f = r.f /\ u.links = r.links
        /\ u.err = "NONE" /\ u.info = "dirty"
    BY <2>1, <1>6 DEF Kept, KeptRead, Shape
  <2> HIDE DEF u
  <2>3. /\ Shape(w) /\ w.err \in {"NONE", "POLLING"}
        /\ KeptRead(u, w) /\ w.f = u.f /\ w.links = u.links
        /\ w.err = "NONE" => Clean(w)
    BY <2>2, SyncFs
  <2> HIDE DEF w
  <2>4. CASE w.err # "NONE"
    <3>1. t = w
      BY <1>2, <1>6, <2>4
    <3> HIDE DEF t
    <3>2. Shape(t) /\ t.err = "POLLING"
      BY <2>3, <2>4, <3>1
    <3>3. QED BY <3>2 DEF t
  <2>5. CASE w.err = "NONE"
    <3>1. t = x
      BY <1>2, <1>6, <2>5
    <3>2. /\ Shape(x) /\ x.err = "NONE" /\ KeptRead(w, x) /\ x.next = "follow"
          /\ x.f = [w.f EXCEPT !.clust = clust] /\ x.links = w.links - 1
          /\ x.sect = w.sect /\ x.buf = w.buf
      BY <2>3, <2>5 DEF Shape, KeptRead
    <3> HIDE DEF t, x
    <3>3. Clean(x) /\ KeptRead(r, x)
      BY <2>2, <2>3, <2>5, <3>2 DEF Clean, KeptRead
    <3>4. /\ Shape(t) /\ t.err = "NONE" /\ KeptRead(r, t) /\ Clean(t) /\ t.next = "follow"
          /\ t.f = [r.f EXCEPT !.clust = clust] /\ t.links = r.links - 1
      BY <2>2, <2>3, <3>1, <3>2, <3>3
    <3>5. QED BY <3>4 DEF t
  <2>6. QED BY <2>4, <2>5
<1>7. QED BY <1>4, <1>5, <1>6

(* How a turn that stretches the chain ends: with another cluster for the    *)
(* handle, in the search, with an error, or never.                          *)
Stretched(r, t) == /\ t.next = "follow" /\ t.links = r.links - 1
                   /\ \E c : t.f = [r.f EXCEPT !.clust = c]

Searching(r, t) == t.next = "scan" /\ t.info = "dirty" /\ t.f = r.f /\ t.links = r.links

Ended(r, t) ==
  \/ t.err = "POLLING"
  \/ t.err \in {"BROKEN", "FULL", "FLAGS"} /\ KeptRead(r, t)
  \/ /\ t.err = "NONE" /\ KeptRead(r, t) /\ Clean(t)
     /\ Stretched(r, t) \/ Searching(r, t)

LEMMA LinkedInEnds ==
  ASSUME NEW r, NEW s, Shape(s), s.err = "NONE", s.info = "dirty", NEW clust,
         KeptRead(r, s), s.f = r.f, s.links = r.links
  PROVE  Shape(LinkIn(s, clust)) /\ Ended(r, LinkIn(s, clust))
<1> DEFINE t == LinkIn(s, clust)
<1>1. /\ Shape(t) /\ t.err \in {"NONE", "POLLING"}
      /\ t.err = "NONE" => /\ KeptRead(s, t) /\ Clean(t) /\ t.next = "follow"
                           /\ t.f = [s.f EXCEPT !.clust = clust]
                           /\ t.links = s.links - 1
  BY LinkedIn
<1> HIDE DEF t
<1>2. CASE t.err = "POLLING"
  BY <1>1, <1>2 DEF Ended, t
<1>3. CASE t.err = "NONE"
  <2>1. \E c : t.f = [r.f EXCEPT !.clust = c]
    BY <1>1, <1>3
  <2>2. KeptRead(r, t) /\ Stretched(r, t)
    BY <1>1, <1>3, <2>1 DEF KeptRead, Stretched
  <2>3. Ended(r, t)
    BY <1>1, <1>3, <2>2 DEF Ended
  <2>4. QED BY <1>1, <2>3 DEF t
<1>4. QED BY <1>1, <1>2, <1>3

LEMMA BeginScanEnds ==
  ASSUME NEW r, NEW s, Shape(s), s.err = "NONE", s.info = "dirty", Clean(s),
         KeptRead(r, s), s.f = r.f, s.links = r.links
  PROVE  Shape(BeginScan(s)) /\ Ended(r, BeginScan(s))
<1> DEFINE x == BeginScan(s)
<1>1. /\ Shape(x) /\ x.err = "NONE" /\ KeptRead(s, x) /\ x.next = "scan"
      /\ x.f = s.f /\ x.links = s.links /\ x.info = s.info
      /\ x.sect = s.sect /\ x.buf = s.buf
  BY DEF BeginScan, Shape, KeptRead
<1> HIDE DEF x
<1>2. Clean(x)
  BY <1>1 DEF Clean
<1>3. Ended(r, x)
  BY <1>1, <1>2 DEF Ended, Searching, KeptRead
<1>4. QED BY <1>1, <1>3 DEF x

LEMMA StretchEnds ==
  ASSUME NEW r, Shape(r), r.err = "NONE", Clean(r)
  PROVE  Shape(stretch_chain(r)) /\ Ended(r, stretch_chain(r))
<1> DEFINE q == [r EXCEPT !.info = "dirty"]
           w == get_fat(q, NextClust(r.f.clust))
           u == LinkIn(w, NextClust(w.f.clust))
           x == BeginScan(w)
           t == stretch_chain(r)
<1>1. /\ Shape(q) /\ q.err = "NONE" /\ Clean(q) /\ q.info = "dirty"
      /\ KeptRead(r, q) /\ q.f = r.f /\ q.links = r.links
  BY DEF Shape, Clean, KeptRead
<1>2. t = IF r.f.clust = 0 THEN BeginScan(q)
          ELSE IF w.err # "NONE" THEN w ELSE IF w.fl = "free" THEN u ELSE x
  BY <1>1 DEF stretch_chain, Then
<1> HIDE DEF q
<1>3. /\ Shape(w) /\ Kept(q, w) /\ w.err \in {"NONE", "POLLING", "BROKEN"}
      /\ w.err # "POLLING" => Clean(w)
  BY <1>1, GetFat
<1> HIDE DEF w
<1>4. KeptRead(r, w) /\ w.f = r.f /\ w.links = r.links /\ w.info = "dirty"
  BY <1>1, <1>3 DEF Kept, KeptRead
<1>5. CASE r.f.clust # 0 /\ w.err # "NONE"
  <2>1. t = w
    BY <1>2, <1>5
  <2> HIDE DEF t
  <2>2. Shape(t) /\ Ended(r, t)
    BY <1>3, <1>4, <1>5, <2>1 DEF Ended
  <2>3. QED BY <2>2 DEF t
<1>6. CASE r.f.clust # 0 /\ w.err = "NONE" /\ w.fl = "free"
  <2>1. t = u
    BY <1>2, <1>6
  <2>2. Shape(u) /\ Ended(r, u)
    BY <1>3, <1>4, <1>6, LinkedInEnds
  <2>3. QED BY <2>1, <2>2
<1>7. CASE r.f.clust # 0 /\ w.err = "NONE" /\ w.fl # "free"
  <2>1. t = x
    BY <1>2, <1>7
  <2>2. Shape(x) /\ Ended(r, x)
    BY <1>3, <1>4, <1>7, BeginScanEnds
  <2>3. QED BY <2>1, <2>2
<1>8. CASE r.f.clust = 0
  <2>1. t = BeginScan(q)
    BY <1>2, <1>8
  <2>2. Shape(BeginScan(q)) /\ Ended(r, BeginScan(q))
    BY <1>1, BeginScanEnds
  <2>3. QED BY <2>1, <2>2
<1>9. QED BY <1>5, <1>6, <1>7, <1>8

LEMMA ScanEnds ==
  ASSUME NEW r, Shape(r), r.err = "NONE", Clean(r), r.info = "dirty", r.next = "scan"
  PROVE  Shape(ScanTurn(r)) /\ Ended(r, ScanTurn(r))
<1> DEFINE c == NextClust(r.clust)
           w == get_fat(r, c)
           u == LinkIn(w, c)
           x == [w EXCEPT !.clust = c]
           t == ScanTurn(r)
<1>1. t = CASE c = r.last                                   -> Fails(r, "FULL")
            [] c # r.last /\ w.err = "BROKEN"               -> Fails(w, "FLAGS")
            [] c # r.last /\ w.err = "NONE" /\ w.fl = "free" -> u
            [] OTHER                                        -> x
  BY DEF ScanTurn
<1>2. /\ Shape(w) /\ Kept(r, w) /\ w.err \in {"NONE", "POLLING", "BROKEN"}
      /\ w.err # "POLLING" => Clean(w)
  BY GetFat
<1> HIDE DEF w, c
<1>3. KeptRead(r, w) /\ w.f = r.f /\ w.links = r.links /\ w.info = "dirty" /\ w.next = "scan"
  BY <1>2 DEF Kept, KeptRead
<1>4. CASE c = r.last
  <2>1. t = Fails(r, "FULL")
    BY <1>1, <1>4
  <2>2. Shape(Fails(r, "FULL")) /\ Kept(r, Fails(r, "FULL")) /\ Fails(r, "FULL").err = "FULL"
    BY KeptByFailing
  <2> HIDE DEF t
  <2>3. Shape(t) /\ Ended(r, t)
    BY <2>1, <2>2 DEF Ended, Kept
  <2>4. QED BY <2>3 DEF t
<1>5. CASE c # r.last /\ w.err = "BROKEN"
  <2>1. t = Fails(w, "FLAGS")
    BY <1>1, <1>5
  <2>2. Shape(Fails(w, "FLAGS")) /\ Kept(w, Fails(w, "FLAGS")) /\ Fails(w, "FLAGS").err = "FLAGS"
    BY <1>2, KeptByFailing
  <2> HIDE DEF t
  <2>3. Shape(t) /\ Ended(r, t)
    BY <1>3, <2>1, <2>2 DEF Ended, Kept, KeptRead
  <2>4. QED BY <2>3 DEF t
<1>6. CASE c # r.last /\ w.err = "NONE" /\ w.fl = "free"
  <2>1. t = u
    BY <1>1, <1>6
  <2>2. Shape(u) /\ Ended(r, u)
    BY <1>2, <1>3, <1>6, LinkedInEnds
  <2>3. QED BY <2>1, <2>2
<1>7. CASE c # r.last /\ w.err # "BROKEN" /\ ~(w.err = "NONE" /\ w.fl = "free")
  <2>1. t = x
    BY <1>1, <1>7
  <2>2. /\ Shape(x) /\ x.err = w.err /\ KeptRead(w, x) /\ x.next = w.next
        /\ x.f = w.f /\ x.links = w.links /\ x.info = w.info
        /\ x.sect = w.sect /\ x.buf = w.buf
    BY <1>2 DEF Shape, KeptRead
  <2> HIDE DEF t, x
  <2>3. w.err # "POLLING" => Clean(x)
    BY <1>2, <2>2 DEF Clean
  <2>4. Shape(t) /\ Ended(r, t)
    BY <1>2, <1>3, <1>7, <2>1, <2>2, <2>3 DEF Ended, Searching, KeptRead
  <2>5. QED BY <2>4 DEF t
<1>8. QED BY <1>4, <1>5, <1>6, <1>7

(* A turn that follows a link.                                              *)
Followed(r, t) == /\ t.next = r.next /\ t.links = r.links - 1
                  /\ t.f = [r.f EXCEPT !.clust = t.val]

LEMMA FollowEnds ==
  ASSUME NEW r, Shape(r), r.err = "NONE", Clean(r)
  PROVE  LET w == get_fat(r, r.f.clust)
             t == FollowLink(r)
         IN  /\ Shape(t)
             /\ \/ t.err = "POLLING"
                \/ t.err = "BROKEN" /\ KeptRead(r, t)
                \/ w.err = "NONE" /\ w.fl = "last" /\ Ended(r, t)
                \/ /\ t.err = "NONE" /\ KeptRead(r, t) /\ Clean(t)
                   /\ w.err = "NONE" /\ w.fl = "used" /\ t.val = w.val /\ Followed(r, t)
<1> DEFINE w == get_fat(r, r.f.clust)
           t == FollowLink(r)
           x == [w EXCEPT !.f.clust = w.val, !.links = @ - 1]
<1>1. t = IF w.err # "NONE" THEN w
          ELSE CASE w.fl \in {"bad", "free"} -> Fails(w, "BROKEN")
                 [] w.fl = "last" -> stretch_chain(w)
                 [] OTHER -> x
  BY DEF FollowLink, Then
<1>2. /\ Shape(w) /\ Kept(r, w) /\ w.err \in {"NONE", "POLLING", "BROKEN"}
      /\ w.err # "POLLING" => Clean(w)
      /\ w.err = "NONE" => w.fl \in Flags
  BY GetFat
<1> HIDE DEF w
<1>3. KeptRead(r, w) /\ w.f = r.f /\ w.links = r.links /\ w.next = r.next
  BY <1>2 DEF Kept
<1>4. CASE w.err # "NONE"
  <2>1. t = w
    BY <1>1, <1>4
  <2>2. QED BY <1>2, <1>3, <1>4, <2>1 DEF w
<1>5. CASE w.err = "NONE" /\ w.fl \in {"bad", "free"}
  <2>1. t = Fails(w, "BROKEN")
    BY <1>1, <1>5
  <2>2. Shape(Fails(w, "BROKEN")) /\ Kept(w, Fails(w, "BROKEN")) /\ Fails(w, "BROKEN").err = "BROKEN"
    BY <1>2, KeptByFailing
  <2> HIDE DEF t
  <2>3. Shape(t) /\ t.err = "BROKEN" /\ KeptRead(r, t)
    BY <1>3, <2>1, <2>2 DEF Kept, KeptRead
  <2>4. QED BY <2>3 DEF t
<1>6. CASE w.err = "NONE" /\ w.fl = "last"
  <2>1. t = stretch_chain(w)
    BY <1>1, <1>6
  <2>2. Shape(stretch_chain(w)) /\ Ended(w, stretch_chain(w))
    BY <1>2, <1>6, StretchEnds
  <2> HIDE DEF t
  <2>3. Shape(t) /\ Ended(r, t)
    BY <1>3, <2>1, <2>2 DEF Ended, Stretched, Searching, KeptRead
  <2>4. QED BY <1>6, <2>3 DEF t, w
<1>7. CASE w.err = "NONE" /\ w.fl = "used"
  <2>1. t = x
    BY <1>1, <1>7
  <2>2. /\ Shape(x) /\ x.err = "NONE" /\ KeptRead(w, x) /\ x.next = w.next /\ x.val = w.val
        /\ x.f = [w.f EXCEPT !.clust = w.val] /\ x.links = w.links - 1
        /\ x.sect = w.sect /\ x.buf = w.buf
    BY <1>2, <1>7 DEF Shape, KeptRead
  <2> HIDE DEF t, x
  <2>3. Clean(t) /\ Shape(t) /\ t.err = "NONE" /\ KeptRead(r, t) /\ t.val = w.val /\ Followed(r, t)
    BY <1>2, <1>3, <1>7, <2>1, <2>2 DEF Clean, Followed, KeptRead
  <2>4. QED BY <1>7, <2>3 DEF t, w
<1>8. QED BY <1>2, <1>4, <1>5, <1>6, <1>7 DEF Flags

(* The next number has the next remainder, or the next quotient.           *)
LEMMA NextRemainder ==
  ASSUME NEW n \in Nat, NEW d \in Nat \ {0}, (n % d) + 1 < d
  PROVE  (n + 1) \div d = n \div d /\ (n + 1) % d = (n % d) + 1
<1> DEFINE q == n \div d
           r == n % d
<1>1. q \in Int /\ r \in 0 .. d - 1 /\ n = d * q + r
  BY IntDivMod
<1> HIDE DEF q, r
<1>2. r + 1 \in 0 .. d - 1 /\ n + 1 = d * q + (r + 1)
  BY <1>1 DEF r
<1>3. (n + 1) \div d = q /\ (n + 1) % d = r + 1
  BY <1>1, <1>2, IntQuotientIsUnique
<1>4. QED BY <1>3 DEF q, r

LEMMA NextQuotient ==
  ASSUME NEW n \in Nat, NEW d \in Nat \ {0}, ~((n % d) + 1 < d)
  PROVE  (n + 1) \div d = (n \div d) + 1 /\ (n + 1) % d = 0
<1> DEFINE q == n \div d
           r == n % d
<1>1. q \in Int /\ r \in 0 .. d - 1 /\ n = d * q + r
  BY IntDivMod
<1>2. r = d - 1
  BY <1>1
<1> HIDE DEF q, r
<1>3. n + 1 = d * (q + 1) + 0 /\ 0 \in 0 .. d - 1
  BY <1>1, <1>2
<1>4. (n + 1) \div d = q + 1 /\ (n + 1) % d = 0
  BY <1>1, <1>3, IntQuotientIsUnique
<1>5. QED BY <1>4 DEF q, r

LEMMA QuotientIsBelow ==
  ASSUME NEW n \in Nat, NEW d \in Nat \ {0}, NEW c \in Nat, n < c * d
  PROVE  n \div d \in 0 .. c - 1
<1> DEFINE q == n \div d
           r == n % d
<1>1. q \in Int /\ r \in 0 .. d - 1 /\ n = d * q + r
  BY IntDivMod
<1> HIDE DEF q, r
<1>2. d * q < d * c /\ d * (-1) < d * q
  BY <1>1
<1>3. q < c /\ -1 < q
  BY <1>1, <1>2
<1>4. QED BY <1>1, <1>3 DEF q

(* An entry's sector is one of the cluster's; where it is the last one, the *)
(* number after it is a multiple of the cluster size.                      *)
LEMMA SectorInCluster ==
  ASSUME NEW clust \in Int, NEW i \in 0 .. SectPerClust - 1
  PROVE  (clust_to_sect(clust) + i + 1) % SectPerClust = 0 <=> ~(i + 1 < SectPerClust)
<1> DEFINE d == DataSect \div SectPerClust
           q == clust - 2 + d
           x == clust_to_sect(clust) + i + 1
<1>1. SectPerClust \in Nat \ {0} /\ DataSect \in Int
  BY Sizes DEF DataSect
<1>2. d \in Int /\ DataSect = SectPerClust * d
  BY <1>1, IntDivMod, BootAssumption
<1> HIDE DEF d
<1>3. clust_to_sect(clust) = SectPerClust * q
  BY <1>1, <1>2 DEF clust_to_sect
<1>4. q \in Int
  BY <1>2
<1> HIDE DEF q
<1>5. CASE i + 1 < SectPerClust
  <2>1. x = SectPerClust * q + (i + 1) /\ i + 1 \in 0 .. SectPerClust - 1 /\ x \in Int
    BY <1>1, <1>3, <1>4, <1>5
  <2> HIDE DEF x
  <2>2. x % SectPerClust = i + 1
    BY <1>1, <1>4, <2>1, IntQuotientIsUnique
  <2>3. QED BY <1>5, <2>2 DEF x
<1>6. CASE ~(i + 1 < SectPerClust)
  <2>1. x = SectPerClust * (q + 1) + 0 /\ 0 \in 0 .. SectPerClust - 1 /\ x \in Int /\ q + 1 \in Int
    BY <1>1, <1>3, <1>4, <1>6
  <2> HIDE DEF x
  <2>2. x % SectPerClust = 0
    BY <1>1, <2>1, IntQuotientIsUnique
  <2>3. QED BY <1>6, <2>2 DEF x
<1>7. QED BY <1>5, <1>6

-----------------------------------------------------------------------------
(* The directory.                                                          *)

(* An entry's number, its sector's and its cluster's.                      *)
LEMMA EntrySplit ==
  ASSUME NEW n \in RootEntries(volume), IsVolume(volume)
  PROVE  LET s == n \div DirEnts
         IN  /\ n \in Nat /\ s \in Nat /\ n % DirEnts \in 0 .. DirEnts - 1
             /\ s \div SectPerClust \in 0 .. Len(volume.root) - 1
             /\ s % SectPerClust \in 0 .. SectPerClust - 1
             /\ volume.root[s \div SectPerClust + 1] \in Clusters
             /\ Len(volume.root) \in Nat
<1> DEFINE len == Len(volume.root)
           s == n \div DirEnts
<1>1. len \in Nat /\ volume.root \in Seq(Clusters)
  BY DEF IsVolume, Follows
<1>2. n \in Nat /\ n < (len * SectPerClust) * DirEnts
  BY <1>1, Sizes DEF RootEntries
<1>3. len * SectPerClust \in Nat
  BY <1>1, Sizes
<1> HIDE DEF len
<1>4. s \in 0 .. (len * SectPerClust) - 1
  <2> DEFINE c == len * SectPerClust
  <2>1. c \in Nat /\ n < c * DirEnts
    BY <1>2, <1>3
  <2> HIDE DEF c
  <2>2. n \div DirEnts \in 0 .. c - 1
    BY <1>2, <2>1, Sizes, QuotientIsBelow
  <2>3. QED BY <2>2 DEF c
<1>5. n % DirEnts \in 0 .. DirEnts - 1
  BY <1>2, Sizes, IntDivMod
<1> HIDE DEF s
<1>6. s \in Nat /\ s < len * SectPerClust
  BY <1>3, <1>4
<1>7. s \div SectPerClust \in 0 .. len - 1
  BY <1>1, <1>6, Sizes, QuotientIsBelow
<1>8. s % SectPerClust \in 0 .. SectPerClust - 1
  BY <1>6, Sizes, IntDivMod
<1>9. volume.root[s \div SectPerClust + 1] \in Clusters
  BY <1>1, <1>7 DEF len
<1>10. QED BY <1>1, <1>2, <1>5, <1>6, <1>7, <1>8, <1>9 DEF s, len

(* The entry after it.                                                     *)
LEMMA NextEntry ==
  ASSUME NEW n \in RootEntries(volume), IsVolume(volume)
  PROVE  LET s == n \div DirEnts
             k == s \div SectPerClust
         IN  /\ (n % DirEnts) + 1 < DirEnts =>
                  /\ n + 1 \in RootEntries(volume)
                  /\ (n + 1) \div DirEnts = s /\ (n + 1) % DirEnts = (n % DirEnts) + 1
             /\ ~((n % DirEnts) + 1 < DirEnts) =>
                  /\ (n + 1) \div DirEnts = s + 1 /\ (n + 1) % DirEnts = 0
                  /\ (s % SectPerClust) + 1 < SectPerClust =>
                       /\ n + 1 \in RootEntries(volume)
                       /\ (s + 1) \div SectPerClust = k
                       /\ (s + 1) % SectPerClust = (s % SectPerClust) + 1
                  /\ ~((s % SectPerClust) + 1 < SectPerClust) =>
                       /\ n + 1 \in RootEntries(volume) <=> k + 1 < Len(volume.root)
                       /\ (s + 1) \div SectPerClust = k + 1
                       /\ (s + 1) % SectPerClust = 0
<1> DEFINE len == Len(volume.root)
           s == n \div DirEnts
           e == n % DirEnts
           k == s \div SectPerClust
           x == s % SectPerClust
           size == len * SectPerClust
<1>1. /\ n \in Nat /\ s \in Nat /\ e \in 0 .. DirEnts - 1 /\ k \in 0 .. len - 1
      /\ x \in 0 .. SectPerClust - 1 /\ len \in Nat
  BY EntrySplit
<1>2. n = DirEnts * s + e
  BY <1>1, Sizes, IntDivMod
<1>3. s = SectPerClust * k + x
  BY <1>1, Sizes, IntDivMod
<1>4. RootEntries(volume) = 0 .. size * DirEnts - 1
  BY DEF RootEntries
<1>5. size \in Nat /\ size * DirEnts \in Nat
  BY <1>1, Sizes
<1>6. \A m \in Nat : m \in RootEntries(volume) <=> m < size * DirEnts
  BY <1>4, <1>5
<1> DirEnts \in Nat \ {0} /\ SectPerClust \in Nat \ {0}
  BY Sizes
<1> n \in Nat /\ s \in Nat
  BY <1>1
<1>7. e + 1 < DirEnts => (n + 1) \div DirEnts = s /\ (n + 1) % DirEnts = e + 1
  BY NextRemainder, Zenon
<1>8. ~(e + 1 < DirEnts) => (n + 1) \div DirEnts = s + 1 /\ (n + 1) % DirEnts = 0
  BY NextQuotient, Zenon
<1>9. x + 1 < SectPerClust =>
        (s + 1) \div SectPerClust = k /\ (s + 1) % SectPerClust = x + 1
  BY NextRemainder, Zenon
<1>10. ~(x + 1 < SectPerClust) =>
        (s + 1) \div SectPerClust = k + 1 /\ (s + 1) % SectPerClust = 0
  BY NextQuotient, Zenon
<1> HIDE DEF len, s, e, k, x, size
<1>11. s < size
  <2>1. SectPerClust * k + x < SectPerClust * (k + 1)
    BY <1>1, Sizes
  <2>2. SectPerClust * (k + 1) <= SectPerClust * len
    BY <1>1, Sizes
  <2>3. SectPerClust * len = size
    BY <1>1, Sizes DEF size
  <2>4. QED BY <1>1, <1>3, <2>1, <2>2, <2>3, Sizes
<1>12. CASE e + 1 < DirEnts
  <2>1. n + 1 < DirEnts * (s + 1)
    BY <1>1, <1>2, <1>12, Sizes
  <2>2. DirEnts * (s + 1) <= DirEnts * size
    BY <1>1, <1>5, <1>11, Sizes
  <2>3. n + 1 < size * DirEnts
    BY <1>1, <1>5, <2>1, <2>2, Sizes
  <2>4. n + 1 \in RootEntries(volume)
    BY <1>1, <1>6, <2>3
  <2>5. QED BY <1>7, <1>12, <2>4 DEF s, e
<1>13. CASE ~(e + 1 < DirEnts)
  <2>1. n + 1 = DirEnts * (s + 1)
    BY <1>1, <1>2, <1>13, Sizes
  <2>2. n + 1 \in RootEntries(volume) <=> s + 1 < size
    <3>1. s + 1 < size => DirEnts * (s + 1) < DirEnts * size
      BY <1>1, <1>5, Sizes
    <3>2. ~(s + 1 < size) => DirEnts * (s + 1) >= DirEnts * size
      BY <1>1, <1>5, Sizes
    <3>3. DirEnts * size = size * DirEnts
      BY <1>5, Sizes
    <3>4. QED BY <1>1, <1>5, <1>6, <2>1, <3>1, <3>2, <3>3, Sizes
  <2>3. CASE x + 1 < SectPerClust
    <3>1. s + 1 < SectPerClust * (k + 1)
      BY <1>1, <1>3, <2>3, Sizes
    <3>2. SectPerClust * (k + 1) <= SectPerClust * len
      BY <1>1, Sizes
    <3>3. SectPerClust * len = size
      BY <1>1, Sizes DEF size
    <3>4. s + 1 < size
      BY <1>1, <1>5, <3>1, <3>2, <3>3, Sizes
    <3>5. n + 1 \in RootEntries(volume)
      BY <2>2, <3>4
    <3>6. QED BY <1>8, <1>9, <1>13, <2>3, <3>5 DEF s, e, x, k
  <2>4. CASE ~(x + 1 < SectPerClust)
    <3>1. s + 1 = SectPerClust * (k + 1)
      BY <1>1, <1>3, <2>4, Sizes
    <3>2. SectPerClust * len = size
      BY <1>1, Sizes DEF size
    <3>3. k + 1 < len => SectPerClust * (k + 1) < SectPerClust * len
      BY <1>1, Sizes
    <3>4. ~(k + 1 < len) => SectPerClust * (k + 1) >= SectPerClust * len
      BY <1>1, Sizes
    <3>5. s + 1 < size <=> k + 1 < len
      BY <1>1, <1>5, <3>1, <3>2, <3>3, <3>4, Sizes
    <3>6. n + 1 \in RootEntries(volume) <=> k + 1 < len
      BY <2>2, <3>5
    <3>7. QED BY <1>8, <1>10, <1>13, <2>4, <3>6 DEF s, e, x, k, len
  <2>5. QED BY <2>3, <2>4
<1>14. QED BY <1>12, <1>13

(* dir_next goes to the entry after the one the cursor is at, if there is one. *)
KeptNext(r, t) == KeptName(r, t) /\ t.next = r.next

LEMMA DirNextCases ==
  ASSUME NEW r, Shape(r), r.err = "NONE"
  PROVE  LET t == dir_next(r)
             a == [r EXCEPT !.dir.idx = @ + 1]
             b == [r EXCEPT !.dir.idx = 0, !.dir.sect = @ + 1]
             u == get_fat(b, b.dir.clust)
         IN  /\ r.dir.idx + 1 < DirEnts => t = a
             /\ ~(r.dir.idx + 1 < DirEnts) /\ b.dir.sect % SectPerClust # 0 => t = b
             /\ ~(r.dir.idx + 1 < DirEnts) /\ b.dir.sect % SectPerClust = 0 =>
                  t = IF u.err # "NONE" THEN u
                      ELSE CASE u.fl \in {"bad", "free"} -> Fails(u, "BROKEN")
                             [] u.fl = "last" -> Fails(u, "EOF")
                             [] OTHER -> dir_at_clust(u, u.val)
  BY DEF dir_next, Then

LEMMA SectorIsInt ==
  ASSUME NEW clust \in Int
  PROVE  clust_to_sect(clust) \in Int
  BY Sizes DEF clust_to_sect, DataSect

LEMMA DirAtClust ==
  ASSUME NEW u, Shape(u), NEW c
  PROVE  LET t == dir_at_clust(u, c)
         IN  /\ Shape(t) /\ KeptNext(u, t) /\ t.err = u.err /\ t.sect = u.sect /\ t.buf = u.buf
             /\ t.name = u.name
             /\ t.dir.clust = c /\ t.dir.sect = clust_to_sect(c) /\ t.dir.idx = 0
  BY DEF dir_at_clust, Shape, KeptNext, KeptName

LEMMA DirNext ==
  ASSUME NEW r, Shape(r), r.err = "NONE", Clean(r), IsVolume(volume),
         NEW n \in RootEntries(volume), DirAt(r, n)
  PROVE  LET t == dir_next(r)
         IN  /\ Shape(t) /\ KeptNext(r, t)
             /\ t.err \in {"NONE", "POLLING", "BROKEN", "EOF"}
             /\ t.err = "NONE" => Clean(t) /\ n + 1 \in RootEntries(volume) /\ DirAt(t, n + 1)
             /\ volume.bad = {} /\ n + 1 \in RootEntries(volume) => t.err = "NONE"
<1> DEFINE s == n \div DirEnts
           k == s \div SectPerClust
           x == s % SectPerClust
           c == volume.root[k + 1]
           t == dir_next(r)
           a == [r EXCEPT !.dir.idx = @ + 1]
           b == [r EXCEPT !.dir.idx = 0, !.dir.sect = @ + 1]
           u == get_fat(b, b.dir.clust)
<1>1. /\ n \in Nat /\ s \in Nat /\ n % DirEnts \in 0 .. DirEnts - 1
      /\ k \in 0 .. Len(volume.root) - 1 /\ x \in 0 .. SectPerClust - 1
      /\ c \in Clusters /\ Len(volume.root) \in Nat
  BY EntrySplit
<1>2. r.dir.clust = c /\ r.dir.sect = clust_to_sect(c) + x /\ r.dir.idx = n % DirEnts
  BY DEF DirAt
<1>3. /\ r.dir.idx + 1 < DirEnts => t = a
      /\ ~(r.dir.idx + 1 < DirEnts) /\ b.dir.sect % SectPerClust # 0 => t = b
      /\ ~(r.dir.idx + 1 < DirEnts) /\ b.dir.sect % SectPerClust = 0 =>
           t = IF u.err # "NONE" THEN u
               ELSE CASE u.fl \in {"bad", "free"} -> Fails(u, "BROKEN")
                      [] u.fl = "last" -> Fails(u, "EOF")
                      [] OTHER -> dir_at_clust(u, u.val)
  BY DirNextCases
<1>4. /\ Shape(a) /\ KeptNext(r, a) /\ a.err = "NONE" /\ Clean(a)
      /\ a.dir.clust = c /\ a.dir.sect = clust_to_sect(c) + x /\ a.dir.idx = (n % DirEnts) + 1
  BY <1>2 DEF Shape, KeptNext, KeptName, Clean
<1>5. /\ Shape(b) /\ KeptNext(r, b) /\ b.err = "NONE" /\ Clean(b)
      /\ b.dir.clust = c /\ b.dir.sect = clust_to_sect(c) + x + 1 /\ b.dir.idx = 0
  BY <1>2 DEF Shape, KeptNext, KeptName, Clean
<1>6. /\ (n % DirEnts) + 1 < DirEnts =>
           /\ n + 1 \in RootEntries(volume)
           /\ (n + 1) \div DirEnts = s /\ (n + 1) % DirEnts = (n % DirEnts) + 1
      /\ ~((n % DirEnts) + 1 < DirEnts) =>
           /\ (n + 1) \div DirEnts = s + 1 /\ (n + 1) % DirEnts = 0
           /\ x + 1 < SectPerClust =>
                /\ n + 1 \in RootEntries(volume)
                /\ (s + 1) \div SectPerClust = k
                /\ (s + 1) % SectPerClust = x + 1
           /\ ~(x + 1 < SectPerClust) =>
                /\ n + 1 \in RootEntries(volume) <=> k + 1 < Len(volume.root)
                /\ (s + 1) \div SectPerClust = k + 1
                /\ (s + 1) % SectPerClust = 0
  BY NextEntry
<1>7. (clust_to_sect(c) + x + 1) % SectPerClust = 0 <=> ~(x + 1 < SectPerClust)
  BY <1>1, SectorInCluster DEF Clusters
<1>8. k + 1 < Len(volume.root) => Link(volume, c) = volume.root[k + 2]
  <2>1. \A i \in 1 .. Len(volume.root) - 1 : Link(volume, volume.root[i]) = volume.root[i + 1]
    BY DEF IsVolume, Follows
  <2>2. k + 1 < Len(volume.root) => k + 1 \in 1 .. Len(volume.root) - 1 /\ (k + 1) + 1 = k + 2
    BY <1>1
  <2>3. QED BY <2>1, <2>2
<1>9. ~(k + 1 < Len(volume.root)) => Link(volume, c) \notin Clusters
  <2>1. ~(k + 1 < Len(volume.root)) => k + 1 = Len(volume.root)
    BY <1>1
  <2>2. QED BY <2>1 DEF IsVolume
<1>10. k + 1 < Len(volume.root) => volume.root[k + 2] \in Clusters
  <2>1. volume.root \in Seq(Clusters)
    BY DEF IsVolume, Follows
  <2>2. k + 1 < Len(volume.root) => k + 2 \in 1 .. Len(volume.root)
    BY <1>1
  <2>3. QED BY <2>1, <2>2
<1>11. CASE (n % DirEnts) + 1 < DirEnts
  <2>1. t = a
    BY <1>2, <1>3, <1>11
  <2>2. DirAt(a, n + 1)
    BY <1>4, <1>6, <1>11 DEF DirAt
  <2> HIDE DEF a, t
  <2>3. Shape(t) /\ KeptNext(r, t) /\ t.err = "NONE" /\ Clean(t)
    BY <1>4, <2>1
  <2>4. n + 1 \in RootEntries(volume) /\ DirAt(t, n + 1)
    BY <1>6, <1>11, <2>1, <2>2
  <2>5. QED BY <2>3, <2>4 DEF t
<1>12. CASE ~((n % DirEnts) + 1 < DirEnts) /\ x + 1 < SectPerClust
  <2>1. t = b
    BY <1>2, <1>3, <1>5, <1>7, <1>12
  <2>2. DirAt(b, n + 1)
    <3>0. c \in Int
      BY <1>1 DEF Clusters
    <3>1. clust_to_sect(c) \in Int
      BY <3>0, SectorIsInt
    <3>2. clust_to_sect(c) + x + 1 = clust_to_sect(c) + (x + 1)
      BY <1>1, <3>1
    <3> HIDE DEF b, x, k, s
    <3>3. (n + 1) \div DirEnts = s + 1 /\ (s + 1) \div SectPerClust = k
          /\ (s + 1) % SectPerClust = x + 1 /\ (n + 1) % DirEnts = 0
      BY <1>6, <1>12 DEF x, s, k
    <3>4. QED BY <1>5, <3>2, <3>3 DEF DirAt
  <2> HIDE DEF b, t
  <2>3. Shape(t) /\ KeptNext(r, t) /\ t.err = "NONE" /\ Clean(t)
    BY <1>5, <2>1
  <2>4. n + 1 \in RootEntries(volume) /\ DirAt(t, n + 1)
    BY <1>6, <1>12, <2>1, <2>2
  <2>5. QED BY <2>3, <2>4 DEF t
<1>13. CASE ~((n % DirEnts) + 1 < DirEnts) /\ ~(x + 1 < SectPerClust)
  <2> DEFINE w == dir_at_clust(u, u.val)
  <2>1. t = IF u.err # "NONE" THEN u
            ELSE CASE u.fl \in {"bad", "free"} -> Fails(u, "BROKEN")
                   [] u.fl = "last" -> Fails(u, "EOF")
                   [] OTHER -> w
    BY <1>2, <1>3, <1>5, <1>7, <1>13
  <2> HIDE DEF b, t
  <2>2. /\ Shape(u) /\ Kept(b, u) /\ u.err \in {"NONE", "POLLING", "BROKEN"}
        /\ u.err # "POLLING" => Clean(u)
        /\ u.err = "NONE" => u.fl \in Flags
    BY <1>5, GetFat
  <2>3. /\ u.err = "NONE" => /\ u.fl = "used" <=> Link(volume, c) \in Clusters
                             /\ u.fl = "used" => u.val = Link(volume, c)
        /\ volume.bad = {} /\ Link(volume, c) \in Clusters => u.err = "NONE"
    <3>1. c \in 0 .. ClustCnt - 1
      BY <1>1 DEF Clusters
    <3>2. QED BY <1>5, <3>1, GetFatValue
  <2> HIDE DEF u
  <2>4. KeptNext(r, u)
    BY <1>5, <2>2 DEF KeptNext, Kept, KeptName
  <2>5. n + 1 \in RootEntries(volume) <=> k + 1 < Len(volume.root)
    BY <1>6, <1>13
  <2>6. CASE u.err # "NONE"
    <3>1. t = u
      BY <2>1, <2>6
    <3>2. ~(volume.bad = {} /\ n + 1 \in RootEntries(volume))
      BY <1>8, <1>10, <2>3, <2>5, <2>6
    <3>3. QED BY <2>2, <2>4, <2>6, <3>1, <3>2 DEF t
  <2>7. CASE u.err = "NONE" /\ u.fl # "used"
    <3>1. PICK e \in {"BROKEN", "EOF"} : t = Fails(u, e)
      BY <2>1, <2>2, <2>7 DEF Flags
    <3>2. Shape(Fails(u, e)) /\ Kept(u, Fails(u, e)) /\ Fails(u, e).err = e
      BY <2>2, KeptByFailing
    <3>3. Shape(t) /\ KeptNext(r, t) /\ t.err = e
      BY <2>4, <3>1, <3>2 DEF KeptNext, Kept, KeptName
    <3>4. n + 1 \notin RootEntries(volume)
      BY <1>8, <1>10, <2>3, <2>5, <2>7
    <3>5. QED BY <3>3, <3>4 DEF t
  <2>8. CASE u.err = "NONE" /\ u.fl = "used"
    <3>1. t = w
      BY <2>1, <2>8
    <3>2. /\ Shape(w) /\ KeptNext(u, w) /\ w.err = u.err /\ w.sect = u.sect /\ w.buf = u.buf
          /\ w.dir.clust = u.val /\ w.dir.sect = clust_to_sect(u.val) /\ w.dir.idx = 0
      BY <2>2, DirAtClust
    <3> HIDE DEF w
    <3>3. k + 1 < Len(volume.root) /\ u.val = volume.root[k + 2]
      BY <1>8, <1>9, <2>3, <2>8
    <3>4. Clean(w) /\ KeptNext(r, w)
      BY <2>2, <2>4, <2>8, <3>2 DEF Clean, KeptNext, KeptName
    <3>5. (s + 1) \div SectPerClust + 1 = k + 2 /\ (s + 1) % SectPerClust = 0
      BY <1>1, <1>6, <1>13
    <3>6. /\ (n + 1) \div DirEnts = s + 1 /\ (n + 1) % DirEnts = 0
          /\ clust_to_sect(u.val) \in Int
      <4>1. u.val \in Int
        BY <1>10, <3>3 DEF Clusters
      <4>2. QED BY <1>6, <1>13, <4>1, Sizes DEF clust_to_sect, DataSect
    <3> HIDE DEF s, k
    <3>7. DirAt(w, n + 1)
      BY <3>2, <3>3, <3>5, <3>6 DEF DirAt
    <3>8. QED BY <2>5, <2>8, <3>1, <3>2, <3>3, <3>4, <3>7 DEF t, k, s
  <2>9. QED BY <2>6, <2>7, <2>8
<1>14. QED BY <1>11, <1>12, <1>13
-----------------------------------------------------------------------------
(* Seeking and copying.                                                    *)

LEMMA MoveToEnds ==
  ASSUME NEW r, Shape(r), r.err = "NONE", r.f.buf = r.ssect
  PROVE  LET t == MoveTo(r)
         IN  /\ Shape(t) /\ t.err \in {"NONE", "POLLING"}
             /\ volume.bad = {} => t.err = "NONE"
             /\ t.got = r.got /\ t.len = r.len /\ t.next = r.next
             /\ t.sect = r.sect /\ t.buf = r.buf
             /\ t.err = "NONE" =>
                  /\ t.f.off = r.off /\ t.f.clust = r.f.clust /\ t.f.size = r.f.size
                  /\ t.f.sect = clust_to_sect(r.f.clust) + ((r.off \div Units) % SectPerClust)
                  /\ t.f.buf = t.f.sect
<1> DEFINE sect == clust_to_sect(r.f.clust) + ((r.off \div Units) % SectPerClust)
           u == [r EXCEPT !.f.off = r.off, !.f.sect = sect]
           w == [u EXCEPT !.f.buf = sect]
           t == MoveTo(r)
<1>1. /\ Shape(u) /\ u.err = "NONE" /\ u.got = r.got /\ u.len = r.len /\ u.next = r.next
      /\ u.sect = r.sect /\ u.buf = r.buf
      /\ u.f.off = r.off /\ u.f.clust = r.f.clust /\ u.f.size = r.f.size
      /\ u.f.sect = sect /\ u.f.buf = r.ssect
  BY DEF Shape
<1>2. t = IF sect = r.ssect THEN u
          ELSE IF sect \in volume.bad THEN Fails(u, "POLLING") ELSE w
  <2>1. sect \in volume.bad => ReadDisk(u, sect) = Fails(u, "POLLING")
    BY DEF ReadDisk
  <2>2. Fails(u, "POLLING").err = "POLLING"
    BY <1>1, KeptByFailing
  <2>3. sect \notin volume.bad => ReadDisk(u, sect) = u
    BY DEF ReadDisk
  <2>4. t = IF sect = r.ssect THEN u
            ELSE IF ReadDisk(u, sect).err = "NONE" THEN [ReadDisk(u, sect) EXCEPT !.f.buf = sect]
                 ELSE ReadDisk(u, sect)
    BY DEF MoveTo, Then
  <2> HIDE DEF t, u, sect
  <2>5. QED BY <1>1, <2>1, <2>2, <2>3, <2>4
<1> HIDE DEF u, t, sect
<1>3. CASE sect = r.ssect
  <2>1. t = u
    BY <1>2, <1>3
  <2>2. QED BY <1>1, <1>3, <2>1 DEF t, sect
<1>4. CASE sect # r.ssect /\ sect \in volume.bad
  <2>1. t = Fails(u, "POLLING")
    BY <1>2, <1>4
  <2>2. /\ Shape(Fails(u, "POLLING")) /\ Kept(u, Fails(u, "POLLING"))
        /\ Fails(u, "POLLING").err = "POLLING"
        /\ Fails(u, "POLLING").sect = u.sect /\ Fails(u, "POLLING").buf = u.buf
    BY <1>1, KeptByFailing
  <2>3. QED BY <1>1, <1>4, <2>1, <2>2 DEF t, Kept, KeptRead
<1>5. CASE sect # r.ssect /\ sect \notin volume.bad
  <2>1. t = w
    BY <1>2, <1>5
  <2>2. /\ Shape(w) /\ w.err = "NONE" /\ w.got = u.got /\ w.len = u.len /\ w.next = u.next
        /\ w.sect = u.sect /\ w.buf = u.buf
        /\ w.f.off = u.f.off /\ w.f.clust = u.f.clust /\ w.f.size = u.f.size
        /\ w.f.sect = u.f.sect /\ w.f.buf = sect
    BY <1>1 DEF Shape
  <2> HIDE DEF w
  <2>3. QED BY <1>1, <2>1, <2>2 DEF t, sect
<1>6. QED BY <1>3, <1>4, <1>5

(* Dividing twice is dividing by the product.                              *)
LEMMA DivideByClust ==
  ASSUME NEW n \in Nat
  PROVE  n \div ClustUnits = (n \div Units) \div SectPerClust
<1> DEFINE p == n \div Units
           s == n % Units
           q == p \div SectPerClust
           r == p % SectPerClust
<1>1. Units \in Nat \ {0} /\ SectPerClust \in Nat \ {0}
  BY Sizes
<1>2. p \in Int /\ s \in 0 .. Units - 1 /\ n = Units * p + s
  BY <1>1, IntDivMod
<1> HIDE DEF p, s
<1>3. q \in Int /\ r \in 0 .. SectPerClust - 1 /\ p = SectPerClust * q + r
  BY <1>1, <1>2, IntDivMod
<1> HIDE DEF q, r
<1>4. n = (Units * SectPerClust) * q + (Units * r + s)
  BY <1>1, <1>2, <1>3
<1>5. Units * r \in Nat /\ Units * r <= Units * (SectPerClust - 1)
  BY <1>1, <1>3
<1>6. Units * (SectPerClust - 1) = Units * SectPerClust - Units
  BY <1>1
<1>7. Units * r + s \in 0 .. Units * SectPerClust - 1
  BY <1>1, <1>2, <1>5, <1>6
<1> DEFINE c == Units * SectPerClust
           x == Units * r + s
<1>8. c \in Nat \ {0} /\ x \in 0 .. c - 1 /\ n = c * q + x /\ n \in Int
  BY <1>1, <1>4, <1>7
<1> HIDE DEF c, x
<1>9. n \div c = q
  BY <1>3, <1>8, IntQuotientIsUnique
<1>10. QED BY <1>9 DEF c, p, q, ClustUnits

(* The units of a sector of the file.                                      *)
LEMMA InSector ==
  ASSUME NEW n \in Nat, n % Units = 0, NEW j \in 0 .. Units - 1
  PROVE  /\ (n + j) \div Units = n \div Units /\ (n + j) % Units = j
         /\ (n + j) \div ClustUnits = n \div ClustUnits
<1> DEFINE q == n \div Units
<1>1. Units \in Nat \ {0}
  BY Sizes
<1>2. q \in Int /\ n = Units * q + (n % Units)
  BY <1>1, IntDivMod
<1> HIDE DEF q
<1>3. n + j = Units * q + j /\ n + j \in Nat /\ n + j \in Int
  BY <1>1, <1>2
<1>4. (n + j) \div Units = q /\ (n + j) % Units = j
  BY <1>1, <1>2, <1>3, IntQuotientIsUnique
<1>5. (n + j) \div ClustUnits = q \div SectPerClust /\ n \div ClustUnits = q \div SectPerClust
  BY <1>3, <1>4, DivideByClust DEF q
<1>6. QED BY <1>4, <1>5 DEF q

LEMMA QuotientGrows ==
  ASSUME NEW a \in Nat, NEW b \in Nat, a <= b, NEW c \in Nat \ {0}
  PROVE  a \div c \in Nat /\ b \div c \in Nat /\ a \div c <= b \div c
<1> DEFINE p == a \div c
           x == a % c
           q == b \div c
           y == b % c
<1>1. /\ p \in Int /\ x \in 0 .. c - 1 /\ a = c * p + x
      /\ q \in Int /\ y \in 0 .. c - 1 /\ b = c * q + y
  BY IntDivMod
<1>2. p \in Nat /\ q \in Nat
  OBVIOUS
<1> HIDE DEF p, x, q, y
<1>3. c * p < c * (q + 1)
  BY <1>1
<1>4. p < q + 1
  BY <1>1, <1>3
<1>5. QED BY <1>1, <1>2, <1>4 DEF p, q

(* A turn of fat_file_read copies the rest of the sector, or of the file.   *)
Portion(r) == Least(Units, r.f.size - r.f.off)

LEMMA CopyTurnParts ==
  ASSUME NEW r, Shape(r), r.f.off \in Nat, r.f.off % Units = 0, r.f.size \in Nat,
         r.f.off < r.f.size, r.len = Units, r.got = <<>>
  PROVE  LET t == CopyTurn(r)
             n == Portion(r)
         IN  /\ n \in 1 .. Units /\ r.f.off + n <= r.f.size
             /\ n = Units \/ r.f.off + n = r.f.size
             /\ Shape(t) /\ t.err = r.err /\ t.sect = r.sect /\ t.buf = r.buf
             /\ t.got = <<>> \o [i \in 1 .. n |-> <<r.f.buf, 0 + i - 1>>]
             /\ t.len = Units - n /\ t.off = r.f.off + n /\ t.ssect = r.f.sect
             /\ t.next = "follow" /\ t.f = r.f
             /\ t.links = (r.f.off + n) \div ClustUnits - r.f.off \div ClustUnits
             /\ t.links \in 0 .. (r.f.off + n) \div ClustUnits
<1> DEFINE n == Portion(r)
           m == Least(r.len, Least(Units - (r.f.off % Units), r.f.size - r.f.off))
           off == r.f.off + n
           new == [i \in 1 .. n |-> <<r.f.buf, 0 + i - 1>>]
           a == [r EXCEPT !.got = @ \o new, !.len = @ - n, !.off = off,
                          !.ssect = r.f.sect, !.next = "follow"]
           b == [a EXCEPT !.links = off \div ClustUnits - a.f.off \div ClustUnits]
           t == CopyTurn(r)
<1>1. Units \in Nat \ {0} /\ ClustUnits \in Nat \ {0}
  BY Sizes, ClustUnitsNat
<1>2. n \in 1 .. Units /\ off <= r.f.size /\ (n = Units \/ off = r.f.size)
  BY <1>1 DEF Portion, Least
<1>3. m = n
  <2>1. m = Least(Units, Least(Units - 0, r.f.size - r.f.off))
    OBVIOUS
  <2>2. Units - 0 = Units
    BY <1>1
  <2>3. Least(Units, Least(Units, r.f.size - r.f.off)) = Least(Units, r.f.size - r.f.off)
    BY <1>1 DEF Least
  <2>4. QED BY <2>1, <2>2, <2>3 DEF Portion
<1>4. /\ r.f.off \div ClustUnits \in Nat /\ off \div ClustUnits \in Nat
      /\ r.f.off \div ClustUnits <= off \div ClustUnits
  <2>1. r.f.off \in Nat /\ off \in Nat /\ r.f.off <= off
    BY <1>2
  <2> HIDE DEF off
  <2>2. QED BY <1>1, <2>1, QuotientGrows
<1>5. ~(off \div ClustUnits < r.f.off \div ClustUnits)
  <2> DEFINE x == off \div ClustUnits
             y == r.f.off \div ClustUnits
  <2>1. x \in Nat /\ y \in Nat /\ y <= x
    BY <1>4
  <2> HIDE DEF x, y
  <2>2. ~(x < y)
    BY <2>1
  <2>3. QED BY <2>2 DEF x, y
<1>6. t = b
  <2>1. r.f.off % Units = 0 /\ m = n
    BY <1>3
  <2> DEFINE raw == [r EXCEPT !.got = @ \o [i \in 1 .. m |-> <<r.f.buf, (r.f.off % Units) + i - 1>>],
                              !.len = @ - m, !.off = r.f.off + m, !.ssect = r.f.sect,
                              !.next = "follow"]
  <2>2. raw = a
    BY <2>1
  <2>3. t = [raw EXCEPT !.links = off \div ClustUnits - raw.f.off \div ClustUnits]
    BY <1>3, <1>5 DEF CopyTurn
  <2>4. QED BY <2>2, <2>3
<1> HIDE DEF n, off, new
<1>7. /\ Shape(a) /\ a.err = r.err /\ a.sect = r.sect /\ a.buf = r.buf
      /\ a.got = r.got \o new /\ a.len = r.len - n /\ a.off = off
      /\ a.ssect = r.f.sect /\ a.next = "follow" /\ a.f = r.f
  BY DEF Shape
<1> HIDE DEF a
<1>8. /\ Shape(b) /\ b.err = r.err /\ b.sect = r.sect /\ b.buf = r.buf
      /\ b.got = r.got \o new /\ b.len = r.len - n /\ b.off = off
      /\ b.ssect = r.f.sect /\ b.next = "follow" /\ b.f = r.f
      /\ b.links = off \div ClustUnits - r.f.off \div ClustUnits
  BY <1>7 DEF Shape
<1> HIDE DEF b, t
<1>9. off \div ClustUnits - r.f.off \div ClustUnits \in 0 .. off \div ClustUnits
  <2> DEFINE x == off \div ClustUnits
             y == r.f.off \div ClustUnits
  <2>1. x \in Nat /\ y \in Nat /\ y <= x
    BY <1>4
  <2> HIDE DEF x, y
  <2>2. x - y \in 0 .. x
    BY <2>1
  <2>3. QED BY <2>2 DEF x, y
<1>10. /\ Shape(t) /\ t.err = r.err /\ t.sect = r.sect /\ t.buf = r.buf
       /\ t.got = <<>> \o new /\ t.len = Units - n /\ t.off = off
       /\ t.ssect = r.f.sect /\ t.next = "follow" /\ t.f = r.f
       /\ t.links = off \div ClustUnits - r.f.off \div ClustUnits
       /\ t.links \in 0 .. off \div ClustUnits
  BY <1>6, <1>8, <1>9
<1>11. QED BY <1>2, <1>10 DEF t, n, off, new

(* What is copied is right: the file's cluster is under the handle.         *)
LEMMA ChainTyped ==
  ASSUME IsVolume(volume)
  PROVE  /\ volume.chain \in Seq(Clusters) /\ Len(volume.chain) \in Nat
         /\ volume.size \in Nat /\ Needed(volume) \in Nat /\ Len(volume.chain) <= Needed(volume)
<1>1. volume.chain \in Seq(Clusters) /\ volume.size \in Nat /\ Len(volume.chain) <= Needed(volume)
  BY DEF IsVolume, Follows
<1>2. Needed(volume) \in Nat
  <2>1. volume.size + ClustUnits - 1 \in Nat /\ ClustUnits \in Nat \ {0}
    BY <1>1, ClustUnitsNat
  <2> DEFINE x == volume.size + ClustUnits - 1
  <2>2. x \in Nat /\ x <= x
    BY <2>1
  <2> HIDE DEF x
  <2>3. x \div ClustUnits \in Nat
    BY <2>1, <2>2, QuotientGrows
  <2>4. QED BY <2>3 DEF x, Needed
<1>3. QED BY <1>1, <1>2

LEMMA ContentDomain ==
  ASSUME IsVolume(volume)
  PROVE  /\ Len(Content) = Least(volume.size, Len(volume.chain) * ClustUnits)
         /\ Len(Content) \in Nat /\ Len(Content) <= volume.size
         /\ \A i \in 1 .. Len(Content) :
              /\ (i - 1) \div ClustUnits < Len(volume.chain)
              /\ Content[i] = <<clust_to_sect(volume.chain[(i - 1) \div ClustUnits + 1]) +
                                  (((i - 1) \div Units) % SectPerClust), (i - 1) % Units>>
<1> DEFINE len == Len(volume.chain)
           m == Least(volume.size, len * ClustUnits)
<1>1. len \in Nat /\ volume.size \in Nat /\ ClustUnits \in Nat \ {0}
  BY ChainTyped, ClustUnitsNat
<1>2. m \in Nat /\ m <= volume.size /\ m <= len * ClustUnits
  BY <1>1 DEF Least
<1>3. Content = [i \in 1 .. m |-> <<clust_to_sect(volume.chain[(i - 1) \div ClustUnits + 1]) +
                  (((i - 1) \div Units) % SectPerClust), (i - 1) % Units>>]
  BY DEF Content
<1> HIDE DEF m
<1>4. Len(Content) = m
  BY <1>2, <1>3
<1>5. ASSUME NEW i \in 1 .. m
      PROVE  (i - 1) \div ClustUnits < len
  <2>1. i - 1 \in Nat /\ i - 1 < len * ClustUnits
    BY <1>1, <1>2
  <2> HIDE DEF len
  <2>2. (i - 1) \div ClustUnits \in 0 .. len - 1
    BY <1>1, <2>1, QuotientIsBelow
  <2>3. QED BY <1>1, <2>2
<1>6. QED BY <1>2, <1>3, <1>4, <1>5 DEF m

LEMMA ContentAt ==
  ASSUME IsVolume(volume), NEW base \in Nat, base % Units = 0, NEW j \in 0 .. Units - 1,
         base + j + 1 <= Len(Content)
  PROVE  /\ base \div ClustUnits < Len(volume.chain)
         /\ Content[base + j + 1] =
              <<clust_to_sect(volume.chain[base \div ClustUnits + 1]) +
                  ((base \div Units) % SectPerClust), j>>
<1>1. Units \in Nat \ {0} /\ Len(Content) \in Nat
  BY Sizes, ContentDomain
<1>2. /\ (base + j) \div Units = base \div Units /\ (base + j) % Units = j
      /\ (base + j) \div ClustUnits = base \div ClustUnits
  BY InSector
<1>3. base + j + 1 \in 1 .. Len(Content) /\ base + j + 1 - 1 = base + j
  BY <1>1
<1>4. QED BY <1>2, <1>3, ContentDomain

(* The last portion of the file is of the last cluster that it needs.       *)
LEMMA LastPortion ==
  ASSUME IsVolume(volume), NEW off \in Nat, off % Units = 0,
         off < volume.size, volume.size <= off + Units,
         off \div ClustUnits >= Len(volume.chain) => Whole \/ CutShort
  PROVE  Whole \/ CutShort
<1> DEFINE k == off \div ClustUnits
           last == volume.size - 1
           y == last % ClustUnits
           j == last - off
<1>1. /\ Units \in Nat \ {0} /\ ClustUnits \in Nat \ {0} /\ volume.size \in Nat
      /\ Len(volume.chain) \in Nat /\ Len(volume.chain) <= Needed(volume)
  BY Sizes, ClustUnitsNat, ChainTyped
<1>2. last \in Nat /\ j \in 0 .. Units - 1 /\ off + j = last
  BY <1>1
<1> HIDE DEF j, last
<1>3. last \div ClustUnits = k
  BY <1>2, InSector
<1>4. k \in Int /\ y \in 0 .. ClustUnits - 1 /\ last = ClustUnits * k + y
  <2> HIDE DEF k
  <2>1. last \in Int
    BY <1>2
  <2>2. /\ last \div ClustUnits \in Int /\ y \in 0 .. ClustUnits - 1
        /\ last = ClustUnits * (last \div ClustUnits) + y
    BY <1>1, <2>1, IntDivMod
  <2>3. QED BY <1>3, <2>2
<1> HIDE DEF k, y
<1>5. /\ volume.size + ClustUnits - 1 = ClustUnits * (k + 1) + y
      /\ volume.size + ClustUnits - 1 \in Int /\ k + 1 \in Int
  BY <1>1, <1>2, <1>4 DEF last
<1>6. Needed(volume) = k + 1
  BY <1>1, <1>4, <1>5, IntQuotientIsUnique DEF Needed
<1>7. CASE k < Len(volume.chain)
  BY <1>1, <1>4, <1>6, <1>7 DEF Whole
<1>8. CASE ~(k < Len(volume.chain))
  BY <1>1, <1>4, <1>8 DEF k
<1>9. QED BY <1>7, <1>8

LEMMA SeqWidens ==
  ASSUME NEW S, NEW T, NEW s \in Seq(S), S \subseteq T
  PROVE  s \in Seq(T)
  OBVIOUS

LEMMA Appended ==
  ASSUME NEW s, NEW t, IsSeq(s), IsSeq(t)
  PROVE  /\ IsSeq(s \o t) /\ Len(s \o t) = Len(s) + Len(t)
         /\ Len(s) \in Nat /\ Len(t) \in Nat
         /\ \A i \in 1 .. Len(s) + Len(t) :
              (s \o t)[i] = IF i <= Len(s) THEN s[i] ELSE t[i - Len(s)]
         /\ t = <<>> => s \o t = s
         /\ s = <<>> => s \o t = t
<1>1. PICK S : s \in Seq(S)
  BY DEF IsSeq
<1>2. PICK T : t \in Seq(T)
  BY DEF IsSeq
<1>3. s \in Seq(S \cup T) /\ t \in Seq(S \cup T)
  BY <1>1, <1>2, SeqWidens
<1>4. s \o t \in Seq(S \cup T)
  BY <1>3
<1>5. QED BY <1>3, <1>4, ConcatProperties, ConcatEmptySeq DEF IsSeq

LEMMA CopiedMore ==
  ASSUME IsVolume(volume), NEW m, IsSeq(m), NEW off \in Nat, Copied(m, off),
         off % Units = 0, NEW n \in 1 .. Units, off + n <= volume.size,
         n = Units \/ off + n = volume.size, NEW b,
         off \div ClustUnits < Len(volume.chain) =>
           b = clust_to_sect(volume.chain[off \div ClustUnits + 1]) +
                 ((off \div Units) % SectPerClust),
         off \div ClustUnits >= Len(volume.chain) => Whole \/ CutShort
  PROVE  LET new == [i \in 1 .. n |-> <<b, 0 + i - 1>>]
         IN  IsSeq(new) /\ Len(new) = n /\ Copied(m \o new, off + n)
<1> DEFINE new == [i \in 1 .. n |-> <<b, 0 + i - 1>>]
<1>1. /\ Units \in Nat \ {0} /\ volume.size \in Nat /\ n \in Nat
      /\ Len(Content) \in Nat
  BY Sizes, ChainTyped, ContentDomain
<1>2. new \in Seq({b} \X (0 .. Units))
  BY <1>1
<1>3. IsSeq(new) /\ Len(new) = n
  <2>1. Len(new) = n
    BY <1>1
  <2> HIDE DEF new
  <2>2. QED BY <1>2, <2>1 DEF IsSeq
<1>4. Len(m) = off
  BY DEF Copied
<1>5. \A i \in 1 .. n : new[i] = <<b, i - 1>>
  BY <1>1
<1> HIDE DEF new
<1>6. /\ IsSeq(m \o new) /\ Len(m \o new) = off + n
      /\ \A i \in 1 .. off + n : (m \o new)[i] = IF i <= off THEN m[i] ELSE new[i - off]
  BY <1>3, <1>4, Appended
<1>7. ASSUME NEW i \in 1 .. off + n, i <= Len(Content)
      PROVE  (m \o new)[i] = Content[i]
  <2>1. CASE i <= off
    BY <1>6, <1>7, <2>1 DEF Copied
  <2>2. CASE ~(i <= off)
    <3> DEFINE j == i - off - 1
    <3>1. j \in 0 .. Units - 1 /\ off + j + 1 = i /\ i - off \in 1 .. n /\ (i - off) - 1 = j
      BY <1>1, <2>2
    <3> HIDE DEF j
    <3>2. (m \o new)[i] = <<b, j>>
      BY <1>5, <1>6, <2>2, <3>1
    <3>3. /\ off \div ClustUnits < Len(volume.chain)
          /\ Content[i] = <<clust_to_sect(volume.chain[off \div ClustUnits + 1]) +
                              ((off \div Units) % SectPerClust), j>>
      <4>1. off + j + 1 <= Len(Content)
        BY <1>7, <3>1
      <4>2. QED BY <3>1, <4>1, ContentAt
    <3>4. QED BY <3>2, <3>3
  <2>3. QED BY <2>1, <2>2
<1>8. (off + n) % Units = 0 \/ off + n = volume.size
  <2>1. n = Units => (off + n) % Units = 0
    <3> DEFINE q == off \div Units
    <3>1. q \in Int /\ off = Units * q
      <4>1. off \in Int
        OBVIOUS
      <4>2. off \div Units \in Int /\ off = Units * (off \div Units) + (off % Units)
        BY <1>1, <4>1, IntDivMod
      <4>3. QED BY <1>1, <4>2
    <3> HIDE DEF q
    <3> DEFINE x == off + Units
    <3>2. x = Units * (q + 1) + 0 /\ x \in Int /\ 0 \in 0 .. Units - 1 /\ q + 1 \in Int
      BY <1>1, <3>1
    <3> HIDE DEF x
    <3>3. x % Units = 0
      BY <1>1, <3>2, IntQuotientIsUnique
    <3>4. QED BY <3>3 DEF x
  <2>2. QED BY <2>1
<1>9. off + n = volume.size => Whole \/ CutShort
  <2>1. off + n = volume.size => off < volume.size /\ volume.size <= off + Units
    BY <1>1
  <2>2. QED BY <2>1, LastPortion
<1>10. off + n \in 0 .. volume.size
  BY <1>1
<1>11. Copied(m \o new, off + n)
  BY <1>6, <1>7, <1>8, <1>9, <1>10 DEF Copied
<1>12. QED BY <1>3, <1>11 DEF new

(* A file of no byte needs no cluster.                                      *)
LEMMA NothingNeeded ==
  ASSUME IsVolume(volume), HasClusters, 0 >= Len(volume.chain) \/ volume.size = 0
  PROVE  Whole \/ CutShort
<1>1. /\ ClustUnits \in Nat \ {0} /\ volume.chain \in Seq(Clusters)
      /\ Len(volume.chain) \in Nat /\ Len(volume.chain) <= Needed(volume)
  BY ClustUnitsNat, ChainTyped
<1>2. volume.size = 0
  <2>1. 0 >= Len(volume.chain) => volume.chain = <<>>
    BY <1>1
  <2>2. QED BY <2>1 DEF HasClusters
<1>3. Needed(volume) = 0
  <2> DEFINE y == ClustUnits - 1
             x == volume.size + ClustUnits - 1
  <2>1. x = ClustUnits * 0 + y /\ y \in 0 .. ClustUnits - 1 /\ x \in Int
    BY <1>1, <1>2
  <2> HIDE DEF x, y
  <2>2. x \div ClustUnits = 0
    BY <1>1, <2>1, IntQuotientIsUnique
  <2>3. QED BY <2>2 DEF x, Needed
<1>4. QED BY <1>1, <1>3 DEF Whole

LEMMA NothingCopied ==
  ASSUME IsVolume(volume), HasClusters
  PROVE  Copied(<<>>, 0)
<1>1. volume.size \in Nat /\ Units \in Nat \ {0}
  BY ChainTyped, Sizes
<1>2. IsSeq(<<>>)
  <2>1. <<>> \in Seq({})
    OBVIOUS
  <2>2. QED BY <2>1 DEF IsSeq
<1>3. 0 = volume.size => Whole \/ CutShort
  BY NothingNeeded
<1>4. 0 % Units = 0 /\ 0 \in 0 .. volume.size /\ Len(<<>>) = 0
  BY <1>1
<1>5. QED BY <1>2, <1>3, <1>4 DEF Copied

(* The cursor's sector is none of those that the library changes unseen.    *)
LEMMA EntryUnder ==
  ASSUME NEW r, Clean(r), IsVolume(volume), NEW n \in RootEntries(volume), DirAt(r, n),
         r.sect = r.dir.sect
  PROVE  Ent(r) = Entry(volume, n)
<1> DEFINE s == n \div DirEnts
           k == s \div SectPerClust
           x == s % SectPerClust
           c == volume.root[k + 1]
<1>1. c \in Clusters /\ x \in 0 .. SectPerClust - 1
  BY EntrySplit
<1>2. r.dir.sect = clust_to_sect(c) + x /\ r.dir.idx = n % DirEnts
  BY DEF DirAt
<1>3. Entry(volume, n) = volume.disk[clust_to_sect(c) + x].v[n % DirEnts]
  BY DEF Entry
<1> HIDE DEF c, x
<1>4. r.sect \notin {0, InfoSect}
  <2>1. (c - 2) * SectPerClust \in Nat
    BY <1>1, Sizes DEF Clusters
  <2> DEFINE y == (c - 2) * SectPerClust
  <2>2. y \in Nat /\ r.sect = y + DataSect + x
    BY <1>2, <2>1 DEF clust_to_sect
  <2> HIDE DEF y
  <2>3. QED BY <1>1, <2>2, Sizes DEF DataSect, InfoSect
<1>5. QED BY <1>2, <1>3, <1>4 DEF Clean, Ent, disk

(* The handle that open fills in.                                           *)
LEMMA FoundGood ==
  ASSUME IsVolume(volume), HasClusters, NEW r, Shape(r), r.err = "NONE", Clean(r),
         r.sect = r.dir.sect, NEW n \in RootEntries(volume), DirAt(r, n), Named(volume, n)
  PROVE  LET t == Found(r)
         IN  /\ Shape(t) /\ t.err \in {"NONE", "POLLING"}
             /\ volume.bad = {} => t.err = "NONE"
             /\ t.err = "NONE" =>
                  Clean(t) /\ t.next = "read" /\ Settled(t) /\ t.f.off = 0
<1> DEFINE e == Entry(volume, n)
           h == [dsect |-> r.dir.sect, sclust |-> e.clust, clust |-> e.clust, sect |-> -1,
                 off |-> 0, size |-> e.size, acc |-> "no", buf |-> -1]
           u == [r EXCEPT !.f = h, !.off = 0, !.ssect = -1, !.next = "read"]
           t == MoveTo(u)
<1>1. Ent(r) = e
  BY EntryUnder
<1>2. Found(r) = t
  BY <1>1 DEF Found
<1>3. e.size = volume.size /\ (volume.chain # <<>> => e.clust = volume.chain[1])
  BY DEF IsVolume
<1>4. /\ h.clust = e.clust /\ h.size = e.size /\ h.buf = -1
      /\ DOMAIN h = {"dsect", "sclust", "clust", "sect", "off", "size", "acc", "buf"}
  OBVIOUS
<1> HIDE DEF e, h
<1>5. /\ Shape(u) /\ u.err = "NONE" /\ u.f = h /\ u.off = 0 /\ u.ssect = -1
      /\ u.next = "read" /\ u.sect = r.sect /\ u.buf = r.buf
  BY <1>4 DEF Shape
<1> HIDE DEF u
<1>6. /\ Shape(t) /\ t.err \in {"NONE", "POLLING"} /\ (volume.bad = {} => t.err = "NONE")
      /\ t.next = "read" /\ t.sect = r.sect /\ t.buf = r.buf
      /\ t.err = "NONE" =>
           /\ t.f.off = 0 /\ t.f.clust = e.clust /\ t.f.size = volume.size
           /\ t.f.sect = clust_to_sect(t.f.clust) + ((0 \div Units) % SectPerClust)
           /\ t.f.buf = t.f.sect
  BY <1>3, <1>4, <1>5, MoveToEnds
<1> HIDE DEF t
<1>7. Clean(t)
  BY <1>6 DEF Clean
<1>8. 0 \div ClustUnits = 0 /\ 0 \in Nat
  BY ClustUnitsNat
<1>9. ASSUME t.err = "NONE"
      PROVE  AtLink(t, 0)
  <2>1. volume.chain \in Seq(Clusters) /\ Len(volume.chain) \in Nat
    BY ChainTyped
  <2>2. 0 < Len(volume.chain) => t.f.clust = volume.chain[0 + 1]
    BY <1>3, <1>6, <1>9, <2>1
  <2>3. QED BY <2>2, NothingNeeded DEF AtLink
<1>10. t.err = "NONE" => Settled(t)
  BY <1>6, <1>8, <1>9 DEF Settled, Opened
<1>11. QED BY <1>2, <1>6, <1>7, <1>10

-----------------------------------------------------------------------------
(* The steps, one stage after the other.                                    *)

Ends == {"failed probe", "failed mount", "no file", "failed read"}

LEMMA GoesGood ==
  ASSUME NEW r, NEW failed \in Ends, Goes(r, failed),
         r.err = "NONE" => Good(r.next, r, memory)
  PROVE  Good(stage', fat', memory')
<1>1. fat' = r /\ memory' = memory
  BY DEF Goes
<1>2. CASE r.err = "NONE"
  <2>1. stage' = r.next
    BY <1>2 DEF Goes
  <2>2. QED BY <1>1, <1>2, <2>1
<1>3. CASE r.err # "NONE"
  <2>1. stage' \in Ends \cup {"polling"}
    BY <1>3 DEF Goes
  <2>2. stage' \notin Early \cup Late \cup {"close", "kernel"}
    BY <2>1 DEF Ends, Early, Late
  <2>3. QED BY <2>2 DEF Good, Early, Late
<1>4. QED BY <1>2, <1>3

LEMMA SearchGoesOn ==
  ASSUME NEW r, r.err = "NONE", Clean(r), r.next = "search",
         NEW n \in RootEntries(volume), DirAt(r, n)
  PROVE  Good("search", r, <<>>)
  BY DEF Good, Early, Late

LEMMA ReadIsNext ==
  ASSUME NEW r, r.err = "NONE", Clean(r), Settled(r), r.f.off = 0,
         IsVolume(volume), HasClusters
  PROVE  Good("read", r, <<>>)
  BY NothingCopied DEF Good, Early, Late

\* The cursor on the entry after it, the search going on.
LEMMA SkipGood ==
  ASSUME IsVolume(volume), NEW r, Shape(r), r.err = "NONE", Clean(r),
         NEW n \in RootEntries(volume), DirAt(r, n), r.next = "search"
  PROVE  LET t == dir_next(r)
         IN  /\ Shape(t)
             /\ t.err = "NONE" => Good(t.next, t, <<>>)
<1> DEFINE t == dir_next(r)
<1>1. /\ Shape(t) /\ KeptNext(r, t)
      /\ t.err = "NONE" => Clean(t) /\ n + 1 \in RootEntries(volume) /\ DirAt(t, n + 1)
  BY DirNext
<1> HIDE DEF t
<1>2. t.next = "search"
  BY <1>1 DEF KeptNext
<1>3. t.err = "NONE" => Good("search", t, <<>>)
  BY <1>1, <1>2, SearchGoesOn
<1>4. QED BY <1>1, <1>2, <1>3 DEF t

LEMMA OpenGood ==
  ASSUME IsVolume(volume), HasClusters, NEW r, Shape(r), r.err = "NONE", Clean(r),
         r.sect = r.dir.sect, NEW n \in RootEntries(volume), DirAt(r, n), Named(volume, n)
  PROVE  LET t == Found(r)
         IN  /\ Shape(t)
             /\ t.err = "NONE" => Good(t.next, t, <<>>)
<1> DEFINE t == Found(r)
<1>1. /\ Shape(t)
      /\ t.err = "NONE" => Clean(t) /\ t.next = "read" /\ Settled(t) /\ t.f.off = 0
  BY FoundGood
<1> HIDE DEF t
<1>2. t.err = "NONE" => Good("read", t, <<>>)
  BY <1>1, ReadIsNext
<1>3. QED BY <1>1, <1>2 DEF t

(* A turn of dir_search, on the entry that the cache has by then.           *)
LEMMA SearchCases ==
  ASSUME NEW r
  PROVE  LET w == update_buf(r, r.dir.sect)
         IN  dir_search(r) =
          IF w.err = "NONE"
          THEN CASE Ent(w).k = "last" -> Fails(w, "EOF")
                 [] Ent(w).k = "free" -> dir_next(w)
                 [] Ent(w).k = "sfn"  -> IF Ent(w).name = "kernel" THEN Found(w) ELSE dir_next(w)
                 [] Ent(w).k = "lfn"  ->
                      IF ~Ent(w).head \/ Ent(w).seq > 20 THEN Fails(w, "BROKEN")
                      ELSE [w EXCEPT !.crc = Ent(w).crc, !.pieces = <<>>, !.cnt = Ent(w).seq,
                                     !.next = "fragments"]
          ELSE w
<1> DEFINE w == update_buf(r, r.dir.sect)
<1> HIDE DEF w
<1>1. dir_search(r) = Then(w, LAMBDA x :
              CASE Ent(x).k = "last" -> Fails(x, "EOF")
                [] Ent(x).k = "free" -> dir_next(x)
                [] Ent(x).k = "sfn"  -> IF Ent(x).name = "kernel" THEN Found(x) ELSE dir_next(x)
                [] Ent(x).k = "lfn"  ->
                     IF ~Ent(x).head \/ Ent(x).seq > 20 THEN Fails(x, "BROKEN")
                     ELSE [x EXCEPT !.crc = Ent(x).crc, !.pieces = <<>>, !.cnt = Ent(x).seq,
                                    !.next = "fragments"])
  BY Zenon DEF dir_search, w
<1>2. dir_search(r) =
          IF w.err = "NONE"
          THEN CASE Ent(w).k = "last" -> Fails(w, "EOF")
                 [] Ent(w).k = "free" -> dir_next(w)
                 [] Ent(w).k = "sfn"  -> IF Ent(w).name = "kernel" THEN Found(w) ELSE dir_next(w)
                 [] Ent(w).k = "lfn"  ->
                      IF ~Ent(w).head \/ Ent(w).seq > 20 THEN Fails(w, "BROKEN")
                      ELSE [w EXCEPT !.crc = Ent(w).crc, !.pieces = <<>>, !.cnt = Ent(w).seq,
                                     !.next = "fragments"]
          ELSE w
  BY <1>1, Zenon DEF Then
<1>3. QED BY <1>2, Zenon DEF w

LEMMA SearchGood ==
  ASSUME IsVolume(volume), HasClusters, NEW r, Shape(r), r.err = "NONE", Clean(r),
         NEW n \in RootEntries(volume), DirAt(r, n), r.next = "search"
  PROVE  LET t == dir_search(r)
         IN  /\ Shape(t)
             /\ t.err = "NONE" => Good(t.next, t, <<>>)
<1> DEFINE w == update_buf(r, r.dir.sect)
           e == Entry(volume, n)
           p == [w EXCEPT !.crc = e.crc, !.pieces = <<>>, !.cnt = e.seq, !.next = "fragments"]
           t == dir_search(r)
<1>1. /\ Shape(w) /\ Kept(r, w) /\ w.err \in {"NONE", "POLLING"}
      /\ w.err = "NONE" => w.sect = r.dir.sect /\ Clean(w)
  BY UpdateBuf
<1>2. t = IF w.err = "NONE"
          THEN CASE Ent(w).k = "last" -> Fails(w, "EOF")
                 [] Ent(w).k = "free" -> dir_next(w)
                 [] Ent(w).k = "sfn"  -> IF Ent(w).name = "kernel" THEN Found(w) ELSE dir_next(w)
                 [] Ent(w).k = "lfn"  ->
                      IF ~Ent(w).head \/ Ent(w).seq > 20 THEN Fails(w, "BROKEN")
                      ELSE [w EXCEPT !.crc = Ent(w).crc, !.pieces = <<>>, !.cnt = Ent(w).seq,
                                     !.next = "fragments"]
          ELSE w
  BY SearchCases, Zenon
<1> HIDE DEF w, t
<1>3. w.dir = r.dir /\ w.next = "search" /\ DirAt(w, n)
  BY <1>1 DEF Kept, DirAt
<1>4. CASE w.err # "NONE"
  BY <1>1, <1>2, <1>4 DEF t
<1>5. CASE w.err = "NONE"
  <2>1. Ent(w) = e
    BY <1>1, <1>3, <1>5, EntryUnder
  <2>2. e.k \in {"last", "free", "sfn", "lfn"} /\ (e.k = "lfn" => e.seq \in Nat)
    BY DEF IsVolume
  <2> HIDE DEF e
  <2>3. Shape(dir_next(w)) /\ (dir_next(w).err = "NONE" => Good(dir_next(w).next, dir_next(w), <<>>))
    BY <1>1, <1>3, <1>5, SkipGood
  <2>4. CASE e.k = "last"
    <3>1. t = Fails(w, "EOF")
      BY <1>2, <1>5, <2>1, <2>4
    <3>2. Shape(Fails(w, "EOF")) /\ Fails(w, "EOF").err = "EOF"
      BY <1>1, KeptByFailing
    <3>3. QED BY <3>1, <3>2 DEF t
  <2>5. CASE e.k = "free"
    <3>1. t = dir_next(w)
      BY <1>2, <1>5, <2>1, <2>5
    <3>2. QED BY <2>3, <3>1 DEF t
  <2>6. CASE e.k = "sfn" /\ e.name = "kernel"
    <3>1. t = Found(w)
      BY <1>2, <1>5, <2>1, <2>6
    <3>2. Named(volume, n)
      BY <2>6 DEF Named, e
    <3>3. Shape(Found(w)) /\ (Found(w).err = "NONE" => Good(Found(w).next, Found(w), <<>>))
      BY <1>1, <1>3, <1>5, <3>2, OpenGood
    <3>4. QED BY <3>1, <3>3 DEF t
  <2>7. CASE e.k = "sfn" /\ e.name # "kernel"
    <3>1. t = dir_next(w)
      BY <1>2, <1>5, <2>1, <2>7
    <3>2. QED BY <2>3, <3>1 DEF t
  <2>8. CASE e.k = "lfn" /\ (~e.head \/ e.seq > 20)
    <3>1. t = Fails(w, "BROKEN")
      BY <1>2, <1>5, <2>1, <2>8
    <3>2. Shape(Fails(w, "BROKEN")) /\ Fails(w, "BROKEN").err = "BROKEN"
      BY <1>1, KeptByFailing
    <3>3. QED BY <3>1, <3>2 DEF t
  <2>9. CASE e.k = "lfn" /\ ~(~e.head \/ e.seq > 20)
    <3>1. t = p
      BY <1>2, <1>5, <2>1, <2>9
    <3>2. /\ Shape(p) /\ p.err = w.err /\ p.sect = w.sect /\ p.buf = w.buf /\ p.dir = w.dir
          /\ p.crc = e.crc /\ p.pieces = <<>> /\ p.cnt = e.seq /\ p.next = "fragments"
      BY <1>1 DEF Shape
    <3> HIDE DEF p
    <3>3. Clean(p) /\ DirAt(p, n) /\ p.sect = p.dir.sect /\ p.cnt \in Nat
      BY <1>1, <1>3, <1>5, <2>2, <2>9, <3>2 DEF Clean, DirAt
    <3>4. Collected(p)
      <4>1. <<>> \in Seq({}) /\ Len(<<>>) = 0
        OBVIOUS
      <4>2. QED BY <3>2, <4>1 DEF Collected, IsSeq
    <3>5. Good("fragments", p, <<>>)
      BY <1>5, <3>2, <3>3, <3>4 DEF Good, Early, Late
    <3>6. QED BY <3>1, <3>2, <3>5 DEF t
  <2>10. QED BY <2>2, <2>4, <2>5, <2>6, <2>7, <2>8, <2>9
<1>6. QED BY <1>4, <1>5

LEMMA FragmentGood ==
  ASSUME IsVolume(volume), HasClusters, NEW r, Shape(r), Good("fragments", r, <<>>), r.cnt > 0
  PROVE  LET t == Fragment(r)
         IN  /\ Shape(t)
             /\ t.err = "NONE" => Good(t.next, t, <<>>)
<1>1. /\ r.err = "NONE" /\ Clean(r) /\ r.next = "fragments" /\ r.cnt \in Nat /\ Collected(r)
      /\ r.sect = r.dir.sect
  BY DEF Good, Early, Late
<1>2. PICK n \in RootEntries(volume) : DirAt(r, n)
  BY DEF Good
<1> DEFINE e == Ent(r)
           q == [r EXCEPT !.pieces = <<e.frag>> \o @, !.cnt = @ - 1]
           w == dir_next(q)
           x == update_buf(w, w.dir.sect)
           t == Fragment(r)
<1>3. e = Entry(volume, n)
  BY <1>1, <1>2, EntryUnder
<1>4. t = IF e.k # "lfn" \/ e.crc # r.crc THEN Fails(r, "BROKEN")
          ELSE IF w.err = "NONE" THEN x ELSE w
  BY DEF Fragment, Then
<1> HIDE DEF e, t
<1>5. CASE e.k # "lfn" \/ e.crc # r.crc
  <2>1. t = Fails(r, "BROKEN")
    BY <1>4, <1>5
  <2>2. Shape(Fails(r, "BROKEN")) /\ Fails(r, "BROKEN").err = "BROKEN"
    BY KeptByFailing
  <2>3. QED BY <2>1, <2>2 DEF t
<1>6. CASE ~(e.k # "lfn" \/ e.crc # r.crc)
  <2>1. t = IF w.err = "NONE" THEN x ELSE w
    BY <1>4, <1>6
  <2>2. /\ Shape(q) /\ q.err = "NONE" /\ q.sect = r.sect /\ q.buf = r.buf /\ q.dir = r.dir
        /\ q.next = "fragments" /\ q.crc = r.crc /\ q.cnt = r.cnt - 1
        /\ q.pieces = <<e.frag>> \o r.pieces
    BY <1>1 DEF Shape
  <2> HIDE DEF q
  <2>3. Clean(q) /\ DirAt(q, n) /\ q.cnt \in Nat
    BY <1>1, <1>2, <2>2 DEF Clean, DirAt
  <2>4. Collected(q)
    <3>1. IsSeq(<<e.frag>>) /\ Len(<<e.frag>>) = 1 /\ <<e.frag>>[1] = e.frag
      <4>1. <<e.frag>> \in Seq({e.frag})
        OBVIOUS
      <4>2. QED BY <4>1 DEF IsSeq
    <3> DEFINE one == <<e.frag>>
    <3>2. IsSeq(one) /\ Len(one) = 1 /\ one[1] = e.frag /\ q.pieces = one \o r.pieces
      BY <2>2, <3>1
    <3> HIDE DEF one
    <3>3. IsSeq(r.pieces)
      BY <1>1 DEF Collected
    <3>4. /\ IsSeq(q.pieces) /\ Len(q.pieces) = 1 + Len(r.pieces) /\ Len(r.pieces) \in Nat
          /\ \A i \in 1 .. 1 + Len(r.pieces) :
               q.pieces[i] = IF i <= 1 THEN one[i] ELSE r.pieces[i - 1]
      <4> DEFINE p == r.pieces
      <4>1. IsSeq(p) /\ IsSeq(one)
        BY <3>2, <3>3
      <4> HIDE DEF p
      <4>2. /\ IsSeq(one \o p) /\ Len(one \o p) = Len(one) + Len(p) /\ Len(p) \in Nat
            /\ \A i \in 1 .. Len(one) + Len(p) :
                 (one \o p)[i] = IF i <= Len(one) THEN one[i] ELSE p[i - Len(one)]
        BY <4>1, Appended
      <4>3. QED BY <3>2, <4>2 DEF p
    <3>5. ASSUME NEW i \in 1 .. Len(q.pieces)
          PROVE  \E m \in RootEntries(volume) : /\ Entry(volume, m).k = "lfn"
                                                /\ Entry(volume, m).frag = q.pieces[i]
                                                /\ Entry(volume, m).crc = q.crc
      <4>1. CASE i = 1
        <5>1. q.pieces[i] = e.frag
          BY <3>2, <3>4, <4>1
        <5>2. QED BY <1>3, <1>6, <2>2, <5>1
      <4>2. CASE i # 1
        <5>1. i - 1 \in 1 .. Len(r.pieces) /\ q.pieces[i] = r.pieces[i - 1]
          BY <3>4, <4>2
        <5>2. QED BY <1>1, <2>2, <5>1 DEF Collected
      <4>3. QED BY <4>1, <4>2
    <3>6. QED BY <3>4, <3>5 DEF Collected
  <2>5. /\ Shape(w) /\ KeptNext(q, w)
        /\ w.err = "NONE" => Clean(w) /\ n + 1 \in RootEntries(volume) /\ DirAt(w, n + 1)
    BY <2>2, <2>3, DirNext
  <2> HIDE DEF w
  <2>6. CASE w.err # "NONE"
    BY <2>1, <2>5, <2>6 DEF t
  <2>7. CASE w.err = "NONE"
    <3>1. /\ Shape(x) /\ Kept(w, x) /\ x.err \in {"NONE", "POLLING"}
          /\ x.err = "NONE" => x.sect = w.dir.sect /\ Clean(x)
      BY <2>5, <2>7, UpdateBuf
    <3>2. t = x
      BY <2>1, <2>7
    <3> HIDE DEF x
    <3>3. /\ x.dir = w.dir /\ x.next = "fragments" /\ x.crc = q.crc /\ x.cnt = q.cnt
          /\ x.pieces = q.pieces
      BY <2>2, <2>5, <3>1 DEF Kept, KeptName, KeptNext
    <3>4. Collected(x) /\ DirAt(x, n + 1) /\ x.cnt \in Nat
      BY <2>3, <2>4, <2>5, <2>7, <3>3 DEF Collected, DirAt
    <3>5. x.err = "NONE" => Good("fragments", x, <<>>)
      BY <2>5, <2>7, <3>1, <3>3, <3>4 DEF Good, Early, Late
    <3>6. QED BY <3>1, <3>2, <3>3, <3>5 DEF t
  <2>8. QED BY <2>6, <2>7
<1>7. QED BY <1>5, <1>6

LEMMA LongNameGood ==
  ASSUME IsVolume(volume), HasClusters, NEW r, Shape(r), Good("fragments", r, <<>>)
  PROVE  LET t == LongName(r)
         IN  /\ Shape(t)
             /\ t.err = "NONE" => Good(t.next, t, <<>>)
<1>1. /\ r.err = "NONE" /\ Clean(r) /\ Collected(r) /\ r.sect = r.dir.sect
  BY DEF Good, Early, Late
<1>2. PICK n \in RootEntries(volume) : DirAt(r, n)
  BY DEF Good
<1> DEFINE e == Ent(r)
           q == [r EXCEPT !.next = "search"]
           t == LongName(r)
<1>3. e = Entry(volume, n)
  BY <1>1, <1>2, EntryUnder
<1>4. t = CASE e.k # "sfn" -> Fails(r, "BROKEN")
            [] e.k = "sfn" /\ e.name # r.crc -> Fails(r, "BROKEN")
            [] e.k = "sfn" /\ e.name = r.crc ->
                 IF r.pieces = <<"kernel">> THEN Found(r) ELSE dir_next(q)
  BY Zenon DEF LongName
<1> HIDE DEF e, t
<1>5. CASE e.k # "sfn" \/ e.name # r.crc
  <2>1. t = Fails(r, "BROKEN")
    BY <1>4, <1>5
  <2>2. Shape(Fails(r, "BROKEN")) /\ Fails(r, "BROKEN").err = "BROKEN"
    BY KeptByFailing
  <2>3. QED BY <2>1, <2>2 DEF t
<1>6. CASE e.k = "sfn" /\ e.name = r.crc /\ r.pieces = <<"kernel">>
  <2>1. t = Found(r)
    BY <1>4, <1>6
  <2>2. PICK m \in RootEntries(volume) : /\ Entry(volume, m).k = "lfn"
                                         /\ Entry(volume, m).frag = "kernel"
                                         /\ Entry(volume, m).crc = r.crc
    <3>1. 1 \in 1 .. Len(r.pieces) /\ r.pieces[1] = "kernel"
      BY <1>6
    <3>2. QED BY <1>1, <3>1 DEF Collected
  <2>3. Named(volume, n)
    BY <1>3, <1>6, <2>2 DEF Named
  <2>4. Shape(Found(r)) /\ (Found(r).err = "NONE" => Good(Found(r).next, Found(r), <<>>))
    BY <1>1, <1>2, <2>3, OpenGood
  <2>5. QED BY <2>1, <2>4 DEF t
<1>7. CASE e.k = "sfn" /\ e.name = r.crc /\ r.pieces # <<"kernel">>
  <2>1. t = dir_next(q)
    BY <1>4, <1>7
  <2>2. /\ Shape(q) /\ q.err = "NONE" /\ q.sect = r.sect /\ q.buf = r.buf /\ q.dir = r.dir
        /\ q.next = "search"
    BY <1>1 DEF Shape
  <2> HIDE DEF q
  <2>3. Clean(q) /\ DirAt(q, n)
    BY <1>1, <1>2, <2>2 DEF Clean, DirAt
  <2>4. Shape(dir_next(q)) /\ (dir_next(q).err = "NONE" => Good(dir_next(q).next, dir_next(q), <<>>))
    BY <2>2, <2>3, SkipGood
  <2>5. QED BY <2>1, <2>4 DEF t
<1>8. QED BY <1>5, <1>6, <1>7

(* A turn of the read.                                                      *)
LEMMA CopyGood ==
  ASSUME IsVolume(volume), NEW r, NEW m, Shape(r), Good("copy", r, m),
         r.len > 0, r.f.off < r.f.size
  PROVE  LET t == CopyTurn(r)
         IN  /\ Shape(t)
             /\ t.err = "NONE" => Good(t.next, t, m)
<1> DEFINE t == CopyTurn(r)
           n == Portion(r)
           off == r.f.off
           new == [i \in 1 .. n |-> <<r.f.buf, 0 + i - 1>>]
<1>1. /\ r.err = "NONE" /\ Clean(r) /\ Settled(r) /\ Reading(r, m, off)
      /\ r.got = <<>> \/ r.len = 0 \/ off = volume.size
  BY DEF Good, Early, Late
<1>2. /\ volume.size \in Nat /\ Units \in Nat \ {0} /\ ClustUnits \in Nat \ {0}
  BY ChainTyped, Sizes, ClustUnitsNat
<1>3. /\ r.f.size = volume.size /\ r.f.buf = r.f.sect /\ off \in Nat
      /\ AtLink(r, off \div ClustUnits)
      /\ r.f.sect = clust_to_sect(r.f.clust) + ((off \div Units) % SectPerClust)
  BY <1>1 DEF Settled, Opened
<1>4. r.got = <<>>
  <2>1. r.len # 0 /\ off # volume.size
    BY <1>1, <1>2, <1>3 DEF Reading
  <2>2. QED BY <1>1, <2>1
<1>5. IsSeq(m) /\ Copied(m, off) /\ r.len = Units
  <2>1. IsSeq(m) /\ IsSeq(r.got) /\ Copied(m \o r.got, off) /\ r.len \in Nat
        /\ r.len + Len(r.got) = Units
    BY <1>1 DEF Reading
  <2>2. m \o r.got = m
    BY <1>4, <2>1, Appended
  <2>3. Len(r.got) = 0
    BY <1>4
  <2>4. QED BY <2>1, <2>2, <2>3
<1>6. off % Units = 0
  BY <1>1, <1>2, <1>3, <1>5 DEF Copied
<1>7. /\ n \in 1 .. Units /\ off + n <= volume.size
      /\ n = Units \/ off + n = volume.size
      /\ Shape(t) /\ t.err = r.err /\ t.sect = r.sect /\ t.buf = r.buf
      /\ t.got = <<>> \o new
      /\ t.len = Units - n /\ t.off = off + n /\ t.ssect = r.f.sect
      /\ t.next = "follow" /\ t.f = r.f
      /\ t.links = (off + n) \div ClustUnits - off \div ClustUnits
      /\ t.links \in 0 .. (off + n) \div ClustUnits
  BY <1>2, <1>3, <1>4, <1>5, <1>6, CopyTurnParts
<1>8. IsSeq(new) /\ Len(new) = n /\ Copied(m \o new, off + n)
  <2> DEFINE b == r.f.buf
  <2>1. /\ off \div ClustUnits < Len(volume.chain) =>
             b = clust_to_sect(volume.chain[off \div ClustUnits + 1]) +
                   ((off \div Units) % SectPerClust)
        /\ off \div ClustUnits >= Len(volume.chain) => Whole \/ CutShort
    BY <1>3 DEF AtLink
  <2> HIDE DEF t, n, off, b
  <2>2. QED BY <1>3, <1>5, <1>6, <1>7, <2>1, CopiedMore DEF b
<1> HIDE DEF t, n, new
<1>9. t.got = new
  <2>1. IsSeq(<<>>)
    <3>1. <<>> \in Seq({})
      OBVIOUS
    <3>2. QED BY <3>1 DEF IsSeq
  <2>2. <<>> \o new = new
    BY <1>8, <2>1, Appended
  <2>3. QED BY <1>7, <2>2
<1>10. Reading(t, m, t.off) /\ (t.len = 0 \/ t.off = volume.size)
  BY <1>2, <1>5, <1>7, <1>8, <1>9 DEF Reading
<1>11. AtLink(t, t.off \div ClustUnits - t.links)
  <2> DEFINE x == (off + n) \div ClustUnits
             y == off \div ClustUnits
  <2>1. x \in Int /\ y \in Int
    <3>1. off \in Int /\ off + n \in Int
      BY <1>2, <1>3, <1>7
    <3>2. QED BY <1>2, <3>1, IntDivMod
  <2>2. t.off \div ClustUnits - t.links = x - (x - y)
    BY <1>7
  <2> HIDE DEF x, y
  <2>3. t.off \div ClustUnits - t.links = y
    BY <2>1, <2>2
  <2>4. AtLink(t, y)
    BY <1>3, <1>7 DEF AtLink, y
  <2>5. QED BY <2>3, <2>4
<1>12. Seeking(t, m)
  BY <1>3, <1>7, <1>10, <1>11 DEF Seeking, Opened
<1>13. Clean(t)
  BY <1>1, <1>7 DEF Clean
<1>14. Good("follow", t, m)
  BY <1>1, <1>7, <1>12, <1>13 DEF Good, Early, Late
<1>15. QED BY <1>7, <1>14 DEF t

(* The end of the seek.                                                     *)
LEMMA ArriveGood ==
  ASSUME NEW r, NEW m, Shape(r), Good("follow", r, m), r.links = 0
  PROVE  LET t == MoveTo([r EXCEPT !.next = "copy"])
         IN  /\ Shape(t)
             /\ t.err = "NONE" => Good(t.next, t, m)
<1> DEFINE q == [r EXCEPT !.next = "copy"]
           t == MoveTo(q)
<1>1. r.err = "NONE" /\ Clean(r) /\ Seeking(r, m)
  BY DEF Good, Early, Late
<1>2. /\ Shape(q) /\ q.err = "NONE" /\ q.sect = r.sect /\ q.buf = r.buf /\ q.next = "copy"
      /\ q.f = r.f /\ q.got = r.got /\ q.len = r.len /\ q.off = r.off /\ q.ssect = r.ssect
  BY <1>1 DEF Shape
<1> HIDE DEF q
<1>3. /\ r.f.size = volume.size /\ r.f.buf = r.ssect /\ Reading(r, m, r.off)
      /\ r.len = 0 \/ r.off = volume.size
      /\ AtLink(r, r.off \div ClustUnits - 0)
  BY <1>1 DEF Seeking, Opened
<1>4. r.off \in Nat /\ r.off \div ClustUnits \in Int
  <2>1. r.off \in 0 .. volume.size
    BY <1>3 DEF Reading, Copied
  <2>2. r.off \in Nat /\ r.off \in Int
    BY <2>1
  <2>3. QED BY <2>2, ClustUnitsNat, IntDivMod
<1>5. AtLink(r, r.off \div ClustUnits)
  <2> DEFINE k == r.off \div ClustUnits
  <2>1. k \in Int /\ AtLink(r, k - 0)
    BY <1>3, <1>4
  <2> HIDE DEF k
  <2>2. k - 0 = k
    BY <2>1
  <2>3. QED BY <2>1, <2>2 DEF k
<1>6. /\ Shape(t) /\ t.err \in {"NONE", "POLLING"} /\ t.got = r.got /\ t.len = r.len
      /\ t.next = "copy" /\ t.sect = r.sect /\ t.buf = r.buf
      /\ t.err = "NONE" =>
           /\ t.f.off = r.off /\ t.f.clust = r.f.clust /\ t.f.size = r.f.size
           /\ t.f.sect = clust_to_sect(r.f.clust) + ((r.off \div Units) % SectPerClust)
           /\ t.f.buf = t.f.sect
  BY <1>2, <1>3, MoveToEnds
<1> HIDE DEF t
<1>7. ASSUME t.err = "NONE"
      PROVE  Good("copy", t, m)
  <2>1. Clean(t)
    BY <1>1, <1>6 DEF Clean
  <2>2. AtLink(t, t.f.off \div ClustUnits)
    BY <1>5, <1>6, <1>7 DEF AtLink
  <2>3. Settled(t)
    BY <1>3, <1>4, <1>6, <1>7, <2>2 DEF Settled, Opened
  <2>4. Reading(t, m, t.f.off)
    BY <1>3, <1>6, <1>7 DEF Reading
  <2>5. t.len = 0 \/ t.f.off = volume.size
    BY <1>3, <1>6, <1>7
  <2>6. QED BY <1>7, <2>1, <2>3, <2>4, <2>5 DEF Good, Early, Late
<1>8. QED BY <1>6, <1>7 DEF t, q

(* A turn of the seek that follows a link, or ends at the chain's end.      *)
LEMMA ReadEnds ==
  ASSUME IsVolume(volume), NEW r, Reading(r, memory, r.off), r.len = 0 \/ r.off = volume.size,
         NEW t, KeptRead(r, t), t.err # "NONE", Returns(t)
  PROVE  Good(stage', fat', memory')
<1>1. /\ t.got = r.got /\ memory' = memory \o r.got
      /\ stage' = CASE Len(r.got) < Units -> "close"
                    [] Len(r.got) = Units /\ t.err # "NONE" -> "failed read"
                    [] OTHER -> "read"
  BY DEF Returns, KeptRead
<1>2. /\ Copied(memory \o r.got, r.off) /\ r.len \in Nat /\ r.len + Len(r.got) = Units
      /\ IsSeq(r.got)
  BY DEF Reading
<1>3. Len(r.got) \in Nat /\ Units \in Nat
  BY <1>2, Appended, Sizes
<1>4. CASE r.len > 0
  <2>1. r.off = volume.size
    BY <1>4
  <2>2. stage' = "close"
    <3>1. Len(r.got) < Units /\ Len(r.got) # Units
      BY <1>2, <1>3, <1>4
    <3>2. QED BY <1>1, <3>1, Zenon
  <2>3. Copied(memory', volume.size)
    BY <1>1, <1>2, <2>1
  <2>4. QED BY <2>2, <2>3 DEF Good, Early, Late
<1>5. CASE ~(r.len > 0)
  <2>1. Len(r.got) = Units
    BY <1>2, <1>3, <1>5
  <2>2. stage' = "failed read"
    <3>1. ~(Len(r.got) < Units)
      BY <1>3, <2>1
    <3>2. QED BY <1>1, <2>1, <3>1, Zenon
  <2>3. QED BY <2>2 DEF Good, Early, Late
<1>6. QED BY <1>4, <1>5

LEMMA ReturnGood ==
  ASSUME IsVolume(volume), NEW r, Good("copy", r, memory), ~(r.len > 0 /\ r.f.off < r.f.size),
         Returns(r)
  PROVE  Good(stage', fat', memory')
<1>1. /\ r.err = "NONE" /\ Clean(r) /\ Settled(r) /\ Reading(r, memory, r.f.off)
  BY DEF Good, Early, Late
<1>2. /\ fat' = r /\ memory' = memory \o r.got
      /\ stage' = CASE Len(r.got) < Units -> "close"
                    [] Len(r.got) = Units /\ r.err # "NONE" -> "failed read"
                    [] OTHER -> "read"
  BY DEF Returns
<1>3. /\ Copied(memory \o r.got, r.f.off) /\ r.len \in Nat /\ r.len + Len(r.got) = Units
      /\ IsSeq(r.got)
  BY <1>1 DEF Reading
<1>4. Len(r.got) \in Nat /\ Units \in Nat /\ volume.size \in Nat
  BY <1>3, Appended, Sizes, ChainTyped
<1>5. r.f.size = volume.size /\ r.f.off \in 0 .. volume.size
  BY <1>1, <1>3 DEF Settled, Opened, Copied
<1>6. CASE r.len > 0
  <2>1. r.f.off = volume.size
    BY <1>4, <1>5, <1>6
  <2>2. stage' = "close"
    <3>1. Len(r.got) < Units /\ Len(r.got) # Units
      BY <1>3, <1>4, <1>6
    <3>2. QED BY <1>2, <3>1, Zenon
  <2>3. Copied(memory', volume.size)
    BY <1>2, <1>3, <2>1
  <2>4. QED BY <2>2, <2>3 DEF Good, Early, Late
<1>7. CASE ~(r.len > 0)
  <2>1. Len(r.got) = Units
    BY <1>3, <1>4, <1>7
  <2>2. stage' = "read"
    BY <1>1, <1>2, <1>4, <2>1
  <2>3. Copied(memory', r.f.off)
    BY <1>2, <1>3
  <2>4. QED BY <1>1, <1>2, <2>2, <2>3 DEF Good, Early, Late
<1>8. QED BY <1>6, <1>7

LEMMA ReadGood ==
  ASSUME IsVolume(volume), NEW r, NEW m, Shape(r), Good("read", r, m)
  PROVE  LET t == fat_file_read(r, Units)
         IN  Shape(t) /\ Good("copy", t, m)
<1> DEFINE t == fat_file_read(r, Units)
<1>1. r.err = "NONE" /\ Clean(r) /\ Settled(r) /\ Copied(m, r.f.off)
  BY DEF Good, Early, Late
<1>2. /\ Shape(t) /\ t.err = r.err /\ t.sect = r.sect /\ t.buf = r.buf /\ t.got = <<>>
      /\ t.len = Units /\ t.f.off = r.f.off /\ t.f.clust = r.f.clust /\ t.f.sect = r.f.sect
      /\ t.f.buf = r.f.buf /\ t.f.size = r.f.size
  BY DEF Shape, fat_file_read
<1> HIDE DEF t
<1>3. Clean(t) /\ Settled(t)
  BY <1>1, <1>2 DEF Clean, Settled, Opened, AtLink
<1>4. IsSeq(m) /\ IsSeq(<<>>)
  <2>1. <<>> \in Seq({})
    OBVIOUS
  <2>2. QED BY <1>1, <2>1 DEF Copied, IsSeq
<1>5. m \o <<>> = m
  BY <1>4, Appended
<1>6. Len(<<>>) = 0 /\ Units \in Nat
  BY Sizes
<1>7. Reading(t, m, t.f.off)
  BY <1>1, <1>2, <1>4, <1>5, <1>6 DEF Reading
<1>8. Good("copy", t, m)
  BY <1>1, <1>2, <1>3, <1>7 DEF Good, Early, Late
<1>9. QED BY <1>2, <1>8 DEF t

\* A link that is followed, and one that ends the chain.
LEMMA LinkFollowed ==
  ASSUME IsVolume(volume), NEW r, Shape(r), r.err = "NONE", Clean(r), NEW k \in Nat, AtLink(r, k),
         NEW w, w = get_fat(r, r.f.clust), w.err = "NONE"
  PROVE  /\ w.fl = "used" =>
              /\ k + 1 < Len(volume.chain) => w.val = volume.chain[k + 2]
              /\ k + 1 >= Len(volume.chain) => Whole \/ CutShort
         /\ w.fl = "last" => k + 1 >= Len(volume.chain) /\ (Whole \/ CutShort)
<1>1. /\ volume.chain \in Seq(Clusters) /\ Len(volume.chain) \in Nat
      /\ Needed(volume) \in Nat /\ Len(volume.chain) <= Needed(volume)
  BY ChainTyped
<1>2. CASE k >= Len(volume.chain)
  BY <1>1, <1>2 DEF AtLink
<1>3. CASE k < Len(volume.chain)
  <2> DEFINE c == r.f.clust
  <2>1. c = volume.chain[k + 1]
    BY <1>3 DEF AtLink
  <2>2. c \in Clusters /\ volume.chain # <<>>
    BY <1>1, <1>3, <2>1
  <2>3. k + 1 < Len(volume.chain) => Link(volume, c) = volume.chain[k + 2]
    <3>1. k + 1 < Len(volume.chain) =>
            /\ k + 1 \in 1 .. Len(volume.chain) - 1
            /\ k + 1 + 1 = k + 2
      BY <1>1
    <3>2. QED BY <2>1, <3>1 DEF IsVolume, Follows
  <2>4. k + 1 < Len(volume.chain) => volume.chain[k + 2] \in Clusters
    BY <1>1
  <2>5. k + 1 >= Len(volume.chain) => c = volume.chain[Len(volume.chain)]
    <3>1. k + 1 >= Len(volume.chain) => k + 1 = Len(volume.chain)
      BY <1>1, <1>3
    <3>2. QED BY <2>1, <3>1
  <2> HIDE DEF c
  <2>6. /\ w.fl = "used" <=> Link(volume, c) \in Clusters
        /\ w.fl = "used" => w.val = Link(volume, c)
        /\ w.fl = "last" <=> Link(volume, c) = EOC
    <3>1. c \in 0 .. ClustCnt - 1
      BY <2>2 DEF Clusters
    <3> DEFINE u == get_fat(r, c)
    <3>2. u.err = "NONE" /\ w = u
      BY DEF c
    <3>3. u.err = "NONE" =>
                  /\ u.fl = "used" <=> Link(volume, c) \in Clusters
                  /\ u.fl = "used" => u.val = Link(volume, c)
                  /\ u.fl = "last" <=> Link(volume, c) = EOC
      BY <3>1, GetFatValue
    <3> HIDE DEF u
    <3>4. QED BY <3>2, <3>3
  <2>7. EOC \notin Clusters
    BY DEF EOC, Clusters
  <2>8. CASE k + 1 < Len(volume.chain)
    BY <1>1, <2>3, <2>4, <2>6, <2>7, <2>8
  <2>9. CASE ~(k + 1 < Len(volume.chain))
    <3>1. k + 1 >= Len(volume.chain) /\ c = volume.chain[Len(volume.chain)]
      BY <1>1, <2>5, <2>9
    <3>2. Link(volume, c) \in Clusters => Whole
      <4>1. Len(volume.chain) < Needed(volume) => Link(volume, c) \notin Clusters
        BY <2>2, <3>1 DEF IsVolume
      <4>2. QED BY <1>1, <4>1 DEF Whole
    <3>3. Link(volume, c) = EOC => Whole \/ CutShort
      BY <2>2, <3>1 DEF CutShort
    <3>4. QED BY <2>6, <2>9, <3>1, <3>2, <3>3
  <2>10. QED BY <2>8, <2>9
<1>4. QED BY <1>1, <1>2, <1>3

\* How far the seek is, one link later.
LEMMA OneLinkLess ==
  ASSUME NEW r, NEW m, IsVolume(volume), Seeking(r, m), r.links > 0
  PROVE  LET k == r.off \div ClustUnits - r.links
         IN  /\ k \in Nat /\ r.off \in Nat /\ r.off \div ClustUnits \in Nat
             /\ r.links - 1 \in 0 .. r.off \div ClustUnits
             /\ r.off \div ClustUnits - (r.links - 1) = k + 1
<1> DEFINE q == r.off \div ClustUnits
<1>1. r.off \in Nat
  <2>1. r.off \in 0 .. volume.size
    BY DEF Seeking, Reading, Copied
  <2>2. QED BY <2>1
<1>2. q \in Nat
  <2>1. r.off <= r.off
    BY <1>1
  <2>2. QED BY <1>1, <2>1, ClustUnitsNat, QuotientGrows
<1>3. r.links \in 0 .. q
  BY DEF Seeking
<1> HIDE DEF q
<1>4. QED BY <1>1, <1>2, <1>3 DEF q

LEMMA LinkTaken ==
  ASSUME IsVolume(volume), NEW r, NEW m, Shape(r), Seeking(r, m), r.links > 0,
         NEW t, t.err = "NONE", Clean(t), KeptRead(r, t), t.next = "follow",
         t.links = r.links - 1, NEW c, t.f = [r.f EXCEPT !.clust = c],
         LET k == r.off \div ClustUnits - r.links
         IN  /\ k + 1 < Len(volume.chain) => c = volume.chain[k + 2]
             /\ k + 1 >= Len(volume.chain) => Whole \/ CutShort
  PROVE  Good("follow", t, m)
<1> DEFINE k == r.off \div ClustUnits - r.links
<1>1. /\ k \in Nat /\ r.links - 1 \in 0 .. r.off \div ClustUnits
      /\ r.off \div ClustUnits - (r.links - 1) = k + 1
  BY OneLinkLess
<1>2. /\ r.f.size = volume.size /\ r.f.buf = r.f.sect /\ r.f.sect = r.ssect
      /\ Reading(r, m, r.off) /\ (r.len = 0 \/ r.off = volume.size)
  BY DEF Seeking, Opened
<1>3. /\ t.f.clust = c /\ t.f.size = r.f.size /\ t.f.buf = r.f.buf /\ t.f.sect = r.f.sect
  BY DEF Shape
<1>4. t.got = r.got /\ t.len = r.len /\ t.off = r.off /\ t.ssect = r.ssect
  BY DEF KeptRead
<1>5. /\ k + 1 < Len(volume.chain) => c = volume.chain[k + 2]
      /\ k + 1 >= Len(volume.chain) => Whole \/ CutShort
  OBVIOUS
<1> HIDE DEF k
<1>6. AtLink(t, k + 1)
  <2>1. k + 1 + 1 = k + 2
    BY <1>1
  <2>2. QED BY <1>3, <1>5, <2>1 DEF AtLink
<1>7. Reading(t, m, t.off)
  BY <1>2, <1>4 DEF Reading
<1>8. /\ t.links \in 0 .. t.off \div ClustUnits
      /\ t.off \div ClustUnits - t.links = k + 1
  BY <1>1, <1>4
<1>9. Seeking(t, m)
  BY <1>2, <1>3, <1>4, <1>6, <1>7, <1>8 DEF Seeking, Opened
<1>10. QED BY <1>9 DEF Good, Early, Late

LEMMA ScanStarts ==
  ASSUME NEW r, NEW m, Seeking(r, m), LastTurn(r),
         NEW t, t.err = "NONE", Clean(t), KeptRead(r, t), Searching(r, t)
  PROVE  Good("scan", t, m)
<1>1. /\ t.got = r.got /\ t.len = r.len /\ t.off = r.off /\ t.ssect = r.ssect
      /\ t.f = r.f /\ t.links = r.links /\ t.next = "scan" /\ t.info = "dirty"
  BY DEF KeptRead, Searching
<1>2. Seeking(t, m)
  BY <1>1 DEF Seeking, Opened, Reading, AtLink
<1>3. LastTurn(t)
  BY <1>1 DEF LastTurn
<1>4. QED BY <1>1, <1>2, <1>3 DEF Good, Early, Late

\* What a turn leads to, whether it succeeds or not.
LEMMA PollsOn ==
  ASSUME NEW t, Continues(t), t.err = "POLLING"
  PROVE  Good(stage', fat', memory')
<1>1. Goes(t, "failed read")
  BY DEF Continues
<1>2. QED BY <1>1, GoesGood DEF Ends

LEMMA GivesUp ==
  ASSUME IsVolume(volume), NEW r, Seeking(r, memory), NEW t, KeptRead(r, t),
         t.err \notin {"NONE", "POLLING"}, Continues(t)
  PROVE  Good(stage', fat', memory')
<1>1. Returns(t)
  BY DEF Continues
<1>2. Reading(r, memory, r.off) /\ (r.len = 0 \/ r.off = volume.size)
  BY DEF Seeking
<1>3. QED BY <1>1, <1>2, ReadEnds

LEMMA EndedGood ==
  ASSUME IsVolume(volume), NEW r, Shape(r), Seeking(r, memory), LastTurn(r),
         NEW t, Ended(r, t), Continues(t)
  PROVE  Good(stage', fat', memory')
<1>1. CASE t.err = "POLLING"
  BY <1>1, PollsOn
<1>2. CASE t.err \in {"BROKEN", "FULL", "FLAGS"} /\ KeptRead(r, t)
  BY <1>2, GivesUp
<1>3. CASE t.err = "NONE" /\ KeptRead(r, t) /\ Clean(t) /\ (Stretched(r, t) \/ Searching(r, t))
  <2>1. Goes(t, "failed read")
    BY <1>3 DEF Continues
  <2>2. CASE Stretched(r, t)
    <3>1. PICK c : t.f = [r.f EXCEPT !.clust = c]
      BY <2>2 DEF Stretched
    <3>2. t.next = "follow" /\ t.links = r.links - 1
      BY <2>2 DEF Stretched
    <3> DEFINE k == r.off \div ClustUnits - r.links
    <3>3. k + 1 >= Len(volume.chain) /\ (Whole \/ CutShort) /\ r.links > 0
      BY DEF LastTurn
    <3>4. k \in Nat /\ Len(volume.chain) \in Nat
      BY <3>3, OneLinkLess, ChainTyped
    <3>5. /\ k + 1 < Len(volume.chain) => c = volume.chain[k + 2]
          /\ k + 1 >= Len(volume.chain) => Whole \/ CutShort
      <4> HIDE DEF k
      <4>1. QED BY <3>3, <3>4
    <3>6. Good("follow", t, memory)
      BY <1>3, <3>1, <3>2, <3>3, <3>5, LinkTaken
    <3>7. QED BY <2>1, <3>2, <3>6, GoesGood DEF Ends
  <2>3. CASE Searching(r, t)
    <3>1. Good("scan", t, memory) /\ t.next = "scan"
      BY <1>3, <2>3, ScanStarts DEF Searching
    <3>2. QED BY <2>1, <3>1, GoesGood DEF Ends
  <2>4. QED BY <1>3, <2>2, <2>3
<1>4. QED BY <1>1, <1>2, <1>3 DEF Ended

LEMMA FollowGood ==
  ASSUME IsVolume(volume), NEW r, Shape(r), Good("follow", r, memory), r.links > 0,
         Continues(FollowLink(r))
  PROVE  Good(stage', fat', memory')
<1> DEFINE w == get_fat(r, r.f.clust)
           t == FollowLink(r)
           k == r.off \div ClustUnits - r.links
<1>1. r.err = "NONE" /\ Clean(r) /\ Seeking(r, memory) /\ r.next = "follow"
  BY DEF Good, Early, Late
<1>2. \/ t.err = "POLLING"
      \/ t.err = "BROKEN" /\ KeptRead(r, t)
      \/ w.err = "NONE" /\ w.fl = "last" /\ Ended(r, t)
      \/ /\ t.err = "NONE" /\ KeptRead(r, t) /\ Clean(t)
         /\ w.err = "NONE" /\ w.fl = "used" /\ t.val = w.val /\ Followed(r, t)
  BY <1>1, FollowEnds
<1>3. AtLink(r, k) /\ k \in Nat
  BY <1>1, OneLinkLess DEF Seeking
<1>4. Continues(t)
  OBVIOUS
<1> HIDE DEF t, k
<1>5. w.err = "NONE" =>
         /\ w.fl = "used" =>
              /\ k + 1 < Len(volume.chain) => w.val = volume.chain[k + 2]
              /\ k + 1 >= Len(volume.chain) => Whole \/ CutShort
         /\ w.fl = "last" => k + 1 >= Len(volume.chain) /\ (Whole \/ CutShort)
  <2>1. PICK u : u = w
    OBVIOUS
  <2>2. u = get_fat(r, r.f.clust)
    BY <2>1
  <2>3. u.err = "NONE" =>
         /\ u.fl = "used" =>
              /\ k + 1 < Len(volume.chain) => u.val = volume.chain[k + 2]
              /\ k + 1 >= Len(volume.chain) => Whole \/ CutShort
         /\ u.fl = "last" => k + 1 >= Len(volume.chain) /\ (Whole \/ CutShort)
    BY <1>1, <1>3, <2>2, LinkFollowed
  <2> HIDE DEF w
  <2>4. QED BY <2>1, <2>3
<1> HIDE DEF w
<1>6. CASE t.err = "POLLING"
  BY <1>4, <1>6, PollsOn
<1>7. CASE t.err = "BROKEN" /\ KeptRead(r, t)
  BY <1>1, <1>4, <1>7, GivesUp
<1>8. CASE w.err = "NONE" /\ w.fl = "last" /\ Ended(r, t)
  <2>1. LastTurn(r)
    BY <1>5, <1>8 DEF LastTurn, k
  <2>2. QED BY <1>1, <1>4, <1>8, <2>1, EndedGood
<1>9. CASE /\ t.err = "NONE" /\ KeptRead(r, t) /\ Clean(t)
           /\ w.err = "NONE" /\ w.fl = "used" /\ t.val = w.val /\ Followed(r, t)
  <2>1. /\ t.next = "follow" /\ t.links = r.links - 1 /\ t.f = [r.f EXCEPT !.clust = w.val]
    BY <1>1, <1>9 DEF Followed
  <2>2. /\ k + 1 < Len(volume.chain) => w.val = volume.chain[k + 2]
        /\ k + 1 >= Len(volume.chain) => Whole \/ CutShort
    BY <1>5, <1>9
  <2>3. Good("follow", t, memory)
    <3> DEFINE c == w.val
    <3>1. /\ t.f = [r.f EXCEPT !.clust = c]
          /\ LET j == r.off \div ClustUnits - r.links
             IN  /\ j + 1 < Len(volume.chain) => c = volume.chain[j + 2]
                 /\ j + 1 >= Len(volume.chain) => Whole \/ CutShort
      BY <2>1, <2>2 DEF k
    <3> HIDE DEF c
    <3>2. QED BY <1>1, <1>9, <2>1, <3>1, LinkTaken
  <2>4. Goes(t, "failed read")
    BY <1>4, <1>9 DEF Continues
  <2>5. QED BY <2>1, <2>3, <2>4, GoesGood DEF Ends
<1>10. QED BY <1>2, <1>6, <1>7, <1>8, <1>9

LEMMA ScanGood ==
  ASSUME IsVolume(volume), NEW r, Shape(r), Good("scan", r, memory), Continues(ScanTurn(r))
  PROVE  Good(stage', fat', memory')
<1>1. /\ r.err = "NONE" /\ Clean(r) /\ Seeking(r, memory) /\ LastTurn(r)
      /\ r.next = "scan" /\ r.info = "dirty"
  BY DEF Good, Early, Late
<1>2. Ended(r, ScanTurn(r))
  BY <1>1, ScanEnds
<1>3. QED BY <1>1, <1>2, EndedGood

\* The steps before the search.
LEMMA ReadDiskParts ==
  ASSUME NEW r, Shape(r), r.err = "NONE", NEW sect
  PROVE  LET t == ReadDisk(r, sect)
         IN  /\ Shape(t) /\ t.sect = r.sect /\ t.buf = r.buf /\ t.err \in {"NONE", "POLLING"}
             /\ t.err = "NONE" => t = r
             /\ volume.bad = {} => t.err = "NONE"
<1>1. CASE sect \in volume.bad
  <2>1. ReadDisk(r, sect) = Fails(r, "POLLING")
    BY <1>1 DEF ReadDisk
  <2> DEFINE t == Fails(r, "POLLING")
  <2>2. Shape(t) /\ t.sect = r.sect /\ t.buf = r.buf /\ t.err = "POLLING"
    BY KeptByFailing
  <2>3. volume.bad # {}
    BY <1>1
  <2> HIDE DEF t
  <2>4. ReadDisk(r, sect) = t
    BY <2>1 DEF t
  <2>5. QED BY <2>2, <2>3, <2>4
<1>2. CASE sect \notin volume.bad
  BY <1>2 DEF ReadDisk
<1>3. QED BY <1>1, <1>2

LEMMA ProbeParts ==
  ASSUME NEW r, Shape(r), r.err = "NONE"
  PROVE  LET t == probe(r, 1)
         IN  /\ Shape(t) /\ t.sect = r.sect /\ t.buf = r.buf
             /\ t.err \in {"NONE", "POLLING", "NOFAT"}
             /\ t.err = "NONE" => t = r
<1> DEFINE a == ReadDisk(r, 0)
           lba == get_part_lba(disk[0], 1)
           b == ReadDisk(a, lba)
           t == probe(r, 1)
<1>1. t = IF a.err = "NONE"
          THEN CASE check_fat(disk[0]) -> IF 1 = 0 THEN a ELSE Fails(a, "NOFAT")
                 [] ~check_fat(disk[0]) /\ lba = 0 -> Fails(a, "NOFAT")
                 [] OTHER -> IF b.err = "NONE"
                             THEN IF check_fat(disk[lba]) THEN b ELSE Fails(b, "NOFAT")
                             ELSE b
          ELSE a
  BY Zenon DEF probe, Then
<1>2. /\ Shape(a) /\ a.sect = r.sect /\ a.buf = r.buf /\ a.err \in {"NONE", "POLLING"}
      /\ a.err = "NONE" => a = r
  BY ReadDiskParts
<1> HIDE DEF a
<1>3. a.err = "NONE" =>
        /\ Shape(b) /\ b.sect = a.sect /\ b.buf = a.buf /\ b.err \in {"NONE", "POLLING"}
        /\ b.err = "NONE" => b = a
  BY <1>2, ReadDiskParts
<1> HIDE DEF b, lba, t
<1>4. \/ t = a /\ a.err # "NONE"
      \/ t = Fails(a, "NOFAT")
      \/ a.err = "NONE" /\ t = b
      \/ a.err = "NONE" /\ t = Fails(b, "NOFAT")
  <2>1. 1 # 0
    OBVIOUS
  <2>2. CASE a.err = "NONE" /\ check_fat(disk[0])
    BY <1>1, <2>1, <2>2
  <2>3. CASE a.err = "NONE" /\ ~check_fat(disk[0]) /\ lba = 0
    BY <1>1, <2>3
  <2>4. CASE a.err = "NONE" /\ ~check_fat(disk[0]) /\ lba # 0
    BY <1>1, <2>4
  <2>5. CASE a.err # "NONE"
    BY <1>1, <2>5
  <2>6. QED BY <2>2, <2>3, <2>4, <2>5
<1>5. CASE t = a /\ a.err # "NONE"
  BY <1>2, <1>5 DEF t
<1>6. CASE t = Fails(a, "NOFAT")
  <2> DEFINE u == Fails(a, "NOFAT")
  <2>1. Shape(u) /\ u.sect = a.sect /\ u.buf = a.buf /\ u.err = "NOFAT"
    BY <1>2, KeptByFailing
  <2> HIDE DEF u
  <2>2. t = u
    BY <1>6 DEF u
  <2>3. QED BY <1>2, <2>1, <2>2 DEF t
<1>7. CASE a.err = "NONE" /\ t = b
  BY <1>2, <1>3, <1>7 DEF t
<1>8. CASE a.err = "NONE" /\ t = Fails(b, "NOFAT")
  <2> DEFINE u == Fails(b, "NOFAT")
  <2>1. Shape(u) /\ u.sect = b.sect /\ u.buf = b.buf /\ u.err = "NOFAT"
    BY <1>3, <1>8, KeptByFailing
  <2> HIDE DEF u
  <2>2. t = u
    BY <1>8 DEF u
  <2>3. QED BY <1>2, <1>3, <1>8, <2>1, <2>2 DEF t
<1>9. QED BY <1>4, <1>5, <1>6, <1>7, <1>8

LEMMA ProbeGood ==
  ASSUME NEW r, Shape(r), Good("probe", r, <<>>)
  PROVE  LET t == [probe(r, 1) EXCEPT !.next = "mount"]
         IN  /\ Shape(t)
             /\ t.err = "NONE" => Good(t.next, t, <<>>)
<1> DEFINE w == probe(r, 1)
           t == [w EXCEPT !.next = "mount"]
<1>1. r.err = "NONE" /\ Clean(r)
  BY DEF Good, Early, Late
<1>2. Shape(w) /\ w.sect = r.sect /\ w.buf = r.buf
  BY <1>1, ProbeParts
<1> HIDE DEF w
<1>3. /\ Shape(t) /\ t.err = w.err /\ t.sect = w.sect /\ t.buf = w.buf /\ t.next = "mount"
  BY <1>2 DEF Shape
<1> HIDE DEF t
<1>4. t.err = "NONE" => Good("mount", t, <<>>)
  BY <1>1, <1>2, <1>3 DEF Good, Early, Late, Clean
<1>5. QED BY <1>3, <1>4 DEF t, w

LEMMA MountParts ==
  ASSUME NEW r, Shape(r), r.err = "NONE"
  PROVE  LET t == fat_mount(r, 1)
         IN  /\ Shape(t)
             /\ t.err = "NONE" => t.sect = 0 /\ t.name = "mnt"
<1> DEFINE a == probe(r, 1)
           b == ReadDisk(a, InfoSect)
           c == [b EXCEPT !.name = "mnt", !.sect = 0, !.last = disk[InfoSect].next_free]
           t == fat_mount(r, 1)
<1>1. t = IF a.err = "NONE"
          THEN IF b.err = "NONE"
               THEN IF disk[InfoSect].t # "info" THEN Fails(b, "NOFAT") ELSE c
               ELSE b
          ELSE a
  BY Zenon DEF fat_mount, Then
<1>2. Shape(a)
  BY ProbeParts
<1> HIDE DEF a
<1>3. a.err = "NONE" => Shape(b) /\ b.err \in {"NONE", "POLLING"}
  BY <1>2, ReadDiskParts
<1> HIDE DEF b, t
<1>4. Shape(b) => Shape(c) /\ c.sect = 0 /\ c.name = "mnt"
  BY DEF Shape
<1>5. Shape(b) => Shape(Fails(b, "NOFAT")) /\ Fails(b, "NOFAT").err = "NOFAT"
  BY KeptByFailing
<1> HIDE DEF c
<1>6. QED BY <1>1, <1>2, <1>3, <1>4, <1>5 DEF t

LEMMA MountGood ==
  ASSUME NEW r, Shape(r), Good("mount", r, <<>>)
  PROVE  LET t == [fat_mount(r, 1) EXCEPT !.next = "open"]
         IN  /\ Shape(t)
             /\ t.err = "NONE" => Good(t.next, t, <<>>)
<1> DEFINE w == fat_mount(r, 1)
           t == [w EXCEPT !.next = "open"]
<1>1. r.err = "NONE"
  BY DEF Good, Early, Late
<1>2. Shape(w) /\ (w.err = "NONE" => w.sect = 0)
  BY <1>1, MountParts
<1> HIDE DEF w
<1>3. /\ Shape(t) /\ t.err = w.err /\ t.sect = w.sect /\ t.next = "open"
  BY <1>2 DEF Shape
<1> HIDE DEF t
<1>4. t.err = "NONE" => Good("open", t, <<>>)
  BY <1>2, <1>3 DEF Good, Early, Late, Clean
<1>5. QED BY <1>3, <1>4 DEF t, w

\* The cursor on the first entry of the root directory.
LEMMA RootIsFirst ==
  ASSUME IsVolume(volume), NEW r, r.dir.clust = RootClust,
         r.dir.sect = clust_to_sect(RootClust), r.dir.idx = 0
  PROVE  0 \in RootEntries(volume) /\ DirAt(r, 0)
<1>1. /\ volume.root \in Seq(Clusters) /\ volume.root # <<>> /\ volume.root[1] = RootClust
  BY DEF IsVolume, Follows
<1>2. Len(volume.root) \in Nat \ {0} /\ RootClust \in Clusters
  BY <1>1
<1>3. Len(volume.root) * SectPerClust \in Nat \ {0}
  BY <1>2, Sizes
<1>4. 0 \in RootEntries(volume)
  <2> DEFINE x == Len(volume.root) * SectPerClust
  <2>1. x \in Nat \ {0}
    BY <1>3
  <2> HIDE DEF x
  <2>2. x * DirEnts \in Nat \ {0}
    BY <2>1, Sizes
  <2>3. QED BY <2>2 DEF RootEntries, x
<1>5. 0 \div DirEnts = 0 /\ 0 % DirEnts = 0 /\ 0 \div SectPerClust = 0 /\ 0 % SectPerClust = 0
  BY Sizes
<1>6. clust_to_sect(RootClust) \in Int
  BY <1>2, SectorIsInt DEF Clusters
<1>7. DirAt(r, 0)
  BY <1>1, <1>5, <1>6 DEF DirAt
<1>8. QED BY <1>4, <1>7

LEMMA OpenStepGood ==
  ASSUME IsVolume(volume), NEW r, Shape(r), Good("open", r, <<>>)
  PROVE  LET t == follow_path(r)
         IN  /\ Shape(t)
             /\ t.err = "NONE" => Good(t.next, t, <<>>)
<1> DEFINE w == dir_at_clust(r, RootClust)
           x == [w EXCEPT !.next = "search"]
           t == follow_path(r)
<1>1. r.err = "NONE" /\ Clean(r)
  BY DEF Good, Early, Late
<1>2. t = IF r.name # "mnt" THEN Fails(r, "PATH") ELSE x
  BY DEF follow_path
<1>3. Shape(Fails(r, "PATH")) /\ Fails(r, "PATH").err = "PATH"
  BY KeptByFailing
<1>4. /\ Shape(w) /\ w.err = r.err /\ w.sect = r.sect /\ w.buf = r.buf
      /\ w.dir.clust = RootClust /\ w.dir.sect = clust_to_sect(RootClust) /\ w.dir.idx = 0
  BY DirAtClust
<1> HIDE DEF w, t
<1>5. /\ Shape(x) /\ x.err = w.err /\ x.sect = w.sect /\ x.buf = w.buf /\ x.dir = w.dir
      /\ x.next = "search"
  BY <1>4 DEF Shape
<1> HIDE DEF x
<1>6. 0 \in RootEntries(volume) /\ DirAt(x, 0)
  BY <1>4, <1>5, RootIsFirst
<1>7. Good("search", x, <<>>)
  BY <1>1, <1>4, <1>5, <1>6, SearchGoesOn DEF Clean
<1>8. QED BY <1>2, <1>3, <1>5, <1>7 DEF t

\* Whatever close and umount return, the jump follows, unless they poll for ever.
CloseFile(r) ==
  LET closed == fat_file_close([r EXCEPT !.err = "NONE", !.next = "kernel"])
  IN  IF closed.err = "POLLING" THEN closed ELSE fat_umount([closed EXCEPT !.err = "NONE"])

LEMMA CloseParts ==
  ASSUME NEW r, Shape(r)
  PROVE  Shape(CloseFile(r)) /\ (CloseFile(r).err = "NONE" => CloseFile(r).next = "kernel")
         /\ (volume.bad = {} => CloseFile(r).err # "POLLING")
<1> DEFINE q == [r EXCEPT !.err = "NONE", !.next = "kernel"]
           a == IF q.f.acc = "no" THEN q ELSE update_buf(q, q.f.dsect)
           b == sync_fs(a)
           c == [b EXCEPT !.f.acc = "no"]
           closed == fat_file_close(q)
           d == [closed EXCEPT !.err = "NONE"]
           e == [d EXCEPT !.name = "none"]
           t == CloseFile(r)
<1>1. Shape(q) /\ q.err = "NONE" /\ q.next = "kernel"
  BY DEF Shape
<1>2. closed = IF a.err = "NONE" THEN IF b.err = "NONE" THEN c ELSE b ELSE a
  BY Zenon DEF fat_file_close, Then
<1>3. t = IF closed.err = "POLLING" THEN closed ELSE fat_umount(d)
  BY DEF CloseFile
<1>4. fat_umount(d) = IF d.name # "mnt" THEN Fails(d, "PARAM") ELSE sync_fs(e)
  BY DEF fat_umount
<1> HIDE DEF q, closed, t
<1>5. /\ Shape(a) /\ a.next = "kernel" /\ a.err \in {"NONE", "POLLING"}
      /\ volume.bad = {} => a.err = "NONE"
  <2> DEFINE u == update_buf(q, q.f.dsect)
  <2>1. /\ Shape(u) /\ Kept(q, u) /\ u.err \in {"NONE", "POLLING"}
        /\ volume.bad = {} => u.err = "NONE"
    BY <1>1, UpdateBuf
  <2> HIDE DEF u
  <2>2. a = q \/ a = u
    BY DEF u
  <2>3. QED BY <1>1, <2>1, <2>2 DEF Kept
<1> HIDE DEF a
<1>6. a.err = "NONE" => /\ Shape(b) /\ b.next = "kernel" /\ b.err \in {"NONE", "POLLING"}
                        /\ volume.bad = {} => b.err = "NONE"
  BY <1>5, SyncFs
<1> HIDE DEF b
<1>7. a.err = "NONE" => Shape(c) /\ c.next = b.next /\ c.err = b.err
  BY <1>6 DEF Shape
<1> HIDE DEF c
<1>8. /\ Shape(closed) /\ closed.next = "kernel"
      /\ volume.bad = {} => closed.err = "NONE"
  BY <1>2, <1>5, <1>6, <1>7
<1>9. Shape(d) /\ d.err = "NONE" /\ d.next = "kernel"
  BY <1>8 DEF Shape
<1> HIDE DEF d
<1>10. Shape(Fails(d, "PARAM")) /\ Fails(d, "PARAM").err = "PARAM"
  BY <1>9, KeptByFailing
<1>11. Shape(e) /\ e.err = "NONE" /\ e.next = "kernel"
  BY <1>9 DEF Shape
<1> HIDE DEF e
<1>12. /\ Shape(sync_fs(e)) /\ sync_fs(e).next = "kernel"
       /\ volume.bad = {} => sync_fs(e).err = "NONE"
  BY <1>11, SyncFs
<1>13. Shape(t) /\ (t.err = "NONE" => t.next = "kernel") /\ (volume.bad = {} => t.err # "POLLING")
  BY <1>3, <1>4, <1>8, <1>10, <1>12
<1>14. QED BY <1>13 DEF t

-----------------------------------------------------------------------------
(* The invariant.                                                           *)

IInv == volume \in Volumes /\ LInv

LEMMA VolumeIs ==
  ASSUME IInv
  PROVE  IsVolume(volume)
  BY BootAssumption DEF IInv

\* What is good of the volume stays so: nothing writes to it.
LEMMA Unmoved ==
  ASSUME IsVolume(volume), volume' = volume
  PROVE  /\ HasClusters' <=> HasClusters
         /\ Good(stage', fat', memory') => Good(stage, fat, memory)'
<1> USE DEF disk, HasClusters
<1>1. HasClusters' <=> HasClusters
  OBVIOUS
<1>2. (Whole' <=> Whole) /\ (CutShort' <=> CutShort)
  BY DEF Whole, CutShort
<1>3. Content' = Content
  BY DEF Content
<1>4. Clean(fat)' <=> Clean(fat')
  BY DEF Clean
<1>5. (\E n \in RootEntries(volume) : DirAt(fat, n))' <=>
        \E n \in RootEntries(volume) : DirAt(fat', n)
  BY DEF DirAt
<1>6. Collected(fat)' <=> Collected(fat')
  BY DEF Collected
<1>7. \A m, off : Copied(m, off)' <=> Copied(m, off)
  BY <1>2, <1>3 DEF Copied
<1>8. Settled(fat)' <=> Settled(fat')
  BY <1>2 DEF Settled, Opened, AtLink
<1>9. Reading(fat, memory, fat.off)' <=> Reading(fat', memory', fat'.off)
  BY <1>7 DEF Reading
<1>10. Reading(fat, memory, fat.f.off)' <=> Reading(fat', memory', fat'.f.off)
  BY <1>7 DEF Reading
<1>11. Seeking(fat, memory)' <=> Seeking(fat', memory')
  BY <1>2, <1>9 DEF Seeking, Opened, AtLink
<1>12. LastTurn(fat)' <=> LastTurn(fat')
  BY <1>2 DEF LastTurn
<1>13. Copied(memory, fat.f.off)' <=> Copied(memory', fat'.f.off)
  BY <1>2, <1>3 DEF Copied
<1>14. Copied(memory, volume.size)' <=> Copied(memory', volume.size)
  BY <1>2, <1>3 DEF Copied
<1>15. Good(stage', fat', memory') => Good(stage, fat, memory)'
  BY <1>4, <1>5, <1>6, <1>8, <1>10, <1>11, <1>12, <1>13, <1>14 DEF Good
<1>16. QED BY <1>1, <1>15

LEMMA InitiallyGood == LoaderInit => IInv
<1> SUFFICES ASSUME LoaderInit
             PROVE  IInv
  OBVIOUS
<1>1. volume \in Volumes /\ stage = "probe" /\ fat = Fresh /\ memory = <<>>
  BY DEF LoaderInit
<1>2. Fresh.err = "NONE" /\ Fresh.sect = 0 /\ Shape(Fresh)
  BY DEF Fresh, Shape
<1>3. Good(stage, fat, memory)
  BY <1>1, <1>2 DEF Good, Early, Late, Clean
<1>4. QED BY <1>1, <1>2, <1>3 DEF IInv, LInv

LEMMA StillEmpty ==
  ASSUME NEW st \in Early, stage = st, Good(stage, fat, memory)
  PROVE  memory = <<>> /\ Good(st, fat, <<>>)
<1>1. memory = <<>>
  BY DEF Good
<1>2. QED BY <1>1

LEMMA StepsAreGood ==
  ASSUME IsVolume(volume), HasClusters, Shape(fat), Good(stage, fat, memory), LoaderNext
  PROVE  Shape(fat') /\ Good(stage', fat', memory')
<1>1. IsVolume(volume) /\ HasClusters
  OBVIOUS
<1>2. Shape(fat) /\ Good(stage, fat, memory)
  OBVIOUS
<1>3. CASE Probe
  <2> DEFINE t == [probe(fat, 1) EXCEPT !.next = "mount"]
  <2>1. stage = "probe" /\ Goes(t, "failed probe")
    BY <1>3 DEF Probe
  <2>2. memory = <<>> /\ Good("probe", fat, <<>>)
    BY <1>2, <2>1, StillEmpty DEF Early
  <2>3. Shape(t) /\ (t.err = "NONE" => Good(t.next, t, <<>>))
    BY <1>1, <1>2, <2>1, <2>2, ProbeGood
  <2> HIDE DEF t
  <2>4. Good(stage', fat', memory')
    BY <2>1, <2>2, <2>3, GoesGood DEF Ends
  <2>5. QED BY <2>1, <2>3, <2>4 DEF Goes
<1>4. CASE Mount
  <2> DEFINE t == [fat_mount(fat, 1) EXCEPT !.next = "open"]
  <2>1. stage = "mount" /\ Goes(t, "failed mount")
    BY <1>4 DEF Mount
  <2>2. memory = <<>> /\ Good("mount", fat, <<>>)
    BY <1>2, <2>1, StillEmpty DEF Early
  <2>3. Shape(t) /\ (t.err = "NONE" => Good(t.next, t, <<>>))
    BY <1>1, <1>2, <2>1, <2>2, MountGood
  <2> HIDE DEF t
  <2>4. Good(stage', fat', memory')
    BY <2>1, <2>2, <2>3, GoesGood DEF Ends
  <2>5. QED BY <2>1, <2>3, <2>4 DEF Goes
<1>5. CASE Open
  <2> DEFINE t == follow_path(fat)
  <2>1. stage = "open" /\ Goes(t, "no file")
    BY <1>5 DEF Open
  <2>2. memory = <<>> /\ Good("open", fat, <<>>)
    BY <1>2, <2>1, StillEmpty DEF Early
  <2>3. Shape(t) /\ (t.err = "NONE" => Good(t.next, t, <<>>))
    BY <1>1, <1>2, <2>1, <2>2, OpenStepGood
  <2> HIDE DEF t
  <2>4. Good(stage', fat', memory')
    BY <2>1, <2>2, <2>3, GoesGood DEF Ends
  <2>5. QED BY <2>1, <2>3, <2>4 DEF Goes
<1>6. CASE Search
  <2> DEFINE t == dir_search(fat)
  <2>1. stage = "search" /\ Goes(t, "no file")
    BY <1>6 DEF Search
  <2>2. memory = <<>> /\ Good("search", fat, <<>>)
    BY <1>2, <2>1, StillEmpty DEF Early
  <2>3. Shape(t) /\ (t.err = "NONE" => Good(t.next, t, <<>>))
    <3>1. /\ fat.err = "NONE" /\ Clean(fat) /\ fat.next = "search"
          /\ \E n \in RootEntries(volume) : DirAt(fat, n)
      BY <2>2 DEF Good, Early, Late
    <3>2. QED BY <1>1, <1>2, <3>1, SearchGood
  <2> HIDE DEF t
  <2>4. Good(stage', fat', memory')
    BY <2>1, <2>2, <2>3, GoesGood DEF Ends
  <2>5. QED BY <2>1, <2>3, <2>4 DEF Goes
<1>7. CASE ParseFragment
  <2> DEFINE t == Fragment(fat)
  <2>1. stage = "fragments" /\ Goes(t, "no file") /\ fat.cnt > 0
    BY <1>7 DEF ParseFragment
  <2>2. memory = <<>> /\ Good("fragments", fat, <<>>)
    BY <1>2, <2>1, StillEmpty DEF Early
  <2>3. Shape(t) /\ (t.err = "NONE" => Good(t.next, t, <<>>))
    BY <1>1, <1>2, <2>1, <2>2, FragmentGood
  <2> HIDE DEF t
  <2>4. Good(stage', fat', memory')
    BY <2>1, <2>2, <2>3, GoesGood DEF Ends
  <2>5. QED BY <2>1, <2>3, <2>4 DEF Goes
<1>8. CASE CompareName
  <2> DEFINE t == LongName(fat)
  <2>1. stage = "fragments" /\ Goes(t, "no file")
    BY <1>8 DEF CompareName
  <2>2. memory = <<>> /\ Good("fragments", fat, <<>>)
    BY <1>2, <2>1, StillEmpty DEF Early
  <2>3. Shape(t) /\ (t.err = "NONE" => Good(t.next, t, <<>>))
    BY <1>1, <1>2, <2>1, <2>2, LongNameGood
  <2> HIDE DEF t
  <2>4. Good(stage', fat', memory')
    BY <2>1, <2>2, <2>3, GoesGood DEF Ends
  <2>5. QED BY <2>1, <2>3, <2>4 DEF Goes
<1>9. CASE Read
  <2>1. stage = "read" /\ fat' = fat_file_read(fat, Units) /\ stage' = "copy" /\ memory' = memory
    BY <1>9 DEF Read
  <2>2. Good("read", fat, memory)
    BY <1>2, <2>1
  <2>3. QED BY <1>1, <1>2, <2>1, <2>2, ReadGood
<1>10. CASE Copy
  <2> DEFINE t == CopyTurn(fat)
  <2>1. stage = "copy" /\ fat.len > 0 /\ fat.f.off < fat.f.size /\ Goes(t, "failed read")
    BY <1>10 DEF Copy, Copying
  <2>2. Good("copy", fat, memory)
    BY <1>2, <2>1
  <2>3. Shape(t) /\ (t.err = "NONE" => Good(t.next, t, memory))
    BY <1>1, <1>2, <2>1, <2>2, CopyGood
  <2> HIDE DEF t
  <2>4. Good(stage', fat', memory')
    BY <2>1, <2>3, GoesGood DEF Ends
  <2>5. QED BY <2>1, <2>3, <2>4 DEF Goes
<1>11. CASE Arrive
  <2> DEFINE t == MoveTo([fat EXCEPT !.next = "copy"])
  <2>1. stage = "follow" /\ fat.links = 0 /\ Goes(t, "failed read")
    BY <1>11 DEF Arrive
  <2>2. Good("follow", fat, memory)
    BY <1>2, <2>1
  <2>3. Shape(t) /\ (t.err = "NONE" => Good(t.next, t, memory))
    BY <1>1, <1>2, <2>1, <2>2, ArriveGood
  <2> HIDE DEF t
  <2>4. Good(stage', fat', memory')
    BY <2>1, <2>3, GoesGood DEF Ends
  <2>5. QED BY <2>1, <2>3, <2>4 DEF Goes
<1>12. CASE ReturnRead
  <2>1. stage = "copy" /\ ~(fat.len > 0 /\ fat.f.off < fat.f.size) /\ Returns(fat)
    BY <1>12 DEF ReturnRead, Copying
  <2>2. Good("copy", fat, memory)
    BY <1>2, <2>1
  <2>3. Good(stage', fat', memory')
    BY <1>1, <2>1, <2>2, ReturnGood
  <2>4. QED BY <1>2, <2>1, <2>3 DEF Returns
<1>13. CASE Follow
  <2>1. stage = "follow" /\ fat.links > 0 /\ Continues(FollowLink(fat))
    BY <1>13 DEF Follow
  <2>2. Good("follow", fat, memory)
    BY <1>2, <2>1
  <2>3. Good(stage', fat', memory')
    BY <1>1, <1>2, <2>1, <2>2, FollowGood
  <2>4. fat' = FollowLink(fat)
    BY <2>1 DEF Continues, Goes, Returns
  <2>5. fat.err = "NONE" /\ Clean(fat)
    BY <2>2 DEF Good, Early, Late
  <2>6. Shape(FollowLink(fat))
    BY <1>2, <2>5, FollowEnds
  <2>7. QED BY <2>3, <2>4, <2>6
<1>14. CASE Scan
  <2>1. stage = "scan" /\ Continues(ScanTurn(fat))
    BY <1>14 DEF Scan
  <2>2. Good("scan", fat, memory)
    BY <1>2, <2>1
  <2>3. Good(stage', fat', memory')
    BY <1>1, <1>2, <2>1, <2>2, ScanGood
  <2>4. fat' = ScanTurn(fat)
    BY <2>1 DEF Continues, Goes, Returns
  <2>5. fat.err = "NONE" /\ Clean(fat) /\ fat.info = "dirty" /\ fat.next = "scan"
    BY <2>2 DEF Good, Early, Late
  <2>6. Shape(ScanTurn(fat))
    BY <1>2, <2>5, ScanEnds
  <2>7. QED BY <2>3, <2>4, <2>6
<1>15. CASE Close
  <2> DEFINE t == CloseFile(fat)
  <2>1. stage = "close" /\ Goes(t, "kernel")
    BY <1>15 DEF Close, CloseFile
  <2>2. Shape(t) /\ (t.err = "NONE" => t.next = "kernel")
    BY <1>2, CloseParts
  <2>3. Copied(memory, volume.size)
    BY <1>2, <2>1 DEF Good
  <2> HIDE DEF t
  <2>4. stage' \in {"kernel", "polling"} /\ fat' = t /\ memory' = memory
    BY <2>1, <2>2 DEF Goes
  <2>5. Good(stage', fat', memory')
    BY <2>3, <2>4 DEF Good, Early, Late
  <2>6. QED BY <2>2, <2>4, <2>5
<1>16. QED BY <1>3, <1>4, <1>5, <1>6, <1>7, <1>8, <1>9, <1>10, <1>11, <1>12, <1>13, <1>14,
              <1>15 DEF LoaderNext

LEMMA Invariance == LoaderSpec => []IInv
<1>1. LoaderInit => IInv
  BY InitiallyGood
<1>2. IInv /\ [LoaderNext]_loaderVars => IInv'
  <2> SUFFICES ASSUME IInv, [LoaderNext]_loaderVars
               PROVE  IInv'
    OBVIOUS
  <2>1. IsVolume(volume)
    BY VolumeIs
  <2>2. volume' = volume
    BY DEF LoaderNext, loaderVars, Probe, Mount, Open, Search, ParseFragment, CompareName,
           Read, Copy, Follow, Scan, Arrive, ReturnRead, Close, Goes, Continues, Returns
  <2>3. HasClusters => Shape(fat) /\ Good(stage, fat, memory)
    BY DEF IInv, LInv
  <2>4. HasClusters => Shape(fat') /\ Good(stage', fat', memory')
    <3>1. CASE LoaderNext
      BY <2>1, <2>3, <3>1, StepsAreGood
    <3>2. CASE UNCHANGED loaderVars
      BY <2>3, <3>2 DEF loaderVars
    <3>3. QED BY <3>1, <3>2
  <2>5. (HasClusters' <=> HasClusters) /\ (Good(stage', fat', memory') => Good(stage, fat, memory)')
    BY <2>1, <2>2, Unmoved
  <2>6. Shape(fat') => Shape(fat)'
    BY DEF Shape
  <2>7. QED BY <2>2, <2>4, <2>5, <2>6 DEF IInv, LInv
<1>3. QED BY <1>1, <1>2, PTL DEF LoaderSpec

(* main.c:82: where the file has clusters, what main jumps into is as long *)
(* as the file and begins with all that they hold, in order; a chain that  *)
(* is damaged, and not merely closed early, never gets that far.           *)
THEOREM KernelIsLoaded == LoaderSpec => []KernelIsWhole
<1>1. IInv => KernelIsWhole
  <2> SUFFICES ASSUME IInv, stage = "kernel", HasClusters
               PROVE  /\ Whole \/ CutShort
                      /\ Len(memory) = volume.size
                      /\ SubSeq(memory, 1, Len(Content)) = Content
    BY DEF KernelIsWhole, HasClusters
  <2>1. IsVolume(volume)
    BY VolumeIs
  <2>2. Copied(memory, volume.size)
    BY DEF IInv, LInv, Good
  <2>3. Len(memory) = volume.size /\ (Whole \/ CutShort)
    BY <2>2 DEF Copied
  <2>4. Len(Content) \in Nat /\ Len(Content) <= volume.size /\ volume.size \in Nat
    BY <2>1, ContentDomain, ChainTyped
  <2>5. \A i \in 1 .. Len(Content) : memory[i] = Content[i]
    BY <2>2, <2>4 DEF Copied
  <2>6. SubSeq(memory, 1, Len(Content)) = [i \in 1 .. Len(Content) |-> memory[i]]
    OBVIOUS
  <2>7. Content = [i \in 1 .. Len(Content) |-> Content[i]]
    <3> DEFINE m == Least(volume.size, Len(volume.chain) * ClustUnits)
    <3>1. Len(Content) = m
      BY <2>1, ContentDomain
    <3>2. DOMAIN Content = 1 .. m /\ Content = [i \in DOMAIN Content |-> Content[i]]
      BY DEF Content
    <3> HIDE DEF m
    <3>3. QED BY <3>1, <3>2
  <2>8. QED BY <2>3, <2>5, <2>6, <2>7
<1>2. QED BY <1>1, Invariance, PTL

-----------------------------------------------------------------------------
(* Nothing stops the boot from a volume that lists the file, can be read    *)
(* and holds the whole of it.                                               *)

(* Where the boot is from a volume that it does not fail on: before the     *)
(* entry listed, and in the fragments of a complete long name.              *)
Before(r, p, n) == ListedAt(volume, n) /\ p <= n /\ Begins(volume, p) /\ DirAt(r, p)

Within(r, p, n, i) ==
  LET e == Entry(volume, p)
  IN  /\ ListedAt(volume, n) /\ p < n /\ Begins(volume, p) /\ e.k = "lfn"
      /\ i \in 0 .. e.seq /\ p + i \in RootEntries(volume) /\ DirAt(r, p + i)
      /\ r.cnt = e.seq - i /\ r.crc = e.crc
      /\ Len(r.pieces) = i /\ (i = 1 => r.pieces = <<e.frag>>)

Boots(st, r) ==
  /\ st \notin Stopped \cup {"scan"}
  /\ st = "open" => r.name = "mnt"
  /\ st = "search" => \E n, p \in RootEntries(volume) : Before(r, p, n)
  /\ st = "fragments" => \E n, p \in RootEntries(volume) : \E i \in Nat : Within(r, p, n, i)

BInv == Bootable => Boots(stage, fat)

LEMMA BootableNeeds ==
  ASSUME IsVolume(volume), Bootable
  PROVE  /\ HasClusters /\ volume.bad = {} /\ Whole /\ volume.size \in Nat
         /\ volume.size % ClustUnits # 0
<1>1. volume.bad = {} /\ Whole /\ volume.size % ClustUnits # 0
  BY DEF Bootable
<1>2. /\ ClustUnits \in Nat \ {0} /\ volume.size \in Nat /\ volume.chain \in Seq(Clusters)
      /\ Len(volume.chain) \in Nat
  BY ClustUnitsNat, ChainTyped
<1>3. HasClusters
  <2>1. ASSUME volume.chain = <<>>
        PROVE  volume.size = 0
    <3> DEFINE x == volume.size + ClustUnits - 1
               y == x % ClustUnits
    <3>1. x \in Nat /\ x \in Int
      BY <1>2
    <3>2. Needed(volume) = 0
      BY <1>1, <2>1 DEF Whole
    <3>3. x \div ClustUnits = 0
      BY <3>2 DEF Needed
    <3> HIDE DEF x
    <3>4. y \in 0 .. ClustUnits - 1 /\ x = ClustUnits * (x \div ClustUnits) + y
      BY <1>2, <3>1, IntDivMod
    <3>5. x < ClustUnits
      <4>1. ClustUnits * 0 = 0
        BY <1>2
      <4> HIDE DEF y
      <4>2. QED BY <1>2, <3>1, <3>3, <3>4, <4>1
    <3>6. QED BY <1>2, <3>5 DEF x
  <2>2. QED BY <2>1 DEF HasClusters
<1>4. QED BY <1>1, <1>2, <1>3

(* A seek stays within the chain: the file does not end with a cluster.     *)
LEMMA SeekWithin ==
  ASSUME IsVolume(volume), Bootable, NEW off \in 0 .. volume.size
  PROVE  off \div ClustUnits < Len(volume.chain)
<1> DEFINE q == volume.size \div ClustUnits
           s == volume.size % ClustUnits
           x == volume.size + ClustUnits - 1
<1>1. /\ ClustUnits \in Nat \ {0} /\ volume.size \in Nat /\ Len(volume.chain) \in Nat
      /\ Whole /\ s # 0
  BY ClustUnitsNat, ChainTyped, BootableNeeds
<1>2. q \in Int /\ s \in 0 .. ClustUnits - 1 /\ volume.size = ClustUnits * q + s
  <2>1. volume.size \in Int
    BY <1>1
  <2>2. QED BY <1>1, <2>1, IntDivMod
<1>3. off \div ClustUnits \in Nat /\ off \div ClustUnits <= q
  <2>1. off \in Nat /\ off <= volume.size
    BY <1>1
  <2>2. QED BY <1>1, <2>1, QuotientGrows
<1> HIDE DEF q, s
<1>4. x = ClustUnits * (q + 1) + (s - 1) /\ s - 1 \in 0 .. ClustUnits - 1 /\ x \in Int
      /\ q + 1 \in Int
  BY <1>1, <1>2
<1> HIDE DEF x
<1>5. x \div ClustUnits = q + 1
  <2> DEFINE y == s - 1
             z == q + 1
  <2>1. x = ClustUnits * z + y /\ y \in 0 .. ClustUnits - 1 /\ z \in Int
    BY <1>4
  <2> HIDE DEF y, z
  <2>2. x \div ClustUnits = z
    BY <1>1, <1>4, <2>1, IntQuotientIsUnique
  <2>3. QED BY <2>2 DEF z
<1>6. Len(volume.chain) = q + 1
  BY <1>1, <1>5 DEF Whole, Needed, x
<1>7. QED BY <1>2, <1>3, <1>6

LEMMA ProbeBoots ==
  ASSUME Bootable, NEW r, Shape(r), r.err = "NONE"
  PROVE  probe(r, 1) = r
<1>1. /\ disk[0].t = "mbr" /\ disk[0].part[1] = Lba /\ disk[Lba].t = "bpb" /\ volume.bad = {}
  BY DEF Bootable
<1>2. get_part_lba(disk[0], 1) = Lba /\ ~check_fat(disk[0]) /\ check_fat(disk[Lba])
  BY <1>1 DEF get_part_lba, check_fat
<1>3. \A sect : ReadDisk(r, sect) = r
  BY <1>1 DEF ReadDisk
<1>4. Lba # 0
  BY Sizes
<1> DEFINE a == ReadDisk(r, 0)
           lba == get_part_lba(disk[0], 1)
           b == ReadDisk(a, lba)
<1>5. probe(r, 1) = IF a.err = "NONE"
          THEN CASE check_fat(disk[0]) -> IF 1 = 0 THEN a ELSE Fails(a, "NOFAT")
                 [] ~check_fat(disk[0]) /\ lba = 0 -> Fails(a, "NOFAT")
                 [] OTHER -> IF b.err = "NONE"
                             THEN IF check_fat(disk[lba]) THEN b ELSE Fails(b, "NOFAT")
                             ELSE b
          ELSE a
  BY Zenon DEF probe, Then
<1>6. a = r /\ b = r
  BY <1>3
<1> HIDE DEF a, b
<1>7. lba = Lba /\ lba # 0 /\ ~check_fat(disk[0]) /\ check_fat(disk[lba])
  BY <1>2, <1>4
<1> HIDE DEF lba
<1>8. QED BY <1>5, <1>6, <1>7

LEMMA MountBoots ==
  ASSUME Bootable, NEW r, Shape(r), r.err = "NONE"
  PROVE  fat_mount(r, 1).err = "NONE" /\ fat_mount(r, 1).name = "mnt"
<1>1. volume.bad = {} /\ disk[InfoSect].t = "info"
  BY DEF Bootable
<1>2. probe(r, 1) = r
  BY ProbeBoots
<1>3. ReadDisk(r, InfoSect) = r
  BY <1>1 DEF ReadDisk
<1> DEFINE a == probe(r, 1)
           b == ReadDisk(a, InfoSect)
           c == [b EXCEPT !.name = "mnt", !.sect = 0, !.last = disk[InfoSect].next_free]
<1>4. fat_mount(r, 1) =
          IF a.err = "NONE"
          THEN IF b.err = "NONE"
               THEN IF disk[InfoSect].t # "info" THEN Fails(b, "NOFAT") ELSE c
               ELSE b
          ELSE a
  BY Zenon DEF fat_mount, Then
<1>5. a = r /\ b = r
  BY <1>2, <1>3
<1> HIDE DEF a, b
<1>6. fat_mount(r, 1) = [r EXCEPT !.name = "mnt", !.sect = 0, !.last = disk[InfoSect].next_free]
  BY <1>1, <1>4, <1>5
<1>7. QED BY <1>6 DEF Shape

(* The entries before the one listed.                                       *)
LEMMA RootRange ==
  ASSUME IsVolume(volume), NEW n \in RootEntries(volume)
  PROVE  n \in Nat /\ \A x \in Nat : x <= n => x \in RootEntries(volume)
<1>1. volume.root \in Seq(Clusters)
  BY DEF IsVolume, Follows
<1>2. Len(volume.root) * SectPerClust \in Nat
  BY <1>1, Sizes
<1> DEFINE size == Len(volume.root) * SectPerClust * DirEnts
<1>3. size \in Nat
  <2> DEFINE y == Len(volume.root) * SectPerClust
  <2>1. y \in Nat
    BY <1>2
  <2> HIDE DEF y
  <2>2. y * DirEnts \in Nat
    BY <2>1, Sizes
  <2>3. QED BY <2>2 DEF y
<1>4. RootEntries(volume) = 0 .. size - 1
  BY DEF RootEntries
<1> HIDE DEF size
<1>5. QED BY <1>3, <1>4

LEMMA ListedStep ==
  ASSUME IsVolume(volume), NEW n \in RootEntries(volume), NEW p \in RootEntries(volume),
         ListedAt(volume, n), p <= n, Begins(volume, p)
  PROVE  LET e == Entry(volume, p)
         IN  /\ p < n \/ (e.k = "sfn" /\ e.name = "kernel")
             /\ e.k # "last"
             /\ e.k = "lfn" => LongNameAt(volume, p, n)
<1>1. n \in Nat /\ p \in Nat
  BY RootRange
<1>2. CASE p = n
  <2>1. Entry(volume, n).k = "sfn" /\ Entry(volume, n).name = "kernel"
    BY <1>2 DEF ListedAt, Begins
  <2>2. QED BY <1>2, <2>1
<1>3. CASE p # n
  <2>1. p < n /\ p \in 0 .. n - 1
    BY <1>1, <1>3
  <2>2. QED BY <2>1 DEF ListedAt
<1>4. QED BY <1>2, <1>3

\* A long name that ends at the entry listed is of one fragment, and its name.
LEMMA ListedByLongName ==
  ASSUME IsVolume(volume), NEW n \in RootEntries(volume), NEW p \in RootEntries(volume),
         ListedAt(volume, n), Begins(volume, p), LongNameAt(volume, p, n),
         Entry(volume, p).k = "lfn", p + Entry(volume, p).seq = n
  PROVE  Entry(volume, p).seq = 1 /\ Entry(volume, p).frag = "kernel"
<1> DEFINE s == Entry(volume, p).seq
<1>1. n \in Nat /\ p \in Nat
  BY RootRange
<1>2. /\ s \in 1 .. 20
      /\ \A i \in 1 .. s - 1 : Entry(volume, p + i).k = "lfn"
  BY DEF LongNameAt
<1>3. p + s = n
  OBVIOUS
<1> HIDE DEF s
<1>4. Entry(volume, n - 1).k = "lfn"
  <2>1. CASE s = 1
    <3>1. n - 1 = p
      BY <1>1, <1>3, <2>1
    <3>2. QED BY <3>1
  <2>2. CASE s # 1
    <3>1. s - 1 \in 1 .. s - 1 /\ p + (s - 1) = n - 1
      BY <1>1, <1>2, <1>3, <2>2
    <3>2. QED BY <1>2, <3>1
  <2>3. QED BY <2>1, <2>2
<1>5. n # 0
  BY <1>1, <1>2, <1>3
<1>6. /\ n > 0 /\ Begins(volume, n - 1)
      /\ Entry(volume, n - 1).seq = 1 /\ Entry(volume, n - 1).frag = "kernel"
  BY <1>4, <1>5 DEF ListedAt, Begins
<1>7. s = 1
  <2>1. ASSUME s # 1
        PROVE  FALSE
    <3>1. n - 1 # 0 /\ Entry(volume, n - 1 - 1).k # "lfn"
      <4>1. n - 1 # 0
        BY <1>1, <1>2, <1>3, <2>1
      <4>2. QED BY <1>6, <4>1 DEF Begins
    <3>2. CASE s = 2
      <4>1. n - 1 - 1 = p
        BY <1>1, <1>3, <3>2
      <4>2. QED BY <3>1, <4>1
    <3>3. CASE s # 2
      <4>1. s - 2 \in 1 .. s - 1 /\ p + (s - 2) = n - 1 - 1
        BY <1>1, <1>2, <1>3, <2>1, <3>3
      <4>2. QED BY <1>2, <3>1, <4>1
    <3>4. QED BY <3>2, <3>3
  <2>2. QED BY <2>1
<1>8. n - 1 = p
  BY <1>1, <1>3, <1>7
<1>9. QED BY <1>6, <1>7, <1>8 DEF s

LEMMA SkipBoots ==
  ASSUME IsVolume(volume), volume.bad = {}, NEW r, Shape(r), r.err = "NONE", Clean(r),
         r.next = "search", NEW n \in RootEntries(volume), ListedAt(volume, n),
         NEW x \in RootEntries(volume), x < n, DirAt(r, x), Entry(volume, x).k # "lfn"
  PROVE  dir_next(r).err = "NONE" /\ Boots(dir_next(r).next, dir_next(r))
<1> DEFINE t == dir_next(r)
<1>1. n \in Nat /\ x \in Nat /\ x + 1 <= n /\ x + 1 - 1 = x
  BY RootRange
<1>2. x + 1 \in RootEntries(volume)
  BY <1>1, RootRange
<1>3. KeptNext(r, t) /\ t.err = "NONE" /\ DirAt(t, x + 1)
  BY <1>2, DirNext
<1> HIDE DEF t
<1>4. t.next = "search"
  BY <1>3 DEF KeptNext
<1>5. Begins(volume, x + 1)
  BY <1>1 DEF Begins
<1>6. Before(t, x + 1, n)
  BY <1>1, <1>3, <1>5 DEF Before
<1>7. Boots("search", t)
  BY <1>2, <1>6 DEF Boots, Stopped
<1>8. QED BY <1>3, <1>4, <1>7 DEF t

LEMMA OpenBoots ==
  ASSUME IsVolume(volume), Bootable, NEW r, Shape(r), r.err = "NONE", Clean(r),
         r.sect = r.dir.sect, NEW x \in RootEntries(volume), DirAt(r, x), Named(volume, x)
  PROVE  Found(r).err = "NONE" /\ Boots(Found(r).next, Found(r))
<1> DEFINE t == Found(r)
<1>1. t.err = "NONE" /\ t.next = "read"
  BY BootableNeeds, FoundGood
<1> HIDE DEF t
<1>2. Boots("read", t)
  BY DEF Boots, Stopped
<1>3. QED BY <1>1, <1>2 DEF t

LEMMA SearchBoots ==
  ASSUME IsVolume(volume), Bootable, NEW r, Shape(r), Good("search", r, <<>>), Boots("search", r)
  PROVE  dir_search(r).err = "NONE" /\ Boots(dir_search(r).next, dir_search(r))
<1> DEFINE w == update_buf(r, r.dir.sect)
           t == dir_search(r)
<1>1. r.err = "NONE" /\ Clean(r) /\ r.next = "search"
  BY DEF Good, Early, Late
<1>2. PICK n, p \in RootEntries(volume) : Before(r, p, n)
  BY DEF Boots
<1> DEFINE e == Entry(volume, p)
<1>3. HasClusters /\ volume.bad = {}
  BY BootableNeeds
<1>4. /\ Shape(w) /\ Kept(r, w) /\ w.err = "NONE" /\ w.sect = r.dir.sect /\ Clean(w)
  BY <1>1, <1>3, UpdateBuf
<1>5. t = IF w.err = "NONE"
          THEN CASE Ent(w).k = "last" -> Fails(w, "EOF")
                 [] Ent(w).k = "free" -> dir_next(w)
                 [] Ent(w).k = "sfn"  -> IF Ent(w).name = "kernel" THEN Found(w) ELSE dir_next(w)
                 [] Ent(w).k = "lfn"  ->
                      IF ~Ent(w).head \/ Ent(w).seq > 20 THEN Fails(w, "BROKEN")
                      ELSE [w EXCEPT !.crc = Ent(w).crc, !.pieces = <<>>, !.cnt = Ent(w).seq,
                                     !.next = "fragments"]
          ELSE w
  BY SearchCases, Zenon
<1> HIDE DEF w, t
<1>6. w.dir = r.dir /\ w.next = "search" /\ DirAt(w, p) /\ w.sect = w.dir.sect
  BY <1>1, <1>2, <1>4 DEF Kept, DirAt, Before
<1>7. Ent(w) = e
  BY <1>4, <1>6, EntryUnder
<1>8. ListedAt(volume, n) /\ p <= n /\ Begins(volume, p)
  BY <1>2 DEF Before
<1>9. /\ p < n \/ (e.k = "sfn" /\ e.name = "kernel")
      /\ e.k # "last"
      /\ e.k = "lfn" => LongNameAt(volume, p, n)
  BY <1>8, ListedStep
<1>10. e.k \in {"last", "free", "sfn", "lfn"}
  BY DEF IsVolume
<1> HIDE DEF e
<1>11. CASE e.k = "free" \/ (e.k = "sfn" /\ e.name # "kernel")
  <2>1. t = dir_next(w)
    BY <1>4, <1>5, <1>7, <1>11
  <2>2. p < n /\ Entry(volume, p).k # "lfn"
    BY <1>9, <1>11 DEF e
  <2>3. QED BY <1>3, <1>4, <1>6, <1>8, <2>1, <2>2, SkipBoots DEF t
<1>12. CASE e.k = "sfn" /\ e.name = "kernel"
  <2>1. t = Found(w)
    BY <1>4, <1>5, <1>7, <1>12
  <2>2. Named(volume, p)
    BY <1>12 DEF Named, e
  <2>3. QED BY <1>4, <1>6, <2>1, <2>2, OpenBoots DEF t
<1>13. CASE e.k = "lfn"
  <2> DEFINE u == [w EXCEPT !.crc = e.crc, !.pieces = <<>>, !.cnt = e.seq, !.next = "fragments"]
  <2>1. e.head /\ e.seq \in 1 .. 20 /\ p + e.seq <= n
    BY <1>9, <1>13 DEF LongNameAt, e
  <2>2. ~(~e.head \/ e.seq > 20)
    BY <2>1
  <2>3. t = u
    BY <1>4, <1>5, <1>7, <1>13, <2>2
  <2>4. /\ u.err = w.err /\ u.dir = w.dir /\ u.crc = e.crc /\ u.pieces = <<>> /\ u.cnt = e.seq
        /\ u.next = "fragments"
    BY <1>4 DEF Shape
  <2> HIDE DEF u
  <2>5. p \in Nat /\ n \in Nat
    BY RootRange
  <2>6. p + 0 = p /\ 0 \in 0 .. e.seq /\ e.seq = e.seq - 0 /\ p < n
    <3> DEFINE s == e.seq
    <3>1. s \in 1 .. 20 /\ p + s <= n
      BY <2>1
    <3> HIDE DEF s
    <3>2. p + 0 = p /\ 0 \in 0 .. s /\ s = s - 0 /\ p < n
      BY <2>5, <3>1
    <3>3. QED BY <3>2 DEF s
  <2>7. DirAt(u, p + 0)
    BY <1>6, <2>4, <2>6 DEF DirAt
  <2>8. Within(u, p, n, 0)
    <3>1. Len(<<>>) = 0
      OBVIOUS
    <3>2. u.cnt = e.seq - 0 /\ Len(u.pieces) = 0 /\ 0 # 1
      BY <2>4, <2>6, <3>1
    <3>3. QED BY <1>8, <1>13, <2>4, <2>6, <2>7, <3>2 DEF Within, e
  <2>9. Boots("fragments", u)
    BY <2>8 DEF Boots, Stopped
  <2>10. QED BY <1>4, <2>3, <2>4, <2>9 DEF t
<1>14. QED BY <1>9, <1>10, <1>11, <1>12, <1>13

\* What is left of a long name.
LEMMA WithinStep ==
  ASSUME IsVolume(volume), NEW r, NEW n \in RootEntries(volume), NEW p \in RootEntries(volume),
         NEW i \in Nat, Within(r, p, n, i), r.cnt \in Nat
  PROVE  LET e == Entry(volume, p)
             x == Entry(volume, p + i)
         IN  /\ p + i \in RootEntries(volume) /\ p + e.seq <= n /\ e.seq \in 1 .. 20
             /\ r.cnt > 0 => /\ x.k = "lfn" /\ x.crc = r.crc /\ i + 1 <= e.seq
                             /\ p + i + 1 \in RootEntries(volume)
             /\ r.cnt = 0 => x.k = "sfn" /\ x.name = r.crc /\ i = e.seq
<1> DEFINE e == Entry(volume, p)
<1>1. /\ ListedAt(volume, n) /\ p < n /\ Begins(volume, p) /\ e.k = "lfn"
      /\ i \in 0 .. e.seq /\ p + i \in RootEntries(volume)
      /\ r.cnt = e.seq - i /\ r.crc = e.crc
  BY DEF Within
<1>2. LongNameAt(volume, p, n)
  BY <1>1, RootRange, ListedStep
<1>3. /\ e.seq \in 1 .. 20 /\ p + e.seq <= n
      /\ \A j \in 1 .. e.seq - 1 : Entry(volume, p + j).k = "lfn" /\ Entry(volume, p + j).crc = e.crc
      /\ Entry(volume, p + e.seq).k = "sfn" /\ Entry(volume, p + e.seq).name = e.crc
  BY <1>2 DEF LongNameAt
<1>4. p \in Nat /\ n \in Nat
  BY RootRange
<1>5. CASE r.cnt > 0
  <2>1. i + 1 <= e.seq /\ p + i + 1 <= n /\ p + i + 1 \in Nat
    BY <1>1, <1>3, <1>4, <1>5
  <2>2. p + i + 1 \in RootEntries(volume)
    BY <2>1, RootRange
  <2>3. Entry(volume, p + i).k = "lfn" /\ Entry(volume, p + i).crc = e.crc
    <3>1. CASE i = 0
      <4>1. p + i = p
        BY <1>4, <3>1
      <4>2. QED BY <1>1, <4>1
    <3>2. CASE i # 0
      <4>1. i \in 1 .. e.seq - 1
        BY <1>1, <1>3, <2>1, <3>2
      <4>2. QED BY <1>3, <4>1
    <3>3. QED BY <3>1, <3>2
  <2>4. QED BY <1>1, <1>3, <1>5, <2>1, <2>2, <2>3
<1>6. CASE r.cnt = 0
  <2>1. i = e.seq
    BY <1>1, <1>3, <1>6
  <2>2. QED BY <1>1, <1>3, <1>6, <2>1
<1>7. QED BY <1>5, <1>6

LEMMA FragmentBoots ==
  ASSUME IsVolume(volume), Bootable, NEW r, Shape(r), Good("fragments", r, <<>>),
         Boots("fragments", r), r.cnt > 0
  PROVE  Fragment(r).err = "NONE" /\ Boots(Fragment(r).next, Fragment(r))
<1>1. /\ r.err = "NONE" /\ Clean(r) /\ r.next = "fragments" /\ r.cnt \in Nat /\ Collected(r)
      /\ r.sect = r.dir.sect
  BY DEF Good, Early, Late
<1>2. PICK n, p \in RootEntries(volume) : \E i \in Nat : Within(r, p, n, i)
  BY DEF Boots
<1>3. PICK i \in Nat : Within(r, p, n, i)
  BY <1>2
<1> DEFINE e == Ent(r)
           f == Entry(volume, p)
           q == [r EXCEPT !.pieces = <<e.frag>> \o @, !.cnt = @ - 1]
           w == dir_next(q)
           x == update_buf(w, w.dir.sect)
           t == Fragment(r)
<1>4. /\ p + i \in RootEntries(volume) /\ Entry(volume, p + i).k = "lfn"
      /\ Entry(volume, p + i).crc = r.crc /\ i + 1 <= f.seq /\ f.seq \in 1 .. 20
      /\ p + i + 1 \in RootEntries(volume)
  BY <1>1, <1>3, WithinStep
<1>5. /\ DirAt(r, p + i) /\ ListedAt(volume, n) /\ p < n /\ Begins(volume, p) /\ f.k = "lfn"
      /\ r.cnt = f.seq - i /\ r.crc = f.crc /\ Len(r.pieces) = i
  BY <1>3 DEF Within
<1>6. e = Entry(volume, p + i)
  BY <1>1, <1>4, <1>5, EntryUnder
<1>7. volume.bad = {}
  BY BootableNeeds
<1>8. t = IF e.k # "lfn" \/ e.crc # r.crc THEN Fails(r, "BROKEN")
          ELSE IF w.err = "NONE" THEN x ELSE w
  BY DEF Fragment, Then
<1>9. ~(e.k # "lfn" \/ e.crc # r.crc)
  BY <1>4, <1>6
<1>10. i = 0 => e.frag = f.frag
  <2>1. i = 0 => p + i = p
    BY RootRange
  <2>2. QED BY <1>6, <2>1
<1> HIDE DEF e, t, f
<1>11. /\ Shape(q) /\ q.err = "NONE" /\ q.sect = r.sect /\ q.buf = r.buf /\ q.dir = r.dir
       /\ q.next = "fragments" /\ q.crc = r.crc /\ q.cnt = r.cnt - 1
       /\ q.pieces = <<e.frag>> \o r.pieces
  BY <1>1 DEF Shape
<1> HIDE DEF q
<1>12. Clean(q) /\ DirAt(q, p + i)
  BY <1>1, <1>5, <1>11 DEF Clean, DirAt
<1>13. Len(q.pieces) = i + 1 /\ (i + 1 = 1 => q.pieces = <<f.frag>>)
  <2> DEFINE one == <<e.frag>>
             rest == r.pieces
  <2>1. IsSeq(one) /\ Len(one) = 1
    <3>1. <<e.frag>> \in Seq({e.frag}) /\ Len(<<e.frag>>) = 1
      OBVIOUS
    <3>2. QED BY <3>1 DEF IsSeq
  <2>2. IsSeq(rest) /\ Len(rest) = i
    BY <1>1, <1>5 DEF Collected
  <2>3. q.pieces = one \o rest
    BY <1>11
  <2>4. i = 0 => one = <<f.frag>>
    BY <1>10
  <2> HIDE DEF one, rest
  <2>5. Len(one \o rest) = Len(one) + Len(rest) /\ (rest = <<>> => one \o rest = one)
    BY <2>1, <2>2, Appended
  <2>6. i = 0 => rest = <<>>
    <3>1. PICK S : rest \in Seq(S)
      BY <2>2 DEF IsSeq
    <3>2. QED BY <2>2, <3>1
  <2>7. Len(q.pieces) = i + 1
    BY <2>1, <2>2, <2>3, <2>5
  <2>8. i + 1 = 1 => i = 0
    OBVIOUS
  <2>9. QED BY <2>3, <2>4, <2>5, <2>6, <2>7, <2>8
<1>14. /\ Shape(w) /\ KeptNext(q, w) /\ w.err = "NONE" /\ Clean(w) /\ DirAt(w, p + i + 1)
  BY <1>4, <1>7, <1>11, <1>12, DirNext
<1> HIDE DEF w
<1>15. Shape(x) /\ Kept(w, x) /\ x.err = "NONE"
  BY <1>7, <1>14, UpdateBuf
<1>16. t = x
  BY <1>8, <1>9, <1>14
<1> HIDE DEF x
<1>17. /\ x.dir = w.dir /\ x.next = "fragments" /\ x.crc = r.crc /\ x.cnt = r.cnt - 1
       /\ x.pieces = q.pieces
  BY <1>11, <1>14, <1>15 DEF Kept, KeptName, KeptNext
<1>18. /\ p + (i + 1) = p + i + 1 /\ i + 1 \in Nat /\ i + 1 \in 0 .. f.seq
       /\ r.cnt - 1 = f.seq - (i + 1)
  <2> DEFINE s == f.seq
  <2>1. p \in Nat
    BY RootRange
  <2>2. s \in 1 .. 20 /\ i + 1 <= s /\ r.cnt = s - i
    BY <1>4, <1>5
  <2> HIDE DEF s
  <2>3. i + 1 \in 0 .. s /\ r.cnt - 1 = s - (i + 1) /\ p + (i + 1) = p + i + 1
    BY <2>1, <2>2
  <2>4. QED BY <2>3 DEF s
<1>19. DirAt(x, p + (i + 1))
  BY <1>14, <1>17, <1>18 DEF DirAt
<1>20. Within(x, p, n, i + 1)
  BY <1>4, <1>5, <1>13, <1>17, <1>18, <1>19 DEF Within, f
<1>21. Boots("fragments", x)
  BY <1>18, <1>20 DEF Boots, Stopped
<1>22. QED BY <1>15, <1>16, <1>17, <1>21 DEF t

LEMMA LongNameBoots ==
  ASSUME IsVolume(volume), Bootable, NEW r, Shape(r), Good("fragments", r, <<>>),
         Boots("fragments", r), r.cnt = 0
  PROVE  LongName(r).err = "NONE" /\ Boots(LongName(r).next, LongName(r))
<1>1. /\ r.err = "NONE" /\ Clean(r) /\ r.cnt \in Nat /\ Collected(r) /\ r.sect = r.dir.sect
  BY DEF Good, Early, Late
<1>2. PICK n, p \in RootEntries(volume) : \E i \in Nat : Within(r, p, n, i)
  BY DEF Boots
<1>3. PICK i \in Nat : Within(r, p, n, i)
  BY <1>2
<1> DEFINE e == Ent(r)
           f == Entry(volume, p)
           q == [r EXCEPT !.next = "search"]
           t == LongName(r)
<1>4. /\ p + i \in RootEntries(volume) /\ Entry(volume, p + i).k = "sfn"
      /\ Entry(volume, p + i).name = r.crc /\ i = f.seq /\ f.seq \in 1 .. 20 /\ p + f.seq <= n
  BY <1>1, <1>3, WithinStep
<1>5. /\ DirAt(r, p + i) /\ ListedAt(volume, n) /\ p < n /\ Begins(volume, p) /\ f.k = "lfn"
      /\ r.crc = f.crc /\ (i = 1 => r.pieces = <<f.frag>>)
  BY <1>3 DEF Within
<1>6. e = Entry(volume, p + i)
  BY <1>1, <1>4, <1>5, EntryUnder
<1>7. volume.bad = {}
  BY BootableNeeds
<1>8. t = CASE e.k # "sfn" -> Fails(r, "BROKEN")
            [] e.k = "sfn" /\ e.name # r.crc -> Fails(r, "BROKEN")
            [] e.k = "sfn" /\ e.name = r.crc ->
                 IF r.pieces = <<"kernel">> THEN Found(r) ELSE dir_next(q)
  BY Zenon DEF LongName
<1>9. e.k = "sfn" /\ e.name = r.crc
  BY <1>4, <1>6
<1>10. p + i = n => r.pieces = <<"kernel">>
  <2>1. LongNameAt(volume, p, n)
    BY <1>5, RootRange, ListedStep
  <2>2. p + i = n => f.seq = 1 /\ f.frag = "kernel"
    BY <1>4, <1>5, <2>1, ListedByLongName
  <2>3. QED BY <1>4, <1>5, <2>2
<1> HIDE DEF e, t, f
<1>11. CASE r.pieces = <<"kernel">>
  <2>1. t = Found(r)
    BY <1>8, <1>9, <1>11
  <2>2. PICK m \in RootEntries(volume) : /\ Entry(volume, m).k = "lfn"
                                         /\ Entry(volume, m).frag = "kernel"
                                         /\ Entry(volume, m).crc = r.crc
    <3>1. 1 \in 1 .. Len(r.pieces) /\ r.pieces[1] = "kernel"
      BY <1>11
    <3>2. QED BY <1>1, <3>1 DEF Collected
  <2>3. Named(volume, p + i)
    BY <1>4, <2>2 DEF Named
  <2>4. QED BY <1>1, <1>4, <1>5, <2>1, <2>3, OpenBoots DEF t
<1>12. CASE r.pieces # <<"kernel">>
  <2>1. t = dir_next(q)
    BY <1>8, <1>9, <1>12
  <2>2. /\ Shape(q) /\ q.err = "NONE" /\ q.sect = r.sect /\ q.buf = r.buf /\ q.dir = r.dir
        /\ q.next = "search"
    BY <1>1 DEF Shape
  <2> HIDE DEF q
  <2>3. Clean(q) /\ DirAt(q, p + i)
    BY <1>1, <1>5, <2>2 DEF Clean, DirAt
  <2>4. p + i < n
    <3>1. p \in Nat /\ n \in Nat
      BY RootRange
    <3>2. p + i # n /\ p + i <= n
      BY <1>4, <1>10, <1>12
    <3>3. QED BY <3>1, <3>2
  <2>5. Entry(volume, p + i).k # "lfn"
    BY <1>4
  <2>6. dir_next(q).err = "NONE" /\ Boots(dir_next(q).next, dir_next(q))
    BY <1>4, <1>5, <1>7, <2>2, <2>3, <2>4, <2>5, SkipBoots
  <2>7. QED BY <2>1, <2>6 DEF t
<1>13. QED BY <1>11, <1>12

(* The links of a file that is there whole.                                 *)
LEMMA FollowBoots ==
  ASSUME IsVolume(volume), Bootable, NEW r, NEW m, Shape(r), Good("follow", r, m), r.links > 0
  PROVE  FollowLink(r).err = "NONE" /\ FollowLink(r).next = "follow"
<1> DEFINE k == r.off \div ClustUnits - r.links
           c == r.f.clust
           w == get_fat(r, c)
           x == [w EXCEPT !.f.clust = w.val, !.links = @ - 1]
           t == FollowLink(r)
<1>1. r.err = "NONE" /\ Clean(r) /\ Seeking(r, m) /\ r.next = "follow"
  BY DEF Good, Early, Late
<1>2. volume.bad = {} /\ volume.size \in Nat
  BY BootableNeeds
<1>3. /\ k \in Nat /\ r.links - 1 \in 0 .. r.off \div ClustUnits
      /\ r.off \div ClustUnits - (r.links - 1) = k + 1 /\ AtLink(r, k)
      /\ r.off \in 0 .. volume.size /\ r.off \div ClustUnits \in Nat
  BY <1>1, OneLinkLess DEF Seeking, Reading, Copied
<1>4. r.off \div ClustUnits < Len(volume.chain)
  BY <1>3, SeekWithin
<1>5. k + 1 <= r.off \div ClustUnits
  <2> DEFINE q == r.off \div ClustUnits
  <2>1. q \in Nat /\ r.links - 1 \in 0 .. q /\ q - (r.links - 1) = k + 1
    BY <1>3
  <2> HIDE DEF q, k
  <2>2. QED BY <2>1 DEF q
<1>6. volume.chain \in Seq(Clusters) /\ Len(volume.chain) \in Nat
  BY ChainTyped
<1> HIDE DEF k
<1>7. k < Len(volume.chain) /\ k + 1 < Len(volume.chain)
  BY <1>3, <1>4, <1>5, <1>6
<1>8. c = volume.chain[k + 1] /\ c \in Clusters
  BY <1>3, <1>6, <1>7 DEF AtLink
<1>9. Link(volume, c) \in Clusters
  <2>1. k + 1 \in 1 .. Len(volume.chain) - 1
    BY <1>3, <1>6, <1>7
  <2>2. Link(volume, c) = volume.chain[k + 1 + 1]
    BY <1>8, <2>1 DEF IsVolume, Follows
  <2>3. volume.chain[k + 1 + 1] \in Clusters
    BY <1>6, <2>1
  <2>4. QED BY <2>2, <2>3
<1> HIDE DEF c
<1>10. w.err = "NONE" /\ w.fl = "used"
  <2>1. c \in 0 .. ClustCnt - 1
    BY <1>8 DEF Clusters
  <2>2. /\ w.err = "NONE" => (w.fl = "used" <=> Link(volume, c) \in Clusters)
        /\ volume.bad = {} /\ Link(volume, c) \in Clusters => w.err = "NONE"
    BY <1>1, <2>1, GetFatValue
  <2>3. QED BY <1>2, <1>9, <2>2
<1>11. Shape(w) /\ Kept(r, w)
  BY <1>1, GetFat
<1>12. t = IF w.err # "NONE" THEN w
          ELSE CASE w.fl \in {"bad", "free"} -> Fails(w, "BROKEN")
                 [] w.fl = "last" -> stretch_chain(w)
                 [] OTHER -> x
  BY DEF FollowLink, Then, c
<1> HIDE DEF w, t
<1>13. t = x
  BY <1>10, <1>12
<1>14. x.err = w.err /\ x.next = w.next
  BY <1>11 DEF Shape
<1>15. w.next = "follow"
  BY <1>1, <1>11 DEF Kept
<1> HIDE DEF x
<1>16. QED BY <1>10, <1>13, <1>14, <1>15 DEF t

LEMMA ArriveBoots ==
  ASSUME Bootable, NEW r, NEW m, Shape(r), Good("follow", r, m)
  PROVE  LET t == MoveTo([r EXCEPT !.next = "copy"])
         IN  t.err = "NONE" /\ t.next = "copy"
<1> DEFINE q == [r EXCEPT !.next = "copy"]
           t == MoveTo(q)
<1>1. r.err = "NONE" /\ r.f.buf = r.ssect /\ volume.bad = {}
  BY DEF Good, Early, Late, Seeking, Opened, Bootable
<1>2. Shape(q) /\ q.err = "NONE" /\ q.next = "copy" /\ q.f = r.f /\ q.ssect = r.ssect
  BY <1>1 DEF Shape
<1> HIDE DEF q
<1>3. t.err = "NONE" /\ t.next = "copy"
  BY <1>1, <1>2, MoveToEnds
<1>4. QED BY <1>3 DEF t, q

LEMMA CopyGoesOn ==
  ASSUME IsVolume(volume), NEW r, NEW m, Shape(r), Good("copy", r, m),
         r.len > 0, r.f.off < r.f.size
  PROVE  CopyTurn(r).err = "NONE" /\ CopyTurn(r).next = "follow"
<1> DEFINE idx  == r.f.off % Units
           n    == Least(r.len, Least(Units - idx, r.f.size - r.f.off))
           off  == r.f.off + n
           t    == [r EXCEPT !.got = @ \o [i \in 1 .. n |-> <<r.f.buf, idx + i - 1>>],
                             !.len = @ - n, !.off = off, !.ssect = r.f.sect, !.next = "follow"]
           u    == [t EXCEPT !.f.clust = t.f.sclust, !.f.off = 0,
                             !.f.sect = clust_to_sect(t.f.sclust)]
<1>1. r.err = "NONE"
  BY DEF Good, Early, Late
<1>2. PICK w \in {t, u} : \E l : CopyTurn(r) = [w EXCEPT !.links = l]
  BY DEF CopyTurn
<1>3. Shape(t) /\ t.err = "NONE" /\ t.next = "follow"
  <2> HIDE DEF idx, n, off
  <2>1. QED BY <1>1 DEF Shape
<1> HIDE DEF t
<1>4. Shape(u) /\ u.err = "NONE" /\ u.next = "follow"
  BY <1>3 DEF Shape
<1> HIDE DEF u
<1>5. Shape(w) /\ w.err = "NONE" /\ w.next = "follow"
  BY <1>2, <1>3, <1>4
<1>6. QED BY <1>2, <1>5 DEF Shape

LEMMA StepsBoot ==
  ASSUME IsVolume(volume), Bootable, Shape(fat), Good(stage, fat, memory), Boots(stage, fat),
         LoaderNext
  PROVE  Boots(stage', fat')
<1>1. Shape(fat) /\ Good(stage, fat, memory) /\ Boots(stage, fat)
  OBVIOUS
\* Once the file is found, only a failure matters.
<1>2. ASSUME NEW st \in {"mount", "read", "copy", "follow", "close", "kernel"}, NEW r
      PROVE  Boots(st, r)
  BY DEF Boots, Stopped
<1>3. CASE Probe
  <2> DEFINE t == [probe(fat, 1) EXCEPT !.next = "mount"]
  <2>1. stage = "probe" /\ Goes(t, "failed probe")
    BY <1>3 DEF Probe
  <2>2. Good("probe", fat, <<>>) /\ Boots("probe", fat)
    BY <1>1, <2>1, StillEmpty DEF Early
  <2>3. t.err = "NONE" /\ t.next = "mount"
    <3>1. fat.err = "NONE"
      BY <2>2 DEF Good, Early, Late
    <3>2. probe(fat, 1) = fat
      BY <1>1, <3>1, ProbeBoots
    <3>3. QED BY <1>1, <3>1, <3>2 DEF Shape
  <2> HIDE DEF t
  <2>9. stage' = t.next /\ fat' = t
    BY <2>1, <2>3 DEF Goes
  <2>10. QED BY <1>2, <2>3, <2>9
<1>4. CASE Mount
  <2> DEFINE t == [fat_mount(fat, 1) EXCEPT !.next = "open"]
  <2>1. stage = "mount" /\ Goes(t, "failed mount")
    BY <1>4 DEF Mount
  <2>2. Good("mount", fat, <<>>) /\ Boots("mount", fat)
    BY <1>1, <2>1, StillEmpty DEF Early
  <2>3. t.err = "NONE" /\ Boots(t.next, t)
    <3> DEFINE w == fat_mount(fat, 1)
    <3>1. fat.err = "NONE"
      BY <2>2 DEF Good, Early, Late
    <3>2. Shape(w) /\ w.err = "NONE" /\ w.name = "mnt"
      BY <1>1, <3>1, MountBoots, MountParts
    <3> HIDE DEF w
    <3>3. t.err = "NONE" /\ t.name = "mnt" /\ t.next = "open"
      BY <3>2 DEF Shape, w
    <3>4. Boots("open", t)
      BY <3>3 DEF Boots, Stopped
    <3>5. QED BY <3>3, <3>4
  <2> HIDE DEF t
  <2>9. stage' = t.next /\ fat' = t
    BY <2>1, <2>3 DEF Goes
  <2>10. QED BY <2>3, <2>9
<1>5. CASE Open
  <2> DEFINE t == follow_path(fat)
  <2>1. stage = "open" /\ Goes(t, "no file")
    BY <1>5 DEF Open
  <2>2. Good("open", fat, <<>>) /\ Boots("open", fat)
    BY <1>1, <2>1, StillEmpty DEF Early
  <2>3. t.err = "NONE" /\ Boots(t.next, t)
    <3> DEFINE w == dir_at_clust(fat, RootClust)
               x == [w EXCEPT !.next = "search"]
    <3>1. fat.err = "NONE" /\ fat.name = "mnt"
      BY <2>2 DEF Good, Boots, Early, Late
    <3>2. t = x
      BY <3>1 DEF follow_path
    <3>3. /\ Shape(w) /\ w.err = fat.err
          /\ w.dir.clust = RootClust /\ w.dir.sect = clust_to_sect(RootClust) /\ w.dir.idx = 0
      BY <1>1, DirAtClust
    <3> HIDE DEF w
    <3>4. x.err = w.err /\ x.dir = w.dir /\ x.next = "search"
      BY <3>3 DEF Shape
    <3> HIDE DEF x, t
    <3>5. 0 \in RootEntries(volume) /\ DirAt(x, 0)
      BY <3>3, <3>4, RootIsFirst
    <3>6. PICK n \in RootEntries(volume) : ListedAt(volume, n)
      BY DEF Bootable
    <3>7. 0 <= n
      BY <3>6, RootRange
    <3>8. Before(x, 0, n)
      BY <3>5, <3>6, <3>7 DEF Before, Begins
    <3>9. Boots("search", x)
      BY <3>5, <3>8 DEF Boots, Stopped
    <3>10. QED BY <3>1, <3>2, <3>3, <3>4, <3>9
  <2> HIDE DEF t
  <2>9. stage' = t.next /\ fat' = t
    BY <2>1, <2>3 DEF Goes
  <2>10. QED BY <2>3, <2>9
<1>6. CASE Search
  <2> DEFINE t == dir_search(fat)
  <2>1. stage = "search" /\ Goes(t, "no file")
    BY <1>6 DEF Search
  <2>2. Good("search", fat, <<>>) /\ Boots("search", fat)
    BY <1>1, <2>1, StillEmpty DEF Early
  <2>3. t.err = "NONE" /\ Boots(t.next, t)
    BY <1>1, <2>1, <2>2, SearchBoots
  <2> HIDE DEF t
  <2>9. stage' = t.next /\ fat' = t
    BY <2>1, <2>3 DEF Goes
  <2>10. QED BY <2>3, <2>9
<1>7. CASE ParseFragment
  <2> DEFINE t == Fragment(fat)
  <2>1. stage = "fragments" /\ fat.cnt > 0 /\ Goes(t, "no file")
    BY <1>7 DEF ParseFragment
  <2>2. Good("fragments", fat, <<>>) /\ Boots("fragments", fat)
    BY <1>1, <2>1, StillEmpty DEF Early
  <2>3. t.err = "NONE" /\ Boots(t.next, t)
    BY <1>1, <2>1, <2>2, FragmentBoots
  <2> HIDE DEF t
  <2>9. stage' = t.next /\ fat' = t
    BY <2>1, <2>3 DEF Goes
  <2>10. QED BY <2>3, <2>9
<1>8. CASE CompareName
  <2> DEFINE t == LongName(fat)
  <2>1. stage = "fragments" /\ fat.cnt = 0 /\ Goes(t, "no file")
    BY <1>8 DEF CompareName
  <2>2. Good("fragments", fat, <<>>) /\ Boots("fragments", fat)
    BY <1>1, <2>1, StillEmpty DEF Early
  <2>3. t.err = "NONE" /\ Boots(t.next, t)
    BY <1>1, <2>1, <2>2, LongNameBoots
  <2> HIDE DEF t
  <2>9. stage' = t.next /\ fat' = t
    BY <2>1, <2>3 DEF Goes
  <2>10. QED BY <2>3, <2>9
<1>9. CASE Read
  BY <1>2, <1>9 DEF Read
<1>10. CASE Copy
  <2> DEFINE t == CopyTurn(fat)
  <2>1. stage = "copy" /\ fat.len > 0 /\ fat.f.off < fat.f.size /\ Goes(t, "failed read")
    BY <1>10 DEF Copy, Copying
  <2>2. Good("copy", fat, memory)
    BY <1>1, <2>1
  <2>3. t.err = "NONE" /\ t.next = "follow"
    BY <1>1, <2>1, <2>2, CopyGoesOn
  <2> HIDE DEF t
  <2>4. stage' = "follow"
    BY <2>1, <2>3 DEF Goes
  <2>5. QED BY <1>2, <2>4
<1>11. CASE Arrive
  <2> DEFINE t == MoveTo([fat EXCEPT !.next = "copy"])
  <2>1. stage = "follow" /\ Goes(t, "failed read")
    BY <1>11 DEF Arrive
  <2>2. Good("follow", fat, memory)
    BY <1>1, <2>1
  <2>3. t.err = "NONE" /\ t.next = "copy"
    BY <1>1, <2>2, ArriveBoots
  <2> HIDE DEF t
  <2>4. stage' = "copy"
    BY <2>1, <2>3 DEF Goes
  <2>5. QED BY <1>2, <2>4
<1>12. CASE ReturnRead
  <2>1. stage = "copy" /\ Returns(fat)
    BY <1>12 DEF ReturnRead
  <2>2. fat.err = "NONE"
    BY <1>1, <2>1 DEF Good, Late
  <2>3. stage' = "close" \/ stage' = "read"
    <3>1. stage' = CASE Len(fat.got) < Units -> "close"
                     [] Len(fat.got) = Units /\ fat.err # "NONE" -> "failed read"
                     [] OTHER -> "read"
      BY <2>1 DEF Returns
    <3>2. ~(Len(fat.got) = Units /\ fat.err # "NONE")
      BY <2>2
    <3>3. QED BY <3>1, <3>2, Zenon
  <2>4. QED BY <1>2, <2>3
<1>13. CASE Follow
  <2> DEFINE t == FollowLink(fat)
  <2>1. stage = "follow" /\ fat.links > 0 /\ Continues(t)
    BY <1>13 DEF Follow
  <2>2. Good("follow", fat, memory)
    BY <1>1, <2>1
  <2>3. t.err = "NONE" /\ t.next = "follow"
    BY <1>1, <2>1, <2>2, FollowBoots
  <2> HIDE DEF t
  <2>4. stage' = "follow"
    BY <2>1, <2>3 DEF Continues, Goes
  <2>5. QED BY <1>2, <2>4
<1>14. CASE Scan
  BY <1>1, <1>14 DEF Scan, Boots
<1>15. CASE Close
  <2> DEFINE t == CloseFile(fat)
  <2>1. stage = "close" /\ Goes(t, "kernel")
    BY <1>15 DEF Close, CloseFile
  <2>2. (t.err = "NONE" => t.next = "kernel") /\ t.err # "POLLING"
    BY <1>1, CloseParts DEF Bootable
  <2> HIDE DEF t
  <2>3. stage' = "kernel"
    BY <2>1, <2>2 DEF Goes
  <2>4. QED BY <1>2, <2>3
<1>16. QED BY <1>3, <1>4, <1>5, <1>6, <1>7, <1>8, <1>9, <1>10, <1>11, <1>12, <1>13, <1>14,
              <1>15 DEF LoaderNext

\* What is bootable of the volume stays so.
LEMMA UnmovedBoots ==
  ASSUME IsVolume(volume), volume' = volume
  PROVE  /\ Bootable' => Bootable
         /\ Boots(stage', fat') => Boots(stage, fat)'
<1>1. (Whole' <=> Whole)
  BY DEF Whole
<1>2. Bootable' => Bootable
  BY <1>1 DEF Bootable, disk
<1>3. (\E n, p \in RootEntries(volume) : Before(fat, p, n))' <=>
        \E n, p \in RootEntries(volume) : Before(fat', p, n)
  BY DEF Before, DirAt
<1>4. (\E n, p \in RootEntries(volume) : \E i \in Nat : Within(fat, p, n, i))' <=>
        \E n, p \in RootEntries(volume) : \E i \in Nat : Within(fat', p, n, i)
  BY DEF Within, DirAt
<1>5. QED BY <1>2, <1>3, <1>4 DEF Boots

(* main.c:47-78: no failure that main stops at is one of a volume that can *)
(* be read, lists the file before anything ill formed and holds all of it, *)
(* the last cluster not to its end.                                        *)
THEOREM WholeFileIsBooted == LoaderSpec => []WholeFileBoots
<1>1. LoaderInit => BInv
  BY DEF LoaderInit, BInv, Boots, Stopped
<1>2. IInv /\ BInv /\ [LoaderNext]_loaderVars => BInv'
  <2> SUFFICES ASSUME IInv, BInv, [LoaderNext]_loaderVars
               PROVE  BInv'
    OBVIOUS
  <2>1. IsVolume(volume)
    BY VolumeIs
  <2>2. volume' = volume
    BY DEF LoaderNext, loaderVars, Probe, Mount, Open, Search, ParseFragment, CompareName,
           Read, Copy, Follow, Scan, Arrive, ReturnRead, Close, Goes, Continues, Returns
  <2>3. Bootable => Shape(fat) /\ Good(stage, fat, memory) /\ Boots(stage, fat)
    BY <2>1, BootableNeeds DEF IInv, LInv, BInv
  <2>4. Bootable => Boots(stage', fat')
    <3>1. CASE LoaderNext
      BY <2>1, <2>3, <3>1, StepsBoot
    <3>2. CASE UNCHANGED loaderVars
      BY <2>3, <3>2 DEF loaderVars
    <3>3. QED BY <3>1, <3>2
  <2>5. (Bootable' => Bootable) /\ (Boots(stage', fat') => Boots(stage, fat)')
    BY <2>1, <2>2, UnmovedBoots
  <2>6. QED BY <2>4, <2>5 DEF BInv
<1>3. BInv => WholeFileBoots
  BY DEF BInv, Boots, WholeFileBoots
<1>4. QED BY <1>1, <1>2, <1>3, Invariance, PTL DEF LoaderSpec
=============================================================================
