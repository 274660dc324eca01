------------------------------ MODULE DriverLoader ------------------------------
(***************************************************************************)
(* attempt_install_driver (driver_base.c): the display driver is loaded    *)
(* from a file, moved to where its pages are, and installed, before the    *)
(* kernel asks for the first program. Its pages and those of the programs  *)
(* that ElfLoader loads later are of one address space.                    *)
(*                                                                         *)
(* A driver file is linked at address 0 and moved by a whole number of     *)
(* pages. A word of its memory is known by how often it was moved; the     *)
(* relocations PC32 spoil theirs, by subtracting the address as well.      *)
(***************************************************************************)
EXTENDS ElfLoader, FiniteSets

CONSTANT DriverFiles   \* the files: [type, headers, dynamic, rel, rela,
                       \*   strings, driver] as their operators below say

VARIABLES
  boot,     \* where attempt_install_driver is: it ends "installed" or "returned"
  file,     \* the driver's file
  header,   \* the program header at work
  delta,    \* base_delta_ready and current_delta, in pages
  dynamic,  \* dyn_location, 0 if null
  segments, \* pages_for_each_segment: the first page and the size of each
  moved,    \* how often each word was moved
  errno     \* what is returned

driverVars == <<boot, file, header, delta, dynamic, segments, moved, errno>>

Goto(l) == boot' = l
\* "goto cleanup" with an error.
Fail(code) == errno' = code /\ Goto("cleanup")

NoFile == [type |-> "not_elf", headers |-> <<>>, dynamic |-> <<>>, rel |-> <<>>,
           rela |-> <<>>, strings |-> FALSE, driver |-> "none"]

\* kernel_main before the call: nothing above the kernel's pages is mapped.
BootInit == /\ owner = PagesOf({})
            /\ mode = "prompt" /\ program = <<>> /\ next = 1 /\ todo = <<>>
            /\ addrs = <<>> /\ addrs_size = 0 /\ lost = {}
            /\ heap_base = NullPage /\ caller = "kernel"
            /\ boot = "open" /\ file = NoFile /\ header = 1
            /\ delta = [ready |-> FALSE, pages |-> 0] /\ dynamic = 0
            /\ segments = <<>> /\ moved = <<>> /\ errno = 0

Locals == <<file, header, delta, dynamic, segments, moved>>

\* A page that is not mapped, or the list of segments before it is made.
PageFault == /\ mode' = "panicked" /\ Goto("done")
             /\ UNCHANGED <<owner, Locals, errno>>

(* A file that cannot be opened is read all the same, the read refuses it, *)
(* and the cleanup starts with whatever the stack holds for the list.      *)
OpenFile == /\ boot = "open"
            /\ \E f \in DriverFiles :
                 \/ file' = f /\ Goto("headers")
                    /\ UNCHANGED <<mode, owner, header, delta, dynamic, segments, moved, errno>>
                 \/ PageFault

(* Both lists of headers are read, each after the file's first bytes; any  *)
(* of the reads may fail. Then the type.                                   *)
is_elf_file == file.type # "not_elf"

load_program_headers_elf ==
  /\ boot = "headers"
  /\ Fail(3) \/ (is_elf_file /\ Goto("sections") /\ UNCHANGED errno)
  /\ UNCHANGED <<owner, mode, Locals>>

load_section_headers_elf ==
  /\ boot = "sections"
  /\ \/ Fail(3)
     \/ is_elf_file /\ file.type # "executable" /\ Fail(4)
     \/ is_elf_file /\ file.type = "executable" /\ Goto("segments") /\ UNCHANGED errno
  /\ UNCHANGED <<owner, mode, Locals>>

--------------------------------------------------------------------------------
(* The segments.                                                           *)

\* virtual_addr and size_mem, rounded to pages.
PageOffset(h) == h.va % PageBytes
PagesNeeded(h) == (h.memsz + PageOffset(h) + PageBytes - 1) \div PageBytes

PagesFrom(start, n) == {(start + i) % TotalPages : i \in 0 .. n - 1}
Free(p) == owner[p] = "none"

\* alloc_page_range: the first run of free pages.
FreeRun(start, n) == n > 0 /\ start + n <= TotalPages /\ \A p \in start .. start + n - 1 : Free(p)
FirstRun(start, n) == FreeRun(start, n) /\ \A s \in 0 .. start - 1 : ~FreeRun(s, n)

Take(pages) == owner' = [p \in Pages |-> IF p \in pages /\ owner[p] = "none"
                                         THEN "driver" ELSE owner[p]]

\* The first segment goes where there is room, the others keep their distance. A
\* null page passes for a free one, and is not mapped.
Placed(h, start) ==
  IF ~delta.ready THEN FirstRun(start, PagesNeeded(h))
  ELSE /\ start = (FirstPage(h) + delta.pages) % TotalPages
       /\ \A p \in PagesFrom(start, PagesNeeded(h)) : Free(p) \/ p = NullPage

\* Where an address of the file is, moved by d pages, and the pages from there.
At(va, d) == (va + d * PageBytes) % (TotalPages * PageBytes)
PageAt(va, d) == At(va, d) \div PageBytes
Reach(va, n, d) == {PageAt(va + i, d) : i \in 0 .. n - 1}

(* Whatever of the segment was mapped stays on the list of the cleanup.    *)
LoadDriverSegment(h) ==
  \/ /\ \A start \in Pages : ~Placed(h, start)
     /\ Fail(5)
     /\ UNCHANGED <<owner, mode, Locals>>
  \/ \E start \in Pages :
       /\ Placed(h, start)
       /\ Take(PagesFrom(start, PagesNeeded(h)))
       /\ delta' = IF delta.ready THEN delta
                   ELSE [ready |-> TRUE, pages |-> start - FirstPage(h)]
       /\ segments' = Append(segments, [page |-> start, size |-> PagesNeeded(h)])
       /\ moved' = [a \in DOMAIN moved \cup (h.va .. h.va + h.memsz - 1) |-> 0]
       /\ \/ Fail(6) /\ UNCHANGED <<mode, header>>
          \/ IF \A p \in Reach(h.va, h.memsz, delta'.pages)
                         \cup Reach(h.va, h.filesz, delta'.pages) : owner'[p] \notin {"none", "null"}
             THEN header' = header + 1 /\ UNCHANGED <<mode, boot, errno>>
             ELSE mode' = "panicked" /\ Goto("done") /\ UNCHANGED <<header, errno>>
       /\ UNCHANGED <<file, dynamic>>

DriverSegment ==
  /\ boot = "segments" /\ header \in DOMAIN file.headers
  /\ LET h == file.headers[header]
     IN  \/ h.kind = "load" /\ LoadDriverSegment(h)
         \/ /\ h.kind # "load"
            /\ dynamic' = IF h.kind = "dynamic" THEN At(h.va, delta.pages) ELSE dynamic
            /\ header' = header + 1
            /\ UNCHANGED <<boot, file, delta, segments, moved, errno, mode, owner>>

--------------------------------------------------------------------------------
(* .dynamic and the relocations.                                           *)

\* The entries up to DT_NULL; the last of a tag counts, 0 if there is none.
Entries(f) == {i \in DOMAIN f.dynamic : \A j \in 1 .. i : f.dynamic[j].tag # "null"}
Tagged(f, tag) == {i \in Entries(f) : f.dynamic[i].tag = tag}
Dyn(f, tag) == IF Tagged(f, tag) = {} THEN 0
               ELSE f.dynamic[CHOOSE i \in Tagged(f, tag) : \A j \in Tagged(f, tag) : j <= i].val

RelBytes == 8
RelaBytes == 12

Linked(f) == Tagged(f, "needed") \cup Tagged(f, "soname") # {}
Tables(f) == Tagged(f, "rel") \cup Tagged(f, "rela")
SizesDisagree(f) == Dyn(f, "relent") # RelBytes /\ Dyn(f, "relaent") # RelaBytes
Refusal == IF dynamic = 0 \/ Linked(file) THEN 7
           ELSE IF Tables(file) = {} THEN 8 ELSE IF SizesDisagree(file) THEN 9 ELSE 0

\* dyn_location was computed with the delta that was known then: at address 0 it
\* passes for null. (In the kernel's pages, where no file has it, it counts as a fault.)
ReadDynamic ==
  /\ boot = "segments" /\ header \notin DOMAIN file.headers
  /\ IF dynamic # 0 /\ owner[dynamic \div PageBytes] # "driver" THEN PageFault
     ELSE /\ \/ Refusal # 0 /\ Fail(Refusal)
             \/ Refusal = 0 /\ Goto("relocate") /\ UNCHANGED errno
          /\ UNCHANGED <<owner, mode, Locals>>

\* Both tables, one after the other, as far as their sizes say.
Listing(f, table, start, size, ent) ==
  IF Tagged(f, start) # {} /\ Dyn(f, ent) # 0
  THEN SubSeq(table, 1, Dyn(f, size) \div Dyn(f, ent)) ELSE <<>>
RelList(f) == Listing(f, f.rel, "rel", "relsz", "relent")
RelaList(f) == Listing(f, f.rela, "rela", "relasz", "relaent")
RelOnly(f) == RelList(f)   \* mutant: the other table is forgotten
Relocations(f) == RelList(f) \o RelaList(f)

(* Files of a linker: where .dynamic is not refused it lists all of both   *)
(* tables, and no two of their entries move the same word.                 *)
DriverHeader == [kind : {"load", "dynamic", "other"}, va : Nat, filesz : Nat, memsz : Nat]
Relocation == [type : {"none", "32", "pc32", "relative", "other"}, offset : Nat]
Moving(r) == r.type \in {"32", "relative"}
ASSUME DriverAssumption ==
  \A f \in DriverFiles :
    /\ f.headers \in Seq(DriverHeader)
    /\ f.rel \in Seq(Relocation) /\ f.rela \in Seq(Relocation)
    /\ ~Linked(f) /\ Tables(f) # {} /\ ~SizesDisagree(f) =>
         /\ RelList(f) = f.rel /\ RelaList(f) = f.rela
         /\ \A i, j \in DOMAIN Relocations(f) :
              LET r == Relocations(f)[i]  s == Relocations(f)[j]
              IN  Moving(r) /\ Moving(s) /\ r.offset = s.offset => i = j

Known == {"none", "32", "pc32", "relative"}
UnknownAt == {i \in DOMAIN Relocations(file) : Relocations(file)[i].type \notin Known}
\* The relocations before the first that is not known.
Applied == {i \in DOMAIN Relocations(file) : \A j \in 1 .. i : j \notin UnknownAt}
Spoiled == -1
MovedBy(a) ==
  LET here == {i \in Applied : Relocations(file)[i].offset = a}
  IN  IF \E i \in here : Relocations(file)[i].type = "pc32" THEN Spoiled
      ELSE moved[a] + Cardinality({i \in here : Moving(Relocations(file)[i])})

Relocate ==
  /\ boot = "relocate"
  /\ IF \E i \in Applied : Relocations(file)[i].type # "none"
          /\ owner[PageAt(Relocations(file)[i].offset, delta.pages)] # "driver"
     THEN PageFault
     ELSE /\ moved' = [a \in DOMAIN moved |-> MovedBy(a)]
          /\ IF UnknownAt = {} THEN Goto("strings") /\ UNCHANGED errno
             ELSE Fail(IF \E i \in UnknownAt : i <= Len(RelList(file)) THEN 10 ELSE 11)
          /\ UNCHANGED <<owner, mode, file, header, delta, dynamic, segments>>

--------------------------------------------------------------------------------
(* The section .astatine_driver, and the end.                              *)

\* install_driver: -13, no device, or some; Devices has the rest of it. A file
\* without the section is no error.
install_driver ==
  \/ file.driver = "unverified" /\ Fail(13)
  \/ file.driver \in {"none", "verified"} /\ Goto("cleanup") /\ UNCHANGED errno
  \/ file.driver = "verified" /\ Goto("installed") /\ UNCHANGED errno

\* A file without the string table's section faults on the missing header.
FindDriver ==
  /\ boot = "strings"
  /\ IF ~file.strings THEN PageFault
     ELSE (Fail(12) \/ install_driver) /\ UNCHANGED <<owner, mode, Locals>>

SegmentPages == UNION {PagesFrom(segments[i].page, segments[i].size) : i \in DOMAIN segments}

CleanupDriver ==
  /\ boot = "cleanup" /\ Goto("returned")
  /\ owner' = [p \in Pages |-> IF p \in SegmentPages /\ owner[p] = "driver"
                               THEN "none" ELSE owner[p]]
  /\ UNCHANGED <<Locals, mode, errno>>

\* Whatever was returned, the kernel asks for the first program.
AskForProgram ==
  /\ boot \in {"installed", "returned"} /\ Goto("done")
  /\ file' = NoFile /\ header' = 1 /\ delta' = [ready |-> FALSE, pages |-> 0]
  /\ dynamic' = 0 /\ segments' = <<>> /\ moved' = <<>> /\ errno' = 0
  /\ UNCHANGED <<mode, owner>>

attempt_install_driver == \/ OpenFile \/ load_program_headers_elf \/ load_section_headers_elf
                          \/ DriverSegment \/ ReadDynamic
                          \/ Relocate \/ FindDriver \/ CleanupDriver \/ AskForProgram

BootNext == \/ boot # "done" /\ attempt_install_driver
               /\ UNCHANGED <<program, next, todo, pagelist, heap_base, caller>>
            \/ boot = "done" /\ Next /\ UNCHANGED driverVars

BootSpec == BootInit /\ [][BootNext]_<<vars, driverVars>>

--------------------------------------------------------------------------------
(* An installed driver has exactly the pages of its segments, each at its  *)
(* distance from the others and every byte of it mapped; one that was not  *)
(* installed, at whatever point it failed, leaves no page of its behind,   *)
(* and no kernel page is touched.                                          *)
LoadHeader(i) == file.headers[i].kind = "load"
DriverPagesExact ==
  /\ boot = "returned" => owner = PagesOf({})
  /\ boot = "installed" =>
       /\ owner = PagesOf(SegmentPages)
       /\ \A i \in DOMAIN file.headers : LoadHeader(i) =>
            LET h == file.headers[i]
            IN  Reach(h.va, h.memsz, delta.pages) \subseteq HeldBy("driver")

(* In an installed driver every word that the file lists for relocation    *)
(* was moved once, and no other word, but for those PC32 spoils.           *)
Listed32 == {file.rel[i] : i \in DOMAIN file.rel} \cup {file.rela[i] : i \in DOMAIN file.rela}
ListedAs(a, types) == \E r \in Listed32 : r.offset = a /\ r.type \in types
DriverMovedOnce ==
  boot = "installed" =>
    \A a \in DOMAIN moved :
      moved[a] = IF ListedAs(a, {"pc32"}) THEN Spoiled
                 ELSE IF ListedAs(a, {"32", "relative"}) THEN 1 ELSE 0

(* A driver file ends up in memory as its headers and tables say, or not   *)
(* at all.                                                                 *)
DriverPlaced == DriverPagesExact /\ DriverMovedOnce
================================================================================
