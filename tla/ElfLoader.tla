----------------------------- MODULE ElfLoader -----------------------------
(***************************************************************************)
(* elf_load_and_run, elf_free and the loadnew system call, over the pages  *)
(* that Paging maps.  A page is known by who holds it: alloc_page_at_addr  *)
(* succeeds exactly on a page nobody holds, and free_page takes away any   *)
(* page above the kernel's, whoever mapped it.                             *)
(*                                                                         *)
(* A program is the list of its program headers.  One load at a time runs, *)
(* in the kernel; a page that is mapped and recorded is a step.            *)
(*                                                                         *)
(* The array of recorded pages is kmalloc's.  An address is stored before  *)
(* the array is made larger, so that one of them may lie behind it.        *)
(***************************************************************************)
EXTENDS Integers, Sequences

CONSTANTS
  Programs,      \* the files: sequences of program headers
  PageBytes,     \* bytes of a page (4096)
  TotalPages,    \* pages of the address space
  KernelPages,   \* pages of the identity map (1024), the null page first
  HeapPages,     \* pages of a program's heap (64)
  StackBase,     \* first page of a program's stack (0x8200)
  StackPages,    \* pages of a program's stack (16)
  BlockWords     \* addresses in a block of the kernel's heap (8)

Pages == 0 .. TotalPages - 1
NullPage == 0

(* What the loader reads of a program header.                              *)
Header == [load : BOOLEAN, va : Nat, filesz : Nat, memsz : Nat]

FirstPage(h) == h.va \div PageBytes

ASSUME LoaderAssumption ==
  /\ PageBytes \in Nat \ {0}
  /\ KernelPages \in Nat \ {0} /\ TotalPages \in Nat /\ KernelPages < TotalPages
  /\ HeapPages \in Nat /\ StackPages \in Nat /\ BlockWords \in Nat \ {0}
  /\ StackBase \in Pages /\ StackBase + StackPages <= TotalPages
  /\ Programs \subseteq Seq(Header)
  \* No segment wraps around the end of the address space.
  /\ \A f \in Programs : \A i \in DOMAIN f :
       /\ f[i].filesz <= f[i].memsz
       /\ FirstPage(f[i]) + (f[i].memsz \div PageBytes) < TotalPages

VARIABLES
  owner,      \* who holds each page
  mode,       \* what the kernel is doing
  program,    \* the file being loaded or run
  next,       \* the header elf_load_and_run reads next
  todo,       \* the pages the loop at work has yet to visit
  addrs,      \* the page list, addrs_top while the program runs
  addrs_size, \* how many addresses were asked of kmalloc for it
  lost,       \* (history) the pages whose entry was overwritten, until they are freed
  heap_base,  \* the first page of the program's heap
  caller      \* where a failed load returns to

pagelist == <<addrs, addrs_size, lost>>
vars == <<owner, mode, program, next, todo, pagelist, heap_base, caller>>

Owners == {"none", "null", "kernel", "driver", "program"}
HeldBy(who) == {p \in Pages : owner[p] = who}
Listed(pages) == {pages[i] : i \in DOMAIN pages}

(* The kernel loop, after attempt_install_driver: the display driver holds *)
(* pages above the kernel's, or none when it found no device.              *)
PagesOf(driver) == [p \in Pages |-> IF p = NullPage THEN "null"
                                    ELSE IF p < KernelPages THEN "kernel"
                                    ELSE IF p \in driver THEN "driver" ELSE "none"]

Init == /\ \E driver \in SUBSET (KernelPages .. TotalPages - 1) : owner = PagesOf(driver)
        /\ mode = "prompt" /\ program = <<>> /\ next = 1 /\ todo = <<>>
        /\ addrs = <<>> /\ addrs_size = 0 /\ lost = {} /\ heap_base = NullPage /\ caller = "kernel"

-----------------------------------------------------------------------------
(* alloc_page_at_addr: only a page nobody holds.                           *)
Claim(page) == [p \in Pages |-> IF p = page /\ owner[p] = "none"
                                THEN "program" ELSE owner[p]]

(* addrs[addrs_count++] = page, and then twice the room if there was none. *)
(* Behind an array that fills its blocks is another block of the heap: in  *)
(* use, and the word belongs to somebody; free, and the address survives   *)
(* until krealloc copies it; or free and the first of the larger array,    *)
(* which is copied forwards, the first entry over this one.                *)
Full == Len(addrs) = addrs_size
BehindArray == Full /\ addrs_size % BlockWords = 0
Record(page) ==
  /\ addrs_size' = IF Full THEN 2 * addrs_size ELSE addrs_size
  /\ \/ addrs' = Append(addrs, page) /\ UNCHANGED lost
     \/ /\ BehindArray
        /\ addrs' = Append(addrs, addrs[1])
        /\ lost' = lost \cup {page}
\* What happens after a foreign word is overwritten is not followed.
Corrupt == /\ BehindArray
           /\ mode' = "corrupted"
           /\ UNCHANGED <<owner, todo, pagelist>>

(* free_page of each page of a list.  Its argument is not looked up in any *)
(* record of who mapped it; a kernel page stops the machine.               *)
Release(pages) == [p \in Pages |-> IF p \in Listed(pages) /\ owner[p] \in {"driver", "program"}
                                   THEN "none" ELSE owner[p]]
FreesKernelPage(pages) == \E p \in Listed(pages) : owner[p] = "kernel"

Panic == /\ mode' = "panicked"
         /\ UNCHANGED <<owner, program, next, todo, pagelist, heap_base, caller>>

(* elf_load_and_run gives up: its caller is the kernel loop, or a program  *)
(* whose pages loadnew has freed and which faults on its next instruction. *)
(* Its variables are gone.                                                 *)
Return == /\ mode' = IF caller = "kernel" THEN "prompt" ELSE "faulted"
          /\ program' = <<>> /\ next' = 1 /\ todo' = <<>>
          /\ addrs' = <<>> /\ addrs_size' = 0
          /\ heap_base' = NullPage /\ caller' = "kernel"

(* The start of elf_load_and_run: room for one address per header, and     *)
(* kmalloc(0) panics.                                                      *)
Start(f, who) == /\ program' = f /\ caller' = who
                 /\ next' = 1 /\ todo' = <<>> /\ heap_base' = NullPage
                 /\ addrs' = <<>> /\ addrs_size' = Len(f)
                 /\ mode' = IF f = <<>> THEN "panicked" ELSE "loading"

(* The kernel loop, on a file that is_elf accepts.  (A file that cannot be *)
(* opened or whose header cannot be read leaves the loop as it was.)       *)
elf_load_and_run(f) == /\ mode = "prompt"
                       /\ Start(f, "kernel")
                       /\ UNCHANGED <<owner, lost>>

-----------------------------------------------------------------------------
(* The pages the loop over a segment visits, from its unaligned address in *)
(* steps of a page up to and including address + size.                     *)
SegmentRound(h) == [i \in 1 .. (h.memsz \div PageBytes) |-> FirstPage(h) + i - 1]  \* mutant: < for <=
SegmentAbove(h) == [i \in 1 .. (h.memsz \div PageBytes) + 2 |-> FirstPage(h) + i - 1]  \* mutant: a page too many
SegmentList(h) == [i \in 1 .. (h.memsz \div PageBytes) + 1 |-> FirstPage(h) + i - 1]

(* The pages the first n bytes of a segment lie in.                        *)
Extent(h, n) == IF n = 0 THEN {} ELSE FirstPage(h) .. (h.va + n - 1) \div PageBytes

Loading == mode = "loading" /\ next \in DOMAIN program

(* Not a segment to load.                                                  *)
SkipHeader == /\ Loading
              /\ ~program[next].load
              /\ next' = next + 1
              /\ UNCHANGED <<owner, mode, program, todo, pagelist, heap_base, caller>>

(* The header lies outside the file, cannot be read, or its sizes disagree.*)
RejectHeader == /\ Loading
                /\ mode' = "cleanup"
                /\ UNCHANGED <<owner, program, next, todo, pagelist, heap_base, caller>>

BeginSegment == /\ Loading
                /\ program[next].load
                /\ mode' = "segment" /\ todo' = SegmentList(program[next])
                /\ UNCHANGED <<owner, program, next, pagelist, heap_base, caller>>

(* A page of the segment is recorded, and then mapped; one that is refused *)
(* stays on the list.                                                      *)
MapSegmentPage ==
  /\ mode = "segment" /\ todo # <<>>
  /\ \/ Corrupt
     \/ /\ Record(Head(todo))
        /\ owner' = Claim(Head(todo))
        /\ IF owner[Head(todo)] = "none" THEN todo' = Tail(todo) /\ UNCHANGED mode
           ELSE mode' = "cleanup" /\ todo' = <<>>
  /\ UNCHANGED <<program, next, heap_base, caller>>

(* Its bytes are read once every page is mapped: a failed read cleans up,  *)
(* and a byte outside the pages mapped faults.                             *)
ReadSegment ==
  /\ mode = "segment" /\ todo = <<>>
  /\ \/ mode' = "cleanup" /\ UNCHANGED next
     \/ IF \A p \in Extent(program[next], program[next].filesz) :
             owner[p] \in {"kernel", "driver", "program"}
        THEN mode' = "loading" /\ next' = next + 1
        ELSE mode' = "faulted" /\ UNCHANGED next
  /\ UNCHANGED <<owner, program, todo, pagelist, heap_base, caller>>

Cleanup == /\ mode = "cleanup"
           /\ IF FreesKernelPage(addrs) THEN Panic
              ELSE /\ owner' = Release(addrs) /\ lost' = lost \ Listed(addrs)
                   /\ Return

-----------------------------------------------------------------------------
(* The highest address is looked for among as many entries as there are    *)
(* headers: later ones are not looked at, and the entries never written    *)
(* hold what the heap block held before (-1: a zero, which is no address). *)
Scanned == {addrs[i] : i \in DOMAIN addrs \cap DOMAIN program}
Unwritten == IF Len(addrs) < Len(program) THEN Pages \cup {-1} ELSE {-1}
IsHighest(a) == /\ a \in Scanned \cup Unwritten
                /\ \A s \in Scanned : s <= a

HeapList(base) == [i \in 1 .. HeapPages |-> (base + i - 1) % TotalPages]
StackList == [i \in 1 .. StackPages |-> StackBase + i - 1]

Loaded == mode = "loading" /\ next \notin DOMAIN program

(* No segment was loaded: 4 is returned.                                   *)
NothingToRun == /\ Loaded
                /\ IsHighest(-1)
                /\ Return
                /\ UNCHANGED <<owner, lost>>

(* The heap after the highest address, the stack, and into the program.    *)
Launch == /\ Loaded
          /\ \E a \in Pages :
               /\ IsHighest(a)
               /\ heap_base' = (a + 1) % TotalPages
               /\ todo' = HeapList(heap_base') \o StackList
          /\ mode' = "launching"
          /\ UNCHANGED <<owner, program, next, pagelist, caller>>

(* Whether a page was mapped is not looked at; it is recorded either way.  *)
MapLaunchPage ==
  /\ mode = "launching" /\ todo # <<>>
  /\ \/ Corrupt
     \/ /\ owner' = Claim(Head(todo))
        /\ Record(Head(todo))
        /\ todo' = Tail(todo) /\ UNCHANGED mode
  /\ UNCHANGED <<program, next, heap_base, caller>>

entryuser32 == /\ mode = "launching" /\ todo = <<>>
               /\ mode' = "running"
               /\ UNCHANGED <<owner, program, next, todo, pagelist, heap_base, caller>>

(* loadnew: the running program is freed before the new one is loaded.     *)
(* (A bad path or a file that is not an ELF only returns -1.)              *)
FreesNothing(pages) == owner   \* mutant: loadnew forgets elf_free
elf_free(pages) == Release(pages)

loadnew(f) == /\ mode = "running"
              /\ IF FreesKernelPage(addrs) THEN Panic
                 ELSE /\ owner' = elf_free(addrs) /\ lost' = lost \ Listed(addrs)
                      /\ \/ Start(f, "program")
                         \* the file cannot be opened or read this time
                         \/ mode' = "faulted" /\ caller' = "program"
                            /\ UNCHANGED <<program, next, todo, addrs, addrs_size, heap_base>>

Next == \/ \E f \in Programs : elf_load_and_run(f) \/ loadnew(f)
        \/ SkipHeader \/ RejectHeader \/ BeginSegment \/ MapSegmentPage \/ ReadSegment
        \/ Cleanup \/ NothingToRun \/ Launch \/ MapLaunchPage \/ entryuser32

Spec == Init /\ [][Next]_vars

-----------------------------------------------------------------------------
TypeOK == /\ owner \in [Pages -> Owners]
          /\ mode \in {"prompt", "loading", "segment", "launching", "cleanup", "running",
                       "faulted", "panicked", "corrupted"}
          /\ program \in Programs \cup {<<>>}
          /\ next \in 1 .. Len(program) + 1
          /\ todo \in Seq(Pages)
          /\ addrs \in Seq(Pages) /\ addrs_size \in Nat /\ lost \subseteq Pages
          /\ heap_base \in Pages
          /\ caller \in {"kernel", "program"}

(* A program leaves nothing behind but what its page list lost: when the   *)
(* kernel asks for the next file after a load that failed at any point,    *)
(* and when a new load starts in place of a running program, no page of an *)
(* earlier one is still mapped, except where the growing list overwrote    *)
(* the page's entry.                                                       *)
OnlyLostPagesStay ==
  mode = "prompt" \/ (mode = "loading" /\ addrs = <<>>) => HeldBy("program") \subseteq lost

(* A program that runs has its stack and its heap mapped, though nothing   *)
(* looked at whether they could be, and every byte of its page-aligned     *)
(* segments in pages of its own, never in one of the driver or the kernel. *)
Memory == Listed(HeapList(heap_base)) \cup Listed(StackList)
Aligned(h) == h.va % PageBytes = 0
RunningProgramIsMapped ==
  mode = "running" =>
    /\ \A p \in Memory : p # NullPage => owner[p] # "none"
    /\ \A i \in DOMAIN program :
         program[i].load /\ Aligned(program[i]) =>
            Extent(program[i], program[i].memsz) \subseteq HeldBy("program")

(* The driver loses a page only to a program that asks for it: in one of   *)
(* the segments read so far, the byte after its end included (the loop's   *)
(* <= visits its page), or, once it runs, in its heap or its stack.  What  *)
(* an earlier program recorded, or what grows over the list, frees none.   *)
Segments == UNION {Extent(program[i], program[i].memsz + 1) :
                     i \in {j \in DOMAIN program : j <= next /\ program[j].load}}
Asked == Segments \cup IF mode \in {"launching", "running"} THEN Memory ELSE {}
DriverLosesOnlyAsked ==
  [][\A p \in Pages : mode # "prompt" /\ owner[p] = "driver" /\ owner'[p] # "driver"
                        => p \in Asked]_vars
=============================================================================
