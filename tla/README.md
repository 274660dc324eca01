# A TLA+ development of AstatineOS

AstatineOS is a 32-bit x86 hobby operating system in C: a boot loader, one
kernel that maps itself into the first 4 MiB, driver files and user programs in
ELF, a FAT32 volume on a PATA disk, and a text screen. Everything runs in ring
0 on one thread; only interrupt handlers interleave with it. This directory
models the system from its source (paths below are relative to
`src/primary/kernel/` of the repository where no other root is given), checks it
with TLC on small instances, and proves the most important results with TLAPS
for every instance.

## 1. Inventory

| Part | State it keeps | Operations | What is hard | What makes it correct |
|---|---|---|---|---|
| Boot loader, `bootloader_partition/loader.aex/` | its own FAT32 library, the kernel's image | probe, mount, open, read loop, jump | a fake write under a writing library, an error looked at a round late | what is jumped into is the kernel's file |
| Frame allocator, `memory/memory.c` | bitmap of 4 KiB frames, hint of the next free frame | `init_mem`, `alloc_frame`, `free_frame` | a hint used untested, a sweep by bitmap elements, exhaustion | a frame is never given out twice, none is lost, the kernel's are never given out |
| Paging, `memory/paging.c` | directory, tables, a 16-bit count per table | `paging_init`, `alloc_page_at_addr`, `free_page`, range calls, `alloc_page`, null-page toggles | tables that come and go on the heap, unchecked results, drifting counts | pages have frames of their own, no leak, no dangling table, the identity map stays |
| Kernel heap, `memory/malloc.c` | bitmap of 32-byte blocks, a table of records that lives on the heap it describes | `kmalloc_aligned`, `kfree`, `krealloc` | the table is reallocated with itself | live regions are disjoint, every one has its record, only bad pointers panic |
| Program loader, `elfloader/elfloader.c`, `systemcalls/calls/loadnew.c` | list of the running program's pages, which grows while it is filled, heap base | `elf_load_and_run`, `elf_free`, `loadnew` | failure at every header and page, ignored results, clean-up, replacing the caller, an address stored behind the list | nothing of an old program stays mapped but what the list lost, a running one has its memory, a driver loses only pages that were asked for |
| Devices and drivers, `basedevice/`, `driver_base/` | device list and tree, driver indexes, instances per subsystem | `register_device`, `install_driver`, subsystem registration, discovery | calls that nest through init, failing inits, pages of driver files | one driver per device, unique ids, no index or instance into unmapped code |
| Driver files, `driver_base/driver_base.c` | pages per segment, the distance the file is moved by | `attempt_install_driver` | many early exits to one clean-up, two tables of relocations | all of the file's pages or none, every word moved once |
| FAT32, `fat32/fat32.c` (adapted library) | one-sector cache, one or two tables, directory entries, handles with a sector of their own | mount, open, read, write, seek, sync, unlink, directory calls | order of sector writes, a drive or the power failing in between, two copies of a sector | a store of files; chains disjoint; a power cut touches no other file |
| PATA disk, `disk/pata/disk.c` | channels, registers two drives share | `ide_initialize`, `ide_ata_access` | three address forms, polling, which drive is selected | transfers reach the sector they name |
| Interrupts and timer, `interrupt/`, `timer/PIT.c` | lines in service, handlers on the stack, tick | stub, end-of-interrupt, `sleep` | handlers that nest, test-then-halt | the first controller is always acknowledged, sleep ends |
| Keyboard, `ps2/keyboard.c` | one-bit tick, current key, modifiers | IRQ 1 handler, `wait_for_keypress`, `input` | handler against polling reader | reads return keys in order, none twice |
| Terminal, `terminal/`, `display/simple/display.c` | line being edited, cursor, colour, escape state | `terminal_read`, `terminal_write`, the teletype, printing and scrolling | editing, escapes cut across writes, wrapping | what is returned is what was edited, and what is shown |
| Loadable text drivers, `src/primary/drivers/display/` | cells or what is drawn in them | `set_char`, `get_char`, `set_string`, clearing | one of them draws its cells, and scrolling reads them back one by one | the two branches of `display.c` do the same in one mode, the frame buffer shows the cells |
| System calls, `systemcalls/` | descriptor table of 256 | open, read, write, setmode, loadnew, abort | no close, failing opens, table bound in bytes | descriptors are independent, nothing leaks |
| basicbasic, `src/primary/programs/programs/basicbasic/` | typed line, history, stored program, what was drawn | typing, commands, running | a cache of the screen, runs that resume, quitting in a turn | the screen shows the state, the place in the program exists |
| Exceptions and panic | none | print, nap, reboot | interrupts go on meanwhile | it ends |
| Graphics, FPU, GDT/IDT tables, speaker, string helpers, shell, process stubs | written once or none | port writes, drawing, pure conversions | - | - |

How they interact. The boot loader copies the kernel to memory and jumps into it.
`kernel.c:main` calls, in this order, discovery
(`register_device`), `install_driver` of the two disk drivers, the mount of the
boot volume, and `attempt_install_driver` of a display driver; then it loops,
asking for a program and giving it to `elf_load_and_run`. Paging calls the
frame allocator for each page and the heap for each page table. The loader and
`attempt_install_driver` call paging and read files through FAT32, which reads
sectors through the active disk driver. `register_device` calls driver inits,
and the init of a disk controller calls `register_device`. A running program
enters the kernel by system calls, one of which (`loadnew`) replaces it; the
others work on descriptors of files, of the terminal and of the teletype. The
interrupt handlers share the key, the tick and the PIC with the polling code.

There is no preemption, no second CPU and no process switch: the calls of the
memory system, the loader, the driver base and the file system do not interleave
with one another, no handler calls them, and failure is mostly a panic that stops
the machine. Their difficulty is long sequences of legal calls, results that
nobody looks at, resources at their limits, and calls that nest. Two actors
interleave in the keyboard, the timer and the terminal (handlers against the
polling program) and in the PATA driver (a drive that works on its own). A crash
leaves something behind in FAT32 only.

## 2. Modules

| Module | Models | Composition |
|---|---|---|
| `Loader` | `loader.aex/main.c` with the library calls it makes | - |
| `FramePool` | abstract: a pool of frames, each in use or free | - |
| `FrameAllocator` | `memory.c:758-854` | implements `FramePool` |
| `VirtualMemory` | abstract: pages backed by frames of their own | - |
| `Paging` | `paging.c` | instantiates `FrameAllocator`, implements `VirtualMemory` |
| `Heap` | `malloc.c` | - |
| `ElfLoader` | `elf_load_and_run`, `elf_free`, the kernel loop, `loadnew` | stands on what `Paging` promises |
| `DriverLoader` | `attempt_install_driver` | precedes `ElfLoader`'s programs in one address space |
| `Devices` | `device.c`, `install_driver`, the three subsystems, the boot's order | - |
| `FileStore` | abstract: files by path, directories, one call at a time | - |
| `FatVolume`, `FatDir`, `FatCalls` | the operators of `fat32.c`: cache, table, free clusters; directory entries; files | each EXTENDS the one before |
| `FatFile` | the library's calls, a failing drive, a power cut | implements `FileStore` |
| `Pata` | `disk/pata/disk.c` beside drives that work on their own | - |
| `Keyboard` | both interrupt controllers, stub, timer, keyboard handler, polling program | - |
| `Screen` | `display.c`: the branch for cells in memory and the one through a driver, in one mode | - |
| `Terminal` | line editing, escape sequences, the teletype | over `Screen` |
| `Console` | programs and the prompt reading keys and writing | composes `Keyboard`'s reads with `Terminal` and `Screen` |
| `Syscalls` | the descriptor table and its calls | - |
| `Basic` | `basicbasic.c` | over `Syscalls` |
| `Session` | a program, then basicbasic, over one descriptor table | composes both |
| `*_proofs` | theorems of the module named; `Loaders_proofs`: of `Loader`, `ElfLoader`, `DriverLoader` | EXTENDS it and TLAPS |
| `MC*` | constants for TLC | EXTENDS the module named |

**FrameAllocator.** `page_bitmap` is the set of frames whose bit is set,
`next_available_frame` the hint (0 is none, as in the code), `frame` the last answer.
Frames are numbers, so the 32-bit address `hint + 4096` that wraps to 0 is
`(hint + 1)` wrapping to frame 0. `alloc_frame` has the code's three outcomes: the
hint (returned *without* testing its bit), the sweep over bitmap elements of
`Group` frames, and null. `free_frame` sets the hint, and panics for a frame
below 4 MiB or one already free.

**Paging.** `pd`, `pt` and `page_directory_counts` are the directory, the tables'
contents and the counts. A table is named by the heap region that holds it;
`heap` says which regions are free, tables, or someone else's. `alloc_page_at_addr` is
one action with the code's order (directory entry, frame, entry, count);
`free_page` includes the table's release and the frame's return. The range calls
and `alloc_page` are loops over `alloc_page_at_addr`: each iteration is a step,
and `call` holds the loop's progress so that no other call runs meanwhile.
The heap's own behaviour is abstracted to which regions are free: `Heap`
shows when that is what it provides: until its table of records is first moved.
A request that finds none is the heap's panic.

**Heap.** One action per call. The first-fit scan is the least start of a free
aligned run (`Fits`). `MakeTable` and `MoveTable` are `_alloc_items` and
`_realloc_items`, *inside* the `kmalloc` that meets a full table, with the code's
order of copying and freeing.

**Loader.** `fat` is what the library and the handle hold (`struct Fat`, `File` and `Dir`, the
locals of a search, a read and a seek), `stage` where `main` is, `memory` what it has copied. Calls
without a loop are a step; each turn of a loop is one: `Search` of `dir_search`, `ParseFragment` of
`parse_lfn_name`, `Copy` of `fat_file_read`, `Follow` of the links in `fat_file_seek`, `Scan` of the
search for a free cluster in `stretch_chain`. `ops.write` only says that it wrote, so a change to the cached
sector lasts until another sector takes its place. `ops.read` never fails: a sector the drive cannot
read is polled for ever.

**ElfLoader.** `owner` says who holds each page. `alloc_page_at_addr`
succeeds exactly on a page nobody holds and `free_page` unmaps any page above
the kernel's whoever mapped it: that is `Paging`, seen from its caller. A program is
its list of headers; addresses are bytes, so that segments start and end inside
pages. A header is skipped, rejected, or begun (`BeginSegment`); then each page is a step
(`MapSegmentPage`: recorded, then mapped or refused), and so is the read of the segment's
bytes. After the last header come `Cleanup`, `NothingToRun` or `Launch`, and the pages of
the heap and the stack, one by one (`MapLaunchPage`).
The page list is an array the heap gave, of `addrs_size` words asked for. The code stores
an address *before* it makes the array larger. When the words asked for fill their
blocks (`BehindArray`), the address lies behind them, and `Record` has the three outcomes
a heap can give: the block there is free and the address is copied; it is free and
becomes the first of the larger array, so that the forward copy puts the first address
over this one (the page joins `lost`, and stays mapped when the list is freed); or it is
in use and a foreign word is overwritten (`Corrupt`: mode "corrupted", where the model
stops, since anything may follow). Which of them happens is the heap's past, so all may.
The entries that the code reads without having written them are nondeterministic too.

**Devices.** The call stack is the variable `calls`; a step is what happens between two
calls. The kernel's calls are a script: `main`'s, or another order of them. `element` says what the
array of driver indexes was made for: `install_driver` makes it for indexes, `attempt_install_driver`
for pointers, of whose four bytes an index of twenty is then kept. An index in such an array is truncated:
`register_device` reads its type, its flag and its driver from whatever lies behind, and may skip it or call
anything (`OfferTruncated`; the call leads to the state "wild", where the model stops). The
uninitialised id of discovered devices is any of `Garbage`. Whether a driver's
init or a driver file fails is nondeterministic.

**DriverLoader.** The same `owner` says which pages the driver took; `boot` is where the call is. A
`.dynamic` at address 0 is an absent one (error 7). `BootSpec` runs it first and then `ElfLoader`'s
programs, so that what a failed driver leaves behind would be seen by every load. `moved` counts how
often each word of the file was relocated.

**FatVolume, FatDir, FatCalls, FatFile.** The disk is a function of sectors; a
table sector holds items, a directory sector entries, a data sector units. The first sector says which
copy of the table is used and has bit 7 of `ext_flags`: as in the code, a second copy is kept only where that bit
is *set*. Clusters are counted by the size of the table, so the last items may stand for clusters whose sectors
lie behind the volume's end, where every access fails. The
operators pass the library's memory along (`struct Fat`, the handle, how many
accesses the drive still answers) in the order of the code, so the sector that is
in the cache and whether it is dirty are the code's at every access. A call is one
step in which the drive may fail at any access, and the power may go there. The
unit a caller writes at place `i` of file `p` is `<<p, i>>`, so content in a wrong
place or file is noticed. One handle is open at a time.

**Pata.** A program step is one access to a register; a drive's step is one change
of its status. Registers with two values keep both, as LBA48 needs. A CHS drive is assumed to have the
geometry the driver computes with, 16 heads of 63 sectors: `disk.c:466-477` does not use what the drive says of it.

**Keyboard.** A handler's entry, its body, its end-of-interrupt and its return are steps; the stub
sets the interrupt flag, so handlers nest, and the controllers hold back lines of equal and lower
priority. `PIC_remap` sends its last two command words to the first controller both times, so the
second one takes the mask meant for it as its fourth initialisation word (its mode bit is assumed to
be the one firmware leaves): nothing in it is masked, and its lines end by themselves if line 9 was
masked before (`AutoEnd`), otherwise never, as it gets no end-of-interrupt. `wait_for_keypress` is
three steps (the tick is read, polled, the key is read), `sleep` tests and halts in two.

**Screen, Terminal, Console.** A screen is its cells, its cursor and its colour, in the mode
of the one driver that is installed: `Width` by `Height`, 80 by 25 for `vgabiostext` and 53 by
25 for `vgabmtext`. `text` is that screen through `display.c`'s branch for cells in memory,
`bitmap` through its branch for a driver that has functions only and keeps what it has
drawn beside the cells; the comparison of the two is one of branches, in one mode, and not of the two drivers.
Characters before the space are drawn as spaces, and those from 0x80 on, for which the drawing
driver has no glyph, do not occur. `get_char` is the drawing driver's (the other's, which nothing calls,
has its bytes the other way round). `terminal_read` is a
step per key and `terminal_write` a function of the buffer, with the colour that outlives
the call. A key is there when a read asks: `Keyboard` shows which keys a read gets. The zero
that `input` stores behind a full buffer is not modelled.

**Syscalls, Basic, Session.** `open_fds` and the File blocks of the heap are the
kernel's state. `app` has the fields of the two structures of `basicbasic.c`; a turn of
its loop is `Render`, `Continue`, `KeysIn`. A text is a sequence of words, a
literal in quotation marks being one; rows are as wide as the 80 columns the program draws for. What
`split_tokens` cuts off, what is freed before it is shown (`list`), and what is
written or read behind a block (the run stops there: the stored program, a full line of input,
whose end is never written, and a listed line with a number of six digits) are as in the code.

## 3. Runs

| Run | Bounds | Shows |
|---|---|---|
| `loader` | files of up to a few clusters in any order on over 4,500 volumes | the kernel jumped into is its file, and a readable file boots |
| `frame_allocator` | 12 frames, elements of 4, the kernel's 4 | types; a hint is never a taken frame; the allocator implements the pool |
| `paging` | 3 directory entries, tables of 2, 2 regions, ranges up to 3, counts modulo 3 | four invariants of paging and the refinement of `VirtualMemory` |
| `heap` | 8 blocks of 4 bytes, sizes 0, 3, 5, alignments 1, 8, a table that grows by 3 records | live regions are disjoint; bitmap, table and live regions agree; records fit |
| `heap_second_move` (violated) | 11 blocks, a table that grows by 2 | the second move of the table panics on the allocator's own pointer |
| `elf_loader` | 12 pages of 4 bytes, blocks of 2 words, a driver file, then up to 2 of 9 headers | a driver is in memory exactly as its file says or not at all, and loses a page only to a program that asks for it; only pages whose entry was overwritten stay of an earlier program; a running program has its memory |
| `devices` | 5 scripts (one installs a file first), 2 driver files, 2 disks per controller, ids 0..2 | unique ids, one driver per device, files resident while an instance or a whole index uses them, every call ends or leaves through a truncated index |
| `fat` | 6 clusters of 2 sectors, mirrored and new, mirrored with the second table in use, or unmirrored with one item too many in the table; 3 names; files of up to 5 units; 5 calls; failure at any access | table, counter and copies agree; "full" means full; reads return what was written; the library implements `FileStore`; a power cut touches no other file |
| `pata` | four machines, every limit of CHS, LBA28 and LBA48 with bytes of a few values | the right disks are found, reads and writes reach their sector, the driver returns |
| `keyboard` | 3 keys, depth 2, a second controller's line, the timer | keys in order, first controller acknowledged, a key ends a wait, sleep ends |
| `console` | 4 keys, 2 jobs, 4 cells, both branches of `display.c` | lines are edited and shown, the branches agree, writes may be cut |
| `session` | 5 descriptors, 2 files of two bytes and of one, 3 reads, 4 lines typed out of 20, 1 backspace | descriptors independent and without leaks; screen shows the interpreter; place and order of the program; nothing happens after quit |

Why these bounds are enough to be interesting. *Boot loader*: files end inside a sector, at the end
of a sector and of a cluster, chains run forwards, backwards and across the sectors of the table,
every way a chain can end is met at every link, and the last-used cluster is one before, behind or
outside the table's. *Frames*: three elements, one of them the kernel's, so that the sweep crosses
elements, the hint crosses an element and wraps past the last frame, and the pool empties. *Paging*:
two user directory entries for two regions, one of which other clients can take, so that tables are
made, emptied, reused for the other entry and refused; as many counts as entries plus one, so the
16-bit wrap happens. *Heap*: sizes of no, part of a and more than one block; the table (3 records)
is moved once in the passing run, while the whole heap can be filled. `heap_second_move` needs the
table to fill twice, so it has smaller records. *Program loader*: the nine headers meet, overlap or
miss every kind of page (null, kernel, driver, stack, each other), with segments that end in, at and
past a page; two headers are enough for a page list with an earlier segment to clean up. With blocks
of two words a list is exactly full at two, four and eight pages, as the code's at 8, 16, 32 and 64,
so that an address behind it is stored in a segment, in the heap and in the stack. *Devices*: two
disks so that siblings compete, two files so that one index is passed over, ids 0..2 so that 0, a
conflict and a free id occur. *Driver files*: tables of relocations with entries of every kind the
code knows, absolute, relative to the file, relative to the program counter and others. *FAT*: a
sector of the table holds four clusters, so chains cross table sectors; clusters have two sectors
and files up to five units of half a sector, so that calls begin, end and continue at every
boundary; a directory grows by a cluster; two volumes are short of space from the beginning, and on
one of them the last free cluster is the one behind its end. That one is, as the repository's own
volume, without bit 7. Five calls are enough to fill, remove and reuse a cluster while a handle is
open. *PATA*: a byte has few values, so that every register's limit is an address that is asked for.
*Keyboard*: three keys show a lost middle one; a depth of two nests every pair of handlers.
*Console*: a screen of four cells wraps and scrolls in every write. *Session*: two files leave no
descriptor for basicbasic in a table of five, one leaves one; a file of one byte lets a read meet
its end, and the third read goes past it; the program's block has room for two lines, so the third
runs past it, and so do a line of four words and line number 3 in a list.

Deadlock is not checked where the system really stops: a panic halts the machine,
the boot's script ends, the users' keys run out.

*Assumed inputs.* The loader's files are those whose segments do not wrap around 4 GiB and whose
file size is at most their memory size; the second is what the loader checks. Clients of the heap
free what they own: a kernel that frees other pointers panics by design. Volumes are formatted ones
that other systems have filled, with one handle open: that two handles on one file do not know of
each other's sectors is not looked at. A sector behind the end of the volume fails. A CHS drive has
the driver's geometry. The boot loader's may be damaged or no volume at all; but its data begin at a
sector that is a multiple of the cluster's size (`BootAssumption`), which the code itself supposes:
`dir_next` (`fat32.c:741`, and the kernel's copy at 526) finds the end of a cluster in the absolute
number of the sector, and where clusters of several sectors are aligned otherwise it would leave a
directory's cluster early or late. Clusters of one sector always satisfy it. A size of the file and
a chain agree as the directory and the table say: the chain may be shorter than the size needs, for
any reason.

## 4. Fairness

`Devices`: `FairSpec` is `Spec` with `WF_vars(Next)`, and `CallsEnd`
says that the nested calls of the boot end. It is justified because the boot is a
single thread that waits for no one: a call that is not finished goes on.

`Pata`: the driver's own steps are weakly fair (it is one thread, which polls), and so
is each drive's step from busy to an answer; `DriverReturns` says that the driver then
comes back. A drive that never answers would stop the system, since no wait has a
limit: no such drive is among the machines.

`Keyboard`: fairness is strong, because an interrupt disables the step it interrupts:
the handler at each depth of the stack, the program's polling and its sleeping are
enabled only while nothing is on top of them. Assuming that each of them runs
again and again between interrupts is to assume that handlers are shorter than the
timer's period, as they are. Strong fairness of the two lines 0 and 1 says that the
controller delivers a request it keeps finding unmasked: a bounded number of ticks,
which the PIT goes on producing, is enough. The user owes nothing: `KeyIsSeen` speaks
of a key that has come. It leaves out the key that a second one overtakes before the
program polls: the one-bit tick then reads as if nothing had come, and both are
lost.

## 5. What is proved

All of it for every value of the constants, under the named assumptions on them. These give the
constants' types, and beyond types only what follows: the kernel's frames and pages are a part of
all (`FrameAssumption`, `PagingAssumption`, `LoaderAssumption`); no segment wraps around 4 GiB and
none has more bytes in the file than in memory (`LoaderAssumption`; the loader rejects the second
kind); the table of the heap grows by two records or more (`HeapAssumption`; 1024 in the code); a
CHS drive has the driver's geometry and no more sectors than its registers can name
(`PataAssumption`); a driver is installed once and the controllers are discovered before their
driver is installed, as `main` does (`DevicesAssumption`); a linker lists no word twice among those
to be moved and gives tables the sizes it says, unless the file is rejected (`DriverAssumption`);
reads by programs are not the kernel's own, and no key gives a null character, since the layout's
zeros give none (`ConsoleAssumption`); the boot loader's volumes are as section 3 says
(`BootAssumption`); there are descriptors beyond the three standard streams, and the paths that
exist are not those that do not (`SyscallsAssumption`). TLC evaluates each of them in the runs.

**FrameAllocator_proofs.** `TypeCorrect`, `HintNeverTaken`, `Refinement`. The
inductive invariant is `TypeOK /\ HintIsFree`: the fast path returns the hint without
testing its bit, so that the frame is free is exactly what must be carried along,
and what lets a step of `alloc_frame` map to `FramePool`'s.

**Paging_proofs.** `PagingTypeCorrect`, `FramesAreExclusive`, `FramesAreAccounted`,
`TablesAreCounted`, `KernelStaysMapped`, `RangesAreMapped`, `PagingRefinement`. `KernelStaysMapped`, which is
local to each call, is proved and not run. None of the others
is inductive alone. `BaseInv` joins types, counts, the kernel's identity map, the
allocator's `HintIsFree`, exclusive and accounted frames, and that the null entry
maps frame 0 or nothing. The argument that needs them together is the unchecked
answer of `alloc_frame`: a page that is about to be mapped is absent, so fewer user
pages are mapped than there are user frames (there are as many of one as of the
other), and since the allocated frames are exactly those mapped, by a counting
argument one is free, and `alloc_frame` does not answer null. The range invariant
is proved on top of it. The refinement uses the frame allocator's: its
frames are those of `VirtualMemory`.

**Heap_proofs.** `HeapTypeCorrect`, `HeapLiveDisjoint`, `HeapIsConsistent`, `OwnedCanBeFreed`. `Tabled` says how
the table, its capacity and its place go together, for any number of moves. `Matched` says
of a table that was not moved yet that the records are those of the clients' regions and of
the table itself, that no two of them overlap, and that the blocks in use are exactly
theirs (`Booked`). It must allow for blocks *reserved* by a request that has no record
yet: `kmalloc` marks its blocks, then finds the table full, and the table's own `kmalloc` and
`kfree` run on a heap that has marked blocks nobody has a record of. `OwnedCanBeFreed` is the other
side of the violated run of section 6: as long as the table has not moved, `kfree` knows every
pointer it is given by its owner. `HeapTypeCorrect` and the table's room for its records
hold through any number of moves; the rest ends with the first, which drops the table's own record.

**Loaders_proofs.** About `ElfLoader`: `LoaderTypeCorrect`, `LostPagesStay`, `DriverKept`,
`RunningIsMapped`. The inductive invariant adds to `TypeOK` that every page held by the program is
on the page list or among the `lost` (`ProgramRecorded`), that the segments already loaded are
mapped, each in the program's own pages (`SegmentsPresent`), the same of the pages done so far of
the segment or of the heap and stack at work (`SegmentUnderWay`, `LaunchUnderWay`), and that a
program that is loading has a header (`SomeHeader`). The first is why the clean-up, which frees the
list, leaves the lost pages and no other; it also holds when a page was refused, since the code
records a page before it asks for it. For `DriverKept`, `AskedRecorded` says that what is on the
list was asked for by a segment loaded so far, the heap or the stack. About `DriverLoader`: in
`ProgramsAfterBoot`, where a driver file is loaded first, the same invariant holds once it is done
(`BootInv`), since no page belongs to a program before (`NothingLoaded`). `DriverIsPlaced` needs
`PlacedInv`: the pages held are those of the segments listed so far (`PagesListed`), every header
read has its bytes in them at the one distance the first header set (`HeadersDone`), and no word is
moved before the two tables are read (`WordsMoved`); that the tables then move each word once is
counted entry by entry. About the boot's `Loader`: `KernelIsLoaded`, `WholeFileIsBooted`, for chains
of any length, whole or damaged, and directories of any number of clusters. `KernelIsWhole` speaks
of the jump only; its invariant `LInv` says of each stage where the file stands: the handle is at
the k-th cluster of the chain (`AtLink`), so many links before the offset that is sought, and every
unit before the offset is `Copied`. A link is read from the cache, which the library may have
changed without the disk's knowing; what saves it is that it changes the cache only in
`stretch_chain`, and that the chain ends before an offset only if the file ends there or the chain
is closed early. So as long as anything of the file is left to read, the cache is what the disk has
(`Clean`, but for the FsInfo, which is not read back). `WholeFileIsBooted` adds how the directory is
read (`Boots`): the cursor is at the beginning of an entry no further than the one listed, or inside
a complete long name before it, so neither its end nor an ill-formed name is met first; and since
such a file does not end with its cluster, a seek never asks for more links than the chain has.

**Devices_proofs.** `DevicesTypeCorrect`, `RegistryIsConsistent`, `FilesResident` (of
instances, and of indexes that are kept whole: see `element`). Calls nest, so the invariant speaks of
the stack: `Nested` says which stacks there are (at most `install_driver`, the init
of the controller, the registration of one of its disks, the init of the disk's driver);
`Scripted` ties the outermost call to the script, so that no driver is installed twice;
`Identified` keeps the id of a device being registered free until it joins the list; `Paired`
relates instances and owned devices, with the init at work as the only instance that may
be taken back; `Kept` says which driver files are mapped and that the count of
`postregister` tells whether the file at work drives a screen, on which the
decision to unmap it rests.

**Pata_proofs.** `PataReadsAddressed`, `PataWritesAddressed`, `PataFindsTheDisks`. Most of it is
arithmetic: each of the three forms of an address, written byte by byte into registers that keep two
values, gives back the sector (`DivMod` and its lemmas), whatever the registers held before. Its
invariant says that the disks before the place the search looks at are the ones found, and that this
place is selected (`Searched`); that from its command on a call's drive stays the selected one and
offers no sector but the call's, while the drive moves on by itself (`Accessed`); and that what a
drive is storing was asked for (`Stored`).

**Console_proofs.** About `Keyboard`: `KeyboardTypeCorrect`, `ReadsAreInOrder`,
`FirstControllerIsAcknowledged`, for any keys, lines, naps and nesting. The second needs that the
parity of the tick is that of the number of characters typed, and that what was read is no later
than the wait at work (`KeyInv`). The third needs that a handler's line is in service exactly while
the handler is on the stack and has not sent its end-of-interrupt, and that lines on the stack have
falling numbers (`AckInv`): the controller's command names no line, so it must find the right one.
It speaks of the first controller only. About `Console`: `LinesAreEdited`, `ScreenShowsTheLine`,
`BranchesAreAlike`, `PiecesWriteTheWhole`, all in a mode of any size. What a read should return is
defined from the whole line, a key surviving if no backspace after it takes it back; the buffer is
edited key by key. `Stands` connects them: the buffer stands at places of the line, and behind each
of these more was typed than erased by as many characters as follow it, so the next backspace takes
back the last one and no other. `ScreenInv` then follows the text through both branches in reading
order; division by the width is turned into rows and columns once (`ReadingPlace`, `ReadingNext`),
after which a character, a backspace over the start of a row and a cleared screen are three lemmas.
That the line fits on the screen follows from its surviving keys by a bijection (`FitsNow`).
`BranchesAreAlike` and `PiecesWriteTheWhole` compare loops, so they need induction. The library's
induction theorems take an operator and cannot be used, but the existence of a minimal element in a
well-founded set needs none: from it follow the least number of a set and induction over the *set*
of numbers for which something is so (`SetInduction`). A loop of the model is a fold; `HistoryTurns`
gives the sequence of its intermediate states, one per character or cell. Two screens are `Alike` if
they have the same cells and place and what is drawn of the second looks like its cells; every
display function is shown to keep that. For the scroll and the change of colour, which one branch
does on all cells at once and the other cell by cell, `DrawnTo` says how far the second has come:
the cells before have their new contents, the ones behind still the old, and a cell reads only one
behind it. That is why rows must be moved from the top down. For the cut, `Flushed` is what the
screens would show if the segment were printed now: a turn of `terminal_write` acts on it as if
there were no segment, so that where segments end cannot matter, and two runs m places apart stay
`Along`.

**Session_proofs.** `SessionInvariant`, from which `DescriptorsAreApart`, `ScreenShows`,
`ProgramIsConsistent` and `QuitIsFinal` follow. The commands of the interpreter call each other, so
each is shown to stand in a relation to the fields before it (`Kept`: program and input untouched,
nothing marked clean, an end that goes with what is freed; `Goes` where a command may change the
program), and the relations compose. `BasicInv` says that a row or a command line that is not marked
dirty is on the screen as it was last drawn, which every way to change a row must keep (on a screen
of 80 columns, where a row stays on its row), and that what was freed is used no more. `TableInv`
says that each File block has one descriptor and stays within its file, also after an open that
failed; `StreamsInv` that every stream has read its file as far as its block's position, whatever
others read between.

**Only model-checked.** The FAT32 modules of the kernel (`VolumeConsistent`, `FullOnlyWhenFull`,
`ReadsReturnContent`, the power cut and the refinement of `FileStore`): a call is one step there,
and it follows chains with RECURSIVE operators, of which the provers know nothing. (`Loader` has a
step for each turn of these loops, and so needs none.) Liveness (`CallsEnd`, `DriverReturns`,
`KeyIsSeen`, `SleepEnds`) and whatever speaks of `ENABLED` are out of reach too. RECURSIVE operators
are only in modules without theorems.

## 6. Findings

`heap_second_move` is expected to be violated: `malloc.c:167` calls a pointer that `kfree`
does not know invalid, but after the heap's table has been moved once its own record is missing, and the
next move panics with exactly this message although every caller freed only what it owned.

The models show other places where code and text part, or where the code does what it cannot mean.
No run repeats them:

1. `memory.c:849` says the memory map is used to avoid reserved regions; it is summed for a message
   and never consulted.
2. `paging.h:106` promises any single page; the loop's test in `alloc_page` is inverted and the page
   returned was already mapped. Nothing calls it today.
3. `elfloader.c:314-318`, `363-367` and `375-379` store an address before the array is made larger.
   Where the words asked for fill their blocks (8, 16, 32, 64 of them), it goes behind the block: it
   survives, is lost to `krealloc`'s copy, so that its page stays mapped after `elf_free`, or
   overwrites a neighbour. `loadnew.c:43` says of the same pages "we free". (`OnlyLostPagesStay`
   says that no others stay.)
4. `elfloader.c:358`: the heap starts "right after" the last page, but the highest address is sought
   among as many entries as there are headers where the list has one per page.
5. `elfloader.c:309-311`: a segment that starts inside a page may have its last page left unmapped;
   one that ends on a page's end takes the page behind it as well. A page that was refused, because
   the driver has it, is on the list and is freed: a program whose segment only ends before the
   driver's first page unmaps that page. (`DriverLosesOnlyAsked` says that no other program does.)
6. `driver_base.c:198` makes `available_drivers` for pointers where 151 makes it for indexes: if a
   file is installed before any driver of the kernel's, 166 keeps 4 bytes of 20 of each index, and
   `device.c:73-97` reads the rest from whatever is there. `main` installs the kernel's first.
7. `kernel.c:49` asserts a disk driver; a controller's id is never set, and with a zero in it the
   disks find no parent.
8. `driver_base.c:42`: a driver waits for devices that appear later; one without devices is never
   tried again.
9. `PIC.c:64-66` sends the fourth initialisation word to the first controller twice; the second one
   takes its mask (71) for it, so its mask is left empty. `PIC.c:41` compares with 0x40 where its
   lines are from 0x28: it never gets an end-of-interrupt, and serves further interrupts only if the
   mask happened to turn automatic ends on.
10. `keyboard.c:93`: a full line's zero goes to `buffer[size]`; `kernel.c:173-174` gives a
   `char[127]` and size 127.
11. `disk.c:538`: a write that the drive refuses is reported as stored (540 promises an exit).
   `disk.c:466-477` turns a sector into cylinder, head and sector by 16 and 63, whatever geometry
   the drive has reported.
12. `fat32.c:1386`: `fat_file_write` loses the error it promises at 1358; `fat_file_sync` (1498)
   writes its buffer whether or not it is dirty (1314).
13. `fat32.c:1098` (and `loader.aex/fat32.c:1363`) takes bit 7 of `ext_flags` for mirroring on;
   FAT32's bit turns it off. The repository's own volume (`mformat -F`, `build.config.js`) has it
   clear: only one copy of its table is kept.
14. `fat32.c:1106` counts clusters by the size of the table. On a volume with fewer, the ones behind
   its end are given out when the others are taken: a file that grew into one loses its growth at
   its close (the sync fails before the entry's size is written); a directory made in one leaves the
   cached sector dirty and unwritable, so that later calls fail; the count of free clusters passes
   zero and becomes 0xffffffff, which the next mount refuses (1121-1122).
15. `terminal.c:67`: bytes after a null byte are dropped, which `write.c:8` excludes.
16. The two text drivers are not interchangeable. Their modes differ (80 and 53 columns), so that on
   the drawing one `basicbasic`'s rows of 78 characters run on into the next row. `get_char` of
   `vgabiostext` (`main.c:76`) has its bytes the other way round than `vgabmtext`'s (1255) and
   `display.c:206-213` expect; `display.c:320` and `327`, in a function nobody calls, read them its
   way. `vgabmtext` draws every character before the space as a space (1239), and for those from
   0x80 on, such as the lines of `basicbasic`'s frame, reads past its 96 glyphs.
17. `syscall.c:9` speaks of installed calls; the limit is four times the table and an entry that is
   null is called.
18. `basicbasic.c:284`: the command line is cleared "when running"; the input is always absent then,
   and the prompt is drawn instead.
19. `basicbasic.c:488`: `strtok` cuts the typed text, so a stored line keeps its first word only:
   `goto` and `print` cannot work in a program. `basicbasic.c:513` "grows" the program's block to
   the size it has; nothing limits the length of the input (559), and 64 characters leave it without
   an end (533); `list` writes a line number of six digits or more past its block (439-441), and
   shows the block after it is freed (443-444).

## 7. Not modelled

Descriptor tables, the FPU and the speaker (written once, or port writes without
state), graphics and fonts beyond what a cell shows (layout), the string helpers
(conversions no property speaks of; those of the interpreter are modelled by what they
do), the shell that `main` does not start, the empty process stubs, the 16-bit boot stage
(assembly on BIOS calls), and netnotes and fungame, which call kernel functions
directly and are built by no script. In `Devices`, `unregister_device`,
`search_for_supported_device` (never called) and `probe` (no driver has one) are left
out; in the boot loader, the calls of its library that `main` does not reach; in `FatFile`
timestamps and the encoding of names.

Further work that would pay: the kernel's FAT32 calls in steps like those of `Loader`, with a drive
that fails in any of them, and proofs about them; `Paging` on the real heap instead of its regions;
FAT32 over `Pata`, so that a refused write reaches the volume; two handles open at once.
