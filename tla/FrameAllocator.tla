--------------------------- MODULE FrameAllocator ---------------------------
(***************************************************************************)
(* The physical frame allocator of memory/memory.c: a bitmap with one bit  *)
(* per 4 KiB frame and next_available_frame, a one-element cache of a      *)
(* frame known to be free.  A frame is named by its number, that is by its *)
(* address >> 12; the null answer and the empty hint are address 0, which  *)
(* is frame 0.                                                             *)
(***************************************************************************)
EXTENDS Integers

CONSTANTS TotalPages,    \* TOTAL_PAGES, the number of frames of the bitmap
          FirstFrame,    \* 0x400000 >> 12: the frames below belong to the kernel
          Group          \* frames per bitmap element the sweep skips at once

ASSUME FrameAssumption ==
  /\ TotalPages \in Nat /\ FirstFrame \in Nat
  /\ Group \in {1, 2, 4, 8}
  /\ 0 < FirstFrame /\ FirstFrame < TotalPages
  /\ FirstFrame % Group = 0 /\ TotalPages % Group = 0

AllFrames == 0 .. TotalPages - 1
UserFrames == FirstFrame .. TotalPages - 1
null == 0

VARIABLES page_bitmap,            \* the frames whose bit is set
          next_available_frame,   \* the hint, null when there is none
          frame,                  \* what the last alloc_frame returned
          panicked                \* a panic rebooted the machine

vars == <<page_bitmap, next_available_frame, frame, panicked>>

(* init_mem marks the frames under 4 MiB and leaves the rest clear.        *)
Init == /\ page_bitmap = 0 .. FirstFrame - 1
        /\ next_available_frame = null
        /\ frame = null
        /\ panicked = FALSE

bitmap_test(f) == f \in page_bitmap

(* The frame after f in 32-bit address arithmetic: past the last frame the *)
(* address wraps to 0, which is no hint.                                   *)
SuccessorUnwrapped(f) == f + 1   \* mutant: no 32-bit wrap
Successor(f) == IF f + 1 = TotalPages THEN 0 ELSE f + 1

(* The hint left behind by an allocation of f: its successor when clear.   *)
(* For the last frame the sweep tests a bit past the bitmap, but whatever  *)
(* it reads the shifted address is 0.                                      *)
HintAfterUntested(f) == Successor(f)   \* mutant: the successor's bit is not tested
HintAfter(f) == IF bitmap_test(Successor(f)) THEN null ELSE Successor(f)

(* alloc_frame, first branch: the hint is the answer, untested.            *)
AllocHinted == /\ ~panicked
               /\ next_available_frame # null
               /\ frame' = next_available_frame
               /\ page_bitmap' = page_bitmap \cup {next_available_frame}
               /\ next_available_frame' = HintAfter(next_available_frame)
               /\ UNCHANGED panicked

(* The sweep looks at whole bitmap elements first: the elements, by their  *)
(* first frame, that are not full.                                         *)
OpenGroupsButLast ==   \* mutant: stops one element short of the bitmap's end
  {i \in UserFrames : /\ i % Group = 0 /\ i + Group < TotalPages
                      /\ \E b \in 0 .. Group - 1 : ~bitmap_test(i + b)}
OpenGroups == {i \in UserFrames : /\ i % Group = 0
                                  /\ \E b \in 0 .. Group - 1 : ~bitmap_test(i + b)}

IsFirstOpenGroup(i) == i \in OpenGroups /\ \A j \in OpenGroups : i <= j

(* alloc_frame, second branch: the first clear frame of the first element  *)
(* that is not full.                                                       *)
AllocSwept == /\ ~panicked
              /\ next_available_frame = null
              /\ \E i \in UserFrames, b \in 0 .. Group - 1 :
                   /\ IsFirstOpenGroup(i)
                   /\ i + Group <= TotalPages
                   /\ ~bitmap_test(i + b)
                   /\ \A c \in 0 .. b - 1 : bitmap_test(i + c)
                   /\ frame' = i + b
                   /\ page_bitmap' = page_bitmap \cup {i + b}
                   /\ next_available_frame' = HintAfter(i + b)
              /\ UNCHANGED panicked

(* alloc_frame, no element left: null.                                     *)
AllocFails == /\ ~panicked
              /\ next_available_frame = null
              /\ \A i \in OpenGroups : i + Group > TotalPages
              /\ frame' = null
              /\ UNCHANGED <<page_bitmap, next_available_frame, panicked>>

alloc_frame == AllocHinted \/ AllocSwept \/ AllocFails

(* free_frame of an address that is page aligned; the frame freed last     *)
(* becomes the hint.                                                       *)
free_frame(f) == /\ ~panicked
                 /\ f >= FirstFrame
                 /\ bitmap_test(f)
                 /\ page_bitmap' = page_bitmap \ {f}
                 /\ next_available_frame' = f
                 /\ UNCHANGED <<frame, panicked>>

(* free_frame of a kernel frame, of a frame that is not allocated, or of   *)
(* an address inside a frame: each panics before anything changes.         *)
free_frame_panics(f, aligned) ==
  /\ ~panicked
  /\ ~aligned \/ f < FirstFrame \/ ~bitmap_test(f)
  /\ panicked' = TRUE
  /\ UNCHANGED <<page_bitmap, next_available_frame, frame>>

Next == \/ alloc_frame
        \/ \E f \in AllFrames : free_frame(f)
        \/ \E f \in AllFrames, aligned \in BOOLEAN : free_frame_panics(f, aligned)

Spec == Init /\ [][Next]_vars

-----------------------------------------------------------------------------
(* The bitmap, the hint and the answers are frames; a frame below 4 MiB    *)
(* never becomes free, so alloc_frame cannot hand out the kernel's memory. *)
TypeOK == /\ page_bitmap \subseteq AllFrames
          /\ 0 .. FirstFrame - 1 \subseteq page_bitmap
          /\ next_available_frame \in UserFrames \cup {null}
          /\ frame \in UserFrames \cup {null}
          /\ panicked \in BOOLEAN

(* alloc_frame returns the hint without testing its bit, so the hint must  *)
(* be clear whenever it is set, whatever frees and allocations ran since   *)
(* it was stored.                                                          *)
HintIsFree == next_available_frame # null => ~bitmap_test(next_available_frame)

(* The allocator implements a pool of the frames above 4 MiB: no frame is  *)
(* handed out twice, and null is the answer only when every frame is held, *)
(* although the sweep never looks inside an element it takes for full.     *)
Pool == INSTANCE FramePool WITH Frames <- UserFrames, None <- null,
          held <- page_bitmap \ (0 .. FirstFrame - 1), answer <- frame
ImplementsPool == Pool!Spec
=============================================================================
