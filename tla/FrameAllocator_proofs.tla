----------------------- MODULE FrameAllocator_proofs -----------------------
(***************************************************************************)
(* The frame allocator is type correct, never stores a hint that is taken, *)
(* and implements the frame pool, for every bitmap size.                   *)
(***************************************************************************)
EXTENDS FrameAllocator, TLAPS

(* The element a dynamic frame lies in, which the sweep visits.            *)
LEMMA FrameInGroup ==
  ASSUME NEW f \in UserFrames
  PROVE  \E i \in UserFrames :
            i % Group = 0 /\ i + Group <= TotalPages /\ f - i \in 0 .. Group - 1
<1> DEFINE first == f - (f % Group)
<1> SUFFICES /\ first \in UserFrames /\ first % Group = 0
             /\ first + Group <= TotalPages /\ f - first \in 0 .. Group - 1
  OBVIOUS
<1>1. CASE Group = 1
  BY <1>1, FrameAssumption DEF UserFrames
<1>2. CASE Group = 2
  BY <1>2, FrameAssumption DEF UserFrames
<1>3. CASE Group = 4
  BY <1>3, FrameAssumption DEF UserFrames
<1>4. CASE Group = 8
  BY <1>4, FrameAssumption DEF UserFrames
<1>5. QED BY <1>1, <1>2, <1>3, <1>4, FrameAssumption

(* A sweep that finds every element full has seen every dynamic frame set. *)
LEMMA SweepIsComplete ==
  ASSUME \A i \in OpenGroups : i + Group > TotalPages
  PROVE  UserFrames \subseteq page_bitmap
<1>1. SUFFICES ASSUME NEW f \in UserFrames, f \notin page_bitmap PROVE FALSE
  OBVIOUS
<1>2. PICK i \in UserFrames :
         i % Group = 0 /\ i + Group <= TotalPages /\ f - i \in 0 .. Group - 1
  BY FrameInGroup
<1>3. f = i + (f - i)
  BY DEF UserFrames
<1>4. i \in OpenGroups
  BY <1>1, <1>2, <1>3 DEF OpenGroups, bitmap_test
<1>5. QED BY <1>2, <1>4, FrameAssumption DEF UserFrames

(* The hint an allocation of f leaves is null or a clear dynamic frame     *)
(* other than f.                                                           *)
LEMMA HintAfterIsFree ==
  ASSUME TypeOK, NEW f \in UserFrames
  PROVE  /\ HintAfter(f) \in UserFrames \cup {null}
         /\ HintAfter(f) # null => HintAfter(f) \notin page_bitmap \cup {f}
<1>1. 0 \in page_bitmap
  BY FrameAssumption DEF TypeOK
<1>2. Successor(f) \in AllFrames /\ Successor(f) # f
  BY FrameAssumption DEF Successor, UserFrames, AllFrames
<1>3. Successor(f) # 0 => Successor(f) \in UserFrames
  BY FrameAssumption DEF Successor, UserFrames
<1>4. QED BY <1>1, <1>2, <1>3 DEF HintAfter, bitmap_test, null

IInv == TypeOK /\ HintIsFree

LEMMA InitIInv == Init => IInv
<1> SUFFICES ASSUME Init PROVE IInv
  OBVIOUS
<1>1. page_bitmap \subseteq AllFrames
  BY FrameAssumption DEF Init, AllFrames
<1>2. QED
  BY <1>1 DEF Init, IInv, TypeOK, HintIsFree, null

LEMMA NextIInv == IInv /\ [Next]_vars => IInv'
<1> SUFFICES ASSUME IInv, [Next]_vars PROVE IInv'
  OBVIOUS
<1> USE FrameAssumption DEF IInv, TypeOK, HintIsFree, UserFrames, AllFrames, null, bitmap_test
<1>1. CASE AllocHinted
  <2>1. next_available_frame \in UserFrames
    BY <1>1 DEF AllocHinted
  <2>2. QED BY <1>1, <2>1, HintAfterIsFree DEF AllocHinted
<1>2. CASE AllocSwept
  <2>1. PICK i \in UserFrames, b \in 0 .. Group - 1 :
           /\ i + Group <= TotalPages
           /\ frame' = i + b
           /\ page_bitmap' = page_bitmap \cup {i + b}
           /\ next_available_frame' = HintAfter(i + b)
    BY <1>2 DEF AllocSwept
  <2>2. i + b \in UserFrames
    BY <2>1
  <2>3. QED BY <1>2, <2>1, <2>2, HintAfterIsFree DEF AllocSwept
<1>3. CASE AllocFails
  BY <1>3 DEF AllocFails
<1>4. ASSUME NEW f \in AllFrames, free_frame(f) PROVE IInv'
  BY <1>4 DEF free_frame
<1>5. ASSUME NEW f \in AllFrames, NEW aligned \in BOOLEAN, free_frame_panics(f, aligned)
      PROVE  IInv'
  BY <1>5 DEF free_frame_panics
<1>6. CASE UNCHANGED vars
  BY <1>6 DEF vars
<1>7. QED BY <1>1, <1>2, <1>3, <1>4, <1>5, <1>6 DEF Next, alloc_frame

(* Every reachable bitmap keeps the kernel's frames set, and hints and     *)
(* answers are dynamic frames or null.                                     *)
THEOREM TypeCorrect == Spec => []TypeOK
<1>1. IInv => TypeOK
  BY DEF IInv
<1>2. QED BY <1>1, InitIInv, NextIInv, PTL DEF Spec

(* A hint that is set names a frame whose bit is clear, so the untested    *)
(* fast path of alloc_frame never hands out a frame twice.                 *)
THEOREM HintNeverTaken == Spec => []HintIsFree
<1>1. IInv => HintIsFree
  BY DEF IInv
<1>2. QED BY <1>1, InitIInv, NextIInv, PTL DEF Spec

(* What one alloc_frame does, for the modules built on the allocator: it   *)
(* takes a clear dynamic frame, or every dynamic frame is taken.           *)
LEMMA AllocFrameStep ==
  ASSUME IInv, alloc_frame
  PROVE  /\ IInv' /\ ~panicked /\ UNCHANGED panicked
         /\ \/ /\ frame' \in UserFrames \ page_bitmap
               /\ page_bitmap' = page_bitmap \cup {frame'}
            \/ /\ frame' = null /\ page_bitmap' = page_bitmap
               /\ UserFrames \subseteq page_bitmap
<1> USE FrameAssumption DEF IInv, TypeOK, null, bitmap_test
<1>1. CASE AllocHinted
  BY <1>1, NextIInv DEF AllocHinted, HintIsFree, Next, alloc_frame
<1>2. CASE AllocSwept
  <2>1. PICK i \in UserFrames, b \in 0 .. Group - 1 :
           /\ i + Group <= TotalPages /\ i + b \notin page_bitmap
           /\ frame' = i + b /\ page_bitmap' = page_bitmap \cup {i + b}
    BY <1>2 DEF AllocSwept
  <2>2. i + b \in UserFrames
    BY <2>1 DEF UserFrames
  <2>3. QED BY <1>2, <2>1, <2>2, NextIInv DEF AllocSwept, Next, alloc_frame
<1>3. CASE AllocFails
  BY <1>3, NextIInv, SweepIsComplete DEF AllocFails, Next, alloc_frame
<1>4. QED BY <1>1, <1>2, <1>3 DEF alloc_frame

-----------------------------------------------------------------------------
LEMMA InitRefines == Init => Pool!Init
  BY FrameAssumption DEF Init, Pool!Init, null

LEMMA StepRefines == IInv /\ [Next]_vars => [Pool!Next]_Pool!vars
<1> SUFFICES ASSUME IInv, [Next]_vars PROVE [Pool!Next]_Pool!vars
  OBVIOUS
<1> USE FrameAssumption DEF IInv, TypeOK, UserFrames, AllFrames, null, bitmap_test
<1>1. CASE AllocHinted
  <2>1. next_available_frame \in UserFrames \ (page_bitmap \ (0 .. FirstFrame - 1))
    BY <1>1 DEF AllocHinted, HintIsFree
  <2>2. Pool!Grant
    BY <1>1, <2>1 DEF AllocHinted, Pool!Grant
  <2>3. QED BY <2>2 DEF Pool!Next
<1>2. CASE AllocSwept
  <2>1. PICK i \in UserFrames, b \in 0 .. Group - 1 :
           /\ i + Group <= TotalPages /\ i + b \notin page_bitmap
           /\ frame' = i + b /\ page_bitmap' = page_bitmap \cup {i + b}
    BY <1>2 DEF AllocSwept
  <2>2. i + b \in UserFrames
    BY <2>1
  <2>3. Pool!Grant
    BY <1>2, <2>1, <2>2 DEF AllocSwept, Pool!Grant
  <2>4. QED BY <2>3 DEF Pool!Next
<1>3. CASE AllocFails
  <2>1. UserFrames \subseteq page_bitmap \ (0 .. FirstFrame - 1)
    BY <1>3, SweepIsComplete DEF AllocFails
  <2>2. Pool!Refuse
    BY <1>3, <2>1 DEF AllocFails, Pool!Refuse
  <2>3. QED BY <2>2 DEF Pool!Next
<1>4. ASSUME NEW f \in AllFrames, free_frame(f) PROVE Pool!Next
  <2>1. Pool!Return
    BY <1>4 DEF free_frame, Pool!Return
  <2>2. QED BY <2>1 DEF Pool!Next
<1>5. ASSUME NEW f \in AllFrames, NEW aligned \in BOOLEAN, free_frame_panics(f, aligned)
      PROVE  Pool!Next
  BY <1>5 DEF free_frame_panics, Pool!Next, Pool!Misuse
<1>6. CASE UNCHANGED vars
  BY <1>6 DEF vars, Pool!vars
<1>7. QED BY <1>1, <1>2, <1>3, <1>4, <1>5, <1>6 DEF Next, alloc_frame

(* The bitmap, the hint and the element-wise sweep together implement a    *)
(* pool of frames: an answer is a frame nobody holds, and null means that  *)
(* every frame above 4 MiB is held.                                        *)
THEOREM Refinement == Spec => ImplementsPool
<1>1. QED
  BY InitIInv, NextIInv, InitRefines, StepRefines, PTL DEF Spec, ImplementsPool, Pool!Spec
=============================================================================
