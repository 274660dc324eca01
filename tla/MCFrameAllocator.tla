-------------------------- MODULE MCFrameAllocator --------------------------
(* The frame allocator on a bitmap of three elements of four frames, the     *)
(* first of them the kernel's.                                               *)
EXTENDS FrameAllocator
=============================================================================
