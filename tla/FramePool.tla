----------------------------- MODULE FramePool -----------------------------
(***************************************************************************)
(* What the physical frame allocator promises its callers: a frame that is *)
(* handed out is a frame nobody holds, an allocation is refused only when  *)
(* every frame is held, and returning a frame that is not held stops the   *)
(* kernel.  FrameAllocator is shown to implement it.                       *)
(***************************************************************************)
EXTENDS Integers

CONSTANTS Frames,  \* the frames the pool manages
          None     \* no frame: the answer of an allocation that is refused

VARIABLES held,      \* the frames handed out and not returned
          answer,    \* what the last allocation answered
          panicked   \* the kernel stopped on a misuse

vars == <<held, answer, panicked>>

Init == held = {} /\ answer = None /\ panicked = FALSE

(* An allocation answers any frame that is not held...                     *)
Grant == /\ ~panicked
         /\ \E f \in Frames \ held : held' = held \cup {f} /\ answer' = f
         /\ UNCHANGED panicked

(* ... and is refused only when there is none.                             *)
Refuse == /\ ~panicked
          /\ Frames \subseteq held
          /\ answer' = None
          /\ UNCHANGED <<held, panicked>>

Return == /\ ~panicked
          /\ \E f \in held : held' = held \ {f}
          /\ UNCHANGED <<answer, panicked>>

Misuse == ~panicked /\ panicked' = TRUE /\ UNCHANGED <<held, answer>>

Next == Grant \/ Refuse \/ Return \/ Misuse

Spec == Init /\ [][Next]_vars
=============================================================================
