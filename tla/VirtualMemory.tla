--------------------------- MODULE VirtualMemory ---------------------------
(***************************************************************************)
(* What paging promises to the loaders: user pages are backed by frames of *)
(* their own.  Mapping gives an unmapped page a frame that backs no other  *)
(* page, unmapping takes it away, and nothing ever remaps a page in place. *)
(***************************************************************************)
CONSTANTS Pages,        \* the virtual pages above the kernel's 4 MiB
          PhysFrames,   \* the physical frames above the kernel's
          absent        \* the backing of a page that is not mapped

VARIABLE backing

Init == backing = [v \in Pages |-> absent]

InUse == {backing[v] : v \in Pages}

Map == \E v \in Pages, f \in PhysFrames \ InUse :
          backing[v] = absent /\ backing' = [backing EXCEPT ![v] = f]

Unmap == \E v \in Pages :
            backing[v] # absent /\ backing' = [backing EXCEPT ![v] = absent]

Next == Map \/ Unmap

Spec == Init /\ [][Next]_backing
=============================================================================
