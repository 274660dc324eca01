------------------------------ MODULE MCPaging ------------------------------
(***************************************************************************)
(* Paging with a few directory entries; the heap has fewer regions than    *)
(* the directory has entries, so that it can run out.                      *)
(***************************************************************************)
EXTENDS Paging, TLC

RegionSymmetry == Permutations(TableRegions)
=============================================================================
