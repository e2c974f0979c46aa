-------------------------- MODULE MCDiskCacheIndex --------------------------
(***************************************************************************)
(* DiskCacheIndex for TLC: two of the blocks share a hash chain, and all   *)
(* share one set of ghost ways, smaller than the number of blocks.         *)
(***************************************************************************)
EXTENDS DiskCacheIndex, TLC

CONSTANTS k1, k2, k3, r1, r2

MCChainOf == [k \in Keys |-> IF k = k3 THEN 2 ELSE 1]
MCGhostSetOf == [k \in Keys |-> 1]
Symm == Permutations(Reads) \cup Permutations({k1, k2})
=============================================================================
