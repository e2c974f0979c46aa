---------------------------- MODULE MCDiskCache ----------------------------
(* Two blocks that contend for the one slot of the file.                   *)
EXTENDS DiskCache

MCChainOf == [k \in Keys |-> 1]
MCGhostSetOf == [k \in Keys |-> 1]
=============================================================================
