---------------------------- MODULE MCNodeTable ----------------------------
(***************************************************************************)
(* NodeTable for TLC: a directory dir and its entry file, in              *)
(* different buckets.                                                      *)
(***************************************************************************)
EXTENDS NodeTable

CONSTANTS dir, file

MCParent == [n \in Nodes |-> IF n = dir THEN Root ELSE dir]
MCPrefixes == [n \in Nodes |-> {dir, n}]
MCBucket == [n \in Nodes |-> n]
=============================================================================
