--------------------------- MODULE MCFspWorkQueue ---------------------------
(* A create, a read and a directory query; two workers.                    *)
EXTENDS FspWorkQueue

CONSTANTS create, read, query, w1, w2

KindMap == [i \in Irps |-> CASE i = create -> "create" [] i = read -> "read" [] i = query -> "dirctrl"]
=============================================================================
