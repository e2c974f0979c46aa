----------------------------- MODULE MCReadFair -----------------------------
(* Two files on a link of two fetches and a budget of two pages.           *)
EXTENDS ReadFair

CONSTANTS f1, f2, a1, a2, d1

File == (a1 :> f1) @@ (a2 :> f1) @@ (d1 :> f2)
Pages == (a1 :> 2) @@ (a2 :> 1) @@ (d1 :> 2)

FileMap == [r \in Reads |-> File[r]]
LengthMap == [r \in Reads |-> Pages[r]]
=============================================================================
