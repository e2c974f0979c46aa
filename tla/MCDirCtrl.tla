------------------------------ MODULE MCDirCtrl ------------------------------
(* Two queries at a time on one handle.  At most five snapshots are        *)
(* referred to at once: the handle's, the cache's, one in each query's     *)
(* hands and one being made.                                               *)
EXTENDS DirCtrl

CONSTANTS i1, i2
=============================================================================
