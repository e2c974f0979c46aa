-------------------------- MODULE MCSocketPrewarm ---------------------------
(* Fills of two connects each over a pool of two, on three threads.         *)
EXTENDS SocketPrewarm

CONSTANTS t1, t2, t3
=============================================================================
