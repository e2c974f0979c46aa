---------------------------- MODULE MCSocketAsync ----------------------------
(* Requests of up to two operations each, over fewer contexts than would   *)
(* keep every operation apart.                                             *)
EXTENDS SocketAsync
=============================================================================
