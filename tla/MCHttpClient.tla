----------------------------- MODULE MCHttpClient -----------------------------
(* A metadata request and a file read, and connections enough for both and *)
(* a full pool.                                                            *)
EXTENDS HttpClient
=============================================================================
