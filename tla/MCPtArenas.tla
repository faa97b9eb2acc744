----------------------------- MODULE MCPtArenas -----------------------------
(* PtArenas on a small instance: two threads, four calls between them. *)
EXTENDS PtArenas
=============================================================================
