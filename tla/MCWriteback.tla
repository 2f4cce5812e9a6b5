---------------------------- MODULE MCWriteback ----------------------------
(* One writer, one mapper, the flusher and a sync on a file of two pages.  *)
EXTENDS Writeback
CONSTANT t1
=============================================================================
