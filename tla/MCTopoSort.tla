----------------------------- MODULE MCTopoSort -----------------------------
(* TopoSort for TLC: MCTopoSort.cfg takes every table of Rows rows over Names. *)
EXTENDS TopoSort
=============================================================================
