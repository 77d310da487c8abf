---------------------------- MODULE MCGfChannel ----------------------------
(* Small instances of GfChannel: one reader, which meets the writer alone.  *)
EXTENDS GfChannel

CONSTANT reader
=============================================================================
