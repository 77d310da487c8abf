------------------------------ MODULE MCCosimLink ------------------------------
(* Small instances of CosimLink; the constants are in the cfg files.        *)
EXTENDS CosimLink
=============================================================================
