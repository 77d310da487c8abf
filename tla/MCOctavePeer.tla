------------------------------ MODULE MCOctavePeer ------------------------------
(* Small instances of OctavePeer; the constants are in the cfg file.        *)
EXTENDS OctavePeer
=============================================================================
