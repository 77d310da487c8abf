---------------------------- MODULE MCLiveBridge ----------------------------
(* Two windows on one bridge.                                              *)
EXTENDS LiveBridge

CONSTANTS gui, other
=============================================================================
