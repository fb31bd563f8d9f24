---------------------------- MODULE MCGainBridge ----------------------------
(* A small instance of GainBridge; its cfg gives the two parameters as model values. *)
EXTENDS GainBridge
=============================================================================
