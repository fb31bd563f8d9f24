------------------------- MODULE MCRealtimeHandoff -------------------------
(* A small instance of RealtimeHandoff for TLC. *)
EXTENDS RealtimeHandoff

CONSTANTS a, b, c
ThreeItems == {a, b, c}
=============================================================================
