-------------------------- MODULE MCPolysynthState --------------------------
(* A small instance of PolysynthState. *)
EXTENDS PolysynthState
=============================================================================
