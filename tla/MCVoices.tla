------------------------------ MODULE MCVoices ------------------------------
(* A small instance of Voices. *)
EXTENDS Voices
=============================================================================
