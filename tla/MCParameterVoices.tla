-------------------------- MODULE MCParameterVoices --------------------------
(* Two voices, two keys, two slots for pending expressions. *)
EXTENDS ParameterVoices
=============================================================================
