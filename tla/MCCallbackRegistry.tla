------------------------ MODULE MCCallbackRegistry ------------------------
(* A small instance of CallbackRegistry for TLC. *)
EXTENDS CallbackRegistry

CONSTANTS t1, t2, k1, k2, v1, e1, e2, e3, e4

TwoThreads == {t1, t2}
TwoKeys == {k1, k2}
OneValue == {v1}
FourEntries == {e1, e2, e3, e4}
=============================================================================
