------------------------- MODULE MCCanaryLifecycle -------------------------
(* One symbol, checked by TLC. *)
EXTENDS CanaryLifecycle
=============================================================================
