---------------------------- MODULE MCWatchCycles ----------------------------
(* Three rows, one script and one fault, checked by TLC. *)
EXTENDS WatchCycles
=============================================================================
