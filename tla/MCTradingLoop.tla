--------------------------- MODULE MCTradingLoop ---------------------------
(* Three slots for two positions, so that one too many is possible.        *)
EXTENDS TradingLoop, TLC

Symmetry == Permutations(Slots)
=============================================================================
