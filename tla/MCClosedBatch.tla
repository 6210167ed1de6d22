--------------------------- MODULE MCClosedBatch ---------------------------
(* Small instances of ClosedBatch: two callers of one process, a closer of *)
(* the same process and one of another process.                            *)
EXTENDS ClosedBatch, TLC

CONSTANTS c1, c2, here, there

TwoCallers   == {c1, c2}
BothClosers  == {here, there}
OtherCloser  == {there}
HereOnly     == {here}
NoCloser     == {}

(* Callers are interchangeable: used in the run without liveness.          *)
CallerSymmetry == Permutations(Callers)
=============================================================================
