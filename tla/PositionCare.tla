---------------------------- MODULE PositionCare ----------------------------
(***************************************************************************)
(* What the exit manager may do to a position at the broker, with no pass, *)
(* stage or price: its stop is only tightened, one part of it is closed as *)
(* long as nothing made the manager forget that, and otherwise it is       *)
(* closed as a whole, by an exit or by its stop. A position that is closed *)
(* stays so; the next one starts with its full volume and no stop.         *)
(***************************************************************************)
EXTENDS Integers

CONSTANTS
    Full,   \* the volume of a new position
    Part,   \* the volume of a part
    None    \* the stop of a position that has none

VARIABLES
    volume,  \* open volume, 0 when closed
    stop,    \* distance of the stop from the entry price
    taken    \* whether a part was closed since the manager last forgot

vars == <<volume, stop, taken>>

Init == volume = Full /\ stop = None /\ taken = FALSE

Tighten ==
    /\ volume > 0 /\ stop' > stop
    /\ UNCHANGED <<volume, taken>>

TakePart ==
    /\ volume > 0 /\ ~taken /\ taken' = TRUE
    /\ volume' = IF volume > Part THEN volume - Part ELSE 0
    /\ stop' = IF volume' = 0 THEN None ELSE stop

Close ==
    /\ volume > 0 /\ volume' = 0 /\ stop' = None
    /\ UNCHANGED taken \/ taken' = FALSE

(* An exit was attempted, or the manager restarts. *)
Forget ==
    /\ taken' = FALSE
    /\ UNCHANGED <<volume, stop>>

Open ==
    /\ volume = 0 /\ volume' = Full /\ stop' = None
    /\ taken' = FALSE

Next == Tighten \/ TakePart \/ Close \/ Forget \/ Open

Spec == Init /\ [][Next]_vars
=============================================================================
