----------------------------- MODULE RowAccount -----------------------------
(***************************************************************************)
(* What the cycles promise of the checkpoint rows, with no cycle, no lock  *)
(* and no process: rows come, finished analyses cover some of the newest,  *)
(* and the count of processed rows follows the analyses. Nothing is taken  *)
(* back. An analysis covers a limited number of rows: a row that was       *)
(* counted and never analysed has at least Limit newer rows before it in   *)
(* an analysis, so none is missed while fewer rows come between two counts.*)
(***************************************************************************)
EXTENDS Naturals

CONSTANT Limit  \* the newest rows that an analysis before a count covers

VARIABLES
    rows,      \* rows there are, by number: 1 .. rows
    analysed,  \* rows a finished analysis covered
    counted    \* rows counted as processed

vars == <<rows, analysed, counted>>

Init == rows = 0 /\ analysed = {} /\ counted = 0

Append ==
    /\ rows' = rows + 1
    /\ UNCHANGED <<analysed, counted>>

Analyse ==
    /\ analysed' \in SUBSET (1 .. rows) /\ analysed \subseteq analysed'
    /\ UNCHANGED <<rows, counted>>

Outdated(r) == \E m \in analysed : r + Limit <= m

Count ==
    /\ counted' \in counted .. rows
    /\ \A r \in (counted + 1) .. counted' : r \in analysed \/ Outdated(r)
    /\ UNCHANGED <<rows, analysed>>

Next == Append \/ Analyse \/ Count

Spec == Init /\ [][Next]_vars
=============================================================================
