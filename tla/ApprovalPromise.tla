-------------------------- MODULE ApprovalPromise --------------------------
(***************************************************************************)
(* What the approval loop promises of every approval id, with no group, no *)
(* row read and written back, and no process: an id is shown to the users  *)
(* before it can be approved, applied only when it was approved, and never *)
(* again once its apply is noted. An apply that was not noted yet can be   *)
(* forgotten, and may then be done again.                                  *)
(***************************************************************************)
EXTENDS Sequences

VARIABLES
    shown,      \* ids whose buttons a user may press
    approved,   \* ids a permitted user has approved
    applied,    \* the ids that were applied, in that order
    due,        \* the ids whose last apply is still to be noted
    noted       \* ids with a note that they were applied

vars == <<shown, approved, applied, due, noted>>

Init ==
    /\ shown = {} /\ approved = {} /\ due = {} /\ noted = {}
    /\ applied = <<>>

Show ==
    /\ shown \subseteq shown'
    /\ UNCHANGED <<approved, applied, due, noted>>

Approve(id) ==
    /\ id \in shown
    /\ approved' = approved \cup {id}
    /\ UNCHANGED <<shown, applied, due, noted>>

Apply(id) ==
    /\ id \in approved \ noted /\ due = {}
    /\ applied' = Append(applied, id)
    /\ due' = {id}
    /\ UNCHANGED <<shown, approved, noted>>

Note(id) ==
    /\ id \in due
    /\ noted' = noted \cup {id}
    /\ due' = {}
    /\ UNCHANGED <<shown, approved, applied>>

Forget ==
    /\ due' = {}
    /\ UNCHANGED <<shown, approved, applied, noted>>

Next ==
    \/ Show \/ Forget
    \/ \E id \in shown : Approve(id)
    \/ \E id \in approved : Apply(id)
    \/ \E id \in due : Note(id)

Spec == Init /\ [][Next]_vars
=============================================================================
