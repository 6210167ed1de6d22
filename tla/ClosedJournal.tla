--------------------------- MODULE ClosedJournal ---------------------------
(***************************************************************************)
(* What TradeLogger.append_closed_rows promises its callers, with no       *)
(* batch, leader, lock or file copy: a journal of closed rows. A call that *)
(* returns normally finds its rows in the journal; a call that fails or    *)
(* times out promises nothing, its rows may still come later; nothing      *)
(* enters the journal that nobody offered, and nothing leaves it unless    *)
(* the file can be overwritten in place (MayCut) and an overwrite breaks   *)
(* off: what it cut off is lost until it is appended again.                *)
(***************************************************************************)
CONSTANTS
    Callers, Row,
    MayCut     \* whether an overwrite may break off

VARIABLES
    journal,   \* the durable rows
    lost,      \* rows that were cut off and not appended again
    offered,   \* rows some append still may write
    call       \* per caller: how its last call stands, and with which rows

vars == <<journal, lost, offered, call>>

Ended == {"none", "ok", "error", "timeout"}

Init ==
    /\ journal = {} /\ lost = {} /\ offered = {}
    /\ call = [c \in Callers |-> [state |-> "none", rows |-> {}]]

Call(c, rows) ==
    /\ call[c].state \in Ended
    /\ call' = [call EXCEPT ![c] = [state |-> "waiting", rows |-> rows]]
    /\ offered' = offered \cup rows
    /\ UNCHANGED <<journal, lost>>

(* A trade is closed outside append_closed_rows. *)
Offer(row) ==
    /\ offered' = offered \cup {row}
    /\ UNCHANGED <<journal, lost, call>>

Commit(rows) ==
    /\ rows \subseteq offered
    /\ journal' = journal \cup rows
    /\ lost' = lost \ rows
    /\ offered' \subseteq offered
    /\ UNCHANGED call

Drop ==
    /\ offered' \subseteq offered
    /\ UNCHANGED <<journal, lost, call>>

(* Rows are cut off: none, unless the file can be overwritten in place.    *)
Lose(rows) ==
    /\ rows # {} => MayCut
    /\ rows \subseteq journal
    /\ journal' = journal \ rows
    /\ lost' = lost \cup rows

(* An overwrite breaks off, its call or close fails. *)
Cut(rows) ==
    /\ Lose(rows)
    /\ offered' \subseteq offered
    /\ UNCHANGED call

Return(c, state) ==
    /\ call[c].state = "waiting"
    /\ state = "ok" => call[c].rows \subseteq journal \cup lost
    /\ call' = [call EXCEPT ![c].state = state]
    /\ UNCHANGED <<journal, lost, offered>>

(* The process dies, perhaps while it overwrites the file: no call is      *)
(* outstanding any more.                                                   *)
Forget(rows) ==
    /\ Lose(rows)
    /\ call' = [c \in Callers |-> [call[c] EXCEPT !.state = "none"]]
    /\ offered' \subseteq offered

Next ==
    \/ Drop
    \/ \E c \in Callers, state \in Ended : Return(c, state)
    \/ \E row \in Row : Offer(row)
    \/ \E c \in Callers : \E rows \in SUBSET Row : Call(c, rows)
    \/ \E rows \in SUBSET Row : Commit(rows) \/ Cut(rows) \/ Forget(rows)

Spec == Init /\ [][Next]_vars
=============================================================================
