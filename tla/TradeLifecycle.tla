--------------------------- MODULE TradeLifecycle ---------------------------
(***************************************************************************)
(* What the trade ledger promises of one trade: it is not logged yet, or   *)
(* logged as open, or closed; it becomes closed only after it was open,    *)
(* and a closed trade stays closed. No file, cache, process or crash. Only *)
(* where files can be overwritten in place (MayCut) may an overwrite that  *)
(* breaks off take back what it was writing: a trade is lost until it is   *)
(* logged again, or is open once more when only its close was cut off.     *)
(***************************************************************************)
CONSTANTS
    Ticket,
    MayCut     \* whether an overwrite may break off

VARIABLE stage

Init == stage = [t \in Ticket |-> "unlogged"]

Log(ts) ==
    /\ \A t \in ts : stage[t] \in {"unlogged", "lost"}
    /\ stage' = [t \in Ticket |-> IF t \in ts THEN "open" ELSE stage[t]]

Close(t) ==
    /\ stage[t] = "open"
    /\ stage' = [stage EXCEPT ![t] = "closed"]

(* Those of ts are lost, those of us lose their close. *)
Cut(ts, us) ==
    /\ MayCut
    /\ \A t \in ts : stage[t] \in {"open", "closed"}
    /\ \A t \in us : stage[t] = "closed"
    /\ stage' = [t \in Ticket |-> IF t \in ts THEN "lost"
                                  ELSE IF t \in us THEN "open" ELSE stage[t]]

Next ==
    \/ \E ts \in SUBSET Ticket : Log(ts)
    \/ \E t \in Ticket : Close(t)
    \/ \E ts, us \in SUBSET Ticket : Cut(ts, us)

Spec == Init /\ [][Next]_stage
=============================================================================
