---------------------------- MODULE TradeLedger ----------------------------
(***************************************************************************)
(* The trade ledger: TradeLogger (backend/trading/trade_logger*.py) and    *)
(* its SQLite mirror (backend/services/trade_sqlite_store.py).             *)
(*                                                                         *)
(* Each process owns a TradeLogger: the trading runner and the API server  *)
(* both log positions, detect closed ones and reconcile, on the same files *)
(* trade_history.csv (open trades), trade_closed_history.csv and trades.db.*)
(* An operation reads the open file, works on its copy and writes it back; *)
(* only the write is locked. What a process remembers (active tickets,     *)
(* snapshot signatures, pending checks) dies with it.                      *)
(*                                                                         *)
(* A trade is its ticket; a closed row is the ticket and the close time,   *)
(* 0 standing for the time of the exit deal. Prices, scores, reasons and   *)
(* the shock-event file are left out, and so are legacy CLOSED rows of the *)
(* open file. Appending under the closed-file lock is one step here and is *)
(* opened up in ClosedBatch, and so is the pruning of the mirror: there    *)
(* are fewer closed trades here than the 100 it keeps per symbol.          *)
(*                                                                         *)
(* A file that is written is replaced, or, when os.replace is refused to   *)
(* the last retry, overwritten in place (atomic_write_df). openCsv and     *)
(* closedCsv are then what the file holds once all rows are back; until    *)
(* then a reader finds a part of them, and if the overwrite raises or its  *)
(* process dies, a part is all that is left. A row that is cut in the      *)
(* middle counts as cut off, and a file torn so that it does not decode    *)
(* any more as one that cannot be read (ReadMayFail).                      *)
(***************************************************************************)
EXTENDS Naturals, FiniteSets

CONSTANTS
    Ticket,          \* broker positions, by ticket
    Writer,          \* processes whose TradeLogger logs and closes trades
    Syncer,          \* processes that call sync_from_csv on reads
    MaxRestarts,     \* bound: restarts, over all processes
    MaxForced,       \* bound: forced closes, over all processes
    ReadMayFail,     \* whether reading the open file may fail
    WriteMayFail,    \* whether a file write may fail
    ReplaceMayFail,  \* whether os.replace may be refused to the last retry
    QueryMayFail,    \* whether positions_get may return None or raise
    PartialCloses    \* whether a position may be closed in part

Proc == Writer \cup Syncer

ASSUME LedgerAssumption ==
    /\ MaxRestarts \in Nat /\ MaxForced \in Nat
    /\ ReadMayFail \in BOOLEAN /\ WriteMayFail \in BOOLEAN
    /\ ReplaceMayFail \in BOOLEAN
    /\ QueryMayFail \in BOOLEAN /\ PartialCloses \in BOOLEAN

VARIABLES
    (* The broker. *)
    position,     \* none, filled (not listed yet), listed, closed
    partial,      \* positions that were closed in part: an exit deal exists
    (* The files. *)
    openCsv,      \* tickets of the OPEN rows of the open file
    closedCsv,    \* rows of the closed file
    openTable,    \* tickets of the SQLite table open_trades
    closedTable,  \* rows of the SQLite table closed_trades
    synced,       \* the mtimes in SQLite's meta table match both files
    lostOpen,     \* tickets and closed rows that an overwrite which broke off
    lostClosed,   \*   did not bring back
    (* The memory of each process. *)
    active,       \* active_tickets
    cached,       \* tickets of _open_snapshot_signature_cache
    checks,       \* closed_pending_checks, counted up to MinChecks
    age,          \* closed_pending_since: 0 recent, 1 over 15s, 2 over 120s
    (* The operation each process is in. *)
    pc, op, todo, closing, df,
    copy,         \* the closed rows a sync has read
    stale,        \* a file changed since a sync took the mtimes
    restarts, forced

broker == <<position, partial>>
lost   == <<lostOpen, lostClosed>>
disk   == <<openCsv, closedCsv, openTable, closedTable, synced, lost>>
memory == <<active, cached, checks, age>>
local  == <<pc, op, todo, closing, df, copy>>
bounds == <<restarts, forced>>
vars   == <<broker, disk, memory, local, stale, bounds>>

MinChecks == 3   \* checks before check_closed_trades stops waiting
LongAge   == 2   \* 120 seconds and more

ClosedRow == [ticket : Ticket, at : Nat]
NoRow == [ticket |-> "none", at |-> 0]

TicketsOf(rows) == {r.ticket : r \in rows}
Listed == {t \in Ticket : position[t] = "listed"}
HasExitDeal(t) == position[t] = "closed" \/ t \in partial

Init ==
    /\ position = [t \in Ticket |-> "none"] /\ partial = {}
    /\ openCsv = {} /\ closedCsv = {}
    /\ openTable = {} /\ closedTable = {} /\ synced = TRUE
    /\ lostOpen = {} /\ lostClosed = {}
    /\ active = [p \in Proc |-> {}] /\ cached = [p \in Proc |-> {}]
    /\ checks = [p \in Proc |-> [t \in Ticket |-> 0]]
    /\ age = [p \in Proc |-> [t \in Ticket |-> 0]]
    /\ pc = [p \in Proc |-> "idle"] /\ op = [p \in Proc |-> "none"]
    /\ todo = [p \in Proc |-> {}] /\ closing = [p \in Proc |-> NoRow]
    /\ df = [p \in Proc |-> {}] /\ copy = [p \in Proc |-> {}]
    /\ stale = [p \in Proc |-> FALSE]
    /\ restarts = 0 /\ forced = 0

Goto(p, place) == pc' = [pc EXCEPT ![p] = place]
Finish(p) ==
    /\ pc' = [pc EXCEPT ![p] = "idle"]
    /\ op' = [op EXCEPT ![p] = "none"]
    /\ todo' = [todo EXCEPT ![p] = {}]
    /\ closing' = [closing EXCEPT ![p] = NoRow]
    /\ df' = [df EXCEPT ![p] = {}]
    /\ copy' = [copy EXCEPT ![p] = {}]

(* An overwrite of the open or of the closed file is under way; its lock   *)
(* keeps other writers away, not the readers.                              *)
OpenTorn   == \E p \in Proc : pc[p] = "openOver"
ClosedTorn == \E p \in Proc : pc[p] = "closedOver"

(* What the open and the closed file may hold now. *)
VisibleOpen   == IF OpenTorn THEN SUBSET openCsv ELSE {openCsv}
VisibleClosed == IF ClosedTorn THEN SUBSET closedCsv ELSE {closedCsv}

(* What _read_open_df_safe returns. *)
ReadOpen == VisibleOpen \cup (IF ReadMayFail THEN {{}} ELSE {})

(* Two mutants: a sync under way stores the mtimes it finds at its end; a  *)
(* replaced file keeps its mtime.                                          *)
TouchedUnseen == synced' = FALSE /\ UNCHANGED stale
MtimesKept    == UNCHANGED <<synced, stale>>

(* A CSV file was replaced: its mtime differs from the one in meta, and    *)
(* from the one a sync in progress took.                                   *)
Touched ==
    /\ synced' = FALSE
    /\ stale' = [p \in Proc |-> TRUE]

(* The open file has been replaced, or is being overwritten. *)
OpenWritten(p) ==
    /\ ~OpenTorn
    /\ lostOpen' = lostOpen \ df[p]
    /\ \/ Goto(p, "openUpsert")
       \/ ReplaceMayFail /\ Goto(p, "openOver")
    /\ Touched

(* An overwrite of p ends early: only a part of the rows is back.          *)
BreakOff(p) ==
    /\ pc[p] = "openOver" =>
          \E rows \in VisibleOpen :
             /\ openCsv' = rows /\ lostOpen' = lostOpen \cup (openCsv \ rows)
             /\ UNCHANGED <<closedCsv, lostClosed>>
    /\ pc[p] = "closedOver" =>
          \E rows \in VisibleClosed :
             /\ closedCsv' = rows /\ lostClosed' = lostClosed \cup (closedCsv \ rows)
             /\ UNCHANGED <<openCsv, lostOpen>>

-----------------------------------------------------------------------------
(* The broker (external): MT5 positions and exit deals.                    *)

Fill(t) ==
    /\ position[t] = "none"
    /\ position' = [position EXCEPT ![t] = "filled"]
    /\ UNCHANGED <<partial, disk, memory, local, stale, bounds>>

List(t) ==
    /\ position[t] = "filled"
    /\ position' = [position EXCEPT ![t] = "listed"]
    /\ UNCHANGED <<partial, disk, memory, local, stale, bounds>>

ClosePart(t) ==
    /\ PartialCloses /\ t \in Listed
    /\ partial' = partial \cup {t}
    /\ UNCHANGED <<position, disk, memory, local, stale, bounds>>

ClosePosition(t) ==
    /\ t \in Listed
    /\ position' = [position EXCEPT ![t] = "closed"]
    /\ UNCHANGED <<partial, disk, memory, local, stale, bounds>>

-----------------------------------------------------------------------------
(* upsert_open_snapshots.                                                  *)

(* The caller built snapshots: of listed positions, or of an order that    *)
(* was just filled (log_entry). They may be old when the file is read.     *)
StartSnapshot(p, ts) ==
    /\ p \in Writer /\ pc[p] = "idle"
    /\ ts # {} /\ \A t \in ts : position[t] \in {"filled", "listed"}
    /\ Goto(p, "snapshot")
    /\ op' = [op EXCEPT ![p] = "snapshot"]
    /\ todo' = [todo EXCEPT ![p] = ts]
    /\ UNCHANGED <<broker, disk, memory, closing, df, copy, stale, bounds>>

(* Every signature is cached: nothing to do. *)
SkipSnapshot(p) ==
    /\ pc[p] = "snapshot" /\ todo[p] \subseteq cached[p]
    /\ Finish(p)
    /\ UNCHANGED <<broker, disk, memory, stale, bounds>>

(* Rows to insert and rows that changed; memory is updated before the      *)
(* file is written.                                                        *)
MergeSnapshot(p) ==
    /\ pc[p] = "snapshot"
    /\ \E rows \in ReadOpen : \E changed \in SUBSET (todo[p] \cap rows) :
          LET touched == (todo[p] \ rows) \cup changed IN
          /\ cached' = [cached EXCEPT ![p] = @ \cup todo[p]]
          /\ active' = [active EXCEPT ![p] = @ \cup touched]
          /\ \/ touched = {} /\ Finish(p)
             \/ /\ touched # {}
                /\ Goto(p, "snapWrite")
                /\ df' = [df EXCEPT ![p] = rows \cup todo[p]]
                /\ UNCHANGED <<op, todo, closing, copy>>
    /\ UNCHANGED <<broker, disk, checks, age, stale, bounds>>

WriteSnapshot(p) ==
    /\ pc[p] = "snapWrite"
    /\ openCsv' = df[p]
    /\ OpenWritten(p)
    /\ UNCHANGED <<broker, closedCsv, lostClosed, openTable, closedTable, memory,
                   op, todo, closing, df, copy, bounds>>

(* The exception is caught: upsert_open_snapshots returns 0. The new file  *)
(* could not be written next to the old one, which stays as it was; for a  *)
(* failing overwrite see OverwriteFails.                                   *)
FailSnapshot(p) ==
    /\ WriteMayFail /\ pc[p] = "snapWrite"
    /\ Finish(p)
    /\ UNCHANGED <<broker, disk, memory, stale, bounds>>

(* update_exit_policy_context when the SQLite row cannot be patched: the   *)
(* row changes in a copy of the whole open file.                           *)
UpdatePolicy(p, t) ==
    /\ p \in Writer /\ pc[p] = "idle"
    /\ t \notin openTable \/ WriteMayFail
    /\ \E rows \in ReadOpen : t \in rows /\ df' = [df EXCEPT ![p] = rows]
    /\ op' = [op EXCEPT ![p] = "policy"]
    /\ Goto(p, "snapWrite")
    /\ UNCHANGED <<broker, disk, memory, todo, closing, copy, stale, bounds>>

-----------------------------------------------------------------------------
(* check_closed_trades and reconcile_open_trades choose the tickets.       *)

StartCheck(p) ==
    /\ p \in Writer /\ pc[p] = "idle"
    /\ active[p] \ Listed # {}
    /\ todo' = [todo EXCEPT ![p] = active[p] \ Listed]
    /\ op' = [op EXCEPT ![p] = "check"]
    /\ Goto(p, "scan")
    /\ UNCHANGED <<broker, disk, memory, closing, df, copy, stale, bounds>>

(* "positions_get() or []": no answer is taken for no position. *)
StartReconcile(p) ==
    /\ p \in Writer /\ pc[p] = "idle"
    /\ \E rows \in VisibleOpen,
          seen \in {Listed} \cup (IF QueryMayFail THEN {{}} ELSE {}) :
          /\ rows \ seen # {}
          /\ todo' = [todo EXCEPT ![p] = rows \ seen]
    /\ op' = [op EXCEPT ![p] = "reconcile"]
    /\ Goto(p, "scan")
    /\ UNCHANGED <<broker, disk, memory, closing, df, copy, stale, bounds>>

ScanDone(p) ==
    /\ pc[p] = "scan" /\ todo[p] = {}
    /\ Finish(p)
    /\ UNCHANGED <<broker, disk, memory, stale, bounds>>

ClearPending(p, t) ==
    /\ checks' = [checks EXCEPT ![p][t] = 0]
    /\ age' = [age EXCEPT ![p][t] = 0]

(* check: the position is listed after all. *)
StillOpen(p, t) ==
    /\ op[p] = "check" /\ t \in Listed
    /\ ClearPending(p, t)
    /\ todo' = [todo EXCEPT ![p] = @ \ {t}]
    /\ UNCHANGED <<active, cached, pc, closing, forced>>

(* check goes on only if the second query does not find the position;      *)
(* reconcile asks once.                                                    *)
TakenForClosed(p, t) ==
    op[p] = "check" => t \notin Listed \/ QueryMayFail

(* Mutant: the close time is left out. *)
UntimedRow(t) == [ticket |-> t]

DealRow(t) == [ticket |-> t, at |-> 0]

CloseWithDeal(p, t) ==
    /\ TakenForClosed(p, t) /\ HasExitDeal(t)
    /\ closing' = [closing EXCEPT ![p] = DealRow(t)]
    /\ Goto(p, "closeRead")
    /\ UNCHANGED <<memory, todo, forced>>

(* reconcile leaves a ticket without exit deal alone. *)
LeaveOpen(p, t) ==
    /\ op[p] = "reconcile"
    /\ todo' = [todo EXCEPT ![p] = @ \ {t}]
    /\ UNCHANGED <<memory, pc, closing, forced>>

(* Two mutants: the grace period is not waited for, or never ends. *)
ChecksOnly(p, t) == checks[p][t] + 1 >= MinChecks
NeverOver(p, t)  == FALSE

GraceOver(p, t) == checks[p][t] + 1 >= MinChecks /\ age[p][t] = LongAge

(* check: no deal found (yet). The first time only remembers it.           *)
WaitForDeal(p, t) ==
    /\ op[p] = "check" /\ TakenForClosed(p, t)
    /\ ~GraceOver(p, t)
    /\ checks' = [checks EXCEPT
                    ![p][t] = IF @ < MinChecks THEN @ + 1 ELSE MinChecks]
    /\ todo' = [todo EXCEPT ![p] = @ \ {t}]
    /\ UNCHANGED <<active, cached, age, pc, closing, forced>>

(* check: no deal after the grace period, the trade is closed at its open  *)
(* price, now.                                                             *)
ForceClose(p, t) ==
    /\ op[p] = "check" /\ TakenForClosed(p, t)
    /\ GraceOver(p, t)
    /\ forced < MaxForced
    /\ forced' = forced + 1
    /\ checks' = [checks EXCEPT ![p][t] = MinChecks]
    /\ closing' = [closing EXCEPT ![p] = [ticket |-> t, at |-> forced + 1]]
    /\ Goto(p, "closeRead")
    /\ UNCHANGED <<active, cached, age, todo>>

ScanTicket(p) ==
    /\ pc[p] = "scan"
    /\ \E t \in todo[p] :
          \/ StillOpen(p, t) \/ CloseWithDeal(p, t) \/ LeaveOpen(p, t)
          \/ WaitForDeal(p, t) \/ ForceClose(p, t)
    /\ UNCHANGED <<broker, disk, op, df, copy, stale, restarts>>

(* Time passes for a pending ticket. Assumed: an operation takes much less *)
(* than the grace period, and a filled position is listed well within it.  *)
(* Bound: no age is kept for a forced close that MaxForced does not allow. *)
Age(p, t) ==
    /\ pc[p] = "idle" /\ forced < MaxForced
    /\ checks[p][t] > 0 /\ age[p][t] < LongAge
    /\ age[p][t] + 1 = LongAge => position[t] # "filled"
    /\ age' = [age EXCEPT ![p][t] = @ + 1]
    /\ UNCHANGED <<broker, disk, active, cached, checks, local, stale, bounds>>

-----------------------------------------------------------------------------
(* update_closed_trade and force_close_unknown.                            *)

(* Back in the scan: with a deal the ticket is dropped whatever became of  *)
(* the rows; after a forced close only if it succeeded. Reconcile does not *)
(* touch the pending checks.                                               *)
CloseEnds(p, ok) ==
    LET t == closing[p].ticket
        dropped == ok \/ closing[p].at = 0 IN
    /\ active' = [active EXCEPT ![p] = IF dropped THEN @ \ {t} ELSE @]
    /\ IF dropped /\ op[p] = "check"
         THEN ClearPending(p, t) ELSE UNCHANGED <<checks, age>>
    /\ todo' = [todo EXCEPT ![p] = @ \ {t}]
    /\ closing' = [closing EXCEPT ![p] = NoRow]
    /\ df' = [df EXCEPT ![p] = {}]
    /\ Goto(p, "scan")
    /\ UNCHANGED <<cached, op, copy>>

CloseRead(p) ==
    /\ pc[p] = "closeRead"
    /\ \E rows \in ReadOpen :
          \/ /\ closing[p].ticket \in rows
             /\ df' = [df EXCEPT ![p] = rows]
             /\ Goto(p, "closeAppend")
             /\ UNCHANGED <<memory, op, todo, closing, copy>>
          \/ /\ closing[p].ticket \notin rows
             /\ CloseEnds(p, FALSE)
    /\ UNCHANGED <<broker, disk, stale, bounds>>

(* The closed row goes to SQLite once it is in the file; this may fail.    *)
UpsertClosed(p) ==
    closedTable' \in {closedTable \cup {closing[p]}}
                       \cup (IF WriteMayFail THEN {closedTable} ELSE {})

(* append_to_closed_file: the file is replaced, or is being overwritten.   *)
CloseAppend(p) ==
    /\ pc[p] = "closeAppend" /\ ~ClosedTorn
    /\ closedCsv' = closedCsv \cup {closing[p]}
    /\ lostClosed' = lostClosed \ {closing[p]}
    /\ \/ UpsertClosed(p) /\ Goto(p, "closeWrite")
       \/ ReplaceMayFail /\ Goto(p, "closedOver") /\ UNCHANGED closedTable
    /\ Touched
    /\ UNCHANGED <<broker, openCsv, lostOpen, openTable, memory, op, todo,
                   closing, df, copy, bounds>>

(* Mutant: the closed row stays in the frame. *)
AllRows(p) == df[p]

RemainingRows(p) == df[p] \ {closing[p].ticket}

CloseWrite(p) ==
    /\ pc[p] = "closeWrite"
    /\ openCsv' = RemainingRows(p)
    /\ df' = [df EXCEPT ![p] = RemainingRows(p)]
    /\ OpenWritten(p)
    /\ UNCHANGED <<broker, closedCsv, lostClosed, openTable, closedTable, memory,
                   op, todo, closing, copy, bounds>>

(* Mutant: the row leaves the open file although the append failed. *)
AppendSkipped(p) ==
    /\ WriteMayFail /\ pc[p] = "closeAppend"
    /\ Goto(p, "closeWrite")
    /\ UNCHANGED <<broker, disk, memory, op, todo, closing, df, copy, stale,
                   bounds>>

(* A file could not be written, and is as it was. *)
CloseFails(p) ==
    /\ WriteMayFail /\ pc[p] \in {"closeAppend", "closeWrite"}
    /\ CloseEnds(p, FALSE)
    /\ UNCHANGED <<broker, disk, stale, bounds>>

(* All rows are back: the operation goes on. *)
FinishOverwrite(p) ==
    /\ \/ /\ pc[p] = "openOver" /\ Goto(p, "openUpsert")
          /\ UNCHANGED closedTable
       \/ /\ pc[p] = "closedOver" /\ Goto(p, "closeWrite")
          /\ UpsertClosed(p)
    /\ Touched
    /\ UNCHANGED <<broker, openCsv, closedCsv, lost, openTable, memory, op, todo,
                   closing, df, copy, bounds>>

(* The overwrite raised: its operation fails, and the file stays cut short.*)
OverwriteFails(p) ==
    /\ WriteMayFail /\ pc[p] \in {"openOver", "closedOver"}
    /\ BreakOff(p)
    /\ IF op[p] \in {"snapshot", "policy"}
         THEN Finish(p) /\ UNCHANGED memory
         ELSE CloseEnds(p, FALSE)
    /\ Touched
    /\ UNCHANGED <<broker, openTable, closedTable, bounds>>

(* _sync_open_rows_to_store upserts: it never deletes a row. Its failures  *)
(* are swallowed.                                                          *)
UpsertOpen(p) ==
    /\ pc[p] = "openUpsert"
    /\ openTable' \in {openTable \cup df[p]}
                        \cup (IF WriteMayFail THEN {openTable} ELSE {})
    /\ IF op[p] \in {"snapshot", "policy"}
         THEN Finish(p) /\ UNCHANGED memory
         ELSE CloseEnds(p, TRUE)
    /\ UNCHANGED <<broker, openCsv, closedCsv, lost, closedTable, synced, stale,
                   bounds>>

-----------------------------------------------------------------------------
(* sync_from_csv: mtimes, then the open file, the closed file, and three   *)
(* transactions.                                                           *)

StartSync(p) ==
    /\ p \in Syncer /\ pc[p] = "idle" /\ ~synced
    /\ op' = [op EXCEPT ![p] = "sync"]
    /\ Goto(p, "syncRead")
    /\ \E rows \in VisibleOpen : df' = [df EXCEPT ![p] = rows]
    /\ stale' = [stale EXCEPT ![p] = FALSE]
    /\ UNCHANGED <<broker, disk, memory, todo, closing, copy, bounds>>

SyncRead(p) ==
    /\ pc[p] = "syncRead"
    /\ \E rows \in VisibleClosed : copy' = [copy EXCEPT ![p] = rows]
    /\ Goto(p, "syncOpen")
    /\ UNCHANGED <<broker, disk, memory, op, todo, closing, df, stale, bounds>>

SyncOpen(p) ==
    /\ pc[p] = "syncOpen"
    /\ openTable' = df[p]
    /\ Goto(p, "syncClosed")
    /\ UNCHANGED <<broker, openCsv, closedCsv, lost, closedTable, synced, memory,
                   op, todo, closing, df, copy, stale, bounds>>

SyncClosed(p) ==
    /\ pc[p] = "syncClosed"
    /\ closedTable' = copy[p]
    /\ Goto(p, "syncMeta")
    /\ UNCHANGED <<broker, openCsv, closedCsv, lost, openTable, synced, memory,
                   op, todo, closing, df, copy, stale, bounds>>

(* The start of a TradeLogger ends with _load_active_tickets.              *)
SyncMeta(p) ==
    /\ pc[p] = "syncMeta"
    /\ synced' = ~stale[p]
    /\ IF op[p] = "boot"
         THEN Goto(p, "load") /\ UNCHANGED <<op, todo, closing, df, copy>>
         ELSE Finish(p)
    /\ UNCHANGED <<broker, openCsv, closedCsv, lost, openTable, closedTable,
                   memory, stale, bounds>>

(* The sync gives up: a file could not be read (one that was emptied for   *)
(* an overwrite cannot), or a transaction failed.                          *)
SyncFails(p) ==
    /\ ReadMayFail \/ WriteMayFail \/ ReplaceMayFail
    /\ pc[p] \in {"syncRead", "syncOpen", "syncClosed", "syncMeta"}
    /\ IF op[p] = "boot"
         THEN Goto(p, "load") /\ UNCHANGED <<op, todo, closing, df, copy>>
         ELSE Finish(p)
    /\ UNCHANGED <<broker, disk, memory, stale, bounds>>

(* Mutant: a new process starts without the tickets of the open file. *)
StartsEmpty(p) ==
    /\ pc[p] = "load"
    /\ Finish(p)
    /\ UNCHANGED <<broker, disk, memory, stale, bounds>>

LoadActive(p) ==
    /\ pc[p] = "load"
    /\ \E rows \in ReadOpen : active' = [active EXCEPT ![p] = rows]
    /\ Finish(p)
    /\ UNCHANGED <<broker, disk, cached, checks, age, stale, bounds>>

(* A process dies anywhere and starts again: __init__ forces a sync. If it *)
(* was overwriting a file, the file stays cut short.                       *)
Restart(p) ==
    /\ restarts < MaxRestarts
    /\ restarts' = restarts + 1
    /\ active' = [active EXCEPT ![p] = {}]
    /\ cached' = [cached EXCEPT ![p] = {}]
    /\ checks' = [checks EXCEPT ![p] = [t \in Ticket |-> 0]]
    /\ age' = [age EXCEPT ![p] = [t \in Ticket |-> 0]]
    /\ Goto(p, "syncRead")
    /\ op' = [op EXCEPT ![p] = "boot"]
    /\ todo' = [todo EXCEPT ![p] = {}]
    /\ closing' = [closing EXCEPT ![p] = NoRow]
    /\ copy' = [copy EXCEPT ![p] = {}]
    /\ IF pc[p] \in {"openOver", "closedOver"}
         THEN /\ BreakOff(p)
              /\ synced' = FALSE /\ stale' = [q \in Proc |-> q # p]
         ELSE /\ stale' = [stale EXCEPT ![p] = FALSE]
              /\ UNCHANGED <<openCsv, closedCsv, lost, synced>>
    /\ \E rows \in VisibleOpen' : df' = [df EXCEPT ![p] = rows]
    /\ UNCHANGED <<broker, openTable, closedTable, forced>>

-----------------------------------------------------------------------------
Broker ==
    \E t \in Ticket : Fill(t) \/ List(t) \/ ClosePart(t) \/ ClosePosition(t)

(* The steps of an operation that has started. *)
Continue(p) ==
    \/ SkipSnapshot(p) \/ MergeSnapshot(p) \/ WriteSnapshot(p) \/ FailSnapshot(p)
    \/ ScanTicket(p) \/ ScanDone(p)
    \/ CloseRead(p) \/ CloseAppend(p) \/ CloseWrite(p) \/ CloseFails(p)
    \/ FinishOverwrite(p) \/ OverwriteFails(p)
    \/ UpsertOpen(p)
    \/ SyncRead(p) \/ SyncOpen(p) \/ SyncClosed(p) \/ SyncMeta(p) \/ SyncFails(p)
    \/ LoadActive(p)

Next ==
    \/ Broker
    \/ \E p \in Proc :
          \/ \E ts \in SUBSET Ticket : StartSnapshot(p, ts)
          \/ StartCheck(p) \/ StartReconcile(p) \/ StartSync(p)
          \/ Continue(p) \/ Restart(p)
          \/ \E t \in Ticket : UpdatePolicy(p, t) \/ Age(p, t)

Spec == Init /\ [][Next]_vars

(* The loops of both processes come back to each operation, and time       *)
(* passes between two operations. The broker owes nothing.                 *)
FairSpec ==
    /\ Spec
    /\ \A p \in Proc :
          /\ WF_vars(Continue(p)) /\ SF_vars(StartCheck(p))
          /\ SF_vars(StartSync(p))
          /\ \A t \in Ticket : SF_vars(Age(p, t))

-----------------------------------------------------------------------------
(* Every variable has its type.                                            *)
Place == {"idle", "snapshot", "snapWrite", "scan", "closeRead", "closeAppend",
          "closedOver", "closeWrite", "openOver", "openUpsert", "syncRead",
          "syncOpen", "syncClosed", "syncMeta", "load"}

TypeOK ==
    /\ position \in [Ticket -> {"none", "filled", "listed", "closed"}]
    /\ partial \subseteq Ticket
    /\ openCsv \subseteq Ticket /\ openTable \subseteq Ticket
    /\ closedCsv \subseteq ClosedRow /\ closedTable \subseteq ClosedRow
    /\ synced \in BOOLEAN
    /\ lostOpen \subseteq Ticket /\ lostClosed \subseteq ClosedRow
    /\ active \in [Proc -> SUBSET Ticket] /\ cached \in [Proc -> SUBSET Ticket]
    /\ checks \in [Proc -> [Ticket -> 0..MinChecks]]
    /\ age \in [Proc -> [Ticket -> 0..LongAge]]
    /\ pc \in [Proc -> Place]
    /\ op \in [Proc -> {"none", "snapshot", "policy", "check", "reconcile", "sync",
                       "boot"}]
    /\ todo \in [Proc -> SUBSET Ticket]
    /\ closing \in [Proc -> ClosedRow \cup {NoRow}]
    /\ df \in [Proc -> SUBSET Ticket]
    /\ copy \in [Proc -> SUBSET ClosedRow]
    /\ stale \in [Proc -> BOOLEAN]
    /\ restarts \in Nat /\ forced \in Nat

(* A row leaves the open file only once the trade is in the closed file:   *)
(* whatever write fails and whenever the process dies, no trade is lost    *)
(* between the two files (update_closed_trade, force_close_unknown),       *)
(* except the rows that an overwrite in place of the file cuts off when it *)
(* breaks off (atomic_write_df).                                           *)
NoTradeForgotten ==
    [][\A t \in openCsv \ openCsv' :
          t \in TicketsOf(closedCsv') \/ t \in lostOpen' \ lostOpen]_vars

(* The closed file only holds trades the broker has closed, although the   *)
(* position list may lag behind the order and a query may fail             *)
(* (check_closed_trades: second query, grace period).                      *)
NoPhantomClose == \A r \in closedCsv : position[r.ticket] = "closed"

(* A trade that was never closed in part is counted once in the closed     *)
(* history, and at most once more for each restart: a process that dies    *)
(* between the append and the rewrite of a forced close forces it again    *)
(* (force_close_unknown, check_closed_trades).                             *)
RowsOf(t) == {r \in closedCsv : r.ticket = t}
ClosedOnce ==
    \A t \in Ticket \ partial : Cardinality(RowsOf(t)) <= 1 + restarts

(* Between two operations a logger watches every open row of the file, so  *)
(* check_closed_trades will see it close.                                  *)
OpenRowsWatched ==
    \A p \in Writer : pc[p] = "idle" => openCsv \subseteq active[p]

(* When SQLite holds the mtimes of both files and nobody is at work, its   *)
(* tables are the files: what the API reads is what the runner wrote. Two  *)
(* syncs may overlap only when a writer restarts while the API syncs; the  *)
(* slower one then leaves its older copy behind.                           *)
SyncsOverlap == restarts > 0 /\ Syncer # {}
MirrorAgrees ==
    synced /\ (\A p \in Proc : pc[p] = "idle") /\ ~SyncsOverlap
        => openTable = openCsv /\ closedTable = closedCsv

(* A logged trade that the broker closes gets into the closed history,     *)
(* with its deal or, if no deal ever shows up, by force.                   *)
CloseGetsRecorded ==
    \A t \in Ticket :
        t \in openCsv /\ position[t] = "closed" ~> t \in TicketsOf(closedCsv)

(* The life of one trade, see TradeLifecycle.                              *)
Stage(t) ==
    IF t \in TicketsOf(closedCsv) THEN "closed"
    ELSE IF t \in openCsv THEN "open"
    ELSE IF t \in lostOpen \cup TicketsOf(lostClosed) THEN "lost"
    ELSE "unlogged"

Lifecycle == INSTANCE TradeLifecycle WITH
    MayCut <- ReplaceMayFail,
    stage <- [t \in Ticket |-> Stage(t)]

ImplementsLifecycle == Lifecycle!Spec
=============================================================================
