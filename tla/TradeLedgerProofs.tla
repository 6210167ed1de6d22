------------------------- MODULE TradeLedgerProofs -------------------------
(***************************************************************************)
(* Theorems about the trade ledger, for any number of tickets, processes,  *)
(* restarts and forced closes:                                             *)
(*                                                                         *)
(*  - TypeCorrect: every variable keeps its type;                          *)
(*  - TradesAreKept: with one writing process and a readable open file, no *)
(*    row leaves the open file before its trade is in the closed file,     *)
(*    except the rows an overwrite in place cuts off when it breaks off;   *)
(*  - LedgerImplementsLifecycle: under the same assumptions, the two files *)
(*    tell the life of a trade that TradeLifecycle specifies;              *)
(*  - ClosedTradesHaveDeals: only trades with an exit deal are in the      *)
(*    closed file, whatever query, read, write or process fails;           *)
(*  - ClosedAreClosed: without partial closes those are trades the broker  *)
(*    closed;                                                              *)
(*  - MirrorIsCurrent: tables marked as synced are the files;              *)
(*  - RowsAreWatched: a writer watches every open row;                     *)
(*  - LiveRowsAreWatched: when writes fail, it watches every open row of a *)
(*    trade that has no exit deal;                                         *)
(*  - TradesCloseOnce: a trade is counted once, and at most once more for  *)
(*    each restart;                                                        *)
(*  - LedgerUsesJournal: the closed file is the journal that ClosedBatch   *)
(*    implements.                                                          *)
(***************************************************************************)
EXTENDS TradeLedger, FiniteSetTheorems, TLAPS

(* In a close, the row to append is a closed row; a file is overwritten in *)
(* place only where os.replace may be refused.                             *)
Closing == {"closeRead", "closeAppend", "closedOver", "closeWrite"}

ClosingTyped ==
  \A p \in Proc :
     /\ pc[p] \in Closing => closing[p] \in ClosedRow
     /\ pc[p] \in {"openOver", "closedOver"} => ReplaceMayFail

TypeInv == TypeOK /\ ClosingTyped

LEMMA Counted ==
  ASSUME NEW S, NEW f \in [Proc -> [Ticket -> S]], NEW p \in Proc, NEW t,
         NEW v \in S
  PROVE  [f EXCEPT ![p][t] = v] \in [Proc -> [Ticket -> S]]
<1>1. [f[p] EXCEPT ![t] = v] \in [Ticket -> S]
  OBVIOUS
<1> QED
  BY <1>1

LEMMA ClearTyped ==
  ASSUME TypeInv, NEW p \in Proc, NEW t, ClearPending(p, t)
  PROVE  /\ checks' \in [Proc -> [Ticket -> 0..MinChecks]]
         /\ age' \in [Proc -> [Ticket -> 0..LongAge]]
<1>1. 0 \in 0..MinChecks /\ 0 \in 0..LongAge
  BY DEF MinChecks, LongAge
<1>2. /\ checks \in [Proc -> [Ticket -> 0..MinChecks]]
      /\ age \in [Proc -> [Ticket -> 0..LongAge]]
  BY DEF TypeInv, TypeOK
<1> QED
  BY <1>1, <1>2, Counted DEF ClearPending

LEMMA FinishTyped ==
  ASSUME TypeInv, NEW p \in Proc, Finish(p)
  PROVE  /\ pc' \in [Proc -> Place]
         /\ op' \in [Proc -> {"none", "snapshot", "policy", "check", "reconcile",
                              "sync", "boot"}]
         /\ todo' \in [Proc -> SUBSET Ticket]
         /\ closing' \in [Proc -> ClosedRow \cup {NoRow}]
         /\ df' \in [Proc -> SUBSET Ticket]
         /\ copy' \in [Proc -> SUBSET ClosedRow]
         /\ ClosingTyped'
BY DEF TypeInv, TypeOK, ClosingTyped, Closing, Finish, Place

LEMMA CloseEndsTyped ==
  ASSUME TypeInv, NEW p \in Proc, NEW ok \in BOOLEAN, CloseEnds(p, ok)
  PROVE  /\ pc' \in [Proc -> Place]
         /\ op' = op /\ copy' = copy /\ cached' = cached
         /\ active' \in [Proc -> SUBSET Ticket]
         /\ checks' \in [Proc -> [Ticket -> 0..MinChecks]]
         /\ age' \in [Proc -> [Ticket -> 0..LongAge]]
         /\ todo' \in [Proc -> SUBSET Ticket]
         /\ closing' \in [Proc -> ClosedRow \cup {NoRow}]
         /\ df' \in [Proc -> SUBSET Ticket]
         /\ ClosingTyped'
<1> USE DEF TypeInv, TypeOK
<1>1. /\ op' = op /\ copy' = copy /\ cached' = cached
      /\ active' \in [Proc -> SUBSET Ticket]
  BY DEF CloseEnds
<1>2. /\ checks' \in [Proc -> [Ticket -> 0..MinChecks]]
      /\ age' \in [Proc -> [Ticket -> 0..LongAge]]
  BY ClearTyped DEF CloseEnds
<1>3. /\ todo' \in [Proc -> SUBSET Ticket] /\ df' \in [Proc -> SUBSET Ticket]
      /\ closing' \in [Proc -> ClosedRow \cup {NoRow}]
  BY DEF CloseEnds
<1>4. pc' \in [Proc -> Place] /\ ClosingTyped'
  BY DEF CloseEnds, Goto, Place, ClosingTyped, Closing
<1> QED
  BY <1>1, <1>2, <1>3, <1>4

(* A step that takes a process to another place. *)
LEMMA MoveTyped ==
  ASSUME TypeInv, NEW p \in Proc, NEW place \in Place, Goto(p, place),
         place \in Closing => closing'[p] \in ClosedRow,
         place \in {"openOver", "closedOver"} => ReplaceMayFail,
         \A q \in Proc : q # p => closing'[q] = closing[q]
  PROVE  pc' \in [Proc -> Place] /\ ClosingTyped'
BY DEF TypeInv, TypeOK, Goto, ClosingTyped

LEMMA ReadOpenTyped ==
  ASSUME TypeInv, NEW rows \in ReadOpen
  PROVE  rows \subseteq Ticket
BY DEF TypeInv, TypeOK, ReadOpen, VisibleOpen

(* A reader finds no row that is not in the file, or will be.              *)
LEMMA VisibleRows ==
  /\ \A rows \in VisibleOpen : rows \subseteq openCsv
  /\ \A rows \in VisibleClosed : rows \subseteq closedCsv
BY DEF VisibleOpen, VisibleClosed

LEMMA ReadRows ==
  ASSUME NEW rows \in ReadOpen
  PROVE  rows \subseteq openCsv
BY VisibleRows DEF ReadOpen

Overwriting == {"openOver", "closedOver"}

(* What one file has less when an overwrite ends early, or a process dies. *)
FilesCut(p) ==
  /\ openCsv' \subseteq openCsv /\ closedCsv' \subseteq closedCsv
  /\ lostOpen' = lostOpen \cup (openCsv \ openCsv')
  /\ lostClosed' = lostClosed \cup (closedCsv \ closedCsv')
  /\ openCsv' = openCsv \/ pc[p] = "openOver"
  /\ closedCsv' = closedCsv \/ pc[p] = "closedOver"

LEMMA BreakOffCuts ==
  ASSUME NEW p \in Proc, BreakOff(p), pc[p] \in Overwriting
  PROVE  FilesCut(p)
<1>1. CASE pc[p] = "openOver"
  <2>1. PICK rows \in VisibleOpen :
           /\ openCsv' = rows /\ lostOpen' = lostOpen \cup (openCsv \ rows)
           /\ UNCHANGED <<closedCsv, lostClosed>>
    BY <1>1 DEF BreakOff
  <2>2. rows \subseteq openCsv
    BY VisibleRows
  <2> QED
    BY <1>1, <2>1, <2>2 DEF FilesCut
<1>2. CASE pc[p] = "closedOver"
  <2>1. PICK rows \in VisibleClosed :
           /\ closedCsv' = rows /\ lostClosed' = lostClosed \cup (closedCsv \ rows)
           /\ UNCHANGED <<openCsv, lostOpen>>
    BY <1>2 DEF BreakOff
  <2>2. rows \subseteq closedCsv
    BY VisibleRows
  <2> QED
    BY <1>2, <2>1, <2>2 DEF FilesCut
<1> QED
  BY <1>1, <1>2 DEF Overwriting

LEMMA RestartCuts ==
  ASSUME NEW p \in Proc, Restart(p)
  PROVE  FilesCut(p)
<1>1. CASE pc[p] \in Overwriting
  BY <1>1, BreakOffCuts DEF Restart, Overwriting
<1>2. CASE pc[p] \notin Overwriting
  BY <1>2 DEF Restart, Overwriting, FilesCut, lost
<1> QED
  BY <1>1, <1>2

LEMMA RestartReads ==
  ASSUME NEW p \in Proc, Restart(p)
  PROVE  \E rows \in SUBSET openCsv' : df' = [df EXCEPT ![p] = rows]
<1>1. PICK rows \in VisibleOpen' : df' = [df EXCEPT ![p] = rows]
  BY DEF Restart
<1>2. rows \subseteq openCsv'
  BY DEF VisibleOpen
<1> QED
  BY <1>1, <1>2

LEMMA SnapshotTyped ==
  ASSUME TypeInv, NEW p \in Proc,
         \/ \E ts \in SUBSET Ticket : StartSnapshot(p, ts)
         \/ SkipSnapshot(p) \/ MergeSnapshot(p) \/ WriteSnapshot(p)
         \/ FailSnapshot(p) \/ \E t \in Ticket : UpdatePolicy(p, t)
  PROVE  TypeInv'
<1> USE DEF TypeInv, broker, disk, lost, memory, bounds
<1>1. CASE \E ts \in SUBSET Ticket : StartSnapshot(p, ts)
  BY <1>1 DEF StartSnapshot, Goto, TypeOK, Place, ClosingTyped, Closing
<1>2. CASE SkipSnapshot(p) \/ FailSnapshot(p)
  BY <1>2, FinishTyped DEF SkipSnapshot, FailSnapshot, TypeOK
<1>3. CASE MergeSnapshot(p)
  <2>1. PICK rows \in ReadOpen : \E changed \in SUBSET (todo[p] \cap rows) :
          LET touched == (todo[p] \ rows) \cup changed IN
          /\ cached' = [cached EXCEPT ![p] = @ \cup todo[p]]
          /\ active' = [active EXCEPT ![p] = @ \cup touched]
          /\ \/ touched = {} /\ Finish(p)
             \/ /\ touched # {}
                /\ Goto(p, "snapWrite")
                /\ df' = [df EXCEPT ![p] = rows \cup todo[p]]
                /\ UNCHANGED <<op, todo, closing, copy>>
    BY <1>3 DEF MergeSnapshot
  <2>2. rows \subseteq Ticket
    BY ReadOpenTyped
  <2>3. /\ cached' \in [Proc -> SUBSET Ticket]
        /\ active' \in [Proc -> SUBSET Ticket]
        /\ UNCHANGED <<broker, disk, checks, age, stale, bounds>>
    BY <1>3, <2>1, <2>2 DEF MergeSnapshot, TypeOK
  <2>4. CASE Finish(p)
    BY <2>3, <2>4, FinishTyped DEF TypeOK
  <2>5. CASE /\ Goto(p, "snapWrite")
             /\ df' = [df EXCEPT ![p] = rows \cup todo[p]]
             /\ UNCHANGED <<op, todo, closing, copy>>
    BY <2>2, <2>3, <2>5 DEF Goto, TypeOK, Place, ClosingTyped, Closing
  <2> QED
    BY <2>1, <2>4, <2>5
<1>4. CASE WriteSnapshot(p)
  BY <1>4 DEF WriteSnapshot, OpenWritten, Touched, Goto, TypeOK, Place,
              ClosingTyped, Closing
<1>5. CASE \E t \in Ticket : UpdatePolicy(p, t)
  <2>1. PICK rows \in ReadOpen : df' = [df EXCEPT ![p] = rows]
    BY <1>5 DEF UpdatePolicy
  <2>2. rows \subseteq Ticket
    BY ReadOpenTyped
  <2>3. df' \in [Proc -> SUBSET Ticket]
    BY <2>1, <2>2 DEF TypeOK
  <2> QED
    BY <1>5, <2>3 DEF UpdatePolicy, Goto, TypeOK, Place, ClosingTyped, Closing
<1> QED
  BY <1>1, <1>2, <1>3, <1>4, <1>5

LEMMA ScanTyped ==
  ASSUME TypeInv, NEW p \in Proc,
         \/ StartCheck(p) \/ StartReconcile(p) \/ ScanDone(p) \/ ScanTicket(p)
         \/ \E t \in Ticket : Age(p, t)
  PROVE  TypeInv'
<1> USE DEF TypeInv, broker, disk, lost, memory, bounds, local
<1>1. CASE StartCheck(p)
  BY <1>1 DEF StartCheck, Goto, TypeOK, Place, ClosingTyped, Closing
<1>2. CASE StartReconcile(p)
  <2>1. PICK rows \in VisibleOpen : \E seen : todo' = [todo EXCEPT ![p] = rows \ seen]
    BY <1>2 DEF StartReconcile
  <2>2. todo' \in [Proc -> SUBSET Ticket]
    <3>1. rows \subseteq Ticket
      BY VisibleRows DEF TypeOK
    <3> QED
      BY <2>1, <3>1 DEF TypeOK
  <2> QED
    BY <1>2, <2>2 DEF StartReconcile, Goto, TypeOK, Place, ClosingTyped, Closing
<1>3. CASE ScanDone(p)
  BY <1>3, FinishTyped DEF ScanDone, TypeOK
<1>4. CASE ScanTicket(p)
  <2>0. /\ UNCHANGED <<broker, disk, op, df, copy, stale, restarts>>
        /\ pc[p] = "scan"
    BY <1>4 DEF ScanTicket
  <2>1. ASSUME NEW t \in todo[p], StillOpen(p, t) \/ LeaveOpen(p, t)
        PROVE  TypeInv'
    <3>1. /\ checks' \in [Proc -> [Ticket -> 0..MinChecks]]
          /\ age' \in [Proc -> [Ticket -> 0..LongAge]]
      BY <2>1, ClearTyped DEF StillOpen, LeaveOpen, TypeOK
    <3>2. /\ UNCHANGED <<active, cached, pc, closing, forced>>
          /\ todo' = [todo EXCEPT ![p] = @ \ {t}]
      BY <2>1 DEF StillOpen, LeaveOpen
    <3>3. ClosingTyped'
      BY <3>2 DEF ClosingTyped
    <3>4. todo' \in [Proc -> SUBSET Ticket]
      BY <3>2 DEF TypeOK
    <3> QED
      BY <2>0, <3>1, <3>2, <3>3, <3>4 DEF TypeOK
  <2>2. ASSUME NEW t \in todo[p], CloseWithDeal(p, t) PROVE TypeInv'
    BY <2>0, <2>2 DEF CloseWithDeal, DealRow, ClosedRow, Goto, Place, TypeOK,
                      ClosingTyped, Closing
  <2>3. ASSUME NEW t \in todo[p], WaitForDeal(p, t) PROVE TypeInv'
    <3> DEFINE n == IF checks[p][t] < MinChecks THEN checks[p][t] + 1
                    ELSE MinChecks
    <3>0. checks[p][t] \in 0..MinChecks
      BY DEF TypeOK
    <3>1. n \in 0..MinChecks
      BY <3>0 DEF MinChecks
    <3>2. checks' = [checks EXCEPT ![p][t] = n]
      BY <2>3 DEF WaitForDeal, TypeOK
    <3>3. checks' \in [Proc -> [Ticket -> 0..MinChecks]]
      BY <3>1, <3>2, Counted DEF TypeOK
    <3> QED
      BY <2>0, <2>3, <3>3 DEF WaitForDeal, TypeOK, ClosingTyped, Closing
  <2>4. ASSUME NEW t \in todo[p], ForceClose(p, t) PROVE TypeInv'
    <3>1. [ticket |-> t, at |-> forced + 1] \in ClosedRow /\ forced + 1 \in Nat
      BY DEF TypeOK, ClosedRow
    <3> QED
      BY <2>0, <2>4, <3>1 DEF ForceClose, Goto, Place, TypeOK, ClosingTyped,
                              Closing, MinChecks
  <2> QED
    BY <1>4, <2>1, <2>2, <2>3, <2>4 DEF ScanTicket
<1>5. CASE \E t \in Ticket : Age(p, t)
  <2>1. PICK t \in Ticket : Age(p, t)
    BY <1>5
  <2>2. age[p][t] + 1 \in 0..LongAge
    <3>1. age[p][t] \in 0..2
      BY DEF TypeOK, LongAge
    <3>2. age[p][t] < 2
      BY <2>1 DEF Age, LongAge
    <3> QED
      BY <3>1, <3>2 DEF LongAge
  <2>3. age' = [age EXCEPT ![p][t] = age[p][t] + 1]
    BY <2>1 DEF Age
  <2>4. age' \in [Proc -> [Ticket -> 0..LongAge]]
    BY <2>2, <2>3, Counted DEF TypeOK
  <2> QED
    BY <2>1, <2>4 DEF Age, TypeOK, ClosingTyped, Closing
<1> QED
  BY <1>1, <1>2, <1>3, <1>4, <1>5

LEMMA CloseTyped ==
  ASSUME TypeInv, NEW p \in Proc,
         \/ CloseRead(p) \/ CloseAppend(p) \/ CloseWrite(p) \/ CloseFails(p)
         \/ UpsertOpen(p) \/ FinishOverwrite(p) \/ OverwriteFails(p)
  PROVE  TypeInv'
<1> USE DEF TypeInv, broker, disk, lost, memory, bounds
<1>1. CASE CloseRead(p)
  <2>1. CASE \E rows \in ReadOpen : /\ df' = [df EXCEPT ![p] = rows]
                                    /\ Goto(p, "closeAppend")
                                    /\ UNCHANGED <<memory, op, todo, closing, copy>>
    <3>1. df' \in [Proc -> SUBSET Ticket]
      BY <2>1, ReadOpenTyped DEF TypeOK
    <3>2. pc[p] \in Closing
      BY <1>1 DEF CloseRead, Closing
    <3> QED
      BY <1>1, <2>1, <3>1, <3>2 DEF CloseRead, Goto, Place, TypeOK, ClosingTyped
  <2>2. CASE CloseEnds(p, FALSE)
    BY <1>1, <2>2, CloseEndsTyped DEF CloseRead, TypeOK
  <2> QED
    BY <1>1, <2>1, <2>2 DEF CloseRead
<1>2. CASE CloseAppend(p)
  <2>1. pc[p] \in Closing /\ closing[p] \in ClosedRow
    BY <1>2 DEF CloseAppend, Closing, ClosingTyped
  <2>2. closedTable' \subseteq ClosedRow /\ closedCsv' \subseteq ClosedRow
    BY <1>2, <2>1 DEF CloseAppend, UpsertClosed, TypeOK
  <2> QED
    BY <1>2, <2>1, <2>2 DEF CloseAppend, Touched, Goto, Place, TypeOK,
                            ClosingTyped
<1>3. CASE CloseWrite(p)
  BY <1>3 DEF CloseWrite, OpenWritten, RemainingRows, Touched, Goto, Place,
              TypeOK, ClosingTyped, Closing
<1>6. CASE FinishOverwrite(p)
  <2>1. closedTable' \subseteq ClosedRow
    BY <1>6 DEF FinishOverwrite, UpsertClosed, TypeOK, ClosingTyped, Closing
  <2>2. /\ pc' \in [Proc -> Place] /\ ClosingTyped'
    BY <1>6 DEF FinishOverwrite, Goto, Place, TypeOK, ClosingTyped, Closing
  <2> QED
    BY <1>6, <2>1, <2>2 DEF FinishOverwrite, Touched, TypeOK
<1>7. CASE OverwriteFails(p)
  <2>1. FilesCut(p)
    BY <1>7, BreakOffCuts DEF OverwriteFails, Overwriting
  <2>2. /\ openCsv' \subseteq Ticket /\ closedCsv' \subseteq ClosedRow
        /\ lostOpen' \subseteq Ticket /\ lostClosed' \subseteq ClosedRow
        /\ synced' \in BOOLEAN /\ stale' \in [Proc -> BOOLEAN]
    BY <1>7, <2>1 DEF FilesCut, OverwriteFails, Touched, TypeOK
  <2>3. CASE Finish(p) /\ UNCHANGED memory
    BY <1>7, <2>2, <2>3, FinishTyped DEF OverwriteFails, TypeOK
  <2>4. CASE CloseEnds(p, FALSE)
    BY <1>7, <2>2, <2>4, CloseEndsTyped DEF OverwriteFails, TypeOK
  <2> QED
    BY <1>7, <2>3, <2>4 DEF OverwriteFails
<1>4. CASE CloseFails(p)
  BY <1>4, CloseEndsTyped DEF CloseFails, TypeOK
<1>5. CASE UpsertOpen(p)
  <2>1. openTable' \subseteq Ticket
    BY <1>5 DEF UpsertOpen, TypeOK
  <2>2. CASE Finish(p) /\ UNCHANGED memory
    BY <1>5, <2>1, <2>2, FinishTyped DEF UpsertOpen, TypeOK
  <2>3. CASE CloseEnds(p, TRUE)
    BY <1>5, <2>1, <2>3, CloseEndsTyped DEF UpsertOpen, TypeOK
  <2> QED
    BY <1>5, <2>2, <2>3 DEF UpsertOpen
<1> QED
  BY <1>1, <1>2, <1>3, <1>4, <1>5, <1>6, <1>7

LEMMA SyncTyped ==
  ASSUME LedgerAssumption, TypeInv, NEW p \in Proc,
         \/ StartSync(p) \/ SyncRead(p) \/ SyncOpen(p) \/ SyncClosed(p)
         \/ SyncMeta(p) \/ SyncFails(p) \/ LoadActive(p) \/ Restart(p)
  PROVE  TypeInv'
<1> USE DEF TypeInv, broker, disk, lost, memory, bounds
<1>1. CASE StartSync(p) \/ SyncRead(p)
  <2>1. df' \in [Proc -> SUBSET Ticket]
    <3>1. CASE StartSync(p)
      <4>1. PICK rows \in VisibleOpen : df' = [df EXCEPT ![p] = rows]
        BY <3>1 DEF StartSync
      <4> QED
        BY <4>1, VisibleRows DEF TypeOK
    <3> QED
      BY <1>1, <3>1 DEF SyncRead, TypeOK
  <2>2. copy' \in [Proc -> SUBSET ClosedRow]
    <3>1. CASE SyncRead(p)
      <4>1. PICK rows \in VisibleClosed : copy' = [copy EXCEPT ![p] = rows]
        BY <3>1 DEF SyncRead
      <4> QED
        BY <4>1, VisibleRows DEF TypeOK
    <3> QED
      BY <1>1, <3>1 DEF StartSync, TypeOK
  <2>3. pc' \in [Proc -> Place] /\ ClosingTyped'
    BY <1>1, MoveTyped DEF StartSync, SyncRead, Place, Closing
  <2> QED
    BY <1>1, <2>1, <2>2, <2>3 DEF StartSync, SyncRead, TypeOK
<1>2. CASE SyncOpen(p) \/ SyncClosed(p)
  <2>1. pc' \in [Proc -> Place] /\ ClosingTyped'
    BY <1>2, MoveTyped DEF SyncOpen, SyncClosed, Place, Closing
  <2> QED
    BY <1>2, <2>1 DEF SyncOpen, SyncClosed, TypeOK
<1>3. CASE SyncMeta(p) \/ SyncFails(p)
  <2>1. synced' \in BOOLEAN
    BY <1>3 DEF SyncMeta, SyncFails, TypeOK
  <2>2. CASE Finish(p)
    BY <1>3, <2>1, <2>2, FinishTyped DEF SyncMeta, SyncFails, TypeOK
  <2>3. CASE Goto(p, "load") /\ UNCHANGED <<op, todo, closing, df, copy>>
    BY <1>3, <2>1, <2>3 DEF SyncMeta, SyncFails, Goto, Place, TypeOK,
                            ClosingTyped, Closing
  <2> QED
    BY <1>3, <2>2, <2>3 DEF SyncMeta, SyncFails
<1>4. CASE LoadActive(p)
  <2>1. active' \in [Proc -> SUBSET Ticket]
    BY <1>4, ReadOpenTyped DEF LoadActive, TypeOK
  <2> QED
    BY <1>4, <2>1, FinishTyped DEF LoadActive, TypeOK
<1>5. CASE Restart(p)
  <2>1. FilesCut(p)
    BY <1>5, RestartCuts
  <2>2. /\ openCsv' \subseteq Ticket /\ closedCsv' \subseteq ClosedRow
        /\ lostOpen' \subseteq Ticket /\ lostClosed' \subseteq ClosedRow
    BY <2>1 DEF FilesCut, TypeOK
  <2>3. df' \in [Proc -> SUBSET Ticket]
    <3>1. PICK rows \in SUBSET openCsv' : df' = [df EXCEPT ![p] = rows]
      BY <1>5, RestartReads
    <3> QED
      BY <2>2, <3>1 DEF TypeOK
  <2>4. synced' \in BOOLEAN /\ stale' \in [Proc -> BOOLEAN]
    <3>1. \/ synced' = FALSE /\ stale' = [q \in Proc |-> q # p]
          \/ synced' = synced /\ stale' = [stale EXCEPT ![p] = FALSE]
      BY <1>5 DEF Restart
    <3> QED
      BY <3>1 DEF TypeOK
  <2>5. pc' \in [Proc -> Place] /\ ClosingTyped'
    <3>1. Goto(p, "syncRead") /\ closing' = [closing EXCEPT ![p] = NoRow]
      BY <1>5 DEF Restart
    <3> QED
      BY <3>1, MoveTyped DEF Place, Closing
  <2>6. /\ active' \in [Proc -> SUBSET Ticket] /\ cached' \in [Proc -> SUBSET Ticket]
        /\ checks' \in [Proc -> [Ticket -> 0..MinChecks]]
        /\ age' \in [Proc -> [Ticket -> 0..LongAge]]
    BY <1>5 DEF Restart, TypeOK, MinChecks, LongAge
  <2>7. /\ op' \in [Proc -> {"none", "snapshot", "policy", "check", "reconcile",
                             "sync", "boot"}]
        /\ todo' \in [Proc -> SUBSET Ticket]
        /\ closing' \in [Proc -> ClosedRow \cup {NoRow}]
        /\ copy' \in [Proc -> SUBSET ClosedRow]
        /\ UNCHANGED <<position, partial, openTable, closedTable, forced>>
        /\ restarts' \in Nat
    BY <1>5 DEF Restart, TypeOK
  <2> QED
    BY <2>2, <2>3, <2>4, <2>5, <2>6, <2>7 DEF TypeOK
<1> QED
  BY <1>1, <1>2, <1>3, <1>4, <1>5

LEMMA BrokerTyped ==
  ASSUME TypeInv, Broker PROVE TypeInv'
<1>1. /\ position' \in [Ticket -> {"none", "filled", "listed", "closed"}]
      /\ partial' \subseteq Ticket
  BY DEF Broker, Fill, List, ClosePart, ClosePosition, Listed, TypeInv, TypeOK
<1>2. UNCHANGED <<disk, memory, local, stale, bounds>>
  BY DEF Broker, Fill, List, ClosePart, ClosePosition
<1> QED
  BY <1>1, <1>2 DEF disk, lost, memory, local, bounds, TypeInv, TypeOK, ClosingTyped

LEMMA TypeStep ==
  ASSUME TypeInv, [Next]_vars PROVE TypeInv'
<1>1. CASE Next
  BY <1>1, LedgerAssumption, BrokerTyped, SnapshotTyped, ScanTyped, CloseTyped,
     SyncTyped DEF Next, Continue
<1>2. CASE UNCHANGED vars
  BY <1>2 DEF vars, broker, disk, lost, memory, local, bounds, TypeInv, TypeOK,
              ClosingTyped
<1> QED
  BY <1>1, <1>2

LEMMA TypeInvariant == Spec => []TypeInv
<1>1. Init => TypeInv
  BY DEF Init, TypeInv, TypeOK, ClosingTyped, Closing, Place, MinChecks, LongAge
<1> QED
  BY <1>1, TypeStep, PTL DEF Spec

(* Every variable of the ledger keeps its type. *)
THEOREM TypeCorrect == Spec => []TypeOK
<1>1. TypeInv => TypeOK
  BY DEF TypeInv
<1> QED
  BY <1>1, TypeInvariant, PTL

-----------------------------------------------------------------------------
(* A writer between reading and replacing the open file holds a copy of    *)
(* every row that is in it; when it is about to drop a row, the trade is   *)
(* in the closed file. A row that is back in the open file is not lost.    *)
Copying == {"snapWrite", "closeAppend", "closedOver", "closeWrite"}

WriterPlace ==
  Copying \cup {"snapshot", "scan", "closeRead", "openOver", "openUpsert"}

KeepInv ==
  /\ lostOpen \cap openCsv = {}
  /\ \A p \in Proc :
        /\ pc[p] \in WriterPlace => p \in Writer
        /\ pc[p] \in Copying => openCsv \subseteq df[p]
        /\ pc[p] \in {"closedOver", "closeWrite"} => closing[p] \in closedCsv

(* Rows that leave the open file: their trade is closed, or they have been *)
(* cut off.                                                                *)
RowsAccounted ==
  \A t \in openCsv \ openCsv' :
     t \in TicketsOf(closedCsv') \/ t \in lostOpen' \ lostOpen

LEMMA SameCopies ==
  ASSUME KeepInv, UNCHANGED <<openCsv, lostOpen>>, closedCsv \subseteq closedCsv',
         \A p \in Proc :
            /\ pc'[p] \in WriterPlace => p \in Writer
            /\ pc'[p] \in Copying => /\ pc'[p] = pc[p] /\ df'[p] = df[p]
                                     /\ closing'[p] = closing[p]
  PROVE  KeepInv'
BY DEF KeepInv, WriterPlace, Copying

(* One writer reads whole files: nobody else overwrites them.              *)
LEMMA WholeRows ==
  ASSUME KeepInv, ~ReadMayFail, \A p, q \in Writer : p = q,
         NEW p \in Writer, pc[p] # "openOver"
  PROVE  ReadOpen = {openCsv}
BY DEF KeepInv, WriterPlace, ReadOpen, VisibleOpen, OpenTorn

(* No other process is in a write while the writer is.                     *)
LEMMA OneWriter ==
  ASSUME KeepInv, \A p, q \in Writer : p = q,
         NEW p \in Proc, pc[p] \in WriterPlace
  PROVE  p \in Writer /\ \A q \in Proc : q # p => pc[q] \notin WriterPlace
<1>1. p \in Writer
  BY DEF KeepInv
<1>2. ASSUME NEW q \in Proc, q # p, pc[q] \in WriterPlace PROVE FALSE
  BY <1>1, <1>2 DEF KeepInv
<1> QED
  BY <1>1, <1>2

LEMMA KeepStep ==
  ASSUME TypeInv, KeepInv, [Next]_vars,
         ~ReadMayFail, \A p, q \in Writer : p = q
  PROVE  KeepInv' /\ RowsAccounted
<1> USE DEF TypeInv, TypeOK, broker, disk, lost, memory, bounds
<1>0. openCsv \subseteq openCsv' => RowsAccounted
  BY DEF RowsAccounted
<1>1. CASE Broker \/ UNCHANGED vars
  <2>1. UNCHANGED <<openCsv, lostOpen, closedCsv, pc, df, closing>>
    BY <1>1 DEF Broker, Fill, List, ClosePart, ClosePosition, vars, local
  <2> QED
    BY <1>0, <2>1, SameCopies DEF KeepInv
<1>2. ASSUME NEW p \in Proc,
             \/ \E ts \in SUBSET Ticket : StartSnapshot(p, ts)
             \/ StartCheck(p) \/ StartReconcile(p) \/ StartSync(p)
      PROVE  KeepInv' /\ openCsv' = openCsv
  BY <1>2, SameCopies
     DEF StartSnapshot, StartCheck, StartReconcile, StartSync, Goto, KeepInv,
         WriterPlace, Copying
<1>3. ASSUME NEW p \in Proc, SkipSnapshot(p) \/ FailSnapshot(p) \/ ScanDone(p)
      PROVE  KeepInv' /\ openCsv' = openCsv
  BY <1>3, SameCopies
     DEF SkipSnapshot, FailSnapshot, ScanDone, Finish, KeepInv, WriterPlace,
         Copying
<1>4. ASSUME NEW p \in Proc, MergeSnapshot(p)
      PROVE  KeepInv' /\ openCsv' = openCsv
  <2>1. UNCHANGED <<openCsv, lostOpen, closedCsv>> /\ pc[p] = "snapshot"
    BY <1>4 DEF MergeSnapshot
  <2>0. ReadOpen = {openCsv}
    BY <2>1, WholeRows DEF KeepInv, WriterPlace
  <2>2. CASE Finish(p)
    BY <2>1, <2>2, SameCopies DEF Finish, KeepInv, WriterPlace, Copying
  <2>3. CASE /\ Goto(p, "snapWrite") /\ closing' = closing
             /\ df' = [df EXCEPT ![p] = openCsv \cup todo[p]]
    BY <2>1, <2>3 DEF Goto, KeepInv, WriterPlace, Copying
  <2> QED
    BY <1>4, <2>0, <2>1, <2>2, <2>3 DEF MergeSnapshot
<1>5. ASSUME NEW p \in Proc, WriteSnapshot(p)
      PROVE  KeepInv' /\ openCsv \subseteq openCsv'
  <2>1. /\ pc[p] = "snapWrite"
        /\ pc'[p] \in {"openUpsert", "openOver"}
        /\ \A q \in Proc : q # p => pc'[q] = pc[q]
        /\ openCsv' = df[p] /\ lostOpen' = lostOpen \ df[p]
        /\ UNCHANGED <<closedCsv, df, closing>>
    BY <1>5 DEF WriteSnapshot, OpenWritten, Goto
  <2>2. \A q \in Proc : pc'[q] \notin Copying
    BY <2>1, OneWriter DEF WriterPlace, Copying
  <2> QED
    BY <2>1, <2>2 DEF KeepInv, WriterPlace, Copying
<1>6. ASSUME NEW p \in Proc, ScanTicket(p)
      PROVE  KeepInv' /\ openCsv' = openCsv
  <2>1. /\ UNCHANGED <<openCsv, lostOpen, closedCsv, df>> /\ pc[p] = "scan"
        /\ \/ pc' = pc /\ closing' = closing
           \/ /\ pc' = [pc EXCEPT ![p] = "closeRead"]
              /\ \A q \in Proc : q # p => closing'[q] = closing[q]
    BY <1>6 DEF ScanTicket, StillOpen, CloseWithDeal, LeaveOpen, WaitForDeal,
                ForceClose, Goto
  <2> QED
    BY <2>1, SameCopies DEF KeepInv, WriterPlace, Copying
<1>7. ASSUME NEW p \in Proc, NEW ok \in BOOLEAN, CloseEnds(p, ok),
             UNCHANGED <<openCsv, lostOpen, closedCsv>>, pc[p] \in WriterPlace
      PROVE  KeepInv' /\ openCsv' = openCsv
  BY <1>7, SameCopies DEF CloseEnds, Goto, KeepInv, WriterPlace, Copying
<1>8. ASSUME NEW p \in Proc, CloseRead(p)
      PROVE  KeepInv' /\ openCsv' = openCsv
  <2>1. UNCHANGED <<openCsv, lostOpen, closedCsv>> /\ pc[p] = "closeRead"
    BY <1>8 DEF CloseRead
  <2>0. ReadOpen = {openCsv}
    BY <2>1, WholeRows DEF KeepInv, WriterPlace
  <2>2. CASE CloseEnds(p, FALSE)
    BY <1>7, <2>1, <2>2 DEF WriterPlace
  <2>3. CASE /\ df' = [df EXCEPT ![p] = openCsv]
             /\ Goto(p, "closeAppend") /\ closing' = closing
    BY <2>1, <2>3 DEF Goto, KeepInv, WriterPlace, Copying
  <2> QED
    BY <1>8, <2>0, <2>1, <2>2, <2>3 DEF CloseRead
<1>9. ASSUME NEW p \in Proc, CloseAppend(p)
      PROVE  KeepInv' /\ openCsv' = openCsv
  <2>1. /\ pc[p] = "closeAppend"
        /\ pc'[p] \in {"closeWrite", "closedOver"}
        /\ \A q \in Proc : q # p => pc'[q] = pc[q]
        /\ closedCsv' = closedCsv \cup {closing[p]}
        /\ UNCHANGED <<openCsv, lostOpen, df, closing>>
    BY <1>9 DEF CloseAppend, Goto
  <2> QED
    BY <2>1 DEF KeepInv, WriterPlace, Copying
<1>10. ASSUME NEW p \in Proc, CloseWrite(p)
       PROVE  KeepInv' /\ RowsAccounted
  <2>1. /\ pc[p] = "closeWrite"
        /\ pc'[p] \in {"openUpsert", "openOver"}
        /\ \A q \in Proc : q # p => pc'[q] = pc[q]
        /\ openCsv' = df[p] \ {closing[p].ticket} /\ lostOpen' = lostOpen \ df[p]
        /\ UNCHANGED <<closedCsv, closing>>
    BY <1>10 DEF CloseWrite, OpenWritten, RemainingRows, Goto
  <2>2. \A q \in Proc : pc'[q] \notin Copying
    BY <2>1, OneWriter DEF WriterPlace, Copying
  <2>3. KeepInv'
    BY <2>1, <2>2 DEF KeepInv, WriterPlace, Copying
  <2>4. closing[p].ticket \in TicketsOf(closedCsv')
    BY <2>1 DEF KeepInv, TicketsOf
  <2> QED
    BY <2>1, <2>3, <2>4 DEF KeepInv, Copying, RowsAccounted
<1>11. ASSUME NEW p \in Proc, CloseFails(p)
       PROVE  KeepInv' /\ openCsv' = openCsv
  BY <1>7, <1>11 DEF CloseFails, WriterPlace, Copying
<1>12. ASSUME NEW p \in Proc, UpsertOpen(p)
       PROVE  KeepInv' /\ openCsv' = openCsv
  <2>1. UNCHANGED <<openCsv, lostOpen, closedCsv>> /\ pc[p] = "openUpsert"
    BY <1>12 DEF UpsertOpen
  <2>2. CASE Finish(p)
    BY <2>1, <2>2, SameCopies DEF Finish, KeepInv, WriterPlace, Copying
  <2>3. CASE CloseEnds(p, TRUE)
    BY <1>7, <2>1, <2>3 DEF WriterPlace
  <2> QED
    BY <1>12, <2>2, <2>3 DEF UpsertOpen
<1>13. ASSUME NEW p \in Proc,
              \/ SyncRead(p) \/ SyncOpen(p) \/ SyncClosed(p) \/ SyncMeta(p)
              \/ SyncFails(p) \/ LoadActive(p)
       PROVE  KeepInv' /\ openCsv' = openCsv
  BY <1>13, SameCopies
     DEF SyncRead, SyncOpen, SyncClosed, SyncMeta, SyncFails, LoadActive,
         Finish, Goto, KeepInv, WriterPlace, Copying
<1>14. ASSUME NEW p \in Proc, NEW t \in Ticket, Age(p, t)
       PROVE  KeepInv' /\ openCsv' = openCsv
  BY <1>14, SameCopies DEF Age, local, KeepInv
<1>15. ASSUME NEW p \in Proc, NEW t \in Ticket, UpdatePolicy(p, t)
       PROVE  KeepInv' /\ openCsv' = openCsv
  <2>1. /\ UNCHANGED <<openCsv, lostOpen, closedCsv, closing>> /\ p \in Writer
        /\ pc[p] = "idle" /\ pc' = [pc EXCEPT ![p] = "snapWrite"]
    BY <1>15 DEF UpdatePolicy, Goto
  <2>2. ReadOpen = {openCsv}
    BY <2>1, WholeRows
  <2>3. df' = [df EXCEPT ![p] = openCsv]
    BY <1>15, <2>2 DEF UpdatePolicy
  <2> QED
    BY <2>1, <2>3 DEF KeepInv, WriterPlace, Copying
<1>16. ASSUME NEW p \in Proc, FinishOverwrite(p)
       PROVE  KeepInv' /\ openCsv' = openCsv
  <2>1. /\ \/ pc[p] = "openOver" /\ pc' = [pc EXCEPT ![p] = "openUpsert"]
           \/ pc[p] = "closedOver" /\ pc' = [pc EXCEPT ![p] = "closeWrite"]
        /\ UNCHANGED <<openCsv, lostOpen, closedCsv, df, closing>>
    BY <1>16 DEF FinishOverwrite, Goto
  <2> QED
    BY <2>1 DEF KeepInv, WriterPlace, Copying
<1>17. ASSUME NEW p \in Proc, OverwriteFails(p) \/ Restart(p)
       PROVE  KeepInv' /\ RowsAccounted
  <2>1. FilesCut(p)
    BY <1>17, BreakOffCuts, RestartCuts DEF OverwriteFails, Overwriting
  <2>2. RowsAccounted /\ lostOpen' \cap openCsv' = {}
    BY <2>1 DEF FilesCut, KeepInv, RowsAccounted
  <2>3. /\ pc'[p] \notin Copying /\ (pc'[p] \in WriterPlace => p \in Writer)
        /\ \A q \in Proc : q # p => /\ pc'[q] = pc[q] /\ df'[q] = df[q]
                                    /\ closing'[q] = closing[q]
    <3>1. CASE Restart(p)
      BY <3>1 DEF Restart, Goto, WriterPlace, Copying
    <3>2. CASE OverwriteFails(p) /\ Finish(p)
      BY <3>2 DEF Finish, WriterPlace, Copying
    <3>3. CASE OverwriteFails(p) /\ CloseEnds(p, FALSE)
      BY <3>3 DEF OverwriteFails, CloseEnds, Goto, KeepInv, WriterPlace, Copying
    <3> QED
      BY <1>17, <3>1, <3>2, <3>3 DEF OverwriteFails
  <2>4. ASSUME NEW q \in Proc
        PROVE  /\ pc'[q] \in WriterPlace => q \in Writer
               /\ pc'[q] \in Copying => openCsv' \subseteq df'[q]
               /\ pc'[q] \in {"closedOver", "closeWrite"} => closing'[q] \in closedCsv'
    <3>1. CASE q = p
      BY <2>3, <3>1 DEF Copying
    <3>2. CASE q # p /\ pc[q] \in Copying
      <4>1. p \notin Writer \/ pc[p] \notin WriterPlace
        BY <3>2 DEF KeepInv, WriterPlace
      <4>2. openCsv' = openCsv /\ closedCsv' = closedCsv
        BY <2>1, <4>1 DEF FilesCut, KeepInv, WriterPlace, Copying
      <4> QED
        BY <2>3, <3>2, <4>2 DEF KeepInv
    <3>3. CASE q # p /\ pc[q] \notin Copying
      BY <2>3, <3>3 DEF KeepInv, Copying
    <3> QED
      BY <3>1, <3>2, <3>3
  <2> QED
    BY <2>2, <2>4 DEF KeepInv
<1> QED
  BY <1>0, <1>1, <1>2, <1>3, <1>4, <1>5, <1>6, <1>8, <1>9, <1>10, <1>11, <1>12,
     <1>13, <1>14, <1>15, <1>16, <1>17
     DEF Next, Continue, Broker, Fill, List, ClosePart, ClosePosition, vars

(* With one writing process and a readable open file, a trade leaves the   *)
(* open file only once it is in the closed one, whatever write fails and   *)
(* whenever a process dies (update_closed_trade, force_close_unknown). The *)
(* exception is a row that an overwrite in place of the file cuts off when *)
(* it breaks off (atomic_write_df); without such overwrites (~Replace-     *)
(* MayFail) there is none, see NothingCut.                                 *)
THEOREM TradesAreKept ==
  ASSUME ~ReadMayFail, \A p, q \in Writer : p = q
  PROVE  Spec => NoTradeForgotten
<1>1. Init => KeepInv
  BY DEF Init, KeepInv, WriterPlace, Copying
<1>2. TypeInv /\ KeepInv /\ [Next]_vars => KeepInv'
  BY KeepStep
<1>3. TypeInv /\ KeepInv /\ [Next]_vars
        => [\A t \in openCsv \ openCsv' :
               t \in TicketsOf(closedCsv') \/ t \in lostOpen' \ lostOpen]_vars
  BY KeepStep DEF RowsAccounted
<1> QED
  BY <1>1, <1>2, <1>3, TypeInvariant, PTL DEF Spec, NoTradeForgotten

-----------------------------------------------------------------------------
(* The ledger implements the life of a trade.                              *)

(* A row is appended for a trade that is in the open file.                 *)
LoggedInv ==
  \A p \in Proc : pc[p] = "closeAppend" => closing[p].ticket \in openCsv

(* The steps that change the two files.                                    *)
LEMMA FileSteps ==
  ASSUME TypeInv, [Next]_vars
  PROVE  \/ UNCHANGED <<openCsv, closedCsv, lostOpen, lostClosed>>
         \/ \E p \in Proc : \/ CloseAppend(p) \/ WriteSnapshot(p) \/ CloseWrite(p)
                            \/ FilesCut(p)
<1> USE DEF TypeInv, TypeOK, broker, disk, lost, memory, bounds
<1> DEFINE Same == UNCHANGED <<openCsv, closedCsv, lostOpen, lostClosed>>
<1>1. CASE Broker \/ UNCHANGED vars
  BY <1>1 DEF Broker, Fill, List, ClosePart, ClosePosition, vars
<1>2. ASSUME NEW p \in Proc,
             \/ \E ts \in SUBSET Ticket : StartSnapshot(p, ts)
             \/ StartCheck(p) \/ StartReconcile(p) \/ StartSync(p)
             \/ \E t \in Ticket : UpdatePolicy(p, t) \/ Age(p, t)
      PROVE  Same
  BY <1>2 DEF StartSnapshot, StartCheck, StartReconcile, StartSync, UpdatePolicy, Age
<1>3. ASSUME NEW p \in Proc,
             \/ SkipSnapshot(p) \/ MergeSnapshot(p) \/ FailSnapshot(p)
             \/ ScanTicket(p) \/ ScanDone(p) \/ CloseRead(p) \/ CloseFails(p)
             \/ FinishOverwrite(p)
      PROVE  Same
  BY <1>3 DEF SkipSnapshot, MergeSnapshot, FailSnapshot, ScanTicket, ScanDone,
              CloseRead, CloseFails, FinishOverwrite
<1>4. ASSUME NEW p \in Proc,
             \/ UpsertOpen(p) \/ SyncRead(p) \/ SyncOpen(p) \/ SyncClosed(p)
             \/ SyncMeta(p) \/ SyncFails(p) \/ LoadActive(p)
      PROVE  Same
  BY <1>4 DEF UpsertOpen, SyncRead, SyncOpen, SyncClosed, SyncMeta, SyncFails,
              LoadActive
<1>5. ASSUME NEW p \in Proc, OverwriteFails(p) \/ Restart(p)
      PROVE  FilesCut(p)
  BY <1>5, BreakOffCuts, RestartCuts DEF OverwriteFails, Overwriting
<1> QED
  BY <1>1, <1>2, <1>3, <1>4, <1>5 DEF Next, Continue

(* Only an overwrite in place is cut. *)
LEMMA CutAllowed ==
  ASSUME TypeInv, NEW p \in Proc, FilesCut(p)
  PROVE  \/ ReplaceMayFail
         \/ UNCHANGED <<openCsv, closedCsv, lostOpen, lostClosed>>
BY DEF TypeInv, ClosingTyped, FilesCut

(* Where os.replace is not refused to the last retry (atomic_write_df), no *)
(* row of either file is ever cut off, whatever write fails and whenever a *)
(* process dies.                                                           *)
THEOREM NothingCut ==
  ASSUME ~ReplaceMayFail
  PROVE  Spec => [](lostOpen = {} /\ lostClosed = {})
<1> DEFINE Whole == lostOpen = {} /\ lostClosed = {}
<1>1. Init => Whole
  BY DEF Init
<1>2. TypeInv /\ Whole /\ [Next]_vars => Whole'
  <2> SUFFICES ASSUME TypeInv, Whole, [Next]_vars PROVE Whole'
    OBVIOUS
  <2> QED
    BY FileSteps, CutAllowed
       DEF CloseAppend, WriteSnapshot, CloseWrite, OpenWritten
<1> HIDE DEF Whole
<1>3. Spec => []Whole
  BY <1>1, <1>2, TypeInvariant, PTL DEF Spec
<1> QED
  BY <1>3 DEF Whole

(* A process comes to its append only from reading the open file. *)
LEMMA AppendPlace ==
  ASSUME TypeInv, [Next]_vars, NEW p \in Proc, pc'[p] = "closeAppend"
  PROVE  CloseRead(p) \/ (pc[p] = "closeAppend" /\ closing'[p] = closing[p])
<1> USE DEF TypeInv, TypeOK
<1>1. CASE Broker \/ UNCHANGED vars
  BY <1>1 DEF Broker, Fill, List, ClosePart, ClosePosition, vars, local
<1>2. ASSUME NEW q \in Proc,
             \/ \E ts \in SUBSET Ticket : StartSnapshot(q, ts)
             \/ StartCheck(q) \/ StartReconcile(q) \/ StartSync(q)
             \/ \E t \in Ticket : UpdatePolicy(q, t) \/ Age(q, t)
      PROVE  pc[p] = "closeAppend" /\ closing'[p] = closing[p]
  BY <1>2 DEF StartSnapshot, StartCheck, StartReconcile, StartSync, UpdatePolicy,
              Age, Goto, local
<1>3. ASSUME NEW q \in Proc, Finish(q)
      PROVE  pc[p] = "closeAppend" /\ closing'[p] = closing[p]
  BY <1>3 DEF Finish
<1>4. ASSUME NEW q \in Proc, NEW ok \in BOOLEAN, CloseEnds(q, ok)
      PROVE  pc[p] = "closeAppend" /\ closing'[p] = closing[p]
  BY <1>4 DEF CloseEnds, Goto
<1>5. ASSUME NEW q \in Proc, NEW place, place # "closeAppend", Goto(q, place),
             closing' = closing
      PROVE  pc[p] = "closeAppend" /\ closing'[p] = closing[p]
  BY <1>5 DEF Goto
<1>6. ASSUME NEW q \in Proc,
             \/ SkipSnapshot(q) \/ MergeSnapshot(q) \/ WriteSnapshot(q)
             \/ FailSnapshot(q) \/ ScanDone(q) \/ CloseAppend(q) \/ CloseWrite(q)
             \/ FinishOverwrite(q)
      PROVE  pc[p] = "closeAppend" /\ closing'[p] = closing[p]
  BY <1>3, <1>5, <1>6 DEF SkipSnapshot, MergeSnapshot, WriteSnapshot, OpenWritten,
                          FailSnapshot, ScanDone, CloseAppend, CloseWrite,
                          FinishOverwrite
<1>7. ASSUME NEW q \in Proc, CloseFails(q) \/ UpsertOpen(q) \/ OverwriteFails(q)
      PROVE  pc[p] = "closeAppend" /\ closing'[p] = closing[p]
  BY <1>3, <1>4, <1>7 DEF CloseFails, UpsertOpen, OverwriteFails
<1>8. ASSUME NEW q \in Proc, ScanTicket(q)
      PROVE  pc[p] = "closeAppend" /\ closing'[p] = closing[p]
  BY <1>8 DEF ScanTicket, StillOpen, CloseWithDeal, LeaveOpen, WaitForDeal,
              ForceClose, Goto
<1>9. ASSUME NEW q \in Proc,
             \/ SyncRead(q) \/ SyncOpen(q) \/ SyncClosed(q) \/ SyncMeta(q)
             \/ SyncFails(q) \/ LoadActive(q)
      PROVE  pc[p] = "closeAppend" /\ closing'[p] = closing[p]
  BY <1>3, <1>5, <1>9 DEF SyncRead, SyncOpen, SyncClosed, SyncMeta, SyncFails,
                          LoadActive
<1>10. ASSUME NEW q \in Proc, Restart(q)
       PROVE  pc[p] = "closeAppend" /\ closing'[p] = closing[p]
  BY <1>10 DEF Restart, Goto
<1>11. ASSUME NEW q \in Proc, CloseRead(q), ~CloseRead(p)
       PROVE  pc[p] = "closeAppend" /\ closing'[p] = closing[p]
  <2>1. q # p
    BY <1>11
  <2>2. CASE CloseEnds(q, FALSE)
    BY <1>4, <2>2
  <2>3. CASE Goto(q, "closeAppend") /\ closing' = closing
    BY <2>1, <2>3 DEF Goto
  <2> QED
    BY <1>11, <2>2, <2>3 DEF CloseRead
<1> QED
  BY <1>1, <1>2, <1>6, <1>7, <1>8, <1>9, <1>10, <1>11 DEF Next, Continue

LEMMA LoggedStep ==
  ASSUME TypeInv, KeepInv, LoggedInv, [Next]_vars,
         ~ReadMayFail, \A p, q \in Writer : p = q
  PROVE  LoggedInv'
<1> SUFFICES ASSUME NEW p \in Proc, pc'[p] = "closeAppend"
             PROVE  closing'[p].ticket \in openCsv'
  BY DEF LoggedInv
<1>1. CASE CloseRead(p)
  <2>1. pc[p] = "closeRead" /\ openCsv' = openCsv
    BY <1>1 DEF CloseRead, disk
  <2>0. ReadOpen = {openCsv}
    BY <2>1, WholeRows DEF KeepInv, WriterPlace
  <2>2. CASE CloseEnds(p, FALSE)
    BY <2>2 DEF CloseEnds, Goto, TypeInv, TypeOK
  <2>3. CASE closing[p].ticket \in openCsv /\ closing' = closing
    BY <2>1, <2>3
  <2> QED
    BY <1>1, <2>0, <2>2, <2>3 DEF CloseRead
<1>2. CASE pc[p] = "closeAppend" /\ closing'[p] = closing[p]
  <2>1. ASSUME NEW q \in Proc, WriteSnapshot(q) \/ CloseWrite(q)
        PROVE  FALSE
    BY <1>2, <2>1 DEF WriteSnapshot, CloseWrite, KeepInv, WriterPlace, Copying
  <2>2. ASSUME NEW q \in Proc, CloseAppend(q) \/ FilesCut(q)
        PROVE  openCsv' = openCsv
    BY <1>2, <2>2 DEF CloseAppend, FilesCut, KeepInv, WriterPlace, Copying
  <2>3. openCsv' = openCsv
    BY <2>1, <2>2, FileSteps
  <2> QED
    BY <1>2, <2>3 DEF LoggedInv
<1> QED
  BY <1>1, <1>2, AppendPlace

(* The rows an overwrite cuts off: a trade of the closed file is open      *)
(* again if its row is still in the open file, else it is lost.            *)
LEMMA CutStage ==
  ASSUME TypeInv, NEW p \in Proc, FilesCut(p), NEW t \in Ticket
  PROVE  \/ Stage(t)' = Stage(t)
         \/ Stage(t)' = "lost" /\ Stage(t) \in {"open", "closed"}
         \/ Stage(t)' = "open" /\ Stage(t) = "closed"
<1>1. CASE t \in TicketsOf(closedCsv)
  <2>1. \/ t \in TicketsOf(closedCsv') \/ t \in openCsv'
        \/ t \in TicketsOf(lostClosed')
    BY <1>1 DEF FilesCut, TicketsOf
  <2> QED
    BY <1>1, <2>1 DEF Stage
<1>2. CASE t \notin TicketsOf(closedCsv)
  <2>1. /\ t \notin TicketsOf(closedCsv')
        /\ t \in TicketsOf(lostClosed') <=> t \in TicketsOf(lostClosed)
    BY <1>2 DEF FilesCut, TicketsOf
  <2> QED
    BY <1>2, <2>1 DEF FilesCut, Stage
<1> QED
  BY <1>1, <1>2

LEMMA CutStep ==
  ASSUME TypeInv, NEW p \in Proc, FilesCut(p)
  PROVE  [Lifecycle!Next]_[t \in Ticket |-> Stage(t)]
<1>1. CASE UNCHANGED <<openCsv, closedCsv, lostOpen, lostClosed>>
  BY <1>1 DEF Stage
<1>2. CASE ReplaceMayFail
  <2> DEFINE ts == {t \in Ticket : Stage(t)' = "lost" /\ Stage(t) \in {"open", "closed"}}
             us == {t \in Ticket : Stage(t)' = "open" /\ Stage(t) = "closed"}
  <2>1. \A t \in Ticket : Stage(t)' = IF t \in ts THEN "lost"
                                      ELSE IF t \in us THEN "open" ELSE Stage(t)
    BY CutStage
  <2>2. Lifecycle!Cut(ts, us)
    BY <1>2, <2>1, Zenon DEF Lifecycle!Cut
  <2> QED
    BY <2>2 DEF Lifecycle!Next
<1> QED
  BY <1>1, <1>2, CutAllowed

(* A row that leaves the open file as it is written was closed before; one *)
(* that comes into it was not logged, or was lost.                         *)
LEMMA WriteStep ==
  ASSUME TypeInv, KeepInv, NEW p \in Proc, WriteSnapshot(p) \/ CloseWrite(p)
  PROVE  [Lifecycle!Next]_[t \in Ticket |-> Stage(t)]
<1> DEFINE new == {t \in Ticket : /\ Stage(t) \in {"unlogged", "lost"}
                                  /\ Stage(t)' = "open"}
<1>1. /\ UNCHANGED <<closedCsv, lostClosed>> /\ lostOpen' = lostOpen \ df[p]
      /\ openCsv \subseteq df[p] /\ openCsv' \subseteq df[p]
      /\ \A t \in df[p] \ openCsv' : t \in TicketsOf(closedCsv)
  BY DEF WriteSnapshot, CloseWrite, OpenWritten, RemainingRows, KeepInv, Copying,
         TicketsOf
<1>2. \A t \in Ticket : t \notin new => Stage(t)' = Stage(t)
  BY <1>1 DEF Stage, KeepInv
<1>3. \A t \in Ticket : Stage(t)' = IF t \in new THEN "open" ELSE Stage(t)
  BY <1>2
<1>4. Lifecycle!Log(new)
  BY <1>3, Zenon DEF Lifecycle!Log
<1> QED
  BY <1>4 DEF Lifecycle!Next

(* A stage changes only when rows come, when a row is appended to the      *)
(* closed file, or when an overwrite breaks off.                           *)
LEMMA LifecycleStep ==
  ASSUME TypeInv, KeepInv, LoggedInv, [Next]_vars,
         ~ReadMayFail, \A p, q \in Writer : p = q
  PROVE  [Lifecycle!Next]_[t \in Ticket |-> Stage(t)]
<1> DEFINE stage == [t \in Ticket |-> Stage(t)]
           next  == [t \in Ticket |-> Stage(t)']
<1>1. CASE UNCHANGED <<openCsv, closedCsv, lostOpen, lostClosed>>
  BY <1>1 DEF Stage
<1>3. CASE \E p \in Proc : CloseAppend(p)
  <2>1. PICK p \in Proc : CloseAppend(p)
    BY <1>3
  <2>2. /\ closedCsv' = closedCsv \cup {closing[p]} /\ openCsv' = openCsv
        /\ lostOpen' = lostOpen /\ lostClosed' = lostClosed \ {closing[p]}
        /\ pc[p] = "closeAppend"
    BY <2>1 DEF CloseAppend
  <2>3. PICK t \in Ticket : t = closing[p].ticket /\ t \in openCsv
    BY <2>2 DEF LoggedInv, TypeInv, TypeOK
  <2>4. /\ TicketsOf(closedCsv)' = TicketsOf(closedCsv) \cup {t}
        /\ \A u : u # t => (u \in TicketsOf(lostClosed)' <=> u \in TicketsOf(lostClosed))
    <3>1. closedCsv' = closedCsv \cup {closing[p]} /\ closing[p].ticket = t
      BY <2>2, <2>3
    <3> QED
      BY <2>2, <3>1 DEF TicketsOf
  <2>5. \A u \in Ticket : Stage(u)' = IF u = t THEN "closed" ELSE Stage(u)
    BY <2>2, <2>3, <2>4 DEF Stage
  <2>6. CASE Stage(t) = "open"
    <3>1. stage[t] = "open" /\ DOMAIN stage = Ticket
      BY <2>3, <2>6
    <3>2. next = [stage EXCEPT ![t] = "closed"]
      BY <2>3, <2>5
    <3>3. Lifecycle!Close(t)
      BY <3>1, <3>2 DEF Lifecycle!Close
    <3> QED
      BY <2>3, <3>3 DEF Lifecycle!Next
  <2>7. CASE Stage(t) = "closed"
    <3>1. \A u \in Ticket : Stage(u)' = Stage(u)
      BY <2>5, <2>7
    <3> QED
      BY <3>1
  <2>8. Stage(t) \in {"open", "closed"}
    BY <2>3 DEF Stage
  <2> QED
    BY <2>6, <2>7, <2>8
<1> QED
  BY <1>1, <1>3, FileSteps, WriteStep, CutStep

(* With one writing process and a readable open file, the two files tell   *)
(* of each trade the life that TradeLifecycle describes: logged as open,   *)
(* then closed, and closed for good, over every crash and failed write. If *)
(* a file may be overwritten in place (ReplaceMayFail), an overwrite that  *)
(* breaks off may take back what it was writing, and nothing else does.    *)
THEOREM LedgerImplementsLifecycle ==
  ASSUME ~ReadMayFail, \A p, q \in Writer : p = q
  PROVE  Spec => ImplementsLifecycle
<1>1. Init => KeepInv /\ LoggedInv
  BY DEF Init, KeepInv, LoggedInv, WriterPlace, Copying
<1>2. Init => Lifecycle!Init
  BY DEF Init, Lifecycle!Init, Stage, TicketsOf
<1>3. TypeInv /\ KeepInv /\ LoggedInv /\ [Next]_vars => KeepInv' /\ LoggedInv'
  BY KeepStep, LoggedStep
<1>4. TypeInv /\ KeepInv /\ LoggedInv /\ [Next]_vars
        => [Lifecycle!Next]_[t \in Ticket |-> Stage(t)]
  BY LifecycleStep
<1> QED
  BY <1>1, <1>2, <1>3, <1>4, TypeInvariant, PTL
  DEF Spec, ImplementsLifecycle, Lifecycle!Spec

-----------------------------------------------------------------------------
(* What the logger knows of is a trade of the broker; a ticket that waited *)
(* for LongAge is listed or closed; a row about to be appended has an exit *)
(* deal.                                                                   *)
Born == {t \in Ticket : position[t] # "none"}

ClosedHaveDeals == \A r \in closedCsv : HasExitDeal(r.ticket)

PhantomInv ==
  /\ openCsv \subseteq Born
  /\ \A p \in Proc :
        /\ active[p] \subseteq Born /\ todo[p] \subseteq Born
        /\ df[p] \subseteq Born
        /\ \A t \in Ticket :
              /\ checks[p][t] > 0 => t \in Born
              /\ age[p][t] = LongAge => position[t] \in {"listed", "closed"}
        /\ pc[p] \in Closing => HasExitDeal(closing[p].ticket)
  /\ ClosedHaveDeals

LEMMA SameTrades ==
  ASSUME PhantomInv, UNCHANGED <<position, partial>>,
         closedCsv' \subseteq closedCsv, openCsv' \subseteq Born,
         \A p \in Proc :
            /\ active'[p] \subseteq Born /\ todo'[p] \subseteq Born
            /\ df'[p] \subseteq Born
            /\ \A t \in Ticket :
                  /\ checks'[p][t] > 0 => t \in Born
                  /\ age'[p][t] = LongAge => position[t] \in {"listed", "closed"}
            /\ pc'[p] \in Closing => HasExitDeal(closing'[p].ticket)
  PROVE  PhantomInv'
BY DEF PhantomInv, Born, ClosedHaveDeals, HasExitDeal, Closing, LongAge

LEMMA FewerTrades ==
  ASSUME PhantomInv, UNCHANGED <<position, partial>>,
         closedCsv' \subseteq closedCsv, openCsv' \subseteq openCsv,
         \A p \in Proc :
            /\ active'[p] \subseteq active[p] /\ todo'[p] \subseteq todo[p]
            /\ df'[p] \subseteq df[p] \/ df'[p] \subseteq openCsv
            /\ \A t \in Ticket :
                  /\ checks'[p][t] = checks[p][t] \/ checks'[p][t] = 0
                  /\ age'[p][t] = age[p][t] \/ age'[p][t] = 0
            /\ pc'[p] \in Closing => /\ pc[p] \in Closing
                                     /\ closing'[p] = closing[p]
  PROVE  PhantomInv'
<1>1. \A p \in Proc : \A t \in Ticket :
         /\ checks'[p][t] > 0 => t \in Born
         /\ age'[p][t] = LongAge => position[t] \in {"listed", "closed"}
  BY DEF PhantomInv, LongAge
<1>2. \A p \in Proc : /\ active'[p] \subseteq Born /\ todo'[p] \subseteq Born
                      /\ df'[p] \subseteq Born
  BY DEF PhantomInv
<1>3. \A p \in Proc : pc'[p] \in Closing => HasExitDeal(closing'[p].ticket)
  BY DEF PhantomInv
<1>4. openCsv' \subseteq Born
  BY DEF PhantomInv
<1> QED
  BY <1>1, <1>2, <1>3, <1>4, SameTrades

(* Counters that are cleared say nothing of a ticket. *)
LEMMA ClearLess ==
  ASSUME TypeInv, NEW p \in Proc, NEW t, ClearPending(p, t)
  PROVE  \A q \in Proc, u \in Ticket :
            /\ checks'[q][u] = checks[q][u] \/ checks'[q][u] = 0
            /\ age'[q][u] = age[q][u] \/ age'[q][u] = 0
BY DEF ClearPending, TypeInv, TypeOK

(* A check that has taken up a ticket after LongAge saw a position list    *)
(* without it: the trade is closed, and a failing query changes nothing.   *)
Checking(p) == op[p] = "check" /\ pc[p] # "idle"

RipeInv ==
  \A p \in Proc : Checking(p) =>
     \A t \in todo[p] : age[p][t] = LongAge => position[t] = "closed"

(* A step that starts no check, adds no ticket to one and lets no time     *)
(* pass for it keeps RipeInv.                                              *)
LEMMA RipeKept ==
  ASSUME TypeInv, RipeInv,
         \A t \in Ticket : position[t] = "closed" => position'[t] = "closed",
         \A q \in Proc : Checking(q)' =>
            /\ Checking(q) /\ todo'[q] \subseteq todo[q]
            /\ \A t \in Ticket : age'[q][t] = LongAge => age[q][t] = LongAge
  PROVE  RipeInv'
BY DEF RipeInv, TypeInv, TypeOK, LongAge

LEMMA ClearAge ==
  ASSUME TypeInv, NEW p \in Proc, NEW t, ClearPending(p, t)
  PROVE  \A q \in Proc, u \in Ticket : age'[q][u] = LongAge => age[q][u] = LongAge
BY ClearLess DEF LongAge

LEMMA CloseEndsRipe ==
  ASSUME TypeInv, RipeInv, NEW p \in Proc, NEW ok \in BOOLEAN, CloseEnds(p, ok),
         pc[p] # "idle", UNCHANGED position
  PROVE  RipeInv'
<1>1. \A q \in Proc, u \in Ticket : age'[q][u] = LongAge => age[q][u] = LongAge
  BY ClearAge DEF CloseEnds
<1>2. \A q \in Proc : todo'[q] \subseteq todo[q] /\ (Checking(q)' => Checking(q))
  BY DEF CloseEnds, Goto, Checking, TypeInv, TypeOK
<1> QED
  BY <1>1, <1>2, RipeKept

LEMMA RipeStep ==
  ASSUME TypeInv, PhantomInv, RipeInv, [Next]_vars
  PROVE  RipeInv'
<1> USE DEF TypeInv, TypeOK
<1>1. CASE Broker
  <2>1. UNCHANGED <<memory, local>>
    BY <1>1 DEF Broker, Fill, List, ClosePart, ClosePosition
  <2>2. \A t \in Ticket : position[t] = "closed" => position'[t] = "closed"
    BY <1>1 DEF Broker, Fill, List, ClosePart, ClosePosition, Listed
  <2> QED
    BY <2>1, <2>2, RipeKept DEF memory, local, Checking
<1>2. CASE UNCHANGED vars
  BY <1>2, RipeKept DEF vars, broker, memory, local, Checking
<1>3. ASSUME NEW p \in Proc, NEW ts \in SUBSET Ticket, StartSnapshot(p, ts)
      PROVE  RipeInv'
  BY <1>3, RipeKept DEF StartSnapshot, Goto, Checking, broker, memory
<1>4. ASSUME NEW p \in Proc, StartCheck(p) PROVE RipeInv'
  <2>1. /\ UNCHANGED <<position, age>>
        /\ todo' = [todo EXCEPT ![p] = active[p] \ Listed]
        /\ op' = [op EXCEPT ![p] = "check"]
        /\ pc' = [pc EXCEPT ![p] = "scan"]
    BY <1>4 DEF StartCheck, Goto, broker, memory
  <2>2. \A t \in active[p] \ Listed : age[p][t] = LongAge => position[t] = "closed"
    BY DEF PhantomInv, Listed
  <2> QED
    BY <2>1, <2>2 DEF RipeInv, Checking
<1>5. ASSUME NEW p \in Proc, StartReconcile(p) PROVE RipeInv'
  <2>1. /\ UNCHANGED <<position, age>>
        /\ \A q \in Proc : q # p => todo'[q] = todo[q]
        /\ op' = [op EXCEPT ![p] = "reconcile"]
        /\ pc' = [pc EXCEPT ![p] = "scan"]
    BY <1>5 DEF StartReconcile, Goto, broker, memory
  <2> QED
    BY <2>1, RipeKept DEF Checking
<1>6. ASSUME NEW p \in Proc,
             \/ SkipSnapshot(p) \/ FailSnapshot(p) \/ ScanDone(p)
             \/ LoadActive(p)
      PROVE  RipeInv'
  BY <1>6, RipeKept
     DEF SkipSnapshot, FailSnapshot, ScanDone, LoadActive, Finish, Checking,
         broker, memory
<1>7. ASSUME NEW p \in Proc, MergeSnapshot(p) PROVE RipeInv'
  <2>1. /\ UNCHANGED <<position, age>> /\ pc[p] = "snapshot"
        /\ \/ Finish(p)
           \/ Goto(p, "snapWrite") /\ UNCHANGED <<op, todo>>
    BY <1>7 DEF MergeSnapshot, broker
  <2> QED
    BY <2>1, RipeKept DEF Finish, Goto, Checking
<1>8. ASSUME NEW p \in Proc, WriteSnapshot(p) \/ CloseWrite(p) PROVE RipeInv'
  BY <1>8, RipeKept DEF WriteSnapshot, CloseWrite, OpenWritten, Goto, Checking,
                        broker, memory
<1>9. ASSUME NEW p \in Proc, ScanTicket(p) PROVE RipeInv'
  <2>1. pc[p] = "scan" /\ UNCHANGED <<position, op>>
    BY <1>9 DEF ScanTicket, broker
  <2>2. PICK t \in todo[p] : \/ StillOpen(p, t) \/ CloseWithDeal(p, t)
                             \/ LeaveOpen(p, t) \/ WaitForDeal(p, t)
                             \/ ForceClose(p, t)
    BY <1>9 DEF ScanTicket
  <2>3. \A q \in Proc : todo'[q] \subseteq todo[q]
    <3>1. todo' = todo \/ todo' = [todo EXCEPT ![p] = todo[p] \ {t}]
      BY <2>2 DEF StillOpen, CloseWithDeal, LeaveOpen, WaitForDeal, ForceClose
    <3>2. todo \in [Proc -> SUBSET Ticket]
      BY DEF TypeInv, TypeOK
    <3>3. ASSUME NEW q \in Proc PROVE \/ todo'[q] = todo[q]
                                   \/ (q = p /\ todo'[q] = todo[p] \ {t})
      BY ONLY <3>1, <3>2, <3>3, p \in Proc
    <3> QED
      BY <3>3
  <2>5. \A q \in Proc : q # p => pc'[q] = pc[q]
    <3>1. \/ pc' = pc
          \/ pc' = [pc EXCEPT ![p] = "closeRead"]
      BY <2>2 DEF StillOpen, CloseWithDeal, LeaveOpen, WaitForDeal, ForceClose,
         Goto
    <3> QED
      BY <3>1
  <2>4. \A q \in Proc, u \in Ticket : age'[q][u] = LongAge => age[q][u] = LongAge
    BY <2>2, ClearAge
       DEF StillOpen, CloseWithDeal, LeaveOpen, WaitForDeal, ForceClose, memory
  <2> QED
    BY <2>1, <2>3, <2>4, <2>5, RipeKept DEF Checking
<1>10. ASSUME NEW p \in Proc, NEW t \in Ticket, Age(p, t) PROVE RipeInv'
  <2>1. /\ pc[p] = "idle" /\ UNCHANGED <<position, pc, op, todo>>
        /\ \A q \in Proc : q # p => age'[q] = age[q]
    BY <1>10 DEF Age, broker, local
  <2> QED
    BY <2>1, RipeKept DEF Checking
<1>11. ASSUME NEW p \in Proc, CloseRead(p) PROVE RipeInv'
  <2>1. pc[p] = "closeRead" /\ UNCHANGED position
    BY <1>11 DEF CloseRead, broker
  <2>2. CASE Goto(p, "closeAppend") /\ UNCHANGED <<memory, op, todo>>
    BY <2>1, <2>2, RipeKept DEF Goto, Checking, memory
  <2>3. CASE CloseEnds(p, FALSE)
    BY <2>1, <2>3, CloseEndsRipe
  <2> QED
    BY <1>11, <2>2, <2>3 DEF CloseRead
<1>12. ASSUME NEW p \in Proc, CloseAppend(p) \/ FinishOverwrite(p) PROVE RipeInv'
  BY <1>12, RipeKept DEF CloseAppend, FinishOverwrite, Goto, Checking, broker, memory
<1>13. ASSUME NEW p \in Proc, CloseFails(p) PROVE RipeInv'
  BY <1>13, CloseEndsRipe DEF CloseFails, broker
<1>14. ASSUME NEW p \in Proc, UpsertOpen(p) \/ OverwriteFails(p) PROVE RipeInv'
  <2>1. pc[p] # "idle" /\ UNCHANGED position
    BY <1>14 DEF UpsertOpen, OverwriteFails, broker
  <2>2. CASE Finish(p) /\ UNCHANGED memory
    BY <2>1, <2>2, RipeKept DEF Finish, Checking, memory
  <2>3. ASSUME NEW ok \in BOOLEAN, CloseEnds(p, ok) PROVE RipeInv'
    BY <2>1, <2>3, CloseEndsRipe
  <2> QED
    BY <1>14, <2>2, <2>3 DEF UpsertOpen, OverwriteFails
<1>15. ASSUME NEW p \in Proc,
              StartSync(p) \/ SyncRead(p) \/ SyncOpen(p) \/ SyncClosed(p)
       PROVE  RipeInv'
  BY <1>15, RipeKept
     DEF StartSync, SyncRead, SyncOpen, SyncClosed, Goto, Checking, broker, memory
<1>16. ASSUME NEW p \in Proc, SyncMeta(p) \/ SyncFails(p) PROVE RipeInv'
  <2>1. /\ pc[p] # "idle" /\ UNCHANGED <<position, age>>
        /\ \/ Finish(p)
           \/ Goto(p, "load") /\ UNCHANGED <<op, todo>>
    BY <1>16 DEF SyncMeta, SyncFails, broker, memory
  <2> QED
    BY <2>1, RipeKept DEF Finish, Goto, Checking
<1>17. ASSUME NEW p \in Proc, Restart(p) PROVE RipeInv'
  <2>1. /\ UNCHANGED position /\ op' = [op EXCEPT ![p] = "boot"]
        /\ \A q \in Proc : q # p => /\ pc'[q] = pc[q] /\ age'[q] = age[q]
                                    /\ todo'[q] = todo[q]
    BY <1>17 DEF Restart, Goto, broker
  <2> QED
    BY <2>1, RipeKept DEF Checking
<1>18. ASSUME NEW p \in Proc, NEW t \in Ticket, UpdatePolicy(p, t)
       PROVE  RipeInv'
  <2>1. /\ UNCHANGED <<position, age, todo>>
        /\ op' = [op EXCEPT ![p] = "policy"]
        /\ pc' = [pc EXCEPT ![p] = "snapWrite"]
    BY <1>18 DEF UpdatePolicy, Goto, broker, memory
  <2> QED
    BY <2>1, RipeKept DEF Checking
<1> QED
  BY <1>1, <1>2, <1>3, <1>4, <1>5, <1>6, <1>7, <1>8, <1>9, <1>10, <1>11,
     <1>12, <1>13, <1>14, <1>15, <1>16, <1>17, <1>18 DEF Next, Continue

LEMMA PhantomStep ==
  ASSUME TypeInv, PhantomInv, RipeInv, [Next]_vars
  PROVE  PhantomInv'
<1> USE DEF TypeInv, TypeOK, broker, disk, lost, memory, bounds
<1>0. \A rows \in ReadOpen \cup VisibleOpen : rows \subseteq Born
  BY ReadRows, VisibleRows DEF PhantomInv
<1>1. CASE Broker
  <2>1. /\ partial \subseteq partial'
        /\ UNCHANGED <<disk, memory, local>>
        /\ \A t \in Ticket :
              /\ t \in Born => t \in Born'
              /\ position[t] \in {"listed", "closed"}
                    => position'[t] \in {"listed", "closed"}
              /\ position[t] = "closed" => position'[t] = "closed"
    BY <1>1 DEF Broker, Fill, List, ClosePart, ClosePosition, Listed, Born,
                PhantomInv
  <2>4. \A t \in Ticket : HasExitDeal(t) => HasExitDeal(t)'
    BY <2>1 DEF HasExitDeal
  <2>2. \A p \in Proc : pc[p] \in Closing => closing[p].ticket \in Ticket
    BY DEF ClosingTyped, ClosedRow
  <2>3. \A r \in closedCsv : r.ticket \in Ticket
    BY DEF ClosedRow
  <2> QED
    BY <2>1, <2>2, <2>3, <2>4 DEF PhantomInv, Born, ClosedHaveDeals, local
<1>2. CASE UNCHANGED vars
  BY <1>2, SameTrades DEF vars, local, PhantomInv
<1>3. ASSUME NEW p \in Proc, NEW ts \in SUBSET Ticket, StartSnapshot(p, ts)
      PROVE  PhantomInv'
  <2>1. ts \subseteq Born
    BY <1>3 DEF StartSnapshot, Born
  <2> QED
    BY <1>3, <2>1, SameTrades DEF StartSnapshot, Goto, PhantomInv, Closing
<1>4. ASSUME NEW p \in Proc, StartCheck(p) \/ StartReconcile(p)
      PROVE  PhantomInv'
  <2>1. /\ UNCHANGED <<position, partial, closedCsv, openCsv, active, df, checks,
                       age, closing>>
        /\ pc' = [pc EXCEPT ![p] = "scan"]
    BY <1>4 DEF StartCheck, StartReconcile, Goto
  <2>2. \A q \in Proc : todo'[q] \subseteq Born
    <3>1. CASE StartCheck(p)
      BY <3>1 DEF StartCheck, PhantomInv
    <3>2. CASE StartReconcile(p)
      <4>1. PICK rows \in VisibleOpen :
               \E seen : todo' = [todo EXCEPT ![p] = rows \ seen]
        BY <3>2 DEF StartReconcile
      <4>2. rows \subseteq Born
        BY <1>0
      <4> QED
        BY <4>1, <4>2 DEF PhantomInv
    <3> QED
      BY <1>4, <3>1, <3>2
  <2>3. \A q \in Proc : pc'[q] \in Closing => pc[q] \in Closing
    BY <2>1 DEF Closing
  <2> QED
    BY <2>1, <2>2, <2>3, SameTrades DEF PhantomInv
<1>5. ASSUME NEW p \in Proc,
             SkipSnapshot(p) \/ FailSnapshot(p) \/ ScanDone(p)
      PROVE  PhantomInv'
  <2>1. /\ UNCHANGED <<position, partial, openCsv, closedCsv, active, checks, age>>
        /\ Finish(p)
    BY <1>5 DEF SkipSnapshot, FailSnapshot, ScanDone
  <2> QED
    BY <2>1, FewerTrades DEF Finish, Closing
<1>6. ASSUME NEW p \in Proc, MergeSnapshot(p) PROVE PhantomInv'
  <2>1. PICK rows \in ReadOpen : \E changed \in SUBSET (todo[p] \cap rows) :
          LET touched == (todo[p] \ rows) \cup changed IN
          /\ active' = [active EXCEPT ![p] = @ \cup touched]
          /\ \/ Finish(p)
             \/ /\ Goto(p, "snapWrite")
                /\ df' = [df EXCEPT ![p] = rows \cup todo[p]]
                /\ UNCHANGED <<op, todo, closing, copy>>
    BY <1>6 DEF MergeSnapshot
  <2>2. rows \subseteq Born
    BY <1>0
  <2>3. \A q \in Proc : active'[q] \subseteq Born
    BY <2>1, <2>2 DEF PhantomInv
  <2>4. UNCHANGED <<position, partial, openCsv, closedCsv, checks, age>>
    BY <1>6 DEF MergeSnapshot
  <2>5. CASE Finish(p)
    BY <2>3, <2>4, <2>5, SameTrades DEF Finish, PhantomInv, Closing
  <2>6. CASE /\ Goto(p, "snapWrite")
             /\ df' = [df EXCEPT ![p] = rows \cup todo[p]]
             /\ UNCHANGED <<op, todo, closing, copy>>
    BY <2>2, <2>3, <2>4, <2>6, SameTrades DEF Goto, PhantomInv, Closing
  <2> QED
    BY <2>1, <2>5, <2>6
<1>7. ASSUME NEW p \in Proc, WriteSnapshot(p) PROVE PhantomInv'
  BY <1>7, SameTrades DEF WriteSnapshot, OpenWritten, Goto, PhantomInv, Closing
<1>8. ASSUME NEW p \in Proc, ScanTicket(p) PROVE PhantomInv'
  <2>0. /\ UNCHANGED <<broker, disk, op, df, copy, stale, restarts>>
        /\ pc[p] = "scan"
    BY <1>8 DEF ScanTicket
  <2>1. ASSUME NEW t \in todo[p], StillOpen(p, t) PROVE PhantomInv'
    <3>1. \A q \in Proc, u \in Ticket :
             /\ checks'[q][u] = checks[q][u] \/ checks'[q][u] = 0
             /\ age'[q][u] = age[q][u] \/ age'[q][u] = 0
      BY <2>1, ClearLess DEF StillOpen
    <3> QED
      BY <2>0, <2>1, <3>1, FewerTrades DEF StillOpen
  <2>2. ASSUME NEW t \in todo[p], LeaveOpen(p, t) PROVE PhantomInv'
    BY <2>0, <2>2, SameTrades DEF LeaveOpen, PhantomInv, Closing
  <2>3. ASSUME NEW t \in todo[p], CloseWithDeal(p, t) PROVE PhantomInv'
    <3>1. HasExitDeal(t)
      BY <2>3 DEF CloseWithDeal
    <3> QED
      BY <2>0, <2>3, <3>1, SameTrades
         DEF CloseWithDeal, DealRow, Goto, PhantomInv, Closing
  <2>4. ASSUME NEW t \in todo[p], WaitForDeal(p, t) PROVE PhantomInv'
    <3>1. t \in Born
      BY <2>4 DEF PhantomInv
    <3>2. \A q \in Proc, u \in Ticket :
             checks'[q][u] = checks[q][u] \/ u = t
      BY <2>4 DEF WaitForDeal
    <3> QED
      BY <2>0, <2>4, <3>1, <3>2, SameTrades DEF WaitForDeal, PhantomInv, Closing
  <2>5. ASSUME NEW t \in todo[p], ForceClose(p, t) PROVE PhantomInv'
    <3>1. t \in Born /\ t \in Ticket
      BY <2>5 DEF PhantomInv
    <3>2. Checking(p) /\ age[p][t] = LongAge
      BY <2>0, <2>5 DEF ForceClose, GraceOver, Checking
    <3>3. HasExitDeal(t)
      BY <3>2 DEF RipeInv, HasExitDeal
    <3>4. \A q \in Proc, u \in Ticket :
             checks'[q][u] = checks[q][u] \/ u = t
      BY <2>5 DEF ForceClose
    <3> QED
      BY <2>0, <2>5, <3>1, <3>3, <3>4, SameTrades
         DEF ForceClose, Goto, PhantomInv, Closing
  <2> QED
    BY <1>8, <2>1, <2>2, <2>3, <2>4, <2>5 DEF ScanTicket
<1>9. ASSUME NEW p \in Proc, NEW t \in Ticket, Age(p, t) PROVE PhantomInv'
  <2>1. /\ t \in Born
        /\ age[p][t] + 1 = LongAge => position[t] \in {"listed", "closed"}
    BY <1>9 DEF Age, PhantomInv, Born
  <2>2. \A q \in Proc, u \in Ticket :
           age'[q][u] = age[q][u] \/ (q = p /\ u = t /\ age'[q][u] = age[p][t] + 1)
    BY <1>9 DEF Age
  <2>3. UNCHANGED <<position, partial, closedCsv, openCsv, active, todo, df,
                    checks, pc, closing>>
    BY <1>9 DEF Age, local
  <2> QED
    BY <2>1, <2>2, <2>3, SameTrades DEF PhantomInv
<1>10. ASSUME NEW p \in Proc, NEW ok \in BOOLEAN, CloseEnds(p, ok),
              UNCHANGED <<position, partial>>,
              openCsv' \subseteq openCsv, closedCsv' \subseteq closedCsv
       PROVE  PhantomInv'
  <2>1. \A q \in Proc, u \in Ticket :
           /\ checks'[q][u] = checks[q][u] \/ checks'[q][u] = 0
           /\ age'[q][u] = age[q][u] \/ age'[q][u] = 0
    BY <1>10, ClearLess DEF CloseEnds
  <2>2. \A q \in Proc : /\ active'[q] \subseteq active[q]
                        /\ todo'[q] \subseteq todo[q]
                        /\ df'[q] \subseteq df[q]
    BY <1>10 DEF CloseEnds
  <2>3. \A q \in Proc : pc'[q] \in Closing => /\ pc[q] \in Closing
                                              /\ closing'[q] = closing[q]
    BY <1>10 DEF CloseEnds, Goto, Closing
  <2> QED
    BY <1>10, <2>1, <2>2, <2>3, FewerTrades
<1>11. ASSUME NEW p \in Proc, CloseRead(p) PROVE PhantomInv'
  <2>1. UNCHANGED <<position, partial, openCsv, closedCsv>> /\ pc[p] \in Closing
    BY <1>11 DEF CloseRead, Closing
  <2>2. CASE \E rows \in ReadOpen : /\ df' = [df EXCEPT ![p] = rows]
                                    /\ Goto(p, "closeAppend")
                                    /\ UNCHANGED <<memory, op, todo, closing, copy>>
    <3>1. \A q \in Proc : df'[q] \subseteq Born
      BY <1>0, <2>2 DEF PhantomInv
    <3>2. /\ UNCHANGED <<active, todo, checks, age, closing>>
          /\ pc' = [pc EXCEPT ![p] = "closeAppend"]
      BY <2>2 DEF Goto
    <3>3. \A q \in Proc : pc'[q] \in Closing => pc[q] \in Closing
      BY <2>1, <3>2
    <3> QED
      BY <2>1, <3>1, <3>2, <3>3, SameTrades DEF PhantomInv
  <2>3. CASE CloseEnds(p, FALSE)
    BY <1>10, <2>1, <2>3
  <2> QED
    BY <1>11, <2>2, <2>3 DEF CloseRead
<1>12. ASSUME NEW p \in Proc, CloseAppend(p) PROVE PhantomInv'
  <2>1. /\ UNCHANGED <<position, partial, openCsv, memory, todo, closing, df>>
        /\ pc[p] \in Closing /\ \A q \in Proc : q # p => pc'[q] = pc[q]
        /\ closedCsv' = closedCsv \cup {closing[p]}
    BY <1>12 DEF CloseAppend, Goto, Closing
  <2>2. \A q \in Proc : pc'[q] \in Closing => pc[q] \in Closing
    BY <2>1
  <2> QED
    BY <2>1, <2>2 DEF PhantomInv, Born, ClosedHaveDeals, HasExitDeal
<1>13. ASSUME NEW p \in Proc, CloseWrite(p) PROVE PhantomInv'
  BY <1>13, SameTrades
     DEF CloseWrite, OpenWritten, RemainingRows, Goto, PhantomInv, Closing
<1>19. ASSUME NEW p \in Proc, FinishOverwrite(p) PROVE PhantomInv'
  BY <1>19, SameTrades DEF FinishOverwrite, Goto, PhantomInv, Closing
<1>20. ASSUME NEW p \in Proc, OverwriteFails(p) PROVE PhantomInv'
  <2>1. UNCHANGED <<position, partial>> /\ FilesCut(p)
    BY <1>20, BreakOffCuts DEF OverwriteFails, Overwriting
  <2>2. CASE Finish(p) /\ UNCHANGED memory
    BY <2>1, <2>2, FewerTrades DEF FilesCut, Finish, Closing
  <2>3. CASE CloseEnds(p, FALSE)
    BY <1>10, <2>1, <2>3 DEF FilesCut
  <2> QED
    BY <1>20, <2>2, <2>3 DEF OverwriteFails
<1>14. ASSUME NEW p \in Proc, CloseFails(p) PROVE PhantomInv'
  BY <1>10, <1>14 DEF CloseFails
<1>15. ASSUME NEW p \in Proc, UpsertOpen(p) PROVE PhantomInv'
  <2>1. UNCHANGED <<position, partial, openCsv, closedCsv>>
    BY <1>15 DEF UpsertOpen
  <2>2. CASE Finish(p) /\ UNCHANGED memory
    BY <2>1, <2>2, SameTrades DEF Finish, PhantomInv, Closing
  <2>3. CASE CloseEnds(p, TRUE)
    BY <1>10, <2>1, <2>3
  <2> QED
    BY <1>15, <2>2, <2>3 DEF UpsertOpen
<1>16. ASSUME NEW p \in Proc,
              \/ StartSync(p) \/ SyncRead(p) \/ SyncOpen(p) \/ SyncClosed(p)
              \/ SyncMeta(p) \/ SyncFails(p) \/ Restart(p)
       PROVE  PhantomInv'
  <2>1. CASE StartSync(p)
    <3>1. PICK rows \in VisibleOpen : df' = [df EXCEPT ![p] = rows]
      BY <2>1 DEF StartSync
    <3>2. \A q \in Proc : df'[q] \subseteq Born
      BY <1>0, <3>1 DEF PhantomInv
    <3> QED
      BY <2>1, <3>2, SameTrades DEF StartSync, Goto, PhantomInv, Closing
  <2>2. CASE SyncRead(p)
    BY <2>2, SameTrades DEF SyncRead, Goto, PhantomInv, Closing
  <2>3. CASE SyncOpen(p)
    BY <2>3, SameTrades DEF SyncOpen, Goto, PhantomInv, Closing
  <2>4. CASE SyncClosed(p)
    BY <2>4, SameTrades DEF SyncClosed, Goto, PhantomInv, Closing
  <2>5. CASE SyncMeta(p)
    <3>1. UNCHANGED <<broker, openCsv, closedCsv, memory>>
      BY <2>5 DEF SyncMeta, disk
    <3>2. CASE Finish(p)
      BY <3>1, <3>2, SameTrades DEF Finish, PhantomInv, Closing
    <3>3. CASE Goto(p, "load") /\ UNCHANGED <<op, todo, closing, df, copy>>
      BY <3>1, <3>3, SameTrades DEF Goto, PhantomInv, Closing
    <3> QED
      BY <2>5, <3>2, <3>3 DEF SyncMeta
  <2>6. CASE SyncFails(p)
    <3>1. UNCHANGED <<broker, openCsv, closedCsv, memory>>
      BY <2>6 DEF SyncFails, disk
    <3>2. CASE Finish(p)
      BY <3>1, <3>2, SameTrades DEF Finish, PhantomInv, Closing
    <3>3. CASE Goto(p, "load") /\ UNCHANGED <<op, todo, closing, df, copy>>
      BY <3>1, <3>3, SameTrades DEF Goto, PhantomInv, Closing
    <3> QED
      BY <2>6, <3>2, <3>3 DEF SyncFails
  <2>7. CASE Restart(p)
    <3>1. FilesCut(p)
      BY <2>7, RestartCuts
    <3>2. PICK rows \in SUBSET openCsv' : df' = [df EXCEPT ![p] = rows]
      BY <2>7, RestartReads
    <3>3. \A q \in Proc : df'[q] \subseteq df[q] \/ df'[q] \subseteq openCsv
      BY <3>1, <3>2 DEF FilesCut
    <3>4. \A q \in Proc : /\ active'[q] \subseteq active[q]
                          /\ todo'[q] \subseteq todo[q]
      BY <2>7 DEF Restart
    <3>5. /\ UNCHANGED <<position, partial>>
          /\ \A q \in Proc, t \in Ticket :
                /\ checks'[q][t] = checks[q][t] \/ checks'[q][t] = 0
                /\ age'[q][t] = age[q][t] \/ age'[q][t] = 0
      BY <2>7 DEF Restart
    <3>6. \A q \in Proc : pc'[q] \in Closing => /\ pc[q] \in Closing
                                                /\ closing'[q] = closing[q]
      BY <2>7 DEF Restart, Goto, Closing
    <3> QED
      BY <3>1, <3>3, <3>4, <3>5, <3>6, FewerTrades DEF FilesCut
  <2> QED
    BY <1>16, <2>1, <2>2, <2>3, <2>4, <2>5, <2>6, <2>7
<1>17. ASSUME NEW p \in Proc, LoadActive(p) PROVE PhantomInv'
  <2>1. \A q \in Proc : active'[q] \subseteq Born
    BY <1>0, <1>17 DEF LoadActive, PhantomInv
  <2> QED
    BY <1>17, <2>1, SameTrades DEF LoadActive, Finish, PhantomInv, Closing
<1>18. ASSUME NEW p \in Proc, NEW t \in Ticket, UpdatePolicy(p, t)
       PROVE  PhantomInv'
  <2>1. PICK rows \in ReadOpen : df' = [df EXCEPT ![p] = rows]
    BY <1>18 DEF UpdatePolicy
  <2>2. \A q \in Proc : df'[q] \subseteq Born
    BY <1>0, <2>1 DEF PhantomInv
  <2>3. /\ UNCHANGED <<position, partial, openCsv, closedCsv, active, todo,
                       checks, age, closing>>
        /\ pc' = [pc EXCEPT ![p] = "snapWrite"]
    BY <1>18 DEF UpdatePolicy, Goto
  <2>4. \A q \in Proc : pc'[q] \in Closing => pc[q] \in Closing
    BY <2>3 DEF Closing
  <2> QED
    BY <2>2, <2>3, <2>4, SameTrades DEF PhantomInv
<1> QED
  BY <1>1, <1>2, <1>3, <1>4, <1>5, <1>6, <1>7, <1>8, <1>9, <1>11, <1>12,
     <1>13, <1>14, <1>15, <1>16, <1>17, <1>18, <1>19, <1>20 DEF Next, Continue

LEMMA PhantomAlways == Spec => [](TypeInv /\ PhantomInv /\ RipeInv)
<1>1. Init => PhantomInv
  BY DEF Init, PhantomInv, Born, ClosedHaveDeals, Closing, LongAge
<1>2. Init => RipeInv
  BY DEF Init, RipeInv, Checking
<1>3. TypeInv /\ PhantomInv /\ RipeInv /\ [Next]_vars => PhantomInv' /\ RipeInv'
  BY PhantomStep, RipeStep
<1> QED
  BY <1>1, <1>2, <1>3, TypeInvariant, PTL DEF Spec

(* A trade in the closed file has an exit deal at the broker: the position *)
(* is closed or was closed in part, however late it is listed, whatever is *)
(* asked without answer, read, written or restarted (check_closed_trades,  *)
(* reconcile_open_trades).                                                 *)
THEOREM ClosedTradesHaveDeals == Spec => []ClosedHaveDeals
<1>1. PhantomInv => ClosedHaveDeals
  BY DEF PhantomInv
<1> QED
  BY <1>1, PhantomAlways, PTL

(* What the broker takes back: nothing. *)
LEMMA BrokerSteps ==
  ASSUME TypeInv, [Next]_vars
  PROVE  /\ partial \subseteq partial'
         /\ partial' = partial \/ PartialCloses
         /\ \A t \in Ticket : position[t] = "closed" => position'[t] = "closed"
<1>1. CASE Broker \/ UNCHANGED vars
  BY <1>1 DEF Broker, Fill, List, ClosePart, ClosePosition, Listed, vars, broker,
              TypeInv, TypeOK
<1>2. ASSUME NEW p \in Proc,
             \/ \E ts \in SUBSET Ticket : StartSnapshot(p, ts)
             \/ StartCheck(p) \/ StartReconcile(p) \/ StartSync(p) \/ Restart(p)
             \/ \E t \in Ticket : UpdatePolicy(p, t) \/ Age(p, t)
      PROVE  UNCHANGED <<partial, position>>
  BY <1>2 DEF StartSnapshot, StartCheck, StartReconcile, StartSync, UpdatePolicy,
              Restart, Age, broker
<1>3. ASSUME NEW p \in Proc,
             \/ SkipSnapshot(p) \/ MergeSnapshot(p) \/ WriteSnapshot(p)
             \/ FailSnapshot(p) \/ ScanTicket(p) \/ ScanDone(p)
             \/ CloseRead(p) \/ CloseAppend(p) \/ CloseWrite(p) \/ CloseFails(p)
             \/ FinishOverwrite(p) \/ OverwriteFails(p)
      PROVE  UNCHANGED <<partial, position>>
  BY <1>3 DEF SkipSnapshot, MergeSnapshot, WriteSnapshot, FailSnapshot, ScanTicket,
              ScanDone, CloseRead, CloseAppend, CloseWrite, CloseFails,
              FinishOverwrite, OverwriteFails, broker
<1>4. ASSUME NEW p \in Proc,
             \/ UpsertOpen(p) \/ SyncRead(p) \/ SyncOpen(p) \/ SyncClosed(p)
             \/ SyncMeta(p) \/ SyncFails(p) \/ LoadActive(p)
      PROVE  UNCHANGED <<partial, position>>
  BY <1>4 DEF UpsertOpen, SyncRead, SyncOpen, SyncClosed, SyncMeta, SyncFails,
              LoadActive, broker
<1> QED
  BY <1>1, <1>2, <1>3, <1>4 DEF Next, Continue

(* Without partial closes the closed file holds only trades the broker has *)
(* closed (check_closed_trades).                                           *)
THEOREM ClosedAreClosed ==
  ASSUME ~PartialCloses
  PROVE  Spec => []NoPhantomClose
<1> DEFINE InWhole == partial = {}
<1>1. Init => InWhole
  BY DEF Init
<1>2. TypeInv /\ InWhole /\ [Next]_vars => InWhole'
  BY BrokerSteps
<1>3. InWhole /\ ClosedHaveDeals => NoPhantomClose
  BY DEF ClosedHaveDeals, HasExitDeal, NoPhantomClose
<1> HIDE DEF InWhole
<1> QED
  BY <1>1, <1>2, <1>3, ClosedTradesHaveDeals, TypeInvariant, PTL DEF Spec

-----------------------------------------------------------------------------
(* The mirror. A sync no file change has overtaken holds the files in its  *)
(* copies, and in the tables once it has written them; a writer that       *)
(* upserts its rows has just written them to the open file. A file that is *)
(* being overwritten counts as changed once it is whole again, or cut off. *)
SyncPlace == {"syncRead", "syncOpen", "syncClosed", "syncMeta"}

SyncView(p) ==
  /\ ~OpenTorn => df[p] = openCsv
  /\ pc[p] # "syncRead" /\ ~ClosedTorn => copy[p] = closedCsv
  /\ pc[p] \in {"syncClosed", "syncMeta"} /\ ~OpenTorn => openTable = openCsv
  /\ pc[p] = "syncMeta" /\ ~ClosedTorn => closedTable = closedCsv

MirrorInv ==
  /\ synced /\ ~OpenTorn => openTable = openCsv
  /\ synced /\ ~ClosedTorn => closedTable = closedCsv
  /\ \A p \in Proc :
        /\ pc[p] \in WriterPlace => p \in Writer
        /\ pc[p] \in SyncPlace => p \in Syncer \/ restarts > 0
        /\ pc[p] \in {"openOver", "openUpsert"} => df[p] = openCsv
        /\ pc[p] \in SyncPlace /\ synced => ~stale[p]
        /\ pc[p] \in SyncPlace /\ ~stale[p] => SyncView(p)

(* A step that neither starts nor ends an overwrite.                       *)
LEMMA SameTorn ==
  ASSUME \A p \in Proc : pc[p] \in Overwriting \/ pc'[p] \in Overwriting
            => pc'[p] = pc[p]
  PROVE  (OpenTorn' <=> OpenTorn) /\ (ClosedTorn' <=> ClosedTorn)
<1>1. \A p \in Proc : /\ pc'[p] = "openOver" <=> pc[p] = "openOver"
                      /\ pc'[p] = "closedOver" <=> pc[p] = "closedOver"
  BY DEF Overwriting
<1> QED
  BY <1>1 DEF OpenTorn, ClosedTorn, Proc

(* A step that leaves the files, the tables and every sync alone.          *)
LEMMA SameMirror ==
  ASSUME MirrorInv, UNCHANGED <<disk, stale, restarts>>,
         \A p \in Proc :
            /\ pc'[p] \in WriterPlace => p \in Writer
            /\ pc'[p] \in SyncPlace \cup {"openUpsert"}
                 => pc'[p] = pc[p] /\ df'[p] = df[p] /\ copy'[p] = copy[p]
            /\ pc[p] \in Overwriting \/ pc'[p] \in Overwriting
                 => pc'[p] = pc[p] /\ df'[p] = df[p]
  PROVE  MirrorInv'
<1>1. (OpenTorn' <=> OpenTorn) /\ (ClosedTorn' <=> ClosedTorn)
  BY SameTorn
<1>2. UNCHANGED <<openCsv, closedCsv, openTable, closedTable, synced>>
  BY DEF disk
<1>3. ASSUME NEW p \in Proc, pc'[p] \in SyncPlace, SyncView(p) PROVE SyncView(p)'
  BY <1>1, <1>2, <1>3 DEF SyncView
<1>4. ASSUME NEW p \in Proc
      PROVE  /\ pc'[p] \in SyncPlace => p \in Syncer \/ restarts' > 0
             /\ pc'[p] \in {"openOver", "openUpsert"} => df'[p] = openCsv'
             /\ pc'[p] \in SyncPlace /\ synced' => ~stale'[p]
             /\ pc'[p] \in SyncPlace /\ ~stale'[p] => SyncView(p)
  BY <1>2 DEF MirrorInv, Overwriting
<1> QED
  BY <1>1, <1>2, <1>3, <1>4 DEF MirrorInv

(* No two syncs overlap. *)
LEMMA OneSync ==
  ASSUME MirrorInv, ~SyncsOverlap, TypeInv,
         \A p, q \in Writer : p = q, \A p, q \in Syncer : p = q,
         NEW p \in Proc, NEW q \in Proc, pc[p] \in SyncPlace,
         pc[q] \in SyncPlace \/ restarts > 0
  PROVE  p = q
<1>1. restarts \in Nat
  BY DEF TypeInv, TypeOK
<1>2. CASE restarts > 0
  BY <1>2 DEF SyncsOverlap, Proc
<1>3. CASE ~(restarts > 0)
  BY <1>3 DEF MirrorInv
<1> QED
  BY <1>2, <1>3

LEMMA RestartsGrow ==
  ASSUME TypeInv, [Next]_vars
  PROVE  restarts' >= restarts
<1> USE DEF bounds
<1>0. restarts \in Nat
  BY DEF TypeInv, TypeOK
<1>1. CASE Broker \/ UNCHANGED vars \/ \E p \in Proc : Restart(p)
  BY <1>0, <1>1 DEF Broker, Fill, List, ClosePart, ClosePosition, vars, Restart
<1>2. ASSUME NEW p \in Proc,
             \/ \E ts \in SUBSET Ticket : StartSnapshot(p, ts)
             \/ StartCheck(p) \/ StartReconcile(p) \/ StartSync(p)
             \/ \E t \in Ticket : UpdatePolicy(p, t) \/ Age(p, t)
      PROVE  restarts' = restarts
  BY <1>2 DEF StartSnapshot, StartCheck, StartReconcile, StartSync, UpdatePolicy,
              Age
<1>3. ASSUME NEW p \in Proc,
             \/ SkipSnapshot(p) \/ MergeSnapshot(p) \/ WriteSnapshot(p)
             \/ FailSnapshot(p) \/ ScanTicket(p) \/ ScanDone(p)
             \/ CloseRead(p) \/ CloseAppend(p) \/ CloseWrite(p) \/ CloseFails(p)
             \/ FinishOverwrite(p) \/ OverwriteFails(p)
      PROVE  restarts' = restarts
  BY <1>3 DEF SkipSnapshot, MergeSnapshot, WriteSnapshot, FailSnapshot,
              ScanTicket, ScanDone, CloseRead, CloseAppend, CloseWrite, CloseFails,
              FinishOverwrite, OverwriteFails
<1>4. ASSUME NEW p \in Proc,
             \/ UpsertOpen(p) \/ SyncRead(p) \/ SyncOpen(p) \/ SyncClosed(p)
             \/ SyncMeta(p) \/ SyncFails(p) \/ LoadActive(p)
      PROVE  restarts' = restarts
  BY <1>4 DEF UpsertOpen, SyncRead, SyncOpen, SyncClosed, SyncMeta, SyncFails,
              LoadActive
<1> QED
  BY <1>0, <1>1, <1>2, <1>3, <1>4 DEF Next, Continue

LEMMA MirrorStep ==
  ASSUME TypeInv, MirrorInv, [Next]_vars, ~SyncsOverlap, ~SyncsOverlap',
         \A p, q \in Writer : p = q, \A p, q \in Syncer : p = q
  PROVE  MirrorInv'
<1> USE DEF TypeInv, TypeOK, broker, memory, bounds
<1>1. CASE Broker \/ UNCHANGED vars
  <2>1. UNCHANGED <<disk, stale, restarts, pc, df, copy>>
    BY <1>1 DEF Broker, Fill, List, ClosePart, ClosePosition, vars, local
  <2> QED
    BY <2>1, SameMirror DEF MirrorInv
<1>2. ASSUME NEW p \in Proc,
             \/ \E ts \in SUBSET Ticket : StartSnapshot(p, ts)
             \/ StartCheck(p) \/ StartReconcile(p)
             \/ \E t \in Ticket : UpdatePolicy(p, t) \/ Age(p, t)
      PROVE  MirrorInv'
  BY <1>2, SameMirror
     DEF StartSnapshot, StartCheck, StartReconcile, UpdatePolicy, Age, local,
         Goto, MirrorInv, WriterPlace, Copying, SyncPlace, Overwriting
<1>3. ASSUME NEW p \in Proc, Finish(p), pc[p] \notin Overwriting,
             UNCHANGED <<disk, stale, restarts>>
      PROVE  MirrorInv'
  BY <1>3, SameMirror
     DEF Finish, MirrorInv, WriterPlace, Copying, SyncPlace, Overwriting
<1>4. ASSUME NEW p \in Proc, NEW ok \in BOOLEAN, CloseEnds(p, ok),
             pc[p] \in WriterPlace \ Overwriting, UNCHANGED <<disk, stale, restarts>>
      PROVE  MirrorInv'
  BY <1>4, SameMirror
     DEF CloseEnds, Goto, MirrorInv, WriterPlace, Copying, SyncPlace, Overwriting
<1>5. ASSUME NEW p \in Proc, NEW place \in {"snapWrite", "closeAppend"},
             Goto(p, place), pc[p] \in WriterPlace \ Overwriting, copy' = copy,
             \A q \in Proc : q # p => df'[q] = df[q],
             UNCHANGED <<disk, stale, restarts>>
      PROVE  MirrorInv'
  BY <1>5, SameMirror
     DEF Goto, MirrorInv, WriterPlace, Copying, SyncPlace, Overwriting
<1>6. ASSUME NEW p \in Proc, MergeSnapshot(p)
      PROVE  MirrorInv'
  <2>1. /\ pc[p] \in WriterPlace \ Overwriting
        /\ UNCHANGED <<disk, stale, restarts>>
    BY <1>6 DEF MergeSnapshot, WriterPlace, Overwriting
  <2>2. \/ Finish(p)
        \/ /\ Goto(p, "snapWrite") /\ copy' = copy
           /\ \A q \in Proc : q # p => df'[q] = df[q]
    BY <1>6 DEF MergeSnapshot
  <2> QED
    BY <1>3, <1>5, <2>1, <2>2
<1>7. ASSUME NEW p \in Proc,
             SkipSnapshot(p) \/ FailSnapshot(p) \/ ScanDone(p) \/ LoadActive(p)
      PROVE  MirrorInv'
  BY <1>3, <1>7 DEF SkipSnapshot, FailSnapshot, ScanDone, LoadActive, Overwriting
<1>8. ASSUME NEW p \in Proc, ScanTicket(p)
      PROVE  MirrorInv'
  <2>1. /\ UNCHANGED <<disk, df, copy, stale, restarts>> /\ pc[p] = "scan"
        /\ pc' = pc \/ pc' = [pc EXCEPT ![p] = "closeRead"]
    BY <1>8 DEF ScanTicket, StillOpen, CloseWithDeal, LeaveOpen, WaitForDeal,
                ForceClose, Goto
  <2> QED
    BY <2>1, SameMirror DEF MirrorInv, WriterPlace, Copying, SyncPlace, Overwriting
<1>9. ASSUME NEW p \in Proc, CloseRead(p) \/ CloseFails(p)
      PROVE  MirrorInv'
  <2>1. /\ pc[p] \in WriterPlace \ Overwriting
        /\ UNCHANGED <<disk, stale, restarts>>
    BY <1>9 DEF CloseRead, CloseFails, WriterPlace, Copying, Overwriting
  <2>2. \/ CloseEnds(p, FALSE)
        \/ /\ Goto(p, "closeAppend") /\ copy' = copy
           /\ \A q \in Proc : q # p => df'[q] = df[q]
    BY <1>9 DEF CloseRead, CloseFails
  <2> QED
    BY <1>4, <1>5, <2>1, <2>2
<1>10. ASSUME NEW p \in Proc,
              \/ WriteSnapshot(p) \/ CloseWrite(p) \/ CloseAppend(p)
              \/ FinishOverwrite(p) \/ OverwriteFails(p)
       PROVE  MirrorInv'
  <2>1. /\ synced' = FALSE /\ stale' = [q \in Proc |-> TRUE] /\ restarts' = restarts
        /\ pc[p] \in WriterPlace
    BY <1>10 DEF WriteSnapshot, CloseWrite, CloseAppend, FinishOverwrite,
                 OverwriteFails, OpenWritten, Touched, WriterPlace, Copying
  <2>2. p \in Writer /\ \A q \in Proc : q # p => pc[q] \notin WriterPlace
    <3>1. p \in Writer
      BY <2>1 DEF MirrorInv
    <3>2. ASSUME NEW q \in Proc, q # p, pc[q] \in WriterPlace PROVE FALSE
      BY <3>1, <3>2 DEF MirrorInv
    <3> QED
      BY <3>1, <3>2
  <2>3. /\ \A q \in Proc : q # p => pc'[q] = pc[q]
        /\ pc'[p] \notin SyncPlace
        /\ pc'[p] \in {"openOver", "openUpsert"} => df'[p] = openCsv'
    <3>1. CASE WriteSnapshot(p) \/ CloseWrite(p)
      BY <3>1 DEF WriteSnapshot, CloseWrite, OpenWritten, Goto, SyncPlace
    <3>2. CASE CloseAppend(p)
      BY <3>2 DEF CloseAppend, Goto, SyncPlace
    <3>3. CASE FinishOverwrite(p)
      BY <3>3 DEF FinishOverwrite, Goto, SyncPlace, MirrorInv
    <3>4. CASE OverwriteFails(p)
      <4>1. \/ pc' = [pc EXCEPT ![p] = "idle"]
            \/ pc' = [pc EXCEPT ![p] = "scan"]
        BY <3>4 DEF OverwriteFails, Finish, CloseEnds, Goto
      <4> QED
        BY <4>1 DEF SyncPlace
    <3> QED
      BY <1>10, <3>1, <3>2, <3>3, <3>4
  <2>4. ASSUME NEW q \in Proc
        PROVE  /\ pc'[q] \in WriterPlace => q \in Writer
               /\ pc'[q] \in SyncPlace => q \in Syncer \/ restarts' > 0
               /\ pc'[q] \in {"openOver", "openUpsert"} => df'[q] = openCsv'
               /\ stale'[q] /\ ~synced'
    <3>1. CASE q = p
      BY <2>1, <2>2, <2>3, <3>1
    <3>2. CASE q # p
      <4>1. pc'[q] \notin WriterPlace
        BY <2>2, <2>3, <3>2
      <4> QED
        BY <2>1, <2>3, <3>2, <4>1 DEF MirrorInv, WriterPlace
    <3> QED
      BY <3>1, <3>2
  <2> QED
    BY <2>4, <2>1 DEF MirrorInv
<1>12. ASSUME NEW p \in Proc, UpsertOpen(p)
       PROVE  MirrorInv'
  <2>1. /\ openTable' = openTable \cup openCsv \/ openTable' = openTable
        /\ UNCHANGED <<openCsv, closedCsv, closedTable, synced, stale, restarts>>
        /\ pc[p] = "openUpsert"
    BY <1>12 DEF UpsertOpen, MirrorInv
  <2>2. \/ pc' = [pc EXCEPT ![p] = "idle"]
        \/ pc' = [pc EXCEPT ![p] = "scan"]
    BY <1>12 DEF UpsertOpen, Finish, CloseEnds, Goto
  <2>3. \A q \in Proc : q # p =>
           /\ pc'[q] = pc[q] /\ df'[q] = df[q] /\ copy'[q] = copy[q]
    BY <1>12, <2>2 DEF UpsertOpen, Finish, CloseEnds
  <2>4. openTable = openCsv => openTable' = openCsv
    BY <2>1
  <2>8. (OpenTorn' <=> OpenTorn) /\ (ClosedTorn' <=> ClosedTorn)
    BY <2>1, <2>2, SameTorn DEF Overwriting
  <2>5. \A q \in Proc : SyncView(q) /\ q # p => SyncView(q)'
    <3> SUFFICES ASSUME NEW q \in Proc, SyncView(q), q # p PROVE SyncView(q)'
      OBVIOUS
    <3> QED
      BY <2>1, <2>3, <2>4, <2>8 DEF SyncView
  <2>6. pc'[p] \in {"idle", "scan"} /\ p \in Writer
    BY <2>1, <2>2 DEF MirrorInv, WriterPlace
  <2>7. /\ synced' /\ ~OpenTorn' => openTable' = openCsv'
        /\ synced' /\ ~ClosedTorn' => closedTable' = closedCsv'
    BY <2>1, <2>4, <2>8 DEF MirrorInv
  <2> QED
    BY <2>1, <2>3, <2>5, <2>6, <2>7 DEF MirrorInv, WriterPlace, Copying, SyncPlace
<1>13. ASSUME NEW p \in Proc, StartSync(p)
       PROVE  MirrorInv'
  <2>0. PICK rows \in VisibleOpen : df' = [df EXCEPT ![p] = rows]
    BY <1>13 DEF StartSync
  <2>1. /\ ~synced /\ p \in Syncer /\ pc[p] = "idle"
        /\ pc' = [pc EXCEPT ![p] = "syncRead"]
        /\ stale' = [stale EXCEPT ![p] = FALSE]
        /\ UNCHANGED <<disk, copy, restarts>>
    BY <1>13 DEF StartSync, Goto
  <2>4. (OpenTorn' <=> OpenTorn) /\ (ClosedTorn' <=> ClosedTorn)
    BY <2>1, SameTorn DEF Overwriting
  <2>2. \A q \in Proc : q # p /\ SyncView(q) => SyncView(q)'
    BY <2>0, <2>1, <2>4 DEF SyncView, disk
  <2>3. SyncView(p)'
    BY <2>0, <2>1, <2>4 DEF SyncView, VisibleOpen, disk
  <2>5. /\ p \in Syncer /\ pc'[p] = "syncRead"
        /\ \A q \in Proc : q # p => /\ pc'[q] = pc[q] /\ df'[q] = df[q]
                                    /\ stale'[q] = stale[q]
        /\ UNCHANGED <<openCsv, closedCsv, openTable, closedTable, synced, restarts>>
    BY <2>0, <2>1 DEF disk
  <2> QED
    BY <2>1, <2>2, <2>3, <2>4, <2>5 DEF MirrorInv, WriterPlace, Copying, SyncPlace
<1>14. ASSUME NEW p \in Proc, Restart(p)
       PROVE  MirrorInv'
  <2>1. /\ pc' = [pc EXCEPT ![p] = "syncRead"] /\ restarts' = restarts + 1
        /\ UNCHANGED <<openTable, closedTable>>
    BY <1>14 DEF Restart, Goto
  <2>2. \A q \in Proc : q = p
    BY <2>1 DEF SyncsOverlap, Proc
  <2>3. ~OpenTorn' /\ ~ClosedTorn'
    BY <2>1, <2>2 DEF OpenTorn, ClosedTorn
  <2>4. PICK rows \in VisibleOpen' : df' = [df EXCEPT ![p] = rows]
    BY <1>14 DEF Restart
  <2>5. df'[p] = openCsv'
    BY <2>3, <2>4 DEF VisibleOpen
  <2>6. ~stale'[p]
    BY <1>14 DEF Restart
  <2>7. synced' => openTable' = openCsv' /\ closedTable' = closedCsv'
    <3>1. CASE pc[p] \in Overwriting
      BY <1>14, <3>1 DEF Restart, Overwriting
    <3>2. CASE pc[p] \notin Overwriting
      <4>1. ~OpenTorn /\ ~ClosedTorn
        BY <2>2, <3>2 DEF OpenTorn, ClosedTorn, Overwriting
      <4>2. UNCHANGED <<openCsv, closedCsv, synced>>
        BY <1>14, <3>2 DEF Restart, Overwriting
      <4> QED
        BY <2>1, <4>1, <4>2 DEF MirrorInv
    <3> QED
      BY <3>1, <3>2
  <2>8. SyncView(p)' /\ pc'[p] = "syncRead" /\ restarts' > 0
    BY <2>1, <2>5 DEF SyncView
  <2> QED
    BY <2>2, <2>6, <2>7, <2>8 DEF MirrorInv, WriterPlace, Copying, SyncPlace
<1>15. ASSUME NEW p \in Proc,
              SyncRead(p) \/ SyncOpen(p) \/ SyncClosed(p) \/ SyncMeta(p)
       PROVE  MirrorInv'
  <2>1. pc[p] \in SyncPlace /\ UNCHANGED <<openCsv, closedCsv, stale, restarts>>
    BY <1>15 DEF SyncRead, SyncOpen, SyncClosed, SyncMeta, SyncPlace, disk
  <2>2. \A q \in Proc : pc[q] \in SyncPlace => q = p
    BY <2>1, OneSync
  <2>7. /\ \A q \in Proc : q # p => pc'[q] = pc[q]
        /\ pc'[p] \in SyncPlace \cup {"idle", "load"}
    BY <1>15 DEF SyncRead, SyncOpen, SyncClosed, SyncMeta, Finish, Goto, SyncPlace
  <2>8. (OpenTorn' <=> OpenTorn) /\ (ClosedTorn' <=> ClosedTorn)
    BY <2>1, <2>7, SameTorn DEF Overwriting, SyncPlace
  <2>3. CASE SyncRead(p)
    <3>1. PICK rows \in VisibleClosed : copy' = [copy EXCEPT ![p] = rows]
      BY <2>3 DEF SyncRead
    <3>2. ~ClosedTorn => copy'[p] = closedCsv
      BY <3>1 DEF VisibleClosed
    <3> QED
      BY <2>1, <2>2, <2>3, <2>8, <3>2
         DEF SyncRead, MirrorInv, SyncView, Goto, WriterPlace, Copying, SyncPlace,
             disk
  <2>4. CASE SyncOpen(p)
    BY <2>1, <2>2, <2>4, <2>8
       DEF SyncOpen, MirrorInv, SyncView, Goto, WriterPlace, Copying, SyncPlace
  <2>5. CASE SyncClosed(p)
    BY <2>1, <2>2, <2>5, <2>8
       DEF SyncClosed, MirrorInv, SyncView, Goto, WriterPlace, Copying, SyncPlace
  <2>6. CASE SyncMeta(p)
    <3>1. /\ synced' = ~stale[p] /\ pc[p] = "syncMeta"
          /\ UNCHANGED <<openTable, closedTable>>
      BY <2>6 DEF SyncMeta
    <3>2. \/ pc' = [pc EXCEPT ![p] = "idle"]
          \/ pc' = [pc EXCEPT ![p] = "load"]
      BY <2>6 DEF SyncMeta, Finish, Goto
    <3>3. \A q \in Proc : q # p => df'[q] = df[q]
      BY <2>6 DEF SyncMeta, Finish
    <3>4. \A q \in Proc : pc'[q] \notin SyncPlace
      BY <2>2, <3>2 DEF SyncPlace
    <3> QED
      BY <2>1, <2>8, <3>1, <3>2, <3>3, <3>4
         DEF MirrorInv, SyncView, WriterPlace, Copying, SyncPlace
  <2> QED
    BY <1>15, <2>3, <2>4, <2>5, <2>6
<1>16. ASSUME NEW p \in Proc, SyncFails(p)
       PROVE  MirrorInv'
  <2>1. CASE Goto(p, "load") /\ UNCHANGED <<df, copy>>
    BY <1>16, <2>1, SameMirror
       DEF SyncFails, Goto, MirrorInv, WriterPlace, Copying, SyncPlace, Overwriting
  <2> QED
    BY <1>3, <1>16, <2>1 DEF SyncFails, Overwriting
<1> QED
  BY <1>1, <1>2, <1>6, <1>7, <1>8, <1>9, <1>10, <1>12, <1>13, <1>14, <1>15,
     <1>16 DEF Next, Continue

(* With one writing and at most one syncing process, tables that are       *)
(* marked as synced are the files, whatever write fails and whenever a     *)
(* process dies, as long as no two syncs overlap (sync_from_csv and the    *)
(* upserts outside the file lock).                                         *)
THEOREM MirrorIsCurrent ==
  ASSUME \A p, q \in Writer : p = q, \A p, q \in Syncer : p = q
  PROVE  Spec => []MirrorAgrees
<1> DEFINE IInv == SyncsOverlap \/ MirrorInv
<1>1. Init => IInv
  BY DEF Init, MirrorInv, WriterPlace, Copying, SyncPlace
<1>2. TypeInv /\ IInv /\ [Next]_vars => IInv'
  <2> SUFFICES ASSUME TypeInv, IInv, [Next]_vars, ~SyncsOverlap'
               PROVE  MirrorInv'
    OBVIOUS
  <2>1. restarts' >= restarts /\ restarts \in Nat /\ restarts' \in Nat
    BY RestartsGrow, TypeStep DEF TypeInv, TypeOK
  <2>2. ~SyncsOverlap
    BY <2>1 DEF SyncsOverlap
  <2> QED
    BY <2>2, MirrorStep
<1>3. IInv => MirrorAgrees
  BY DEF MirrorAgrees, MirrorInv, OpenTorn, ClosedTorn
<1> QED
  BY <1>1, <1>2, <1>3, TypeInvariant, PTL DEF Spec

-----------------------------------------------------------------------------
(* Open rows are watched: outside its start, a writer knows every row of   *)
(* the open file and every row of the copy it is about to write; when it   *)
(* drops a ticket from its memory, the row is gone, or the write that      *)
(* failed was of a trade with an exit deal.                                *)
Logging == {"snapshot", "policy"}

Dropped == {t \in Ticket : WriteMayFail /\ HasExitDeal(t)}

WatchedInv ==
  \A p \in Writer :
     /\ op[p] = "boot" => pc[p] \in SyncPlace \cup {"load"}
     /\ op[p] # "boot" => openCsv \subseteq active[p] \cup Dropped
     /\ op[p] # "boot" /\ pc[p] \in Copying => df[p] \subseteq active[p] \cup Dropped
     /\ pc[p] \in {"snapshot", "snapWrite"} => op[p] \in Logging
     /\ pc[p] \in {"openOver", "openUpsert"} /\ op[p] \notin Logging
          => closing[p].ticket \notin openCsv

LEMMA SameWatch ==
  ASSUME WatchedInv, openCsv' \subseteq openCsv, Dropped \subseteq Dropped',
         \A p \in Writer :
            /\ op'[p] = "boot" => op[p] = "boot" /\ pc'[p] \in SyncPlace \cup {"load"}
            /\ op'[p] # "boot" => op[p] # "boot" /\ active[p] \subseteq active'[p]
            /\ pc'[p] \in Copying => \/ df'[p] \subseteq openCsv
                                     \/ (pc'[p] \in Copying /\ pc[p] \in Copying
                                           /\ df'[p] = df[p])
            /\ pc'[p] \in {"snapshot", "snapWrite"} =>
                 (pc'[p] = pc[p] /\ op'[p] = op[p]) \/ op'[p] \in Logging
            /\ pc'[p] \in {"openOver", "openUpsert"} =>
                 /\ pc[p] \in {"openOver", "openUpsert"} /\ op'[p] = op[p]
                 /\ closing'[p] = closing[p]
  PROVE  WatchedInv'
BY DEF WatchedInv

LEMMA WatchedStep ==
  ASSUME TypeInv, KeepInv, PhantomInv, WatchedInv, [Next]_vars,
         ~ReadMayFail, \A p, q \in Writer : p = q
  PROVE  WatchedInv'
<1> USE DEF TypeInv, TypeOK, broker, disk, lost, memory, bounds
<1>0. ASSUME NEW p \in Writer, pc[p] # "openOver" PROVE ReadOpen = {openCsv}
  BY <1>0, WholeRows
<1>d. Dropped \subseteq Dropped'
  BY BrokerSteps DEF Dropped, HasExitDeal
<1> DEFINE Places == SyncPlace \cup {"load"}
<1>1. CASE Broker \/ UNCHANGED vars
  BY <1>1, SameWatch, <1>d
     DEF Broker, Fill, List, ClosePart, ClosePosition, vars, local, WatchedInv
<1>2. ASSUME NEW p \in Proc,
             \/ \E ts \in SUBSET Ticket : StartSnapshot(p, ts)
             \/ StartCheck(p) \/ StartReconcile(p) \/ StartSync(p)
             \/ \E t \in Ticket : UpdatePolicy(p, t)
      PROVE  WatchedInv'
  <2>1. /\ UNCHANGED <<openCsv, active, closing>> /\ pc[p] = "idle"
        /\ \A q \in Proc : q # p => /\ pc'[q] = pc[q] /\ op'[q] = op[q]
                                    /\ df'[q] = df[q]
    BY <1>2 DEF StartSnapshot, StartCheck, StartReconcile, StartSync, UpdatePolicy,
                Goto
  <2>2. \/ pc'[p] \in {"scan", "syncRead"} /\ op'[p] \in {"check", "reconcile", "sync"}
        \/ pc'[p] = "snapshot" /\ op'[p] \in Logging
        \/ pc'[p] = "snapWrite" /\ op'[p] \in Logging /\ df'[p] = openCsv
    <3>1. CASE \E t \in Ticket : UpdatePolicy(p, t)
      <4>1. ReadOpen = {openCsv}
        BY <1>0, <2>1, <3>1 DEF UpdatePolicy
      <4> QED
        BY <3>1, <4>1 DEF UpdatePolicy, Goto, Logging
    <3>2. CASE \/ \E ts \in SUBSET Ticket : StartSnapshot(p, ts)
               \/ StartCheck(p) \/ StartReconcile(p) \/ StartSync(p)
      BY <3>2 DEF StartSnapshot, StartCheck, StartReconcile, StartSync, Goto, Logging
    <3> QED
      BY <1>2, <3>1, <3>2
  <2>3. op'[p] # "boot" /\ (p \in Writer => op[p] # "boot")
    BY <1>d, <2>1, <2>2 DEF WatchedInv, SyncPlace, Logging
  <2> QED
    BY <2>1, <2>2, <2>3, SameWatch, <1>d DEF WatchedInv, Copying, Proc
<1>3. ASSUME NEW p \in Proc, NEW t \in Ticket, Age(p, t)
      PROVE  WatchedInv'
  BY <1>3, SameWatch, <1>d DEF Age, local, WatchedInv
<1>4. ASSUME NEW p \in Proc, Finish(p), openCsv' \subseteq openCsv, active' = active,
             op[p] # "boot"
      PROVE  WatchedInv'
  BY <1>4, SameWatch, <1>d DEF Finish, WatchedInv, Copying
<1>5. ASSUME NEW p \in Proc,
             SkipSnapshot(p) \/ ScanDone(p)
      PROVE  WatchedInv'
  <2>1. p \in Writer /\ op[p] # "boot"
    BY <1>d, <1>5 DEF SkipSnapshot, ScanDone, KeepInv, WriterPlace, WatchedInv, SyncPlace
  <2> QED
    BY <1>4, <1>5, <2>1 DEF SkipSnapshot, ScanDone
<1>6. ASSUME NEW p \in Proc, MergeSnapshot(p)
      PROVE  WatchedInv'
  <2>2. /\ openCsv' = openCsv /\ pc[p] = "snapshot" /\ p \in Writer
        /\ op[p] # "boot"
    BY <1>d, <1>6 DEF MergeSnapshot, KeepInv, WriterPlace, WatchedInv, SyncPlace
  <2>5. ReadOpen = {openCsv}
    BY <1>0, <2>2
  <2>1. PICK changed \in SUBSET (todo[p] \cap openCsv) :
          LET touched == (todo[p] \ openCsv) \cup changed IN
          /\ active' = [active EXCEPT ![p] = @ \cup touched]
          /\ \/ Finish(p)
             \/ /\ Goto(p, "snapWrite")
                /\ df' = [df EXCEPT ![p] = openCsv \cup todo[p]]
                /\ UNCHANGED <<op, todo, closing, copy>>
    BY <1>6, <2>5 DEF MergeSnapshot
  <2>3. CASE Finish(p)
    BY <2>1, <2>2, <2>3, SameWatch, <1>d DEF Finish, WatchedInv, Copying
  <2>4. CASE /\ Goto(p, "snapWrite")
             /\ df' = [df EXCEPT ![p] = openCsv \cup todo[p]]
             /\ UNCHANGED <<op, todo, closing, copy>>
    BY <1>d, <2>1, <2>2, <2>4 DEF Goto, WatchedInv, Copying
  <2> QED
    BY <2>1, <2>3, <2>4
<1>7. ASSUME NEW p \in Proc, WriteSnapshot(p)
      PROVE  WatchedInv'
  <2>1. /\ pc[p] = "snapWrite" /\ pc'[p] \in {"openOver", "openUpsert"}
        /\ \A q \in Proc : q # p => pc'[q] = pc[q]
        /\ openCsv' = df[p] /\ UNCHANGED <<active, op, df, closing>>
    BY <1>7 DEF WriteSnapshot, OpenWritten, Goto
  <2>2. p \in Writer /\ op[p] # "boot"
    BY <1>d, <2>1 DEF KeepInv, WriterPlace, Copying, WatchedInv, SyncPlace
  <2>3. op[p] \in Logging
    BY <1>d, <2>1, <2>2 DEF WatchedInv
  <2> QED
    BY <1>d, <2>1, <2>2, <2>3 DEF WatchedInv, Copying, Proc
<1>8. ASSUME NEW p \in Proc, ScanTicket(p)
      PROVE  WatchedInv'
  <2>1. /\ UNCHANGED <<openCsv, df, op, active>> /\ pc[p] = "scan"
        /\ pc' = pc \/ pc' = [pc EXCEPT ![p] = "closeRead"]
        /\ \A q \in Proc : q # p => closing'[q] = closing[q]
    BY <1>8 DEF ScanTicket, StillOpen, CloseWithDeal, LeaveOpen, WaitForDeal,
                ForceClose, Goto
  <2>2. pc'[p] \in {"scan", "closeRead"} /\ (p \in Writer => op[p] # "boot")
    BY <1>d, <2>1 DEF WatchedInv, SyncPlace
  <2>3. \A q \in Proc : q # p => pc'[q] = pc[q]
    BY <2>1
  <2> QED
    BY <2>1, <2>2, <2>3, SameWatch, <1>d DEF WatchedInv, Copying, Proc
<1>9. ASSUME NEW p \in Proc, NEW ok \in BOOLEAN, CloseEnds(p, ok), op[p] # "boot",
             closing[p].ticket \notin openCsv \ Dropped, openCsv' \subseteq openCsv,
             p \in Writer
      PROVE  WatchedInv'
  <2>1. /\ pc' = [pc EXCEPT ![p] = "scan"] /\ op' = op
        /\ \A q \in Proc : q # p => /\ active'[q] = active[q] /\ df'[q] = df[q]
                                    /\ closing'[q] = closing[q]
        /\ active[p] \ {closing[p].ticket} \subseteq active'[p]
    BY <1>9 DEF CloseEnds, Goto
  <2> QED
    BY <1>d, <1>9, <2>1 DEF WatchedInv, Copying, SyncPlace
<1>10. ASSUME NEW p \in Proc, CloseRead(p)
       PROVE  WatchedInv'
  <2>1. pc[p] = "closeRead" /\ openCsv' = openCsv
    BY <1>10 DEF CloseRead
  <2>2. p \in Writer /\ op[p] # "boot"
    BY <1>d, <2>1 DEF KeepInv, WriterPlace, WatchedInv, SyncPlace
  <2>3. CASE closing[p].ticket \notin openCsv /\ CloseEnds(p, FALSE)
    BY <1>9, <2>1, <2>2, <2>3
  <2>4. CASE /\ df' = [df EXCEPT ![p] = openCsv] /\ Goto(p, "closeAppend")
             /\ UNCHANGED <<memory, op, closing>>
    BY <2>1, <2>2, <2>4, SameWatch, <1>d DEF Goto, WatchedInv, Copying
  <2>5. ReadOpen = {openCsv}
    BY <1>0, <2>1, <2>2
  <2> QED
    BY <1>10, <2>3, <2>4, <2>5 DEF CloseRead
<1>11. ASSUME NEW p \in Proc, CloseAppend(p)
       PROVE  WatchedInv'
  <2>1. /\ pc[p] = "closeAppend" /\ pc'[p] \in {"closeWrite", "closedOver"}
        /\ \A q \in Proc : q # p => pc'[q] = pc[q]
        /\ UNCHANGED <<openCsv, active, op, df, closing>>
    BY <1>11 DEF CloseAppend, Goto
  <2>2. pc[p] \in Copying /\ (p \in Writer => op[p] # "boot")
    BY <1>d, <2>1 DEF WatchedInv, Copying, SyncPlace
  <2> QED
    BY <2>1, <2>2, SameWatch, <1>d DEF WatchedInv, Proc
<1>21. ASSUME NEW p \in Proc, FinishOverwrite(p)
       PROVE  WatchedInv'
  <2>1. /\ \/ pc[p] = "openOver" /\ pc'[p] = "openUpsert"
           \/ pc[p] = "closedOver" /\ pc'[p] = "closeWrite"
        /\ \A q \in Proc : q # p => pc'[q] = pc[q]
        /\ UNCHANGED <<openCsv, active, op, df, closing>>
    BY <1>21 DEF FinishOverwrite, Goto
  <2>2. /\ pc'[p] \in Copying => pc[p] \in Copying
        /\ p \in Writer => op[p] # "boot"
    BY <1>d, <2>1 DEF WatchedInv, Copying, SyncPlace
  <2> QED
    BY <2>1, <2>2, SameWatch, <1>d DEF WatchedInv, Proc
<1>22. ASSUME NEW p \in Proc, OverwriteFails(p)
       PROVE  WatchedInv'
  <2>1. /\ FilesCut(p) /\ WriteMayFail
        /\ pc[p] = "openOver" \/ pc[p] = "closedOver"
    BY <1>22, BreakOffCuts DEF OverwriteFails, Overwriting
  <2>2. p \in Writer /\ op[p] # "boot"
    BY <1>d, <2>1 DEF KeepInv, WriterPlace, Copying, WatchedInv, SyncPlace
  <2>3. CASE Finish(p) /\ UNCHANGED memory
    BY <1>4, <2>1, <2>2, <2>3 DEF FilesCut
  <2>4. CASE op[p] \notin Logging /\ CloseEnds(p, FALSE)
    <3>1. closing[p].ticket \notin openCsv \ Dropped
      <4>1. CASE pc[p] = "openOver"
        BY <1>d, <2>2, <2>4, <4>1 DEF WatchedInv
      <4>2. CASE pc[p] = "closedOver"
        BY <2>1, <4>2 DEF PhantomInv, Closing, Dropped
      <4> QED
        BY <2>1, <4>1, <4>2
    <3> QED
      BY <1>9, <2>1, <2>2, <2>4, <3>1 DEF FilesCut
  <2> QED
    BY <1>22, <2>3, <2>4 DEF OverwriteFails, Logging
<1>12. ASSUME NEW p \in Proc, CloseWrite(p)
       PROVE  WatchedInv'
  <2>1. /\ pc[p] = "closeWrite" /\ pc'[p] \in {"openOver", "openUpsert"}
        /\ \A q \in Proc : q # p => pc'[q] = pc[q]
        /\ openCsv' = df[p] \ {closing[p].ticket}
        /\ UNCHANGED <<active, op, closing>>
    BY <1>12 DEF CloseWrite, OpenWritten, RemainingRows, Goto
  <2>2. p \in Writer /\ op[p] # "boot"
    BY <1>d, <2>1 DEF KeepInv, WriterPlace, Copying, WatchedInv, SyncPlace
  <2> QED
    BY <1>d, <2>1, <2>2 DEF WatchedInv, Copying, Proc
<1>13. ASSUME NEW p \in Proc, UpsertOpen(p)
       PROVE  WatchedInv'
  <2>1. pc[p] = "openUpsert" /\ openCsv' = openCsv
    BY <1>13 DEF UpsertOpen
  <2>2. p \in Writer /\ op[p] # "boot"
    BY <1>d, <2>1 DEF KeepInv, WriterPlace, WatchedInv, SyncPlace
  <2>3. CASE Finish(p) /\ UNCHANGED memory
    BY <1>4, <2>1, <2>2, <2>3
  <2>4. CASE op[p] \notin Logging /\ CloseEnds(p, TRUE)
    BY <1>d, <1>9, <2>1, <2>2, <2>4 DEF WatchedInv
  <2> QED
    BY <1>13, <2>3, <2>4 DEF UpsertOpen, Logging
<1>14. ASSUME NEW p \in Proc, SyncRead(p) \/ SyncOpen(p) \/ SyncClosed(p)
       PROVE  WatchedInv'
  <2>1. /\ UNCHANGED <<openCsv, active, op, df, closing>>
        /\ pc'[p] \in SyncPlace
        /\ \A q \in Proc : q # p => pc'[q] = pc[q]
    BY <1>14 DEF SyncRead, SyncOpen, SyncClosed, Goto, SyncPlace
  <2>2. pc'[p] \notin Copying \cup {"snapshot", "snapWrite", "openOver", "openUpsert"}
    BY <2>1 DEF SyncPlace, Copying
  <2> QED
    BY <2>1, <2>2, SameWatch, <1>d DEF WatchedInv, Copying, Proc
<1>15. ASSUME NEW p \in Proc, SyncMeta(p)
       PROVE  WatchedInv'
  <2>1. openCsv' = openCsv /\ active' = active
    BY <1>15 DEF SyncMeta
  <2>2. CASE op[p] # "boot" /\ Finish(p)
    BY <1>4, <2>1, <2>2
  <2>3. CASE Goto(p, "load") /\ UNCHANGED <<op, todo, closing, df, copy>>
    BY <2>1, <2>3, SameWatch, <1>d DEF Goto, WatchedInv, Copying, SyncPlace
  <2> QED
    BY <1>15, <2>2, <2>3 DEF SyncMeta
<1>16. ASSUME NEW p \in Proc, LoadActive(p)
       PROVE  WatchedInv'
  <2>1. openCsv' = openCsv /\ pc[p] = "load" /\ Finish(p)
    BY <1>16 DEF LoadActive
  <2>2. ASSUME p \in Writer PROVE active' = [active EXCEPT ![p] = openCsv]
    <3>1. ReadOpen = {openCsv}
      BY <1>0, <2>1, <2>2
    <3> QED
      BY <1>16, <3>1 DEF LoadActive
  <2>3. \A q \in Proc : q # p => active'[q] = active[q]
    BY <1>16 DEF LoadActive
  <2> QED
    BY <1>d, <2>1, <2>2, <2>3 DEF Finish, WatchedInv, Copying, Proc
<1>17. ASSUME NEW p \in Proc, Restart(p)
       PROVE  WatchedInv'
  <2>1. /\ pc' = [pc EXCEPT ![p] = "syncRead"] /\ op' = [op EXCEPT ![p] = "boot"]
        /\ \A q \in Proc : q # p => /\ active'[q] = active[q] /\ df'[q] = df[q]
                                    /\ closing'[q] = closing[q]
    BY <1>17 DEF Restart, Goto
  <2>2. openCsv' \subseteq openCsv
    BY <1>17, RestartCuts DEF FilesCut
  <2>3. \A q \in Writer : q # p => pc'[q] = pc[q] /\ op'[q] = op[q]
    BY <2>1 DEF Proc
  <2>4. p \in Writer => /\ op'[p] = "boot" /\ pc'[p] = "syncRead"
    BY <2>1
  <2>5. pc'[p] \notin Copying \cup {"snapshot", "snapWrite", "openOver", "openUpsert"}
    BY <2>1 DEF Copying
  <2> QED
    BY <1>d, <2>1, <2>2, <2>3, <2>4, <2>5 DEF WatchedInv, SyncPlace, Proc
<1>18. ASSUME NEW p \in Proc, FailSnapshot(p)
       PROVE  WatchedInv'
  <2>1. p \in Writer /\ op[p] # "boot" /\ openCsv' = openCsv /\ active' = active
    BY <1>18 DEF FailSnapshot, KeepInv, WriterPlace, Copying, WatchedInv, SyncPlace
  <2> QED
    BY <1>4, <1>18, <2>1 DEF FailSnapshot
<1>19. ASSUME NEW p \in Proc, CloseFails(p)
       PROVE  WatchedInv'
  <2>1. /\ pc[p] \in {"closeAppend", "closeWrite"} /\ WriteMayFail
        /\ CloseEnds(p, FALSE) /\ openCsv' = openCsv
    BY <1>19 DEF CloseFails
  <2>2. p \in Writer /\ op[p] # "boot"
    BY <2>1 DEF KeepInv, WriterPlace, Copying, WatchedInv, SyncPlace
  <2>3. closing[p].ticket \notin openCsv \ Dropped
    BY <2>1 DEF PhantomInv, Closing, Dropped
  <2> QED
    BY <1>9, <2>1, <2>2, <2>3
<1>20. ASSUME NEW p \in Proc, SyncFails(p)
       PROVE  WatchedInv'
  <2>1. openCsv' = openCsv /\ active' = active
    BY <1>20 DEF SyncFails
  <2>2. CASE op[p] # "boot" /\ Finish(p)
    BY <1>4, <2>1, <2>2
  <2>3. CASE /\ op[p] = "boot" /\ Goto(p, "load")
             /\ UNCHANGED <<op, todo, closing, df, copy>>
    BY <2>1, <2>3, SameWatch, <1>d DEF Goto, WatchedInv, Copying, SyncPlace
  <2> QED
    BY <1>20, <2>2, <2>3 DEF SyncFails
<1> QED
  BY <1>1, <1>2, <1>3, <1>5, <1>6, <1>7, <1>8, <1>10, <1>11, <1>12, <1>13, <1>14,
     <1>15, <1>16, <1>17, <1>18, <1>19, <1>20, <1>21, <1>22 DEF Next, Continue

LEMMA WatchedAlways ==
  ASSUME ~ReadMayFail, \A p, q \in Writer : p = q
  PROVE  Spec => []WatchedInv
<1>1. Init => KeepInv /\ WatchedInv
  BY DEF Init, KeepInv, WriterPlace, Copying, WatchedInv, Proc
<1>2. TypeInv /\ KeepInv /\ PhantomInv /\ WatchedInv /\ [Next]_vars
        => KeepInv' /\ WatchedInv'
  BY KeepStep, WatchedStep
<1> QED
  BY <1>1, <1>2, PhantomAlways, PTL DEF Spec

(* With one writing process and files that can be read and written, the    *)
(* logger watches every open row between two operations, over every        *)
(* restart (upsert_open_snapshots, check_closed_trades,                    *)
(* _load_active_tickets).                                                  *)
THEOREM RowsAreWatched ==
  ASSUME ~ReadMayFail, ~WriteMayFail, \A p, q \in Writer : p = q
  PROVE  Spec => []OpenRowsWatched
<1>1. WatchedInv => OpenRowsWatched
  BY DEF WatchedInv, OpenRowsWatched, SyncPlace, Dropped
<1> QED
  BY <1>1, WatchedAlways, PTL

(* When writes fail as well, the only open rows a logger stops watching    *)
(* are those of trades with an exit deal; a position the broker still      *)
(* holds in whole is never given up (check_closed_trades drops a ticket    *)
(* with a deal whatever update_closed_trade returned, but keeps one whose  *)
(* forced close failed).                                                   *)
LiveRowsWatched ==
  \A p \in Writer : pc[p] = "idle" =>
     \A t \in openCsv : HasExitDeal(t) \/ t \in active[p]

THEOREM LiveRowsAreWatched ==
  ASSUME ~ReadMayFail, \A p, q \in Writer : p = q
  PROVE  Spec => []LiveRowsWatched
<1>1. WatchedInv => LiveRowsWatched
  BY DEF WatchedInv, LiveRowsWatched, SyncPlace, Dropped
<1> QED
  BY <1>1, WatchedAlways, PTL

-----------------------------------------------------------------------------
(* A trade is counted once: no row goes back into the open file, or into a *)
(* copy that will replace it, once its trade is closed, except between the *)
(* append and the rewrite of its close. Each restart in between allows one *)
(* row more.                                                               *)
ClosedTickets == TicketsOf(closedCsv)

Rewrites == {"closedOver", "closeWrite"}

Rewriting(t) == \E p \in Proc : pc[p] \in Rewrites /\ closing[p].ticket = t

MayReturn(t) == t \in openCsv /\ ~Rewriting(t)

RowBound(t) == IF MayReturn(t) THEN restarts ELSE restarts + 1

OnceInv ==
  /\ IsFiniteSet(closedCsv)
  /\ \A t \in Ticket \ partial : Cardinality(RowsOf(t)) <= RowBound(t)
  /\ \A p \in Proc :
        /\ pc[p] \in WriterPlace => p \in Writer
        /\ pc[p] = "snapshot" => todo[p] \cap ClosedTickets \subseteq partial
        /\ pc[p] = "snapWrite" =>
              (df[p] \ openCsv) \cap ClosedTickets \subseteq partial
        /\ pc[p] = "closeAppend" => closing[p].ticket \in openCsv
        /\ pc[p] \in Rewrites \cup {"closeAppend"} => df[p] \subseteq openCsv

(* The rows of a trade are counted by a number: none for a trade that is   *)
(* not closed, at most one more for an appended row.                       *)
LEMMA RowCounts ==
  ASSUME IsFiniteSet(closedCsv), NEW t
  PROVE  /\ Cardinality(RowsOf(t)) \in Nat
         /\ t \notin ClosedTickets => Cardinality(RowsOf(t)) = 0
<1>1. IsFiniteSet(RowsOf(t))
  BY FS_Subset DEF RowsOf
<1>2. t \notin ClosedTickets => RowsOf(t) = {}
  BY DEF RowsOf, ClosedTickets, TicketsOf
<1> QED
  BY <1>1, <1>2, FS_CardinalityType, FS_EmptySet

LEMMA RowCountsGrow ==
  ASSUME IsFiniteSet(closedCsv), NEW row, closedCsv' = closedCsv \cup {row}
  PROVE  /\ IsFiniteSet(closedCsv')
         /\ \A t : Cardinality(RowsOf(t)') <= Cardinality(RowsOf(t)) + 1
         /\ \A t : t # row.ticket => RowsOf(t)' = RowsOf(t)
<1>1. IsFiniteSet(closedCsv')
  BY FS_AddElement
<1>2. ASSUME NEW t PROVE Cardinality(RowsOf(t)') <= Cardinality(RowsOf(t)) + 1
  <2>1. IsFiniteSet(RowsOf(t)) /\ Cardinality(RowsOf(t)) \in Nat
    BY FS_Subset, FS_CardinalityType DEF RowsOf
  <2>2. RowsOf(t)' = RowsOf(t) \/ RowsOf(t)' = RowsOf(t) \cup {row}
    BY DEF RowsOf
  <2>3. Cardinality(RowsOf(t) \cup {row})
          \in {Cardinality(RowsOf(t)), Cardinality(RowsOf(t)) + 1}
    BY <2>1, FS_AddElement
  <2>4. \/ Cardinality(RowsOf(t)') = Cardinality(RowsOf(t))
        \/ Cardinality(RowsOf(t)') = Cardinality(RowsOf(t)) + 1
    BY <2>2, <2>3
  <2> QED
    BY <2>1, <2>4
<1>3. \A t : t # row.ticket => RowsOf(t)' = RowsOf(t)
  BY DEF RowsOf
<1> QED
  BY <1>1, <1>2, <1>3

(* A file that was cut off has no more rows of a trade. *)
LEMMA FewerRows ==
  ASSUME IsFiniteSet(closedCsv), closedCsv' \subseteq closedCsv
  PROVE  /\ IsFiniteSet(closedCsv')
         /\ \A t : Cardinality(RowsOf(t)') <= Cardinality(RowsOf(t))
<1>1. IsFiniteSet(closedCsv')
  BY FS_Subset
<1>2. ASSUME NEW t PROVE Cardinality(RowsOf(t)') <= Cardinality(RowsOf(t))
  <2>1. RowsOf(t)' \subseteq RowsOf(t) /\ IsFiniteSet(RowsOf(t))
    BY FS_Subset DEF RowsOf
  <2> QED
    BY <2>1, FS_Subset
<1> QED
  BY <1>1, <1>2

(* A step that leaves the files alone keeps the counts: a close that ends  *)
(* before its rewrite ends with its process.                               *)
LEMMA SameOnce ==
  ASSUME TypeInv, OnceInv, UNCHANGED <<openCsv, closedCsv>>,
         partial \subseteq partial',
         \/ restarts' = restarts + 1
         \/ /\ restarts' = restarts
            /\ \A p \in Proc : pc[p] \in Rewrites =>
                  pc'[p] \in Rewrites /\ closing'[p].ticket = closing[p].ticket,
         \A p \in Proc :
            /\ pc'[p] \in WriterPlace => p \in Writer
            /\ pc'[p] = "snapshot" => pc'[p] = pc[p] /\ todo'[p] = todo[p]
            /\ pc'[p] = "snapWrite" =>
                  \/ pc'[p] = pc[p] /\ df'[p] = df[p]
                  \/ (df'[p] \ openCsv) \cap ClosedTickets \subseteq partial
            /\ pc'[p] = "closeAppend" =>
                  \/ pc'[p] = pc[p] /\ closing'[p].ticket = closing[p].ticket
                  \/ closing'[p].ticket \in openCsv
            /\ pc'[p] \in Rewrites \cup {"closeAppend"} =>
                  \/ pc[p] \in Rewrites \cup {"closeAppend"} /\ df'[p] = df[p]
                  \/ df'[p] \subseteq openCsv
  PROVE  OnceInv'
<1>1. ClosedTickets' = ClosedTickets /\ \A t : RowsOf(t)' = RowsOf(t)
  BY DEF ClosedTickets, TicketsOf, RowsOf
<1>2. \A t \in Ticket : RowBound(t) <= RowBound(t)'
  <2>1. restarts \in Nat
    BY DEF TypeInv, TypeOK
  <2>2. CASE restarts' = restarts + 1
    BY <2>1, <2>2 DEF RowBound
  <2>3. CASE /\ restarts' = restarts
             /\ \A p \in Proc : pc[p] \in Rewrites =>
                   pc'[p] \in Rewrites /\ closing'[p].ticket = closing[p].ticket
    <3>1. \A t \in Ticket : MayReturn(t)' => MayReturn(t)
      BY <2>3 DEF MayReturn, Rewriting
    <3> QED
      BY <2>1, <2>3, <3>1 DEF RowBound
  <2> QED
    BY <2>2, <2>3
<1>3. \A t \in Ticket \ partial' : Cardinality(RowsOf(t))' <= RowBound(t)'
  <2> TAKE t \in Ticket \ partial'
  <2>1. Cardinality(RowsOf(t)) <= RowBound(t) /\ Cardinality(RowsOf(t)) \in Nat
    BY RowCounts DEF OnceInv
  <2>2. RowBound(t) \in Nat /\ RowBound(t)' \in Nat
    BY DEF RowBound, TypeInv, TypeOK
  <2> QED
    BY <1>1, <1>2, <2>1, <2>2
<1>4. \A p \in Proc :
        /\ pc'[p] \in WriterPlace => p \in Writer
        /\ pc'[p] = "snapshot" => todo'[p] \cap ClosedTickets \subseteq partial'
        /\ pc'[p] = "snapWrite" =>
              (df'[p] \ openCsv) \cap ClosedTickets \subseteq partial'
        /\ pc'[p] = "closeAppend" => closing'[p].ticket \in openCsv
        /\ pc'[p] \in Rewrites \cup {"closeAppend"} => df'[p] \subseteq openCsv
  BY DEF OnceInv
<1>5. IsFiniteSet(closedCsv')
  BY DEF OnceInv
<1> QED
  BY <1>1, <1>3, <1>4, <1>5 DEF OnceInv

LEMMA OnceStep ==
  ASSUME TypeInv, ClosedHaveDeals, OnceInv, [Next]_vars,
         ~WriteMayFail, \A p, q \in Writer : p = q
  PROVE  OnceInv'
<1> USE DEF TypeInv, TypeOK, broker, disk, lost, memory, bounds
<1>0. \A rows \in ReadOpen : rows \subseteq openCsv
  BY ReadRows
<1>a. partial \subseteq partial'
  BY BrokerSteps
<1>1. CASE Broker \/ UNCHANGED vars
  <2>1. UNCHANGED <<openCsv, closedCsv, restarts, pc, closing, todo, df>>
    BY <1>1 DEF Broker, Fill, List, ClosePart, ClosePosition, vars, local
  <2> QED
    BY <1>a, <2>1, SameOnce DEF OnceInv
<1>2. ASSUME NEW p \in Proc, NEW ts \in SUBSET Ticket, StartSnapshot(p, ts)
      PROVE  OnceInv'
  <2>1. /\ UNCHANGED <<position, partial, openCsv, closedCsv, df, closing, restarts>>
        /\ pc[p] = "idle" /\ p \in Writer
        /\ pc' = [pc EXCEPT ![p] = "snapshot"]
        /\ todo' = [todo EXCEPT ![p] = ts]
    BY <1>2 DEF StartSnapshot, Goto
  <2>2. ts \cap ClosedTickets \subseteq partial
    <3>1. \A t \in ts : position[t] # "closed"
      BY <1>2 DEF StartSnapshot
    <3>2. \A t \in ClosedTickets : HasExitDeal(t)
      BY DEF ClosedHaveDeals, ClosedTickets, TicketsOf
    <3> QED
      BY <3>1, <3>2 DEF HasExitDeal
  <2>3. ClosedTickets' = ClosedTickets /\ \A t : RowsOf(t)' = RowsOf(t)
    BY <2>1 DEF ClosedTickets, TicketsOf, RowsOf
  <2>4. \A t : RowBound(t)' = RowBound(t)
    BY <2>1 DEF RowBound, MayReturn, Rewriting, Rewrites
  <2> QED
    BY <2>1, <2>2, <2>3, <2>4 DEF OnceInv, Rewrites
<1>3. ASSUME NEW p \in Proc, NEW place \in {"scan", "syncRead"}, pc[p] = "idle",
             Goto(p, place), place = "scan" => p \in Writer,
             UNCHANGED <<openCsv, closedCsv, closing, restarts>>,
             \A q \in Proc : q # p => todo'[q] = todo[q] /\ df'[q] = df[q]
      PROVE  OnceInv'
  BY <1>a, <1>3, SameOnce DEF Goto, WriterPlace, Copying, Rewrites, OnceInv
<1>4. ASSUME NEW p \in Proc, StartCheck(p) \/ StartReconcile(p) \/ StartSync(p)
      PROVE  OnceInv'
  <2>1. /\ pc[p] = "idle" /\ UNCHANGED <<openCsv, closedCsv, closing, restarts>>
        /\ (Goto(p, "scan") /\ p \in Writer) \/ Goto(p, "syncRead")
        /\ \A q \in Proc : q # p => todo'[q] = todo[q] /\ df'[q] = df[q]
    BY <1>4 DEF StartCheck, StartReconcile, StartSync
  <2> QED
    BY <1>3, <2>1
<1>5. ASSUME NEW p \in Proc, NEW t \in Ticket, UpdatePolicy(p, t)
      PROVE  OnceInv'
  <2>1. PICK rows \in ReadOpen : df' = [df EXCEPT ![p] = rows]
    BY <1>5 DEF UpdatePolicy
  <2>2. /\ UNCHANGED <<openCsv, closedCsv, todo, closing, restarts>> /\ p \in Writer
        /\ pc[p] = "idle" /\ pc' = [pc EXCEPT ![p] = "snapWrite"]
    BY <1>5 DEF UpdatePolicy, Goto
  <2>3. (rows \ openCsv) \cap ClosedTickets = {}
    BY <1>0
  <2> QED
    BY <1>a, <2>1, <2>2, <2>3, SameOnce DEF OnceInv, Rewrites
<1>6. ASSUME NEW p \in Proc, NEW t \in Ticket, Age(p, t)
      PROVE  OnceInv'
  <2>1. UNCHANGED <<openCsv, closedCsv, restarts, pc, closing, todo, df>>
    BY <1>6 DEF Age, local
  <2> QED
    BY <1>a, <2>1, SameOnce DEF OnceInv
<1>7. ASSUME NEW p \in Proc, Finish(p), pc[p] \notin Rewrites,
             UNCHANGED <<openCsv, closedCsv, restarts>>
      PROVE  OnceInv'
  BY <1>a, <1>7, SameOnce DEF Finish, OnceInv, WriterPlace, Copying, Rewrites
<1>8. ASSUME NEW p \in Proc, NEW ok \in BOOLEAN, CloseEnds(p, ok),
             pc[p] \notin Rewrites, pc[p] \in WriterPlace,
             UNCHANGED <<openCsv, closedCsv, restarts>>
      PROVE  OnceInv'
  BY <1>a, <1>8, SameOnce DEF CloseEnds, Goto, OnceInv, WriterPlace, Copying, Rewrites
<1>9. ASSUME NEW p \in Proc,
             SkipSnapshot(p) \/ ScanDone(p) \/ LoadActive(p)
      PROVE  OnceInv'
  BY <1>7, <1>9 DEF SkipSnapshot, ScanDone, LoadActive, Rewrites
<1>10. ASSUME NEW p \in Proc, MergeSnapshot(p)
       PROVE  OnceInv'
  <2>1. PICK rows \in ReadOpen :
          \/ Finish(p)
          \/ /\ Goto(p, "snapWrite")
             /\ df' = [df EXCEPT ![p] = rows \cup todo[p]]
             /\ UNCHANGED <<op, todo, closing, copy>>
    BY <1>10 DEF MergeSnapshot
  <2>2. pc[p] = "snapshot" /\ UNCHANGED <<openCsv, closedCsv, restarts>>
    BY <1>10 DEF MergeSnapshot
  <2>3. ((rows \cup todo[p]) \ openCsv) \cap ClosedTickets \subseteq partial
    BY <1>0, <2>2 DEF OnceInv
  <2>4. CASE /\ Goto(p, "snapWrite") /\ UNCHANGED <<todo, closing>>
             /\ df' = [df EXCEPT ![p] = rows \cup todo[p]]
    BY <1>a, <2>2, <2>3, <2>4, SameOnce
       DEF Goto, OnceInv, WriterPlace, Copying, Rewrites
  <2> QED
    BY <1>7, <2>1, <2>2, <2>4 DEF Rewrites
<1>11. ASSUME NEW p \in Proc, WriteSnapshot(p)
       PROVE  OnceInv'
  <2>1. /\ pc[p] = "snapWrite" /\ pc'[p] \in {"openOver", "openUpsert"}
        /\ \A q \in Proc : q # p => pc'[q] = pc[q]
        /\ openCsv' = df[p] /\ UNCHANGED <<closedCsv, partial, todo, df, closing, restarts>>
    BY <1>11 DEF WriteSnapshot, OpenWritten, Goto
  <2>2. \A q \in Proc : q # p => pc[q] \notin WriterPlace /\ pc'[q] = pc[q]
    BY <2>1 DEF OnceInv, WriterPlace, Copying
  <2>3. /\ \A t : ~Rewriting(t) /\ ~Rewriting(t)'
        /\ ClosedTickets' = ClosedTickets /\ \A t : RowsOf(t)' = RowsOf(t)
    BY <2>1, <2>2
       DEF Rewriting, Rewrites, WriterPlace, Copying, ClosedTickets, TicketsOf, RowsOf
  <2>4. \A t \in Ticket \ partial : Cardinality(RowsOf(t)) <= RowBound(t)'
    <3> TAKE t \in Ticket \ partial
    <3>1. /\ Cardinality(RowsOf(t)) \in Nat
          /\ Cardinality(RowsOf(t)) <= RowBound(t)
          /\ t \notin ClosedTickets => Cardinality(RowsOf(t)) = 0
      BY RowCounts DEF OnceInv
    <3>2. t \in openCsv' \ openCsv => t \notin ClosedTickets
      BY <2>1 DEF OnceInv
    <3>3. RowBound(t) \in Nat /\ RowBound(t)' \in Nat
      BY <2>1 DEF RowBound
    <3>4. t \in openCsv' \ openCsv \/ RowBound(t) <= RowBound(t)'
      BY <2>1, <2>3 DEF RowBound, MayReturn
    <3> QED
      BY <3>1, <3>2, <3>3, <3>4
  <2>5. \A q \in Proc : /\ pc'[q] \in WriterPlace => q \in Writer
                        /\ pc'[q] \notin Copying \cup {"snapshot"}
    BY <2>1, <2>2 DEF OnceInv, WriterPlace, Copying
  <2> QED
    BY <2>1, <2>3, <2>4, <2>5 DEF OnceInv, Copying, Rewrites
<1>12. ASSUME NEW p \in Proc, ScanTicket(p)
       PROVE  OnceInv'
  <2>1. /\ UNCHANGED <<openCsv, closedCsv, df, restarts>> /\ pc[p] = "scan"
        /\ pc' = pc \/ pc' = [pc EXCEPT ![p] = "closeRead"]
        /\ \A q \in Proc : q # p => closing'[q] = closing[q] /\ todo'[q] = todo[q]
    BY <1>12 DEF ScanTicket, StillOpen, CloseWithDeal, LeaveOpen, WaitForDeal,
                 ForceClose, Goto
  <2> QED
    BY <1>a, <2>1, SameOnce DEF OnceInv, WriterPlace, Copying, Rewrites
<1>13. ASSUME NEW p \in Proc, CloseRead(p)
       PROVE  OnceInv'
  <2>1. PICK rows \in ReadOpen :
          \/ CloseEnds(p, FALSE)
          \/ /\ Goto(p, "closeAppend") /\ UNCHANGED <<todo, closing>>
             /\ df' = [df EXCEPT ![p] = rows] /\ closing[p].ticket \in rows
    BY <1>13 DEF CloseRead
  <2>2. pc[p] = "closeRead" /\ UNCHANGED <<openCsv, closedCsv, restarts>>
    BY <1>13 DEF CloseRead
  <2>3. CASE /\ Goto(p, "closeAppend") /\ UNCHANGED <<todo, closing>>
             /\ df' = [df EXCEPT ![p] = rows] /\ closing[p].ticket \in rows
    BY <1>0, <1>a, <2>2, <2>3, SameOnce
       DEF Goto, OnceInv, WriterPlace, Copying, Rewrites
  <2> QED
    BY <1>8, <2>1, <2>2, <2>3 DEF WriterPlace, Rewrites
<1>14. ASSUME NEW p \in Proc, CloseAppend(p)
       PROVE  OnceInv'
  <2>1. /\ pc[p] = "closeAppend" /\ pc'[p] \in Rewrites
        /\ \A q \in Proc : q # p => pc'[q] = pc[q]
        /\ closedCsv' = closedCsv \cup {closing[p]}
        /\ UNCHANGED <<openCsv, partial, todo, df, closing, restarts>>
    BY <1>14 DEF CloseAppend, Goto, Rewrites
  <2>2. PICK t \in openCsv : t = closing[p].ticket
    BY <2>1 DEF OnceInv
  <2>3. \A q \in Proc : q # p => pc[q] \notin WriterPlace /\ pc'[q] = pc[q]
    BY <2>1 DEF OnceInv, WriterPlace, Copying
  <2>4. \A u : ~Rewriting(u) /\ (Rewriting(u)' <=> u = t)
    BY <2>1, <2>2, <2>3 DEF Rewriting, Rewrites, WriterPlace, Copying
  <2>5. /\ IsFiniteSet(closedCsv')
        /\ \A u : Cardinality(RowsOf(u)') <= Cardinality(RowsOf(u)) + 1
        /\ \A u : u # t => RowsOf(u)' = RowsOf(u)
    BY <2>1, <2>2, RowCountsGrow DEF OnceInv
  <2>6. \A u \in Ticket \ partial : Cardinality(RowsOf(u)') <= RowBound(u)'
    <3> TAKE u \in Ticket \ partial
    <3>1. Cardinality(RowsOf(u)) \in Nat /\ Cardinality(RowsOf(u)) <= RowBound(u)
      BY RowCounts DEF OnceInv
    <3>2. Cardinality(RowsOf(u)') \in Nat
      BY <2>5, RowCounts, FS_Subset, FS_CardinalityType DEF RowsOf
    <3>3. CASE u = t
      <4>1. RowBound(u) = restarts /\ RowBound(u)' = restarts + 1
        BY <2>1, <2>2, <2>4, <3>3 DEF RowBound, MayReturn
      <4> QED
        BY <2>5, <3>1, <3>2, <4>1
    <3>4. CASE u # t
      <4>1. RowBound(u)' = RowBound(u)
        BY <2>1, <2>4, <3>4 DEF RowBound, MayReturn
      <4> QED
        BY <2>5, <3>1, <3>4, <4>1
    <3> QED
      BY <3>3, <3>4
  <2>7. \A q \in Proc : /\ pc'[q] \in WriterPlace => q \in Writer
                        /\ pc'[q] \notin {"snapshot", "snapWrite", "closeAppend"}
                        /\ pc'[q] \in Rewrites => df'[q] \subseteq openCsv'
    BY <2>1, <2>3 DEF OnceInv, WriterPlace, Copying, Rewrites
  <2> QED
    BY <2>1, <2>5, <2>6, <2>7 DEF OnceInv
<1>15. ASSUME NEW p \in Proc, CloseWrite(p)
       PROVE  OnceInv'
  <2>1. /\ pc[p] = "closeWrite" /\ pc'[p] \in {"openOver", "openUpsert"}
        /\ \A q \in Proc : q # p => pc'[q] = pc[q]
        /\ openCsv' = df[p] \ {closing[p].ticket}
        /\ UNCHANGED <<closedCsv, partial, todo, closing, restarts>>
    BY <1>15 DEF CloseWrite, OpenWritten, RemainingRows, Goto
  <2>2. \A q \in Proc : q # p => pc[q] \notin WriterPlace /\ pc'[q] = pc[q]
    BY <2>1 DEF OnceInv, WriterPlace, Copying
  <2>3. \A t : MayReturn(t)' => MayReturn(t)
    <3>1. openCsv' \subseteq openCsv
      BY <2>1 DEF OnceInv, Rewrites
    <3>2. \A t \in openCsv' : ~Rewriting(t)
      BY <2>1, <2>2 DEF Rewriting, Rewrites, WriterPlace, Copying
    <3> QED
      BY <3>1, <3>2 DEF MayReturn
  <2>4. /\ \A t : RowsOf(t)' = RowsOf(t)
        /\ \A t : RowBound(t) <= RowBound(t)'
        /\ \A t : RowBound(t) \in Nat /\ RowBound(t)' \in Nat
    BY <2>1, <2>3 DEF RowsOf, RowBound
  <2>5. \A t \in Ticket \ partial : Cardinality(RowsOf(t)) <= RowBound(t)'
    <3> TAKE t \in Ticket \ partial
    <3>1. Cardinality(RowsOf(t)) \in Nat /\ Cardinality(RowsOf(t)) <= RowBound(t)
      BY RowCounts DEF OnceInv
    <3> QED
      BY <2>4, <3>1
  <2>6. \A q \in Proc : /\ pc'[q] \in WriterPlace => q \in Writer
                        /\ pc'[q] \notin Copying \cup {"snapshot"}
    BY <2>1, <2>2 DEF OnceInv, WriterPlace, Copying
  <2> QED
    BY <2>1, <2>4, <2>5, <2>6 DEF OnceInv, Copying, Rewrites
<1>16. ASSUME NEW p \in Proc, UpsertOpen(p)
       PROVE  OnceInv'
  <2>1. pc[p] = "openUpsert" /\ UNCHANGED <<openCsv, closedCsv, restarts>>
    BY <1>16 DEF UpsertOpen
  <2> QED
    BY <1>7, <1>8, <1>16, <2>1 DEF UpsertOpen, WriterPlace, Rewrites
<1>21. ASSUME NEW p \in Proc, FinishOverwrite(p)
       PROVE  OnceInv'
  <2>1. /\ \/ pc[p] = "openOver" /\ pc'[p] = "openUpsert"
           \/ pc[p] = "closedOver" /\ pc'[p] = "closeWrite"
        /\ \A q \in Proc : q # p => pc'[q] = pc[q]
        /\ UNCHANGED <<openCsv, closedCsv, todo, df, closing, restarts>>
    BY <1>21 DEF FinishOverwrite, Goto
  <2>2. p \in Writer
    BY <2>1 DEF OnceInv, WriterPlace, Copying
  <2> QED
    BY <1>a, <2>1, <2>2, SameOnce DEF OnceInv, WriterPlace, Copying, Rewrites
<1>17. ASSUME NEW p \in Proc, SyncRead(p) \/ SyncOpen(p) \/ SyncClosed(p)
       PROVE  OnceInv'
  <2>1. /\ UNCHANGED <<openCsv, closedCsv, todo, df, closing, restarts>>
        /\ pc[p] \notin Rewrites /\ pc'[p] \in SyncPlace
        /\ \A q \in Proc : q # p => pc'[q] = pc[q]
    BY <1>17 DEF SyncRead, SyncOpen, SyncClosed, Goto, SyncPlace, Rewrites
  <2> QED
    BY <1>a, <2>1, SameOnce DEF SyncPlace, OnceInv, WriterPlace, Copying, Rewrites
<1>18. ASSUME NEW p \in Proc, SyncMeta(p) \/ SyncFails(p)
       PROVE  OnceInv'
  <2>1. /\ pc[p] \in SyncPlace /\ UNCHANGED <<openCsv, closedCsv, restarts>>
        /\ \/ Finish(p)
           \/ Goto(p, "load") /\ UNCHANGED <<op, todo, closing, df, copy>>
    BY <1>18 DEF SyncMeta, SyncFails, SyncPlace
  <2>2. CASE Goto(p, "load") /\ UNCHANGED <<op, todo, closing, df, copy>>
    BY <1>a, <2>1, <2>2, SameOnce
       DEF Goto, OnceInv, WriterPlace, Copying, Rewrites, SyncPlace
  <2> QED
    BY <1>7, <2>1, <2>2 DEF SyncPlace, Rewrites
<1>19. ASSUME NEW p \in Proc, Restart(p)
       PROVE  OnceInv'
  <2>1. /\ restarts' = restarts + 1 /\ pc' = [pc EXCEPT ![p] = "syncRead"]
        /\ \A q \in Proc : q # p => /\ closing'[q] = closing[q]
                                    /\ todo'[q] = todo[q] /\ df'[q] = df[q]
    BY <1>19 DEF Restart, Goto
  <2>2. FilesCut(p)
    BY <1>19, RestartCuts
  <2>3. CASE UNCHANGED <<openCsv, closedCsv>>
    BY <1>a, <2>1, <2>3, SameOnce DEF OnceInv, WriterPlace, Copying, Rewrites
  <2>4. CASE pc[p] \in Overwriting
    <3>1. \A q \in Proc : q # p => pc[q] \notin WriterPlace /\ pc'[q] = pc[q]
      BY <2>1, <2>4 DEF OnceInv, WriterPlace, Copying, Overwriting
    <3>2. \A q \in Proc : pc'[q] \notin WriterPlace
      BY <2>1, <3>1 DEF WriterPlace, Copying
    <3>3. /\ IsFiniteSet(closedCsv')
          /\ \A t : Cardinality(RowsOf(t)') <= Cardinality(RowsOf(t))
      BY <2>2, FewerRows DEF FilesCut, OnceInv
    <3>4. \A t \in Ticket \ partial : Cardinality(RowsOf(t)') <= RowBound(t)'
      <4> TAKE t \in Ticket \ partial
      <4>1. /\ Cardinality(RowsOf(t)) \in Nat /\ Cardinality(RowsOf(t)') \in Nat
            /\ Cardinality(RowsOf(t)) <= RowBound(t)
        BY <3>3, RowCounts, FS_Subset, FS_CardinalityType DEF OnceInv, RowsOf
      <4>2. RowBound(t) \in Nat /\ RowBound(t)' \in Nat /\ RowBound(t) <= RowBound(t)'
        BY <2>1 DEF RowBound
      <4> QED
        BY <3>3, <4>1, <4>2
    <3> QED
      BY <1>a, <3>2, <3>3, <3>4 DEF OnceInv, WriterPlace, Copying, Rewrites
  <2> QED
    BY <2>2, <2>3, <2>4 DEF FilesCut, Overwriting
<1>20. ASSUME NEW p \in Proc, FailSnapshot(p) \/ CloseFails(p) \/ OverwriteFails(p)
       PROVE  FALSE
  BY <1>20 DEF FailSnapshot, CloseFails, OverwriteFails
<1> QED
  BY <1>1, <1>2, <1>4, <1>5, <1>6, <1>9, <1>10, <1>11, <1>12, <1>13, <1>14,
     <1>15, <1>16, <1>17, <1>18, <1>19, <1>20, <1>21 DEF Next, Continue

(* With one writing process and files that can be written, a trade that    *)
(* was never closed in part is counted once, and at most once more for     *)
(* each restart, whatever read or query fails and however late the broker  *)
(* lists a position (check_closed_trades, reconcile_open_trades,           *)
(* upsert_open_snapshots).                                                 *)
THEOREM TradesCloseOnce ==
  ASSUME ~WriteMayFail, \A p, q \in Writer : p = q
  PROVE  Spec => []ClosedOnce
<1>1. Init => OnceInv
  <2> SUFFICES ASSUME Init PROVE OnceInv
    OBVIOUS
  <2>1. IsFiniteSet(closedCsv) /\ ClosedTickets = {}
    BY FS_EmptySet DEF Init, ClosedTickets, TicketsOf
  <2>2. \A t \in Ticket : RowBound(t) = 1 /\ Cardinality(RowsOf(t)) = 0
    BY <2>1, RowCounts DEF Init, RowBound, MayReturn
  <2> QED
    BY <2>1, <2>2 DEF Init, OnceInv, WriterPlace, Copying, Rewrites
<1>2. TypeInv /\ ClosedHaveDeals /\ OnceInv /\ [Next]_vars => OnceInv'
  BY OnceStep
<1>3. TypeInv /\ OnceInv => ClosedOnce
  <2> SUFFICES ASSUME TypeInv, OnceInv, NEW t \in Ticket \ partial
               PROVE  Cardinality(RowsOf(t)) <= 1 + restarts
    BY DEF ClosedOnce
  <2>1. Cardinality(RowsOf(t)) \in Nat /\ Cardinality(RowsOf(t)) <= RowBound(t)
    BY RowCounts DEF OnceInv
  <2>2. restarts \in Nat
    BY DEF TypeInv, TypeOK
  <2> QED
    BY <2>1, <2>2 DEF RowBound
<1> QED
  BY <1>1, <1>2, <1>3, TypeInvariant, ClosedTradesHaveDeals, PTL DEF Spec

-----------------------------------------------------------------------------
(* The closed file of the ledger is the journal that ClosedJournal         *)
(* specifies and that ClosedBatch implements: a close offers its row when  *)
(* it has been chosen and commits it in one step.                          *)
Offering == {p \in Proc : pc[p] \in {"closeRead", "closeAppend"}}

Offered == {closing[p] : p \in Offering}

Journal == INSTANCE ClosedJournal WITH
    Callers <- {},
    Row <- ClosedRow,
    MayCut <- ReplaceMayFail,
    journal <- closedCsv,
    lost <- lostClosed,
    offered <- Offered,
    call <- [c \in {} |-> [state |-> "none", rows |-> {}]]

(* A step of a process that appends nothing and chooses no row: an offer   *)
(* lasts or is dropped.                                                    *)
LEMMA OffersDrop ==
  ASSUME UNCHANGED <<closedCsv, lostClosed>>,
         \A p \in Proc : pc'[p] \in {"closeRead", "closeAppend"} =>
            pc[p] \in {"closeRead", "closeAppend"} /\ closing'[p] = closing[p]
  PROVE  Journal!Drop
BY DEF Journal!Drop, Offered, Offering

LEMMA FinishDrops ==
  ASSUME TypeInv, NEW p \in Proc, Finish(p), UNCHANGED <<closedCsv, lostClosed>>
  PROVE  Journal!Drop
BY OffersDrop DEF Finish, TypeInv, TypeOK

LEMMA CloseEndsDrops ==
  ASSUME TypeInv, NEW p \in Proc, NEW ok, CloseEnds(p, ok),
         UNCHANGED <<closedCsv, lostClosed>>
  PROVE  Journal!Drop
BY OffersDrop DEF CloseEnds, Goto, TypeInv, TypeOK

LEMMA MoveDrops ==
  ASSUME TypeInv, NEW p \in Proc, NEW place, Goto(p, place),
         place # "closeRead", place = "closeAppend" => pc[p] = "closeRead",
         UNCHANGED <<closing, closedCsv, lostClosed>>
  PROVE  Journal!Drop
BY OffersDrop DEF Goto, TypeInv, TypeOK

(* A scan offers the row of the trade it closes. *)
LEMMA ScanOffers ==
  ASSUME TypeInv, NEW p \in Proc, ScanTicket(p)
  PROVE  Journal!Next
<1>1. PICK t \in todo[p] : \/ StillOpen(p, t) \/ LeaveOpen(p, t)
                           \/ WaitForDeal(p, t)
                           \/ CloseWithDeal(p, t) \/ ForceClose(p, t)
  BY DEF ScanTicket
<1>2. t \in Ticket /\ pc[p] = "scan" /\ UNCHANGED <<closedCsv, lostClosed>>
  BY DEF ScanTicket, disk, lost, TypeInv, TypeOK
<1>3. CASE StillOpen(p, t) \/ LeaveOpen(p, t) \/ WaitForDeal(p, t)
  <2>1. UNCHANGED <<pc, closing>>
    BY <1>3 DEF StillOpen, LeaveOpen, WaitForDeal
  <2>2. Journal!Drop
    BY <1>2, <2>1, OffersDrop
  <2> QED
    BY <2>2 DEF Journal!Next
<1>4. ASSUME NEW row \in ClosedRow, closing' = [closing EXCEPT ![p] = row],
             Goto(p, "closeRead")
      PROVE  Journal!Next
  <2>1. /\ pc' = [pc EXCEPT ![p] = "closeRead"]
        /\ pc \in [Proc -> Place] /\ DOMAIN closing = Proc
    BY <1>4 DEF Goto, TypeInv, TypeOK
  <2>2. Offering' = Offering \cup {p} /\ p \notin Offering
    BY <1>2, <2>1 DEF Offering
  <2>3. closing'[p] = row /\ \A q \in Offering : closing'[q] = closing[q]
    BY <1>4, <2>1, <2>2 DEF Offering
  <2>4. Offered' = Offered \cup {row}
    BY <2>2, <2>3 DEF Offered
  <2>5. Journal!Offer(row)
    BY <1>2, <2>4 DEF Journal!Offer
  <2> QED
    BY <2>5 DEF Journal!Next
<1>5. CASE CloseWithDeal(p, t)
  <2>1. DealRow(t) \in ClosedRow
    BY <1>2 DEF DealRow, ClosedRow
  <2> QED
    BY <1>4, <1>5, <2>1 DEF CloseWithDeal
<1>6. CASE ForceClose(p, t)
  <2>1. [ticket |-> t, at |-> forced + 1] \in ClosedRow
    BY <1>2 DEF ClosedRow, TypeInv, TypeOK
  <2> QED
    BY <1>4, <1>6, <2>1 DEF ForceClose
<1> QED
  BY <1>1, <1>3, <1>5, <1>6

(* An append commits the row it offered. *)
LEMMA AppendCommits ==
  ASSUME TypeInv, NEW p \in Proc, CloseAppend(p)
  PROVE  Journal!Next
<1>1. /\ pc[p] = "closeAppend" /\ pc'[p] \in {"closedOver", "closeWrite"}
      /\ \A q \in Proc : q # p => pc'[q] = pc[q]
      /\ closedCsv' = closedCsv \cup {closing[p]} /\ closing' = closing
      /\ lostClosed' = lostClosed \ {closing[p]}
  BY DEF CloseAppend, Goto, TypeInv, TypeOK
<1>2. closing[p] \in ClosedRow /\ closing[p] \in Offered
  BY <1>1 DEF TypeInv, ClosingTyped, Closing, Offered, Offering
<1>3. Offered' \subseteq Offered
  BY <1>1 DEF Offered, Offering
<1>4. Journal!Commit({closing[p]})
  BY <1>1, <1>2, <1>3 DEF Journal!Commit
<1> QED
  BY <1>2, <1>4 DEF Journal!Next

(* An overwrite that breaks off cuts rows off. *)
LEMMA CutsRows ==
  ASSUME TypeInv, NEW p \in Proc, FilesCut(p),
         \A q \in Proc : pc'[q] \in {"closeRead", "closeAppend"} =>
            pc[q] \in {"closeRead", "closeAppend"} /\ closing'[q] = closing[q]
  PROVE  Journal!Next
<1> DEFINE rows == closedCsv \ closedCsv'
<1>1. Offered' \subseteq Offered
  BY DEF Offered, Offering
<1>2. rows \in SUBSET ClosedRow /\ rows \subseteq closedCsv
  BY DEF TypeInv, TypeOK
<1>3. rows # {} => ReplaceMayFail
  BY DEF FilesCut, TypeInv, ClosingTyped
<1>4. closedCsv' = closedCsv \ rows /\ lostClosed' = lostClosed \cup rows
  BY DEF FilesCut
<1>5. Journal!Cut(rows)
  BY <1>1, <1>2, <1>3, <1>4 DEF Journal!Cut, Journal!Lose
<1> QED
  BY <1>2, <1>5 DEF Journal!Next

LEMMA JournalStep ==
  ASSUME TypeInv, [Next]_vars
  PROVE  [Journal!Next]_(Journal!vars)
<1> SUFFICES Journal!Next \/ Journal!Drop
  BY DEF Journal!Next
<1> USE DEF disk, lost
<1>1. CASE Broker \/ UNCHANGED vars \/ \E p \in Proc, t \in Ticket : Age(p, t)
  <2>1. UNCHANGED <<pc, closing, closedCsv, lostClosed>>
    BY <1>1 DEF Broker, Fill, List, ClosePart, ClosePosition, Age, vars, local
  <2> QED
    BY <2>1, OffersDrop
<1>2. ASSUME NEW p \in Proc,
             \/ \E ts \in SUBSET Ticket : StartSnapshot(p, ts)
             \/ StartCheck(p) \/ StartReconcile(p) \/ StartSync(p)
             \/ \E t \in Ticket : UpdatePolicy(p, t)
      PROVE  Journal!Drop
  BY <1>2, MoveDrops
     DEF StartSnapshot, StartCheck, StartReconcile, StartSync, UpdatePolicy
<1>3. ASSUME NEW p \in Proc,
             \/ SkipSnapshot(p) \/ FailSnapshot(p) \/ ScanDone(p) \/ LoadActive(p)
      PROVE  Journal!Drop
  BY <1>3, FinishDrops DEF SkipSnapshot, FailSnapshot, ScanDone, LoadActive
<1>4. ASSUME NEW p \in Proc, MergeSnapshot(p)
      PROVE  Journal!Drop
  <2>1. UNCHANGED <<closedCsv, lostClosed>>
    BY <1>4 DEF MergeSnapshot
  <2>2. Finish(p) \/ (Goto(p, "snapWrite") /\ closing' = closing)
    BY <1>4 DEF MergeSnapshot
  <2> QED
    BY <2>1, <2>2, FinishDrops, MoveDrops
<1>5. ASSUME NEW p \in Proc, WriteSnapshot(p) \/ CloseWrite(p) \/ FinishOverwrite(p)
      PROVE  Journal!Drop
  <2>1. UNCHANGED <<closing, closedCsv, lostClosed>>
    BY <1>5 DEF WriteSnapshot, CloseWrite, FinishOverwrite
  <2>2. Goto(p, "openOver") \/ Goto(p, "openUpsert") \/ Goto(p, "closeWrite")
    BY <1>5 DEF WriteSnapshot, CloseWrite, FinishOverwrite, OpenWritten
  <2> QED
    BY <2>1, <2>2, MoveDrops
<1>6. ASSUME NEW p \in Proc, CloseRead(p) \/ CloseFails(p) \/ UpsertOpen(p)
      PROVE  Journal!Drop
  <2>1. UNCHANGED <<closedCsv, lostClosed>>
    BY <1>6 DEF CloseRead, CloseFails, UpsertOpen
  <2>2. \/ Finish(p) \/ CloseEnds(p, FALSE) \/ CloseEnds(p, TRUE)
        \/ /\ Goto(p, "closeAppend") /\ closing' = closing
           /\ pc[p] = "closeRead"
    BY <1>6 DEF CloseRead, CloseFails, UpsertOpen
  <2> QED
    BY <2>1, <2>2, FinishDrops, CloseEndsDrops, MoveDrops
<1>7. ASSUME NEW p \in Proc, SyncRead(p) \/ SyncOpen(p) \/ SyncClosed(p)
      PROVE  Journal!Drop
  BY <1>7, MoveDrops DEF SyncRead, SyncOpen, SyncClosed
<1>8. ASSUME NEW p \in Proc, SyncMeta(p) \/ SyncFails(p)
      PROVE  Journal!Drop
  BY <1>8, FinishDrops, MoveDrops DEF SyncMeta, SyncFails
<1>9. ASSUME NEW p \in Proc, Restart(p) \/ OverwriteFails(p)
      PROVE  Journal!Next
  <2>1. FilesCut(p)
    BY <1>9, RestartCuts, BreakOffCuts DEF OverwriteFails, Overwriting
  <2>2. /\ pc'[p] \in {"syncRead", "idle", "scan"}
        /\ \A q \in Proc : q # p => pc'[q] = pc[q] /\ closing'[q] = closing[q]
    BY <1>9 DEF Restart, OverwriteFails, Finish, CloseEnds, Goto, TypeInv, TypeOK
  <2> QED
    BY <2>1, <2>2, CutsRows
<1> QED
  BY <1>1, <1>2, <1>3, <1>4, <1>5, <1>6, <1>7, <1>8, <1>9, ScanOffers,
     AppendCommits DEF Next, Continue

(* Whatever number of processes write, crash or fail, the ledger uses the  *)
(* closed file as the journal that append_closed_rows promises: what it    *)
(* appends was offered by a close, and no row of it is lost, unless an     *)
(* overwrite in place breaks off and cuts it off. The one-step append here *)
(* stands for the steps of ClosedBatch, which implement the same journal   *)
(* (update_closed_trade, force_close_unknown).                             *)
THEOREM LedgerUsesJournal == Spec => Journal!Spec
<1>1. Init => Journal!Init
  BY DEF Init, Journal!Init, Offered, Offering
<1>2. TypeInv /\ [Next]_vars => [Journal!Next]_(Journal!vars)
  BY JournalStep
<1> QED
  BY <1>1, <1>2, TypeInvariant, PTL DEF Spec, Journal!Spec

=============================================================================
