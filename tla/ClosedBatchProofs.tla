------------------------- MODULE ClosedBatchProofs -------------------------
(* Theorems about ClosedBatch, for any number of threads, rows and calls.  *)
EXTENDS ClosedBatch, TLAPS

(* What an append writes to disk is a set of rows, whatever was pruned.    *)
LEMMA NewestSubset == \A rows : Newest(rows) \subseteq rows
  BY DEF Newest

(* AfterAppend leads a caller to its signals and a closer back to idle.    *)
LEMMA AfterAppendTyped ==
  ASSUME NEW a \in Appenders
  PROVE  /\ AfterAppend(a) \in LeaderStep \cup CloserStep
         /\ a \in Callers => AfterAppend(a) = "signal"
         /\ a \in Closers => AfterAppend(a) = "idle"
  BY BatchAssumption DEF AfterAppend, AppendPlace, LeaderStep, CloserStep, Appenders

(* What a reader finds is part of what the file holds or will hold.        *)
LEMMA VisibleRows == \A rows \in Visible : rows \subseteq closedFile
  BY DEF Visible

-----------------------------------------------------------------------------
(* Every variable keeps its type in every reachable state of the batch     *)
(* and of the closed file.                                                 *)
THEOREM TypeCorrect == Spec => []TypeOK
<1>1. Init => TypeOK
  <2> SUFFICES ASSUME Init PROVE TypeOK
    OBVIOUS
  <2>1. request \in [Callers -> Request]
    BY DEF Init, Request, RequestId
  <2>2. pc \in [Appenders -> LeaderStep \cup CloserStep \cup {"await"}]
        /\ \A d \in Closers : pc[d] \in CloserStep
    BY DEF Init, AppendPlace, CloserStep, Appenders
  <2> QED
    BY <2>1, <2>2, BatchAssumption DEF Init, TypeOK
<1>2. TypeOK /\ [Next]_vars => TypeOK'
  <2> SUFFICES ASSUME TypeOK, [Next]_vars PROVE TypeOK'
    OBVIOUS
  <2> USE DEF TypeOK, memory, files, AppendPlace
  <2>1. ASSUME NEW c \in Callers, NEW rows \in SUBSET Row, Submit(c, rows)
        PROVE  TypeOK'
    <3>1. [id |-> <<c, calls[c] + 1>>, rows |-> rows] \in Request
      BY <2>1 DEF Request, RequestId, Appenders
    <3> QED
      BY <2>1, <3>1, BatchAssumption DEF Submit, Appenders, LeaderStep
  <2>2. ASSUME NEW c \in Callers, TakeBatch(c) PROVE TypeOK'
    BY <2>2, BatchAssumption
       DEF TakeBatch, Appenders, LeaderStep, RowsOf, Request
  <2>3. ASSUME NEW c \in Callers, NEW r \in batch[c], SignalOne(c, r)
        PROVE  TypeOK'
    BY <2>3, BatchAssumption DEF SignalOne, Appenders, LeaderStep, Request
  <2>4. ASSUME NEW c \in Callers, ReleaseLead(c) PROVE TypeOK'
    BY <2>4, BatchAssumption DEF ReleaseLead, Appenders, LeaderStep
  <2>5. ASSUME NEW c \in Callers, Answered(c) PROVE TypeOK'
    BY <2>5, BatchAssumption DEF Answered, OutcomeOf, Appenders, LeaderStep,
       CloserStep
  <2>6. ASSUME NEW c \in Callers, TimedOut(c) PROVE TypeOK'
    BY <2>6, BatchAssumption DEF TimedOut, Appenders, LeaderStep, CloserStep
  <2>7. ASSUME NEW d \in Closers, NEW row \in Row, CloseTrade(d, row)
        PROVE  TypeOK'
    BY <2>7, BatchAssumption DEF CloseTrade, Appenders, LeaderStep, CloserStep
  <2>8. ASSUME NEW a \in Appenders, AcquireLock(a) PROVE TypeOK'
    BY <2>8, BatchAssumption DEF AcquireLock, Appenders, AppendPlace, LeaderStep, CloserStep
  <2>9. ASSUME NEW a \in Appenders, AppendFails(a),
               lock' \in Appenders \cup {NoThread}, closedTable' = closedTable,
               closedFile' \subseteq Row, lost' \subseteq Row
        PROVE  TypeOK'
    BY <2>9, AfterAppendTyped, BatchAssumption
       DEF AppendFails, Appenders, LeaderStep, CloserStep
  <2>10. ASSUME NEW a \in Appenders, ReadBase(a) PROVE TypeOK'
    BY <2>10, BatchAssumption DEF ReadBase, Appenders, LeaderStep, CloserStep
  <2>11. ASSUME NEW a \in Appenders, WriteMerged(a) PROVE TypeOK'
    BY <2>11, BatchAssumption DEF WriteMerged, Merged, Appenders, LeaderStep, CloserStep
  <2>15. ASSUME NEW a \in Appenders, StartOverwrite(a) \/ FinishOverwrite(a)
         PROVE  TypeOK'
    BY <2>15, BatchAssumption
       DEF StartOverwrite, FinishOverwrite, Merged, Appenders, LeaderStep,
           CloserStep
  <2>16. ASSUME NEW a \in Appenders, OverwriteFails(a) PROVE TypeOK'
    <3>1. closedFile' \subseteq Row /\ lost' \subseteq Row
      BY <2>16, VisibleRows DEF OverwriteFails, CutTo
    <3> QED
      BY <2>9, <2>16, <3>1 DEF OverwriteFails
  <2>12. ASSUME NEW a \in Appenders, UpsertTable(a) PROVE TypeOK'
    <3>1. closedTable' \subseteq Row
      BY <2>12, NewestSubset DEF UpsertTable
    <3> QED
      BY <2>12, <3>1, AfterAppendTyped, BatchAssumption
         DEF UpsertTable, Appenders, LeaderStep, CloserStep
  <2>13. CASE Restart
    <3>1. /\ closedTable' \subseteq Row
          /\ closedFile' \subseteq Row /\ lost' \subseteq Row
      <4>1. PICK rows \in Visible :
               /\ closedTable' = Newest(rows) \/ closedTable' = closedTable
               /\ CutTo(rows) \/ UNCHANGED <<closedFile, lost>>
        BY <2>13 DEF Restart
      <4> QED
        BY <4>1, NewestSubset, VisibleRows DEF CutTo
    <3>2. pc' \in [Appenders -> LeaderStep \cup CloserStep \cup {"await"}]
          /\ \A d \in Closers : pc'[d] \in CloserStep
      BY <2>13 DEF Restart, Appenders, LeaderStep, CloserStep
    <3>3. adding' \in [Appenders -> SUBSET Row] /\ base' \in [Appenders -> SUBSET Row]
      BY <2>13 DEF Restart
    <3>4. /\ outcome' \in [Callers -> {"none", "ok", "error", "timeout"}]
          /\ batch' \in [Callers -> SUBSET Request]
          /\ flushFailed' \in [Callers -> BOOLEAN]
      BY <2>13 DEF Restart
    <3>5. restarts' \in Nat /\ lock' \in Appenders \cup {NoThread}
      BY <2>13 DEF Restart
    <3>6. /\ calls' \in [Appenders -> Nat] /\ request' \in [Callers -> Request]
      BY <2>13 DEF Restart
    <3>7. /\ pending' \subseteq Request
          /\ signalled' \subseteq RequestId /\ failed' \subseteq RequestId
      BY <2>13 DEF Restart
    <3>8. leaderActive' \in BOOLEAN
      BY <2>13, Zenon DEF Restart
    <3> QED
      BY <3>1, <3>2, <3>3, <3>4, <3>5, <3>6, <3>7, <3>8
  <2>14. CASE UNCHANGED vars
    BY <2>14 DEF vars
  <2> QED
    BY <2>1, <2>2, <2>3, <2>4, <2>5, <2>6, <2>7, <2>8, <2>9, <2>10, <2>11,
       <2>12, <2>13, <2>14, <2>15, <2>16
       DEF Next, LeadStep, AppendStep, LockTimeout, WriteFails
<1> QED
  BY <1>1, <1>2, PTL DEF Spec

-----------------------------------------------------------------------------
(* The leader: there is one exactly while somebody leads, and whatever is  *)
(* queued has one.                                                         *)
LeadInv == NoStrandedRequest /\ LeaderFindsWork

(* A step that changes no caller's role, nor the queue, keeps LeadInv.     *)
LEMMA SameLeaders ==
  ASSUME LeadInv, UNCHANGED <<pending, leaderActive>>,
         \A c \in Callers :
            /\ pc'[c] \in LeaderStep <=> pc[c] \in LeaderStep
            /\ pc'[c] = "window" => pc[c] = "window"
  PROVE  LeadInv'
<1>1. Leaders' = Leaders
  BY DEF Leaders, AppendPlace, LeaderStep
<1>2. pending' = pending /\ (leaderActive' <=> leaderActive)
  OBVIOUS
<1> QED
  BY <1>1, <1>2 DEF LeadInv, NoStrandedRequest, LeaderFindsWork

LEMMA LeadStepInv ==
  ASSUME TypeOK, LeadInv, [Next]_vars
  PROVE  LeadInv'
<1> USE BatchAssumption DEF TypeOK, Appenders, AppendPlace
<1>1. ASSUME NEW c \in Callers, NEW rows \in SUBSET Row, Submit(c, rows)
      PROVE  LeadInv'
  <2>1. Leaders' = IF leaderActive THEN Leaders ELSE Leaders \cup {c}
    BY <1>1 DEF Submit, Leaders, LeaderStep
  <2>2. CASE leaderActive
    BY <1>1, <2>1, <2>2
       DEF Submit, LeadInv, NoStrandedRequest, LeaderFindsWork
  <2>3. CASE ~leaderActive
    <3>1. Leaders' = {c}
      BY <2>1, <2>3 DEF LeadInv, NoStrandedRequest
    <3> QED
      BY <1>1, <2>3, <3>1
         DEF Submit, LeadInv, NoStrandedRequest, LeaderFindsWork
  <2> QED
    BY <2>2, <2>3
<1>2. ASSUME NEW c \in Callers, TakeBatch(c) PROVE LeadInv'
  <2>1. Leaders' = Leaders /\ c \in Leaders
    BY <1>2 DEF TakeBatch, Leaders, LeaderStep
  <2>2. \A d \in Callers : pc'[d] # "window"
    BY <1>2, <2>1 DEF TakeBatch, LeadInv, NoStrandedRequest, Leaders, LeaderStep
  <2> QED
    BY <1>2, <2>1, <2>2
       DEF TakeBatch, LeadInv, NoStrandedRequest, LeaderFindsWork
<1>3. ASSUME NEW c \in Callers, NEW r \in batch[c], SignalOne(c, r)
      PROVE  LeadInv'
  BY <1>3, SameLeaders DEF SignalOne, LeaderStep
<1>4. ASSUME NEW c \in Callers, ReleaseLead(c) PROVE LeadInv'
  <2>1. c \in Leaders /\ \A d \in Leaders : d = c
    BY <1>4 DEF ReleaseLead, Leaders, LeaderStep, LeadInv, NoStrandedRequest
  <2>2. CASE pending = {}
    <3>1. Leaders' = {}
      BY <1>4, <2>1, <2>2 DEF ReleaseLead, NothingPending, Leaders, LeaderStep
    <3> QED
      BY <1>4, <2>2, <3>1 DEF ReleaseLead, NothingPending, LeadInv,
         NoStrandedRequest, LeaderFindsWork, Leaders, LeaderStep
  <2>3. CASE pending # {}
    <3>1. Leaders' = Leaders
      BY <1>4, <2>3 DEF ReleaseLead, NothingPending, Leaders, LeaderStep
    <3> QED
      BY <1>4, <2>1, <2>3, <3>1 DEF ReleaseLead, NothingPending, LeadInv,
         NoStrandedRequest, LeaderFindsWork
  <2> QED
    BY <2>2, <2>3
<1>5. ASSUME NEW c \in Callers, Answered(c) \/ TimedOut(c) PROVE LeadInv'
  BY <1>5, SameLeaders DEF Answered, TimedOut, LeaderStep
<1>6. ASSUME NEW d \in Closers, NEW row \in Row, CloseTrade(d, row)
      PROVE  LeadInv'
  BY <1>6, SameLeaders DEF CloseTrade, memory
<1>7. ASSUME NEW a \in Appenders, AppendStep(a) PROVE LeadInv'
  <2>1. a \in Callers => AfterAppend(a) = "signal"
    BY AfterAppendTyped
  <2> QED
    BY <1>7, <2>1, SameLeaders
       DEF AppendStep, AcquireLock, LockTimeout, ReadBase, WriteMerged,
           WriteFails, StartOverwrite, FinishOverwrite, OverwriteFails,
           UpsertTable, AppendFails, memory, AppendPlace, LeaderStep
<1>8. CASE Restart
  <2>1. Leaders' = {}
    BY <1>8 DEF Restart, Leaders, LeaderStep, Process
  <2> QED
    BY <1>8, <2>1
       DEF Restart, LeadInv, NoStrandedRequest, LeaderFindsWork, Leaders,
           LeaderStep
<1>9. CASE UNCHANGED vars
  BY <1>9, SameLeaders DEF vars, memory
<1> QED
  BY <1>1, <1>2, <1>3, <1>4, <1>5, <1>6, <1>7, <1>8, <1>9 DEF Next, LeadStep

(* However many callers, rows and restarts there are, a queued request has *)
(* a leader, no caller leads beside another, and the leader that ends its  *)
(* window finds requests (append_closed_rows,                              *)
(* run_closed_batch_leader_loop).                                          *)
THEOREM RequestsAreLed == Spec => [](NoStrandedRequest /\ LeaderFindsWork)
<1>1. Init => LeadInv
  BY DEF Init, LeadInv, NoStrandedRequest, LeaderFindsWork, Leaders,
     AppendPlace, LeaderStep, Appenders
<1>2. TypeOK /\ LeadInv /\ [Next]_vars => LeadInv'
  BY LeadStepInv
<1>3. LeadInv => NoStrandedRequest /\ LeaderFindsWork
  BY DEF LeadInv
<1> QED
  BY <1>1, <1>2, <1>3, TypeCorrect, PTL DEF Spec

-----------------------------------------------------------------------------
(* A leader holds a batch only from the moment it took it to the last      *)
(* signal.                                                                 *)
ServeInv ==
  /\ LeaderServesItself
  /\ \A c \in Callers :
        pc[c] \in {"idle", "await", "window", "release"} => batch[c] = {}

LEMMA SameService ==
  ASSUME ServeInv, UNCHANGED <<pending, signalled, request, batch>>,
         \A c \in Callers :
            /\ pc'[c] \in LeaderStep => pc[c] \in LeaderStep
            /\ pc'[c] \in {"idle", "await", "window", "release"}
                  => pc[c] \in {"idle", "await", "window", "release"}
  PROVE  ServeInv'
<1>1. Leaders' \subseteq Leaders
  BY DEF Leaders, AppendPlace, LeaderStep
<1> QED
  BY <1>1 DEF ServeInv, LeaderServesItself, Leaders

LEMMA ServeStepInv ==
  ASSUME TypeOK, LeadInv, ServeInv, [Next]_vars
  PROVE  ServeInv'
<1> USE BatchAssumption DEF TypeOK, Appenders, AppendPlace
<1>1. ASSUME NEW c \in Callers, NEW rows \in SUBSET Row, Submit(c, rows)
      PROVE  ServeInv'
  <2>1. Leaders' \subseteq Leaders \cup {c} /\ request'[c] \in pending'
    BY <1>1 DEF Submit, Leaders, LeaderStep
  <2>2. \A d \in Callers : d # c => request'[d] = request[d]
    BY <1>1 DEF Submit
  <2>3. pending \subseteq pending' /\ batch' = batch /\ signalled' = signalled
    BY <1>1 DEF Submit
  <2>4. LeaderServesItself'
    BY <2>1, <2>2, <2>3 DEF ServeInv, LeaderServesItself, Leaders
  <2> QED
    BY <1>1, <2>4 DEF Submit, ServeInv
<1>2. ASSUME NEW c \in Callers, TakeBatch(c) PROVE ServeInv'
  <2>1. Leaders' = {c} /\ Leaders = {c}
    BY <1>2 DEF TakeBatch, Leaders, LeaderStep, LeadInv, NoStrandedRequest
  <2>2. batch'[c] = pending /\ batch[c] = {}
    BY <1>2 DEF TakeBatch, ServeInv
  <2>3. LeaderServesItself'
    BY <1>2, <2>1, <2>2 DEF TakeBatch, ServeInv, LeaderServesItself
  <2> QED
    BY <1>2, <2>3 DEF TakeBatch, ServeInv
<1>3. ASSUME NEW c \in Callers, NEW r \in batch[c], SignalOne(c, r)
      PROVE  ServeInv'
  <2>1. Leaders' = Leaders
    BY <1>3 DEF SignalOne, Leaders, LeaderStep
  <2>2. \A d \in Callers : batch'[d] = IF d = c THEN batch[c] \ {r} ELSE batch[d]
    BY <1>3 DEF SignalOne
  <2>3. LeaderServesItself'
    BY <1>3, <2>1, <2>2 DEF SignalOne, ServeInv, LeaderServesItself, Leaders
  <2> QED
    BY <1>3, <2>2, <2>3 DEF SignalOne, ServeInv
<1>4. ASSUME NEW c \in Callers, ReleaseLead(c) PROVE ServeInv'
  BY <1>4, SameService DEF ReleaseLead, LeaderStep
<1>5. ASSUME NEW c \in Callers, Answered(c) \/ TimedOut(c) PROVE ServeInv'
  BY <1>5, SameService DEF Answered, TimedOut, LeaderStep
<1>6. ASSUME NEW d \in Closers, NEW row \in Row, CloseTrade(d, row)
      PROVE  ServeInv'
  BY <1>6, SameService DEF CloseTrade, memory
<1>7. ASSUME NEW a \in Appenders, AppendStep(a) PROVE ServeInv'
  <2>1. a \in Callers => AfterAppend(a) = "signal"
    BY AfterAppendTyped
  <2> QED
    BY <1>7, <2>1, SameService
       DEF AppendStep, AcquireLock, LockTimeout, ReadBase, WriteMerged,
           WriteFails, StartOverwrite, FinishOverwrite, OverwriteFails,
           UpsertTable, AppendFails, memory, AppendPlace, LeaderStep
<1>8. CASE Restart
  <2>1. Leaders' = {}
    BY <1>8 DEF Restart, Leaders, LeaderStep, Process
  <2> QED
    BY <1>8, <2>1 DEF Restart, ServeInv, LeaderServesItself
<1>9. CASE UNCHANGED vars
  BY <1>9, SameService DEF vars, memory
<1> QED
  BY <1>1, <1>2, <1>3, <1>4, <1>5, <1>6, <1>7, <1>8, <1>9 DEF Next, LeadStep

(* The caller that leads has its own request queued, in its batch or       *)
(* signalled as long as it leads, so the timeout of event.wait never hits  *)
(* it (append_closed_rows).                                                *)
THEOREM LeaderIsServed == Spec => []LeaderServesItself
<1>1. Init => ServeInv
  BY DEF Init, ServeInv, LeaderServesItself, Leaders, AppendPlace, LeaderStep, Appenders
<1>2. TypeOK /\ LeadInv /\ ServeInv /\ [Next]_vars => ServeInv'
  BY ServeStepInv
<1>3. LeadInv <=> NoStrandedRequest /\ LeaderFindsWork
  BY DEF LeadInv
<1>4. ServeInv => LeaderServesItself
  BY DEF ServeInv
<1> QED
  BY <1>1, <1>2, <1>3, <1>4, TypeCorrect, RequestsAreLed, PTL DEF Spec

-----------------------------------------------------------------------------
(* The rows of the file, and those an overwrite that broke off did not     *)
(* bring back: no step takes a row out of both.                            *)
Kept == closedFile \cup lost

(* The files: a thread between its read and the end of its write holds the *)
(* lock, so what it read is still what the file holds; a thread at the     *)
(* table has brought its rows to the file; a row that was appended again   *)
(* is not lost any more.                                                   *)
FileInv ==
  /\ \A a \in Appenders : pc[a] \in {"read", "write", "overwrite"} => lock = a
  /\ \A a \in Appenders : pc[a] = "write" => base[a] = closedFile
  /\ \A a \in Appenders : pc[a] \in {"overwrite", "table"} => adding[a] \subseteq Kept
  /\ closedTable \subseteq Kept
  /\ closedFile \cap lost = {}
  /\ (\E a \in Appenders : pc[a] = "overwrite") => ReplaceMayFail

(* What a step does to the closed file. *)
FileStep ==
  /\ Kept \subseteq Kept'
  /\ closedFile \subseteq closedFile' \cup (lost' \ lost)
  /\ closedFile' \cap lost' = {}

LEMMA CutStep ==
  ASSUME FileInv, NEW rows \in Visible, CutTo(rows)
  PROVE  FileStep
<1>1. rows \subseteq closedFile /\ closedFile \cap lost = {}
  BY VisibleRows DEF FileInv
<1>2. closedFile' = rows /\ lost' = lost \cup (closedFile \ rows)
  BY DEF CutTo
<1> QED
  BY <1>1, <1>2 DEF FileStep, Kept

LEMMA SameFiles ==
  ASSUME FileInv, UNCHANGED <<lock, closedFile, closedTable, lost>>,
         \A a \in Appenders :
            pc'[a] \in {"read", "write", "overwrite", "table"}
               => /\ pc'[a] = pc[a]
                  /\ base'[a] = base[a] /\ adding'[a] = adding[a]
  PROVE  FileInv' /\ FileStep
BY DEF FileInv, FileStep, Kept

(* The append of a thread fails, and the file keeps or loses rows.         *)
LEMMA FileFails ==
  ASSUME TypeOK, FileInv, NEW a \in Appenders, AppendFails(a),
         pc[a] \in {"read", "write", "overwrite"}, lock' = NoThread,
         closedTable' = closedTable, FileStep
  PROVE  FileInv'
<1>1. AfterAppend(a) \in {"signal", "idle"}
  BY AfterAppendTyped, BatchAssumption DEF Appenders
<1>2. \A b \in Appenders : b # a => pc[b] \notin {"read", "write", "overwrite"}
  BY DEF FileInv
<1> QED
  BY <1>1, <1>2 DEF AppendFails, FileInv, FileStep, TypeOK

LEMMA FileStepInv ==
  ASSUME TypeOK, FileInv, [Next]_vars, ~ReadMayFail
  PROVE  FileInv' /\ FileStep
<1> USE BatchAssumption DEF TypeOK, Appenders
<1>1. ASSUME NEW c \in Callers,
             \/ \E rows \in SUBSET Row : Submit(c, rows)
             \/ LeadStep(c) \/ Answered(c) \/ TimedOut(c)
      PROVE  FileInv' /\ FileStep
  BY <1>1, SameFiles DEF Submit, LeadStep, TakeBatch, SignalOne, ReleaseLead,
     Answered, TimedOut, files
<1>2. ASSUME NEW d \in Closers, NEW row \in Row, CloseTrade(d, row)
      PROVE  FileInv' /\ FileStep
  BY <1>2, SameFiles DEF CloseTrade, files
<1>3. ASSUME NEW a \in Appenders, AcquireLock(a)
      PROVE  FileInv' /\ FileStep
  BY <1>3 DEF AcquireLock, LockFree, FileInv, FileStep, Kept, files
<1>4. ASSUME NEW a \in Appenders, LockTimeout(a)
      PROVE  FileInv' /\ FileStep
  <2>1. AfterAppend(a) \in {"signal", "idle"}
    BY AfterAppendTyped
  <2> QED
    BY <1>4, <2>1, SameFiles DEF LockTimeout, AppendFails, files
<1>5. ASSUME NEW a \in Appenders, ReadBase(a)
      PROVE  FileInv' /\ FileStep
  BY <1>5 DEF ReadBase, FileInv, FileStep, Kept, files
<1>6. ASSUME NEW a \in Appenders, WriteMerged(a) \/ StartOverwrite(a)
      PROVE  FileInv' /\ FileStep
  <2>1. /\ closedFile' = closedFile \cup adding[a] /\ lost' = lost \ adding[a]
        /\ pc' = [pc EXCEPT ![a] = IF WriteMerged(a) THEN "table" ELSE "overwrite"]
        /\ pc[a] = "write" /\ UNCHANGED <<adding, closedTable>>
        /\ lock' = IF WriteMerged(a) THEN NoThread ELSE lock
        /\ base' = [base EXCEPT ![a] = {}]
    BY <1>6 DEF WriteMerged, StartOverwrite, Merged, FileInv
  <2>2. \A b \in Appenders : b # a => pc[b] \notin {"read", "write", "overwrite"}
    BY <1>6 DEF WriteMerged, StartOverwrite, FileInv
  <2>3. FileStep /\ adding[a] \subseteq Kept'
    BY <2>1 DEF FileInv, FileStep, Kept
  <2>4. \A b \in Appenders : b # a => pc'[b] = pc[b]
    BY <2>1
  <2>5. pc'[a] \in {"table", "overwrite"} /\ (pc'[a] = "overwrite" => lock' = lock)
    BY <2>1
  <2>6. \A b \in Appenders : pc'[b] \in {"overwrite", "table"}
                                => adding'[b] \subseteq Kept'
    BY <2>1, <2>3, <2>4 DEF FileInv, FileStep
  <2>7. lock = a
    BY <2>1 DEF FileInv
  <2>8. pc'[a] = "overwrite" => ReplaceMayFail
    BY <1>6, <2>1 DEF WriteMerged, StartOverwrite
  <2> QED
    BY <2>1, <2>2, <2>3, <2>4, <2>5, <2>6, <2>7, <2>8 DEF FileInv, FileStep
<1>7. ASSUME NEW a \in Appenders, WriteFails(a)
      PROVE  FileInv' /\ FileStep
  BY <1>7, FileFails DEF WriteFails, FileInv, FileStep, Kept, files
<1>11. ASSUME NEW a \in Appenders, FinishOverwrite(a)
       PROVE  FileInv' /\ FileStep
  <2>1. \A b \in Appenders : b # a => pc[b] \notin {"read", "write", "overwrite"}
    BY <1>11 DEF FinishOverwrite, FileInv
  <2> QED
    BY <1>11, <2>1 DEF FinishOverwrite, FileInv, FileStep, Kept, files
<1>12. ASSUME NEW a \in Appenders, OverwriteFails(a)
       PROVE  FileInv' /\ FileStep
  <2>1. FileStep
    BY <1>12, CutStep DEF OverwriteFails
  <2> QED
    BY <1>12, <2>1, FileFails DEF OverwriteFails
<1>8. ASSUME NEW a \in Appenders, UpsertTable(a)
      PROVE  FileInv' /\ FileStep
  <2>1. AfterAppend(a) \in {"signal", "idle"}
    BY AfterAppendTyped
  <2>2. closedTable' \subseteq Kept
    BY <1>8, NewestSubset DEF UpsertTable, FileInv
  <2>3. Kept' = Kept /\ closedFile' = closedFile
    BY <1>8 DEF UpsertTable, Kept
  <2> QED
    BY <1>8, <2>1, <2>2, <2>3 DEF UpsertTable, FileInv, FileStep
<1>9. CASE Restart
  <2>1. PICK rows \in Visible :
           /\ closedTable' = Newest(rows) \/ closedTable' = closedTable
           /\ CutTo(rows) \/ UNCHANGED <<closedFile, lost>>
           /\ (\E a \in Process : pc[a] = "overwrite")
                \/ UNCHANGED <<closedFile, lost>>
    BY <1>9 DEF Restart
  <2>2. FileStep
    BY <2>1, CutStep DEF FileInv, FileStep, Kept
  <2>3. closedTable' \subseteq Kept
    <3>1. Newest(rows) \subseteq rows /\ rows \subseteq closedFile
      BY NewestSubset, VisibleRows
    <3>2. closedTable' = Newest(rows) \/ closedTable' = closedTable
      BY <2>1
    <3>3. closedTable \subseteq Kept
      BY DEF FileInv
    <3> QED
      BY <3>1, <3>2, <3>3 DEF Kept
  <2>4. \A a \in Appenders : a \in Process => pc'[a] = "idle"
    BY <1>9 DEF Restart
  <2>5. \A a \in Appenders : a \notin Process =>
           pc'[a] = pc[a] /\ base'[a] = base[a] /\ adding'[a] = adding[a]
    BY <1>9 DEF Restart
  <2>6. \A a \in Appenders : a \notin Process /\ lock = a => lock' = a
    BY <1>9 DEF Restart
  <2>7. ASSUME NEW a \in Appenders, a \notin Process, pc[a] = "write"
        PROVE  closedFile' = closedFile
    <3>1. \A b \in Process : pc[b] # "overwrite"
      BY <2>7 DEF FileInv, Process
    <3> QED
      BY <2>1, <3>1
  <2> QED
    BY <2>2, <2>3, <2>4, <2>5, <2>6, <2>7 DEF FileInv, FileStep
<1>10. CASE UNCHANGED vars
  BY <1>10, SameFiles DEF vars, files
<1> QED
  BY <1>1, <1>2, <1>3, <1>4, <1>5, <1>6, <1>7, <1>8, <1>9, <1>10, <1>11, <1>12
     DEF Next, AppendStep

LEMMA FileInvariant ==
  ASSUME ~ReadMayFail
  PROVE  Spec => []FileInv
<1>1. Init => FileInv
  BY BatchAssumption DEF Init, FileInv, Kept
<1>2. TypeOK /\ FileInv /\ [Next]_vars => FileInv'
  BY FileStepInv
<1> QED
  BY <1>1, <1>2, TypeCorrect, PTL DEF Spec

(* With readable files no append of any thread or process, no failure and  *)
(* no restart removes a row from the closed file, except that an overwrite *)
(* in place that breaks off cuts off rows, which the ghost lost names      *)
(* (append_to_closed_file, atomic_write_df).                               *)
THEOREM FileGrows ==
  ASSUME ~ReadMayFail
  PROVE  Spec => HistoryGrows
<1>1. TypeOK /\ FileInv /\ [Next]_vars
        => [closedFile \subseteq closedFile' \cup (lost' \ lost)]_vars
  BY FileStepInv DEF FileStep
<1> QED
  BY <1>1, TypeCorrect, FileInvariant, PTL DEF Spec, HistoryGrows

(* Where os.replace is never refused to the last retry, no row is ever     *)
(* lost: with FileGrows and OkIsDurable, the file only grows, and a normal *)
(* return means that the rows are in it for good.                          *)
THEOREM NothingLost ==
  ASSUME ~ReplaceMayFail
  PROVE  Spec => [](lost = {})
<1> DEFINE I == lost = {} /\ \A a \in Appenders : pc[a] # "overwrite"
<1>1. Init => I
  BY DEF Init
<1>2. TypeOK /\ I /\ [Next]_vars => I'
  <2> SUFFICES ASSUME TypeOK, I, [Next]_vars PROVE I'
    OBVIOUS
  <2> USE BatchAssumption DEF TypeOK, Appenders
  <2>1. ASSUME NEW c \in Callers,
               \/ \E rows \in SUBSET Row : Submit(c, rows)
               \/ LeadStep(c) \/ Answered(c) \/ TimedOut(c)
        PROVE  I'
    BY <2>1 DEF Submit, LeadStep, TakeBatch, SignalOne, ReleaseLead, Answered,
       TimedOut, files
  <2>2. ASSUME NEW d \in Closers, NEW row \in Row, CloseTrade(d, row) PROVE I'
    BY <2>2 DEF CloseTrade, files
  <2>3. ASSUME NEW a \in Appenders, AppendStep(a) PROVE I'
    <3>1. AfterAppend(a) # "overwrite"
      BY AfterAppendTyped
    <3> QED
      BY <2>3, <3>1 DEF AppendStep, AcquireLock, LockTimeout, ReadBase,
         WriteMerged, WriteFails, StartOverwrite, FinishOverwrite,
         OverwriteFails, UpsertTable, AppendFails, files
  <2>4. CASE Restart
    BY <2>4 DEF Restart, Process
  <2>5. CASE UNCHANGED vars
    BY <2>5 DEF vars, files
  <2> QED
    BY <2>1, <2>2, <2>3, <2>4, <2>5 DEF Next
<1> QED
  BY <1>1, <1>2, TypeCorrect, PTL DEF Spec

(* With readable files the SQLite copy never runs ahead of the file: what  *)
(* it shows is in the file or was cut off by an overwrite that broke off.  *)
THEOREM TableFollows ==
  ASSUME ~ReadMayFail
  PROVE  Spec => []TableBehindFile
<1>1. FileInv => TableBehindFile
  BY DEF FileInv, TableBehindFile, Kept
<1> QED
  BY <1>1, FileInvariant, PTL

-----------------------------------------------------------------------------
(* The requests: a caller's current request carries its last number, and   *)
(* nothing queued, taken or signalled carries a later one.                 *)
Known(r) ==
  \A c \in Callers, n \in Nat : r.id = <<c, n>> =>
     n <= calls[c] /\ (n = calls[c] => r = request[c])

IdInv ==
  /\ \A c \in Callers : request[c].id = <<c, calls[c]>>
  /\ \A r \in pending : Known(r)
  /\ \A c \in Callers : \A r \in batch[c] : Known(r)
  /\ \A c \in Callers, n \in Nat : <<c, n>> \in signalled => n <= calls[c]

LEMMA SameRequests ==
  ASSUME IdInv, UNCHANGED request, \A c \in Callers : calls'[c] = calls[c],
         pending' \subseteq pending, signalled' \subseteq signalled,
         \A c \in Callers : batch'[c] \subseteq batch[c] \cup pending
  PROVE  IdInv'
BY DEF IdInv, Known

LEMMA IdStepInv ==
  ASSUME TypeOK, IdInv, [Next]_vars
  PROVE  IdInv'
<1> USE BatchAssumption DEF TypeOK, Appenders, AppendPlace
<1>1. ASSUME NEW c \in Callers, NEW rows \in SUBSET Row, Submit(c, rows)
      PROVE  IdInv'
  <2> DEFINE r == [id |-> <<c, calls[c] + 1>>, rows |-> rows]
  <2>1. /\ request' = [request EXCEPT ![c] = r]
        /\ calls' = [calls EXCEPT ![c] = calls[c] + 1]
        /\ pending' = pending \cup {r}
        /\ batch' = batch /\ signalled' = signalled
    BY <1>1 DEF Submit
  <2>2. calls[c] \in Nat /\ \A d \in Callers : calls[d] \in Nat
    OBVIOUS
  <2>3. ASSUME NEW q, Known(q) PROVE Known(q)'
    BY <2>1, <2>2, <2>3 DEF Known
  <2>4. ASSUME NEW q, q = r PROVE Known(q)'
    BY <2>1, <2>2, <2>4 DEF Known
  <2>5. \A d \in Callers : request'[d].id = <<d, calls'[d]>>
    BY <2>1, <2>2 DEF IdInv
  <2>6. \A d \in Callers, n \in Nat : <<d, n>> \in signalled => n <= calls'[d]
    BY <2>1, <2>2 DEF IdInv
  <2>7. ASSUME NEW q \in pending' PROVE Known(q)'
    <3>1. q = r \/ Known(q)
      BY <2>1 DEF IdInv
    <3> QED
      BY <2>3, <2>4, <3>1
  <2>8. \A d \in Callers : \A q \in batch'[d] : Known(q)'
    BY <2>1, <2>3 DEF IdInv
  <2> QED
    BY <2>1, <2>5, <2>6, <2>7, <2>8 DEF IdInv
<1>2. ASSUME NEW c \in Callers, TakeBatch(c) PROVE IdInv'
  BY <1>2, SameRequests DEF TakeBatch
<1>3. ASSUME NEW c \in Callers, NEW r \in batch[c], SignalOne(c, r)
      PROVE  IdInv'
  <2>1. /\ request' = request /\ calls' = calls /\ pending' = pending
        /\ signalled' = signalled \cup {r.id}
        /\ \A d \in Callers : batch'[d] \subseteq batch[d]
    BY <1>3 DEF SignalOne
  <2>2. \A d \in Callers, n \in Nat : <<d, n>> \in signalled' => n <= calls[d]
    BY <2>1 DEF IdInv, Known
  <2> QED
    BY <2>1, <2>2 DEF IdInv, Known
<1>4. ASSUME NEW c \in Callers, ReleaseLead(c) \/ Answered(c) \/ TimedOut(c)
      PROVE  IdInv'
  BY <1>4, SameRequests DEF ReleaseLead, Answered, TimedOut
<1>5. ASSUME NEW d \in Closers, NEW row \in Row, CloseTrade(d, row)
      PROVE  IdInv'
  BY <1>5, SameRequests DEF CloseTrade, memory
<1>6. ASSUME NEW a \in Appenders, AppendStep(a) PROVE IdInv'
  BY <1>6, SameRequests
     DEF AppendStep, AcquireLock, LockTimeout, ReadBase, WriteMerged,
         WriteFails, StartOverwrite, FinishOverwrite, OverwriteFails,
           UpsertTable, AppendFails, memory
<1>7. CASE Restart
  BY <1>7, SameRequests DEF Restart
<1>8. CASE UNCHANGED vars
  BY <1>8, SameRequests DEF vars, memory
<1> QED
  BY <1>1, <1>2, <1>3, <1>4, <1>5, <1>6, <1>7, <1>8 DEF Next, LeadStep

(* A success that was signalled, and a success that was returned, stand    *)
(* for rows that are kept; until then the leader is appending the rows of  *)
(* its batch.                                                              *)
DurableInv ==
  /\ \A c \in Callers : outcome[c] = "ok" => request[c].rows \subseteq Kept
  /\ \A c \in Callers :
        request[c].id \in signalled \ failed => request[c].rows \subseteq Kept
  /\ \A c \in Callers : pc[c] \in AppendPlace =>
        ~flushFailed[c] /\ \A r \in batch[c] : r.rows \subseteq adding[c]
  /\ \A c \in Callers : pc[c] = "signal" /\ ~flushFailed[c] =>
        \A r \in batch[c] : r.rows \subseteq Kept

LEMMA DurableStepInv ==
  ASSUME TypeOK, IdInv, FileInv, DurableInv, [Next]_vars, ~ReadMayFail
  PROVE  DurableInv'
<1> USE BatchAssumption DEF TypeOK, Appenders, AppendPlace
<1>0. Kept \subseteq Kept'
  BY FileStepInv DEF FileStep
<1>1. ASSUME NEW c \in Callers, NEW rows \in SUBSET Row, Submit(c, rows)
      PROVE  DurableInv'
  <2>1. <<c, calls[c] + 1>> \notin signalled
    BY DEF IdInv
  <2>2. /\ request' = [request EXCEPT
                          ![c] = [id |-> <<c, calls[c] + 1>>, rows |-> rows]]
        /\ outcome' = [outcome EXCEPT ![c] = "none"]
        /\ UNCHANGED <<signalled, failed, batch, flushFailed, adding>>
        /\ \A d \in Callers : pc'[d] \in AppendPlace \cup {"signal"}
                               => pc'[d] = pc[d]
    BY <1>1 DEF Submit
  <2>3. \A d \in Callers : outcome'[d] = "ok" => request'[d].rows \subseteq Kept
    BY <2>2 DEF DurableInv
  <2>4. \A d \in Callers : request'[d].id \in signalled \ failed
                             => request'[d].rows \subseteq Kept
    BY <2>1, <2>2 DEF DurableInv
  <2> QED
    BY <1>0, <2>2, <2>3, <2>4 DEF DurableInv
<1>2. ASSUME NEW c \in Callers, TakeBatch(c) PROVE DurableInv'
  <2>1. \A r \in pending : r.rows \subseteq RowsOf(pending)
    BY DEF RowsOf
  <2> QED
    BY <1>0, <1>2, <2>1 DEF TakeBatch, DurableInv
<1>3. ASSUME NEW c \in Callers, NEW r \in batch[c], SignalOne(c, r)
      PROVE  DurableInv'
  <2>1. /\ UNCHANGED <<request, outcome, flushFailed, adding>>
        /\ signalled' = signalled \cup {r.id}
        /\ failed' = IF flushFailed[c] THEN failed \cup {r.id} ELSE failed
        /\ \A d \in Callers : batch'[d] \subseteq batch[d]
        /\ \A d \in Callers : pc'[d] \in AppendPlace \cup {"signal"}
                               => pc'[d] = pc[d]
    BY <1>3 DEF SignalOne
  <2>2. ASSUME NEW d \in Callers, request[d].id \in signalled' \ failed'
        PROVE  request[d].rows \subseteq Kept
    <3>1. CASE request[d].id = r.id
      <4>1. r = request[d]
        BY <3>1 DEF IdInv, Known
      <4>2. pc[c] = "signal" /\ ~flushFailed[c]
        BY <1>3, <2>1, <2>2, <3>1 DEF SignalOne
      <4> QED
        BY <4>1, <4>2 DEF DurableInv
    <3>2. CASE request[d].id # r.id
      BY <2>1, <2>2, <3>2 DEF DurableInv
    <3> QED
      BY <3>1, <3>2
  <2> QED
    BY <1>0, <2>1, <2>2 DEF DurableInv
<1>4. ASSUME NEW c \in Callers, ReleaseLead(c) PROVE DurableInv'
  BY <1>0, <1>4 DEF ReleaseLead, DurableInv
<1>5. ASSUME NEW c \in Callers, Answered(c) PROVE DurableInv'
  BY <1>0, <1>5 DEF Answered, OutcomeOf, DurableInv
<1>6. ASSUME NEW c \in Callers, TimedOut(c) PROVE DurableInv'
  BY <1>0, <1>6 DEF TimedOut, DurableInv
<1>7. ASSUME NEW d \in Closers, NEW row \in Row, CloseTrade(d, row)
      PROVE  DurableInv'
  BY <1>0, <1>7 DEF CloseTrade, memory, DurableInv
<1>8. ASSUME NEW a \in Appenders,
             \/ AcquireLock(a) \/ ReadBase(a) \/ WriteMerged(a)
             \/ StartOverwrite(a) \/ FinishOverwrite(a)
      PROVE  DurableInv'
  <2>1. /\ UNCHANGED <<signalled, failed, request, outcome, batch, flushFailed,
                       adding>>
        /\ \A c \in Callers : pc'[c] # pc[c] =>
              pc[c] \in AppendPlace /\ pc'[c] \in AppendPlace
    BY <1>8 DEF AcquireLock, ReadBase, WriteMerged, StartOverwrite,
       FinishOverwrite, memory
  <2> QED
    BY <1>0, <2>1 DEF DurableInv
<1>10. ASSUME NEW a \in Appenders,
              LockTimeout(a) \/ WriteFails(a) \/ OverwriteFails(a)
       PROVE  DurableInv'
  <2>1. /\ UNCHANGED <<signalled, failed, request, outcome, batch>>
        /\ flushFailed' = [c \in Callers |-> IF c = a THEN TRUE ELSE flushFailed[c]]
        /\ pc' = [pc EXCEPT ![a] = AfterAppend(a)]
        /\ adding' = [adding EXCEPT ![a] = {}]
    BY <1>10 DEF LockTimeout, WriteFails, OverwriteFails, AppendFails
  <2>2. a \in Callers => pc'[a] = "signal" /\ flushFailed'[a]
    BY <2>1, AfterAppendTyped
  <2>3. \A c \in Callers : c # a => /\ pc'[c] = pc[c] /\ adding'[c] = adding[c]
                                  /\ flushFailed'[c] = flushFailed[c]
    BY <2>1
  <2> QED
    BY <1>0, <2>1, <2>2, <2>3 DEF DurableInv
<1>11. ASSUME NEW a \in Appenders, UpsertTable(a) PROVE DurableInv'
  <2>1. /\ UNCHANGED <<signalled, failed, request, outcome, batch, flushFailed>>
        /\ pc' = [pc EXCEPT ![a] = AfterAppend(a)]
        /\ adding' = [adding EXCEPT ![a] = {}]
        /\ pc[a] = "table" /\ adding[a] \subseteq Kept
    BY <1>11 DEF UpsertTable, memory, FileInv
  <2>2. a \in Callers => /\ pc'[a] = "signal"
                         /\ \A r \in batch[a] : r.rows \subseteq Kept
    BY <2>1, AfterAppendTyped DEF DurableInv
  <2>3. \A c \in Callers : c # a => pc'[c] = pc[c] /\ adding'[c] = adding[c]
    BY <2>1
  <2> QED
    BY <1>0, <2>1, <2>2, <2>3 DEF DurableInv
<1>12. CASE Restart
  <2>1. /\ signalled' = {} /\ outcome' = [c \in Callers |-> "none"]
        /\ \A c \in Callers : pc'[c] = "idle"
    BY <1>12 DEF Restart, Process
  <2> QED
    BY <2>1 DEF DurableInv
<1>13. CASE UNCHANGED vars
  BY <1>0, <1>13 DEF vars, memory, DurableInv
<1> QED
  BY <1>1, <1>2, <1>3, <1>4, <1>5, <1>6, <1>7, <1>8, <1>10, <1>11,
     <1>12, <1>13 DEF Next, LeadStep, AppendStep

(* With readable files, a normal return of append_closed_rows means that   *)
(* the rows are in the closed file and stay there, whatever other threads  *)
(* and processes append, time out, fail or restart, until an overwrite in  *)
(* place breaks off (atomic_write_df): the rows it cut off are lost until  *)
(* they are appended again.                                                *)
THEOREM OkIsDurable ==
  ASSUME ~ReadMayFail
  PROVE  Spec => []OkMeansDurable
<1>1. Init => IdInv /\ DurableInv
  BY BatchAssumption
     DEF Init, IdInv, Known, DurableInv, Appenders
<1>2. TypeOK /\ IdInv /\ [Next]_vars => IdInv'
  BY IdStepInv
<1>3. TypeOK /\ IdInv /\ FileInv /\ DurableInv /\ [Next]_vars => DurableInv'
  BY DurableStepInv
<1>4. DurableInv => OkMeansDurable
  BY DEF DurableInv, OkMeansDurable, Kept
<1> QED
  BY <1>1, <1>2, <1>3, <1>4, TypeCorrect, FileInvariant, PTL DEF Spec

-----------------------------------------------------------------------------
(* The micro-batch implements the journal of ClosedJournal.                *)

(* A closer that closes no trade has nothing to append.                    *)
RestInv == \A d \in Closers : pc[d] = "idle" => adding[d] = {}

LEMMA RestStep ==
  ASSUME TypeOK, RestInv, [Next]_vars
  PROVE  RestInv'
<1> USE BatchAssumption DEF TypeOK, Appenders, AppendPlace
<1>1. ASSUME NEW c \in Callers,
             \/ \E rows \in SUBSET Row : Submit(c, rows)
             \/ LeadStep(c) \/ Answered(c) \/ TimedOut(c)
      PROVE  RestInv'
  BY <1>1 DEF Submit, LeadStep, TakeBatch, SignalOne, ReleaseLead, Answered,
     TimedOut, RestInv
<1>2. ASSUME NEW d \in Closers, NEW row \in Row, CloseTrade(d, row)
      PROVE  RestInv'
  BY <1>2 DEF CloseTrade, RestInv
<1>3. ASSUME NEW a \in Appenders, AppendStep(a)
      PROVE  RestInv'
  BY <1>3 DEF AppendStep, AcquireLock, LockTimeout, ReadBase, WriteMerged,
     WriteFails, StartOverwrite, FinishOverwrite, OverwriteFails,
           UpsertTable, AppendFails, RestInv
<1>4. CASE Restart
  BY <1>4 DEF Restart, RestInv
<1>5. CASE UNCHANGED vars
  BY <1>5 DEF vars, RestInv
<1> QED
  BY <1>1, <1>2, <1>3, <1>4, <1>5 DEF Next

(* What the callers see, as ImplementsJournal reads it. *)
View == [c \in Callers |->
           [state |-> IF pc[c] = "idle" THEN outcome[c] ELSE "waiting",
            rows  |-> request[c].rows]]

LEMMA SameView ==
  ASSUME UNCHANGED <<request, outcome>>,
         \A c \in Callers : pc[c] = "idle" <=> pc'[c] = "idle"
  PROVE  View' = View
BY DEF View

(* Offered, row by row.                                                    *)
LEMMA InOffered ==
  ASSUME NEW row
  PROVE  row \in Offered <=> \/ \E r \in pending : row \in r.rows
                             \/ \E c \in Callers : \E r \in batch[c] : row \in r.rows
                             \/ \E a \in Appenders : row \in adding[a]
<1>1. \A requests : row \in RowsOf(requests) <=> \E r \in requests : row \in r.rows
  BY Zenon DEF RowsOf
<1>2. \A r : r \in UNION {batch[c] : c \in Callers}
             <=> \E c \in Callers : r \in batch[c]
  BY Zenon
<1>3. row \in UNION {adding[a] : a \in Appenders}
        <=> \E a \in Appenders : row \in adding[a]
  BY Zenon
<1>4. row \in Offered <=> \/ row \in RowsOf(pending \cup UNION {batch[c] : c \in Callers})
                          \/ row \in UNION {adding[a] : a \in Appenders}
  BY DEF Offered
<1> QED
  BY <1>1, <1>2, <1>3, <1>4

LEMMA InOfferedNext ==
  ASSUME NEW row
  PROVE  row \in Offered' <=> \/ \E r \in pending' : row \in r.rows
                              \/ \E c \in Callers : \E r \in batch'[c] : row \in r.rows
                              \/ \E a \in Appenders : row \in adding'[a]
<1>1. \A requests : row \in RowsOf(requests) <=> \E r \in requests : row \in r.rows
  BY Zenon DEF RowsOf
<1>2. \A r : r \in UNION {batch'[c] : c \in Callers}
             <=> \E c \in Callers : r \in batch'[c]
  BY Zenon
<1>3. row \in UNION {adding'[a] : a \in Appenders}
        <=> \E a \in Appenders : row \in adding'[a]
  BY Zenon
<1>4. Offered' = RowsOf(pending' \cup UNION {batch'[c] : c \in Callers})
                  \cup (UNION {adding'[a] : a \in Appenders})
  BY DEF Offered, RowsOf
<1>5. row \in Offered' <=> \/ row \in RowsOf(pending' \cup UNION {batch'[c] : c \in Callers})
                           \/ row \in UNION {adding'[a] : a \in Appenders}
  BY <1>4
<1> QED
  BY <1>1, <1>2, <1>3, <1>5

(* Rows change hands from the queue to a batch and to its leader.          *)
LEMMA FewerOffered ==
  ASSUME pending' \subseteq pending,
         \A c \in Callers : batch'[c] \subseteq batch[c] \cup pending,
         \A a \in Appenders : adding'[a] \subseteq adding[a] \cup RowsOf(pending)
  PROVE  Offered' \subseteq Offered
<1> SUFFICES ASSUME NEW row, row \in Offered' PROVE row \in Offered
  OBVIOUS
<1>1. \A a \in Appenders : row \in adding'[a] =>
        row \in adding[a] \/ \E r \in pending : row \in r.rows
  BY DEF RowsOf
<1> QED
  BY <1>1, InOffered, InOfferedNext

LEMMA CutIsLose ==
  ASSUME TypeOK, NEW rows, rows \subseteq closedFile, CutTo(rows), ReplaceMayFail
  PROVE  Journal!Lose(closedFile \ rows) /\ closedFile \ rows \in SUBSET Row
BY DEF CutTo, Journal!Lose, TypeOK

LEMMA JournalStep ==
  ASSUME TypeOK, FileInv, DurableInv, RestInv, [Next]_vars, ~ReadMayFail
  PROVE  [Journal!Next]_(Journal!vars)
<1> USE BatchAssumption DEF TypeOK, Appenders, AppendPlace
<1>1. ASSUME UNCHANGED <<closedFile, lost>>, View' = View, Offered' \subseteq Offered
      PROVE  Journal!Drop
  BY <1>1 DEF Journal!Drop, View
<1>2. ASSUME NEW c \in Callers, NEW rows \in SUBSET Row, Submit(c, rows)
      PROVE  Journal!Call(c, rows)
  <2> DEFINE r == [id |-> <<c, calls[c] + 1>>, rows |-> rows]
  <2>1. /\ pc[c] = "idle" /\ pending' = pending \cup {r}
        /\ request' = [request EXCEPT ![c] = r]
        /\ UNCHANGED <<batch, adding, closedFile, lost>>
        /\ outcome' = [outcome EXCEPT ![c] = "none"]
        /\ pc'[c] # "idle" /\ \A d \in Callers : d # c => pc'[d] = pc[d]
    BY <1>2 DEF Submit, files
  <2>2. Offered' = Offered \cup rows
    BY <2>1 DEF Offered, RowsOf
  <2>3. View' = [View EXCEPT ![c] = [state |-> "waiting", rows |-> rows]]
    BY <2>1 DEF View
  <2>4. View[c].state \in Journal!Ended
    BY <2>1 DEF View, Journal!Ended
  <2> QED
    BY <2>1, <2>2, <2>3, <2>4 DEF Journal!Call, View
<1>3. ASSUME NEW c \in Callers, LeadStep(c)
      PROVE  Journal!Drop
  <2>1. View' = View
    BY <1>3, SameView DEF LeadStep, TakeBatch, SignalOne, ReleaseLead
  <2>2. Offered' \subseteq Offered
    BY <1>3, FewerOffered DEF LeadStep, TakeBatch, SignalOne, ReleaseLead
  <2> QED
    BY <1>1, <1>3, <2>1, <2>2 DEF LeadStep, TakeBatch, SignalOne, ReleaseLead, files
<1>4. ASSUME NEW c \in Callers, NEW state \in Journal!Ended, pc[c] # "idle",
             outcome' = [outcome EXCEPT ![c] = state],
             pc' = [pc EXCEPT ![c] = "idle"],
             UNCHANGED <<request, pending, batch, adding, closedFile, lost>>,
             state = "ok" => request[c].rows \subseteq Kept
      PROVE  Journal!Return(c, state)
  <2>1. View' = [View EXCEPT ![c].state = state]
    BY <1>4 DEF View
  <2>2. Offered' = Offered
    BY <1>4 DEF Offered
  <2> QED
    BY <1>4, <2>1, <2>2 DEF Journal!Return, View, Kept
<1>5. ASSUME NEW c \in Callers, Answered(c)
      PROVE  \E state \in Journal!Ended : Journal!Return(c, state)
  <2>1. OutcomeOf(c) \in Journal!Ended
    BY DEF OutcomeOf, Journal!Ended
  <2>2. OutcomeOf(c) = "ok" => request[c].rows \subseteq Kept
    BY <1>5 DEF Answered, OutcomeOf, DurableInv
  <2> QED
    BY <1>4, <1>5, <2>1, <2>2 DEF Answered, files
<1>6. ASSUME NEW c \in Callers, TimedOut(c)
      PROVE  \E state \in Journal!Ended : Journal!Return(c, state)
  <2>1. "timeout" \in Journal!Ended
    BY DEF Journal!Ended
  <2> QED
    BY <1>4, <1>6, <2>1 DEF TimedOut, files
<1>7. ASSUME NEW d \in Closers, NEW row \in Row, CloseTrade(d, row)
      PROVE  Journal!Offer(row)
  <2>1. /\ UNCHANGED <<pending, batch, request, outcome, closedFile, lost>>
        /\ pc' = [pc EXCEPT ![d] = "lock"]
        /\ adding' = [adding EXCEPT ![d] = {row}] /\ adding[d] = {}
    BY <1>7 DEF CloseTrade, memory, files, RestInv
  <2>2. View' = View
    BY <2>1 DEF View
  <2>3. Offered' = Offered \cup {row}
    <3>1. \A x : x \in Offered' <=> x \in Offered \/ x = row
      BY <2>1, InOffered, InOfferedNext
    <3> QED
      BY <3>1
  <2> QED
    BY <2>1, <2>2, <2>3 DEF Journal!Offer, View
<1>8. ASSUME NEW a \in Appenders, UNCHANGED <<request, outcome, pending, batch>>,
             UNCHANGED <<closedFile, lost>>,
             pc[a] # "idle",
             \E place \in {"read", "write", "table", AfterAppend(a)} :
                pc' = [pc EXCEPT ![a] = place],
             adding' = adding \/ adding' = [adding EXCEPT ![a] = {}]
      PROVE  Journal!Drop
  <2>1. a \in Callers => AfterAppend(a) = "signal"
    BY AfterAppendTyped
  <2>2. View' = View
    BY <1>8, <2>1, SameView
  <2>3. Offered' \subseteq Offered
    BY <1>8, FewerOffered
  <2> QED
    BY <1>1, <1>8, <2>2, <2>3
<1>9. ASSUME NEW a \in Appenders, AppendStep(a), ~WriteMerged(a),
             ~StartOverwrite(a), ~OverwriteFails(a)
      PROVE  Journal!Drop
  BY <1>8, <1>9 DEF AppendStep, AcquireLock, LockTimeout, ReadBase, WriteFails,
     FinishOverwrite, UpsertTable, AppendFails, memory, files
<1>10. ASSUME NEW a \in Appenders, WriteMerged(a) \/ StartOverwrite(a)
       PROVE  \E rows \in SUBSET Row : Journal!Commit(rows)
  <2>1. /\ closedFile' = closedFile \cup adding[a] /\ pc[a] = "write"
        /\ lost' = lost \ adding[a]
        /\ \E place \in {"table", "overwrite"} : pc' = [pc EXCEPT ![a] = place]
        /\ UNCHANGED <<pending, batch, request, outcome, adding>>
    BY <1>10 DEF WriteMerged, StartOverwrite, Merged, memory, FileInv
  <2>2. View' = View
    BY <2>1, SameView
  <2>3. Offered' = Offered /\ adding[a] \subseteq Offered
    <3>1. \A x : x \in Offered' <=> x \in Offered
      BY <2>1, InOffered, InOfferedNext
    <3>2. \A x \in adding[a] : x \in Offered
      BY InOffered
    <3> QED
      BY <3>1, <3>2
  <2>4. Journal!Commit(adding[a])
    BY <2>1, <2>2, <2>3 DEF Journal!Commit, View
  <2> QED
    BY <2>4
<1>11. CASE Restart
  <2>1. /\ pending' = {} /\ outcome' = [c \in Callers |-> "none"]
        /\ batch' = [c \in Callers |-> {}]
        /\ \A c \in Callers : pc'[c] = "idle"
        /\ \A a \in Appenders : adding'[a] \subseteq adding[a]
        /\ UNCHANGED request
    BY <1>11 DEF Restart, Process
  <2>2. Offered' \subseteq Offered
    BY <2>1, FewerOffered
  <2>3. View' = [c \in Callers |-> [View[c] EXCEPT !.state = "none"]]
    BY <2>1 DEF View
  <2>4. PICK rows \in Visible :
           IF \E a \in Process : pc[a] = "overwrite"
           THEN CutTo(rows) ELSE UNCHANGED <<closedFile, lost>>
    BY <1>11 DEF Restart
  <2>5. PICK gone \in SUBSET Row : Journal!Lose(gone)
    <3>1. CASE \E a \in Process : pc[a] = "overwrite"
      <4>1. CutTo(rows) /\ ReplaceMayFail
        BY <2>4, <3>1 DEF FileInv, Process
      <4>2. rows \subseteq closedFile
        BY VisibleRows
      <4> QED
        BY <4>1, <4>2, CutIsLose
    <3>2. CASE ~\E a \in Process : pc[a] = "overwrite"
      <4>1. Journal!Lose({})
        BY <2>4, <3>2 DEF Journal!Lose
      <4> QED
        BY <4>1
    <3> QED
      BY <3>1, <3>2
  <2>6. Journal!Forget(gone)
    BY <2>1, <2>2, <2>3, <2>5 DEF Journal!Forget, View
  <2> QED
    BY <2>6 DEF Journal!Next
<1>13. ASSUME NEW a \in Appenders, OverwriteFails(a)
       PROVE  \E rows \in SUBSET Row : Journal!Cut(rows)
  <2>1. PICK rows \in Visible : CutTo(rows)
    BY <1>13 DEF OverwriteFails
  <2>2. ReplaceMayFail /\ rows \subseteq closedFile
    BY <1>13, VisibleRows DEF OverwriteFails, FileInv
  <2>3. Journal!Lose(closedFile \ rows)
    BY <2>1, <2>2, CutIsLose
  <2>4. /\ UNCHANGED <<request, outcome, pending, batch>>
        /\ pc[a] = "overwrite" /\ pc' = [pc EXCEPT ![a] = AfterAppend(a)]
        /\ adding' = [adding EXCEPT ![a] = {}]
    BY <1>13 DEF OverwriteFails, AppendFails
  <2>5. View' = View
    <3>1. a \in Callers => AfterAppend(a) = "signal"
      BY AfterAppendTyped
    <3> QED
      BY <2>4, <3>1, SameView
  <2>6. Offered' \subseteq Offered
    BY <2>4, FewerOffered
  <2>7. Journal!Cut(closedFile \ rows)
    BY <2>3, <2>5, <2>6 DEF Journal!Cut, View
  <2> QED
    BY <2>7
<1>12. CASE UNCHANGED vars
  BY <1>12 DEF vars, memory, files, Journal!vars, Offered
<1> QED
  BY <1>2, <1>3, <1>5, <1>6, <1>7, <1>9, <1>10, <1>11, <1>12, <1>13
     DEF Next, Journal!Next

(* With readable files, append_closed_rows and the threads that close      *)
(* trades are together the journal that ClosedJournal specifies: a call    *)
(* that returns finds its rows there, one that fails promises nothing,     *)
(* nothing enters that nobody offered, and nothing leaves except what an   *)
(* overwrite in place cuts off when it breaks off; without such overwrites *)
(* the journal only grows.                                                 *)
THEOREM BatchImplementsJournal ==
  ASSUME ~ReadMayFail
  PROVE  Spec => ImplementsJournal
<1>1. Init => IdInv /\ DurableInv /\ RestInv
  BY BatchAssumption
     DEF Init, IdInv, Known, DurableInv, Appenders, RestInv
<1>2. Init => Journal!Init
  BY BatchAssumption DEF Init, Journal!Init, Offered, RowsOf, Appenders
<1>3. TypeOK /\ IdInv /\ FileInv /\ DurableInv /\ RestInv /\ [Next]_vars
        => IdInv' /\ DurableInv' /\ RestInv'
  BY IdStepInv, DurableStepInv, RestStep
<1>4. TypeOK /\ FileInv /\ DurableInv /\ RestInv /\ [Next]_vars
        => [Journal!Next]_(Journal!vars)
  BY JournalStep
<1> QED
  BY <1>1, <1>2, <1>3, <1>4, TypeCorrect, FileInvariant, PTL
  DEF Spec, ImplementsJournal, Journal!Spec

=============================================================================
