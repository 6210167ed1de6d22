---------------------------- MODULE ClosedBatch ----------------------------
(***************************************************************************)
(* The closed-trade file trade_closed_history.csv, its SQLite copy, and    *)
(* the two ways rows reach them (backend/trading/trade_logger_closed_batch *)
(* .py):                                                                   *)
(*                                                                         *)
(*  - append_closed_rows: threads of one process group their requests.     *)
(*    The first one becomes the leader, waits for a short window, flushes  *)
(*    everything that is pending and signals the followers;                *)
(*  - append_to_closed_file called directly by a thread that closes a      *)
(*    trade, in the same process or in another one.                        *)
(*                                                                         *)
(* Every writer reads the whole file, merges its rows and replaces the     *)
(* file, under a file lock; the SQLite upsert follows, outside the lock.   *)
(* When os.replace is refused again and again (PermissionError),           *)
(* atomic_write_df overwrites the file in place: for a while the file is   *)
(* cut short, and it stays so if the overwrite raises or its process dies. *)
(* A row is in the file or not: one that is cut in the middle counts as    *)
(* cut off, and a file torn so that it does not decode any more as one     *)
(* that cannot be read (ReadMayFail).                                      *)
(***************************************************************************)
EXTENDS Naturals, FiniteSets

CONSTANTS
    Callers,      \* threads that call append_closed_rows (one process)
    Closers,      \* threads that append the row of a trade they close
    Local,        \* the Closers that run in the process of the Callers
    Row,          \* closed rows, numbered by row_ts (dedup keys all differ)
    StoreLimit,   \* rows the SQLite copy keeps per symbol (100 in the code)
    MaxCalls,     \* bound: calls of append_closed_rows per caller
    MaxCloses,    \* bound: trades one closer closes
    MaxRestarts,  \* bound: restarts of the process of the Callers
    ReadMayFail,  \* whether reading the file may raise
    ReplaceMayFail, \* whether os.replace may be refused to the last retry
    NoThread      \* the holder of a lock nobody holds

Appenders == Callers \cup Closers

ASSUME BatchAssumption ==
    /\ Callers \cap Closers = {}
    /\ NoThread \notin Appenders
    /\ Local \subseteq Closers
    /\ Row \subseteq Nat
    /\ StoreLimit \in Nat \ {0}
    /\ MaxCalls \in Nat /\ MaxCloses \in Nat /\ MaxRestarts \in Nat
    /\ ReadMayFail \in BOOLEAN /\ ReplaceMayFail \in BOOLEAN

VARIABLES
    pending,       \* _closed_batch_pending: the requests nobody took yet
    leaderActive,  \* _closed_batch_leader_active
    signalled,     \* ids of the requests whose event is set
    failed,        \* ids of the requests whose error is set
    pc,            \* where each thread is
    calls,         \* appends each thread has started
    request,       \* the request of each caller's current or last call
    outcome,       \* how each caller's last call ended
    batch,         \* the requests the leader took and has not signalled
    flushFailed,   \* flush_exc # None, per leader
    adding,        \* the rows a thread is appending
    base,          \* the rows a thread read under the lock
    lock,          \* holder of closed_filepath.lock and _closed_lock
    closedFile,    \* rows of the closed-trade CSV
    closedTable,   \* rows of the SQLite table closed_trades
    lost,          \* rows an overwrite that broke off did not bring back
    restarts

memory == <<pending, leaderActive, signalled, failed, request, outcome, batch,
            flushFailed>>
files  == <<closedFile, closedTable, lost>>
vars   == <<memory, pc, calls, adding, base, lock, files, restarts>>

RequestId == Callers \X Nat
Request   == [id : RequestId, rows : SUBSET Row]

AppendPlace == {"lock", "read", "write", "overwrite", "table"}
LeaderStep == AppendPlace \cup {"window", "signal", "release"}
CloserStep == AppendPlace \cup {"idle"}

RowsOf(requests) == UNION {r.rows : r \in requests}

(* Threads of the process that owns the batch. *)
Process == Callers \cup Local

SameProcess(a, b) == a \in Process <=> b \in Process

(* prune_closed_per_symbol: only the newest StoreLimit rows stay. *)
Newest(rows) ==
    {r \in rows : Cardinality({q \in rows : q > r}) < StoreLimit}

Init ==
    /\ pending = {} /\ leaderActive = FALSE
    /\ signalled = {} /\ failed = {}
    /\ pc = [a \in Appenders |-> "idle"]
    /\ calls = [a \in Appenders |-> 0]
    /\ request = [c \in Callers |-> [id |-> <<c, 0>>, rows |-> {}]]
    /\ outcome = [c \in Callers |-> "none"]
    /\ batch = [c \in Callers |-> {}]
    /\ flushFailed = [c \in Callers |-> FALSE]
    /\ adding = [a \in Appenders |-> {}]
    /\ base = [a \in Appenders |-> {}]
    /\ lock = NoThread
    /\ closedFile = {} /\ closedTable = {} /\ lost = {}
    /\ restarts = 0

-----------------------------------------------------------------------------
(* append_closed_rows and the leader loop.                                 *)

(* The request is queued and, in the same critical section, the caller     *)
(* becomes the leader if there is none.                                    *)
Submit(c, rows) ==
    LET r == [id |-> <<c, calls[c] + 1>>, rows |-> rows] IN
    /\ pc[c] = "idle"
    /\ calls[c] < MaxCalls
    /\ rows # {}
    /\ calls' = [calls EXCEPT ![c] = @ + 1]
    /\ request' = [request EXCEPT ![c] = r]
    /\ outcome' = [outcome EXCEPT ![c] = "none"]
    /\ pending' = pending \cup {r}
    /\ leaderActive' = TRUE
    /\ pc' = [pc EXCEPT ![c] = IF leaderActive THEN "await" ELSE "window"]
    /\ UNCHANGED <<signalled, failed, batch, flushFailed, adding, base, lock,
                   files, restarts>>

(* The window is over: the leader takes all pending requests. The branch   *)
(* of the code for an empty batch is dead, see LeaderFindsWork.            *)
TakeBatch(c) ==
    /\ pc[c] = "window"
    /\ batch' = [batch EXCEPT ![c] = pending]
    /\ adding' = [adding EXCEPT ![c] = RowsOf(pending)]
    /\ flushFailed' = [flushFailed EXCEPT ![c] = FALSE]
    /\ pending' = {}
    /\ pc' = [pc EXCEPT ![c] = "lock"]
    /\ UNCHANGED <<leaderActive, signalled, failed, calls, request, outcome,
                   base, lock, files, restarts>>

(* One request of the batch gets its error and its event. *)
SignalOne(c, r) ==
    /\ pc[c] = "signal"
    /\ r \in batch[c]
    /\ failed' = IF flushFailed[c] THEN failed \cup {r.id} ELSE failed
    /\ signalled' = signalled \cup {r.id}
    /\ batch' = [batch EXCEPT ![c] = @ \ {r}]
    /\ pc' = [pc EXCEPT ![c] = IF batch[c] = {r} THEN "release" ELSE "signal"]
    /\ UNCHANGED <<pending, leaderActive, calls, request, outcome, flushFailed,
                   adding, base, lock, files, restarts>>

(* Mutant: the leader leaves without a look at what came meanwhile. *)
NothingPendingAssumed == TRUE

NothingPending == pending = {}

(* In one critical section: leave if nothing is pending, else go on. *)
ReleaseLead(c) ==
    /\ pc[c] = "release"
    /\ leaderActive' = ~NothingPending
    /\ pc' = [pc EXCEPT ![c] = IF NothingPending THEN "await" ELSE "window"]
    /\ UNCHANGED <<pending, signalled, failed, calls, request, outcome, batch,
                   flushFailed, adding, base, lock, files, restarts>>

(* Mutant: the recorded error is not looked at. *)
OutcomeIgnoringErrors(c) == "ok"

OutcomeOf(c) == IF request[c].id \in failed THEN "error" ELSE "ok"

(* event.wait returned True: RuntimeError if an error was recorded. *)
Answered(c) ==
    /\ pc[c] = "await"
    /\ request[c].id \in signalled
    /\ outcome' = [outcome EXCEPT ![c] = OutcomeOf(c)]
    /\ pc' = [pc EXCEPT ![c] = "idle"]
    /\ UNCHANGED <<pending, leaderActive, signalled, failed, calls, request,
                   batch, flushFailed, adding, base, lock, files, restarts>>

(* event.wait gave up: TimeoutError, while the request stays queued. *)
TimedOut(c) ==
    /\ pc[c] = "await"
    /\ request[c].id \notin signalled
    /\ outcome' = [outcome EXCEPT ![c] = "timeout"]
    /\ pc' = [pc EXCEPT ![c] = "idle"]
    /\ UNCHANGED <<pending, leaderActive, signalled, failed, calls, request,
                   batch, flushFailed, adding, base, lock, files, restarts>>

-----------------------------------------------------------------------------
(* append_to_closed_file: used by the leader and by a closer.              *)

CloseTrade(d, row) ==
    /\ d \in Closers /\ pc[d] = "idle"
    /\ calls[d] < MaxCloses
    /\ calls' = [calls EXCEPT ![d] = @ + 1]
    /\ adding' = [adding EXCEPT ![d] = {row}]
    /\ pc' = [pc EXCEPT ![d] = "lock"]
    /\ UNCHANGED <<memory, base, lock, files, restarts>>

(* Two mutants: a closer signals a batch too; the leader forgets to.       *)
AlwaysSignals(a) == "signal"
NeverSignals(a)  == IF a \in Callers THEN "release" ELSE "idle"

(* Where a thread goes once its append is over. *)
AfterAppend(a) == IF a \in Callers THEN "signal" ELSE "idle"

(* Mutant: the exception of the append is not kept. *)
AppendFailsUnnoticed(a) ==
    /\ pc' = [pc EXCEPT ![a] = AfterAppend(a)]
    /\ adding' = [adding EXCEPT ![a] = {}]
    /\ base' = [base EXCEPT ![a] = {}]
    /\ UNCHANGED <<memory, calls, restarts>>

(* The append raised: the leader keeps the exception for its batch. *)
AppendFails(a) ==
    /\ flushFailed' = [c \in Callers |-> IF c = a THEN TRUE ELSE flushFailed[c]]
    /\ pc' = [pc EXCEPT ![a] = AfterAppend(a)]
    /\ adding' = [adding EXCEPT ![a] = {}]
    /\ base' = [base EXCEPT ![a] = {}]
    /\ UNCHANGED <<pending, leaderActive, signalled, failed, request, outcome,
                   batch, calls, restarts>>

(* Mutant: nobody waits for the lock. *)
LockIgnored == TRUE

LockFree == lock = NoThread

AcquireLock(a) ==
    /\ pc[a] = "lock"
    /\ LockFree
    /\ lock' = a
    /\ pc' = [pc EXCEPT ![a] = "read"]
    /\ UNCHANGED <<memory, calls, adding, base, files, restarts>>

(* Only the lock file times out; a thread of the holder's own process      *)
(* blocks on the RLock for as long as it takes.                            *)
LockTimeout(a) ==
    /\ pc[a] = "lock"
    /\ lock # NoThread /\ ~SameProcess(lock, a)
    /\ AppendFails(a)
    /\ UNCHANGED <<lock, files>>

(* A failed read is taken for an empty file. *)
ReadBase(a) ==
    /\ pc[a] = "read"
    /\ \/ base' = [base EXCEPT ![a] = closedFile]
       \/ ReadMayFail /\ base' = [base EXCEPT ![a] = {}]
    /\ pc' = [pc EXCEPT ![a] = "write"]
    /\ UNCHANGED <<memory, calls, adding, lock, files, restarts>>

(* What an append writes. *)
Merged(a) == base[a] \cup adding[a]

(* The merged file replaces the old one. *)
WriteMerged(a) ==
    /\ pc[a] = "write"
    /\ closedFile' = Merged(a)
    /\ lost' = lost \ adding[a]
    /\ base' = [base EXCEPT ![a] = {}]
    /\ lock' = NoThread
    /\ pc' = [pc EXCEPT ![a] = "table"]
    /\ UNCHANGED <<memory, calls, adding, closedTable, restarts>>

(* Mutant: a failed write is followed by the upsert all the same. *)
WriteFailsUnnoticed(a) ==
    /\ pc[a] = "write"
    /\ lock' = NoThread
    /\ base' = [base EXCEPT ![a] = {}]
    /\ pc' = [pc EXCEPT ![a] = "table"]
    /\ UNCHANGED <<memory, calls, adding, files, restarts>>

(* It could not be written next to the old one: the file is as it was. *)
WriteFails(a) ==
    /\ pc[a] = "write"
    /\ lock' = NoThread
    /\ AppendFails(a)
    /\ UNCHANGED files

(* The last os.replace was refused: open(path, "w") empties the file and   *)
(* its rows come back one after the other. From here on closedFile is what *)
(* the file holds once all are back; what it holds until then is Visible.  *)
StartOverwrite(a) ==
    /\ ReplaceMayFail /\ pc[a] = "write"
    /\ closedFile' = Merged(a)
    /\ lost' = lost \ adding[a]
    /\ base' = [base EXCEPT ![a] = {}]
    /\ pc' = [pc EXCEPT ![a] = "overwrite"]
    /\ UNCHANGED <<memory, calls, adding, lock, closedTable, restarts>>

FinishOverwrite(a) ==
    /\ pc[a] = "overwrite"
    /\ lock' = NoThread
    /\ pc' = [pc EXCEPT ![a] = "table"]
    /\ UNCHANGED <<memory, calls, adding, base, files, restarts>>

(* What there may be in the file now. *)
Visible ==
    IF \E a \in Appenders : pc[a] = "overwrite"
    THEN SUBSET closedFile ELSE {closedFile}

(* An overwrite ends early, and only these rows are back. *)
CutTo(rows) ==
    /\ closedFile' = rows
    /\ lost' = lost \cup (closedFile \ rows)

(* The overwrite raised: the file stays cut short. *)
OverwriteFails(a) ==
    /\ pc[a] = "overwrite"
    /\ \E rows \in Visible : CutTo(rows)
    /\ lock' = NoThread
    /\ AppendFails(a)
    /\ UNCHANGED closedTable

(* The SQLite upsert, whose exceptions are swallowed. *)
UpsertTable(a) ==
    /\ pc[a] = "table"
    /\ closedTable' \in {closedTable, Newest(closedTable \cup adding[a])}
    /\ adding' = [adding EXCEPT ![a] = {}]
    /\ pc' = [pc EXCEPT ![a] = AfterAppend(a)]
    /\ UNCHANGED <<memory, calls, base, lock, closedFile, lost, restarts>>

-----------------------------------------------------------------------------
(* The process of the callers dies, at any point, and starts again. All it *)
(* kept in memory is gone, the operating system frees the lock, and        *)
(* TradeLogger.__init__ copies the file into the table (sync_from_csv),    *)
(* unless the file cannot be read; one that was emptied cannot.            *)
Restart ==
    /\ restarts < MaxRestarts
    /\ restarts' = restarts + 1
    /\ pending' = {} /\ leaderActive' = FALSE
    /\ signalled' = {} /\ failed' = {}
    /\ outcome' = [c \in Callers |-> "none"]
    /\ batch' = [c \in Callers |-> {}]
    /\ flushFailed' = [c \in Callers |-> FALSE]
    /\ pc' = [a \in Appenders |-> IF a \in Process THEN "idle" ELSE pc[a]]
    /\ adding' = [a \in Appenders |-> IF a \in Process THEN {} ELSE adding[a]]
    /\ base' = [a \in Appenders |-> IF a \in Process THEN {} ELSE base[a]]
    /\ lock' = IF lock \in Process THEN NoThread ELSE lock
    /\ \E rows \in Visible :
          /\ \/ closedTable' = Newest(rows)
             \/ (ReadMayFail \/ ReplaceMayFail) /\ closedTable' = closedTable
          /\ IF \E a \in Process : pc[a] = "overwrite"
             THEN CutTo(rows)
             ELSE UNCHANGED <<closedFile, lost>>
    /\ UNCHANGED <<request, calls>>

AppendStep(a) ==
    \/ AcquireLock(a) \/ LockTimeout(a) \/ ReadBase(a)
    \/ WriteMerged(a) \/ WriteFails(a)
    \/ StartOverwrite(a) \/ FinishOverwrite(a) \/ OverwriteFails(a)
    \/ UpsertTable(a)

LeadStep(c) ==
    \/ TakeBatch(c)
    \/ \E r \in batch[c] : SignalOne(c, r)
    \/ ReleaseLead(c)

Next ==
    \/ \E c \in Callers :
          \/ \E rows \in SUBSET Row : Submit(c, rows)
          \/ LeadStep(c) \/ Answered(c) \/ TimedOut(c)
    \/ \E d \in Closers : \E row \in Row : CloseTrade(d, row)
    \/ \E a \in Appenders : AppendStep(a)
    \/ Restart

Spec == Init /\ [][Next]_vars

(* Threads keep running; one that competes for the lock again and again    *)
(* gets it in the end or times out. Nothing obliges a wait to time out.    *)
Fairness ==
    /\ \A c \in Callers : WF_vars(LeadStep(c)) /\ WF_vars(Answered(c))
    /\ \A a \in Appenders : WF_vars(AppendStep(a)) /\ SF_vars(AcquireLock(a))

FairSpec == Spec /\ Fairness

-----------------------------------------------------------------------------
(* Every variable has its type (closed-batch state of TradeLogger).        *)
TypeOK ==
    /\ pending \subseteq Request
    /\ leaderActive \in BOOLEAN
    /\ signalled \subseteq RequestId /\ failed \subseteq RequestId
    /\ pc \in [Appenders -> LeaderStep \cup CloserStep \cup {"await"}]
    /\ \A d \in Closers : pc[d] \in CloserStep
    /\ calls \in [Appenders -> Nat]
    /\ request \in [Callers -> Request]
    /\ outcome \in [Callers -> {"none", "ok", "error", "timeout"}]
    /\ batch \in [Callers -> SUBSET Request]
    /\ flushFailed \in [Callers -> BOOLEAN]
    /\ adding \in [Appenders -> SUBSET Row]
    /\ base \in [Appenders -> SUBSET Row]
    /\ lock \in Appenders \cup {NoThread}
    /\ closedFile \subseteq Row /\ closedTable \subseteq Row /\ lost \subseteq Row
    /\ restarts \in Nat

Leaders == {c \in Callers : pc[c] \in LeaderStep}

(* A queued request always has a leader that will take it: the leader      *)
(* leaves only in the critical section that finds nothing pending, so no   *)
(* follower is stranded (append_closed_rows, run_closed_batch_leader_loop).*)
NoStrandedRequest ==
    /\ \A c, d \in Leaders : c = d
    /\ leaderActive <=> Leaders # {}
    /\ pending # {} => leaderActive

(* A leader never finds an empty batch when its window ends: the branch    *)
(* "if not batch" of run_closed_batch_leader_loop is dead code.            *)
LeaderFindsWork == \A c \in Callers : pc[c] = "window" => pending # {}

(* The caller that led never gives up on its own request: its event is set *)
(* before it leaves the loop, so only followers can see a TimeoutError.    *)
LeaderServesItself ==
    \A c \in Leaders :
        \/ request[c] \in pending \cup batch[c]
        \/ request[c].id \in signalled

(* A normal return of append_closed_rows means the rows are in the file,   *)
(* whatever other threads and processes appended meanwhile, except rows    *)
(* that an overwrite in place of atomic_write_df cut off when it broke off *)
(* and that nobody appended again. (It needs readable files: see           *)
(* ReadMayFail.)                                                           *)
OkMeansDurable ==
    \A c \in Callers :
        outcome[c] = "ok" => request[c].rows \subseteq closedFile \cup lost

(* The SQLite copy never shows a closed row the file did not hold before   *)
(* (append_to_closed_file upserts only after the file was written): every  *)
(* row of it is in the file or was cut off by an overwrite that broke off. *)
TableBehindFile == closedTable \subseteq closedFile \cup lost

(* No append of any thread or process removes a row of the closed file,    *)
(* unless its overwrite in place breaks off.                               *)
HistoryGrows == [][closedFile \subseteq closedFile' \cup (lost' \ lost)]_vars

(* A call of append_closed_rows always ends, by itself: nobody needs the   *)
(* timeout of event.wait to be freed.                                      *)
EveryCallReturns == \A c \in Callers : pc[c] # "idle" ~> pc[c] = "idle"

(* What a caller relies on, see ClosedJournal.                             *)
Offered ==
    RowsOf(pending \cup UNION {batch[c] : c \in Callers})
        \cup (UNION {adding[a] : a \in Appenders})

Journal == INSTANCE ClosedJournal WITH
    MayCut <- ReplaceMayFail,
    journal <- closedFile,
    offered <- Offered,
    call <- [c \in Callers |->
               [state |-> IF pc[c] = "idle" THEN outcome[c] ELSE "waiting",
                rows  |-> request[c].rows]]

ImplementsJournal == Journal!Spec
=============================================================================
