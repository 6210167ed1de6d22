# TLA+ models of cfd

Specifications, TLC model checks and TLAPS proofs for the trading program in
this repository (paths below are relative to `src/`). The subjects are the
parts whose correctness depends on the order of steps of several threads,
processes, files, orders and messages: the closed-trade file and its
micro-batch, the trade ledger with its SQLite mirror, the trading loop, the exit
manager, the approval of proposals through Telegram, the canaries that are
activated and handed over by such approvals, and the governance cycles with the
refresh of their analysis.

Contents: 1 the system; 2 modules and code; 3 runs; 4 bounds, fairness,
assumptions; 5 proofs; 6 where code and documents differ; 7 what is left out;
8 plan.

## 1. The system

A runner process (`main.py` -> `backend/app/trading_application_runner.py`)
trades on MT5 in one sequential loop over symbols. An API server
(`backend/fastapi`) serves a user interface. An orchestrator of governance
cycles (`backend/services/checkpoint_improvement_*.py`) proposes changes that
a user approves or rejects in a Telegram chat. They share CSV files and SQLite
databases and, apart from Telegram, nothing else.

### Trade ledger: `backend/trading/trade_logger*.py`

*State.* On disk: `trade_history.csv` (open trades),
`trade_closed_history.csv`. In memory, per process: `active_tickets`, the
signatures of snapshots already written, and for tickets that left the position
list the number of checks and the time of the first.
*Operations.* `upsert_open_snapshots`, `update_exit_policy_context`,
`check_closed_trades`, `reconcile_open_trades`, `update_closed_trade`,
`force_close_unknown`, `append_closed_rows`, the start (`__init__`).
*Who calls.* The runner (`trading_application_runner.py` l.436, 444, 964, 1183)
**and** the API server, which builds its own TradeLogger
(`backend/fastapi/composition.py` l.26, `runtime_helpers.py` l.85-118,
`backend/services/mt5_snapshot_service.py` l.415). Reads of the API sync the
mirror (`trade_read_service.py` l.49, 129, 176, 359).
*Hard.* Each operation reads a whole file, changes its copy and writes it back,
and only the write is locked; files and memory part when a process dies or a
write fails; a file whose replacement is refused again and again is overwritten
in place; positions and deals show up late, or a query has no answer.
*Correct when.* No trade is lost between the two files; what is recorded as
closed was closed by the broker, once; a close is recorded in the end.

### Closed-row micro-batch: `trade_logger_closed_batch.py`

*State.* A list of pending requests, a leader flag, per request an event and an
error; the closed file, its file lock and its SQLite copy.
*Operations.* `append_closed_rows` (leader or follower),
`run_closed_batch_leader_loop`, `append_to_closed_file`.
*Hard.* A follower hands its request to a leader that may be leaving; one flush
answers several requests; waits and lock waits time out; other processes append.
After 13 refused `os.replace` calls `atomic_write_df` (`trade_logger_helpers.py`
l.173-177) opens the live file with mode "w": readers see a part of it, and an
overwrite that raises, or whose process dies, leaves it cut short.
*Correct when.* Every request is led, flushed and answered; a normal return
means the rows are stored; no append undoes another, and nothing but an overwrite
that breaks off takes rows away.

### SQLite mirror: `backend/services/trade_sqlite_store.py`

*State.* Tables `open_trades`, `closed_trades`, and in `mirror_meta` the mtimes
of the files they were copied from. *Operations.* `sync_from_csv`, the
incremental upserts of the logger, the pruning to 100 closed rows per symbol.
*Hard.* A sync races the writers, and upserts are outside the file lock.
*Correct when.* Tables that are marked as synced are the files.

### Approval governance: `backend/services/telegram_*.py`, `approval_loop.py`, `apply_executor.py`

*State.* In SQLite, per scope a check group (status, `approval_id`), its events,
and the actions taken on it; the offset of the Telegram poll; in memory an event
bus. *Operations.* A governance event opens or refreshes a group and its prompt
(bridge, hub); the runner polls the clicks (`telegram_ops_service.py`), the
approval loop checks and records them, and the executor applies an approved
proposal. *Hard.* Every store call is a transaction of its own; the orchestrator
and the runner interleave between them; Telegram delivers a click again when the
offset was not saved; a handler raises before or after its effect, or a store
call half-way. *Correct when.* A click decides once, only what was approved is
applied, once, and every click is handled.

### Trading loop: `backend/app/trading_application_runner.py`, `trading_application.py`, `backend/services/entry_try_open_entry.py`

*State.* In memory: time of the last entry and of the last order, the pending
reverse and the order block of each symbol, how long the process has been flat
and when its next recycle is due. The positions are the broker's. *Operations.*
A pass over a symbol reads its positions, tries an entry, lets the exit manager
manage what was read, tries a reverse entry; after all symbols the guarded
recycle may re-execute the process. *Hard.* A position the broker has opened is
listed only later; an order may have been executed although its result says
otherwise; a query without answer counts as no positions; a request that was
kept for the next pass outlives what it was based on. *Correct when.* As far as
the process can know (confirmed orders, answered queries) the position limit
holds, a reverse starts flat, and the process is replaced only when it has no
position; a reverse is from a current request.

### Exit manager: `backend/services/exit_service.py`, `exit_manage_positions.py`, `exit_engines.py`, `exit_*_policy.py`

*State.* In memory per ticket: the peak profit, whether a part was closed or the
stop moved, the adverse wait. *Operations.* The stages of `manage_positions`, in
order, each of which may end the pass; close, part close and stop orders of
`TradingApplication`. *Hard.* Guards look at a snapshot while market, user, stop
and restarts go on; two stages share one part and one stop; a failed close
clears the memory. *Correct when.* No wait or hold keeps an extreme loss, waits
end, one part is closed, stops only tighten, a position held as a runner is
secured.

### Canaries and their handoff: `backend/services/checkpoint_improvement_pa8_apply_handlers.py`, `..._pa9_apply_handlers.py`, `path_checkpoint_pa8_*.py`, `path_checkpoint_pa9_*.py`

*State.* JSON files per symbol: activation, closeout, board, handoff artifact.
*Operations.* The orchestrator computes the decision of the canary's window,
writes closeout and board and offers reviews; the runner applies an approved
review, writes the activation and refreshes the same files. *Hard.* Two
processes write the same files without a lock; an approval is applied long after
the row it was made from. *Correct when.* A closeout is of the canary's own
window, a handoff is applied to a prepared canary once, triggers end in a
rollback.

### Governance cycles, system state, analysis refresh: `backend/services/checkpoint_improvement_orchestrator.py`, `..._watch.py`, `system_state_manager.py`, `path_checkpoint_analysis_refresh.py`

*State.* The system state file (phase, rows processed, times of the last
cycles); the checkpoint rows the runner appends; the analysis; a lock file.
*Operations.* A tick goes through light, governance, heavy and reconcile cycle;
light and heavy cycle refresh the analysis; scripts refresh it as well. A
refresh covers the newest rows up to a limit: 400 in the light cycle, 2000 in the
heavy one. *Hard.* The light cycle counts all rows that came, not those its
refresh covered, and replaces the longer analysis of the heavy cycle.
The lock is looked at first and written afterwards, has a time to live, and
stays behind when its owner dies; a cycle saves the state in several steps and
goes by the phase it read at its start. *Correct when.* A row is counted
only when it, or a row newer by the limit, was analysed, and then in the end; the
analysis comes to cover the newest rows; the phase does not stay DEGRADED.

### How they interact

The exit manager and the trading loop are steps of one pass of the runner, and
report to the trade ledger, whose closes go through the micro-batch and the
mirror. The orchestrator's governance cycle (`WatchCycles`) reads the canaries
(`CanaryLifecycle`) and publishes reviews that become proposals
(`ApprovalGovernance`); the runner's executor applies an approved one by a
handler of the canary. Each of these modules takes its neighbours' steps as
nondeterministic: a position may close at any time, a review that was offered
may be approved at any later time, a governance cycle may or may not fail.

### The rest

`PROJECT.json` lists every component with its status, and section 7 says why
some are not modelled: scoring and chart engines, shock events, the broker
connection, the notifier, the API routes, storage compaction, machine learning,
scripts and the dashboard.

## 2. Modules and code

| Module | Models | Code |
|---|---|---|
| `ClosedJournal` | abstract: a journal of rows, what may cut it, and what a call promises | the contract of `append_closed_rows` |
| `ClosedBatch` | micro-batch, file lock, merge, replacement or overwrite of the file, SQLite upsert, restart | `trade_logger_closed_batch.py`, `trade_logger_helpers.py` |
| `TradeLifecycle` | abstract: unlogged, open, closed | what the two files say of a trade |
| `ApprovalPromise` | abstract: an id is shown, approved, applied, and its apply noted | what a user may rely on in `approval_loop.py`, `apply_executor.py` |
| `PositionCare` | abstract: a stop is tightened, one part closed, the position closed | what the stages of `manage_positions` may do between them |
| `RowAccount` | abstract: rows come, the newest are analysed, rows are counted | the counts of `system_state_manager.py` |
| `TradeLedger` | the ledger in several processes, and the mirror | `trade_logger*.py`, `trade_sqlite_store.py` |
| `ApprovalGovernance` | bridge, approval loop, executor, prompt, poll | `telegram_approval_bridge.py`, `approval_loop.py`, `apply_executor.py`, `telegram_notification_hub.py`, `telegram_ops_service.py`, `telegram_state_store.py` |
| `TradingLoop` | a pass over one symbol, its gates, orders and recycle | `trading_application_runner.py`, `trading_application.py`, `entry_try_open_entry.py`, the reverse executor, the runtime recycle |
| `ExitManager` | the stages of a pass over one position, and its orders | `exit_service.py` and the `exit_*` policies, `trading_application.py` |
| `CanaryLifecycle` | the files of one canary, the watch and the apply handlers | `checkpoint_improvement_pa8_apply_handlers.py`, `..._pa9_apply_handlers.py`, `path_checkpoint_pa8_*.py`, `path_checkpoint_pa9_*.py` |
| `WatchCycles` | a tick and its four cycles, system state, refresh, lock | `checkpoint_improvement_orchestrator.py`, `..._watch.py`, `system_state_manager.py`, `path_checkpoint_analysis_refresh.py` |
| `MC...` | instances for TLC | |
| `...Proofs` | theorems about the module of that name | |

`ClosedBatch` opens up the single step `CloseAppend` of `TradeLedger`. Its
abstract specification `ClosedJournal` says what that step may rely on: the
batch implements it (`BatchImplementsJournal`), and the ledger does to the closed
file only what it allows (`LedgerUsesJournal`), with the closes under way as the
rows that are offered.

Five abstract specifications have a detailed one that implements them, checked
by TLC and proved: `ClosedJournal` by `ClosedBatch`, `TradeLifecycle` by
`TradeLedger`, `ApprovalPromise` by `ApprovalGovernance`, `PositionCare` by
`ExitManager`, `RowAccount` by `WatchCycles`. The mappings stand among the
properties of the detailed modules.

**ClosedBatch.** One step is one critical section, or one file access. `pc` is
the line a thread is at: `window` (the leader sleeps), `lock`, `read`, `write`,
`overwrite` (inside `append_to_closed_file`), `table` (its SQLite upsert), `signal`,
`release` (the leader's look at what came meanwhile), `await` (in
`event.wait`). A row is a number, its `row_ts`. Deduplication keys all differ,
so a merge is a union. Threads of one process block on the lock; only threads
of different processes time out on the lock file. `WriteMerged` replaces the
file; `StartOverwrite` is the fallback of `atomic_write_df`. From there until
`FinishOverwrite` `closedFile` is what the file will hold, and what it holds
meanwhile is any part of it (`Visible`). If the overwrite raises
(`OverwriteFails`) or its process dies (`Restart`), that part is what stays, and
`lost` observes the rows that were cut off and not appended again.

**TradeLedger.** `pc[p]` is where process `p` is in its operation, `op[p]`
which one, `todo[p]` the tickets left to scan, `closing[p]` the row being
closed, `df[p]` the process's copy of the open file. `openCsv`, `closedCsv` are
the files, `openTable`, `closedTable` and `synced` the mirror (`synced`: the
mtimes in `mirror_meta` are those of the files). `stale[p]` says that a file
was replaced since `p` took the mtimes that its sync will store. The places
`openOver` and `closedOver` are overwrites in place of one of the files, read in
part meanwhile (`VisibleOpen`, `VisibleClosed`) and cut short when they break off
(`BreakOff`), with `lostOpen` and `lostClosed` for what was cut off. A closed row is
its ticket and its close time: 0 for the time of the exit deal, and another
number for each forced close, which is stamped with the current time.

**ApprovalGovernance.** A step is one store call, one delivery or one handler
call. The runner drains its bus in the statement after the publication, so an
event on its way is its `pc`. `RunHandler` is the write of the activation, which
the refreshes of the handler follow; `HandlerRaises` ends the handler before that
write, or after it in a refresh: then the effect stays and no apply is recorded.
`row` is what a process read earlier and still
uses: the upsert of the bridge and `update_check_group` without a status write
that back. A click is its position in the updates Telegram keeps, and `offset`
what was saved of it.

**TradingLoop.** `position` gives each slot its stage: filled but not listed,
open, closed but still listed. `pc` is the place in the pass; `mine` is what
`my_positions` holds. Ages and delays (`sinceEntry`, `sinceOrder`, `pending`,
`blocked`, `dueIn`, `flatFor`) stand for the timestamps the code compares with
the present, in ticks.

**ExitManager.** `pc` is the stage, `view` the snapshot the guards look at:
profit is distance times volume, and everything a score decides is a free
choice. `peak`, `partialDone`, `beMoved`, `wait` are the memory of the manager;
`fav`, `vol`, `stop` are the broker's. `Config` holds the thresholds of
`backend/core/config.py` and of the policies, so that the theorems are about
every configuration in the stated order.

**CanaryLifecycle.** `phase` is the activation file's state, `closeout`, `board`
and `artifact` what is read back of the other files. A decision is pending,
triggered or enough; a verdict is what a file says of it: not ready, ready, or
ready but of an activation that is gone (`outlived`). `disturbed` observes
whether a file may stand from a refresh that was overtaken or cut off.

**WatchCycles.** `cycle` is where the tick is: a cycle, or how far the cycle has
saved the state (count, mark, phase: three saves). `at[p]` is where process `p`
is in `maybe_refresh_checkpoint_analysis_chain`, `got[p]` the rows it covers,
the newest up to its limit (`Recent`, `Limits`), `lock` the lock file and whether
it outlived its time to live. `analysis` is the set of rows the analysis on disk
covers, and `analysed` observes what finished refreshes covered at some time.

## 3. Runs

| Run | Instance | Shows |
|---|---|---|
| ClosedBatch | 2 callers, a closer in their process, one in another, 1 restart; the file may be overwritten in place | no stranded request, ok means durable, the table follows the file, `ClosedBatch` implements `ClosedJournal`: only an overwrite that breaks off takes rows |
| ClosedBatchLive | 2 callers with 2 calls each, a foreign closer; reads and overwrites fail too; no restart, which ends calls | every call returns without needing a timeout |
| LedgerCrash | the runner, 2 trades, 1 restart, failing writes and queries, overwrites in place | `TradeLedger` implements `TradeLifecycle`: no trade gets lost between the files, a closed one stays closed, unless an overwrite that breaks off cuts its row |
| LedgerLive | the runner and a syncing API, 1 trade, 1 restart, partial closes, 2 forced closes, failing queries | open rows are watched, a trade closed in whole is counted once and once more per restart, a sync racing the writes never passes off an old copy, a closed trade is recorded in the end |
| GovernanceFaults | 1 proposal, 2 clicks, 1 restart; store, handler, delivery fail | one decision per click; applied means done; every click is handled and never fetched again |
| GovernanceRace | 2 proposals, 2 clicks, 1 restart, no other failure | an id is applied once and once more per restart; decisions hit open groups only; `ApprovalGovernance` implements `ApprovalPromise`: only what a permitted user approved is applied |
| ExitManager | 3 lots with a part of 1, SELL, the market within 2 of the entry; queries and orders fail, restarts | extreme losses are not held, adverse waits are bounded, one part is closed, a runner is secured, an adverse position is closed in the end; `ExitManager` implements `PositionCare`: stops only tighten |
| TradingLoop | 3 slots for 2 positions; orders fail or stay unconfirmed, listings lag, re-execution and crashes | for confirmed positions and after answered reads: the limit holds, a reverse starts flat, the process recycles only when flat; a reverse is from a current request |
| CanaryLifecycle | one symbol, activated again and again, 1 crash of either process | a closeout is of the canary's own window, a handoff is applied to a prepared canary, lasting triggers are answered |
| WatchCycles | 3 rows, floors of 2, a light limit of 1 and a heavy one of 2, one script, 1 fault | `WatchCycles` implements `RowAccount`: a row is counted once it, or one newer by the light limit, was analysed; all are counted in the end, the analysis comes to cover the newest rows, the phase recovers |
| LedgerNoAnswer, GovernanceReopen | | the two disagreements of section 6: TLC finds the violation |

For each property of a passing run `PROJECT.json` names a mutant: an operator
beside the real one (marked "Mutant" in the modules) with a plausible bug, such
as a dropped guard, a lost exception or a swapped order. With it in place TLC
finds the property violated. No mutant is reachable from a next-state relation.

`ExitManager`, `TradingLoop`, `CanaryLifecycle` and `WatchCycles` are loops that
never end, and TLC checks that they do not deadlock. The other runs say
`CHECK_DEADLOCK FALSE`: with its counters spent and no work, the system rests.

## 4. Bounds, fairness, assumptions

*Bounds.* All are CONSTANTS: calls, closes, restarts, forced closes, proposals,
clicks. The grace period of a ticket only runs while a forced close is left
(`Age`), so LedgerCrash, with none, closes by deals. Two callers are enough for
a leader and a follower, and for a follower that becomes the next leader. The
second call of a caller (ClosedBatchLive) meets the leftovers of its timed-out
first one. `StoreLimit` 1 with two rows makes the pruning bite. Two trades
(LedgerCrash) let one close while the other's row is copied and written back;
what LedgerLive asks is about one trade at a time. Two clicks on one proposal
(GovernanceFaults) reach a held group decided again and a click redelivered
after a restart; two proposals (GovernanceRace) reach an old button, a reopened
group, and an apply that a restart repeats. One restart is enough to find a
state of memory and disk no code path leaves behind; a second one starts from a
state of the same kind. In `ExitManager` one lot of three can be closed in part
and a rest remains; the market reaches both sides of every threshold. Three
slots hold one position more than the limit of two allows. One symbol is enough
for `CanaryLifecycle`, since a symbol's own candidate implies that its packet is
ready. In `WatchCycles` three rows reach the floors of the light and the heavy
cycle and one row beyond, and exceed both limits, so that rows are counted which
no analysis covered and a light refresh replaces a longer analysis; the script's
refresh overlaps the watch's, and one fault kills, or fails, either of them
anywhere. Only the bounds named in the constants cut behaviour off:
`ExitManager`, `TradingLoop` and `CanaryLifecycle` have no bound on the number
of passes, orders or activations.

*Fairness.* ClosedBatch: weak fairness for the steps of a thread, strong
fairness for the lock, which is retried until its timeout; **no** fairness for
`TimedOut`, so that a call may not count on giving up. TradeLedger: weak
fairness for an operation that has started (it is sequential code), strong for
`StartCheck`, `StartSync` and `Age`, because the loops return to them and time
passes between operations; the broker owes nothing. ApprovalGovernance: weak
fairness for the runner's steps, since the main loop ticks the Telegram service
every turn. Users, deadlines and the orchestrator owe nothing. ExitManager:
weak fairness for the manager's own steps and the answers to a close order,
strong fairness for `Tick` (time passes between passes) and for `CloseAccepted`:
a broker that is asked again and again accepts a close in the end.
CanaryLifecycle: weak fairness for the watch and the handler, strong fairness
for `WatchOffers` (while a canary is active the governance cycle is due again
and again) and for the approval of a rollback, a human being who does not turn
down the same offer for ever. WatchCycles: weak fairness for the watch, which is
a loop that is started again after a crash, for its refresh and for time; a
script owes nothing and may hang with the lock in its hand.

*Assumptions.* A filled position is listed within the grace period of 120
seconds, and an operation is short against it (`Age`). Fewer than 100 closed
trades per symbol in `TradeLedger` (the pruning is in `ClosedBatch`). The exit
deal gives the same row each time it is read. One scope, so one check group;
`cancelled`, which the reconcile gives to the older of two groups of a scope, is
left out. `list_check_actions` returns the oldest 100 actions; the model assumes
fewer.

`TradingLoop`: the broker lists a new position, and delists a closed one, at the
latest in the second tick after; a pass takes less than two ticks, and a restart
longer than listing does. The entry cooldown and the grace of the recycle are
at least two ticks (60 s and 90 s by default), so a tick may be up to 30 s long.
`ALLOW_IMMEDIATE_REVERSE` has its default, False, and a pending reverse
expires before the entry cooldown is over, as it does by default (20 s, 60 s).
Orders whose execution the broker does not confirm (`unconfirmed`) are not
positions the process knows of, and the properties say so: the code has no way
to learn of them but the next list.

`ExitManager`: the tickets of a symbol share no memory, so one is modelled.
Scores, regimes and streaks are free choices; reversals and scalps are one such
choice.

`CanaryLifecycle`: the script that rebuilds the activation is run while no
handler runs, and is one step. Packets that are written and never read back are
left out. An empty window, too few rows and triggers are `pending` and
`triggered`; the figures behind them are left out.

`WatchCycles`: the state file can be read, and only the watch writes it. The
runtime status is fresh, so ticks run. A refresh may outlast the lock's time to
live, and the ages of the cycles and of the lock are independent of each other.
Whether a script is throttled, and whether the governance or reconcile cycle is
due or fails, is a free choice. A script takes its limit from its command line:
any number of rows. The code has the limits 400 and 2000, the model any with
`LightLimit <= HeavyLimit`. With more new rows than `LightLimit` between two
light cycles, some are counted that no analysis covered; `RowAccount` therefore
counts a row that was analysed or that a row newer by `LightLimit` has outdated.
With fewer rows than `SampleFloor` no heavy cycle is due, so the analysis may
stay old and the phase DEGRADED; that is why the properties speak of `rows >=
SampleFloor`. The design note
`docs/current_a4_checkpoint_improvement_watch_light_cycle_first_tick_detailed_plan_ko.md`
(l.178-194) asks that the count of processed rows only advances with a finished
refresh and that skipped rows are not lost: `ImplementsAccount` and
`RowsGetCounted`. `AnalysisCatchesUp` asks for the newest `HeavyLimit` rows.

Switches name what may fail: `ReadMayFail`, `WriteMayFail`, `ReplaceMayFail`,
`QueryMayFail`, `PartialCloses`, `StoreMayFail`, `HandlerMayFail`,
`DeliveryMayFail`. A property that needs one FALSE says so, and the hazards in
`PROJECT.json` say what goes wrong otherwise.

`ReplaceMayFail` is that `os.replace` is refused to the last retry, so that a file
is overwritten in place. This is the one thing that takes rows away again, and
every promise about the files names it: `OkMeansDurable` and `TableBehindFile`
speak of rows that are in the file or were cut off (`lost`), `ClosedJournal` and
`TradeLifecycle` have a step of their own for it, which needs `MayCut`. With
`ReplaceMayFail` FALSE nothing is ever cut off (theorems `NothingLost`,
`NothingCut`), and the same properties promise what their names say. A row is in
the file or not: one that is cut in the middle counts as cut off, and a file torn
so that it does not decode is one that cannot be read (`ReadMayFail`).

`_read_open_df_safe` and the merge take a file that cannot be read for an empty
one and write the result back, so the refinements of the files and
`OkMeansDurable` need readable files. `ClosedOnce`
speaks of positions closed in whole, and allows one row more for each restart: a
process that dies between the append and the rewrite closes the trade again.
`AppliedOnce` allows the same to an apply whose note was not written, and is
checked and proved for handlers that do not raise: one that raises in a refresh
after its effect leaves an effect without a note, and an approval of the reopened
group applies it again.
`OpenRowsWatched` needs writes that succeed: a close with a deal whose write
failed leaves a row that nobody watches until a reconcile or a restart.
`MirrorAgrees` leaves out overlapping syncs (`SyncsOverlap`: a writer restarts,
and syncs, while the API syncs), because the slower one leaves its older copy
behind.

## 5. Proofs

TLAPS proves the following for every value of the constants. The named
assumptions (`BatchAssumption`, `LedgerAssumption`, `GovernanceAssumption`,
`ConfigAssumption`, `CanaryBounds`, `CycleAssumption`) type the constants and,
for the trading loop and the exit manager, order the thresholds the way the
defaults of `backend/core/config.py` are ordered.

| Theorem | States | Under |
|---|---|---|
| `TypeCorrect`, in every proof module | `[]TypeOK` | |
| `ClosedBatchProofs!RequestsAreLed` | `[](NoStrandedRequest /\ LeaderFindsWork)` | |
| `ClosedBatchProofs!LeaderIsServed` | `[]LeaderServesItself` | |
| `ClosedBatchProofs!FileGrows` | `HistoryGrows`: the file grows, but for rows an overwrite cuts off | readable files |
| `ClosedBatchProofs!NothingLost` | `[](lost = {})` | no overwrite in place |
| `ClosedBatchProofs!TableFollows` | `[]TableBehindFile` | readable files |
| `ClosedBatchProofs!OkIsDurable` | `[]OkMeansDurable` | readable files |
| `ClosedBatchProofs!BatchImplementsJournal` | `ImplementsJournal` (refinement, with its cuts) | readable files |
| `TradeLedgerProofs!TradesAreKept` | `NoTradeForgotten`, but for rows an overwrite cuts off | readable files, one writer |
| `TradeLedgerProofs!NothingCut` | `[](lostOpen = {} /\ lostClosed = {})` | no overwrite in place |
| `TradeLedgerProofs!LedgerImplementsLifecycle` | `ImplementsLifecycle` (refinement, with its cuts) | readable files, one writer |
| `TradeLedgerProofs!LedgerUsesJournal` | `Journal!Spec` (refinement, with its cuts) | |
| `TradeLedgerProofs!ClosedTradesHaveDeals` | `[]ClosedHaveDeals` | |
| `TradeLedgerProofs!ClosedAreClosed` | `[]NoPhantomClose` | positions closed in whole |
| `TradeLedgerProofs!MirrorIsCurrent` | `[]MirrorAgrees` | one writer, one syncer |
| `TradeLedgerProofs!RowsAreWatched` | `[]OpenRowsWatched` | one writer, files that can be read and written |
| `TradeLedgerProofs!LiveRowsAreWatched` | `[]LiveRowsWatched` | one writer, files that can be read |
| `TradeLedgerProofs!TradesCloseOnce` | `[]ClosedOnce` | one writer, files that can be written |
| `ApprovalGovernanceProofs!DecidesOnce` | `[]ClickDecidesOnce` | |
| `ApprovalGovernanceProofs!DecidesOnlyOpen` | `[]DecidesOpenGroups` | |
| `ApprovalGovernanceProofs!AppliesApproved` | `[]AppliedWasApproved` | |
| `ApprovalGovernanceProofs!AppliedHappened` | `[]AppliedIsTrue` | |
| `ApprovalGovernanceProofs!AppliesOnce` | `[]AppliedOnce` | a store that answers, handlers that do not raise |
| `ApprovalGovernanceProofs!ApprovalKeepsPromise` | `ImplementsPromise` (refinement) | |
| `ExitManagerProofs!ExtremeIsClosed` | `[]ExtremeNeverHeld` | |
| `ExitManagerProofs!WaitEnds` | `[]AdverseWaitBounded` | |
| `ExitManagerProofs!PartOnce`, `StopExists` | `[]OnePart`, `[]MovedStopExists` | |
| `ExitManagerProofs!KeepsCare` | `ImplementsCare` (refinement) | |
| `ExitManagerProofs!StopTightens`, `RunnerSecured` | `StopNeverLoosened`, `HeldRunnerIsSecured` | |
| `TradingLoopProofs!ReversesFresh` | `[]ReverseIsFresh` | |
| `TradingLoopProofs!ReversesAlone`, `RecyclesSafely`, `LimitHolds` | `[]ReverseAlone`, `[]RecyclesFlat`, `PositionsBounded` | each speaks of confirmed orders, after a read of the positions that was answered |
| `CanaryLifecycleProofs!HandsOverOnce`, `ClosesOwn` | `HandsOverPrepared`, `ClosesOutOwnWindow` | |
| `WatchCyclesProofs!CyclesKeepAccount` | `ImplementsAccount` (refinement) | |
| `WatchCyclesProofs!CountsAnalysed` | `[]CountedWereAnalysed` | at most `LightLimit` rows wait to be counted |
| `WatchCyclesProofs!AloneKeepsAnalysis` | `[]CountedAreOnDisk`, `AnalysisAdvances` (but for rows that `LightLimit` newer ones outdate) | no refresh by a script |

`LeaderServesItself`, `HistoryGrows`, `NoTradeForgotten`, `MovedStopExists`,
`AppliedWasApproved`, `StopNeverLoosened` and `CountedWereAnalysed` are proved
only; the runs check stronger statements (mostly the refinements) that contain or
need them. `ClosedHaveDeals`, `LiveRowsWatched`
and the statements of `AloneKeepsAnalysis` say what holds under other switches
than those of the runs.

*ClosedBatch.* `LeadInv` adds `LeaderFindsWork` to `NoStrandedRequest`: the two
hold each other up, since the leader re-enters its window only when it saw
requests. `ServeInv` adds to `LeaderServesItself` that a caller has an empty
batch whenever it is not flushing or signalling one. `FileInv` is the lock
argument: who is between read and write holds the lock and has the present file
as its base, so file and `lost` together only grow, and an upsert only adds rows
the file already has, or had until an overwrite broke off. `OkIsDurable` needs
two more: `IdInv` (ids are never reused, so an event that is set belongs to this
call and not to the one that timed out) and `DurableInv` (the rows of a batch
that is being signalled without an exception are in the file or in `lost`, and
stay in one of the two by `FileInv`). The refinement adds `RestInv`, a closer at
rest offers nothing, and maps the replacement of the file, or the start of its
overwrite, to the journal's `Commit`, an overwrite that breaks off to `Cut` or
`Forget`, everything else to a call, a return or a stutter.

*TradeLedger.* `TypeInv` adds to `TypeOK` that a close under way has a row and
that only where `os.replace` may be refused a file is overwritten.
`KeepInv` says that the copy a writer is about to write back holds every row of
the open file, which is true because nobody else writes (here the single writer
is needed), and that the row being closed is in the closed file by the time the
open file is rewritten without it; with `LoggedInv`, a row is appended for a
trade that is logged, it gives the refinement. `PhantomInv` says that whatever
the logger knows of is a trade of the broker, that a ticket which waited for the
whole grace period is listed or closed, and that a row about to be appended is
of a trade with an exit deal. `RipeInv` is what makes a failing second query
harmless: `check_closed_trades` took up the ticket after a list without it, so
after the grace period the trade is closed. Together they need no assumption at
all: a row of the closed file always has a deal, and without partial closes that
means a closed trade. `MirrorInv` says, step by step of a sync, which tables and
copies are already those of the files unless a file was replaced since
(`stale`); once syncs may overlap they may for ever (`RestartsGrow`: the count
of restarts never falls), so the invariant is only needed until then.
`WatchedInv` says that a writer's memory covers the file and the copy it is
about to write, and that a ticket it drops has left the file, or its write
failed and it has a deal. `OnceInv` counts rows: a trade closed in whole has at
most one per restart, and one more only while no writer can bring its open row
back; a closed trade is in the open file, or in a copy that will replace it,
only between the append and the rewrite of its own close.

*ApprovalGovernance.* `PlaceInv` ties the click being handled to the batch that
was fetched. `ClickInv`: who is about to record a decision has found the click
unrecorded, and the only other writer of the actions is the runner itself.
`OpenInv`: the orchestrator writes back an old row, but never one that closes a
group the runner is deciding. `ApprovedInv` follows a click from the check of
the user to the handler. `TrueInv` says that even the rows read earlier, which
may be written back, only say applied when it is true. `OnceInv` counts the
effects of an id: one per restart, and one more when the apply is noted or about
to be; a store that fails, and a handler that raises after its effect, break the
note, so they are assumed away. The refinement
needs no assumption. Its mapping reads the approved and noted ids from the
recorded actions and takes the place between handler and record for an apply
that is due; `PermitInv` (a recorded approval is a click that was made, by a
permitted user), `ShownInv` (every click is on a prompt that was sent) and
`HandlerInv` (the handler runs for an id that is not noted) make each step one
of the promise.

*ExitManager.* `PartInv` (a closed part is remembered, and the runner stage
knows whether it was held back because of it), `StopInv` (the position taken for
protected has a stop), `WaitInv` (adverse passes are covered by a wait that
runs, or the pass is at its close order). The refinement of `PositionCare` takes
`parts > 0` for the part that was taken and follows from `PartInv`: neither stage
reaches its part order while a closed part is remembered.

*TradingLoop.* `LagInv`: a position that is not listed was opened at most one
tick ago, so whoever waited for a cooldown sees it. `ReadInv`: the list a pass
counts is complete or an entry was made during the pass, which the cooldown
catches. `PendingInv`: an outdated request is younger than the entry that
outdated it, so it expires first. These three carry all four properties.

*CanaryLifecycle.* `HandoffInv`: nobody writes the activation between the
assertion and the write of a handoff. `FileInv`, `WatchInv`, `HandlerInv` follow
a verdict through the closeout file, the watch's row and the handler: it is not
ready, or of the canary that is active now, unless a file was `disturbed`.

*WatchCycles.* `PlaceInv` (a refresh is under way only in a cycle that starts
one, and only a light cycle holds rows to count) and `CountInv`: what the light
cycle will count is covered, or outdated, by what its refresh has read, and by
`analysed` once the refresh is finished; whatever others append, read or finish
only adds to both. The bound of the count in `TypeOK` and the refinement of
`RowAccount` rest on the same invariant; where never more rows wait than a light
cycle takes, none is outdated (`CountsAnalysed`). `AloneInv` adds that without
scripts the analysis on disk reaches what was analysed, and that what the watch
has read reaches what it will replace.

Only model-checked: the liveness properties (`EveryCallReturns`,
`CloseGetsRecorded`, `EveryClickHandled`, `AdverseGetsClosed`,
`TriggersGetAnswered`, `RowsGetCounted`, `AnalysisCatchesUp`,
`DegradedRecovers`). Liveness under fairness and `ENABLED` are out of the
prover's reach; so are inductions over data and recursive operators, of which
there are none here.

## 6. Where code and documents differ

- **LedgerNoAnswer**: `reconcile_open_trades` takes a positions query without
  answer for no positions (`trade_logger_lifecycle.py` l.236), while
  `check_closed_trades` returns in that case (l.98). A trade that was closed in
  part has an exit deal, so it goes to the file of closed trades while open
  (`docs/ml_application_and_csv_map_ko.md` l.198).
- **GovernanceReopen**: the bridge writes back the status and approval id it
  read in an earlier transaction (`telegram_approval_bridge.py` l.221). A group
  that was decided in between is open again under its old approval id, although
  a closed group should be reopened under a new one
  (`docs/current_b4_telegram_approval_bridge_detailed_plan_ko.md` l.62-63).

## 7. What is left out

In modelled components: column values, prices beyond their distance from the
entry, scores, texts and reasons; legacy CLOSED rows of the open file; queries
and schema of the store; the report texts of the bridge; commands, digests and
cards of the Telegram service; boards and reports around a tick; packets of the
canaries that nobody reads back; spread and session filters of an entry; the
reverse actions and scalps of the exit side beyond that they may end a pass.

Not modelled: **shock events** (a third file with the scheme of the open file)
and the **MT5 reconnect** are planned. **Scoring, chart and trend engines,
machine learning** are numeric with little state between calls, and they are by
far the larger part of the repository's lines: a model of them would repeat
their arithmetic. **Notifier, API routes, scripts, dashboard, storage
compaction** are input and output or offline tools.

Hazards without a property are listed in `PROJECT.json` with the reason. Most
are weaknesses the models show but no document forbids: a decision recorded but
not carried out after a crash, an approval that waits for a bus event lost with
the process, a trade forced twice around a crash, two processes that write the
open file. Smaller ones were met while modelling and are in the models as steps:
`handle_rollback_review` looks at no state
(`checkpoint_improvement_pa8_apply_handlers.py` l.157); the handoff artifact says
applied for ever; a positions query without answer counts as no positions in the
reverse path; a failed close clears the exit manager's memory of a part and a
stop; a crash between the light cycle's mark and its phase change leaves
STARTING until new rows come; the lock of the refresh is looked at and written
in two steps, so two refreshes may overlap and the slower one's older analysis
stays until the next (`AnalysisCatchesUp` holds nevertheless).

## 8. Plan

Done: the nine models above, their runs, the proofs of section 5. Left:

1. `ShockEvents`, with the ledger's open file; the MT5 reconnect; the governance
   reconcile with several scopes, composed with `ApprovalGovernance` (its
   `cancelled`).
2. An abstract course of a canary (active, ready, closed out, handed over) that
   `CanaryLifecycle` implements while no refresh is overtaken, and an abstract
   account of positions for `TradingLoop`.
3. More proofs: a bound of `AppliedOnce` that counts the failures of the store;
   `MirrorAgrees` with several syncing processes that do not overlap.
