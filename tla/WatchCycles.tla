----------------------------- MODULE WatchCycles -----------------------------
(***************************************************************************)
(* The orchestrator of the governance cycles and the refresh of the        *)
(* checkpoint analysis that two of its cycles start.                       *)
(*   - The runner appends checkpoint rows to a file.                       *)
(*   - A tick of the orchestrator (the watch) goes through the light, the  *)
(*     governance, the heavy and the reconcile cycle.  What it knows of    *)
(*     former ticks is in the system state file, which it alone writes:    *)
(*     the phase, the rows it has processed, when a cycle last ran.        *)
(*   - A refresh reads the newest rows, up to a limit, and writes the      *)
(*     analysis of them, under a lock file that is looked at first and     *)
(*     written afterwards.  The operator's scripts refresh as well.        *)
(* Either process may die anywhere and leave the lock file behind.         *)
(***************************************************************************)
EXTENDS Integers

CONSTANTS
    MaxRows,      \* bound: rows the runner appends
    LightRows,    \* new rows that make an early light cycle due
    HeavyRows,    \* new rows that make an early heavy cycle due
    SampleFloor,  \* rows without which no heavy cycle is due
    LightLimit,   \* rows a refresh of the light cycle covers at most
    HeavyLimit,   \* rows a refresh of the heavy cycle covers at most
    MaxToolRuns,  \* bound: refreshes by scripts
    MaxFaults     \* bound: crashes, refreshes and ticks that raise

ASSUME CycleAssumption ==
    /\ {MaxRows, LightRows, HeavyRows, SampleFloor, MaxToolRuns, MaxFaults}
          \subseteq Nat
    /\ LightLimit \in Nat \ {0} /\ HeavyLimit \in Nat /\ LightLimit <= HeavyLimit

VARIABLES
    rows,      \* rows of the checkpoint file, by number: 1 .. rows
    phase,     \* system state: the phase
    counted,   \* system state: row_count_since_boot
    lightAge,  \* time since light_last_run
    heavyAge,  \* time since heavy_last_run
    cycle,     \* the cycle the watch is in, or how far it has recorded it
    began,     \* the phase the present cycle read at its start
    delta,     \* the row_delta the present light cycle read at its start
    at,        \* where a process is in its refresh
    got,       \* the rows a process's refresh has read
    lock,      \* the lock file: none, within its time to live, or older
    analysis,  \* the rows the analysis on disk covers
    analysed,  \* the rows a finished refresh covered at some time
               \* (what the properties observe; no code reads it)
    toolRuns,  \* refreshes by scripts so far (bounds the model)
    faults     \* crashes and exceptions so far (bounds the model)

systemState == <<phase, counted, lightAge, heavyAge>>
tick        == <<cycle, began, delta>>
refresh     == <<at, got, lock, analysis, analysed>>
bounds      == <<toolRuns, faults>>
vars        == <<rows, systemState, tick, refresh, bounds>>

Process == {"watch", "tool"}
(* EMERGENCY and SHUTDOWN are in the table of phases; no code goes there.  *)
Phases  == {"STARTING", "RUNNING", "DEGRADED"}

(* Never, or below the minimal interval (0), below the preferred one (1),  *)
(* or beyond it (2).                                                       *)
Never == -1
Ages  == {Never, 0, 1, 2}

Cycles    == {"rest", "light", "lightCounted", "lightMarked", "governance",
              "heavy", "heavyMarked", "reconcile"}
Running   == {"entered", "stale", "look", "free", "read", "write", "store"}
Results   == {"refreshed", "locked", "raised"}
Unstarted == [p \in Process |-> {}]
Row       == 1 .. MaxRows

TypeOK ==
    /\ rows \in 0 .. MaxRows
    /\ phase \in Phases /\ began \in Phases
    /\ counted \in 0 .. MaxRows /\ delta \in 0 .. MaxRows
    /\ lightAge \in Ages /\ heavyAge \in Ages
    /\ cycle \in Cycles
    /\ at \in [Process -> {"out"} \cup Running \cup Results]
    /\ got \in [Process -> SUBSET Row]
    /\ lock \in {"none", "young", "old"}
    /\ analysis \subseteq Row /\ analysed \subseteq Row
    /\ toolRuns \in 0 .. MaxToolRuns /\ faults \in 0 .. MaxFaults

Init ==
    /\ rows = 0
    /\ phase = "STARTING" /\ counted = 0
    /\ lightAge = Never /\ heavyAge = Never
    /\ cycle = "rest" /\ began = "STARTING" /\ delta = 0
    /\ at = [p \in Process |-> "out"] /\ got = Unstarted
    /\ lock = "none" /\ analysis = {} /\ analysed = {}
    /\ toolRuns = 0 /\ faults = 0

-----------------------------------------------------------------------------
(* The runner and the time.                                                *)

AppendRow ==
    /\ rows < MaxRows
    /\ rows' = rows + 1
    /\ UNCHANGED <<systemState, tick, refresh, bounds>>

Older(age) == IF age \in {0, 1} THEN age + 1 ELSE age

LightOlder ==
    /\ lightAge' = Older(lightAge) /\ lightAge' # lightAge
    /\ UNCHANGED <<rows, phase, counted, heavyAge, tick, refresh, bounds>>

HeavyOlder ==
    /\ heavyAge' = Older(heavyAge) /\ heavyAge' # heavyAge
    /\ UNCHANGED <<rows, phase, counted, lightAge, tick, refresh, bounds>>

LockOlder ==
    /\ lock = "young" /\ lock' = "old"
    /\ UNCHANGED <<rows, systemState, tick, at, got, analysis, analysed, bounds>>

-----------------------------------------------------------------------------
(* A refresh.                                                              *)

Goto(p, place) == at' = [at EXCEPT ![p] = place]

(* Mutant of SeeLock: a lock is never too old.                             *)
SeeLockForEver(p) ==
    /\ at[p] = "entered"
    /\ Goto(p, "look")
    /\ UNCHANGED <<rows, systemState, tick, got, lock, analysis, analysed, bounds>>

(* The age is that of the lock that is there now ...                       *)
SeeLock(p) ==
    /\ at[p] = "entered"
    /\ Goto(p, IF lock = "old" THEN "stale" ELSE "look")
    /\ UNCHANGED <<rows, systemState, tick, got, lock, analysis, analysed, bounds>>

(* ... and what is unlinked is the lock that is there then.                *)
DropStaleLock(p) ==
    /\ at[p] = "stale"
    /\ Goto(p, "look") /\ lock' = "none"
    /\ UNCHANGED <<rows, systemState, tick, got, analysis, analysed, bounds>>

(* A script that does not force may be throttled, which gives the same     *)
(* result to a script: nothing was refreshed.                              *)
LookForLock(p) ==
    /\ at[p] = "look"
    /\ \/ lock = "none" /\ Goto(p, "free")
       \/ (lock # "none" \/ p = "tool") /\ Goto(p, "locked")
    /\ UNCHANGED <<rows, systemState, tick, got, lock, analysis, analysed, bounds>>

WriteLock(p) ==
    /\ at[p] = "free"
    /\ Goto(p, "read") /\ lock' = "young"
    /\ UNCHANGED <<rows, systemState, tick, got, analysis, analysed, bounds>>

(* The newest rows that are covered by a refresh of n rows. *)
Recent(n) == {r \in 1 .. rows : r > rows - n}

(* A script takes its limit from its command line. *)
Limits(p) ==
    IF p = "tool" THEN Row
    ELSE IF cycle = "light" THEN {LightLimit} ELSE {HeavyLimit}

ReadRows(p) ==
    /\ at[p] = "read"
    /\ \E n \in Limits(p) : got' = [got EXCEPT ![p] = Recent(n)]
    /\ Goto(p, "write")
    /\ UNCHANGED <<rows, systemState, tick, lock, analysis, analysed, bounds>>

WriteAnalysis(p) ==
    /\ at[p] = "write"
    /\ Goto(p, "store") /\ analysis' = got[p]
    /\ UNCHANGED <<rows, systemState, tick, got, lock, analysed, bounds>>

(* The refresh unlinks whatever lock is there.                             *)
FinishRefresh(p) ==
    /\ at[p] = "store"
    /\ Goto(p, "refreshed") /\ lock' = "none"
    /\ analysed' = analysed \cup got[p]
    /\ UNCHANGED <<rows, systemState, tick, got, analysis, bounds>>

RefreshRaises(p) ==
    /\ at[p] \in {"read", "write", "store"} /\ faults < MaxFaults
    /\ faults' = faults + 1
    /\ Goto(p, "raised") /\ lock' = "none"
    /\ UNCHANGED <<rows, systemState, tick, got, analysis, analysed, toolRuns>>

RefreshStep(p) ==
    \/ SeeLock(p) \/ DropStaleLock(p) \/ LookForLock(p) \/ WriteLock(p)
    \/ ReadRows(p) \/ WriteAnalysis(p) \/ FinishRefresh(p)

ToolStarts ==
    /\ at["tool"] = "out" /\ toolRuns < MaxToolRuns
    /\ toolRuns' = toolRuns + 1
    /\ Goto("tool", "entered")
    /\ UNCHANGED <<rows, systemState, tick, got, lock, analysis, analysed, faults>>

ToolEnds ==
    /\ at["tool"] \in Results
    /\ Goto("tool", "out") /\ got' = [got EXCEPT !["tool"] = {}]
    /\ UNCHANGED <<rows, systemState, tick, lock, analysis, analysed, bounds>>

-----------------------------------------------------------------------------
(* When a cycle is due.                                                    *)

NewRows == IF rows > counted THEN rows - counted ELSE 0

Due(age, new, floor) ==
    \/ age = Never
    \/ age = 1 /\ new >= floor
    \/ age = 2

LightDue == NewRows > 0 /\ Due(lightAge, NewRows, LightRows)

(* Mutant of HeavyDue: no heavy cycle without new rows.                    *)
HeavyDueOnRows ==
    /\ rows >= SampleFloor
    /\ heavyAge = Never \/ (heavyAge >= 1 /\ NewRows > 0)

HeavyDue == rows >= SampleFloor /\ Due(heavyAge, NewRows, HeavyRows)

-----------------------------------------------------------------------------
(* A tick of the watch.                                                    *)

LightBegins ==
    /\ cycle = "rest"
    /\ began' = phase
    /\ IF LightDue
          THEN cycle' = "light" /\ Goto("watch", "entered") /\ delta' = NewRows
          ELSE cycle' = "governance" /\ UNCHANGED <<at, delta>>
    /\ UNCHANGED <<rows, systemState, got, lock, analysis, analysed, bounds>>

(* The refresh is over; what it read no longer matters.                    *)
Leave ==
    /\ Goto("watch", "out") /\ got' = [got EXCEPT !["watch"] = {}]
    /\ UNCHANGED <<rows, lock, analysis, analysed, bounds>>

(* Mutant of LightCounts: counts every row again.                          *)
LightCountsAll ==
    /\ cycle = "light" /\ at["watch"] = "refreshed"
    /\ counted' = counted + rows
    /\ cycle' = "lightCounted" /\ delta' = 0
    /\ Leave
    /\ UNCHANGED <<phase, lightAge, heavyAge, began>>

LightCounts ==
    /\ cycle = "light" /\ at["watch"] = "refreshed"
    /\ counted' = counted + delta
    /\ cycle' = "lightCounted" /\ delta' = 0
    /\ Leave
    /\ UNCHANGED <<phase, lightAge, heavyAge, began>>

LightMarks ==
    /\ cycle = "lightCounted"
    /\ lightAge' = 0 /\ cycle' = "lightMarked"
    /\ UNCHANGED <<rows, phase, counted, heavyAge, began, delta, refresh,
                   bounds>>

LightRecovers ==
    /\ cycle = "lightMarked"
    /\ phase' = IF began \in {"STARTING", "DEGRADED"} THEN "RUNNING" ELSE phase
    /\ cycle' = "governance"
    /\ UNCHANGED <<rows, counted, lightAge, heavyAge, began, delta, refresh,
                   bounds>>

(* Mutant of LightSkipped: counts the rows of the skipped refresh.         *)
LightSkippedCounts ==
    /\ cycle = "light" /\ at["watch"] = "locked"
    /\ counted' = counted + delta
    /\ cycle' = "governance" /\ delta' = 0
    /\ Leave
    /\ UNCHANGED <<phase, lightAge, heavyAge, began>>

(* SKIP_LOCKED: a WatchError is published, and the state is left alone.    *)
LightSkipped ==
    /\ cycle = "light" /\ at["watch"] = "locked"
    /\ cycle' = "governance" /\ delta' = 0
    /\ Leave
    /\ UNCHANGED <<systemState, began>>

LightFails ==
    /\ cycle = "light" /\ at["watch"] = "raised"
    /\ phase' = "DEGRADED"
    /\ cycle' = "governance" /\ delta' = 0
    /\ Leave
    /\ UNCHANGED <<counted, lightAge, heavyAge, began>>

(* Its board is loaded first, due or not.  Whether it is due depends on    *)
(* canaries and the approval backlog, which are not modelled here.         *)
Governance ==
    /\ cycle = "governance" /\ cycle' = "heavy"
    /\ \/ phase' = "DEGRADED"
       \/ UNCHANGED phase
       \/ phase = "DEGRADED" /\ phase' = "RUNNING"
    /\ UNCHANGED <<rows, counted, lightAge, heavyAge, began, delta, refresh,
                   bounds>>

HeavyBegins ==
    /\ cycle = "heavy" /\ at["watch"] = "out"
    /\ began' = phase
    /\ IF HeavyDue THEN Goto("watch", "entered") /\ UNCHANGED cycle
                   ELSE cycle' = "reconcile" /\ UNCHANGED at
    /\ UNCHANGED <<rows, systemState, delta, got, lock, analysis, analysed, bounds>>

HeavyMarks ==
    /\ cycle = "heavy" /\ at["watch"] = "refreshed"
    /\ heavyAge' = 0 /\ cycle' = "heavyMarked"
    /\ Leave
    /\ UNCHANGED <<phase, counted, lightAge, began, delta>>

(* Mutant of HeavyRecovers: only the light cycle recovers the phase.       *)
HeavyRecoversNot ==
    /\ cycle = "heavyMarked"
    /\ cycle' = "reconcile"
    /\ UNCHANGED <<rows, systemState, began, delta, refresh, bounds>>

HeavyRecovers ==
    /\ cycle = "heavyMarked"
    /\ phase' = IF began = "DEGRADED" THEN "RUNNING" ELSE phase
    /\ cycle' = "reconcile"
    /\ UNCHANGED <<rows, counted, lightAge, heavyAge, began, delta, refresh,
                   bounds>>

HeavySkipped ==
    /\ cycle = "heavy" /\ at["watch"] = "locked"
    /\ cycle' = "reconcile"
    /\ Leave
    /\ UNCHANGED <<systemState, began, delta>>

HeavyFails ==
    /\ cycle = "heavy" /\ at["watch"] = "raised"
    /\ phase' = "DEGRADED" /\ cycle' = "reconcile"
    /\ Leave
    /\ UNCHANGED <<counted, lightAge, heavyAge, began, delta>>

(* The boards around it are the orchestrator's own.                        *)
Reconcile ==
    /\ cycle = "reconcile" /\ cycle' = "rest"
    /\ phase' \in {phase, "DEGRADED"}
    /\ began' = phase'   \* not read again: the next cycle reads its own
    /\ UNCHANGED <<rows, counted, lightAge, heavyAge, delta, refresh, bounds>>

(* Something outside a refresh raises, such as a save of the state, a      *)
(* board, the store or the bridge: the tick ends.                          *)
TickFails ==
    /\ at["watch"] \notin Running
    /\ faults < MaxFaults /\ faults' = faults + 1
    /\ phase' = "DEGRADED" /\ began' = phase'
    /\ cycle' = "rest" /\ delta' = 0
    /\ Goto("watch", "out") /\ got' = [got EXCEPT !["watch"] = {}]
    /\ UNCHANGED <<rows, counted, lightAge, heavyAge, lock, analysis, analysed,
                   toolRuns>>

WatchStep ==
    \/ LightBegins \/ LightCounts \/ LightMarks \/ LightRecovers
    \/ LightSkipped \/ LightFails \/ Governance
    \/ HeavyBegins \/ HeavyMarks \/ HeavyRecovers \/ HeavySkipped \/ HeavyFails
    \/ Reconcile

-----------------------------------------------------------------------------
(* A process dies: its lock file stays.                                    *)

WatchCrash ==
    /\ cycle # "rest" /\ faults < MaxFaults /\ faults' = faults + 1
    /\ cycle' = "rest" /\ began' = phase /\ delta' = 0
    /\ Goto("watch", "out") /\ got' = [got EXCEPT !["watch"] = {}]
    /\ UNCHANGED <<rows, systemState, lock, analysis, analysed, toolRuns>>

ToolCrash ==
    /\ at["tool"] # "out" /\ faults < MaxFaults /\ faults' = faults + 1
    /\ Goto("tool", "out") /\ got' = [got EXCEPT !["tool"] = {}]
    /\ UNCHANGED <<rows, systemState, tick, lock, analysis, analysed, toolRuns>>

Next ==
    \/ AppendRow \/ LightOlder \/ HeavyOlder \/ LockOlder
    \/ \E p \in Process : RefreshStep(p) \/ RefreshRaises(p)
    \/ ToolStarts \/ ToolEnds
    \/ WatchStep \/ TickFails
    \/ WatchCrash \/ ToolCrash

Spec == Init /\ [][Next]_vars

(* The watch loops, and time passes.  A script owes nothing: it may hang   *)
(* with the lock in its hand.                                              *)
Fairness ==
    /\ WF_vars(WatchStep) /\ WF_vars(RefreshStep("watch"))
    /\ WF_vars(LightOlder) /\ WF_vars(HeavyOlder) /\ WF_vars(LockOlder)

FairSpec == Spec /\ Fairness

-----------------------------------------------------------------------------
(* Properties.                                                             *)

(* The rows 1 .. n are covered by S, but for rows that LightLimit newer    *)
(* rows of S have outdated.                                                *)
Reaches(S, n) == \A r \in 1 .. n : r \in S \/ \E m \in S : r + LightLimit <= m

(* What is promised of the rows, see RowAccount: a row is only counted as  *)
(* processed when a finished refresh covered it, or has covered a row so   *)
(* much newer that it is beyond the limit of the light cycle -- a refresh  *)
(* that was skipped, that raised or that died counts nothing -- and no     *)
(* restart, crash or failed tick takes a counted row back                  *)
(* (run_checkpoint_improvement_watch_light_cycle, record_row_observation). *)
Account == INSTANCE RowAccount WITH Limit <- LightLimit
ImplementsAccount == Account!Spec

(* Every row is counted in the end: a skipped cycle, a failed refresh, a   *)
(* crash, or the lock a dead process left behind only delays it            *)
(* (maybe_refresh_checkpoint_analysis_chain, the lock's time to live).     *)
RowsGetCounted == []<>(counted = rows)

(* With rows enough for a heavy cycle, the analysis on disk covers in the  *)
(* end the newest rows, as many as the heavy cycle takes: although a light *)
(* cycle or a script leaves an analysis of fewer rows, and two refreshes   *)
(* may overlap and the slower one overwrite newer results with older ones  *)
(* (the lock is not atomic).                                               *)
AnalysisCatchesUp == []<>(rows >= SampleFloor => Recent(HeavyLimit) \subseteq analysis)

(* With rows enough for a heavy cycle the system does not stay DEGRADED,   *)
(* even when no new row makes a light cycle due                            *)
(* (_recover_running_after_success).                                       *)
DegradedRecovers == []<>(rows >= SampleFloor => phase # "DEGRADED")

=============================================================================
