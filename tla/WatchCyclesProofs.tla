-------------------------- MODULE WatchCyclesProofs --------------------------
(***************************************************************************)
(* Theorems about the orchestrator's cycles and the refresh, for any       *)
(* number of rows, of scripts' refreshes and of faults:                    *)
(*                                                                         *)
(*  - TypeCorrect: every variable keeps its type;                          *)
(*  - CyclesKeepAccount: the cycles implement RowAccount;                  *)
(*  - CountsAnalysed: while no more rows wait to be counted than a light   *)
(*    cycle takes, every counted row has been analysed;                    *)
(*  - AloneKeepsAnalysis: without refreshes by scripts, a row leaves the   *)
(*    analysis on disk only for newer ones, as many as a light cycle takes.*)
(***************************************************************************)
EXTENDS WatchCycles, TLAPS

(* A refresh is only under way in a cycle that starts one, and what a      *)
(* light cycle will count is not read before its refresh, ...              *)
PlaceInv ==
    /\ at["watch"] # "out" => cycle \in {"light", "heavy"}
    /\ cycle # "light" => delta = 0

(* ... is covered by the rows its refresh has read, or outdated by them,   *)
(* and is analysed when the refresh is finished.  What others read or      *)
(* finish only adds to it.                                                 *)
CountInv ==
    /\ Reaches(analysed, counted) /\ analysed \subseteq 1 .. rows
    /\ \A p \in Process : got[p] \subseteq 1 .. rows
    /\ cycle = "light" => counted + delta <= rows
    /\ cycle = "light" /\ at["watch"] \in {"write", "store"}
          => Reaches(got["watch"], counted + delta)
    /\ cycle = "light" /\ at["watch"] = "refreshed"
          => Reaches(analysed, counted + delta)

Inv == TypeOK /\ PlaceInv /\ CountInv

LEMMA Bounds ==
    /\ MaxRows \in Nat /\ LightRows \in Nat /\ HeavyRows \in Nat
    /\ SampleFloor \in Nat /\ MaxToolRuns \in Nat /\ MaxFaults \in Nat
    /\ LightLimit \in Nat \ {0} /\ HeavyLimit \in Nat /\ LightLimit <= HeavyLimit
BY CycleAssumption

(* What is covered up to a row is covered up to an older one, and more     *)
(* rows cover no less.                                                     *)
LEMMA ReachesLess ==
  ASSUME NEW S, NEW n \in Nat, NEW m \in Nat, m <= n, Reaches(S, n)
  PROVE  Reaches(S, m)
BY DEF Reaches

LEMMA ReachesMore ==
  ASSUME NEW S, NEW T, S \subseteq T, NEW n, Reaches(S, n)
  PROVE  Reaches(T, n)
BY DEF Reaches

(* The newest rows cover all there are, whoever reads as many as a light   *)
(* cycle.                                                                  *)
LEMMA RecentReaches ==
  ASSUME rows \in Nat, NEW n \in Nat, LightLimit <= n
  PROVE  Reaches(Recent(n), rows)
<1> SUFFICES ASSUME NEW r \in 1 .. rows, r \notin Recent(n)
             PROVE  \E m \in Recent(n) : r + LightLimit <= m
  BY DEF Reaches
<1>1. r <= rows - n /\ rows \in Recent(n)
  BY Bounds DEF Recent
<1> QED
  BY <1>1, Bounds

(* Rows are only covered up to one that is there. *)
LEMMA ReachBound ==
  ASSUME rows \in Nat, NEW S \in SUBSET (1 .. rows), NEW n \in Nat, Reaches(S, n)
  PROVE  /\ n <= rows
         /\ n > 0 => \E m \in S : n <= m
<1> SUFFICES ASSUME n > 0 PROVE \E m \in S : n <= m
  OBVIOUS
<1>1. n \in 1 .. n
  OBVIOUS
<1>2. n \in S \/ \E m \in S : n + LightLimit <= m
  BY <1>1 DEF Reaches
<1> QED
  BY <1>2, Bounds

LEMMA OlderTyped == \A age \in Ages : Older(age) \in Ages
BY DEF Ages, Never, Older

LEMMA InitInv == Init => Inv
<1> SUFFICES ASSUME Init PROVE Inv
  OBVIOUS
<1>1. TypeOK
  BY Bounds DEF Init, TypeOK, Phases, Ages, Never, Cycles, Unstarted
<1>2. PlaceInv /\ CountInv
  BY DEF Init, PlaceInv, CountInv, Reaches, Unstarted, Process
<1> QED
  BY <1>1, <1>2 DEF Inv

-----------------------------------------------------------------------------
(* A step of a refresh, of the watch or of a script.                       *)

(* The steps that neither read rows nor finish move a process only to a    *)
(* place of which the invariant says nothing.                              *)
LEMMA MoveKeepsInv ==
  ASSUME Inv, NEW p \in Process, at[p] # "out",
         NEW place \in {"stale", "look", "free", "read", "locked", "raised"},
         Goto(p, place),
         lock' \in {"none", "young", "old"}, faults' \in 0 .. MaxFaults,
         UNCHANGED <<rows, systemState, tick, got, analysis, analysed, toolRuns>>
  PROVE  Inv'
<1>1. TypeOK'
  BY DEF Inv, TypeOK, Goto, systemState, tick, Running, Results
<1>2. PlaceInv'
  BY DEF Inv, TypeOK, PlaceInv, Goto, tick, Process
<1>3. CountInv'
  BY DEF Inv, TypeOK, CountInv, Reaches, Goto, systemState, tick, Process
<1> QED
  BY <1>1, <1>2, <1>3 DEF Inv

LEMMA RefreshKeepsInv ==
  ASSUME Inv, NEW p \in Process, RefreshStep(p) \/ RefreshRaises(p)
  PROVE  Inv'
<1>1. CASE SeeLock(p)
  BY <1>1, MoveKeepsInv DEF SeeLock, bounds, Inv, TypeOK
<1>2. CASE DropStaleLock(p)
  BY <1>2, MoveKeepsInv DEF DropStaleLock, bounds, Inv, TypeOK
<1>3. CASE LookForLock(p)
  BY <1>3, MoveKeepsInv DEF LookForLock, bounds, Inv, TypeOK
<1>4. CASE WriteLock(p)
  BY <1>4, MoveKeepsInv DEF WriteLock, bounds, Inv, TypeOK
<1>5. CASE RefreshRaises(p)
  <2>1. faults' \in 0 .. MaxFaults
    BY <1>5, Bounds DEF RefreshRaises, Inv, TypeOK
  <2> QED
    BY <1>5, <2>1, MoveKeepsInv DEF RefreshRaises, Running
<1>6. CASE ReadRows(p)
  <2>0. PICK n \in Limits(p) : got' = [got EXCEPT ![p] = Recent(n)]
    BY <1>6 DEF ReadRows
  <2>6. Recent(n) \subseteq 1 .. rows /\ Recent(n) \subseteq Row
    BY Bounds DEF Recent, Row, Inv, TypeOK
  <2>1. TypeOK'
    <3>1. got' \in [Process -> SUBSET Row]
      BY <2>0, <2>6 DEF Inv, TypeOK
    <3> QED
      BY <1>6, <3>1
      DEF ReadRows, Inv, TypeOK, Goto, systemState, tick, bounds, Running
  <2>2. PlaceInv'
    BY <1>6 DEF ReadRows, Inv, TypeOK, PlaceInv, Goto, tick, Process
  <2>3. \A q \in Process : got'[q] = IF q = p THEN Recent(n) ELSE got[q]
    BY <2>0 DEF Inv, TypeOK
  <2>4. \A q \in Process : at'[q] = IF q = p THEN "write" ELSE at[q]
    BY <1>6 DEF ReadRows, Goto, Inv, TypeOK
  <2>5. CountInv'
    <3>1. /\ UNCHANGED <<rows, counted, analysed, cycle, delta>>
          /\ rows \in Nat /\ counted \in Nat /\ delta \in Nat
      BY <1>6, Bounds DEF ReadRows, systemState, tick, Inv, TypeOK
    <3>2. ASSUME cycle = "light", p = "watch"
          PROVE  Reaches(Recent(n), counted + delta)
      <4>1. n = LightLimit
        BY <3>2 DEF Limits
      <4>2. Reaches(Recent(n), rows)
        BY <3>1, <4>1, RecentReaches, Bounds
      <4> QED
        BY <3>1, <3>2, <4>2, ReachesLess DEF Inv, CountInv
    <3>3. \A q \in Process : got'[q] \subseteq 1 .. rows
      BY <2>3, <2>6 DEF Inv, CountInv
    <3> QED
      BY <2>3, <2>4, <3>1, <3>2, <3>3 DEF Inv, CountInv, Reaches, Process
  <2> QED
    BY <2>1, <2>2, <2>5 DEF Inv
<1>7. CASE WriteAnalysis(p)
  <2>1. TypeOK'
    BY <1>7 DEF WriteAnalysis, Inv, TypeOK, Goto, systemState, tick, bounds,
                Running
  <2>2. PlaceInv'
    BY <1>7 DEF WriteAnalysis, Inv, TypeOK, PlaceInv, Goto, tick, Process
  <2>4. \A q \in Process : at'[q] = IF q = p THEN "store" ELSE at[q]
    BY <1>7 DEF WriteAnalysis, Goto, Inv, TypeOK
  <2>5. CountInv'
    BY <1>7, <2>4
    DEF WriteAnalysis, Inv, TypeOK, CountInv, Reaches, systemState, tick, Process
  <2> QED
    BY <2>1, <2>2, <2>5 DEF Inv
<1>8. CASE FinishRefresh(p)
  <2>1. TypeOK'
    BY <1>8 DEF FinishRefresh, Inv, TypeOK, Goto, systemState, tick, bounds,
                Results
  <2>2. PlaceInv'
    BY <1>8 DEF FinishRefresh, Inv, TypeOK, PlaceInv, Goto, tick, Process
  <2>4. \A q \in Process : at'[q] = IF q = p THEN "refreshed" ELSE at[q]
    BY <1>8 DEF FinishRefresh, Goto, Inv, TypeOK
  <2>5. analysed' = analysed \cup got[p]
    BY <1>8 DEF FinishRefresh
  <2>6. /\ UNCHANGED <<rows, counted, got, cycle, delta>>
        /\ counted \in Nat /\ delta \in Nat
    BY <1>8, Bounds DEF FinishRefresh, systemState, tick, Inv, TypeOK
  <2>7. CountInv'
    <3>1. /\ Reaches(analysed', counted)
          /\ cycle = "light" /\ p = "watch" => Reaches(analysed', counted + delta)
          /\ cycle = "light" /\ at["watch"] = "refreshed"
                => Reaches(analysed', counted + delta)
      BY <1>8, <2>5, ReachesMore DEF FinishRefresh, Inv, CountInv
    <3>2. analysed' \subseteq 1 .. rows
      BY <2>5 DEF Inv, CountInv
    <3> QED
      BY <2>4, <2>6, <3>1, <3>2 DEF Inv, CountInv, Reaches, Process
  <2> QED
    BY <2>1, <2>2, <2>7 DEF Inv
<1> QED
  BY <1>1, <1>2, <1>3, <1>4, <1>5, <1>6, <1>7, <1>8 DEF RefreshStep

-----------------------------------------------------------------------------
(* A step of the watch outside a refresh.                                  *)

(* The cycle that follows is no light cycle, or has yet to read: nothing   *)
(* is left to be counted.                                                  *)
LEMMA LeaveKeepsInv ==
  ASSUME Inv, Leave \/ UNCHANGED <<rows, refresh, bounds>>,
         cycle' \in Cycles \ {"light"}, delta' = 0,
         at'["watch"] # "out" => cycle' = "heavy",
         phase' \in Phases, began' \in Phases,
         lightAge' \in Ages, heavyAge' \in Ages,
         counted' \in Nat, Reaches(analysed, counted')
  PROVE  Inv'
<1>1. UNCHANGED <<rows, lock, analysis, analysed, bounds>>
  BY DEF Leave, refresh
<1>2. \A p \in Process : got'[p] \in {{}, got[p]}
  BY DEF Leave, refresh, Inv, TypeOK
<1>3. /\ at' \in [Process -> {"out"} \cup Running \cup Results]
      /\ got' \in [Process -> SUBSET Row]
  BY Bounds DEF Leave, Goto, refresh, Inv, TypeOK
<1>4. counted' <= rows
  BY ReachBound, Bounds DEF Inv, TypeOK, CountInv
<1>5. TypeOK'
  BY <1>1, <1>3, <1>4, Bounds DEF Inv, TypeOK, CountInv, bounds
<1>6. \A p \in Process : got'[p] \subseteq 1 .. rows'
  BY <1>1, <1>2, Bounds DEF Inv, TypeOK, CountInv
<1>7. Reaches(analysed, counted)' /\ analysed' \subseteq 1 .. rows'
  BY <1>1 DEF Inv, CountInv, Reaches
<1> QED
  BY <1>5, <1>6, <1>7 DEF Inv, PlaceInv, CountInv

LEMMA WatchKeepsInv ==
  ASSUME Inv, WatchStep
  PROVE  Inv'
<1> USE DEF systemState, tick, Never
<1>1. /\ counted \in Nat /\ Reaches(analysed, counted)
      /\ phase \in Phases /\ began \in Phases
      /\ lightAge \in Ages /\ heavyAge \in Ages /\ 0 \in Ages
      /\ {"RUNNING", "DEGRADED"} \subseteq Phases
  BY Bounds DEF Inv, TypeOK, CountInv, Phases, Ages
<1>2. /\ cycle # "light" => delta = 0
      /\ at["watch"] # "out" => cycle \in {"light", "heavy"}
  BY DEF Inv, PlaceInv
<1>3. Leave => at'["watch"] = "out"
  BY DEF Leave, Goto, Inv, TypeOK, Process
<1>4. UNCHANGED refresh => UNCHANGED at
  BY DEF refresh
<1>5. CASE LightBegins
  <2>1. CASE LightDue
    <3>1. delta' \in 0 .. MaxRows /\ counted + delta' <= rows
      BY <1>5, <2>1, Bounds DEF LightBegins, LightDue, NewRows, Inv, TypeOK
    <3>2. at' = [at EXCEPT !["watch"] = "entered"] /\ cycle' = "light"
      BY <1>5, <2>1 DEF LightBegins, Goto
    <3>3. TypeOK'
      BY <1>5, <3>1, <3>2
      DEF LightBegins, Inv, TypeOK, Running, Cycles, bounds
    <3>4. CountInv'
      BY <1>5, <3>1, <3>2 DEF LightBegins, Inv, TypeOK, CountInv, Reaches, Process
    <3> QED
      BY <3>2, <3>3, <3>4 DEF Inv, PlaceInv
  <2>2. CASE ~LightDue
    BY <1>1, <1>2, <1>5, <2>2, LeaveKeepsInv
    DEF LightBegins, refresh, Cycles
  <2> QED
    BY <2>1, <2>2
<1>6. CASE LightCounts
  <2>1. Reaches(analysed, counted + delta) /\ counted + delta \in Nat
    BY <1>6, Bounds DEF LightCounts, Inv, TypeOK, CountInv
  <2> QED
    BY <1>1, <1>3, <1>6, <2>1, LeaveKeepsInv DEF LightCounts, Cycles
<1>7. CASE LightMarks
  BY <1>1, <1>2, <1>4, <1>7, LeaveKeepsInv DEF LightMarks, Cycles
<1>8. CASE LightRecovers
  BY <1>1, <1>2, <1>4, <1>8, LeaveKeepsInv DEF LightRecovers, Cycles
<1>9. CASE LightSkipped
  BY <1>1, <1>3, <1>9, LeaveKeepsInv DEF LightSkipped, Cycles
<1>10. CASE LightFails
  BY <1>1, <1>3, <1>10, LeaveKeepsInv DEF LightFails, Cycles
<1>11. CASE Governance
  BY <1>1, <1>2, <1>4, <1>11, LeaveKeepsInv DEF Governance, Cycles
<1>12. CASE HeavyBegins
  <2>1. CASE HeavyDue
    <3>1. at' = [at EXCEPT !["watch"] = "entered"] /\ cycle' = "heavy"
      BY <1>12, <2>1 DEF HeavyBegins, Goto
    <3>2. TypeOK'
      BY <1>1, <1>12, <3>1 DEF HeavyBegins, Inv, TypeOK, Running, bounds
    <3>3. CountInv'
      BY <1>12, <3>1 DEF HeavyBegins, Inv, TypeOK, CountInv, Reaches, Process
    <3> QED
      BY <1>12, <3>1, <3>2, <3>3 DEF HeavyBegins, Inv, PlaceInv
  <2>2. CASE ~HeavyDue
    BY <1>1, <1>2, <1>12, <2>2, LeaveKeepsInv
    DEF HeavyBegins, refresh, Cycles
  <2> QED
    BY <2>1, <2>2
<1>13. CASE HeavyMarks
  BY <1>1, <1>2, <1>3, <1>13, LeaveKeepsInv DEF HeavyMarks, Cycles
<1>14. CASE HeavyRecovers
  BY <1>1, <1>2, <1>4, <1>14, LeaveKeepsInv DEF HeavyRecovers, Cycles
<1>15. CASE HeavySkipped
  BY <1>1, <1>2, <1>3, <1>15, LeaveKeepsInv DEF HeavySkipped, Cycles
<1>16. CASE HeavyFails
  BY <1>1, <1>2, <1>3, <1>16, LeaveKeepsInv DEF HeavyFails, Cycles
<1>17. CASE Reconcile
  <2>1. cycle' = "rest" /\ delta' = 0 /\ at' = at /\ at["watch"] = "out"
    BY <1>2, <1>4, <1>17 DEF Reconcile
  <2> QED
    BY <1>1, <1>17, <2>1, LeaveKeepsInv DEF Reconcile, Cycles
<1> QED
  BY <1>5, <1>6, <1>7, <1>8, <1>9, <1>10, <1>11, <1>12, <1>13, <1>14, <1>15,
     <1>16, <1>17 DEF WatchStep

-----------------------------------------------------------------------------
(* The other steps.                                                        *)

(* A tick that raises and a crash leave the tick without a refresh.        *)
LEMMA FaultKeepsInv ==
  ASSUME Inv, TickFails \/ WatchCrash \/ ToolCrash
  PROVE  Inv'
<1> DEFINE Ends(p) == /\ at' = [at EXCEPT ![p] = "out"]
                      /\ got' = [got EXCEPT ![p] = {}]
<1>1. PICK p \in Process : Ends(p)
  BY DEF TickFails, WatchCrash, ToolCrash, Goto, Process
<1>2. UNCHANGED <<rows, counted, lightAge, heavyAge, lock, analysis, analysed,
                  toolRuns>>
  BY DEF TickFails, WatchCrash, ToolCrash, systemState
<1>3. faults' \in 0 .. MaxFaults
  BY Bounds DEF TickFails, WatchCrash, ToolCrash, Inv, TypeOK
<1>4. /\ phase' \in Phases /\ began' \in Phases
      /\ cycle' \in Cycles /\ delta' \in 0 .. MaxRows
  BY Bounds
  DEF TickFails, WatchCrash, ToolCrash, systemState, tick, Inv, TypeOK,
      Phases, Cycles
<1>5. \/ p = "watch" /\ cycle' = "rest" /\ delta' = 0
      \/ p = "tool" /\ UNCHANGED <<cycle, delta>>
      \/ UNCHANGED at /\ cycle' = "rest" /\ delta' = 0 /\ at["watch"] = "out"
  BY <1>1
  DEF TickFails, WatchCrash, ToolCrash, Goto, tick, Inv, TypeOK, Process
<1>6. TypeOK'
  BY <1>1, <1>2, <1>3, <1>4, Bounds DEF Inv, TypeOK
<1>7. PlaceInv'
  BY <1>1, <1>5 DEF Inv, TypeOK, PlaceInv, Process
<1>8. CountInv'
  BY <1>1, <1>2, <1>5, Bounds DEF Inv, TypeOK, CountInv, Reaches, Process
<1> QED
  BY <1>6, <1>7, <1>8 DEF Inv

LEMMA SurroundingsKeepInv ==
  ASSUME Inv,
         AppendRow \/ LightOlder \/ HeavyOlder \/ LockOlder
           \/ ToolStarts \/ ToolEnds
  PROVE  Inv'
<1>1. CASE AppendRow
  <2>1. rows' \in 0 .. MaxRows /\ rows' >= rows
    BY <1>1, Bounds DEF AppendRow, Inv, TypeOK
  <2>2. TypeOK' /\ PlaceInv'
    BY <1>1, <2>1 DEF AppendRow, Inv, TypeOK, PlaceInv, systemState, tick,
                      refresh, bounds
  <2>3. CountInv'
    BY <1>1, <2>1, Bounds DEF AppendRow, Inv, TypeOK, CountInv, Reaches,
                              systemState, tick, refresh
  <2> QED
    BY <2>2, <2>3 DEF Inv
<1>2. CASE LightOlder \/ HeavyOlder \/ LockOlder
  <2>1. lightAge' \in Ages /\ heavyAge' \in Ages
    BY <1>2, OlderTyped
    DEF LightOlder, HeavyOlder, LockOlder, systemState, Inv, TypeOK
  <2> QED
    BY <1>2, <2>1
    DEF LightOlder, HeavyOlder, LockOlder, systemState, tick, refresh, bounds,
        Inv, TypeOK, PlaceInv, CountInv, Reaches
<1>3. CASE ToolStarts
  <2>1. toolRuns' \in 0 .. MaxToolRuns /\ at' = [at EXCEPT !["tool"] = "entered"]
    BY <1>3, Bounds DEF ToolStarts, Goto, Inv, TypeOK
  <2> QED
    BY <1>3, <2>1
    DEF ToolStarts, systemState, tick, Inv, TypeOK, PlaceInv, CountInv, Reaches,
        Process, Running
<1>4. CASE ToolEnds
  <2>1. /\ at' = [at EXCEPT !["tool"] = "out"]
        /\ got' = [got EXCEPT !["tool"] = {}]
    BY <1>4 DEF ToolEnds, Goto
  <2>2. TypeOK' /\ PlaceInv'
    BY <1>4, <2>1, Bounds
    DEF ToolEnds, systemState, tick, bounds, Inv, TypeOK, PlaceInv, Process
  <2>3. CountInv'
    BY <1>4, <2>1, Bounds
    DEF ToolEnds, systemState, tick, Inv, TypeOK, CountInv, Reaches, Process
  <2> QED
    BY <2>2, <2>3 DEF Inv
<1> QED
  BY <1>1, <1>2, <1>3, <1>4

LEMMA NextInv == Inv /\ [Next]_vars => Inv'
<1> SUFFICES ASSUME Inv, [Next]_vars PROVE Inv'
  OBVIOUS
<1>1. CASE UNCHANGED vars
  BY <1>1 DEF vars, systemState, tick, refresh, bounds, Inv, TypeOK, PlaceInv,
              CountInv, Reaches
<1>2. CASE Next
  BY <1>2, RefreshKeepsInv, WatchKeepsInv, FaultKeepsInv, SurroundingsKeepInv
  DEF Next
<1> QED
  BY <1>1, <1>2

-----------------------------------------------------------------------------
(* The theorems.                                                           *)

LEMMA Invariance == Spec => []Inv
BY InitInv, NextInv, PTL DEF Spec

(* Every variable keeps its type; that the count of processed rows never   *)
(* exceeds the rows rests on what each refresh has read                    *)
(* (record_row_observation).                                               *)
THEOREM TypeCorrect == Spec => []TypeOK
<1>1. Inv => TypeOK
  BY DEF Inv
<1> QED
  BY <1>1, Invariance, PTL

(* What the account is kept of, step by step. *)
LEMMA AccountStep ==
  ASSUME Inv, [Next]_vars
  PROVE  [Account!Next]_(Account!vars)
<1> USE Bounds DEF Inv, TypeOK, CountInv
<1>1. CASE AppendRow
  <2>1. Account!Append
    BY <1>1 DEF AppendRow, systemState, refresh, Account!Append
  <2> QED
    BY <2>1 DEF Account!Next
<1>2. ASSUME NEW p \in Process, FinishRefresh(p)
      PROVE  Account!Next
  <2>1. analysed \subseteq analysed' /\ analysed' \subseteq 1 .. rows
    BY <1>2 DEF FinishRefresh
  <2>2. Account!Analyse
    BY <1>2, <2>1 DEF FinishRefresh, systemState, Account!Analyse
  <2> QED
    BY <2>2 DEF Account!Next
<1>3. CASE LightCounts
  <2>1. counted' = counted + delta /\ Reaches(analysed, counted + delta)
    BY <1>3 DEF LightCounts
  <2>2. counted' \in counted .. rows
    BY <1>3, <2>1 DEF LightCounts
  <2>3. \A r \in (counted + 1) .. counted' :
           r \in analysed \/ \E m \in analysed : r + LightLimit <= m
    BY <2>1 DEF Reaches
  <2>4. Account!Count
    BY <1>3, <2>2, <2>3
    DEF LightCounts, Leave, Account!Count, Account!Outdated
  <2> QED
    BY <2>4 DEF Account!Next
<1>4. ASSUME NEW p \in Process, RefreshStep(p) \/ RefreshRaises(p), ~FinishRefresh(p)
      PROVE  UNCHANGED Account!vars
  BY <1>4
  DEF RefreshStep, RefreshRaises, SeeLock, DropStaleLock, LookForLock, WriteLock,
      ReadRows, WriteAnalysis, systemState, Account!vars
<1>5. CASE WatchStep /\ ~LightCounts
  BY <1>5
  DEF WatchStep, LightBegins, LightMarks, LightRecovers, LightSkipped, LightFails,
      Governance, HeavyBegins, HeavyMarks, HeavyRecovers, HeavySkipped, HeavyFails,
      Reconcile, Leave, systemState, refresh, Account!vars
<1>6. CASE \/ LightOlder \/ HeavyOlder \/ LockOlder \/ ToolStarts \/ ToolEnds
           \/ TickFails \/ WatchCrash \/ ToolCrash \/ UNCHANGED vars
  BY <1>6
  DEF LightOlder, HeavyOlder, LockOlder, ToolStarts, ToolEnds, TickFails,
      WatchCrash, ToolCrash, vars, systemState, refresh, Account!vars
<1> QED
  BY <1>1, <1>2, <1>3, <1>4, <1>5, <1>6 DEF Next

(* The cycles keep the account of the rows: what is counted was analysed,  *)
(* or is outdated by the limit of an analysis, and nothing is taken back,  *)
(* through skipped, failed and interrupted ticks                           *)
(* (run_checkpoint_improvement_watch_light_cycle, record_row_observation). *)
THEOREM CyclesKeepAccount == Spec => ImplementsAccount
<1>1. Init => Account!Init
  BY DEF Init, Account!Init
<1> QED
  BY <1>1, AccountStep, Invariance, PTL DEF Spec, ImplementsAccount, Account!Spec

(* While never more rows wait to be counted than a light cycle takes,      *)
(* every counted row was covered by a finished refresh, whatever the       *)
(* scripts refresh and the crashes interrupt                               *)
(* (run_checkpoint_improvement_watch_light_cycle, recent_limit).           *)
FewWait == rows <= counted + LightLimit
CountedWereAnalysed == 1 .. counted \subseteq analysed

THEOREM CountsAnalysed == Spec /\ []FewWait => []CountedWereAnalysed
<1>1. Init => CountedWereAnalysed
  BY DEF Init, CountedWereAnalysed
<1>2. Inv /\ FewWait /\ CountedWereAnalysed /\ [Next]_vars => CountedWereAnalysed'
  <2> SUFFICES ASSUME Inv, FewWait, CountedWereAnalysed, [Next]_vars
               PROVE  CountedWereAnalysed'
    OBVIOUS
  <2> USE Bounds DEF Inv, TypeOK, CountInv, FewWait, CountedWereAnalysed
  <2>1. CASE Account!Count
    <3>1. \A r \in (counted + 1) .. counted' : r \in analysed
      <4> TAKE r \in (counted + 1) .. counted'
      <4>1. ~Account!Outdated(r)
        BY <2>1 DEF Account!Outdated, Account!Count
      <4> QED
        BY <2>1, <4>1 DEF Account!Count
    <3> QED
      BY <2>1, <3>1 DEF Account!Count
  <2>2. CASE Account!Append \/ Account!Analyse \/ UNCHANGED Account!vars
    BY <2>2 DEF Account!Append, Account!Analyse, Account!vars
  <2> QED
    BY <2>1, <2>2, AccountStep DEF Account!Next
<1> QED
  BY <1>1, <1>2, Invariance, PTL DEF Spec

-----------------------------------------------------------------------------
(* Without refreshes by scripts.                                           *)

(* The analysis on disk covers the rows that were counted, but for rows    *)
(* that LightLimit newer rows on disk have outdated.                       *)
CountedAreOnDisk == Reaches(analysis, counted)

(* A row only leaves the analysis on disk for newer ones, as many as a     *)
(* light cycle takes.                                                      *)
NewerReplace == \A r \in analysis : Reaches(analysis', r)
AnalysisAdvances == [][NewerReplace]_vars

(* What the watch has read covers what was analysed and what is on disk,   *)
(* and is there once it has written.                                       *)
AloneInv ==
    /\ at["tool"] = "out"
    /\ analysis \subseteq 1 .. rows
    /\ \A r \in analysed \cup analysis : Reaches(analysis, r)
    /\ at["watch"] \in {"write", "store"} =>
          \A r \in analysed \cup analysis \cup got["watch"] : Reaches(got["watch"], r)
    /\ at["watch"] = "store" => analysis = got["watch"]

LEMMA AloneStep ==
  ASSUME MaxToolRuns = 0, Inv, AloneInv, [Next]_vars
  PROVE  AloneInv' /\ NewerReplace
<1> USE Bounds DEF Inv, TypeOK, AloneInv, NewerReplace
<1>6. /\ analysed \subseteq 1 .. rows /\ got["watch"] \subseteq 1 .. rows
      /\ rows \in Nat /\ "watch" \in Process
  BY DEF CountInv, Process
<1>1. ~ToolStarts /\ ~ToolEnds /\ ~ToolCrash
  BY DEF ToolStarts, ToolEnds, ToolCrash, Results
<1>2. ASSUME NEW p \in Process, RefreshStep(p) \/ RefreshRaises(p)
      PROVE  p = "watch"
  BY <1>2 DEF RefreshStep, RefreshRaises, SeeLock, DropStaleLock, LookForLock,
              WriteLock, ReadRows, WriteAnalysis, FinishRefresh, Process
<1>3. CASE RefreshStep("watch") \/ RefreshRaises("watch")
  <2>1. ASSUME NEW place, Goto("watch", place)
        PROVE  at'["watch"] = place /\ at'["tool"] = at["tool"]
    BY <2>1 DEF Goto, Process
  <2>2. CASE \/ SeeLock("watch") \/ DropStaleLock("watch") \/ LookForLock("watch")
             \/ WriteLock("watch") \/ RefreshRaises("watch")
    <3>1. /\ at'["watch"] \notin {"write", "store"} /\ at'["tool"] = "out"
          /\ UNCHANGED <<rows, analysis, analysed>>
      BY <2>1, <2>2
      DEF SeeLock, DropStaleLock, LookForLock, WriteLock, RefreshRaises
    <3> QED
      BY <3>1 DEF Reaches
  <2>3. CASE ReadRows("watch")
    <3>1. PICK n \in Limits("watch") : got' = [got EXCEPT !["watch"] = Recent(n)]
      BY <2>3 DEF ReadRows
    <3>2. /\ at'["watch"] = "write" /\ at'["tool"] = "out"
          /\ got'["watch"] = Recent(n) /\ UNCHANGED <<rows, analysis, analysed>>
      BY <1>6, <2>1, <2>3, <3>1 DEF ReadRows
    <3>3. Reaches(Recent(n), rows)
      BY <1>6, RecentReaches DEF Limits
    <3>4. \A r \in analysed \cup analysis \cup Recent(n) : Reaches(Recent(n), r)
      <4> TAKE r \in analysed \cup analysis \cup Recent(n)
      <4>1. r \in Nat /\ r <= rows
        BY <1>6 DEF Recent
      <4> QED
        BY <1>6, <3>3, <4>1, ReachesLess
    <3> QED
      BY <3>2, <3>4 DEF Reaches
  <2>4. CASE WriteAnalysis("watch")
    <3>1. /\ at["watch"] = "write" /\ at'["watch"] = "store" /\ at'["tool"] = "out"
          /\ analysis' = got["watch"] /\ UNCHANGED <<rows, got, analysed>>
      BY <2>1, <2>4 DEF WriteAnalysis
    <3> QED
      BY <1>6, <3>1 DEF Reaches
  <2>5. CASE FinishRefresh("watch")
    <3>1. /\ at["watch"] = "store" /\ at'["watch"] = "refreshed" /\ at'["tool"] = "out"
          /\ analysed' = analysed \cup got["watch"] /\ UNCHANGED <<rows, analysis>>
      BY <2>1, <2>5 DEF FinishRefresh
    <3> QED
      BY <3>1 DEF Reaches
  <2> QED
    BY <1>3, <2>2, <2>3, <2>4, <2>5 DEF RefreshStep
<1>4. CASE AppendRow \/ LightOlder \/ HeavyOlder \/ LockOlder \/ UNCHANGED vars
  <2>1. rows' \in Nat /\ rows' >= rows /\ UNCHANGED <<at, got, analysis, analysed>>
    BY <1>4 DEF AppendRow, LightOlder, HeavyOlder, LockOlder, vars, refresh
  <2> QED
    BY <2>1 DEF Reaches
<1>5. CASE WatchStep \/ TickFails \/ WatchCrash
  <2>1. ASSUME NEW place, Goto("watch", place)
        PROVE  at'["watch"] = place /\ at'["tool"] = at["tool"]
    BY <2>1 DEF Goto, Process
  <2>2. UNCHANGED <<rows, analysis, analysed>>
    BY <1>5
    DEF WatchStep, LightBegins, LightCounts, LightMarks, LightRecovers,
        LightSkipped, LightFails, Governance, HeavyBegins, HeavyMarks,
        HeavyRecovers, HeavySkipped, HeavyFails, Reconcile, TickFails,
        WatchCrash, Leave, refresh
  <2>3. \/ UNCHANGED <<at, got>>
        \/ at'["watch"] \in {"out", "entered"} /\ at'["tool"] = at["tool"]
    BY <1>5, <2>1
    DEF WatchStep, LightBegins, LightCounts, LightMarks, LightRecovers,
        LightSkipped, LightFails, Governance, HeavyBegins, HeavyMarks,
        HeavyRecovers, HeavySkipped, HeavyFails, Reconcile, TickFails,
        WatchCrash, Leave, refresh
  <2> QED
    BY <2>2, <2>3 DEF Reaches
<1> QED
  BY <1>1, <1>2, <1>3, <1>4, <1>5 DEF Next

(* While only the watch refreshes, the slower of two refreshes does not    *)
(* exist: the analysis on disk covers what was counted, and a row leaves   *)
(* it only for LightLimit newer ones -- a light cycle replaces the longer  *)
(* analysis of a heavy one --, whatever raises or dies in between          *)
(* (maybe_refresh_checkpoint_analysis_chain, record_row_observation).      *)
THEOREM AloneKeepsAnalysis ==
  ASSUME MaxToolRuns = 0
  PROVE  Spec => []CountedAreOnDisk /\ AnalysisAdvances
<1>1. Init => AloneInv
  BY DEF Init, AloneInv, Unstarted, Process
<1>2. Inv /\ AloneInv /\ [Next]_vars => AloneInv' /\ [NewerReplace]_vars
  BY AloneStep
<1>3. Inv /\ AloneInv => CountedAreOnDisk
  <2> SUFFICES ASSUME Inv, AloneInv PROVE Reaches(analysis, counted)
    BY DEF CountedAreOnDisk
  <2>1. counted \in Nat /\ rows \in Nat /\ analysed \in SUBSET (1 .. rows)
    BY Bounds DEF Inv, TypeOK, CountInv
  <2>2. CASE counted = 0
    BY <2>2 DEF Reaches
  <2>3. CASE counted > 0
    <3>1. PICK m \in analysed : counted <= m
      BY <2>1, <2>3, ReachBound DEF Inv, CountInv
    <3>2. Reaches(analysis, m) /\ m \in Nat
      BY <2>1 DEF AloneInv
    <3> QED
      BY <2>1, <3>1, <3>2, ReachesLess
  <2> QED
    BY <2>1, <2>2, <2>3
<1> QED
  BY <1>1, <1>2, <1>3, Invariance, PTL DEF Spec, AnalysisAdvances

=============================================================================
