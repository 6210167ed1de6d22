----------------------- MODULE ApprovalGovernanceProofs -----------------------
(***************************************************************************)
(* Theorems about the approval of proposals, for any number of proposals,  *)
(* clicks and restarts and whatever may fail, unless stated:               *)
(*                                                                         *)
(*  - TypeCorrect: every variable keeps its type;                          *)
(*  - DecidesOnce: a click decides at most once;                           *)
(*  - DecidesOnlyOpen: only groups that are still open are decided;        *)
(*  - AppliesApproved: what is applied was approved by an allowed user;    *)
(*  - AppliedHappened: a group that says applied was applied and recorded; *)
(*  - AppliesOnce: with a store that answers and handlers that do not      *)
(*    raise, an id is applied once, and once more for each restart;        *)
(*  - ApprovalKeepsPromise: the loop implements ApprovalPromise.           *)
(***************************************************************************)
EXTENDS ApprovalGovernance, SequenceTheorems, FiniteSetTheorems, TLAPS

(* Where the runner handles a click: it is one of the batch it fetched.    *)
PlaceInv ==
    /\ batch <= Len(clicks)
    /\ pc["runner"] \notin {"idle", "save"} => current \in 1 .. batch

TypeInv == TypeOK /\ PlaceInv

PcOK == /\ pc \in [Process -> RunnerPlace \cup PlannerPlace]
        /\ pc["runner"] \in RunnerPlace /\ pc["orchestrator"] \in PlannerPlace

LEMMA Appended ==
  ASSUME NEW S, NEW seq \in Seq(S), NEW e \in S
  PROVE  /\ Append(seq, e) \in Seq(S)
         /\ DOMAIN seq = 1 .. Len(seq) /\ Len(seq) \in Nat
         /\ DOMAIN Append(seq, e) = 1 .. (Len(seq) + 1)
         /\ Len(Append(seq, e)) = Len(seq) + 1
         /\ \A i \in 1 .. Len(seq) : Append(seq, e)[i] = seq[i]
         /\ Append(seq, e)[Len(seq) + 1] = e
BY AppendProperties

LEMMA Extended ==
  ASSUME NEW S, NEW seq \in Seq(S), NEW longer,
         longer = seq \/ \E e \in S : longer = Append(seq, e)
  PROVE  /\ Len(longer) >= Len(seq)
         /\ \A i \in 1 .. Len(seq) : longer[i] = seq[i]
<1>1. Len(seq) \in Nat
  OBVIOUS
<1>2. CASE longer = seq
  BY <1>1, <1>2
<1>3. CASE \E e \in S : longer = Append(seq, e)
  <2>1. PICK e \in S : longer = Append(seq, e)
    BY <1>3
  <2>2. Len(longer) = Len(seq) + 1 /\ \A i \in 1 .. Len(seq) : longer[i] = seq[i]
    BY <2>1, Appended
  <2> QED
    BY <1>1, <2>2
<1> QED
  BY <1>2, <1>3

LEMMA Moved ==
  ASSUME TypeInv, NEW p \in Process, NEW place, Goto(p, place),
         IF p = "runner" THEN place \in RunnerPlace ELSE place \in PlannerPlace
  PROVE  /\ PcOK' /\ pc'[p] = place
         /\ \A q \in Process : q # p => pc'[q] = pc[q]
BY DEF Goto, TypeInv, TypeOK, PcOK, Process

(* After the group, the runner goes on with its batch or saves the offset. *)
LEMMA DoneMoves ==
  ASSUME TypeInv, NEW p \in Process, Done(p), pc[p] \notin {"idle", "save"},
         batch' = batch, clicks' = clicks
  PROVE  /\ PcOK' /\ PlaceInv' /\ current' \in Nat
         /\ p = "runner" => /\ pc'["runner"] \in {"resolve", "save"}
                            /\ pc'["orchestrator"] = pc["orchestrator"]
         /\ p = "orchestrator" => /\ pc'["orchestrator"] = "idle"
                                  /\ pc'["runner"] = pc["runner"]
                                  /\ current' = current
<1>1. CASE p = "orchestrator"
  <2>1. Goto(p, "idle") /\ current' = current
    BY <1>1 DEF Done
  <2> QED
    BY <1>1, <2>1, Moved DEF PlannerPlace, Process, TypeInv, TypeOK, PlaceInv
<1>2. CASE p = "runner" /\ current < batch
  <2>1. Goto(p, "resolve") /\ current' = current + 1
    BY <1>2 DEF Done
  <2>2. PcOK' /\ pc'["runner"] = "resolve" /\ pc'["orchestrator"] = pc["orchestrator"]
    BY <1>2, <2>1, Moved DEF RunnerPlace, Process
  <2> QED
    BY <1>2, <2>1, <2>2 DEF TypeInv, TypeOK, PlaceInv
<1>3. CASE p = "runner" /\ ~(current < batch)
  <2>1. Goto(p, "save") /\ current' = current
    BY <1>3 DEF Done
  <2>2. PcOK' /\ pc'["runner"] = "save" /\ pc'["orchestrator"] = pc["orchestrator"]
    BY <1>3, <2>1, Moved DEF RunnerPlace, Process
  <2> QED
    BY <1>3, <2>1, <2>2 DEF TypeInv, TypeOK, PlaceInv
<1> QED
  BY <1>1, <1>2, <1>3 DEF Process

(* The click at hand is a click, and stays the same while others are made. *)
LEMMA ClickTyped ==
  ASSUME TypeInv, pc["runner"] \notin {"idle", "save"}
  PROVE  /\ current \in 1 .. Len(clicks) /\ current \in DOMAIN clicks
         /\ click \in Click
BY DEF TypeInv, TypeOK, PlaceInv, click

-----------------------------------------------------------------------------
(* Type correctness.                                                       *)

LEMMA InitTyped == Init => TypeInv
BY DEF Init, TypeInv, TypeOK, PlaceInv, NoGroup, Group, Actionable, Final,
       Process, RunnerPlace, PlannerPlace

LEMMA UsersTyped ==
  ASSUME TypeInv,
         \/ \E decision \in Decision, approval \in prompts, allowed \in BOOLEAN :
               Press(decision, approval, allowed)
         \/ \E approval \in 1 .. proposals : DeadlinePasses(approval)
  PROVE  TypeInv'
<1>1. ASSUME NEW decision \in Decision, NEW approval \in prompts,
             NEW allowed \in BOOLEAN, Press(decision, approval, allowed)
      PROVE  TypeInv'
  <2>1. [decision |-> decision, approval |-> approval, allowed |-> allowed] \in Click
    BY DEF Click, TypeInv, TypeOK
  <2>2. clicks \in Seq(Click)
    BY DEF TypeInv, TypeOK
  <2>3. clicks' \in Seq(Click) /\ Len(clicks') = Len(clicks) + 1
    BY <1>1, <2>1, <2>2, Appended DEF Press
  <2>4. batch <= Len(clicks')
    BY <2>2, <2>3 DEF TypeInv, TypeOK, PlaceInv
  <2> QED
    BY <1>1, <2>3, <2>4 DEF Press, TypeInv, TypeOK, PlaceInv, store, runner, planner
<1>2. ASSUME NEW approval \in 1 .. proposals, DeadlinePasses(approval)
      PROVE  TypeInv'
  BY <1>2 DEF DeadlinePasses, TypeInv, TypeOK, PlaceInv, store, runner, planner
<1> QED
  BY <1>1, <1>2

LEMMA PlannerTyped ==
  ASSUME TypeInv, ReviewNeeded \/ ReadGroup \/ UpsertGroup \/ AppendEvent
  PROVE  TypeInv'
<1>1. ASSUME NEW place \in PlannerPlace, Goto("orchestrator", place)
      PROVE  PcOK' /\ pc'["runner"] = pc["runner"]
  BY <1>1, Moved DEF Process
<1>2. CASE ReviewNeeded
  <2>1. PcOK' /\ pc'["runner"] = pc["runner"]
    BY <1>1, <1>2 DEF ReviewNeeded, PlannerPlace
  <2> QED
    BY <1>2, <2>1 DEF ReviewNeeded, TypeInv, TypeOK, PlaceInv, PcOK, store, outside, runner
<1>3. CASE ReadGroup
  <2>1. PcOK' /\ pc'["runner"] = pc["runner"]
    BY <1>1, <1>3 DEF ReadGroup, PlannerPlace
  <2>2. row' \in [Process -> Group]
    BY <1>3 DEF ReadGroup, TypeInv, TypeOK, Group, Actionable
  <2> QED
    BY <1>3, <2>1, <2>2
    DEF ReadGroup, TypeInv, TypeOK, PlaceInv, PcOK, store, outside, runner, planner
<1>4. CASE UpsertGroup
  <2>1. PcOK' /\ pc'["runner"] = pc["runner"]
    BY <1>1, <1>4 DEF UpsertGroup, PlannerPlace
  <2> QED
    BY <1>4, <2>1
    DEF UpsertGroup, TypeInv, TypeOK, PlaceInv, PcOK, Process, outside, runner, planner
<1>5. CASE AppendEvent
  <2>1. PcOK' /\ pc'["runner"] = pc["runner"]
    BY <1>1, <1>5 DEF AppendEvent, PlannerPlace
  <2> QED
    BY <1>5, <2>1 DEF AppendEvent, TypeInv, TypeOK, PlaceInv, PcOK, outside, runner, planner
<1> QED
  BY <1>2, <1>3, <1>4, <1>5

LEMMA PromptTyped ==
  ASSUME TypeInv, NEW p \in Process, PromptStep(p)
  PROVE  TypeInv'
<1>1. ASSUME NEW place \in {"noteRead", "noteWrite"}, Goto(p, place), pc[p] \notin {"idle", "save"}
      PROVE  PcOK' /\ (pc'["runner"] \notin {"idle", "save"} => pc["runner"] \notin {"idle", "save"})
  <2>1. PcOK' /\ \A q \in Process : q # p => pc'[q] = pc[q]
    BY <1>1, Moved DEF RunnerPlace, PlannerPlace
  <2> QED
    BY <1>1, <2>1 DEF Process
<1>2. CASE SendPrompt(p)
  <2>1. PcOK' /\ (pc'["runner"] \notin {"idle", "save"} => pc["runner"] \notin {"idle", "save"})
    BY <1>1, <1>2 DEF SendPrompt, At
  <2>2. prompts' \subseteq Nat
    BY <1>2 DEF SendPrompt, TypeInv, TypeOK, Group
  <2> QED
    BY <1>2, <2>1, <2>2 DEF SendPrompt, TypeInv, TypeOK, PlaceInv, PcOK, store, runner, planner
<1>3. CASE SkipPrompt(p)
  <2>1. PcOK' /\ PlaceInv' /\ current' \in Nat
    BY <1>3, DoneMoves DEF SkipPrompt, At, outside
  <2> QED
    BY <1>3, <2>1 DEF SkipPrompt, TypeInv, TypeOK, PcOK, store, outside, planner
<1>4. CASE NoteRead(p)
  <2>1. PcOK' /\ (pc'["runner"] \notin {"idle", "save"} => pc["runner"] \notin {"idle", "save"})
    BY <1>1, <1>4 DEF NoteRead, At
  <2>2. row' \in [Process -> Group]
    BY <1>4 DEF NoteRead, TypeInv, TypeOK
  <2> QED
    BY <1>4, <2>1, <2>2
    DEF NoteRead, TypeInv, TypeOK, PlaceInv, PcOK, store, outside, runner, planner
<1>5. CASE NoteWrite(p)
  <2>1. PcOK' /\ PlaceInv' /\ current' \in Nat
    BY <1>5, DoneMoves DEF NoteWrite, At, outside
  <2> QED
    BY <1>5, <2>1 DEF NoteWrite, TypeInv, TypeOK, PcOK, outside, planner
<1> QED
  BY <1>2, <1>3, <1>4, <1>5 DEF PromptStep

LEMMA RunnerMoves ==
  ASSUME TypeInv, NEW place \in RunnerPlace, Goto("runner", place)
  PROVE  PcOK' /\ pc'["runner"] = place /\ pc'["orchestrator"] = pc["orchestrator"]
BY Moved DEF Process

LEMMA Recorded ==
  ASSUME TypeInv, NEW action, NEW from, NEW approval, Record(action, from, approval),
         [action |-> action, click |-> from, approval |-> approval] \in ActionRow
  PROVE  /\ actions' \in Seq(ActionRow)
         /\ DOMAIN actions = 1 .. Len(actions) /\ Len(actions) \in Nat
         /\ DOMAIN actions' = 1 .. (Len(actions) + 1)
         /\ \A i \in 1 .. Len(actions) : actions'[i] = actions[i]
         /\ actions'[Len(actions) + 1]
              = [action |-> action, click |-> from, approval |-> approval]
BY Appended DEF Record, TypeInv, TypeOK

LEMMA PollTyped ==
  ASSUME TypeInv, Fetch \/ Resolve \/ SaveOffset
  PROVE  TypeInv'
<1>1. CASE Fetch
  <2>1. PcOK' /\ pc'["runner"] = "resolve"
    BY <1>1, RunnerMoves DEF Fetch, RunnerPlace
  <2>2. /\ batch' = Len(clicks) /\ current' = offset + 1 /\ offset < Len(clicks)
        /\ Len(clicks) \in Nat /\ clicks' = clicks
    BY <1>1 DEF Fetch, TypeInv, TypeOK, outside
  <2>3. PlaceInv' /\ batch' \in Nat /\ current' \in Nat
    BY <2>2 DEF PlaceInv, TypeInv, TypeOK
  <2> QED
    BY <1>1, <2>1, <2>3 DEF Fetch, TypeInv, TypeOK, PcOK, store, outside, planner
<1>2. CASE Resolve
  <2>1. Checks \in RunnerPlace
    BY DEF Checks, RunnerPlace
  <2>2. PcOK'
    BY <1>2, <2>1, RunnerMoves DEF Resolve
  <2>3. row' \in [Process -> Group]
    BY <1>2 DEF Resolve, TypeInv, TypeOK
  <2>4. PlaceInv'
    BY <1>2 DEF Resolve, At, PlaceInv, TypeInv, runner, outside
  <2> QED
    BY <1>2, <2>2, <2>3, <2>4
    DEF Resolve, TypeInv, TypeOK, PcOK, store, outside, runner, planner
<1>3. CASE SaveOffset
  <2>1. PcOK' /\ pc'["runner"] = "idle"
    BY <1>3, RunnerMoves DEF SaveOffset, RunnerPlace
  <2> QED
    BY <1>3, <2>1
    DEF SaveOffset, TypeInv, TypeOK, PlaceInv, PcOK, store, outside, runner, planner
<1> QED
  BY <1>1, <1>2, <1>3

LEMMA DecisionTyped ==
  ASSUME TypeInv, RecordExpiry \/ ExpireGroup \/ RecordDecision \/ DecideGroup
  PROVE  TypeInv'
<1>1. CASE RecordExpiry
  <2>1. PcOK'
    BY <1>1, RunnerMoves DEF RecordExpiry, RunnerPlace
  <2>2. [action |-> "expire", click |-> current, approval |-> row["runner"].approval]
          \in ActionRow
    BY DEF TypeInv, TypeOK, ActionRow, Group, Process
  <2>3. actions' \in Seq(ActionRow)
    BY <1>1, <2>2, Recorded DEF RecordExpiry
  <2> QED
    BY <1>1, <2>1, <2>3
    DEF RecordExpiry, At, TypeInv, TypeOK, PlaceInv, PcOK, outside, runner, planner
<1>2. CASE ExpireGroup
  <2>1. PcOK'
    BY <1>2, RunnerMoves DEF ExpireGroup, RunnerPlace
  <2>2. group' \in Group
    BY <1>2 DEF ExpireGroup, SetGroup, TypeInv, TypeOK, Group, Final, Process
  <2> QED
    BY <1>2, <2>1, <2>2
    DEF ExpireGroup, At, TypeInv, TypeOK, PlaceInv, PcOK, outside, runner, planner
<1>3. CASE RecordDecision
  <2>1. PcOK'
    BY <1>3, RunnerMoves DEF RecordDecision, RunnerPlace
  <2>2. click \in Click
    BY <1>3, ClickTyped DEF RecordDecision, At
  <2>3. [action |-> click.decision, click |-> current, approval |-> click.approval]
          \in ActionRow
    BY <2>2 DEF TypeInv, TypeOK, ActionRow, Click
  <2>4. actions' \in Seq(ActionRow)
    BY <1>3, <2>3, Recorded DEF RecordDecision
  <2> QED
    BY <1>3, <2>1, <2>4
    DEF RecordDecision, At, TypeInv, TypeOK, PlaceInv, PcOK, outside, runner, planner
<1>4. CASE DecideGroup
  <2>1. PcOK'
    BY <1>4, RunnerMoves DEF DecideGroup, RunnerPlace
  <2>2. click \in Click
    BY <1>4, ClickTyped DEF DecideGroup, At
  <2>3. DecidedStatus \in Actionable \cup Final
    BY <2>2 DEF DecidedStatus, StatusAfter, Click, Decision, Actionable, Final
  <2>4. group' \in Group
    BY <1>4, <2>2, <2>3 DEF DecideGroup, SetGroup, Group, Click
  <2> QED
    BY <1>4, <2>1, <2>4
    DEF DecideGroup, At, TypeInv, TypeOK, PlaceInv, PcOK, outside, runner, planner
<1> QED
  BY <1>1, <1>2, <1>3, <1>4

LEMMA ApplyTyped ==
  ASSUME TypeInv,
         Drain \/ CheckApproval \/ RunHandler \/ HandlerRaises \/ RecordApply
         \/ SetApplied
  PROVE  TypeInv'
<1>1. click \in Click
  BY ClickTyped DEF Drain, CheckApproval, RunHandler, HandlerRaises, RecordApply,
                    SetApplied, At
<1>2. CASE Drain
  <2>1. PcOK'
    BY <1>2, RunnerMoves DEF Drain, RunnerPlace
  <2> QED
    BY <1>2, <2>1
    DEF Drain, At, TypeInv, TypeOK, PlaceInv, PcOK, store, outside, planner
<1>3. CASE CheckApproval
  <2>1. PcOK'
    BY <1>3, RunnerMoves DEF CheckApproval, RunnerPlace
  <2> QED
    BY <1>3, <2>1
    DEF CheckApproval, At, TypeInv, TypeOK, PlaceInv, PcOK, store, outside, runner, planner
<1>4. CASE RunHandler
  <2>1. PcOK'
    BY <1>4, RunnerMoves DEF RunHandler, RunnerPlace
  <2>2. [approval |-> click.approval, proposal |-> review] \in Effect
    BY <1>1 DEF Click, Effect, TypeInv, TypeOK
  <2>3. effects' \in Seq(Effect)
    BY <1>4, <2>2, Appended DEF RunHandler, TypeInv, TypeOK
  <2> QED
    BY <1>4, <2>1, <2>3
    DEF RunHandler, At, TypeInv, TypeOK, PlaceInv, PcOK, store, runner, planner
<1>5. CASE HandlerRaises
  <2>1. PcOK'
    BY <1>5, RunnerMoves DEF HandlerRaises, RunnerPlace
  <2> QED
    BY <1>5, <2>1
    DEF HandlerRaises, At, TypeInv, TypeOK, PlaceInv, PcOK, store, outside, runner, planner
<1>6. CASE RecordApply
  <2>1. PcOK'
    BY <1>6, RunnerMoves DEF RecordApply, RunnerPlace
  <2>2. [action |-> "apply", click |-> 0, approval |-> click.approval] \in ActionRow
    BY <1>1 DEF ActionRow, Click
  <2>3. actions' \in Seq(ActionRow)
    BY <1>6, <2>2, Recorded DEF RecordApply
  <2> QED
    BY <1>6, <2>1, <2>3
    DEF RecordApply, At, TypeInv, TypeOK, PlaceInv, PcOK, outside, runner, planner
<1>7. CASE SetApplied
  <2>1. PcOK'
    BY <1>7, RunnerMoves DEF SetApplied, RunnerPlace
  <2>2. group' \in Group
    BY <1>1, <1>7 DEF SetApplied, SetGroup, Group, Final, Click
  <2> QED
    BY <1>7, <2>1, <2>2
    DEF SetApplied, At, TypeInv, TypeOK, PlaceInv, PcOK, outside, runner, planner
<1> QED
  BY <1>2, <1>3, <1>4, <1>5, <1>6, <1>7

LEMMA FaultsTyped ==
  ASSUME TypeInv, CallRaises \/ Restart
  PROVE  TypeInv'
<1>1. CASE CallRaises
  <2>1. PcOK' /\ PlaceInv' /\ current' \in Nat
    <3>1. CASE pc["runner"] \in {"execute", "recordApply", "setApplied"}
               /\ Goto("runner", "prompt") /\ UNCHANGED current
      BY <1>1, <3>1, RunnerMoves
      DEF CallRaises, RunnerPlace, TypeInv, TypeOK, PlaceInv, outside
    <3>2. CASE Done("runner") /\ pc["runner"] \notin {"idle", "save"}
      BY <1>1, <3>2, DoneMoves DEF CallRaises, Process, outside
    <3> QED
      BY <1>1, <3>1, <3>2 DEF CallRaises
  <2> QED
    BY <1>1, <2>1 DEF CallRaises, TypeInv, TypeOK, PcOK, store, outside, planner
<1>2. CASE Restart
  <2>1. PcOK' /\ pc'["runner"] = "idle"
    BY <1>2, RunnerMoves DEF Restart, RunnerPlace
  <2>2. row' \in [Process -> Group]
    BY <1>2 DEF Restart, NoGroup, Group, TypeInv, TypeOK
  <2>3. PlaceInv'
    BY <1>2, <2>1 DEF Restart, outside, PlaceInv, TypeInv, TypeOK
  <2> QED
    BY <1>2, <2>1, <2>2, <2>3
    DEF Restart, TypeInv, TypeOK, PcOK, store, outside, planner
<1> QED
  BY <1>1, <1>2

LEMMA TypeStep == TypeInv /\ [Next]_vars => TypeInv'
<1>1. TypeInv /\ UNCHANGED vars => TypeInv'
  BY DEF vars, store, outside, runner, planner, TypeInv, TypeOK, PlaceInv
<1> QED
  BY <1>1, UsersTyped, PlannerTyped, PromptTyped, PollTyped, DecisionTyped,
     ApplyTyped, FaultsTyped DEF Next, OrchestratorStep, RunnerStep, Process

LEMMA TypesHold == Spec => []TypeInv
BY InitTyped, TypeStep, PTL DEF Spec

(* Whatever is clicked, delivered again, lost or raised, every variable    *)
(* stays in its type.                                                      *)
THEOREM TypeCorrect == Spec => []TypeOK
<1>1. TypeInv => TypeOK
  BY DEF TypeInv
<1> QED
  BY <1>1, TypesHold, PTL

-----------------------------------------------------------------------------
(* The steps, by what they leave to the runner.                            *)

(* The users, time and the orchestrator. *)
Bystander ==
    \/ \E decision \in Decision, approval \in prompts, allowed \in BOOLEAN :
          Press(decision, approval, allowed)
    \/ \E approval \in 1 .. proposals : DeadlinePasses(approval)
    \/ ReviewNeeded \/ OrchestratorStep
    \/ UNCHANGED vars

(* The runner comes to a click, keeps the prompt, gives up, or dies. *)
Elsewhere ==
    Fetch \/ PromptStep("runner") \/ HandlerRaises \/ SaveOffset
    \/ CallRaises \/ Restart

ElsewherePlace == {"idle", "resolve", "prompt", "noteRead", "noteWrite", "save"}

(* The runner decides a click and applies what it approved. *)
Decides == Resolve \/ RecordExpiry \/ ExpireGroup \/ RecordDecision \/ DecideGroup
Applies == Drain \/ CheckApproval \/ RunHandler \/ RecordApply \/ SetApplied

LEMMA Steps ==
  [Next]_vars => Bystander \/ Elsewhere \/ Decides \/ Applies
BY DEF Next, RunnerStep, Bystander, Elsewhere, Decides, Applies

LEMMA BystanderKeeps ==
  ASSUME TypeInv, Bystander
  PROVE  /\ pc'["runner"] = pc["runner"] /\ row'["runner"] = row["runner"]
         /\ UNCHANGED <<actions, effects, runner, restarts>>
<1>1. ASSUME NEW place, Goto("orchestrator", place)
      PROVE  pc'["runner"] = pc["runner"]
  BY <1>1 DEF Goto, TypeInv, TypeOK, Process
<1>2. CASE \/ \E decision \in Decision, approval \in prompts, allowed \in BOOLEAN :
                Press(decision, approval, allowed)
           \/ \E approval \in 1 .. proposals : DeadlinePasses(approval)
           \/ UNCHANGED vars
  BY <1>2 DEF Press, DeadlinePasses, vars, store, outside
<1>3. CASE ReviewNeeded \/ UpsertGroup \/ AppendEvent
  BY <1>1, <1>3 DEF ReviewNeeded, UpsertGroup, AppendEvent, store, outside
<1>4. CASE ReadGroup
  <2>1. row'["runner"] = row["runner"]
    BY <1>4 DEF ReadGroup, TypeInv, TypeOK, Process
  <2> QED
    BY <1>1, <1>4, <2>1 DEF ReadGroup, store, outside
<1>5. CASE SendPrompt("orchestrator")
  BY <1>1, <1>5 DEF SendPrompt, store
<1>6. CASE NoteRead("orchestrator")
  <2>1. row'["runner"] = row["runner"]
    BY <1>6 DEF NoteRead, TypeInv, TypeOK, Process
  <2> QED
    BY <1>1, <1>6, <2>1 DEF NoteRead, store, outside
<1>7. CASE SkipPrompt("orchestrator") \/ NoteWrite("orchestrator")
  <2>1. pc'["runner"] = pc["runner"] /\ current' = current
    BY <1>1, <1>7 DEF SkipPrompt, NoteWrite, Done
  <2> QED
    BY <1>7, <2>1 DEF SkipPrompt, NoteWrite, store, outside, runner
<1> QED
  BY <1>2, <1>3, <1>4, <1>5, <1>6, <1>7 DEF Bystander, OrchestratorStep, PromptStep

LEMMA ElsewhereKeeps ==
  ASSUME TypeInv, Elsewhere
  PROVE  /\ pc'["runner"] \in ElsewherePlace
         /\ pc'["orchestrator"] = pc["orchestrator"]
         /\ row'["orchestrator"] = row["orchestrator"]
         /\ UNCHANGED <<actions, effects, clicks>>
<1>1. ASSUME NEW place \in ElsewherePlace, Goto("runner", place)
      PROVE  /\ pc'["runner"] \in ElsewherePlace
             /\ pc'["orchestrator"] = pc["orchestrator"]
  BY <1>1, RunnerMoves DEF ElsewherePlace, RunnerPlace
<1>2. ASSUME Done("runner")
      PROVE  /\ pc'["runner"] \in ElsewherePlace
             /\ pc'["orchestrator"] = pc["orchestrator"]
  BY <1>1, <1>2 DEF Done, ElsewherePlace
<1>3. CASE Fetch \/ SendPrompt("runner") \/ HandlerRaises \/ SaveOffset
  BY <1>1, <1>3
  DEF Fetch, SendPrompt, HandlerRaises, SaveOffset, ElsewherePlace, store, outside
<1>4. CASE NoteRead("runner") \/ Restart
  <2>1. row'["orchestrator"] = row["orchestrator"]
    BY <1>4 DEF NoteRead, Restart, TypeInv, TypeOK, Process
  <2> QED
    BY <1>1, <1>4, <2>1 DEF NoteRead, Restart, ElsewherePlace, store, outside
<1>5. CASE SkipPrompt("runner") \/ NoteWrite("runner")
  BY <1>2, <1>5 DEF SkipPrompt, NoteWrite, store, outside
<1>6. CASE CallRaises
  BY <1>1, <1>2, <1>6 DEF CallRaises, ElsewherePlace, store, outside
<1> QED
  BY <1>3, <1>4, <1>5, <1>6 DEF Elsewhere, PromptStep

(* What is recorded, done or clicked stays so. *)
LEMMA Grows ==
  ASSUME TypeInv, [Next]_vars
  PROVE  /\ Len(clicks') >= Len(clicks)
         /\ \A i \in 1 .. Len(clicks) : clicks'[i] = clicks[i]
         /\ Len(actions') >= Len(actions)
         /\ \A i \in 1 .. Len(actions) : actions'[i] = actions[i]
         /\ Len(effects') >= Len(effects)
         /\ \A i \in 1 .. Len(effects) : effects'[i] = effects[i]
<1>1. /\ clicks \in Seq(Click) /\ actions \in Seq(ActionRow) /\ effects \in Seq(Effect)
      /\ Len(clicks) \in Nat /\ Len(actions) \in Nat /\ Len(effects) \in Nat
  BY DEF TypeInv, TypeOK
<1>2. clicks' = clicks \/ \E c \in Click : clicks' = Append(clicks, c)
  <2>1. ASSUME NEW decision \in Decision, NEW approval \in prompts,
               NEW allowed \in BOOLEAN, Press(decision, approval, allowed)
        PROVE  \E c \in Click : clicks' = Append(clicks, c)
    <3>1. [decision |-> decision, approval |-> approval, allowed |-> allowed] \in Click
      BY DEF Click, TypeInv, TypeOK
    <3> QED
      BY <2>1, <3>1 DEF Press
  <2>2. ASSUME ~\E decision \in Decision, approval \in prompts, allowed \in BOOLEAN :
                   Press(decision, approval, allowed)
        PROVE  clicks' = clicks
    BY <2>2 DEF Next, DeadlinePasses, ReviewNeeded, OrchestratorStep, ReadGroup,
                UpsertGroup, AppendEvent, PromptStep, SendPrompt, SkipPrompt,
                NoteRead, NoteWrite, RunnerStep, Fetch, Resolve, RecordExpiry,
                ExpireGroup, RecordDecision, DecideGroup, Drain, CheckApproval,
                RunHandler, HandlerRaises, RecordApply, SetApplied, SaveOffset,
                CallRaises, Restart, vars, outside
  <2> QED
    BY <2>1, <2>2
<1>3. actions' = actions \/ \E a \in ActionRow : actions' = Append(actions, a)
  <2>1. CASE RecordExpiry
    <3>1. [action |-> "expire", click |-> current, approval |-> row["runner"].approval]
            \in ActionRow
      BY DEF TypeInv, TypeOK, ActionRow, Group, Process
    <3> QED
      BY <2>1, <3>1 DEF RecordExpiry, Record
  <2>2. CASE RecordDecision
    <3>1. click \in Click
      BY <2>2, ClickTyped DEF RecordDecision, At
    <3>2. [action |-> click.decision, click |-> current, approval |-> click.approval]
            \in ActionRow
      BY <3>1 DEF TypeInv, TypeOK, ActionRow, Click
    <3> QED
      BY <2>2, <3>2 DEF RecordDecision, Record
  <2>3. CASE RecordApply
    <3>1. click \in Click
      BY <2>3, ClickTyped DEF RecordApply, At
    <3>2. [action |-> "apply", click |-> 0, approval |-> click.approval] \in ActionRow
      BY <3>1 DEF ActionRow, Click
    <3> QED
      BY <2>3, <3>2 DEF RecordApply, Record
  <2>4. CASE Resolve \/ ExpireGroup \/ DecideGroup
    BY <2>4 DEF Resolve, ExpireGroup, DecideGroup, store
  <2>5. CASE Drain \/ CheckApproval \/ RunHandler \/ SetApplied
    BY <2>5 DEF Drain, CheckApproval, RunHandler, SetApplied, store
  <2> QED
    BY <2>1, <2>2, <2>3, <2>4, <2>5, Steps, BystanderKeeps, ElsewhereKeeps
    DEF Decides, Applies
<1>4. effects' = effects \/ \E e \in Effect : effects' = Append(effects, e)
  <2>1. CASE RunHandler
    <3>1. click \in Click
      BY <2>1, ClickTyped DEF RunHandler, At
    <3>2. [approval |-> click.approval, proposal |-> review] \in Effect
      BY <3>1 DEF Click, Effect, TypeInv, TypeOK
    <3> QED
      BY <2>1, <3>2 DEF RunHandler
  <2>2. CASE Decides
    BY <2>2 DEF Decides, Resolve, RecordExpiry, ExpireGroup, RecordDecision,
                DecideGroup, outside
  <2>3. CASE Drain \/ CheckApproval \/ RecordApply \/ SetApplied
    BY <2>3 DEF Drain, CheckApproval, RecordApply, SetApplied, outside
  <2> QED
    BY <2>1, <2>2, <2>3, Steps, BystanderKeeps, ElsewhereKeeps DEF Applies
<1>5. /\ Len(clicks') >= Len(clicks)
      /\ \A i \in 1 .. Len(clicks) : clicks'[i] = clicks[i]
  BY <1>1, <1>2, Extended
<1>6. /\ Len(actions') >= Len(actions)
      /\ \A i \in 1 .. Len(actions) : actions'[i] = actions[i]
  BY <1>1, <1>3, Extended
<1>7. /\ Len(effects') >= Len(effects)
      /\ \A i \in 1 .. Len(effects) : effects'[i] = effects[i]
  BY <1>1, <1>4, Extended
<1> QED
  BY <1>5, <1>6, <1>7

-----------------------------------------------------------------------------
(* A click decides at most once.                                           *)

ClickInv ==
    /\ ClickDecidesOnce
    /\ pc["runner"] \in {"expire", "record"} => ~AlreadyRecorded

LEMMA RecordOnce ==
  ASSUME TypeInv, ClickDecidesOnce, NEW action, NEW from, NEW approval,
         Record(action, from, approval),
         [action |-> action, click |-> from, approval |-> approval] \in ActionRow,
         from = 0 \/ \A i \in DOMAIN actions : actions[i].click # from
  PROVE  ClickDecidesOnce'
BY Recorded DEF ClickDecidesOnce

LEMMA ClickStep ==
  ASSUME TypeInv, ClickInv, [Next]_vars
  PROVE  ClickInv'
<1>1. CASE Bystander
  BY <1>1, BystanderKeeps DEF ClickInv, ClickDecidesOnce, AlreadyRecorded, runner
<1>2. CASE Elsewhere
  BY <1>2, ElsewhereKeeps DEF ClickInv, ClickDecidesOnce, ElsewherePlace
<1>3. CASE Resolve
  <2>1. pc'["runner"] = Checks /\ UNCHANGED <<actions, current>>
    BY <1>3 DEF Resolve, Goto, TypeInv, TypeOK, Process, store, runner
  <2>2. Checks \in {"expire", "record"} => ~AlreadyRecorded
    BY DEF Checks
  <2> QED
    BY <2>1, <2>2 DEF ClickInv, ClickDecidesOnce, AlreadyRecorded
<1>4. CASE RecordExpiry
  <2>1. [action |-> "expire", click |-> current, approval |-> row["runner"].approval]
          \in ActionRow
    BY DEF TypeInv, TypeOK, ActionRow, Group, Process
  <2>2. \A i \in DOMAIN actions : actions[i].click # current
    BY <1>4 DEF RecordExpiry, At, ClickInv, AlreadyRecorded
  <2>3. pc'["runner"] = "expireUpdate"
    BY <1>4, RunnerMoves DEF RecordExpiry, RunnerPlace
  <2> QED
    BY <1>4, <2>1, <2>2, <2>3, RecordOnce DEF RecordExpiry, ClickInv
<1>5. CASE RecordDecision
  <2>1. click \in Click
    BY <1>5, ClickTyped DEF RecordDecision, At
  <2>2. [action |-> click.decision, click |-> current, approval |-> click.approval]
          \in ActionRow
    BY <2>1 DEF TypeInv, TypeOK, ActionRow, Click
  <2>3. \A i \in DOMAIN actions : actions[i].click # current
    BY <1>5 DEF RecordDecision, At, ClickInv, AlreadyRecorded
  <2>4. pc'["runner"] = "update"
    BY <1>5, RunnerMoves DEF RecordDecision, RunnerPlace
  <2> QED
    BY <1>5, <2>2, <2>3, <2>4, RecordOnce DEF RecordDecision, ClickInv
<1>6. CASE RecordApply
  <2>1. click \in Click
    BY <1>6, ClickTyped DEF RecordApply, At
  <2>2. [action |-> "apply", click |-> 0, approval |-> click.approval] \in ActionRow
    BY <2>1 DEF ActionRow, Click
  <2>3. pc'["runner"] = "setApplied"
    BY <1>6, RunnerMoves DEF RecordApply, RunnerPlace
  <2> QED
    BY <1>6, <2>2, <2>3, RecordOnce DEF RecordApply, ClickInv
<1>7. CASE ExpireGroup \/ DecideGroup \/ Drain \/ CheckApproval \/ RunHandler \/ SetApplied
  <2>1. pc'["runner"] \in {"prompt", "drain", "execute", "handler", "recordApply"}
    BY <1>7, RunnerMoves
    DEF ExpireGroup, DecideGroup, Drain, CheckApproval, RunHandler, SetApplied, RunnerPlace
  <2>2. actions' = actions
    BY <1>7 DEF ExpireGroup, DecideGroup, Drain, CheckApproval, RunHandler,
                SetApplied, store
  <2> QED
    BY <2>1, <2>2 DEF ClickInv, ClickDecidesOnce
<1> QED
  BY <1>1, <1>2, <1>3, <1>4, <1>5, <1>6, <1>7, Steps DEF Decides, Applies

(* A click delivered again after a crash, or on a group that was held,     *)
(* decides nothing.                                                        *)
THEOREM DecidesOnce == Spec => []ClickDecidesOnce
<1>1. Init => ClickInv
  BY DEF Init, Process, ClickInv, ClickDecidesOnce
<1>2. ClickInv => ClickDecidesOnce
  BY DEF ClickInv
<1> QED
  BY <1>1, <1>2, ClickStep, TypesHold, PTL DEF Spec

-----------------------------------------------------------------------------
(* Only open groups are decided.                                           *)

(* A prompt note that is about to be written back never closes an open     *)
(* group, and never opens a closed one: each process reads before it       *)
(* writes, and only the runner closes groups.                              *)
OpenInv ==
    /\ DecidesOpenGroups
    /\ pc["orchestrator"] = "noteWrite" /\ group.status \in Actionable
         => row["orchestrator"].status \in Actionable
    /\ pc["runner"] = "noteWrite" /\ row["runner"].status \in Actionable
         => group.status \in Actionable
    /\ pc["orchestrator"] = "upsert" => row["orchestrator"].status \in Actionable

(* The orchestrator's write of the group leaves an open group open. *)
LEMMA OrchestratorOpen ==
  ASSUME TypeInv, OpenInv, OrchestratorStep
  PROVE  OpenInv'
<1>1. pc'["runner"] = pc["runner"] /\ row'["runner"] = row["runner"]
  BY BystanderKeeps DEF Bystander
<1>2. ASSUME NEW place \in PlannerPlace, Goto("orchestrator", place)
      PROVE  pc'["orchestrator"] = place
  BY <1>2, Moved DEF Process
<1>3. CASE ReadGroup
  <2>1. pc'["orchestrator"] = "upsert" /\ group' = group
    BY <1>2, <1>3 DEF ReadGroup, PlannerPlace, store
  <2>2. row'["orchestrator"].status \in Actionable
    BY <1>3 DEF ReadGroup, IsFresh, Actionable, TypeInv, TypeOK, Process
  <2> QED
    BY <1>1, <2>1, <2>2 DEF OpenInv, DecidesOpenGroups
<1>4. CASE UpsertGroup
  <2>1. pc'["orchestrator"] = "event" /\ group'.status \in Actionable
    BY <1>2, <1>4 DEF UpsertGroup, PlannerPlace, At, OpenInv
  <2> QED
    BY <1>1, <2>1 DEF OpenInv, DecidesOpenGroups
<1>5. CASE AppendEvent \/ SendPrompt("orchestrator")
  <2>1. pc'["orchestrator"] \in {"prompt", "noteRead"} /\ group' = group
    BY <1>2, <1>5 DEF AppendEvent, SendPrompt, PlannerPlace, store
  <2> QED
    BY <1>1, <2>1 DEF OpenInv, DecidesOpenGroups
<1>6. CASE SkipPrompt("orchestrator")
  <2>1. pc'["orchestrator"] = "idle" /\ group' = group
    BY <1>2, <1>6 DEF SkipPrompt, Done, PlannerPlace, store
  <2> QED
    BY <1>1, <2>1 DEF OpenInv, DecidesOpenGroups
<1>7. CASE NoteRead("orchestrator")
  <2>1. /\ pc'["orchestrator"] = "noteWrite" /\ group' = group
        /\ row'["orchestrator"] = group
    BY <1>2, <1>7 DEF NoteRead, PlannerPlace, store, TypeInv, TypeOK, Process
  <2> QED
    BY <1>1, <2>1 DEF OpenInv, DecidesOpenGroups
<1>8. CASE NoteWrite("orchestrator")
  <2>1. /\ pc'["orchestrator"] = "idle" /\ group' = row["orchestrator"]
        /\ pc["orchestrator"] = "noteWrite"
    BY <1>2, <1>8 DEF NoteWrite, Done, PlannerPlace, At
  <2> QED
    BY <1>1, <2>1 DEF OpenInv, DecidesOpenGroups
<1> QED
  BY <1>3, <1>4, <1>5, <1>6, <1>7, <1>8 DEF OrchestratorStep, PromptStep

LEMMA BystanderOpen ==
  ASSUME TypeInv, OpenInv, Bystander
  PROVE  OpenInv'
<1>1. CASE ReviewNeeded
  <2>1. pc'["orchestrator"] = "read" /\ pc'["runner"] = pc["runner"]
    BY <1>1, Moved DEF ReviewNeeded, PlannerPlace, Process
  <2> QED
    BY <1>1, <2>1 DEF ReviewNeeded, store, OpenInv, DecidesOpenGroups
<1>2. CASE \/ \E decision \in Decision, approval \in prompts, allowed \in BOOLEAN :
                Press(decision, approval, allowed)
           \/ \E approval \in 1 .. proposals : DeadlinePasses(approval)
           \/ UNCHANGED vars
  BY <1>2 DEF Press, DeadlinePasses, vars, store, OpenInv, DecidesOpenGroups
<1> QED
  BY <1>1, <1>2, OrchestratorOpen DEF Bystander

LEMMA ElsewhereOpen ==
  ASSUME TypeInv, OpenInv, Elsewhere
  PROVE  OpenInv'
<1>1. /\ pc'["runner"] \in ElsewherePlace
      /\ pc'["orchestrator"] = pc["orchestrator"]
      /\ row'["orchestrator"] = row["orchestrator"]
  BY ElsewhereKeeps
<1>2. DecidesOpenGroups'
  BY <1>1 DEF DecidesOpenGroups, ElsewherePlace
<1>3. CASE NoteRead("runner")
  <2>1. group' = group /\ row'["runner"] = group
    BY <1>3 DEF NoteRead, store, TypeInv, TypeOK, Process
  <2> QED
    BY <1>1, <1>2, <2>1 DEF OpenInv
<1>4. CASE NoteWrite("runner")
  <2>1. group' = row["runner"] /\ pc["runner"] = "noteWrite"
    BY <1>4 DEF NoteWrite, At
  <2>2. pc'["runner"] # "noteWrite"
    BY <1>4, RunnerMoves DEF NoteWrite, Done, RunnerPlace
  <2> QED
    BY <1>1, <1>2, <2>1, <2>2 DEF OpenInv
<1>5. CASE Fetch \/ SendPrompt("runner") \/ SkipPrompt("runner") \/ HandlerRaises
           \/ SaveOffset \/ CallRaises \/ Restart
  <2>1. group' = group
    BY <1>5 DEF Fetch, SendPrompt, SkipPrompt, HandlerRaises, SaveOffset,
                CallRaises, Restart, store
  <2>2. pc'["runner"] # "noteWrite"
    BY <1>5, RunnerMoves
    DEF Fetch, SendPrompt, SkipPrompt, HandlerRaises, SaveOffset, CallRaises,
        Restart, Done, RunnerPlace
  <2> QED
    BY <1>1, <1>2, <2>1, <2>2 DEF OpenInv
<1> QED
  BY <1>3, <1>4, <1>5 DEF Elsewhere, PromptStep

LEMMA DecidesOpen ==
  ASSUME TypeInv, OpenInv, Decides \/ Applies
  PROVE  OpenInv'
<1>1. ASSUME NEW place \in RunnerPlace, Goto("runner", place)
      PROVE  pc'["runner"] = place /\ pc'["orchestrator"] = pc["orchestrator"]
  BY <1>1, RunnerMoves
<1>2. CASE Resolve
  <2>1. Checks \in RunnerPlace /\ Checks # "noteWrite"
    BY DEF Checks, RunnerPlace
  <2>2. Checks \in {"expire", "expireUpdate", "record", "update"}
          => group.status \in Actionable
    BY DEF Checks
  <2>3. /\ pc'["runner"] = Checks /\ pc'["orchestrator"] = pc["orchestrator"]
        /\ row'["orchestrator"] = row["orchestrator"] /\ group' = group
    BY <1>1, <1>2, <2>1 DEF Resolve, store, TypeInv, TypeOK, Process
  <2> QED
    BY <2>1, <2>2, <2>3 DEF OpenInv, DecidesOpenGroups
<1>3. CASE RecordExpiry \/ RecordDecision
  <2>1. /\ pc'["runner"] \in {"expireUpdate", "update"}
        /\ pc["runner"] \in {"expire", "record"}
        /\ pc'["orchestrator"] = pc["orchestrator"]
        /\ UNCHANGED <<group, row>>
    BY <1>1, <1>3 DEF RecordExpiry, RecordDecision, At, RunnerPlace
  <2> QED
    BY <2>1 DEF OpenInv, DecidesOpenGroups
<1>4. CASE ExpireGroup \/ DecideGroup
  <2>1. /\ pc'["runner"] \in {"prompt", "drain"} /\ row' = row
        /\ pc["runner"] \in {"expireUpdate", "update"}
        /\ pc'["orchestrator"] = pc["orchestrator"]
    BY <1>1, <1>4 DEF ExpireGroup, DecideGroup, At, RunnerPlace
  <2> QED
    BY <2>1 DEF OpenInv, DecidesOpenGroups
<1>5. CASE Drain \/ CheckApproval \/ RunHandler \/ RecordApply
  <2>1. /\ pc'["runner"] \in {"prompt", "execute", "handler", "recordApply", "setApplied"}
        /\ pc'["orchestrator"] = pc["orchestrator"]
        /\ UNCHANGED <<group, row>>
    BY <1>1, <1>5 DEF Drain, CheckApproval, RunHandler, RecordApply, RunnerPlace, store
  <2> QED
    BY <2>1 DEF OpenInv, DecidesOpenGroups
<1>6. CASE SetApplied
  <2>1. /\ pc'["runner"] = "prompt" /\ pc'["orchestrator"] = pc["orchestrator"]
        /\ row' = row /\ group'.status = "applied"
    BY <1>1, <1>6 DEF SetApplied, SetGroup, RunnerPlace
  <2> QED
    BY <2>1 DEF OpenInv, DecidesOpenGroups, Actionable
<1> QED
  BY <1>2, <1>3, <1>4, <1>5, <1>6 DEF Decides, Applies

(* While the runner records a decision or an expiry of the group it read,  *)
(* neither a prompt note nor the orchestrator closes that group.           *)
THEOREM DecidesOnlyOpen == Spec => []DecidesOpenGroups
<1>1. Init => OpenInv
  BY DEF Init, Process, OpenInv, DecidesOpenGroups
<1>2. TypeInv /\ OpenInv /\ [Next]_vars => OpenInv'
  BY Steps, BystanderOpen, ElsewhereOpen, DecidesOpen
<1>3. OpenInv => DecidesOpenGroups
  BY DEF OpenInv
<1> QED
  BY <1>1, <1>2, <1>3, TypesHold, PTL DEF Spec

-----------------------------------------------------------------------------
(* What is applied was approved by an allowed user.                        *)

DecisionRecorded ==
    \E i \in DOMAIN actions :
        actions[i] = [action |-> click.decision, click |-> current,
                      approval |-> click.approval]

(* The click behind an effect is one that was made (and stays made). *)
EffectsApproved ==
    \A e \in DOMAIN effects : \E i \in DOMAIN actions :
        /\ actions[i].action = "approve"
        /\ actions[i].approval = effects[e].approval
        /\ actions[i].click \in 1 .. Len(clicks)
        /\ clicks[actions[i].click] =
             [decision |-> "approve", approval |-> effects[e].approval,
              allowed |-> TRUE]

ClickPlace == {"update", "drain", "execute", "handler"}

ApprovedInv ==
    /\ EffectsApproved
    /\ pc["runner"] \in {"record"} \cup ClickPlace => click.allowed
    /\ pc["runner"] \in ClickPlace => DecisionRecorded
    /\ pc["runner"] \in {"execute", "handler"} => click.decision = "approve"

LEMMA ApprovedStays ==
  ASSUME TypeInv, ApprovedInv, [Next]_vars, effects' = effects
  PROVE  EffectsApproved'
<1>1. /\ clicks \in Seq(Click) /\ actions \in Seq(ActionRow)
      /\ clicks' \in Seq(Click) /\ actions' \in Seq(ActionRow)
  BY TypeStep DEF TypeInv, TypeOK
<1>2. /\ Len(clicks) \in Nat /\ Len(actions) \in Nat
      /\ Len(clicks') \in Nat /\ Len(actions') \in Nat
      /\ DOMAIN actions = 1 .. Len(actions) /\ DOMAIN actions' = 1 .. Len(actions')
  BY <1>1
<1> SUFFICES ASSUME NEW e \in DOMAIN effects
             PROVE  (\E i \in DOMAIN actions :
                        /\ actions[i].action = "approve"
                        /\ actions[i].approval = effects[e].approval
                        /\ actions[i].click \in 1 .. Len(clicks)
                        /\ clicks[actions[i].click] =
                             [decision |-> "approve", approval |-> effects[e].approval,
                              allowed |-> TRUE])'
  BY DEF EffectsApproved
<1>3. PICK i \in 1 .. Len(actions) :
        /\ actions[i].action = "approve"
        /\ actions[i].approval = effects[e].approval
        /\ actions[i].click \in 1 .. Len(clicks)
        /\ clicks[actions[i].click] =
             [decision |-> "approve", approval |-> effects[e].approval,
              allowed |-> TRUE]
  BY <1>2 DEF ApprovedInv, EffectsApproved
<1>4. /\ i \in DOMAIN actions' /\ actions'[i] = actions[i]
      /\ actions[i].click \in 1 .. Len(clicks')
      /\ clicks'[actions[i].click] = clicks[actions[i].click]
  BY <1>2, <1>3, Grows
<1> QED
  BY <1>3, <1>4

(* The click at hand is not touched by the others. *)
LEMMA ClickStays ==
  ASSUME TypeInv, [Next]_vars, current' = current,
         pc["runner"] \notin {"idle", "save"}
  PROVE  click' = click
BY ClickTyped, Grows DEF click

LEMMA ApprovedStep ==
  ASSUME TypeInv, ApprovedInv, [Next]_vars
  PROVE  ApprovedInv'
<1>1. CASE Bystander
  <2>1. /\ pc'["runner"] = pc["runner"] /\ current' = current
        /\ actions' = actions /\ effects' = effects
    BY <1>1, BystanderKeeps DEF runner
  <2>2. EffectsApproved'
    BY <2>1, ApprovedStays
  <2>3. ASSUME pc["runner"] \in {"record"} \cup ClickPlace
        PROVE  click' = click
    BY <2>1, <2>3, ClickStays DEF ClickPlace
  <2>4. ASSUME pc["runner"] \in ClickPlace
        PROVE  DecisionRecorded'
    BY <2>1, <2>3, <2>4 DEF ApprovedInv, DecisionRecorded
  <2>5. (pc["runner"] \in {"record"} \cup ClickPlace => click.allowed)'
    BY <2>1, <2>3 DEF ApprovedInv, ClickPlace
  <2>6. (pc["runner"] \in {"execute", "handler"} => click.decision = "approve")'
    BY <2>1, <2>3 DEF ApprovedInv, ClickPlace
  <2>7. (pc["runner"] \in ClickPlace => DecisionRecorded)'
    BY <2>1, <2>4 DEF ClickPlace
  <2> QED
    BY <2>2, <2>5, <2>6, <2>7 DEF ApprovedInv
<1>2. CASE Elsewhere
  <2>1. pc'["runner"] \in ElsewherePlace /\ effects' = effects
    BY <1>2, ElsewhereKeeps
  <2>2. EffectsApproved'
    BY <2>1, ApprovedStays
  <2> QED
    BY <2>1, <2>2 DEF ApprovedInv, ElsewherePlace, ClickPlace
<1>3. CASE Resolve
  <2>1. pc'["runner"] = Checks /\ effects' = effects /\ click' = click
    BY <1>3 DEF Resolve, Goto, TypeInv, TypeOK, Process, outside, runner, click
  <2>2. EffectsApproved'
    BY <2>1, ApprovedStays
  <2>3. Checks \notin ClickPlace /\ (Checks = "record" => click.allowed)
    BY DEF Checks, ClickPlace
  <2> QED
    BY <2>1, <2>2, <2>3 DEF ApprovedInv, ClickPlace
<1>4. CASE RecordDecision
  <2>1. /\ pc'["runner"] = "update" /\ effects' = effects /\ click' = click
        /\ current' = current /\ pc["runner"] = "record"
    BY <1>4, RunnerMoves DEF RecordDecision, RunnerPlace, outside, runner, click, At
  <2>2. EffectsApproved'
    BY <2>1, ApprovedStays
  <2>3. click \in Click
    BY <2>1, ClickTyped
  <2>4. [action |-> click.decision, click |-> current, approval |-> click.approval]
          \in ActionRow
    BY <2>3 DEF TypeInv, TypeOK, ActionRow, Click
  <2>5. DecisionRecorded'
    BY <1>4, <2>1, <2>4, Recorded DEF RecordDecision, DecisionRecorded
  <2> QED
    BY <2>1, <2>2, <2>5 DEF ApprovedInv
<1>5. CASE DecideGroup \/ Drain \/ CheckApproval
  <2>1. /\ effects' = effects /\ click' = click /\ current' = current
        /\ actions' = actions
    BY <1>5 DEF DecideGroup, Drain, CheckApproval, outside, runner, store, click
  <2>2. EffectsApproved'
    BY <2>1, ApprovedStays
  <2>3. DecideGroup => pc["runner"] = "update" /\ pc'["runner"] = "drain"
    BY RunnerMoves DEF DecideGroup, RunnerPlace, At
  <2>4. Drain => /\ pc["runner"] = "drain" /\ pc'["runner"] \in {"execute", "prompt"}
                 /\ pc'["runner"] = "execute" => click.decision = "approve"
    BY RunnerMoves DEF Drain, RunnerPlace, At
  <2>5. CheckApproval => /\ pc["runner"] = "execute"
                         /\ pc'["runner"] \in {"handler", "prompt"}
    BY RunnerMoves DEF CheckApproval, RunnerPlace, At
  <2> QED
    BY <1>5, <2>1, <2>2, <2>3, <2>4, <2>5 DEF ApprovedInv, DecisionRecorded, ClickPlace
<1>6. CASE RunHandler
  <2>1. pc["runner"] = "handler" /\ pc'["runner"] = "recordApply"
    BY <1>6, RunnerMoves DEF RunHandler, RunnerPlace, At
  <2>2. click \in Click /\ current \in 1 .. Len(clicks)
    BY <2>1, ClickTyped
  <2>3. [approval |-> click.approval, proposal |-> review] \in Effect
    BY <2>2 DEF Click, Effect, TypeInv, TypeOK
  <2>4. /\ DOMAIN effects = 1 .. Len(effects) /\ Len(effects) \in Nat
        /\ DOMAIN effects' = 1 .. (Len(effects) + 1)
        /\ \A e \in 1 .. Len(effects) : effects'[e] = effects[e]
        /\ effects'[Len(effects) + 1]
             = [approval |-> click.approval, proposal |-> review]
    BY <1>6, <2>3, Appended DEF RunHandler, TypeInv, TypeOK
  <2>5. actions' = actions /\ clicks' = clicks
    BY <1>6 DEF RunHandler, store
  <2>6. PICK i \in DOMAIN actions :
          actions[i] = [action |-> "approve", click |-> current,
                        approval |-> click.approval]
    BY <2>1 DEF ApprovedInv, DecisionRecorded, ClickPlace
  <2>7. click = [decision |-> "approve", approval |-> click.approval, allowed |-> TRUE]
    BY <2>1, <2>2 DEF ApprovedInv, ClickPlace, Click
  <2>8. EffectsApproved'
    <3> SUFFICES ASSUME NEW e \in DOMAIN effects'
                 PROVE  \E j \in DOMAIN actions :
                           /\ actions[j].action = "approve"
                           /\ actions[j].approval = effects'[e].approval
                           /\ actions[j].click \in 1 .. Len(clicks)
                           /\ clicks[actions[j].click] =
                                [decision |-> "approve",
                                 approval |-> effects'[e].approval, allowed |-> TRUE]
      BY <2>5 DEF EffectsApproved
    <3>1. CASE e = Len(effects) + 1
      <4>1. effects'[e].approval = click.approval /\ clicks[current] = click
        BY <2>4, <3>1 DEF click
      <4>2. /\ actions[i].action = "approve" /\ actions[i].click = current
            /\ actions[i].approval = effects'[e].approval
        BY <2>6, <4>1
      <4>3. clicks[actions[i].click] =
              [decision |-> "approve", approval |-> effects'[e].approval,
               allowed |-> TRUE]
        BY <2>7, <4>1, <4>2
      <4> QED
        BY <2>2, <4>2, <4>3
    <3>2. CASE e \in DOMAIN effects
      <4>1. effects'[e] = effects[e]
        BY <2>4, <3>2
      <4> QED
        BY <3>2, <4>1 DEF ApprovedInv, EffectsApproved
    <3>3. e = Len(effects) + 1 \/ e \in DOMAIN effects
      BY <2>4
    <3> QED
      BY <3>1, <3>2, <3>3
  <2> QED
    BY <2>1, <2>8 DEF ApprovedInv, ClickPlace
<1>7. CASE RecordExpiry \/ ExpireGroup \/ RecordApply \/ SetApplied
  <2>1. /\ pc'["runner"] \in {"expireUpdate", "prompt", "setApplied"}
        /\ effects' = effects
    BY <1>7, RunnerMoves
    DEF RecordExpiry, ExpireGroup, RecordApply, SetApplied, RunnerPlace, outside
  <2>2. EffectsApproved'
    BY <2>1, ApprovedStays
  <2> QED
    BY <2>1, <2>2 DEF ApprovedInv, ClickPlace
<1> QED
  BY <1>1, <1>2, <1>3, <1>4, <1>5, <1>6, <1>7, Steps DEF Decides, Applies

(* Behind everything that was applied is an approving click of an allowed  *)
(* user on the prompt with that approval id.                               *)
AppliedWasApproved ==
    \A e \in DOMAIN effects : \E i \in DOMAIN actions :
        /\ Permitted(actions[i])
        /\ actions[i].approval = effects[e].approval

(* Nothing is applied that no permitted user approved, whatever fails,     *)
(* restarts or is written back (process_callback, execute_approval).       *)
THEOREM AppliesApproved == Spec => []AppliedWasApproved
<1>1. Init => ApprovedInv
  BY DEF Init, Process, ApprovedInv, EffectsApproved, ClickPlace
<1>2. ApprovedInv => AppliedWasApproved
  BY DEF ApprovedInv, EffectsApproved, AppliedWasApproved, Permitted
<1> QED
  BY <1>1, <1>2, ApprovedStep, TypesHold, PTL DEF Spec

-----------------------------------------------------------------------------
(* What says applied was applied.                                          *)

Happened(approval) == \E e \in DOMAIN effects : effects[e].approval = approval

Noted(approval) ==
    \E i \in DOMAIN actions :
        actions[i].action = "apply" /\ actions[i].approval = approval

True(g) == g.status = "applied" => Happened(g.approval) /\ Noted(g.approval)

TrueInv ==
    /\ True(group) /\ \A p \in Process : True(row[p])
    /\ pc["runner"] \in {"recordApply", "setApplied"} => Happened(click.approval)
    /\ pc["runner"] = "setApplied" => Noted(click.approval)

LEMMA TruthStays ==
  ASSUME TypeInv, [Next]_vars, NEW approval
  PROVE  /\ Happened(approval) => Happened(approval)'
         /\ Noted(approval) => Noted(approval)'
<1>1. /\ effects \in Seq(Effect) /\ actions \in Seq(ActionRow)
      /\ effects' \in Seq(Effect) /\ actions' \in Seq(ActionRow)
  BY TypeStep DEF TypeInv, TypeOK
<1>2. /\ Len(effects) \in Nat /\ Len(actions) \in Nat
      /\ Len(effects') \in Nat /\ Len(actions') \in Nat
      /\ DOMAIN actions = 1 .. Len(actions) /\ DOMAIN actions' = 1 .. Len(actions')
      /\ DOMAIN effects = 1 .. Len(effects) /\ DOMAIN effects' = 1 .. Len(effects')
  BY <1>1
<1> QED
  BY <1>2, Grows DEF Happened, Noted

(* Each step writes the group and the rows with what was there, with the   *)
(* row of a process, or with a status other than applied -- but one.       *)
LEMMA GroupWrites ==
  ASSUME TypeInv, [Next]_vars, ~SetApplied
  PROVE  /\ group' = group \/ (\E p \in Process : group' = row[p])
            \/ group'.status # "applied"
         /\ \A p \in Process :
              row'[p] = row[p] \/ row'[p] = group \/ row'[p].status # "applied"
<1>1. CASE ReadGroup
  BY <1>1 DEF ReadGroup, store, TypeInv, TypeOK, Process
<1>2. CASE UpsertGroup
  BY <1>2 DEF UpsertGroup, Process
<1>3. ASSUME NEW p \in Process, NoteRead(p) \/ NoteWrite(p)
      PROVE  /\ group' = group \/ group' = row[p]
             /\ \A q \in Process : row'[q] = row[q] \/ row'[q] = group
  BY <1>3 DEF NoteRead, NoteWrite, store, TypeInv, TypeOK
<1>4. CASE Resolve
  BY <1>4 DEF Resolve, store, TypeInv, TypeOK
<1>5. CASE ExpireGroup
  BY <1>5 DEF ExpireGroup, SetGroup
<1>6. CASE DecideGroup
  <2>1. click \in Click
    BY <1>6, ClickTyped DEF DecideGroup, At
  <2>2. DecidedStatus # "applied"
    BY <2>1 DEF DecidedStatus, StatusAfter, Click, Decision
  <2> QED
    BY <1>6, <2>2 DEF DecideGroup, SetGroup
<1>7. CASE Restart
  <2>1. group' = group
    BY <1>7 DEF Restart, store
  <2>2. \A p \in Process : row'[p] = row[p] \/ row'[p].status # "applied"
    BY <1>7 DEF Restart, NoGroup, TypeInv, TypeOK
  <2> QED
    BY <2>1, <2>2
<1>8. CASE \/ \E decision \in Decision, approval \in prompts, allowed \in BOOLEAN :
                Press(decision, approval, allowed)
           \/ \E approval \in 1 .. proposals : DeadlinePasses(approval)
           \/ ReviewNeeded \/ AppendEvent
           \/ \E p \in Process : SendPrompt(p) \/ SkipPrompt(p)
           \/ Fetch \/ RecordExpiry \/ RecordDecision \/ Drain \/ CheckApproval
           \/ RunHandler \/ HandlerRaises \/ RecordApply \/ SaveOffset
           \/ CallRaises \/ UNCHANGED vars
  BY <1>8 DEF Press, DeadlinePasses, ReviewNeeded, AppendEvent, SendPrompt,
              SkipPrompt, Fetch, RecordExpiry, RecordDecision, Drain,
              CheckApproval, RunHandler, HandlerRaises, RecordApply, SaveOffset,
              CallRaises, vars, store
<1> QED
  BY <1>1, <1>2, <1>3, <1>4, <1>5, <1>6, <1>7, <1>8
  DEF Next, OrchestratorStep, RunnerStep, PromptStep, Process

LEMMA TrueStep ==
  ASSUME TypeInv, TrueInv, [Next]_vars
  PROVE  TrueInv'
<1>1. ASSUME NEW g, True(g)
      PROVE  g.status = "applied" => Happened(g.approval)' /\ Noted(g.approval)'
  BY <1>1, TruthStays DEF True
<1>2. CASE SetApplied
  <2>1. /\ pc["runner"] = "setApplied" /\ pc'["runner"] = "prompt" /\ row' = row
        /\ group' = [status |-> "applied", approval |-> click.approval]
    BY <1>2, RunnerMoves DEF SetApplied, RunnerPlace, SetGroup, At
  <2>2. True(group)'
    BY <2>1, TruthStays DEF TrueInv, True
  <2>3. \A p \in Process : True(row[p])'
    BY <1>1, <2>1 DEF TrueInv, True
  <2> QED
    BY <2>1, <2>2, <2>3 DEF TrueInv
<1>3. ASSUME ~SetApplied
      PROVE  True(group)' /\ \A p \in Process : True(row[p])'
  <2>1. True(group)'
    BY <1>1, <1>3, GroupWrites DEF TrueInv, True
  <2>2. ASSUME NEW p \in Process PROVE True(row[p])'
    BY <1>1, <1>3, GroupWrites DEF TrueInv, True
  <2> QED
    BY <2>1, <2>2
<1>4. CASE Bystander
  <2>1. pc'["runner"] = pc["runner"] /\ current' = current
    BY <1>4, BystanderKeeps DEF runner
  <2>2. pc["runner"] \in {"recordApply", "setApplied"} => click' = click
    BY <2>1, ClickStays
  <2>3. ~SetApplied
    BY <2>1, RunnerMoves DEF SetApplied, RunnerPlace, At
  <2> QED
    BY <1>3, <2>1, <2>2, <2>3, TruthStays DEF TrueInv
<1>5. CASE Elsewhere
  <2>1. pc'["runner"] \in ElsewherePlace
    BY <1>5, ElsewhereKeeps
  <2> QED
    BY <1>2, <1>3, <2>1 DEF TrueInv, ElsewherePlace
<1>6. CASE Decides \/ Drain \/ CheckApproval
  <2>1. ASSUME NEW place \in RunnerPlace \ {"recordApply", "setApplied"},
               Goto("runner", place)
        PROVE  pc'["runner"] \notin {"recordApply", "setApplied"}
    BY <2>1, RunnerMoves
  <2>2. Checks \in RunnerPlace \ {"recordApply", "setApplied"}
    BY DEF Checks, RunnerPlace
  <2>3. pc'["runner"] \notin {"recordApply", "setApplied"}
    BY <1>6, <2>1, <2>2
    DEF Decides, Resolve, RecordExpiry, ExpireGroup, RecordDecision, DecideGroup,
        Drain, CheckApproval, RunnerPlace
  <2> QED
    BY <1>2, <1>3, <2>3 DEF TrueInv
<1>7. CASE RunHandler
  <2>1. pc["runner"] = "handler" /\ pc'["runner"] = "recordApply" /\ click' = click
    BY <1>7, RunnerMoves DEF RunHandler, RunnerPlace, At, runner, click
  <2>2. click \in Click
    BY <2>1, ClickTyped
  <2>3. [approval |-> click.approval, proposal |-> review] \in Effect
    BY <2>2 DEF Click, Effect, TypeInv, TypeOK
  <2>4. /\ DOMAIN effects' = 1 .. (Len(effects) + 1) /\ Len(effects) \in Nat
        /\ effects'[Len(effects) + 1]
             = [approval |-> click.approval, proposal |-> review]
    BY <1>7, <2>3, Appended DEF RunHandler, TypeInv, TypeOK
  <2>5. Happened(click.approval)'
    BY <2>1, <2>4 DEF Happened
  <2> QED
    BY <1>2, <1>3, <2>1, <2>5 DEF TrueInv
<1>8. CASE RecordApply
  <2>1. pc["runner"] = "recordApply" /\ pc'["runner"] = "setApplied" /\ click' = click
    BY <1>8, RunnerMoves DEF RecordApply, RunnerPlace, At, runner, outside, click
  <2>2. click \in Click
    BY <2>1, ClickTyped
  <2>3. [action |-> "apply", click |-> 0, approval |-> click.approval] \in ActionRow
    BY <2>2 DEF ActionRow, Click
  <2>4. Noted(click.approval)'
    BY <1>8, <2>1, <2>3, Recorded DEF RecordApply, Noted
  <2>5. Happened(click.approval)'
    BY <2>1, TruthStays DEF TrueInv
  <2> QED
    BY <1>2, <1>3, <2>1, <2>4, <2>5 DEF TrueInv
<1> QED
  BY <1>2, <1>4, <1>5, <1>6, <1>7, <1>8, Steps DEF Applies

(* A group says applied only after the handler ran for its approval id and *)
(* the apply was recorded, whatever fails, and whichever process writes    *)
(* back a row it had read.                                                 *)
THEOREM AppliedHappened == Spec => []AppliedIsTrue
<1>1. Init => TrueInv
  BY DEF Init, NoGroup, Process, TrueInv, True
<1>2. TrueInv => AppliedIsTrue
  BY DEF TrueInv, True, Happened, Noted, AppliedIsTrue
<1> QED
  BY <1>1, <1>2, TrueStep, TypesHold, PTL DEF Spec

-----------------------------------------------------------------------------
(* An approval id is applied once, and once more for each restart.         *)

Underway(approval) == pc["runner"] = "recordApply" /\ click.approval = approval

EffectBound(approval) ==
    IF Noted(approval) \/ Underway(approval) THEN restarts + 1 ELSE restarts

OnceInv ==
    /\ \A a : Cardinality(EffectsOf(a)) <= EffectBound(a)
    /\ pc["runner"] = "handler" => ~AlreadyApplied

LEMMA EffectCounts ==
  ASSUME effects \in Seq(Effect), NEW approval
  PROVE  /\ IsFiniteSet(EffectsOf(approval))
         /\ Cardinality(EffectsOf(approval)) \in Nat
<1>1. DOMAIN effects = 1 .. Len(effects) /\ Len(effects) \in Nat
  OBVIOUS
<1>2. IsFiniteSet(DOMAIN effects)
  BY <1>1, FS_Interval
<1> QED
  BY <1>2, FS_Subset, FS_CardinalityType DEF EffectsOf

(* A handler that runs counts for its own approval id.                     *)
LEMMA EffectCountsGrow ==
  ASSUME effects \in Seq(Effect), NEW e \in Effect, effects' = Append(effects, e)
  PROVE  /\ Cardinality(EffectsOf(e.approval)') = Cardinality(EffectsOf(e.approval)) + 1
         /\ \A a : a # e.approval => EffectsOf(a)' = EffectsOf(a)
<1>1. /\ DOMAIN effects = 1 .. Len(effects) /\ Len(effects) \in Nat
      /\ DOMAIN effects' = 1 .. (Len(effects) + 1)
      /\ \A i \in 1 .. Len(effects) : effects'[i] = effects[i]
      /\ effects'[Len(effects) + 1] = e
  BY Appended
<1> DEFINE n == Len(effects) + 1
<1>2. n \notin DOMAIN effects /\ DOMAIN effects' = DOMAIN effects \cup {n}
  BY <1>1
<1>3. \A a : EffectsOf(a)' = {i \in DOMAIN effects' : effects'[i].approval = a}
  BY DEF EffectsOf
<1>4. \A i \in DOMAIN effects : effects'[i] = effects[i]
  BY <1>1
<1>5. effects'[n] = e
  BY <1>1
<1> HIDE DEF n
<1>6. EffectsOf(e.approval)' = EffectsOf(e.approval) \cup {n}
  BY <1>2, <1>3, <1>4, <1>5 DEF EffectsOf
<1>7. \A a : a # e.approval => EffectsOf(a)' = EffectsOf(a)
  BY <1>2, <1>3, <1>4, <1>5 DEF EffectsOf
<1>8. n \notin EffectsOf(e.approval)
  BY <1>2 DEF EffectsOf
<1>9. Cardinality(EffectsOf(e.approval) \cup {n}) = Cardinality(EffectsOf(e.approval)) + 1
  BY <1>8, EffectCounts, FS_AddElement
<1> QED
  BY <1>6, <1>7, <1>9

(* A step that does nothing new keeps it: the handler is not entered, and  *)
(* an apply that is to be recorded stays so, is noted, or dies with its    *)
(* process.                                                                *)
LEMMA OnceStays ==
  ASSUME TypeInv, OnceInv, [Next]_vars, effects' = effects,
         pc'["runner"] = "handler" =>
            pc["runner"] = "handler" /\ click' = click /\ actions' = actions,
         \/ restarts' = restarts + 1
         \/ /\ restarts' = restarts
            /\ pc["runner"] = "recordApply" =>
                  /\ click' = click
                  /\ pc'["runner"] = "recordApply" \/ Noted(click.approval)'
  PROVE  OnceInv'
<1>1. ASSUME NEW a
      PROVE  EffectBound(a) <= EffectBound(a)'
  <2>1. Noted(a) => Noted(a)'
    BY TruthStays
  <2>2. \/ restarts' = restarts + 1
        \/ restarts' = restarts /\ (Underway(a) => Underway(a)' \/ Noted(a)')
    BY DEF Underway
  <2>3. restarts \in Nat
    BY DEF TypeInv, TypeOK
  <2> QED
    BY <2>1, <2>2, <2>3 DEF EffectBound
<1>2. ASSUME NEW a
      PROVE  Cardinality(EffectsOf(a))' <= EffectBound(a)'
  <2>1. EffectsOf(a)' = EffectsOf(a)
    BY DEF EffectsOf
  <2>2. /\ Cardinality(EffectsOf(a)) <= EffectBound(a)
        /\ Cardinality(EffectsOf(a)) \in Nat
    BY EffectCounts DEF OnceInv, TypeInv, TypeOK
  <2>3. EffectBound(a) \in Nat /\ EffectBound(a)' \in Nat
    BY DEF EffectBound, TypeInv, TypeOK
  <2> QED
    BY <1>1, <2>1, <2>2, <2>3
<1>3. pc'["runner"] = "handler" => ~AlreadyApplied'
  BY DEF OnceInv, AlreadyApplied
<1> QED
  BY <1>2, <1>3 DEF OnceInv

LEMMA OnceStep ==
  ASSUME TypeInv, OnceInv, [Next]_vars, ~StoreMayFail, ~HandlerMayFail
  PROVE  OnceInv'
<1>1. CASE Bystander
  <2>1. /\ pc'["runner"] = pc["runner"] /\ current' = current
        /\ actions' = actions /\ effects' = effects /\ restarts' = restarts
    BY <1>1, BystanderKeeps DEF runner
  <2>2. pc["runner"] \in {"handler", "recordApply"} => click' = click
    BY <2>1, ClickStays
  <2> QED
    BY <2>1, <2>2, OnceStays
<1>2. CASE Elsewhere
  <2>1. pc'["runner"] \in ElsewherePlace /\ effects' = effects
    BY <1>2, ElsewhereKeeps
  <2>2. \/ Restart
        \/ pc["runner"] # "recordApply" /\ restarts' = restarts
    BY <1>2 DEF Elsewhere, Fetch, PromptStep, SendPrompt, SkipPrompt, NoteRead,
                NoteWrite, HandlerRaises, SaveOffset, CallRaises, At,
                TypeInv, TypeOK
  <2>3. Restart => restarts' = restarts + 1
    BY DEF Restart
  <2> QED
    BY <2>1, <2>2, <2>3, OnceStays DEF ElsewherePlace
<1>3. CASE Decides \/ Drain
  <2>1. ASSUME NEW place \in RunnerPlace \ {"handler"}, Goto("runner", place)
        PROVE  pc'["runner"] # "handler"
    BY <2>1, RunnerMoves
  <2>2. Checks \in RunnerPlace \ {"handler"}
    BY DEF Checks, RunnerPlace
  <2>3. /\ pc'["runner"] # "handler" /\ pc["runner"] # "recordApply"
        /\ effects' = effects /\ restarts' = restarts
    BY <1>3, <2>1, <2>2
    DEF Decides, Resolve, RecordExpiry, ExpireGroup, RecordDecision, DecideGroup,
        Drain, RunnerPlace, At, outside
  <2> QED
    BY <2>3, OnceStays
<1>4. CASE CheckApproval
  <2>1. /\ pc["runner"] = "execute" /\ effects' = effects /\ actions' = actions
        /\ click' = click /\ restarts' = restarts
        /\ pc'["runner"] = "handler" => ~AlreadyApplied
        /\ pc'["runner"] # "recordApply"
    BY <1>4, RunnerMoves DEF CheckApproval, RunnerPlace, At, store, outside, runner, click
  <2>2. \A a : EffectsOf(a)' = EffectsOf(a) /\ EffectBound(a)' = EffectBound(a)
    BY <2>1 DEF EffectsOf, EffectBound, Noted, Underway
  <2> QED
    BY <2>1, <2>2 DEF OnceInv, AlreadyApplied
<1>5. CASE RunHandler
  <2>1. /\ pc["runner"] = "handler" /\ pc'["runner"] = "recordApply"
        /\ click' = click /\ actions' = actions /\ restarts' = restarts
    BY <1>5, RunnerMoves DEF RunHandler, RunnerPlace, At, store, runner, click
  <2>2. click \in Click
    BY <2>1, ClickTyped
  <2>3. [approval |-> click.approval, proposal |-> review] \in Effect
    BY <2>2 DEF Click, Effect, TypeInv, TypeOK
  <2>4. PICK done \in Effect :
          done.approval = click.approval /\ effects' = Append(effects, done)
    BY <1>5, <2>3 DEF RunHandler
  <2>5. /\ Cardinality(EffectsOf(done.approval)')
             = Cardinality(EffectsOf(done.approval)) + 1
        /\ \A a : a # done.approval => EffectsOf(a)' = EffectsOf(a)
    BY <2>4, EffectCountsGrow DEF TypeInv, TypeOK
  <2>6. ~Noted(done.approval)
    BY <2>1, <2>4 DEF OnceInv, AlreadyApplied, Noted
  <2>7. ASSUME NEW a PROVE Cardinality(EffectsOf(a)') <= EffectBound(a)'
    <3>1. Cardinality(EffectsOf(a)) <= EffectBound(a)
      BY DEF OnceInv
    <3>2. Noted(a)' <=> Noted(a)
      BY <2>1 DEF Noted
    <3>3. CASE a = done.approval
      <4>1. EffectBound(a) = restarts /\ EffectBound(a)' = restarts + 1
        BY <2>1, <2>4, <2>6, <3>2, <3>3 DEF EffectBound, Underway
      <4>2. Cardinality(EffectsOf(a)) \in Nat /\ restarts \in Nat
        BY EffectCounts DEF TypeInv, TypeOK
      <4>3. Cardinality(EffectsOf(a)') = Cardinality(EffectsOf(a)) + 1
        BY <2>5, <3>3
      <4> QED
        BY <3>1, <4>1, <4>2, <4>3
    <3>4. CASE a # done.approval
      <4>1. EffectBound(a)' = EffectBound(a)
        BY <2>1, <2>4, <3>2, <3>4 DEF EffectBound, Underway
      <4> QED
        BY <2>5, <3>1, <3>4, <4>1
    <3> QED
      BY <3>3, <3>4
  <2> QED
    BY <2>1, <2>7 DEF OnceInv
<1>6. CASE RecordApply
  <2>1. /\ pc["runner"] = "recordApply" /\ pc'["runner"] = "setApplied"
        /\ effects' = effects /\ click' = click /\ restarts' = restarts
    BY <1>6, RunnerMoves DEF RecordApply, RunnerPlace, At, runner, outside, click
  <2>2. click \in Click
    BY <2>1, ClickTyped
  <2>3. [action |-> "apply", click |-> 0, approval |-> click.approval] \in ActionRow
    BY <2>2 DEF ActionRow, Click
  <2>4. Noted(click.approval)'
    BY <1>6, <2>1, <2>3, Recorded DEF RecordApply, Noted
  <2> QED
    BY <2>1, <2>4, OnceStays
<1>7. CASE SetApplied
  <2>1. /\ pc["runner"] = "setApplied" /\ pc'["runner"] = "prompt"
        /\ effects' = effects /\ restarts' = restarts
    BY <1>7, RunnerMoves DEF SetApplied, RunnerPlace, At, outside
  <2> QED
    BY <2>1, OnceStays
<1> QED
  BY <1>1, <1>2, <1>3, <1>4, <1>5, <1>6, <1>7, Steps DEF Applies

(* With a store that answers and handlers that do not raise, an approval   *)
(* id is applied once, and at most once more for each restart of the       *)
(* runner, however often the group is reopened under it.                   *)
THEOREM AppliesOnce ==
  ASSUME ~StoreMayFail, ~HandlerMayFail
  PROVE  Spec => []AppliedOnce
<1>1. Init => OnceInv
  <2> SUFFICES ASSUME Init, NEW a
               PROVE  Cardinality(EffectsOf(a)) <= EffectBound(a)
    BY DEF Init, Process, OnceInv
  <2>1. EffectsOf(a) = {} /\ EffectBound(a) = 0
    BY DEF Init, Process, EffectsOf, EffectBound, Noted, Underway
  <2> QED
    BY <2>1, FS_EmptySet
<1>2. TypeInv /\ OnceInv /\ [Next]_vars => OnceInv'
  BY OnceStep
<1>3. TypeInv /\ OnceInv => AppliedOnce
  <2> SUFFICES ASSUME TypeInv, OnceInv, NEW e \in DOMAIN effects
               PROVE  Cardinality(EffectsOf(effects[e].approval)) <= 1 + restarts
    BY DEF AppliedOnce
  <2> DEFINE a == effects[e].approval
  <2>1. Cardinality(EffectsOf(a)) <= EffectBound(a)
    BY DEF OnceInv
  <2>2. Cardinality(EffectsOf(a)) \in Nat /\ restarts \in Nat
    BY EffectCounts DEF TypeInv, TypeOK
  <2>3. EffectBound(a) \in {restarts, restarts + 1}
    BY DEF EffectBound
  <2> HIDE DEF a
  <2>4. Cardinality(EffectsOf(a)) <= 1 + restarts
    BY <2>1, <2>2, <2>3
  <2> QED
    BY <2>4 DEF a
<1> QED
  BY <1>1, <1>2, <1>3, TypesHold, PTL DEF Spec

-----------------------------------------------------------------------------
(* The loop keeps the promise made of each approval id.                    *)

(* Approvals recorded are clicks that were made and permitted, on prompts  *)
(* that were shown; the handler runs for an id that is not noted.          *)
PermitInv ==
    \A i \in DOMAIN actions : actions[i].action = "approve" =>
        actions[i].click \in 1 .. Len(clicks) /\ Permitted(actions[i])

ShownInv == \A i \in DOMAIN clicks : clicks[i].approval \in prompts

HandlerInv == pc["runner"] = "handler" => ~AlreadyApplied

PromiseInv == PermitInv /\ ShownInv /\ HandlerInv

LEMMA PromptsGrow ==
  ASSUME [Next]_vars
  PROVE  prompts \subseteq prompts'
BY DEF Next, Press, DeadlinePasses, ReviewNeeded, OrchestratorStep, ReadGroup,
       UpsertGroup, AppendEvent, PromptStep, SendPrompt, SkipPrompt, NoteRead,
       NoteWrite, RunnerStep, Fetch, Resolve, RecordExpiry, ExpireGroup,
       RecordDecision, DecideGroup, Drain, CheckApproval, RunHandler,
       HandlerRaises, RecordApply, SetApplied, SaveOffset, CallRaises, Restart,
       vars, outside

LEMMA ShownStep ==
  ASSUME TypeInv, ShownInv, [Next]_vars
  PROVE  ShownInv'
<1>1. ASSUME NEW decision \in Decision, NEW approval \in prompts,
             NEW allowed \in BOOLEAN, Press(decision, approval, allowed)
      PROVE  ShownInv'
  <2>1. [decision |-> decision, approval |-> approval, allowed |-> allowed] \in Click
    BY DEF Click, TypeInv, TypeOK
  <2>2. /\ DOMAIN clicks = 1 .. Len(clicks) /\ Len(clicks) \in Nat
        /\ DOMAIN clicks' = 1 .. (Len(clicks) + 1)
        /\ \A i \in 1 .. Len(clicks) : clicks'[i] = clicks[i]
        /\ clicks'[Len(clicks) + 1].approval = approval
    BY <1>1, <2>1, Appended DEF Press, TypeInv, TypeOK
  <2> QED
    BY <2>2, PromptsGrow DEF ShownInv
<1>2. ASSUME ~\E decision \in Decision, approval \in prompts, allowed \in BOOLEAN :
                 Press(decision, approval, allowed)
      PROVE  clicks' = clicks
  BY <1>2 DEF Next, DeadlinePasses, ReviewNeeded, OrchestratorStep, ReadGroup,
              UpsertGroup, AppendEvent, PromptStep, SendPrompt, SkipPrompt,
              NoteRead, NoteWrite, RunnerStep, Fetch, Resolve, RecordExpiry,
              ExpireGroup, RecordDecision, DecideGroup, Drain, CheckApproval,
              RunHandler, HandlerRaises, RecordApply, SetApplied, SaveOffset,
              CallRaises, Restart, vars, outside
<1> QED
  BY <1>1, <1>2, PromptsGrow DEF ShownInv

(* What is recorded is one row more. *)
LEMMA RowAdded ==
  ASSUME TypeInv, NEW action, NEW from, NEW approval, Record(action, from, approval),
         [action |-> action, click |-> from, approval |-> approval] \in ActionRow
  PROVE  \E n : /\ n \notin DOMAIN actions
                /\ DOMAIN actions' = DOMAIN actions \cup {n}
                /\ \A i \in DOMAIN actions : actions'[i] = actions[i]
                /\ actions'[n] = [action |-> action, click |-> from,
                                  approval |-> approval]
<1>1. /\ DOMAIN actions = 1 .. Len(actions) /\ Len(actions) \in Nat
      /\ DOMAIN actions' = 1 .. (Len(actions) + 1)
      /\ \A i \in 1 .. Len(actions) : actions'[i] = actions[i]
      /\ actions'[Len(actions) + 1]
           = [action |-> action, click |-> from, approval |-> approval]
  BY Recorded
<1>2. \A n \in Nat : n + 1 \notin 1 .. n /\ 1 .. (n + 1) = 1 .. n \cup {n + 1}
  OBVIOUS
<1>3. /\ Len(actions) + 1 \notin DOMAIN actions
      /\ DOMAIN actions' = DOMAIN actions \cup {Len(actions) + 1}
  BY <1>1, <1>2
<1> QED
  BY <1>1, <1>3

(* The ids that have an action of one kind on record.                      *)
ActionIds(action) ==
    {actions[i].approval : i \in {j \in DOMAIN actions : actions[j].action = action}}

LEMMA RecordedIds ==
  ASSUME TypeInv, NEW action, NEW from, NEW approval, Record(action, from, approval),
         [action |-> action, click |-> from, approval |-> approval] \in ActionRow
  PROVE  \A x : ActionIds(x)' =
            ActionIds(x) \cup (IF x = action THEN {approval} ELSE {})
<1> DEFINE new == [action |-> action, click |-> from, approval |-> approval]
<1>1. PICK n : /\ n \notin DOMAIN actions
               /\ DOMAIN actions' = DOMAIN actions \cup {n}
               /\ \A i \in DOMAIN actions : actions'[i] = actions[i]
               /\ actions'[n] = new
  BY RowAdded
<1>2. new.action = action /\ new.approval = approval
  OBVIOUS
<1> HIDE DEF new
<1> SUFFICES ASSUME NEW x
             PROVE  ActionIds(x)' =
                      ActionIds(x) \cup (IF x = action THEN {approval} ELSE {})
  OBVIOUS
<1>3. ActionIds(x)' = {actions'[i].approval :
                         i \in {j \in DOMAIN actions' : actions'[j].action = x}}
  BY DEF ActionIds
<1>4. CASE x = action
  <2>1. {j \in DOMAIN actions' : actions'[j].action = x}
          = {j \in DOMAIN actions : actions[j].action = x} \cup {n}
    BY <1>1, <1>2, <1>4
  <2>2. {actions'[i].approval : i \in {j \in DOMAIN actions : actions[j].action = x}}
          = ActionIds(x)
    BY <1>1 DEF ActionIds
  <2> QED
    BY <1>1, <1>2, <1>3, <1>4, <2>1, <2>2
<1>5. CASE x # action
  <2>1. {j \in DOMAIN actions' : actions'[j].action = x}
          = {j \in DOMAIN actions : actions[j].action = x}
    BY <1>1, <1>2, <1>5
  <2>2. {actions'[i].approval : i \in {j \in DOMAIN actions : actions[j].action = x}}
          = ActionIds(x)
    BY <1>1 DEF ActionIds
  <2> QED
    BY <1>3, <1>5, <2>1, <2>2
<1> QED
  BY <1>4, <1>5

(* The steps that record something in the store. *)
LEMMA ActionSteps ==
  ASSUME TypeInv, [Next]_vars
  PROVE  actions' = actions \/ RecordExpiry \/ RecordDecision \/ RecordApply
<1>1. CASE Resolve \/ ExpireGroup \/ DecideGroup
  BY <1>1 DEF Resolve, ExpireGroup, DecideGroup, store
<1>2. CASE Drain \/ CheckApproval \/ RunHandler \/ SetApplied
  BY <1>2 DEF Drain, CheckApproval, RunHandler, SetApplied, store
<1> QED
  BY <1>1, <1>2, Steps, BystanderKeeps, ElsewhereKeeps DEF Decides, Applies

(* A new row that is not an approval, or a permitted one, keeps PermitInv. *)
LEMMA PermitAdded ==
  ASSUME TypeInv, PermitInv, clicks' = clicks,
         NEW action, NEW from, NEW approval, Record(action, from, approval),
         [action |-> action, click |-> from, approval |-> approval] \in ActionRow
  PROVE  (action = "approve" =>
            /\ from \in 1 .. Len(clicks)
            /\ clicks[from] = [decision |-> "approve", approval |-> approval,
                               allowed |-> TRUE])
           => PermitInv'
<1> DEFINE new == [action |-> action, click |-> from, approval |-> approval]
<1>1. PICK n : /\ n \notin DOMAIN actions
               /\ DOMAIN actions' = DOMAIN actions \cup {n}
               /\ \A i \in DOMAIN actions : actions'[i] = actions[i]
               /\ actions'[n] = new
  BY RowAdded
<1>2. new.action = action /\ new.click = from /\ new.approval = approval
  OBVIOUS
<1> HIDE DEF new
<1> SUFFICES ASSUME action = "approve" =>
                      /\ from \in 1 .. Len(clicks)
                      /\ clicks[from] = [decision |-> "approve",
                                         approval |-> approval, allowed |-> TRUE],
                    NEW i \in DOMAIN actions', actions'[i].action = "approve"
             PROVE  /\ actions'[i].click \in 1 .. Len(clicks')
                    /\ clicks'[actions'[i].click] =
                         [decision |-> "approve", approval |-> actions'[i].approval,
                          allowed |-> TRUE]
  BY DEF PermitInv, Permitted
<1>3. CASE i = n
  BY <1>1, <1>2, <1>3
<1>4. CASE i \in DOMAIN actions
  BY <1>1, <1>4 DEF PermitInv, Permitted
<1> QED
  BY <1>1, <1>3, <1>4

LEMMA PermitStep ==
  ASSUME TypeInv, PermitInv, ApprovedInv, [Next]_vars
  PROVE  PermitInv'
<1>1. CASE actions' = actions
  <2> SUFFICES ASSUME NEW i \in DOMAIN actions, actions[i].action = "approve"
               PROVE  /\ actions[i].click \in 1 .. Len(clicks')
                      /\ clicks'[actions[i].click] =
                           [decision |-> "approve", approval |-> actions[i].approval,
                            allowed |-> TRUE]
    BY <1>1 DEF PermitInv, Permitted
  <2>1. Len(clicks) \in Nat /\ Len(clicks') \in Nat
    BY TypeStep DEF TypeInv, TypeOK
  <2> QED
    BY <2>1, Grows DEF PermitInv, Permitted
<1>2. CASE RecordExpiry
  <2>1. [action |-> "expire", click |-> current, approval |-> row["runner"].approval]
          \in ActionRow
    BY DEF TypeInv, TypeOK, ActionRow, Group, Process
  <2> QED
    BY <1>2, <2>1, PermitAdded DEF RecordExpiry, outside
<1>3. CASE RecordApply
  <2>1. click \in Click
    BY <1>3, ClickTyped DEF RecordApply, At
  <2>2. [action |-> "apply", click |-> 0, approval |-> click.approval] \in ActionRow
    BY <2>1 DEF ActionRow, Click
  <2> QED
    BY <1>3, <2>2, PermitAdded DEF RecordApply, outside
<1>4. CASE RecordDecision
  <2>1. click \in Click /\ current \in 1 .. Len(clicks) /\ click.allowed
    BY <1>4, ClickTyped DEF RecordDecision, At, ApprovedInv
  <2>2. [action |-> click.decision, click |-> current, approval |-> click.approval]
          \in ActionRow
    BY <2>1 DEF TypeInv, TypeOK, ActionRow, Click
  <2>3. click.decision = "approve" =>
          clicks[current] = [decision |-> "approve", approval |-> click.approval,
                             allowed |-> TRUE]
    BY <2>1 DEF click, Click
  <2>4. clicks' = clicks /\ Record(click.decision, current, click.approval)
    BY <1>4 DEF RecordDecision, outside
  <2> QED
    BY <2>1, <2>2, <2>3, <2>4, PermitAdded
<1> QED
  BY <1>1, <1>2, <1>3, <1>4, ActionSteps

LEMMA HandlerStep ==
  ASSUME TypeInv, HandlerInv, [Next]_vars
  PROVE  HandlerInv'
<1>1. CASE Bystander
  <2>1. /\ pc'["runner"] = pc["runner"] /\ actions' = actions /\ current' = current
    BY <1>1, BystanderKeeps DEF runner
  <2>2. pc["runner"] = "handler" => click' = click
    BY <2>1, ClickStays
  <2> QED
    BY <2>1, <2>2 DEF HandlerInv, AlreadyApplied
<1>2. CASE Elsewhere
  BY <1>2, ElsewhereKeeps DEF HandlerInv, ElsewherePlace
<1>3. CASE CheckApproval
  <2>1. /\ actions' = actions /\ click' = click
        /\ pc'["runner"] = "handler" => ~AlreadyApplied
    BY <1>3, RunnerMoves
    DEF CheckApproval, RunnerPlace, store, outside, runner, click
  <2> QED
    BY <2>1 DEF HandlerInv, AlreadyApplied
<1>4. CASE Decides \/ Drain \/ RunHandler \/ RecordApply \/ SetApplied
  <2>1. Checks \in RunnerPlace \ {"handler"}
    BY DEF Checks, RunnerPlace
  <2>2. ASSUME NEW place \in RunnerPlace \ {"handler"}, Goto("runner", place)
        PROVE  pc'["runner"] # "handler"
    BY <2>2, RunnerMoves
  <2> QED
    BY <1>4, <2>1, <2>2
    DEF HandlerInv, Decides, Resolve, RecordExpiry, ExpireGroup, RecordDecision,
        DecideGroup, Drain, RunHandler, RecordApply, SetApplied, RunnerPlace
<1> QED
  BY <1>1, <1>2, <1>3, <1>4, Steps DEF Applies

LEMMA PromiseInvStep ==
  ASSUME TypeInv, ApprovedInv, PromiseInv, [Next]_vars
  PROVE  PromiseInv'
BY PermitStep, ShownStep, HandlerStep DEF PromiseInv

(* How the steps change what stands for the promise. *)
LEMMA IdsMapped ==
  /\ PermitInv => ApprovedIds = ActionIds("approve") /\ NotedIds = ActionIds("apply")
  /\ PermitInv' =>
        ApprovedIds' = ActionIds("approve")' /\ NotedIds' = ActionIds("apply")'
<1>1. PermitInv => {j \in DOMAIN actions : Permitted(actions[j])}
                     = {j \in DOMAIN actions : actions[j].action = "approve"}
  BY DEF PermitInv, Permitted
<1>2. PermitInv' => {j \in DOMAIN actions' : Permitted(actions[j])'}
                      = {j \in DOMAIN actions' : actions'[j].action = "approve"}
  BY DEF PermitInv, Permitted
<1> QED
  BY <1>1, <1>2 DEF ApprovedIds, NotedIds, ActionIds

LEMMA IdsUnchanged ==
  ASSUME actions' = actions, PermitInv, PermitInv'
  PROVE  ApprovedIds' = ApprovedIds /\ NotedIds' = NotedIds
<1>1. /\ ApprovedIds = ActionIds("approve") /\ NotedIds = ActionIds("apply")
      /\ ApprovedIds' = ActionIds("approve")' /\ NotedIds' = ActionIds("apply")'
  BY IdsMapped
<1>2. \A x : ActionIds(x)' = ActionIds(x)
  BY DEF ActionIds
<1> QED
  BY <1>1, <1>2

LEMMA IdsRecorded ==
  ASSUME TypeInv, PermitInv, PermitInv',
         NEW action, NEW from, NEW approval, Record(action, from, approval),
         [action |-> action, click |-> from, approval |-> approval] \in ActionRow
  PROVE  /\ ApprovedIds' =
              ApprovedIds \cup (IF action = "approve" THEN {approval} ELSE {})
         /\ NotedIds' = NotedIds \cup (IF action = "apply" THEN {approval} ELSE {})
<1>1. /\ ApprovedIds = ActionIds("approve") /\ NotedIds = ActionIds("apply")
      /\ ApprovedIds' = ActionIds("approve")' /\ NotedIds' = ActionIds("apply")'
  BY IdsMapped
<1>2. \A x : ActionIds(x)' = ActionIds(x) \cup (IF x = action THEN {approval} ELSE {})
  BY RecordedIds
<1> QED
  BY <1>1, <1>2

LEMMA NothingDue ==
  /\ pc["runner"] # "recordApply" => DueIds = {}
  /\ pc'["runner"] # "recordApply" => DueIds' = {}
  /\ pc["runner"] = "recordApply" => DueIds = {click.approval}
  /\ pc'["runner"] = "recordApply" => DueIds' = {click'.approval}
BY DEF DueIds, At

LEMMA EffectAdded ==
  ASSUME TypeInv, RunHandler
  PROVE  AppliedIds' = Append(AppliedIds, click.approval)
<1>1. click \in Click
  BY ClickTyped DEF RunHandler, At
<1>2. [approval |-> click.approval, proposal |-> review] \in Effect
  BY <1>1 DEF Click, Effect, TypeInv, TypeOK
<1>3. /\ DOMAIN effects = 1 .. Len(effects) /\ Len(effects) \in Nat
      /\ DOMAIN effects' = 1 .. (Len(effects) + 1)
      /\ \A e \in 1 .. Len(effects) : effects'[e] = effects[e]
      /\ effects'[Len(effects) + 1].approval = click.approval
  BY <1>2, Appended DEF RunHandler, TypeInv, TypeOK
<1>4. AppliedIds \in Seq(Nat) /\ Len(AppliedIds) = Len(effects)
  <2>1. effects \in Seq(Effect) /\ DOMAIN effects = 1 .. Len(effects)
    BY <1>3 DEF TypeInv, TypeOK
  <2>2. \A e \in DOMAIN effects : effects[e] \in Effect
    BY <2>1
  <2>3. \A e \in DOMAIN effects : effects[e].approval \in Nat
    BY <2>2 DEF Effect
  <2> QED
    BY <1>3, <2>3 DEF AppliedIds
<1>5. click.approval \in Nat
  BY <1>1 DEF Click
<1>6. /\ DOMAIN Append(AppliedIds, click.approval) = 1 .. (Len(effects) + 1)
      /\ \A e \in 1 .. Len(effects) :
            Append(AppliedIds, click.approval)[e] = AppliedIds[e]
      /\ Append(AppliedIds, click.approval)[Len(effects) + 1] = click.approval
      /\ Append(AppliedIds, click.approval) \in Seq(Nat)
  BY <1>4, <1>5, Appended
<1>7. /\ AppliedIds' = [e \in 1 .. (Len(effects) + 1) |-> effects'[e].approval]
      /\ \A e \in 1 .. Len(effects) : AppliedIds[e] = effects[e].approval
  BY <1>3 DEF AppliedIds
<1>8. \A e \in 1 .. (Len(effects) + 1) :
        effects'[e].approval = Append(AppliedIds, click.approval)[e]
  <2>1. \A e \in 1 .. (Len(effects) + 1) :
          e \in 1 .. Len(effects) \/ e = Len(effects) + 1
    BY <1>3
  <2> QED
    BY <1>3, <1>6, <1>7, <2>1
<1>9. Append(AppliedIds, click.approval) =
        [e \in 1 .. (Len(effects) + 1) |-> Append(AppliedIds, click.approval)[e]]
  BY <1>6
<1> QED
  BY <1>7, <1>8, <1>9

(* Each step of the loop is one of the promise, or none. *)
LEMMA PromiseStep ==
  ASSUME TypeInv, ApprovedInv, PromiseInv, [Next]_vars
  PROVE  [Promise!Next]_(Promise!vars)
<1>1. PermitInv /\ PermitInv'
  BY PromiseInvStep DEF PromiseInv
<1>2. prompts \subseteq prompts'
  BY PromptsGrow
<1>3. CASE Bystander
  <2>1. /\ pc'["runner"] = pc["runner"] /\ current' = current
        /\ actions' = actions /\ effects' = effects
    BY <1>3, BystanderKeeps DEF runner
  <2>2. DueIds' = DueIds
    <3>1. pc["runner"] = "recordApply" => click' = click
      BY <2>1, ClickStays
    <3> QED
      BY <2>1, <3>1, NothingDue
  <2>3. AppliedIds' = AppliedIds
    BY <2>1 DEF AppliedIds
  <2>4. Promise!Show
    BY <1>1, <1>2, <2>1, <2>2, <2>3, IdsUnchanged DEF Promise!Show
  <2> QED
    BY <2>4 DEF Promise!Next
<1>4. CASE Elsewhere
  <2>1. /\ pc'["runner"] # "recordApply" /\ actions' = actions /\ effects' = effects
    BY <1>4, ElsewhereKeeps DEF ElsewherePlace
  <2>2. AppliedIds' = AppliedIds /\ DueIds' = {}
    BY <2>1, NothingDue DEF AppliedIds
  <2>3. ApprovedIds' = ApprovedIds /\ NotedIds' = NotedIds
    BY <1>1, <2>1, IdsUnchanged
  <2>4. CASE pc["runner"] = "recordApply"
    <3>1. HandlerRaises \/ CallRaises \/ Restart
      BY <1>4, <2>4
      DEF Elsewhere, Fetch, PromptStep, SendPrompt, SkipPrompt, NoteRead, NoteWrite,
          SaveOffset, At
    <3>2. prompts' = prompts
      BY <3>1 DEF HandlerRaises, CallRaises, Restart, outside
    <3>3. Promise!Forget
      BY <2>2, <2>3, <3>2 DEF Promise!Forget
    <3> QED
      BY <3>3 DEF Promise!Next
  <2>5. CASE pc["runner"] # "recordApply"
    <3>1. DueIds = {}
      BY <2>5, NothingDue
    <3>2. Promise!Show
      BY <1>2, <2>2, <2>3, <3>1 DEF Promise!Show
    <3> QED
      BY <3>2 DEF Promise!Next
  <2> QED
    BY <2>4, <2>5
<1>5. CASE Resolve \/ ExpireGroup \/ DecideGroup \/ Drain \/ CheckApproval
           \/ SetApplied
  <2>1. actions' = actions /\ effects' = effects /\ prompts' = prompts
    BY <1>5 DEF Resolve, ExpireGroup, DecideGroup, Drain, CheckApproval, SetApplied,
                store, outside
  <2>2. pc["runner"] # "recordApply"
    BY <1>5 DEF Resolve, ExpireGroup, DecideGroup, Drain, CheckApproval, SetApplied, At
  <2>3. pc'["runner"] # "recordApply"
    <3>1. Checks \in RunnerPlace \ {"recordApply"}
      BY DEF Checks, RunnerPlace
    <3>2. ASSUME NEW place \in RunnerPlace \ {"recordApply"}, Goto("runner", place)
          PROVE  pc'["runner"] # "recordApply"
      BY <3>2, RunnerMoves
    <3> QED
      BY <1>5, <3>1, <3>2
      DEF Resolve, ExpireGroup, DecideGroup, Drain, CheckApproval, SetApplied,
          RunnerPlace
  <2>4. DueIds' = DueIds /\ AppliedIds' = AppliedIds
    BY <2>1, <2>2, <2>3, NothingDue DEF AppliedIds
  <2> QED
    BY <1>1, <2>1, <2>4, IdsUnchanged DEF Promise!vars
<1>6. CASE RecordExpiry
  <2>1. [action |-> "expire", click |-> current, approval |-> row["runner"].approval]
          \in ActionRow
    BY DEF TypeInv, TypeOK, ActionRow, Group, Process
  <2>2. Record("expire", current, row["runner"].approval)
    BY <1>6 DEF RecordExpiry
  <2>3. ApprovedIds' = ApprovedIds /\ NotedIds' = NotedIds
    BY <1>1, <2>1, <2>2, IdsRecorded
  <2>4. /\ effects' = effects /\ prompts' = prompts
        /\ pc["runner"] # "recordApply" /\ pc'["runner"] # "recordApply"
    BY <1>6, RunnerMoves DEF RecordExpiry, At, RunnerPlace, outside
  <2>5. DueIds' = DueIds /\ AppliedIds' = AppliedIds
    BY <2>4, NothingDue DEF AppliedIds
  <2> QED
    BY <2>3, <2>4, <2>5 DEF Promise!vars
<1>7. CASE RecordDecision
  <2>1. click \in Click /\ current \in DOMAIN clicks
    BY <1>7, ClickTyped DEF RecordDecision, At
  <2>2. [action |-> click.decision, click |-> current, approval |-> click.approval]
          \in ActionRow
    BY <2>1 DEF TypeInv, TypeOK, ActionRow, Click
  <2>3. Record(click.decision, current, click.approval)
    BY <1>7 DEF RecordDecision
  <2>4. /\ ApprovedIds' = ApprovedIds \cup
              (IF click.decision = "approve" THEN {click.approval} ELSE {})
        /\ NotedIds' = NotedIds
    <3>1. click.decision # "apply"
      BY <2>1 DEF Click, Decision
    <3> QED
      BY <1>1, <2>2, <2>3, <3>1, IdsRecorded
  <2>5. /\ effects' = effects /\ prompts' = prompts
        /\ pc["runner"] # "recordApply" /\ pc'["runner"] # "recordApply"
    BY <1>7, RunnerMoves DEF RecordDecision, At, RunnerPlace, outside
  <2>6. DueIds' = DueIds /\ AppliedIds' = AppliedIds
    BY <2>5, NothingDue DEF AppliedIds
  <2>7. CASE click.decision = "approve"
    <3>1. click.approval \in prompts
      BY <2>1 DEF PromiseInv, ShownInv, click
    <3>2. Promise!Approve(click.approval)
      BY <2>4, <2>5, <2>6, <2>7, <3>1 DEF Promise!Approve
    <3> QED
      BY <3>1, <3>2 DEF Promise!Next
  <2>8. CASE click.decision # "approve"
    BY <2>4, <2>5, <2>6, <2>8 DEF Promise!vars
  <2> QED
    BY <2>7, <2>8
<1>8. CASE RunHandler
  <2>1. /\ pc["runner"] = "handler" /\ pc'["runner"] = "recordApply"
        /\ actions' = actions /\ prompts' = prompts /\ click' = click
    BY <1>8, RunnerMoves DEF RunHandler, At, RunnerPlace, store, runner, click
  <2>2. DueIds = {} /\ DueIds' = {click.approval}
    BY <2>1, NothingDue
  <2>3. ApprovedIds' = ApprovedIds /\ NotedIds' = NotedIds
    BY <1>1, <2>1, IdsUnchanged
  <2>4. click.approval \in ApprovedIds
    <3>1. click.decision = "approve" /\ DecisionRecorded
      BY <2>1 DEF ApprovedInv, ClickPlace
    <3>2. click.approval \in ActionIds("approve")
      BY <3>1 DEF DecisionRecorded, ActionIds
    <3> QED
      BY <1>1, <3>2, IdsMapped
  <2>5. click.approval \notin NotedIds
    BY <2>1 DEF PromiseInv, HandlerInv, AlreadyApplied, NotedIds
  <2>6. Promise!Apply(click.approval)
    BY <1>8, <2>1, <2>2, <2>3, <2>4, <2>5, EffectAdded DEF Promise!Apply
  <2> QED
    BY <2>4, <2>6 DEF Promise!Next
<1>9. CASE RecordApply
  <2>1. /\ pc["runner"] = "recordApply" /\ pc'["runner"] = "setApplied"
        /\ effects' = effects /\ prompts' = prompts
        /\ Record("apply", 0, click.approval)
    BY <1>9, RunnerMoves DEF RecordApply, At, RunnerPlace, outside
  <2>2. click \in Click
    BY <2>1, ClickTyped
  <2>3. [action |-> "apply", click |-> 0, approval |-> click.approval] \in ActionRow
    BY <2>2 DEF ActionRow, Click
  <2>4. /\ ApprovedIds' = ApprovedIds
        /\ NotedIds' = NotedIds \cup {click.approval}
    BY <1>1, <2>1, <2>3, IdsRecorded
  <2>5. DueIds = {click.approval} /\ DueIds' = {} /\ AppliedIds' = AppliedIds
    BY <2>1, NothingDue DEF AppliedIds
  <2>6. Promise!Note(click.approval)
    BY <2>1, <2>4, <2>5 DEF Promise!Note
  <2> QED
    BY <2>5, <2>6 DEF Promise!Next
<1> QED
  BY <1>3, <1>4, <1>5, <1>6, <1>7, <1>8, <1>9, Steps DEF Decides, Applies

LEMMA PromiseInit == Init => Promise!Init
<1> SUFFICES ASSUME Init PROVE Promise!Init
  OBVIOUS
<1>1. /\ prompts = {} /\ actions = <<>> /\ effects = <<>> /\ pc["runner"] = "idle"
  BY DEF Init, Process
<1>2. ApprovedIds = {} /\ NotedIds = {} /\ DueIds = {}
  BY <1>1 DEF ApprovedIds, NotedIds, DueIds, At
<1>3. AppliedIds = <<>>
  BY <1>1 DEF AppliedIds
<1> QED
  BY <1>1, <1>2, <1>3 DEF Promise!Init

(* Of each approval id the loop keeps the promise, whatever is clicked,    *)
(* fails, restarts or is reopened: shown, then approved by a permitted     *)
(* user, then applied, and no more once the apply is noted.                *)
THEOREM ApprovalKeepsPromise == Spec => ImplementsPromise
<1>1. Init => ApprovedInv /\ PromiseInv
  BY DEF Init, Process, ApprovedInv, EffectsApproved, ClickPlace, PromiseInv,
         PermitInv, ShownInv, HandlerInv
<1>2. TypeInv /\ ApprovedInv /\ PromiseInv /\ [Next]_vars => ApprovedInv' /\ PromiseInv'
  BY ApprovedStep, PromiseInvStep
<1>3. TypeInv /\ ApprovedInv /\ PromiseInv /\ [Next]_vars
        => [Promise!Next]_(Promise!vars)
  BY PromiseStep
<1> QED
  BY <1>1, <1>2, <1>3, PromiseInit, TypesHold, PTL
  DEF Spec, ImplementsPromise, Promise!Spec

=============================================================================
