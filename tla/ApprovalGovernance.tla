------------------------- MODULE ApprovalGovernance -------------------------
(***************************************************************************)
(* Approval of improvement proposals through Telegram, for one scope (one  *)
(* check group): TelegramApprovalBridge, ApprovalLoop, ApplyExecutor and   *)
(* the part of TelegramNotificationHub that keeps the prompt (backend/     *)
(* services/telegram_approval_bridge.py, approval_loop.py,                 *)
(* apply_executor.py, telegram_notification_hub.py).                       *)
(*                                                                         *)
(* Two processes build that runtime on the same SQLite file:               *)
(*  - the orchestrator turns governance events into review requests;       *)
(*  - the trading runner polls Telegram and handles the clicks: it records *)
(*    the decision, publishes ApprovalReceived, drains its event bus and   *)
(*    so applies the proposal.                                             *)
(* Each store call is a transaction; nothing spans two of them. The runner *)
(* drains its bus right after it publishes, so an event that is under way  *)
(* is its program counter.                                                 *)
(*                                                                         *)
(* A click is its position in the list of updates Telegram keeps; approval *)
(* ids and proposals are numbers, in the order they were made.             *)
(***************************************************************************)
EXTENDS Naturals, Sequences, FiniteSets

CONSTANTS
    MaxProposals,    \* bound: governance events for the scope
    MaxClicks,       \* bound: clicks on the prompts
    MaxRestarts,     \* bound: restarts of the runner
    StoreMayFail,    \* whether a store call of the runner may raise
    HandlerMayFail,  \* whether the apply handler may raise
    DeliveryMayFail  \* whether sending or editing the prompt may fail

ASSUME GovernanceAssumption ==
    /\ MaxProposals \in Nat /\ MaxClicks \in Nat /\ MaxRestarts \in Nat
    /\ StoreMayFail \in BOOLEAN /\ HandlerMayFail \in BOOLEAN
    /\ DeliveryMayFail \in BOOLEAN

VARIABLES
    (* The store. *)
    group,      \* the check group: its status and approval_id
    latest,     \* the proposal in the newest check event
    actions,    \* check_actions, in the order they were appended
    (* Outside. *)
    effects,    \* what the apply handlers did, in order
    prompts,    \* approval ids whose buttons were shown
    clicks,     \* the callback queries of the users, in order
    overdue,    \* approval ids whose decision deadline has passed
    offset,     \* telegram_update_offset, as saved
    (* The processes. *)
    pc,         \* where each process is
    row,        \* the group each process has read
    current,    \* the click the runner handles
    batch,      \* the last click of the updates it fetched
    review,     \* the proposal it loaded for the handler
    proposals,  \* governance events so far
    clock,      \* the deadlines that had passed when the event was made
    restarts

store   == <<group, latest, actions>>
outside == <<effects, prompts, clicks, overdue>>
runner  == <<current, batch, review>>
planner == <<proposals, clock>>
vars    == <<store, outside, offset, pc, row, runner, planner, restarts>>

Process  == {"runner", "orchestrator"}
Decision == {"approve", "hold", "reject"}
StatusAfter == [approve |-> "approved", hold |-> "held", reject |-> "rejected"]

(* "cancelled" is left out: checkpoint_improvement_reconcile.py gives it   *)
(* to the older of two groups of one scope, and here there is one.         *)
Actionable == {"pending", "held"}
Final      == {"approved", "rejected", "expired", "applied"}
Group      == [status : Actionable \cup Final \cup {"none"}, approval : Nat]
Click      == [decision : Decision, approval : Nat, allowed : BOOLEAN]
ActionRow  == [action : Decision \cup {"expire", "apply"},
               click : Nat, approval : Nat]
Effect     == [approval : Nat, proposal : Nat]

RunnerPlace == {"idle", "resolve", "expire", "expireUpdate", "record",
                "update", "drain", "execute", "handler", "recordApply",
                "setApplied", "prompt", "noteRead", "noteWrite", "save"}
PlannerPlace == {"idle", "read", "upsert", "event", "prompt", "noteRead",
                 "noteWrite"}

NoGroup == [status |-> "none", approval |-> 0]

Init ==
    /\ group = NoGroup /\ latest = 0 /\ actions = <<>>
    /\ effects = <<>> /\ prompts = {} /\ clicks = <<>> /\ overdue = {}
    /\ offset = 0
    /\ pc = [p \in Process |-> "idle"]
    /\ row = [p \in Process |-> NoGroup]
    /\ current = 0 /\ batch = 0 /\ review = 0
    /\ proposals = 0 /\ clock = {}
    /\ restarts = 0

At(p, place)   == pc[p] = place
Goto(p, place) == pc' = [pc EXCEPT ![p] = place]

click == clicks[current]

Record(action, from, approval) ==
    actions' = Append(actions, [action |-> action, click |-> from,
                                approval |-> approval])

(* update_check_group with a status and an approval id. *)
SetGroup(status, approval) ==
    group' = [status |-> status, approval |-> approval]

-----------------------------------------------------------------------------
(* The users and time.                                                     *)

(* A button of any prompt that was ever shown: Telegram may lag. *)
Press(decision, approval, allowed) ==
    /\ Len(clicks) < MaxClicks
    /\ clicks' = Append(clicks, [decision |-> decision, approval |-> approval,
                                 allowed |-> allowed])
    /\ UNCHANGED <<store, effects, prompts, overdue, offset, pc, row, runner,
                   planner, restarts>>

(* An approval id that was issued reaches its decision deadline. *)
DeadlinePasses(approval) ==
    /\ approval \notin overdue
    /\ overdue' = overdue \cup {approval}
    /\ UNCHANGED <<store, effects, prompts, clicks, offset, pc, row, runner,
                   planner, restarts>>

-----------------------------------------------------------------------------
(* The orchestrator: handle_governance_action_needed.                      *)

(* The governance cycle publishes an event, stamped with its start time. *)
ReviewNeeded ==
    /\ At("orchestrator", "idle") /\ proposals < MaxProposals
    /\ proposals' = proposals + 1
    /\ clock' = overdue
    /\ Goto("orchestrator", "read")
    /\ UNCHANGED <<store, outside, offset, row, runner, restarts>>

IsFresh(g) == g.status \in Actionable /\ g.approval \notin clock

(* The group is read and the request decided: refreshed under its approval *)
(* id, or opened under a new one.                                          *)
ReadGroup ==
    /\ At("orchestrator", "read")
    /\ row' = [row EXCEPT !["orchestrator"] =
                  IF IsFresh(group) THEN group
                  ELSE [status |-> "pending", approval |-> proposals]]
    /\ Goto("orchestrator", "upsert")
    /\ UNCHANGED <<store, outside, offset, runner, planner, restarts>>

UpsertGroup ==
    /\ At("orchestrator", "upsert")
    /\ group' = row["orchestrator"]
    /\ Goto("orchestrator", "event")
    /\ UNCHANGED <<latest, actions, outside, offset, row, runner, planner,
                   restarts>>

AppendEvent ==
    /\ At("orchestrator", "event")
    /\ latest' = proposals
    /\ Goto("orchestrator", "prompt")
    /\ UNCHANGED <<group, actions, outside, offset, row, runner, planner,
                   restarts>>

-----------------------------------------------------------------------------
(* sync_check_group_prompt, in either process.                             *)

(* Where a process goes when it is done with the group: the runner to the  *)
(* next update of its batch, or to saving the offset.                      *)
Done(p) ==
    IF p = "orchestrator" THEN Goto(p, "idle") /\ UNCHANGED current
    ELSE IF current < batch
      THEN Goto(p, "resolve") /\ current' = current + 1
      ELSE Goto(p, "save") /\ UNCHANGED current

(* The prompt is sent or edited, unless it is current or that fails. *)
SendPrompt(p) ==
    /\ At(p, "prompt")
    /\ prompts' = IF group.status \in Actionable
                    THEN prompts \cup {group.approval} ELSE prompts
    /\ Goto(p, "noteRead")
    /\ UNCHANGED <<store, effects, clicks, overdue, offset, row, runner,
                   planner, restarts>>

SkipPrompt(p) ==
    /\ At(p, "prompt")
    /\ group.approval \in prompts \/ DeliveryMayFail
    /\ Done(p)
    /\ UNCHANGED <<store, outside, offset, row, batch, review, planner,
                   restarts>>

(* update_check_group without a status reads the row and writes back the   *)
(* status and approval id it found.                                        *)
NoteRead(p) ==
    /\ At(p, "noteRead")
    /\ row' = [row EXCEPT ![p] = group]
    /\ Goto(p, "noteWrite")
    /\ UNCHANGED <<store, outside, offset, runner, planner, restarts>>

NoteWrite(p) ==
    /\ At(p, "noteWrite")
    /\ group' = row[p]
    /\ Done(p)
    /\ UNCHANGED <<latest, actions, outside, offset, row, batch, review,
                   planner, restarts>>

-----------------------------------------------------------------------------
(* The runner: _poll_telegram_updates and ApprovalLoop.process_callback.   *)

Fetch ==
    /\ At("runner", "idle") /\ offset < Len(clicks)
    /\ batch' = Len(clicks)
    /\ current' = offset + 1
    /\ Goto("runner", "resolve")
    /\ UNCHANGED <<store, outside, offset, row, review, planner, restarts>>

(* Mutant: a click delivered again is taken for a new one. *)
NeverRecorded == FALSE

AlreadyRecorded == \E i \in DOMAIN actions : actions[i].click = current

(* Two mutants: strangers decide; the status is looked at too late.        *)
ChecksWithoutUser ==
    IF AlreadyRecorded \/ group.status \notin Actionable THEN "prompt"
    ELSE IF group.approval \in overdue THEN "expire"
    ELSE IF group.approval # click.approval THEN "prompt" ELSE "record"
ChecksWithoutStatus ==
    IF AlreadyRecorded \/ ~click.allowed THEN "prompt"
    ELSE IF group.approval \in overdue THEN "expire"
    ELSE IF group.approval # click.approval THEN "prompt" ELSE "record"

(* The checks of a click, one after the other. *)
Checks ==
    IF AlreadyRecorded \/ ~click.allowed THEN "prompt"
    ELSE IF group.status \notin Actionable THEN "prompt"
    ELSE IF group.approval \in overdue THEN "expire"
    ELSE IF group.approval # click.approval THEN "prompt" ELSE "record"

Resolve ==
    /\ At("runner", "resolve")
    /\ row' = [row EXCEPT !["runner"] = group]
    /\ Goto("runner", Checks)
    /\ UNCHANGED <<store, outside, offset, runner, planner, restarts>>

RecordExpiry ==
    /\ At("runner", "expire")
    /\ Record("expire", current, row["runner"].approval)
    /\ Goto("runner", "expireUpdate")
    /\ UNCHANGED <<group, latest, outside, offset, row, runner, planner,
                   restarts>>

ExpireGroup ==
    /\ At("runner", "expireUpdate")
    /\ SetGroup("expired", row["runner"].approval)
    /\ Goto("runner", "prompt")
    /\ UNCHANGED <<latest, actions, outside, offset, row, runner, planner,
                   restarts>>

RecordDecision ==
    /\ At("runner", "record")
    /\ Record(click.decision, current, click.approval)
    /\ Goto("runner", "update")
    /\ UNCHANGED <<group, latest, outside, offset, row, runner, planner,
                   restarts>>

(* Mutant: the group takes the name of the decision for its status. *)
DecisionAsStatus == click.decision

DecidedStatus == StatusAfter[click.decision]

(* The group takes the decision and ApprovalReceived is published. *)
DecideGroup ==
    /\ At("runner", "update")
    /\ SetGroup(DecidedStatus, click.approval)
    /\ Goto("runner", "drain")
    /\ UNCHANGED <<latest, actions, outside, offset, row, runner, planner,
                   restarts>>

-----------------------------------------------------------------------------
(* The runner drains its bus: ApplyExecutor.execute_approval.              *)

(* Only an approval goes on; the newest proposal is loaded for it. *)
Drain ==
    /\ At("runner", "drain")
    /\ review' = latest
    /\ Goto("runner", IF click.decision = "approve" THEN "execute" ELSE "prompt")
    /\ UNCHANGED <<store, outside, offset, row, current, batch, planner,
                   restarts>>

(* Mutant: applies are not looked up. *)
NeverApplied == FALSE

AlreadyApplied ==
    \E i \in DOMAIN actions :
        actions[i].action = "apply" /\ actions[i].approval = click.approval

CheckApproval ==
    /\ At("runner", "execute")
    /\ Goto("runner", IF group.status = "approved" /\ ~AlreadyApplied
                        THEN "handler" ELSE "prompt")
    /\ UNCHANGED <<store, outside, offset, row, runner, planner, restarts>>

(* The handler writes the activation. The refreshes that follow it, and    *)
(* the end of the handler, come before the next step.                      *)
RunHandler ==
    /\ At("runner", "handler")
    /\ effects' = Append(effects, [approval |-> click.approval,
                                   proposal |-> review])
    /\ Goto("runner", "recordApply")
    /\ UNCHANGED <<store, prompts, clicks, overdue, offset, row, runner,
                   planner, restarts>>

(* Mutant: an apply whose handler raised is recorded all the same. *)
HandlerErrorIgnored ==
    /\ HandlerMayFail /\ At("runner", "handler")
    /\ Goto("runner", "recordApply")
    /\ UNCHANGED <<store, outside, offset, row, runner, planner, restarts>>

(* The handler raises before its effect, or after it in a refresh: the     *)
(* effect stays, and no apply is recorded.                                 *)
HandlerRaises ==
    /\ HandlerMayFail /\ pc["runner"] \in {"handler", "recordApply"}
    /\ Goto("runner", "prompt")
    /\ UNCHANGED <<store, outside, offset, row, runner, planner, restarts>>

RecordApply ==
    /\ At("runner", "recordApply")
    /\ Record("apply", 0, click.approval)
    /\ Goto("runner", "setApplied")
    /\ UNCHANGED <<group, latest, outside, offset, row, runner, planner,
                   restarts>>

SetApplied ==
    /\ At("runner", "setApplied")
    /\ SetGroup("applied", click.approval)
    /\ Goto("runner", "prompt")
    /\ UNCHANGED <<latest, actions, outside, offset, row, runner, planner,
                   restarts>>

(* Mutant: the offset is never saved. *)
OffsetKept ==
    /\ At("runner", "save")
    /\ Goto("runner", "idle")
    /\ UNCHANGED <<store, outside, offset, row, runner, planner, restarts>>

SaveOffset ==
    /\ At("runner", "save")
    /\ offset' = batch
    /\ Goto("runner", "idle")
    /\ UNCHANGED <<store, outside, row, runner, planner, restarts>>

-----------------------------------------------------------------------------
(* A store call raises. The bus swallows what its handlers raise and the   *)
(* callback goes on; elsewhere the poll goes on with the next update.      *)
CallRaises ==
    /\ StoreMayFail
    /\ \/ /\ pc["runner"] \in {"execute", "recordApply", "setApplied"}
          /\ Goto("runner", "prompt") /\ UNCHANGED current
       \/ /\ pc["runner"] \in {"resolve", "expire", "expireUpdate", "record",
                               "update", "prompt", "noteRead", "noteWrite"}
          /\ Done("runner")
    /\ UNCHANGED <<store, outside, offset, row, batch, review, planner,
                   restarts>>

(* The runner dies: its bus and its place in the batch are gone. *)
Restart ==
    /\ restarts < MaxRestarts
    /\ restarts' = restarts + 1
    /\ Goto("runner", "idle")
    /\ row' = [row EXCEPT !["runner"] = NoGroup]
    /\ current' = 0 /\ batch' = 0 /\ review' = 0
    /\ UNCHANGED <<store, outside, offset, planner>>

-----------------------------------------------------------------------------
PromptStep(p) == SendPrompt(p) \/ SkipPrompt(p) \/ NoteRead(p) \/ NoteWrite(p)

RunnerStep ==
    \/ Fetch \/ Resolve \/ RecordExpiry \/ ExpireGroup
    \/ RecordDecision \/ DecideGroup
    \/ Drain \/ CheckApproval \/ RunHandler \/ HandlerRaises
    \/ RecordApply \/ SetApplied \/ SaveOffset
    \/ PromptStep("runner")

OrchestratorStep ==
    ReadGroup \/ UpsertGroup \/ AppendEvent \/ PromptStep("orchestrator")

Next ==
    \/ \E decision \in Decision, approval \in prompts, allowed \in BOOLEAN :
          Press(decision, approval, allowed)
    \/ \E approval \in 1..proposals : DeadlinePasses(approval)
    \/ ReviewNeeded \/ OrchestratorStep
    \/ RunnerStep \/ CallRaises \/ Restart

Spec == Init /\ [][Next]_vars

(* The main loop of the runner ticks the Telegram service every turn. *)
FairSpec == Spec /\ WF_vars(RunnerStep)

-----------------------------------------------------------------------------
(* Every variable has its type. *)
TypeOK ==
    /\ group \in Group /\ latest \in Nat
    /\ actions \in Seq(ActionRow)
    /\ effects \in Seq(Effect)
    /\ prompts \subseteq Nat /\ overdue \subseteq Nat /\ clock \subseteq Nat
    /\ clicks \in Seq(Click)
    /\ offset \in Nat
    /\ pc \in [Process -> RunnerPlace \cup PlannerPlace]
    /\ pc["runner"] \in RunnerPlace /\ pc["orchestrator"] \in PlannerPlace
    /\ row \in [Process -> Group]
    /\ current \in Nat /\ batch \in Nat /\ review \in Nat
    /\ proposals \in Nat /\ restarts \in Nat

(* A click decides at most once, although Telegram delivers it again after *)
(* a crash and a held group stays open (process_callback: duplicate check).*)
ClickDecidesOnce ==
    \A i, j \in DOMAIN actions :
        actions[i].click = actions[j].click /\ actions[i].click # 0 => i = j

(* A group that says "applied" has an apply record under its approval id   *)
(* and the handler has run for it, whatever fails in between.              *)
AppliedIsTrue ==
    group.status = "applied" =>
        /\ \E e \in DOMAIN effects : effects[e].approval = group.approval
        /\ \E i \in DOMAIN actions :
              actions[i].action = "apply" /\ actions[i].approval = group.approval

(* While the store answers and no handler raises after its effect, an      *)
(* approval id is applied at most once, and once more for each restart of  *)
(* the runner between the handler and the apply record, even when the      *)
(* orchestrator reopens a group that was just approved (execute_approval:  *)
(* duplicate check).                                                       *)
EffectsOf(approval) == {e \in DOMAIN effects : effects[e].approval = approval}
AppliedOnce ==
    \A e \in DOMAIN effects :
        Cardinality(EffectsOf(effects[e].approval)) <= 1 + restarts

(* A decision made on a row that was read earlier never hits a group that  *)
(* was closed meanwhile: while the runner records a decision or an expiry, *)
(* the group stays open (process_callback, expire_group_if_needed).        *)
DecidesOpenGroups ==
    pc["runner"] \in {"expire", "expireUpdate", "record", "update"}
        => group.status \in Actionable

(* A click is handled in the end and never fetched again, whatever raises  *)
(* while it is handled.                                                    *)
EveryClickHandled ==
    \A n \in 1..MaxClicks : Len(clicks) >= n ~> offset >= n

(* "terminal group만 있으면 새 approval_id로 reopen": when the bridge      *)
(* reopens a closed group, it does so under a new approval id.             *)
ReopensUnderNewId ==
    [][At("orchestrator", "upsert") /\ pc'["orchestrator"] = "event"
          /\ group.status \in Final
          => group'.approval # group.approval]_vars

(* What is promised of each approval id, see ApprovalPromise: nothing is   *)
(* applied that no permitted user approved on a prompt that was shown, and *)
(* nothing again once its apply is recorded (process_callback,             *)
(* execute_approval).                                                      *)
Permitted(a) ==
    /\ a.action = "approve"
    /\ clicks[a.click] = [decision |-> "approve", approval |-> a.approval,
                          allowed |-> TRUE]

ApprovedIds == {actions[i].approval :
                  i \in {j \in DOMAIN actions : Permitted(actions[j])}}
NotedIds == {actions[i].approval :
               i \in {j \in DOMAIN actions : actions[j].action = "apply"}}
AppliedIds == [e \in DOMAIN effects |-> effects[e].approval]
DueIds == IF At("runner", "recordApply") THEN {click.approval} ELSE {}

Promise == INSTANCE ApprovalPromise WITH
    shown <- prompts, approved <- ApprovedIds, applied <- AppliedIds,
    due <- DueIds, noted <- NotedIds

ImplementsPromise == Promise!Spec
=============================================================================
