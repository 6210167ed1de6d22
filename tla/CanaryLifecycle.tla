--------------------------- MODULE CanaryLifecycle ---------------------------
(***************************************************************************)
(* The life of one symbol's action-only canary: activated, observed,       *)
(* rolled back or closed out (PA8), and handed over to the action baseline *)
(* (PA9).  All of its state is in JSON files that two processes read and   *)
(* write without a lock:                                                   *)
(*   - the watch reads the activation, computes the window's decision,     *)
(*     writes the closeout file and then the board, and offers the reviews *)
(*     that the rows call for;                                             *)
(*   - the runner applies an approved review: it writes the activation     *)
(*     and then refreshes the two files the way the watch does.            *)
(* How a review becomes an approval is ApprovalGovernance's subject: here  *)
(* a review that was offered may be approved or dropped at any later time. *)
(***************************************************************************)
EXTENDS Naturals

CONSTANT MaxCrashes   \* bound: crashes of the two processes

ASSUME CanaryBounds == MaxCrashes \in Nat

VARIABLES
    phase,      \* the state of the activation file
    artifact,   \* whether the handoff artifact says the handoff was applied
    closeout,   \* the decision of the closeout file
    board,      \* whether the symbol's decision on the board file is ready
    window,     \* what the data set shows since the activation, while active
    watch,      \* the watch: its place, the row it computed
    handler,    \* the runner: the review it applies, its place, the decision
                \* it loaded or computed (its verdict)
    offered,    \* the reviews that wait for a decision of a human
    crashes,    \* crashes so far (bounds the model)
    disturbed   \* whether a file may stand from an overtaken or cut refresh
                \* (what the properties observe; no code reads it)

files == <<phase, artifact, closeout, board>>
vars  == <<files, window, watch, handler, offered, crashes, disturbed>>

Reviews == {"activation", "rollback", "closeout", "handoff"}

(* HOLD_CANARY_ACTIVATION_APPLY or HELD_, REJECTED_, ACTIVE_, ROLLED_BACK_, *)
(* PA9_HANDOFF_PREPARED_ACTION_ONLY_CANARY and                              *)
(* PA9_ACTION_BASELINE_HANDOFF_APPLIED; "lost": the file does not parse.    *)
Built  == {"hold", "rejected", "active"}
Phases == Built \cup {"rolled", "prepared", "applied", "lost"}

(* No live row or too few of them, triggers active, or enough rows and no   *)
(* trigger.                                                                *)
Windows   == {"pending", "triggered", "enough"}
Decisions == Windows \cup {"notActive"}

(* What the readers of a decision tell apart: ready or not, and "outlived": *)
(* ready, but about a former activation.                                   *)
Verdicts == {"notReady", "ready", "outlived"}

(* A row of the board: the reviews it calls for, the verdict it writes.    *)
Rows  == [reviews : SUBSET Reviews, verdict : Verdicts]
NoRow == [reviews |-> {}, verdict |-> "notReady"]

TypeOK ==
    /\ phase \in Phases
    /\ artifact \in {"none", "applied"}
    /\ closeout \in Verdicts
    /\ board \in BOOLEAN
    /\ window \in Windows
    /\ watch \in [pc : {"idle", "closeout", "board", "offer"},
                  row : Rows, fresh : BOOLEAN]
    /\ handler \in [pc : {"idle", "load", "check", "write", "refresh",
                          "closeout", "board", "artifact"},
                    review : Reviews, verdict : Verdicts]
    /\ offered \in SUBSET Reviews
    /\ crashes \in 0..MaxCrashes
    /\ disturbed \in BOOLEAN

-----------------------------------------------------------------------------
(* The refresh, as the watch and the handlers both run it.                 *)

(* The closeout decision of the window, in the order of its conditions.    *)
Decision == IF phase = "active" THEN window ELSE "notActive"

Verdict(decision) == IF decision = "enough" THEN "ready" ELSE "notReady"

Outlive(verdict) == IF verdict = "ready" THEN "outlived" ELSE verdict

WatchIdle   == [pc |-> "idle", row |-> NoRow, fresh |-> TRUE]
HandlerIdle == [pc |-> "idle", review |-> "activation",
                verdict |-> "notReady"]

Init ==
    /\ phase \in Built
    /\ window = "pending"
    /\ artifact = "none"
    /\ closeout = "notReady" /\ board = FALSE
    /\ watch = WatchIdle /\ handler = HandlerIdle
    /\ offered = {} /\ crashes = 0 /\ disturbed = FALSE

-----------------------------------------------------------------------------
(* The data set and the operator.                                          *)

(* The checkpoint data set is rebuilt: rows come, and old ones fall out.   *)
NewRows(w) ==
    /\ phase = "active" /\ w # window
    /\ window' = w
    /\ UNCHANGED <<files, watch, handler, offered, crashes, disturbed>>

(* The activation file changes: what the watch has read is out of date.    *)
OvertakeWatch ==
    watch' = [watch EXCEPT !.fresh = watch.pc \in {"idle", "offer"},
                           !.row.verdict = Outlive(@)]

(* The operator runs the bundle script (while no handler runs): it builds  *)
(* the activation anew and the closeout decision from it, not the board.   *)
Bundle(built) ==
    /\ handler.pc = "idle"
    /\ phase' = built
    /\ window' = "pending"
    /\ closeout' = "notReady"
    /\ OvertakeWatch
    /\ UNCHANGED <<artifact, board, handler, offered, crashes, disturbed>>

-----------------------------------------------------------------------------
(* The watch: refresh, then offer.                                         *)

(* Mutant: the triggers are looked at only when the canary is not active. *)
CandidateByPhase(decision) ==
    IF decision = "enough" /\ phase = "active" THEN {"closeout"}
    ELSE IF phase = "hold" THEN {"activation"}
    ELSE IF phase # "active" /\ decision = "triggered" THEN {"rollback"} ELSE {}

(* _candidate_from_governance_row, of a row that was just computed. *)
CanaryCandidate(decision) ==
    IF decision = "triggered" THEN {"rollback"}
    ELSE IF decision = "enough" /\ phase = "active" THEN {"closeout"}
    ELSE IF phase = "hold" THEN {"activation"} ELSE {}

Row == [reviews |-> CanaryCandidate(Decision), verdict |-> Verdict(Decision)]

(* The activation is read; while a handler writes it, it may not parse.    *)
WatchRead ==
    /\ watch.pc = "idle"
    /\ \E row \in {Row} \cup (IF handler.pc = "write" THEN {NoRow} ELSE {}) :
          watch' = [pc |-> "closeout", row |-> row, fresh |-> TRUE]
    /\ UNCHANGED <<files, window, handler, offered, crashes, disturbed>>

WatchWritesCloseout ==
    /\ watch.pc = "closeout"
    /\ closeout' = watch.row.verdict
    /\ watch' = [watch EXCEPT !.pc = "board"]
    /\ disturbed' = (disturbed \/ ~watch.fresh)
    /\ UNCHANGED <<phase, artifact, board, window, handler, offered, crashes>>

WatchWritesBoard ==
    /\ watch.pc = "board"    \* what it still needs: the row, to offer from
    /\ board' = (watch.row.verdict # "notReady")
    /\ watch' = [pc |-> "offer", fresh |-> TRUE,
                  row |-> [watch.row EXCEPT !.verdict = "notReady"]]
    /\ disturbed' = (~watch.fresh \/ (disturbed /\ handler.pc # "idle"))
    /\ UNCHANGED <<phase, artifact, closeout, window, handler, offered, crashes>>

(* Mutant: the artifact of an earlier handoff is not looked at. *)
HandoffAgain == phase = "prepared"

HandoffCandidate == phase = "prepared" /\ artifact # "applied"

(* The candidates of the row just computed and of the handoff runtime.     *)
WatchOffers ==
    /\ watch.pc = "offer"
    /\ offered' = offered \cup watch.row.reviews
                          \cup (IF HandoffCandidate THEN {"handoff"} ELSE {})
    /\ watch' = WatchIdle
    /\ UNCHANGED <<files, window, handler, crashes, disturbed>>

(* The governance cycle is not due: the files are refreshed all the same.  *)
WatchNotDue ==
    /\ watch.pc = "offer"
    /\ watch' = WatchIdle
    /\ UNCHANGED <<files, window, handler, offered, crashes, disturbed>>

-----------------------------------------------------------------------------
(* The reviewer, and the handlers that the runner calls one at a time.     *)

FirstStep ==
    [activation |-> "write", rollback |-> "write",
     closeout |-> "load", handoff |-> "check"]

Approve(review) ==
    /\ review \in offered /\ handler.pc = "idle"
    /\ offered' = offered \ {review}
    /\ handler' = [HandlerIdle EXCEPT !.pc = FirstStep[review], !.review = review]
    /\ UNCHANGED <<files, window, watch, crashes, disturbed>>

(* Rejected, or expired. *)
Drop(review) ==
    /\ review \in offered
    /\ offered' = offered \ {review}
    /\ UNCHANGED <<files, window, watch, handler, crashes, disturbed>>

At(place)   == handler.pc = place
Goto(place) == handler' = [handler EXCEPT !.pc = place]

(* handle_closeout_review loads the decision, then refreshes the closeout  *)
(* runtime from the board file and asserts both.                           *)
LoadDecision ==
    /\ At("load")
    /\ handler' = [handler EXCEPT !.pc = "check", !.verdict = closeout]
    /\ UNCHANGED <<files, window, watch, offered, crashes, disturbed>>

(* Mutant: only the packets built from the board are asserted. *)
DecisionUnread == TRUE

DecisionReady == handler.verdict # "notReady"

CloseoutReady == DecisionReady /\ board

Ready == IF handler.review = "closeout" THEN CloseoutReady ELSE HandoffCandidate

Check ==
    /\ At("check")
    /\ IF Ready THEN Goto("write") ELSE handler' = HandlerIdle
    /\ UNCHANGED <<files, window, watch, offered, crashes, disturbed>>

(* A file the watch is writing does not parse: the handler raises. *)
CheckFails ==
    /\ At("load") \/ At("check")
    /\ handler.review = "closeout"
    /\ watch.pc \in {"closeout", "board"}
    /\ handler' = HandlerIdle
    /\ UNCHANGED <<files, window, watch, offered, crashes, disturbed>>

(* Mutant: a state that no reader knows. *)
PhaseMistyped ==
    [rollback |-> "rolledBack", closeout |-> "prepared", handoff |-> "applied"]

PhaseAfter ==
    [rollback |-> "rolled", closeout |-> "prepared", handoff |-> "applied"]

(* The activations a handler may write: an activation is built anew from   *)
(* the review packet, which is ready or not; the others mark the old one.  *)
Written ==
    IF handler.review = "activation"
      THEN {"hold", "active"} ELSE {PhaseAfter[handler.review]}

WriteActivation ==
    /\ At("write")
    /\ phase' \in Written
    /\ window' = "pending"
    /\ closeout' = Outlive(closeout)
    /\ OvertakeWatch
    /\ handler' = [handler EXCEPT !.pc = "refresh", !.verdict = "notReady"]
    /\ UNCHANGED <<artifact, board, offered, crashes, disturbed>>

RefreshRead ==
    /\ At("refresh")
    /\ handler' = [handler EXCEPT !.pc = "closeout", !.verdict = Verdict(Decision)]
    /\ UNCHANGED <<files, window, watch, offered, crashes, disturbed>>

RefreshCloseout ==
    /\ At("closeout")
    /\ closeout' = handler.verdict
    /\ Goto("board")
    /\ UNCHANGED <<phase, artifact, board, window, watch, offered, crashes,
                   disturbed>>

RefreshBoard ==
    /\ At("board")
    /\ board' = (handler.verdict # "notReady")
    /\ IF handler.review = "handoff" THEN Goto("artifact")
       ELSE handler' = HandlerIdle
    /\ UNCHANGED <<phase, artifact, closeout, window, watch, offered, crashes,
                   disturbed>>

WriteArtifact ==
    /\ At("artifact")
    /\ artifact' = "applied"
    /\ handler' = HandlerIdle
    /\ UNCHANGED <<phase, closeout, board, window, watch, offered, crashes,
                   disturbed>>

-----------------------------------------------------------------------------
(* Crashes: nothing resumes, and the next poll or cycle starts over.       *)

WatchCrash ==
    /\ crashes < MaxCrashes /\ watch.pc # "idle"
    /\ crashes' = crashes + 1
    /\ watch' = WatchIdle
    /\ UNCHANGED <<files, window, handler, offered, disturbed>>

(* In the middle of a write the activation file is lost. *)
RunnerCrash ==
    /\ crashes < MaxCrashes /\ handler.pc # "idle"
    /\ crashes' = crashes + 1
    /\ \/ /\ UNCHANGED <<phase, window, closeout, watch>>
          /\ disturbed' = (disturbed \/ handler.pc \in {"refresh", "closeout", "board"})
       \/ /\ At("write")
          /\ phase' = "lost" /\ window' = "pending"
          /\ closeout' = Outlive(closeout) /\ OvertakeWatch
          /\ disturbed' = TRUE
    /\ handler' = HandlerIdle
    /\ UNCHANGED <<artifact, board, offered>>

-----------------------------------------------------------------------------
Watch == WatchRead \/ WatchWritesCloseout \/ WatchWritesBoard
         \/ WatchOffers \/ WatchNotDue

Handler == LoadDecision \/ Check \/ CheckFails \/ WriteActivation \/ RefreshRead
           \/ RefreshCloseout \/ RefreshBoard \/ WriteArtifact

Next ==
    \/ \E w \in Windows : NewRows(w)
    \/ \E built \in Built : Bundle(built)
    \/ Watch \/ Handler
    \/ \E review \in Reviews : Approve(review) \/ Drop(review)
    \/ WatchCrash \/ RunnerCrash

Spec == Init /\ [][Next]_vars

(* The watch and the runner keep running, a governance cycle is due again  *)
(* and again, and a rollback that is offered over and over gets approved.  *)
Fairness ==
    /\ WF_vars(Watch) /\ SF_vars(WatchOffers)
    /\ WF_vars(Handler) /\ SF_vars(Approve("rollback"))

FairSpec == Spec /\ Fairness

-----------------------------------------------------------------------------
(* Properties.                                                             *)

(* A closeout review prepares the handoff of the canary whose own window   *)
(* was ready: the canary is active and the decision the handler loaded     *)
(* belongs to this activation -- unless a refresh that a handler overtook, *)
(* or that a crash cut off, still stands in the files                      *)
(* (handle_closeout_review never looks at the activation's state).         *)
ClosesOutOwnWindow ==
    [][(phase' # phase /\ phase' = "prepared")
         => disturbed \/ (phase = "active" /\ handler.verdict = "ready")]_vars

(* The baseline handoff is applied to a prepared canary whose handoff was  *)
(* not applied yet, however old the approval is and whatever was approved  *)
(* in the meantime (_assert_handoff_ready against a fresh runtime).        *)
HandsOverPrepared ==
    [][(phase' # phase /\ phase' = "applied")
         => phase = "prepared" /\ artifact = "none"]_vars

(* A canary whose window keeps its triggers does not stay active: the      *)
(* watch offers the rollback again after a crash or a dropped review.      *)
TriggersGetAnswered ==
    (phase = "active" /\ window = "triggered")
      ~> ~(phase = "active" /\ window = "triggered")

=============================================================================
