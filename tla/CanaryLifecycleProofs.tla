------------------------ MODULE CanaryLifecycleProofs ------------------------
(***************************************************************************)
(* Theorems about the canary of one symbol, for every number of crashes:   *)
(*                                                                         *)
(*  - TypeCorrect: every variable keeps its type;                          *)
(*  - HandsOverOnce: only a prepared canary is handed over, and once;      *)
(*  - ClosesOwn: a closeout goes by the decision of its own activation.    *)
(***************************************************************************)
EXTENDS CanaryLifecycle, TLAPS

WatchType   == [pc : {"idle", "closeout", "board", "offer"},
                row : Rows, fresh : BOOLEAN]
HandlerType == [pc : {"idle", "load", "check", "write", "refresh",
                      "closeout", "board", "artifact"},
                review : Reviews, verdict : Verdicts]

LEMMA VerdictsTyped ==
  /\ \A verdict \in Verdicts : Outlive(verdict) \in Verdicts
  /\ \A decision : Verdict(decision) \in Verdicts
BY DEF Outlive, Verdict, Verdicts

LEMMA RowTyped == Row \in Rows /\ NoRow \in Rows
<1>1. CanaryCandidate(Decision) \in SUBSET Reviews
  BY DEF CanaryCandidate, Reviews
<1> QED
  BY <1>1, VerdictsTyped DEF Row, NoRow, Rows, Verdicts

LEMMA IdleTyped == WatchIdle \in WatchType /\ HandlerIdle \in HandlerType
BY RowTyped DEF WatchIdle, HandlerIdle, WatchType, HandlerType, Reviews, Verdicts

LEMMA OvertakeTyped ==
  ASSUME watch \in WatchType, OvertakeWatch
  PROVE  watch' \in WatchType
<1>1. watch.row \in Rows /\ watch.row.verdict \in Verdicts
  BY DEF WatchType, Rows
<1>2. Outlive(watch.row.verdict) \in Verdicts
  BY <1>1, VerdictsTyped
<1>3. [watch.row EXCEPT !.verdict = Outlive(watch.row.verdict)] \in Rows
  BY <1>1, <1>2 DEF Rows
<1>4. watch' = [watch EXCEPT !.fresh = watch.pc \in {"idle", "offer"},
                   !.row = [watch.row EXCEPT !.verdict = Outlive(watch.row.verdict)]]
  BY DEF OvertakeWatch, WatchType
<1>5. (watch.pc \in {"idle", "offer"}) \in BOOLEAN
  OBVIOUS
<1> HIDE DEF Rows
<1> QED
  BY <1>3, <1>4, <1>5 DEF WatchType

-----------------------------------------------------------------------------
(* Type correctness.                                                       *)

LEMMA InitTyped == Init => TypeOK
<1> SUFFICES ASSUME Init PROVE TypeOK
  OBVIOUS
<1>1. /\ phase \in Phases /\ window \in Windows /\ closeout \in Verdicts
      /\ artifact \in {"none", "applied"} /\ board \in BOOLEAN
  BY DEF Init, Phases, Windows, Verdicts
<1>2. offered \in SUBSET Reviews /\ disturbed \in BOOLEAN
  BY Zenon DEF Init
<1>4. crashes \in 0 .. MaxCrashes
  BY CanaryBounds, SMT DEF Init
<1>3. watch \in WatchType /\ handler \in HandlerType
  BY IdleTyped DEF Init
<1> QED
  BY <1>1, <1>2, <1>3, <1>4 DEF TypeOK, WatchType, HandlerType

LEMMA WatchTyped ==
  ASSUME TypeOK, Watch
  PROVE  TypeOK'
<1>1. CASE WatchRead
  <2>1. watch' \in WatchType
    BY <1>1, RowTyped DEF WatchRead, WatchType
  <2> QED
    BY <1>1, <2>1 DEF WatchRead, TypeOK, files, WatchType
<1>2. CASE WatchWritesCloseout
  <2>1. watch' \in WatchType /\ closeout' \in Verdicts
    BY <1>2 DEF WatchWritesCloseout, TypeOK, WatchType, Rows
  <2> QED
    BY <1>2, <2>1 DEF WatchWritesCloseout, TypeOK, WatchType
<1>3. CASE WatchWritesBoard
  <2>1. [watch.row EXCEPT !.verdict = "notReady"] \in Rows
    BY <1>3 DEF TypeOK, Rows, Verdicts
  <2>2. watch' \in WatchType
    BY <1>3, <2>1 DEF WatchWritesBoard, WatchType
  <2> QED
    BY <1>3, <2>2 DEF WatchWritesBoard, TypeOK, WatchType
<1>4. CASE WatchOffers
  <2>1. watch.row.reviews \in SUBSET Reviews
    BY DEF TypeOK, Rows
  <2>2. offered' \in SUBSET Reviews
    BY <1>4, <2>1 DEF WatchOffers, TypeOK, Reviews
  <2> QED
    BY <1>4, <2>2, IdleTyped DEF WatchOffers, TypeOK, files, WatchType
<1>5. CASE WatchNotDue
  BY <1>5, IdleTyped DEF WatchNotDue, TypeOK, files, WatchType
<1> QED
  BY <1>1, <1>2, <1>3, <1>4, <1>5 DEF Watch

LEMMA HandlerTyped ==
  ASSUME TypeOK, Handler
  PROVE  TypeOK'
<1>1. CASE LoadDecision
  BY <1>1 DEF LoadDecision, TypeOK, files
<1>2. CASE Check
  BY <1>2, IdleTyped DEF Check, Goto, TypeOK, files, HandlerType
<1>3. CASE CheckFails
  BY <1>3, IdleTyped DEF CheckFails, TypeOK, files, HandlerType
<1>4. CASE WriteActivation
  <2>1. watch' \in WatchType
    BY <1>4, OvertakeTyped DEF WriteActivation, TypeOK, WatchType
  <2>2. closeout' \in Verdicts
    BY <1>4, VerdictsTyped DEF WriteActivation, TypeOK
  <2>3. handler' \in HandlerType
    BY <1>4 DEF WriteActivation, TypeOK, HandlerType, Verdicts
  <2>4. phase' \in Phases
    <3>1. handler.review \in Reviews
      BY DEF TypeOK
    <3>2. Written \subseteq Phases
      BY <3>1 DEF Written, PhaseAfter, Reviews, Phases, Built
    <3> QED
      BY <1>4, <3>2 DEF WriteActivation
  <2> QED
    BY <1>4, <2>1, <2>2, <2>3, <2>4
    DEF WriteActivation, TypeOK, WatchType, HandlerType, Windows
<1>5. CASE RefreshRead
  BY <1>5, VerdictsTyped DEF RefreshRead, TypeOK, files
<1>6. CASE RefreshCloseout
  BY <1>6 DEF RefreshCloseout, Goto, TypeOK
<1>7. CASE RefreshBoard
  BY <1>7, IdleTyped DEF RefreshBoard, Goto, TypeOK, HandlerType
<1>8. CASE WriteArtifact
  BY <1>8, IdleTyped DEF WriteArtifact, TypeOK, HandlerType
<1> QED
  BY <1>1, <1>2, <1>3, <1>4, <1>5, <1>6, <1>7, <1>8 DEF Handler

LEMMA OthersTyped ==
  ASSUME TypeOK,
         \/ \E w \in Windows : NewRows(w)
         \/ \E built \in Built : Bundle(built)
         \/ \E review \in Reviews : Approve(review) \/ Drop(review)
         \/ WatchCrash \/ RunnerCrash \/ UNCHANGED vars
  PROVE  TypeOK'
<1>1. CASE \E w \in Windows : NewRows(w)
  BY <1>1 DEF NewRows, TypeOK, files
<1>2. ASSUME NEW built \in Built, Bundle(built) PROVE TypeOK'
  <2>1. watch' \in WatchType
    BY <1>2, OvertakeTyped DEF Bundle, TypeOK, WatchType
  <2>2. phase' \in Phases /\ window' \in Windows /\ closeout' \in Verdicts
    BY <1>2 DEF Bundle, Phases, Windows, Verdicts
  <2> QED
    BY <1>2, <2>1, <2>2 DEF Bundle, TypeOK, WatchType
<1>3. ASSUME NEW review \in Reviews, Approve(review) PROVE TypeOK'
  <2>1. FirstStep[review] \in {"write", "load", "check"}
    BY DEF FirstStep, Reviews
  <2>2. handler' \in HandlerType
    BY <1>3, <2>1, IdleTyped DEF Approve, HandlerType
  <2> QED
    BY <1>3, <2>2 DEF Approve, TypeOK, files, HandlerType
<1>4. ASSUME NEW review \in Reviews, Drop(review) PROVE TypeOK'
  BY <1>4 DEF Drop, TypeOK, files
<1>5. CASE WatchCrash
  BY <1>5, IdleTyped, CanaryBounds DEF WatchCrash, TypeOK, files, WatchType
<1>6. CASE RunnerCrash
  <2>1. crashes' \in 0 .. MaxCrashes
    BY <1>6, CanaryBounds DEF RunnerCrash, TypeOK
  <2>2. handler' \in HandlerType
    BY <1>6, IdleTyped DEF RunnerCrash
  <2>3. disturbed' \in BOOLEAN
    BY <1>6 DEF RunnerCrash, TypeOK
  <2>4. /\ watch' \in WatchType /\ closeout' \in Verdicts
        /\ phase' \in Phases /\ window' \in Windows
    <3>1. CASE UNCHANGED <<phase, window, closeout, watch>>
      BY <3>1 DEF TypeOK, WatchType
    <3>2. CASE /\ phase' = "lost" /\ window' = "pending"
               /\ closeout' = Outlive(closeout) /\ OvertakeWatch
      BY <3>2, VerdictsTyped, OvertakeTyped
      DEF TypeOK, WatchType, Phases, Windows
    <3> QED
      BY <1>6, <3>1, <3>2 DEF RunnerCrash
  <2> QED
    BY <1>6, <2>1, <2>2, <2>3, <2>4 DEF RunnerCrash, TypeOK, WatchType, HandlerType
<1>7. CASE UNCHANGED vars
  BY <1>7 DEF vars, files, TypeOK
<1> QED
  BY <1>1, <1>2, <1>3, <1>4, <1>5, <1>6, <1>7

(* Whatever the two processes read, write and lose of the canary's files,  *)
(* every variable stays in its type.                                       *)
THEOREM TypeCorrect == Spec => []TypeOK
<1>1. TypeOK /\ [Next]_vars => TypeOK'
  BY WatchTyped, HandlerTyped, OthersTyped DEF Next
<1> QED
  BY <1>1, InitTyped, PTL DEF Spec

-----------------------------------------------------------------------------
(* What the safety properties rest on.                                     *)

(* A handoff that passed its assertion still meets a prepared canary:      *)
(* nobody else writes the activation while a handler runs.                 *)
HandoffInv ==
    handler.pc = "write" /\ handler.review = "handoff"
       => phase = "prepared" /\ artifact = "none"

(* A verdict that says ready only of the canary that is active now. *)
Own(verdict) == verdict = "notReady" \/ (verdict = "ready" /\ phase = "active")

(* The closeout file is the present activation's own, unless the runner is *)
(* about to write it or something left over stands in it.                  *)
FileInv == disturbed \/ handler.pc \in {"refresh", "closeout"} \/ Own(closeout)

(* What the watch is about to write is, if nothing overtook it; and so is  *)
(* the closeout file when only the board is left to write.                 *)
WatchInv ==
    /\ watch.pc \in {"closeout", "board"} /\ watch.fresh => Own(watch.row.verdict)
    /\ watch.pc = "board" /\ watch.fresh => Own(closeout)

(* What a handler writes is, and what a closeout review has loaded. *)
HandlerInv ==
    /\ handler.pc = "closeout" => Own(handler.verdict)
    /\ handler.pc = "check" /\ handler.review = "closeout"
         => disturbed \/ Own(handler.verdict)
    /\ handler.pc = "write" /\ handler.review = "closeout"
         => disturbed \/ (phase = "active" /\ handler.verdict = "ready")

OwnInv == FileInv /\ WatchInv /\ HandlerInv

LEMMA FreshDecision == Own(Row.verdict) /\ Own(NoRow.verdict) /\ Own(Verdict(Decision))
BY DEF Own, Row, NoRow, Verdict, Decision

LEMMA FirstSteps ==
  /\ FirstStep["closeout"] = "load" /\ FirstStep["handoff"] = "check"
  /\ \A review \in Reviews : FirstStep[review] \in {"load", "check", "write"}
BY DEF FirstStep, Reviews

LEMMA OvertakenIsStale ==
  ASSUME TypeOK, OvertakeWatch
  PROVE  /\ watch'.pc = watch.pc
         /\ watch.pc \in {"closeout", "board"} => ~watch'.fresh
BY DEF OvertakeWatch, TypeOK

(* The steps that write the activation, and what they write. *)
LEMMA PhaseChanges ==
  ASSUME TypeOK, [Next]_vars, phase' # phase
  PROVE  \/ handler.pc = "idle" /\ phase' \in Built
         \/ handler.pc = "write" /\ phase' = "lost"
         \/ handler.pc = "write" /\ handler.review = "activation" /\ phase' \in Built
         \/ handler.pc = "write" /\ handler.review = "rollback" /\ phase' = "rolled"
         \/ handler.pc = "write" /\ handler.review = "closeout" /\ phase' = "prepared"
         \/ handler.pc = "write" /\ handler.review = "handoff" /\ phase' = "applied"
<1>1. CASE \E built \in Built : Bundle(built)
  BY <1>1 DEF Bundle
<1>2. CASE WriteActivation
  <2>1. handler.review \in Reviews
    BY DEF TypeOK
  <2> QED
    BY <1>2, <2>1 DEF WriteActivation, At, Written, PhaseAfter, Reviews, Built
<1>3. CASE RunnerCrash
  BY <1>3 DEF RunnerCrash, At
<1>4. CASE Watch
  BY <1>4 DEF Watch, WatchRead, WatchWritesCloseout, WatchWritesBoard,
              WatchOffers, WatchNotDue, files
<1>5. CASE Handler /\ ~WriteActivation
  BY <1>5 DEF Handler, LoadDecision, Check, CheckFails, RefreshRead,
              RefreshCloseout, RefreshBoard, WriteArtifact, files
<1>6. CASE \/ \E w \in Windows : NewRows(w)
           \/ \E review \in Reviews : Approve(review) \/ Drop(review)
           \/ WatchCrash \/ UNCHANGED vars
  BY <1>6 DEF NewRows, Approve, Drop, WatchCrash, vars, files
<1> QED
  BY <1>1, <1>2, <1>3, <1>4, <1>5, <1>6 DEF Next

LEMMA HandoffStep ==
  ASSUME TypeOK, HandoffInv, [Next]_vars
  PROVE  HandoffInv'
<1>1. CASE Check
  BY <1>1 DEF Check, Ready, HandoffCandidate, Goto, HandlerIdle, HandoffInv,
              TypeOK, files
<1>2. ASSUME NEW review \in Reviews, Approve(review) PROVE HandoffInv'
  BY <1>2, FirstSteps DEF Approve, HandlerIdle, HandoffInv, TypeOK
<1>3. CASE Handler /\ ~Check
  <2>1. LoadDecision => handler'.pc = "check"
    BY DEF LoadDecision, TypeOK
  <2>2. CheckFails \/ WriteArtifact => handler'.pc = "idle"
    BY DEF CheckFails, WriteArtifact, HandlerIdle
  <2>3. WriteActivation \/ RefreshRead => handler'.pc \in {"refresh", "closeout"}
    BY DEF WriteActivation, RefreshRead, TypeOK
  <2>4. RefreshCloseout \/ RefreshBoard
          => handler'.pc \in {"board", "idle", "artifact"}
    BY DEF RefreshCloseout, RefreshBoard, Goto, HandlerIdle, TypeOK
  <2>5. handler'.pc # "write"
    BY <1>3, <2>1, <2>2, <2>3, <2>4 DEF Handler
  <2> QED
    BY <2>5 DEF HandoffInv
<1>4. CASE Watch
  BY <1>4 DEF Watch, WatchRead, WatchWritesCloseout, WatchWritesBoard,
              WatchOffers, WatchNotDue, files, HandoffInv
<1>5. CASE \E built \in Built : Bundle(built)
  BY <1>5 DEF Bundle, HandoffInv
<1>6. CASE RunnerCrash
  BY <1>6 DEF RunnerCrash, HandlerIdle, HandoffInv
<1>7. CASE \/ \E w \in Windows : NewRows(w)
           \/ \E review \in Reviews : Drop(review)
           \/ WatchCrash \/ UNCHANGED vars
  BY <1>7 DEF NewRows, Drop, WatchCrash, vars, files, HandoffInv
<1> QED
  BY <1>1, <1>2, <1>3, <1>4, <1>5, <1>6, <1>7 DEF Next

(* A handoff is applied only to a prepared canary whose handoff was not    *)
(* applied before, however old the approval is.                            *)
THEOREM HandsOverOnce == Spec => HandsOverPrepared
<1>1. Init => HandoffInv
  BY DEF Init, HandlerIdle, HandoffInv
<1>2. TypeOK /\ HandoffInv /\ [Next]_vars
        => ((phase' # phase /\ phase' = "applied")
              => phase = "prepared" /\ artifact = "none")
  BY PhaseChanges DEF HandoffInv, Built
<1>3. TypeOK /\ HandoffInv /\ [Next]_vars => HandoffInv'
  BY HandoffStep
<1> QED
  BY <1>1, <1>2, <1>3, TypeCorrect, PTL DEF Spec, HandsOverPrepared

-----------------------------------------------------------------------------
LEMMA OwnNewRows ==
  ASSUME TypeOK, OwnInv, \E w \in Windows : NewRows(w)
  PROVE  OwnInv'
BY DEF NewRows, files, OwnInv, FileInv, WatchInv, HandlerInv, Own

LEMMA OwnBundle ==
  ASSUME TypeOK, OwnInv, \E built \in Built : Bundle(built)
  PROVE  OwnInv'
<1>1. handler.pc = "idle" /\ handler' = handler /\ closeout' = "notReady"
      /\ OvertakeWatch
  BY DEF Bundle
<1>2. FileInv' /\ HandlerInv'
  BY <1>1 DEF FileInv, HandlerInv, Own
<1>3. WatchInv'
  BY <1>1, OvertakenIsStale DEF WatchInv
<1> QED
  BY <1>2, <1>3 DEF OwnInv

LEMMA OwnWatch ==
  ASSUME TypeOK, OwnInv, Watch
  PROVE  OwnInv'
<1>1. CASE WatchRead
  <2>1. PICK row \in {Row, NoRow} :
          watch' = [pc |-> "closeout", row |-> row, fresh |-> TRUE]
    BY <1>1 DEF WatchRead
  <2>2. Own(row.verdict) /\ watch'.row = row /\ watch'.pc = "closeout"
    BY <2>1, FreshDecision
  <2> QED
    BY <1>1, <2>2 DEF WatchRead, files, OwnInv, FileInv, WatchInv, HandlerInv, Own
<1>2. CASE WatchWritesCloseout
  BY <1>2 DEF WatchWritesCloseout, TypeOK, OwnInv, FileInv, WatchInv, HandlerInv, Own
<1>3. CASE WatchWritesBoard
  BY <1>3 DEF WatchWritesBoard, OwnInv, FileInv, WatchInv, HandlerInv, Own
<1>4. CASE WatchOffers \/ WatchNotDue
  BY <1>4 DEF WatchOffers, WatchNotDue, WatchIdle, files,
              OwnInv, FileInv, WatchInv, HandlerInv, Own
<1> QED
  BY <1>1, <1>2, <1>3, <1>4 DEF Watch

LEMMA OwnHandler ==
  ASSUME TypeOK, OwnInv, Handler
  PROVE  OwnInv'
<1>1. CASE LoadDecision
  BY <1>1 DEF LoadDecision, At, files, TypeOK, OwnInv, FileInv, WatchInv, HandlerInv, Own
<1>2. CASE Check
  BY <1>2 DEF Check, Ready, CloseoutReady, DecisionReady, At, Goto, HandlerIdle,
              files, TypeOK, OwnInv, FileInv, WatchInv, HandlerInv, Own
<1>3. CASE CheckFails
  BY <1>3 DEF CheckFails, At, HandlerIdle, files,
              OwnInv, FileInv, WatchInv, HandlerInv, Own
<1>4. CASE WriteActivation
  <2>1. handler'.pc = "refresh" /\ OvertakeWatch
    BY <1>4 DEF WriteActivation, TypeOK
  <2> QED
    BY <2>1, OvertakenIsStale DEF OwnInv, FileInv, WatchInv, HandlerInv
<1>5. CASE RefreshRead
  <2>1. /\ handler'.pc = "closeout" /\ handler'.verdict = Verdict(Decision)
        /\ phase' = phase /\ watch' = watch /\ closeout' = closeout
    BY <1>5 DEF RefreshRead, files, TypeOK
  <2>2. Own(handler.verdict)'
    BY <2>1, FreshDecision DEF Own
  <2> QED
    BY <2>1, <2>2 DEF OwnInv, FileInv, WatchInv, HandlerInv, Own
<1>6. CASE RefreshCloseout
  BY <1>6 DEF RefreshCloseout, At, Goto, TypeOK, OwnInv, FileInv, WatchInv, HandlerInv, Own
<1>7. CASE RefreshBoard
  BY <1>7 DEF RefreshBoard, At, Goto, HandlerIdle, TypeOK,
              OwnInv, FileInv, WatchInv, HandlerInv, Own
<1>8. CASE WriteArtifact
  BY <1>8 DEF WriteArtifact, At, HandlerIdle, OwnInv, FileInv, WatchInv, HandlerInv, Own
<1> QED
  BY <1>1, <1>2, <1>3, <1>4, <1>5, <1>6, <1>7, <1>8 DEF Handler

LEMMA OwnReviewer ==
  ASSUME TypeOK, OwnInv, NEW review \in Reviews, Approve(review) \/ Drop(review)
  PROVE  OwnInv'
<1>1. CASE Approve(review)
  <2>1. /\ handler'.pc \in {"load", "check", "write"} /\ handler'.review = review
        /\ handler.pc = "idle" /\ UNCHANGED <<files, watch, disturbed>>
    BY <1>1, FirstSteps DEF Approve, HandlerIdle
  <2>2. review = "closeout" => handler'.pc = "load"
    BY <1>1, FirstSteps DEF Approve, HandlerIdle
  <2> QED
    BY <2>1, <2>2 DEF files, OwnInv, FileInv, WatchInv, HandlerInv, Own
<1>2. CASE Drop(review)
  BY <1>2 DEF Drop, files, OwnInv, FileInv, WatchInv, HandlerInv, Own
<1> QED
  BY <1>1, <1>2

LEMMA OwnCrash ==
  ASSUME TypeOK, OwnInv, WatchCrash \/ RunnerCrash
  PROVE  OwnInv'
<1>1. CASE WatchCrash
  BY <1>1 DEF WatchCrash, WatchIdle, files, OwnInv, FileInv, WatchInv, HandlerInv, Own
<1>2. CASE RunnerCrash /\ UNCHANGED <<phase, window, closeout, watch>>
              /\ disturbed' = (disturbed \/ handler.pc \in {"refresh", "closeout", "board"})
  BY <1>2 DEF RunnerCrash, HandlerIdle, OwnInv, FileInv, WatchInv, HandlerInv, Own
<1>3. CASE RunnerCrash /\ disturbed' = TRUE /\ OvertakeWatch
  BY <1>3, OvertakenIsStale
  DEF RunnerCrash, HandlerIdle, OwnInv, FileInv, WatchInv, HandlerInv
<1> QED
  BY <1>1, <1>2, <1>3 DEF RunnerCrash

(* A closeout prepares the handoff of the active canary whose own window   *)
(* was ready, unless a left-over refresh stands in the files.              *)
THEOREM ClosesOwn == Spec => ClosesOutOwnWindow
<1>1. Init => OwnInv
  BY DEF Init, HandlerIdle, WatchIdle, OwnInv, FileInv, WatchInv, HandlerInv, Own
<1>2. TypeOK /\ OwnInv /\ [Next]_vars
        => ((phase' # phase /\ phase' = "prepared")
              => disturbed \/ (phase = "active" /\ handler.verdict = "ready"))
  BY PhaseChanges DEF OwnInv, HandlerInv, Built
<1>3. TypeOK /\ OwnInv /\ [Next]_vars => OwnInv'
  <2>1. UNCHANGED vars /\ OwnInv => OwnInv'
    BY DEF vars, files, OwnInv, FileInv, WatchInv, HandlerInv, Own
  <2> QED
    BY <2>1, OwnNewRows, OwnBundle, OwnWatch, OwnHandler, OwnReviewer, OwnCrash DEF Next
<1> QED
  BY <1>1, <1>2, <1>3, TypeCorrect, PTL DEF Spec, ClosesOutOwnWindow

=============================================================================
