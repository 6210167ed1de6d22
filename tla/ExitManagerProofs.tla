------------------------- MODULE ExitManagerProofs -------------------------
(***************************************************************************)
(* Theorems about the exit manager, for every configuration of thresholds, *)
(* both directions and every range of the market:                          *)
(*                                                                         *)
(*  - TypeCorrect: every variable keeps its type;                          *)
(*  - ExtremeIsClosed: no pass holds a position in an extreme loss;        *)
(*  - WaitEnds: the adverse wait is bounded by its longest value;          *)
(*  - PartOnce: one part is closed per memory of the position;             *)
(*  - StopExists: a position taken for protected has a stop;               *)
(*  - StopTightens: the stop of an open position is never taken back;      *)
(*  - KeepsCare: the manager implements PositionCare;                      *)
(*  - RunnerSecured: an exit is only given up for a secured runner.        *)
(***************************************************************************)
EXTENDS ExitManager, TLAPS

LEMMA Thresholded ==
  /\ Config.volume \in Nat /\ Config.part \in Nat /\ Config.buffer \in Nat
  /\ Config.safety \in Nat /\ Config.net \in Nat
  /\ Config.adverseMove \in Nat /\ Config.adverseLoss \in Nat
  /\ Config.extremeLoss \in Nat /\ Config.extremeMove \in Nat
  /\ Config.runnerMove \in Nat
  /\ Config.weakHold \in Nat /\ Config.fullHold \in Nat
  /\ Config.lateAge \in Nat /\ Config.weakPeak \in Nat
  /\ Config.waitMin \in Nat /\ Config.waitMax \in Nat
  /\ Config.waitMaxWeak \in Nat /\ Config.waitMaxConfirmed \in Nat
  /\ Config.recovery \in Nat
  /\ Config.stopProfit \in Nat /\ Config.tightProfit \in Nat
  /\ Config.lockPeak \in Nat /\ Config.tightLockPeak \in Nat
  /\ Config.partMove \in Nat /\ Config.partProfit \in Nat
  /\ MaxMove \in Nat
BY ConfigAssumption DEF Thresholds

LEMMA MaxInt ==
  ASSUME NEW a \in Int, NEW b \in Int
  PROVE  /\ MaxOf(a, b) \in Int /\ MaxOf(a, b) \in {a, b}
         /\ MaxOf(a, b) >= a /\ MaxOf(a, b) >= b
         /\ MinOf(a, b) \in Int /\ MinOf(a, b) \in {a, b}
         /\ MinOf(a, b) <= a /\ MinOf(a, b) <= b
BY DEF MaxOf, MinOf

LEMMA Bottoms == NoStop \in Int /\ NoPeak \in Int
BY Thresholded DEF NoStop, NoPeak

LEMMA ProfitInt ==
  ASSUME NEW v \in Views
  PROVE  /\ Profit(v) \in Int /\ v.fav \in Int /\ v.vol \in Nat
         /\ v.target \in Int
BY Thresholded DEF Profit, Views, Moves

LEMMA TargetInt ==
  ASSUME NEW v \in Views, NEW tight \in BOOLEAN, TypeOK
  PROVE  StopUpTarget(v, tight) \in Int
<1>1. v.fav \in Int /\ v.fav \div 2 \in Int
  BY ProfitInt
<1>2. MaxOf(Config.buffer, v.fav \div 2) \in Int /\ Config.buffer \in Int
  BY <1>1, Thresholded DEF MaxOf
<1> QED
  BY <1>2, Bottoms DEF StopUpTarget

LEMMA StopInt ==
  ASSUME TypeOK, NEW target \in Int
  PROVE  StopPrice(target) \in Int
BY Thresholded DEF StopPrice, TypeOK, Moves, MinOf

LEMMA MoveStopTyped ==
  ASSUME TypeOK, NEW target \in Int, MoveStop(target)
  PROVE  /\ stop' \in Int /\ stop' > stop /\ target # NoStop
         /\ fav' = fav /\ vol' = vol /\ vol > 0
BY StopInt DEF MoveStop, CanMoveStop, TypeOK

LEMMA ClosePartTyped ==
  ASSUME TypeOK, ClosePart
  PROVE  /\ vol' \in 0 .. Config.volume /\ vol' <= vol
         /\ stop' \in Int /\ fav' = fav
         /\ vol' > 0 => stop' = stop
BY Bottoms, Thresholded DEF ClosePart, TypeOK, MaxOf

LEMMA WaitTyped ==
  ASSUME TypeOK, NEW v \in Views, NEW extreme \in BOOLEAN
  PROVE  /\ WaitSeen(v) \in [on : {TRUE}, waited : 0 .. Config.waitMax, worst : Int]
         /\ WaitSeen(v).waited = IF wait.on THEN wait.waited ELSE 0
         /\ WaitAfter(v, extreme) \in
              [on : BOOLEAN, waited : 0 .. Config.waitMax, worst : Int]
<1>1. NoWait \in [on : BOOLEAN, waited : 0 .. Config.waitMax, worst : Int]
  BY Thresholded DEF NoWait
<1>2. /\ wait \in [on : BOOLEAN, waited : 0 .. Config.waitMax, worst : Int]
      /\ Profit(v) \in Int
  BY ProfitInt DEF TypeOK
<1>3. MinOf(wait.worst, Profit(v)) \in Int
  BY <1>2, MaxInt
<1>4. 0 \in 0 .. Config.waitMax
  BY Thresholded
<1>5. /\ WaitSeen(v) \in [on : {TRUE}, waited : 0 .. Config.waitMax, worst : Int]
      /\ WaitSeen(v).waited = IF wait.on THEN wait.waited ELSE 0
  BY <1>2, <1>3, <1>4 DEF WaitSeen
<1> QED
  BY <1>1, <1>5 DEF WaitAfter

-----------------------------------------------------------------------------
(* Type correctness.                                                       *)

(* Every pass ends, and every memory is cleared, with typed values.        *)
LEMMA EndTyped ==
  ASSUME EndPass
  PROVE  /\ pc' = "idle" /\ view' \in Views /\ kind' \in Kinds
         /\ view'.hold = FALSE
<1>1. 0 \in Moves
  BY Thresholded DEF Moves
<1> QED
  BY <1>1, Bottoms DEF EndPass, NoView, Views, Kinds

LEMMA ForgotTyped ==
  ASSUME ForgetPosition
  PROVE  /\ peak' \in Int /\ partialDone' = FALSE /\ beMoved' = FALSE
         /\ wait' \in [on : BOOLEAN, waited : 0 .. Config.waitMax, worst : Int]
         /\ parts' = 0 /\ adverseFor' = -1
         /\ parts' \in Nat /\ adverseFor' \in -1 .. Config.waitMax
BY Bottoms, Thresholded DEF ForgetPosition, NoWait

(* The kinds the stages may select. *)
LEMMA KindsTyped ==
  ASSUME NEW v, NEW chosen, NEW young, NEW confirmed
  PROVE  /\ HardGuardKinds(v) \subseteq Kinds
         /\ ManagedKinds(v, chosen, young, confirmed) \subseteq Kinds
<1>1. AdverseKinds(v) \subseteq Kinds
  BY DEF AdverseKinds, Kinds
<1>2. HardGuardKinds(v) \subseteq Kinds
  BY <1>1 DEF HardGuardKinds, Kinds
<1>3. /\ EmergencyKinds(v, chosen) \subseteq Kinds
      /\ ProtectKinds(v, chosen, young, confirmed) \subseteq Kinds
      /\ AdverseStageKinds(v, chosen) \subseteq Kinds
      /\ MidKinds(v, chosen, young, confirmed) \subseteq Kinds
      /\ {"none"} \subseteq Kinds
  BY DEF EmergencyKinds, ProtectKinds, AdverseStageKinds, MidKinds, Kinds
<1>4. ManagedKinds(v, chosen, young, confirmed) \subseteq Kinds
  BY <1>3 DEF ManagedKinds
<1> QED
  BY <1>2, <1>4

LEMMA RunnerStopInt ==
  ASSUME NEW v \in Views
  PROVE  RunnerStop(v) \in Int
BY ProfitInt, Thresholded DEF RunnerStop, MaxOf, MinOf

LEMMA SelectTyped ==
  ASSUME TypeOK, NEW k \in Kinds, Select(k)
  PROVE  /\ kind' = k /\ pc' \in {"close", "runnerPart", "runnerStop"}
         /\ view' \in Views /\ view'.hold = view.hold
         /\ view'.fav = view.fav /\ view'.vol = view.vol
<1>1. view \in Views /\ RunnerStop(view) \in Int
  BY RunnerStopInt DEF TypeOK
<1> QED
  BY <1>1 DEF Select, Views

LEMMA AnswerTyped ==
  ASSUME NEW closed \in BOOLEAN, Answer(closed)
  PROVE  /\ reverse' \in BOOLEAN /\ fav' = fav /\ age' = age
         /\ EndPass /\ ForgetPosition
BY DEF Answer

LEMMA InitTyped == Init => TypeOK
<1>1. 0 \in Moves /\ NoView \in Views
  BY Thresholded, Bottoms DEF Moves, NoView, Views
<1>2. NoWait \in [on : BOOLEAN, waited : 0 .. Config.waitMax, worst : Int]
  BY Thresholded DEF NoWait
<1>3. /\ 0 \in 0 .. Config.lateAge /\ Config.volume \in 0 .. Config.volume
      /\ -1 \in -1 .. Config.waitMax
  BY Thresholded
<1> SUFFICES ASSUME Init PROVE TypeOK
  OBVIOUS
<1>4. /\ fav \in Moves /\ view \in Views /\ stop \in Int /\ peak \in Int
      /\ wait \in [on : BOOLEAN, waited : 0 .. Config.waitMax, worst : Int]
  BY <1>1, <1>2, Bottoms DEF Init
<1>5. /\ vol \in 0 .. Config.volume /\ age \in 0 .. Config.lateAge
      /\ parts \in Nat /\ adverseFor \in -1 .. Config.waitMax
  BY <1>3 DEF Init
<1>6. /\ pc \in {"idle", "guards", "recovery", "close"} \cup Stages
      /\ kind \in Kinds /\ reverse \in BOOLEAN
      /\ partialDone \in BOOLEAN /\ beMoved \in BOOLEAN
  BY DEF Init, Kinds
<1> QED
  BY <1>4, <1>5, <1>6 DEF TypeOK

LEMMA TypeStep == TypeOK /\ [Next]_vars => TypeOK'
<1> SUFFICES ASSUME TypeOK, [Next]_vars PROVE TypeOK'
  OBVIOUS
<1> USE DEF TypeOK
<1>w. view \in Views
  OBVIOUS
<1>1. CASE StartPass
  <2>1. fav * vol \in Int
    BY <1>1, Thresholded DEF Moves
  <2>2. peak' \in Int
    BY <1>1, <2>1 DEF StartPass, MaxOf
  <2>3. view' \in Views
    <3>1. NoView \in Views /\ vol \in Nat
      BY Thresholded, Bottoms DEF NoView, Views, Moves
    <3> QED
      BY <1>1, <3>1 DEF StartPass, Views
  <2> QED
    BY <1>1, <2>2, <2>3 DEF StartPass, broker, ghosts
<1>2. CASE HardGuards
  <2>1. wait' \in [on : BOOLEAN, waited : 0 .. Config.waitMax, worst : Int]
    BY <1>2, WaitTyped, ExtremeLoss(view) \in BOOLEAN DEF HardGuards, ExtremeLoss
  <2>2. kind' \in Kinds
    BY <1>2, KindsTyped DEF HardGuards
  <2>3. adverseFor' \in -1 .. Config.waitMax
    BY <1>2, Thresholded DEF HardGuards, MaxOf
  <2> QED
    BY <1>2, <2>1, <2>2, <2>3 DEF HardGuards, broker
<1>3. CASE RecoveryPlan
  <2>1. kind' \in Kinds /\ view' \in Views /\ pc' \in {"close", "part"}
    BY <1>3 DEF RecoveryPlan, Kinds, Views
  <2> QED
    BY <1>3, <2>1 DEF RecoveryPlan, broker, memory, ghosts, Stages
<1>4. CASE TakePart
  <2>1. /\ vol' \in 0 .. Config.volume /\ stop' \in Int /\ fav' \in Moves
        /\ partialDone' \in BOOLEAN /\ parts' \in Nat
    <3>1. CASE ClosePart /\ partialDone' = TRUE /\ parts' = parts + 1
      BY <3>1, ClosePartTyped
    <3>2. CASE UNCHANGED <<broker, partialDone, parts>>
      BY <3>2 DEF broker
    <3> QED
      BY <1>4, <3>1, <3>2 DEF TakePart
  <2> QED
    BY <1>4, <2>1 DEF TakePart, Stages
<1>5. CASE MoveToBreakEven
  <2>1. /\ vol' \in 0 .. Config.volume /\ stop' \in Int /\ fav' \in Moves
        /\ beMoved' \in BOOLEAN
    <3>1. CASE MoveStop(Config.buffer) /\ beMoved' = TRUE
      <4>1. Config.buffer \in Int
        BY Thresholded
      <4> QED
        BY <3>1, <4>1, MoveStopTyped
    <3>2. CASE UNCHANGED <<broker, beMoved>>
      BY <3>2 DEF broker
    <3> QED
      BY <1>5, <3>1, <3>2 DEF MoveToBreakEven
  <2> QED
    BY <1>5, <2>1 DEF MoveToBreakEven, Stages, ghosts
<1>6. CASE StopUp
  <2>1. /\ vol' \in 0 .. Config.volume /\ stop' \in Int /\ fav' \in Moves
        /\ beMoved' \in BOOLEAN /\ view' \in Views
    <3>1. PICK tight \in BOOLEAN :
            /\ view' = [view EXCEPT !.target = StopUpTarget(view, tight)]
            /\ \/ MoveStop(StopUpTarget(view, tight)) /\ beMoved' = TRUE
               \/ UNCHANGED <<broker, beMoved>>
      BY <1>6 DEF StopUp
    <3>2. StopUpTarget(view, tight) \in Int
      BY TargetInt
    <3> QED
      BY <3>1, <3>2, MoveStopTyped DEF broker, Views
  <2> QED
    BY <1>6, <2>1 DEF StopUp, Stages, ghosts
<1>7. CASE HoldBack
  <2>1. wait' \in [on : BOOLEAN, waited : 0 .. Config.waitMax, worst : Int]
    BY <1>7, WaitTyped, ExtremeAdverse(view) \in BOOLEAN
       DEF HoldBack, ExtremeAdverse, ExtremeLoss
  <2> QED
    BY <1>7, <2>1, EndTyped DEF HoldBack, broker, ghosts
<1>8. ASSUME NEW chosen, NotHeldBack(chosen)
      PROVE  wait' \in [on : BOOLEAN, waited : 0 .. Config.waitMax, worst : Int]
  BY <1>8, WaitTyped, ExtremeAdverse(view) \in BOOLEAN
     DEF NotHeldBack, ExtremeAdverse, ExtremeLoss
<1>9. CASE ManagedExit
  <2>1. /\ kind' \in Kinds /\ view' \in Views
        /\ pc' \in {"close", "runnerPart", "runnerStop"}
    BY <1>9, SelectTyped, KindsTyped DEF ManagedExit
  <2> QED
    BY <1>8, <1>9, <2>1 DEF ManagedExit, broker, ghosts, Stages
<1>10. CASE NoManagedExit
  <2>1. kind' \in Kinds /\ view' \in Views /\ pc' \in {"idle", "close"}
    BY <1>10, EndTyped DEF NoManagedExit, Kinds
  <2> QED
    BY <1>8, <1>10, <2>1 DEF NoManagedExit, broker, ghosts
<1>11. CASE RunnerPart
  <2>1. /\ vol' \in 0 .. Config.volume /\ stop' \in Int /\ fav' \in Moves
        /\ partialDone' \in BOOLEAN /\ parts' \in Nat /\ view' \in Views
    <3>1. CASE /\ ClosePart /\ partialDone' = TRUE /\ parts' = parts + 1
               /\ view' = [view EXCEPT !.hold = TRUE]
      <4>1. [view EXCEPT !.hold = TRUE] \in Views
        BY DEF Views
      <4> QED
        BY <3>1, <4>1, ClosePartTyped
    <3>2. CASE UNCHANGED <<broker, partialDone, parts, view>>
      BY <3>2 DEF broker
    <3> QED
      BY <1>11, <3>1, <3>2 DEF RunnerPart
  <2> QED
    BY <1>11, <2>1 DEF RunnerPart, Stages
<1>12. CASE RunnerStopUp
  <2>1. /\ vol' \in 0 .. Config.volume /\ stop' \in Int /\ fav' \in Moves
        /\ beMoved' \in BOOLEAN
    BY <1>12, MoveStopTyped, ProfitInt DEF RunnerStopUp, broker
  <2>2. kind' \in Kinds /\ view' \in Views /\ pc' \in {"idle", "close"}
    BY <1>12, EndTyped DEF RunnerStopUp
  <2> QED
    BY <1>12, <2>1, <2>2 DEF RunnerStopUp, ghosts
<1>13. CASE CloseAccepted \/ CloseRejected \/ NotSeen
  <2>1. vol' \in 0 .. Config.volume /\ stop' \in Int
    <3>1. 0 \in 0 .. Config.volume
      BY Thresholded
    <3> QED
      BY <1>13, <3>1, Bottoms DEF CloseAccepted, CloseRejected, NotSeen
  <2>2. /\ reverse' \in BOOLEAN /\ fav' = fav /\ age' = age
        /\ EndPass /\ ForgetPosition
    BY <1>13, AnswerTyped DEF CloseAccepted, CloseRejected, NotSeen
  <2> QED
    BY <2>1, <2>2, EndTyped, ForgotTyped
<1>14. CASE Market
  BY <1>14, Thresholded, Bottoms DEF Market, memory, ghosts
<1>15. CASE Tick
  <2>1. age' \in 0 .. Config.lateAge
    BY <1>15, Thresholded DEF Tick, MinOf
  <2>2. adverseFor' \in -1 .. Config.waitMax
    BY <1>15, Thresholded DEF Tick, MinOf
  <2>3. MinOf(wait.waited + 1, Config.waitMax) \in 0 .. Config.waitMax
    BY Thresholded DEF MinOf
  <2>4. wait' \in [on : BOOLEAN, waited : 0 .. Config.waitMax, worst : Int]
    BY <1>15, <2>3 DEF Tick
  <2> QED
    BY <1>15, <2>1, <2>2, <2>4 DEF Tick, broker
<1>16. CASE Restart
  BY <1>16, EndTyped, ForgotTyped DEF Restart, broker
<1>17. CASE Open
  <2>1. 0 \in Moves /\ Config.volume \in 0 .. Config.volume /\ 0 \in 0 .. Config.lateAge
    BY Thresholded DEF Moves
  <2> QED
    BY <1>17, <2>1, EndTyped, ForgotTyped, Bottoms DEF Open
<1>18. CASE UNCHANGED vars
  BY <1>18 DEF vars, broker, memory, ghosts
<1> QED
  BY <1>1, <1>2, <1>3, <1>4, <1>5, <1>6, <1>7, <1>9, <1>10, <1>11, <1>12,
     <1>13, <1>14, <1>15, <1>16, <1>17, <1>18 DEF Next, Manage

(* Every variable keeps its type: volumes stay below the filled one, waits *)
(* below the longest wait, and stops, targets and peaks are prices.        *)
THEOREM TypeCorrect == Spec => []TypeOK
<1>1. Init => TypeOK
  BY InitTyped
<1>2. TypeOK /\ [Next]_vars => TypeOK'
  BY TypeStep
<1> QED
  BY <1>1, <1>2, PTL DEF Spec

-----------------------------------------------------------------------------
(* Extreme losses are closed.                                              *)

LEMMA ExtremeSelected ==
  ASSUME NEW v \in Views, ExtremeLoss(v)
  PROVE  "none" \notin HardGuardKinds(v)
<1>1. AdverseRisk(v)
  BY ProfitInt, Thresholded, ConfigAssumption DEF ExtremeLoss, AdverseRisk
<1>2. ~DelayAdverse(v, ExtremeLoss(v))
  BY DEF DelayAdverse, NoReasonToWait
<1>3. "none" \notin AdverseKinds(v)
  BY DEF AdverseKinds
<1> QED
  BY <1>1, <1>2, <1>3 DEF HardGuardKinds

(* A pass that goes on with the same snapshot keeps what it knows of it.   *)
LEMMA SnapshotKept ==
  ASSUME ExtremeNeverHeld, pc \in Stages \cup {"recovery"},
         view'.fav = view.fav, view'.vol = view.vol
  PROVE  ExtremeNeverHeld'
BY DEF ExtremeNeverHeld, ExtremeLoss, Profit

LEMMA ExtremeStep ==
  ASSUME TypeOK, ExtremeNeverHeld, [Next]_vars
  PROVE  ExtremeNeverHeld'
<1>t. view \in Views
  BY DEF TypeOK
<1>1. CASE HardGuards
  <2>1. view' = view
    BY <1>1 DEF HardGuards
  <2>2. CASE kind' = "none"
    <3>1. ~ExtremeLoss(view)
      BY <1>1, <1>t, <2>2, ExtremeSelected DEF HardGuards
    <3> QED
      BY <2>1, <3>1 DEF ExtremeNeverHeld, ExtremeLoss, Profit
  <2>3. CASE kind' # "none"
    BY <1>1, <2>3 DEF HardGuards, ExtremeNeverHeld, Stages
  <2> QED
    BY <2>2, <2>3
<1>2. CASE RecoveryPlan
  <2>1. view'.fav = view.fav /\ view'.vol = view.vol /\ pc = "recovery"
    BY <1>2, <1>t DEF RecoveryPlan, Views
  <2> QED
    BY <2>1, SnapshotKept
<1>3. CASE TakePart \/ MoveToBreakEven
  <2>1. view' = view /\ pc \in Stages
    BY <1>3 DEF TakePart, MoveToBreakEven, Stages
  <2> QED
    BY <2>1, SnapshotKept
<1>4. CASE StopUp \/ RunnerPart
  <2>1. view'.fav = view.fav /\ view'.vol = view.vol /\ pc \in Stages
    BY <1>4, <1>t DEF StopUp, RunnerPart, Stages, Views
  <2> QED
    BY <2>1, SnapshotKept
<1>5. CASE ManagedExit
  <2>1. view'.fav = view.fav /\ view'.vol = view.vol
    BY <1>5, SelectTyped, KindsTyped DEF ManagedExit
  <2>2. pc \in Stages
    BY <1>5 DEF ManagedExit, NotHeldBack, Stages
  <2> QED
    BY <2>1, <2>2, SnapshotKept
<1>6. CASE StartPass \/ HoldBack \/ NoManagedExit \/ RunnerStopUp
  <2>1. pc' \in {"guards", "idle", "close"}
    BY <1>6, EndTyped DEF StartPass, HoldBack, NoManagedExit, RunnerStopUp
  <2> QED
    BY <2>1 DEF ExtremeNeverHeld, Stages
<1>7. CASE CloseAccepted \/ CloseRejected \/ NotSeen \/ Restart \/ Open
  <2>1. pc' = "idle"
    BY <1>7, EndTyped DEF CloseAccepted, CloseRejected, NotSeen, Restart, Open, Answer
  <2> QED
    BY <2>1 DEF ExtremeNeverHeld, Stages
<1>8. CASE Market \/ Tick \/ UNCHANGED vars
  <2>1. pc' = pc /\ view' = view
    BY <1>8 DEF Market, Tick, vars
  <2> QED
    BY <2>1 DEF ExtremeNeverHeld, ExtremeLoss, Profit
<1> QED
  BY <1>1, <1>2, <1>3, <1>4, <1>5, <1>6, <1>7, <1>8 DEF Next, Manage

(* No wait, recovery plan or routed stage keeps a position whose loss the  *)
(* pass has seen to be extreme: it is sent to the close order first.       *)
THEOREM ExtremeIsClosed == Spec => []ExtremeNeverHeld
<1>1. Init => ExtremeNeverHeld
  BY DEF Init, ExtremeNeverHeld, Stages
<1>2. TypeOK /\ ExtremeNeverHeld /\ [Next]_vars => ExtremeNeverHeld'
  BY ExtremeStep
<1> QED
  BY <1>1, <1>2, TypeCorrect, PTL DEF Spec

-----------------------------------------------------------------------------
(* Parts, stops and runners.                                               *)

(* A part that was closed is remembered; the runner stage only closes one  *)
(* when none was, and finds the position held back only because of it.     *)
PartInv ==
    /\ parts = 0 \/ (partialDone /\ parts = 1)
    /\ pc = "runnerPart" => parts = 0 /\ ~view.hold
    /\ pc = "runnerStop" /\ view.hold => parts > 0

StopInv == stop >= NoStop /\ MovedStopExists

LEMMA PartStep ==
  ASSUME TypeOK, PartInv, [Next]_vars
  PROVE  PartInv'
<1>t. view \in Views /\ parts \in Nat
  BY DEF TypeOK
<1>1. CASE TakePart
  <2>1. pc' \in {"beStop", "stopUp"}
    BY <1>1 DEF TakePart
  <2>2. parts' = 0 \/ (partialDone' /\ parts' = 1)
    BY <1>1, <1>t DEF TakePart, PartInv, PartialWanted
  <2> QED
    BY <2>1, <2>2 DEF PartInv
<1>2. CASE ManagedExit
  <2>1. PICK k \in Kinds : Select(k)
    BY <1>2, KindsTyped DEF ManagedExit
  <2>2. ~view.hold /\ ~view'.hold
    BY <1>2, <2>1, SelectTyped DEF ManagedExit, NotHeldBack
  <2>3. pc' = "runnerPart" => ~partialDone
    BY <2>1 DEF Select, PartialWanted
  <2>4. parts' = parts /\ partialDone' = partialDone
    BY <1>2 DEF ManagedExit, ghosts
  <2> QED
    BY <2>2, <2>3, <2>4 DEF PartInv
<1>3. CASE RunnerPart
  <2>1. parts = 0 /\ ~view.hold /\ pc' = "runnerStop"
    BY <1>3 DEF RunnerPart, PartInv
  <2> QED
    BY <1>3, <2>1, <1>t DEF RunnerPart, PartInv
<1>4. CASE /\ parts' = parts /\ partialDone' = partialDone
           /\ pc' \notin {"runnerPart", "runnerStop"}
  BY <1>4 DEF PartInv
<1>5. CASE StartPass \/ HardGuards \/ RecoveryPlan \/ MoveToBreakEven \/ StopUp
  BY <1>4, <1>5 DEF StartPass, HardGuards, RecoveryPlan, MoveToBreakEven,
     StopUp, memory, ghosts
<1>6. CASE HoldBack \/ NoManagedExit \/ RunnerStopUp
  <2>1. pc' \in {"idle", "close"}
    BY <1>6, EndTyped DEF HoldBack, NoManagedExit, RunnerStopUp
  <2> QED
    BY <1>4, <1>6, <2>1 DEF HoldBack, NoManagedExit, RunnerStopUp, ghosts
<1>7. CASE CloseAccepted \/ CloseRejected \/ NotSeen \/ Restart \/ Open
  <2>1. pc' = "idle" /\ parts' = 0
    BY <1>7, EndTyped, ForgotTyped
       DEF CloseAccepted, CloseRejected, NotSeen, Restart, Open, Answer
  <2> QED
    BY <2>1 DEF PartInv
<1>8. CASE Market \/ Tick \/ UNCHANGED vars
  BY <1>8 DEF Market, Tick, vars, memory, ghosts, PartInv
<1> QED
  BY <1>1, <1>2, <1>3, <1>5, <1>6, <1>7, <1>8 DEF Next, Manage

LEMMA StopStep ==
  ASSUME TypeOK, StopInv, [Next]_vars
  PROVE  /\ StopInv'
         /\ vol > 0 /\ vol' > 0 => stop' >= stop
<1>t. stop \in Int /\ vol \in Int /\ view \in Views
  BY Thresholded DEF TypeOK
<1> DEFINE Kept == /\ StopInv'
                   /\ vol > 0 /\ vol' > 0 => stop' >= stop
<1>1. CASE UNCHANGED <<broker, beMoved>>
  BY <1>1, <1>t DEF broker, StopInv, MovedStopExists, NoStop
<1>2. ASSUME NEW target \in Int, MoveStop(target)
      PROVE  Kept
  BY <1>2, <1>t, MoveStopTyped, Bottoms DEF StopInv, MovedStopExists, NoStop
<1>3. ASSUME ClosePart, beMoved' = beMoved
      PROVE  Kept
  BY <1>3, <1>t, ClosePartTyped, Bottoms
     DEF StopInv, MovedStopExists, NoStop, ClosePart
<1>4. CASE TakePart \/ RunnerPart
  BY <1>1, <1>3, <1>4 DEF TakePart, RunnerPart, broker
<1>5. CASE MoveToBreakEven \/ RunnerStopUp
  <2>1. Config.buffer \in Int /\ view.target \in Int
    BY <1>t, Thresholded, ProfitInt
  <2> QED
    BY <1>1, <1>2, <1>5, <2>1 DEF MoveToBreakEven, RunnerStopUp
<1>6. CASE StopUp
  <2>1. PICK tight \in BOOLEAN :
           \/ MoveStop(StopUpTarget(view, tight)) /\ beMoved' = TRUE
           \/ UNCHANGED <<broker, beMoved>>
    BY <1>6 DEF StopUp
  <2> QED
    BY <1>1, <1>2, <1>t, <2>1, TargetInt
<1>7. CASE StartPass \/ HardGuards \/ RecoveryPlan \/ HoldBack
           \/ ManagedExit \/ NoManagedExit
  BY <1>1, <1>7 DEF StartPass, HardGuards, RecoveryPlan, HoldBack,
     ManagedExit, NoManagedExit, memory
<1>8. CASE CloseAccepted \/ CloseRejected \/ NotSeen
  <2>1. beMoved' = FALSE
    BY <1>8, ForgotTyped DEF CloseAccepted, CloseRejected, NotSeen, Answer
  <2>2. \/ vol' = 0 /\ stop' = NoStop
        \/ vol' = vol /\ stop' = stop
    BY <1>8 DEF CloseAccepted, CloseRejected, NotSeen
  <2> QED
    BY <1>t, <2>1, <2>2, Bottoms DEF StopInv, MovedStopExists, NoStop
<1>9. CASE Market
  BY <1>9, <1>t, Bottoms DEF Market, memory, StopInv, MovedStopExists, NoStop
<1>10. CASE Tick \/ UNCHANGED vars
  BY <1>1, <1>10 DEF Tick, vars, memory, broker
<1>11. CASE Restart
  <2>1. beMoved' = FALSE /\ stop' = stop
    BY <1>11, ForgotTyped DEF Restart, broker
  <2> QED
    BY <1>t, <2>1, Bottoms DEF StopInv, MovedStopExists
<1>12. CASE Open
  <2>1. beMoved' = FALSE /\ stop' = NoStop /\ vol = 0
    BY <1>12, ForgotTyped DEF Open
  <2> QED
    BY <1>t, <2>1, Bottoms DEF StopInv, MovedStopExists
<1> QED
  BY <1>4, <1>5, <1>6, <1>7, <1>8, <1>9, <1>10, <1>11, <1>12 DEF Next, Manage

LEMMA PartsAndStops == Spec => [](TypeOK /\ PartInv /\ StopInv)
<1>1. Init => PartInv /\ StopInv
  BY Bottoms DEF Init, PartInv, StopInv, MovedStopExists
<1>2. TypeOK /\ PartInv /\ StopInv /\ [Next]_vars => PartInv' /\ StopInv'
  BY PartStep, StopStep
<1> QED
  BY <1>1, <1>2, TypeCorrect, PTL DEF Spec

(* A second part is only closed once the memory of the first was cleared,  *)
(* whichever of the two stages asks for it.                                *)
THEOREM PartOnce == Spec => []OnePart
<1>1. TypeOK /\ PartInv => OnePart
  BY DEF TypeOK, PartInv, OnePart
<1> QED
  BY <1>1, PartsAndStops, PTL

(* While the manager takes an open position for protected, the broker has  *)
(* a stop for it.                                                          *)
THEOREM StopExists == Spec => []MovedStopExists
<1>1. StopInv => MovedStopExists
  BY DEF StopInv
<1> QED
  BY <1>1, PartsAndStops, PTL

(* No step of the manager, the market or a restart takes back the stop of  *)
(* a position that stays open.                                             *)
StopNeverLoosened == [][vol > 0 /\ vol' > 0 => stop' >= stop]_vars

THEOREM StopTightens == Spec => StopNeverLoosened
<1>1. TypeOK /\ StopInv /\ [Next]_vars
        => (vol > 0 /\ vol' > 0 => stop' >= stop)
  BY StopStep
<1>2. TypeOK /\ StopInv /\ [Next]_vars
        => [vol > 0 /\ vol' > 0 => stop' >= stop]_vars
  BY <1>1
<1> QED
  BY <1>2, PartsAndStops, PTL DEF Spec, StopNeverLoosened

(* Every step does to the position what its care allows, or nothing. *)
LEMMA CareStep ==
  ASSUME TypeOK, PartInv, [Next]_vars
  PROVE  [Care!Next]_(Care!vars)
<1>t. view \in Views /\ parts \in Nat /\ vol \in Nat /\ stop \in Int
  BY Thresholded DEF TypeOK
<1>1. ASSUME UNCHANGED <<broker, parts>>
      PROVE  UNCHANGED Care!vars
  BY <1>1 DEF broker, Care!vars
<1>2. ASSUME NEW target \in Int, MoveStop(target), parts' = parts
      PROVE  Care!Next
  <2>1. stop' > stop /\ vol > 0 /\ vol' = vol
    BY <1>2, MoveStopTyped
  <2>2. Care!Tighten
    BY <1>2, <2>1 DEF Care!Tighten
  <2> QED
    BY <2>2 DEF Care!Next
<1>3. ASSUME ClosePart, parts = 0, parts' = parts + 1
      PROVE  Care!Next
  <2>1. (parts > 0) = FALSE /\ (parts' > 0) = TRUE
    BY <1>3
  <2>2. MaxOf(0, vol - Config.part) = IF vol > Config.part THEN vol - Config.part ELSE 0
    BY <1>t, Thresholded DEF MaxOf
  <2>3. Care!TakePart
    BY <1>3, <2>1, <2>2 DEF ClosePart, Care!TakePart
  <2> QED
    BY <2>3 DEF Care!Next
<1>4. ASSUME vol' = vol, stop' = stop, parts' = 0
      PROVE  Care!Next
  <2>1. (parts' > 0) = FALSE
    BY <1>4
  <2>2. Care!Forget
    BY <1>4, <2>1 DEF Care!Forget
  <2> QED
    BY <2>2 DEF Care!Next
<1>5. ASSUME vol > 0, vol' = 0, stop' = NoStop, parts' \in {parts, 0}
      PROVE  Care!Next
  <2>1. (parts' > 0) = (parts > 0) \/ (parts' > 0) = FALSE
    BY <1>5
  <2>2. Care!Close
    BY <1>5, <2>1 DEF Care!Close
  <2> QED
    BY <2>2 DEF Care!Next
<1>6. CASE TakePart
  <2>1. parts = 0 \/ ~PartialWanted(view)
    BY DEF PartInv, PartialWanted
  <2> QED
    BY <1>1, <1>3, <1>6, <2>1 DEF TakePart
<1>7. CASE RunnerPart
  BY <1>1, <1>3, <1>7 DEF RunnerPart, PartInv
<1>8. CASE MoveToBreakEven \/ RunnerStopUp
  <2>1. Config.buffer \in Int /\ view.target \in Int
    BY <1>t, Thresholded, ProfitInt
  <2> QED
    BY <1>1, <1>2, <1>8, <2>1 DEF MoveToBreakEven, RunnerStopUp, ghosts
<1>9. CASE StopUp
  <2>1. PICK tight \in BOOLEAN :
           MoveStop(StopUpTarget(view, tight)) \/ UNCHANGED <<broker, beMoved>>
    BY <1>9 DEF StopUp
  <2>2. parts' = parts
    BY <1>9 DEF StopUp, ghosts
  <2> QED
    BY <1>1, <1>2, <1>t, <2>1, <2>2, TargetInt
<1>10. CASE StartPass \/ HardGuards \/ RecoveryPlan \/ HoldBack
            \/ ManagedExit \/ NoManagedExit \/ Tick \/ UNCHANGED vars
  BY <1>1, <1>10 DEF StartPass, HardGuards, RecoveryPlan, HoldBack, ManagedExit,
     NoManagedExit, Tick, vars, ghosts
<1>11. CASE CloseAccepted
  BY <1>5, <1>11, ForgotTyped DEF CloseAccepted, Answer
<1>12. CASE CloseRejected \/ NotSeen \/ Restart
  BY <1>4, <1>12, ForgotTyped DEF CloseRejected, NotSeen, Restart, Answer, broker
<1>13. CASE Market
  BY <1>1, <1>5, <1>13 DEF Market, ghosts, Care!vars
<1>14. CASE Open
  <2>1. vol = 0 /\ vol' = Config.volume /\ stop' = NoStop /\ parts' = 0
    BY <1>14, ForgotTyped DEF Open
  <2>2. (parts' > 0) = FALSE
    BY <2>1
  <2>3. Care!Open
    BY <2>1, <2>2 DEF Care!Open
  <2> QED
    BY <2>3 DEF Care!Next
<1> QED
  BY <1>6, <1>7, <1>8, <1>9, <1>10, <1>11, <1>12, <1>13, <1>14 DEF Next, Manage

(* Whatever fails or is forgotten, the stages together do to a position    *)
(* only what its care allows (manage_positions).                           *)
THEOREM KeepsCare == Spec => ImplementsCare
<1>1. Init => Care!Init
  BY DEF Init, Care!Init
<1>2. TypeOK /\ PartInv /\ [Next]_vars => [Care!Next]_(Care!vars)
  BY CareStep
<1> QED
  BY <1>1, <1>2, PartsAndStops, PTL DEF Spec, ImplementsCare, Care!Spec

-----------------------------------------------------------------------------
(* Adverse waits.                                                          *)

(* The passes counted against a position are covered by its adverse wait,  *)
(* until an exit is attempted.                                             *)
WaitCovers == pc = "close" \/ (wait.on /\ adverseFor <= wait.waited)
WaitInv == adverseFor >= 0 => WaitCovers

(* A position in adverse risk has no profit to hold a runner for.          *)
LEMMA AdverseNoProfit ==
  ASSUME NEW v \in Views, AdverseRisk(v)
  PROVE  Profit(v) <= 0
<1>1. v.fav \in Int /\ v.vol \in Nat /\ Profit(v) \in Int
  BY ProfitInt
<1>2. CASE v.fav <= 0
  <2>1. ASSUME NEW a \in Int, NEW b \in Nat, a <= 0
        PROVE  a * b <= 0
    BY <2>1
  <2> QED
    BY <1>1, <1>2, <2>1 DEF Profit
<1>3. CASE v.fav > 0
  BY <1>1, <1>3, Thresholded DEF AdverseRisk
<1> QED
  BY <1>1, <1>2, <1>3

(* A pass that delays its exit is covered by a wait that has not run out.  *)
LEMMA DelayedWait ==
  ASSUME TypeOK, WaitInv, NEW v \in Views, NEW extreme \in BOOLEAN,
         DelayAdverse(v, extreme)
  PROVE  /\ WaitAfter(v, extreme) = WaitSeen(v) /\ WaitSeen(v).on
         /\ WaitSeen(v).waited < Config.waitMax
         /\ pc # "close" => adverseFor <= WaitSeen(v).waited
<1>s. /\ WaitSeen(v) \in [on : {TRUE}, waited : 0 .. Config.waitMax, worst : Int]
      /\ WaitSeen(v).waited = IF wait.on THEN wait.waited ELSE 0
  BY WaitTyped
<1>o. WaitSeen(v).on /\ WaitSeen(v).waited \in 0 .. Config.waitMax
  BY <1>s
<1>1. /\ WaitSeen(v).on /\ WaitSeen(v).waited \in Int
      /\ WaitSeen(v).waited = IF wait.on THEN wait.waited ELSE 0
  BY <1>s, <1>o, Thresholded
<1>2. LongestWait(v) \in Int /\ LongestWait(v) <= Config.waitMax
  BY Thresholded, ConfigAssumption DEF LongestWait
<1>3. WaitSeen(v).waited < Config.waitMax
  BY <1>1, <1>2, Thresholded, ConfigAssumption DEF DelayAdverse, StillWaiting
<1>4. pc # "close" => adverseFor <= WaitSeen(v).waited
  BY <1>1 DEF TypeOK, WaitInv, WaitCovers
<1> QED
  BY <1>1, <1>3, <1>4 DEF DelayAdverse, WaitAfter

(* The hard guards let an adverse position go on only with such a wait.    *)
LEMMA GuardedWait ==
  ASSUME TypeOK, WaitInv, HardGuards, adverseFor' >= 0
  PROVE  /\ wait'.on /\ adverseFor' <= wait'.waited
         /\ adverseFor' < Config.waitMax
<1>t. view \in Views /\ adverseFor \in Int /\ age \in Int
  BY DEF TypeOK
<1>e. ExtremeLoss(view) \in BOOLEAN
  BY DEF ExtremeLoss
<1>1. /\ kind' = "none" /\ AdverseRisk(view) /\ age >= Config.fullHold
      /\ adverseFor' = MaxOf(0, adverseFor) /\ pc # "close"
  BY <1>t DEF HardGuards
<1>2. HoldForAdverse
  BY <1>1, <1>t, Thresholded, ConfigAssumption DEF HoldForAdverse
<1>3. "none" \in HardGuardKinds(view) /\ "none" \notin AdverseKinds(view)
  BY <1>1 DEF HardGuards, AdverseKinds
<1>4. DelayAdverse(view, ExtremeLoss(view))
  BY <1>1, <1>2, <1>3 DEF HardGuardKinds
<1>5. wait' = WaitSeen(view)
  BY <1>1, <1>2, <1>4, <1>t, <1>e, DelayedWait DEF HardGuards
<1>6. /\ WaitSeen(view).on /\ WaitSeen(view).waited < Config.waitMax
      /\ adverseFor <= WaitSeen(view).waited
  BY <1>1, <1>4, <1>t, <1>e, DelayedWait
<1>w. WaitSeen(view) \in [on : {TRUE}, waited : 0 .. Config.waitMax, worst : Int]
  BY <1>t, <1>e, WaitTyped
<1>7. WaitSeen(view).waited \in Nat
  BY <1>w, Thresholded
<1>8. adverseFor' <= WaitSeen(view).waited
  BY <1>1, <1>6, <1>7, <1>t DEF MaxOf
<1>9. adverseFor' \in Int
  BY <1>1, <1>t DEF MaxOf
<1> QED
  BY <1>5, <1>6, <1>7, <1>8, <1>9, Thresholded

(* A managed exit of an adverse position goes straight to the close order. *)
LEMMA AdverseIsClosed ==
  ASSUME TypeOK, AdverseRisk(view), NEW k, Select(k)
  PROVE  pc' = "close"
<1>1. view \in Views /\ Profit(view) \in Int /\ Profit(view) <= 0
  BY AdverseNoProfit, ProfitInt DEF TypeOK
<1>2. ~RunnerWanted(view, k)
  BY <1>1, Thresholded, ConfigAssumption DEF RunnerWanted
<1> QED
  BY <1>2 DEF Select

(* While the routed stage is the adverse one, some exit is selected.       *)
LEMMA AdverseHasKind ==
  ASSUME NEW v, NEW chosen, NEW young, NEW confirmed, AdverseStage(v, chosen)
  PROVE  "none" \notin ManagedKinds(v, chosen, young, confirmed)
<1>1. /\ "none" \notin EmergencyKinds(v, chosen)
      /\ "none" \notin ProtectKinds(v, chosen, young, confirmed)
      /\ "none" \notin AdverseStageKinds(v, chosen)
      /\ AdverseStageKinds(v, chosen) # {}
  BY DEF EmergencyKinds, ProtectKinds, AdverseStageKinds
<1> QED
  BY <1>1 DEF ManagedKinds

LEMMA WaitStep ==
  ASSUME TypeOK, WaitInv, AdverseWaitBounded, [Next]_vars
  PROVE  WaitInv' /\ AdverseWaitBounded'
<1>t. view \in Views /\ adverseFor \in Int /\ wait.waited \in Int
  BY DEF TypeOK
<1> DEFINE Held == WaitInv' /\ AdverseWaitBounded'
<1>1. ASSUME wait' = wait, adverseFor' = adverseFor, pc # "close",
             pc' \in Stages => pc \in Stages \cup {"recovery"},
             pc' # "recovery"
      PROVE  Held
  BY <1>1 DEF WaitInv, WaitCovers, AdverseWaitBounded
<1>2. ASSUME pc' \in {"idle", "guards", "close"},
             adverseFor' >= 0 => WaitCovers'
      PROVE  Held
  BY <1>2 DEF WaitInv, AdverseWaitBounded, Stages
<1>3. CASE StartPass
  BY <1>1, <1>3 DEF StartPass, ghosts, Stages
<1>4. CASE HardGuards
  BY <1>4, GuardedWait, Thresholded, ConfigAssumption, TypeStep
     DEF WaitInv, WaitCovers, AdverseWaitBounded, TypeOK
<1>5. CASE RecoveryPlan \/ TakePart \/ MoveToBreakEven \/ StopUp
           \/ RunnerPart \/ RunnerStopUp
  BY <1>1, <1>5, EndTyped DEF RecoveryPlan, TakePart, MoveToBreakEven, StopUp,
     RunnerPart, RunnerStopUp, memory, ghosts, Stages
<1>6. CASE HoldBack
  <2>1. pc' = "idle" /\ adverseFor' = adverseFor /\ pc # "close"
    BY <1>6, EndTyped DEF HoldBack, ghosts
  <2>2. CASE wait' = wait
    BY <1>1, <2>1, <2>2 DEF Stages
  <2>3. CASE /\ DelayAdverse(view, ExtremeAdverse(view))
             /\ wait' = WaitAfter(view, ExtremeAdverse(view))
    <3>1. ExtremeAdverse(view) \in BOOLEAN
      BY DEF ExtremeAdverse, ExtremeLoss
    <3>2. wait'.on /\ adverseFor' <= wait'.waited
      BY <1>t, <2>1, <2>3, <3>1, DelayedWait
    <3> QED
      BY <1>2, <2>1, <3>2 DEF WaitCovers
  <2> QED
    BY <1>6, <2>2, <2>3 DEF HoldBack
<1>7. CASE ManagedExit
  <2>1. PICK chosen : NotHeldBack(chosen) /\ \E k \in Kinds : Select(k)
    BY <1>7, KindsTyped DEF ManagedExit
  <2>2. CASE AdverseStage(view, chosen)
    <3>1. pc' = "close"
      BY <2>1, <2>2, AdverseIsClosed DEF AdverseStage
    <3> QED
      BY <1>2, <3>1 DEF WaitCovers
  <2>3. CASE ~AdverseStage(view, chosen)
    <3>1. /\ wait' = wait /\ pc = "managed" /\ adverseFor' = adverseFor
          /\ pc' \in {"close", "runnerPart", "runnerStop"}
      BY <1>7, <2>1, <2>3, SelectTyped DEF NotHeldBack, ManagedExit, ghosts
    <3> QED
      BY <1>1, <3>1 DEF Stages
  <2> QED
    BY <2>2, <2>3
<1>8. CASE NoManagedExit
  <2>1. PICK chosen : NotHeldBack(chosen) /\ ~AdverseStage(view, chosen)
    BY <1>8, AdverseHasKind DEF NoManagedExit
  <2>2. /\ wait' = wait /\ pc = "managed" /\ adverseFor' = adverseFor
        /\ pc' \in {"idle", "close"}
    BY <1>8, <2>1, EndTyped DEF NotHeldBack, NoManagedExit, ghosts
  <2> QED
    BY <1>1, <2>2 DEF Stages
<1>9. CASE CloseAccepted \/ CloseRejected \/ NotSeen \/ Restart \/ Open
  <2>1. pc' = "idle" /\ adverseFor' = -1
    BY <1>9, EndTyped, ForgotTyped
       DEF CloseAccepted, CloseRejected, NotSeen, Restart, Open, Answer
  <2> QED
    BY <1>2, <2>1
<1>10. CASE Market \/ UNCHANGED vars
  BY <1>10 DEF Market, vars, memory, ghosts, WaitInv, WaitCovers,
     AdverseWaitBounded
<1>11. CASE Tick
  <2>1. pc' = "idle" /\ pc = "idle"
    BY <1>11 DEF Tick
  <2>2. ASSUME adverseFor' >= 0 PROVE wait'.on /\ adverseFor' <= wait'.waited
    <3>1. /\ adverseFor >= 0
          /\ adverseFor' = MinOf(adverseFor + 1, Config.waitMax)
      BY <1>11, <1>t, <2>2 DEF Tick
    <3>2. wait.on /\ adverseFor <= wait.waited
      BY <2>1, <3>1 DEF WaitInv, WaitCovers
    <3>3. wait'.on /\ wait'.waited = MinOf(wait.waited + 1, Config.waitMax)
      BY <1>11, <3>2 DEF Tick, TypeOK
    <3> QED
      BY <1>t, <3>1, <3>2, <3>3, Thresholded DEF MinOf
  <2> QED
    BY <1>2, <2>1, <2>2 DEF WaitCovers
<1> QED
  BY <1>3, <1>4, <1>5, <1>6, <1>7, <1>8, <1>9, <1>10, <1>11 DEF Next, Manage

(* A position is never kept in adverse passes for the longest wait: every  *)
(* such pass is covered by a wait that only a close attempt, a restart or  *)
(* the end of the adversity takes away, and that runs out.                 *)
THEOREM WaitEnds == Spec => []AdverseWaitBounded
<1>1. Init => WaitInv /\ AdverseWaitBounded
  BY DEF Init, WaitInv, AdverseWaitBounded, Stages
<1>2. TypeOK /\ WaitInv /\ AdverseWaitBounded /\ [Next]_vars
        => WaitInv' /\ AdverseWaitBounded'
  BY WaitStep
<1> QED
  BY <1>1, <1>2, TypeCorrect, PTL DEF Spec

-----------------------------------------------------------------------------
(* Runners.                                                                *)

LEMMA RunnerStep ==
  ASSUME TypeOK, PartInv, StopInv', [Next]_vars,
         pc = "runnerStop", pc' = "idle", peak' = peak, vol' > 0
  PROVE  parts' > 0 \/ stop' > NoStop
<1>1. RunnerStopUp
  <2>1. ~Restart
    BY DEF Restart, ForgetPosition
  <2>2. ~(Market \/ UNCHANGED vars)
    BY DEF Market, vars
  <2> QED
    BY <2>1, <2>2 DEF Next, Manage, StartPass, HardGuards, RecoveryPlan, TakePart,
       MoveToBreakEven, StopUp, HoldBack, ManagedExit, NoManagedExit,
       NotHeldBack, RunnerPart, CloseAccepted, CloseRejected, NotSeen, Tick, Open
<1>2. view.hold \/ beMoved'
  BY <1>1 DEF RunnerStopUp
<1>3. CASE view.hold
  BY <1>1, <1>3 DEF PartInv, RunnerStopUp, ghosts
<1>4. CASE beMoved'
  BY <1>4 DEF StopInv, MovedStopExists
<1> QED
  BY <1>2, <1>3, <1>4

(* Whatever became of its orders, the runner stage gives a selected exit   *)
(* up only when a part was closed or the broker has a stop for the rest.   *)
THEOREM RunnerSecured == Spec => HeldRunnerIsSecured
<1>1. TypeOK /\ PartInv /\ StopInv' /\ [Next]_vars
        => [pc = "runnerStop" /\ pc' = "idle" /\ peak' = peak /\ vol' > 0
              => parts' > 0 \/ stop' > NoStop]_vars
  BY RunnerStep
<1> QED
  BY <1>1, PartsAndStops, PTL DEF Spec, HeldRunnerIsSecured

=============================================================================
