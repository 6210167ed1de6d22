---------------------------- MODULE ExitManager ----------------------------
(***************************************************************************)
(* The exit manager of one position: manage_positions of ExitService and   *)
(* the orders it sends through TradingApplication.                         *)
(*                                                                         *)
(* The trading loop reads the positions of a symbol once and passes them   *)
(* to the manager. For each one the manager goes through its stages in     *)
(* order: hard risk guards, recovery plan, part close, stop-up, adverse    *)
(* wait, managed exit, runner preservation, scalps and reversal. Guards    *)
(* are evaluated on the snapshot (view); every order reads the broker      *)
(* again. The market, the user and a restart act between any two orders.   *)
(* What the manager remembers of a position (its peak, whether a part was  *)
(* closed or the stop moved, the adverse wait) is in memory only.          *)
(*                                                                         *)
(* A price is its distance from the entry price, counted positive in the   *)
(* direction of the position; profit is that distance times the volume.    *)
(* Scores, regimes, the winner of the utility decision and whether a stage *)
(* or reversal streak is long enough are chosen nondeterministically;      *)
(* ledger, checkpoints and shock tracking are left out. Time advances      *)
(* between passes, and a wait may run out inside one ("late"). The tickets *)
(* of a symbol share no memory, so one position is modelled.               *)
(***************************************************************************)
EXTENDS Integers

CONSTANTS
    Config,        \* thresholds of Config and of the policies, see below
    Side,          \* direction of the position, BUY or SELL
    MaxMove,       \* bound: the market stays within this distance of entry
    QueryMayFail   \* whether positions_get may return None

Thresholds ==
    {"volume", "part", "buffer", "safety", "net", "target",
     "partMove", "partProfit", "stopProfit", "lockPeak",
     "givePeak", "giveRetrace", "plusPeak", "plusRetrace", "guardHold",
     "adverseMove", "adverseLoss", "extremeMove", "extremeLoss", "lossLimit",
     "tightProfit", "tightLockPeak", "holdLoss",
     "weakPeak", "weakHold", "fullHold", "waitLoss", "waitMin", "waitMax",
     "waitMaxConfirmed", "waitMaxWeak", "waitWeakPeak", "recovery", "skipPeak", "skipGiveback",
     "runnerPeak", "runnerGiveback", "runnerMove", "lateAge"}

ASSUME ConfigAssumption ==
    /\ Config \in [Thresholds -> Nat]
    /\ 0 < Config.part /\ Config.part < Config.volume
    /\ Config.safety > 0
    /\ Config.weakHold <= Config.fullHold
    /\ Config.fullHold <= Config.lateAge
    /\ Config.waitMin <= Config.waitMaxWeak
    /\ Config.waitMaxWeak <= Config.waitMaxConfirmed
    /\ Config.waitMaxConfirmed <= Config.waitMax
    /\ Config.adverseLoss <= Config.extremeLoss
    /\ Config.net > 0
    /\ Side \in {"BUY", "SELL"}
    /\ MaxMove \in Nat
    /\ QueryMayFail \in BOOLEAN

VARIABLES
    (* The broker. *)
    fav,          \* distance of the market from the entry price
    vol,          \* open volume, 0 once the position is closed
    stop,         \* distance of the stop from the entry price
    (* The memory of the manager. *)
    peak, partialDone, beMoved,
    wait,         \* adverse_wait_state
    (* The pass. *)
    pc, view, kind,
    age,          \* duration_sec, up to lateAge
    reverse,      \* manage_positions has returned a reverse action
    (* What the properties speak about. *)
    parts,        \* parts closed since the memory was last empty
    adverseFor    \* ticks of adverse passes without an exit attempt, -1: none

broker == <<fav, vol, stop>>
memory == <<peak, partialDone, beMoved, wait>>
ghosts == <<parts, adverseFor>>
vars   == <<broker, memory, pc, view, kind, age, reverse, ghosts>>

MaxOf(a, b) == IF a >= b THEN a ELSE b
MinOf(a, b) == IF a <= b THEN a ELSE b

(* No stop and no peak lie below everything they are compared with.        *)
NoStop == -(MaxMove + Config.safety + 1)
NoPeak == -(MaxMove * Config.volume + 1)
NoWait == [on |-> FALSE, waited |-> 0, worst |-> 0]
NoView == [fav |-> 0, vol |-> 0, tf |-> FALSE, strong |-> FALSE,
           gap |-> FALSE, hold |-> FALSE, target |-> NoStop]
Moves  == (-MaxMove) .. MaxMove

(* The pass is inside the stages that come after the hard guards.          *)
Stages == {"part", "beStop", "stopUp", "managed", "runnerPart", "runnerStop"}
(* Exit kinds after whose close the loop is asked to trade the other way.  *)
Reversing == {"adverse_reverse", "recovery_reverse"}
Kinds ==
    {"none", "profit_giveback_lock", "plus_to_minus_protect",
     "adverse_protect", "adverse_lock", "adverse_reverse", "adverse_stop",
     "recovery_exit", "recovery_reverse", "emergency_stop", "protect_exit",
     "adverse_recheck_protect", "adverse_recheck_lock", "time_stop",
     "lock_exit", "target_exit", "scalp", "reversal"}
RunnerKinds == {"lock_exit", "target_exit", "adverse_recheck_lock"}

-----------------------------------------------------------------------------
(* What the manager computes from its snapshot v.                          *)

Profit(v) == v.fav * v.vol
Giveback(v) == MaxOf(0, peak - Profit(v))

AdverseRisk(v) ==
    \/ -v.fav >= Config.adverseMove
    \/ Profit(v) <= -Config.adverseLoss

(* The hard guards look at the loss only, the adverse stage also at the    *)
(* move, which a part close does not shrink.                               *)
ExtremeLoss(v) == Profit(v) <= -Config.extremeLoss
ExtremeAdverse(v) == ExtremeLoss(v) \/ -v.fav >= Config.extremeMove

HoldForAdverse ==
    age >= IF peak <= Config.weakPeak THEN Config.weakHold
                                         ELSE Config.fullHold

GivebackHit(v) ==
    /\ age >= Config.guardHold
    /\ peak >= Config.givePeak
    /\ Profit(v) >= Config.net
    /\ peak - Profit(v) >= Config.giveRetrace

PlusToMinusHit(v) ==
    /\ age >= Config.guardHold
    /\ peak >= Config.plusPeak
    /\ Profit(v) <= 0
    /\ peak - Profit(v) >= Config.plusRetrace

(* Mutant: an extreme loss is waited for like any other. *)
WaitsWhenExtreme(v, extreme) ==
    \/ /\ peak >= Config.skipPeak
       /\ Giveback(v) >= Config.skipGiveback
       /\ Profit(v) <= 0
    \/ Profit(v) >= 0 \/ -Profit(v) < Config.waitLoss
    \/ v.strong \/ ~(v.tf \/ v.gap)

(* The adverse wait is dropped, and the exit not delayed.                  *)
NoReasonToWait(v, extreme) ==
    \/ extreme
    \/ /\ peak >= Config.skipPeak
       /\ Giveback(v) >= Config.skipGiveback
       /\ Profit(v) <= 0
    \/ Profit(v) >= 0
    \/ -Profit(v) < Config.waitLoss
    \/ v.strong \/ ~(v.tf \/ v.gap)

(* Mutant: every look starts the wait again. *)
WaitStartedAgain(v) == [on |-> TRUE, waited |-> 0, worst |-> Profit(v)]

(* The wait after one more look at it: it keeps the worst profit seen.     *)
WaitSeen(v) ==
    IF wait.on THEN [wait EXCEPT !.worst = MinOf(wait.worst, Profit(v))]
               ELSE [on |-> TRUE, waited |-> 0, worst |-> Profit(v)]

(* An opposite confirmation shortens the longest wait, most of all for a   *)
(* position that never was far in profit.                                  *)
LongestWait(v) ==
    IF ~v.tf THEN Config.waitMax
    ELSE IF peak <= Config.waitWeakPeak THEN Config.waitMaxWeak
                                        ELSE Config.waitMaxConfirmed

StillWaiting(v) ==
    LET w == WaitSeen(v) IN
    \/ w.waited < Config.waitMin
    \/ /\ Profit(v) - w.worst < Config.recovery
       /\ w.waited < LongestWait(v)

DelayAdverse(v, extreme) == ~NoReasonToWait(v, extreme) /\ StillWaiting(v)
WaitAfter(v, extreme) == IF NoReasonToWait(v, extreme) THEN NoWait ELSE WaitSeen(v)

(* The stage scores and the reverse scores are free: any of these kinds.   *)
AdverseKinds(v) ==
    {"adverse_reverse", "adverse_stop"}
    \cup (IF /\ Profit(v) <= Config.target
             /\ peak <= Config.weakPeak \/ (v.tf /\ ~v.strong)
          THEN {"adverse_protect"} ELSE {})
    \cup (IF Profit(v) >= Config.net /\ v.tf /\ ~v.strong
          THEN {"adverse_lock"} ELSE {})

HardGuardKinds(v) ==
    IF GivebackHit(v) THEN {"profit_giveback_lock"}
    ELSE IF PlusToMinusHit(v) THEN {"plus_to_minus_protect"}
    ELSE IF /\ AdverseRisk(v)
            /\ HoldForAdverse \/ ExtremeLoss(v)
            /\ ~DelayAdverse(v, ExtremeLoss(v))
         THEN AdverseKinds(v)
         ELSE {"none"}

RecoveryModes(v) ==
    {"none"}
    \cup (IF Profit(v) > 0 THEN {"exit"} ELSE {})
    \cup (IF /\ Profit(v) < 0 /\ ~AdverseRisk(v)
             /\ -Profit(v) <= Config.holdLoss /\ age < Config.lateAge
          THEN {"hold"} ELSE {})
    \cup (IF /\ Profit(v) < 0 /\ AdverseRisk(v) /\ v.tf
             /\ age >= Config.fullHold
          THEN {"reverse"} ELSE {})

(* Mutant: the part that was closed is not remembered. *)
PartialWantedAgain(v) ==
    /\ v.fav >= Config.partMove
    /\ Profit(v) >= Config.partProfit
    /\ Config.part < v.vol

PartialWanted(v) ==
    /\ ~partialDone
    /\ v.fav >= Config.partMove
    /\ Profit(v) >= Config.partProfit
    /\ Config.part < v.vol

(* The stop-up target: the break-even buffer or, once the peak is high     *)
(* enough, half of the distance covered; a tight profile starts earlier.   *)
StopUpTarget(v, tight) ==
    LET from == IF tight THEN Config.tightProfit ELSE Config.stopProfit
        lock == IF tight THEN Config.tightLockPeak ELSE Config.lockPeak
        up   == IF peak >= lock THEN MaxOf(Config.buffer, v.fav \div 2)
                                ELSE Config.buffer
    IN IF MaxOf(peak, Profit(v)) >= from /\ v.fav > 0 /\ up < v.fav
       THEN up ELSE NoStop

(* The stage the router has chosen: protect allows the short exits, lock   *)
(* the mid ones, hold the long ones, auto all of them.                     *)
AllowShort(chosen) == chosen \in {"protect", "auto"}
AllowMid(chosen)   == chosen \in {"lock", "auto"}
AllowLong(chosen)  == chosen \in {"hold", "auto"}

(* A small loss without adverse risk is held for a green close.            *)
GreenHold(v, young) ==
    /\ Profit(v) <= 0 /\ ~AdverseRisk(v)
    /\ 4 * (-Profit(v)) < 3 * Config.lossLimit
    /\ young

EmergencyKinds(v, chosen) ==
    IF AllowShort(chosen) /\ Profit(v) < 0 /\ -Profit(v) >= Config.lossLimit
    THEN {"emergency_stop"} ELSE {}

ProtectKinds(v, chosen, young, confirmed) ==
    IF /\ AllowShort(chosen) /\ ~GreenHold(v, young) /\ confirmed
       /\ Profit(v) <= Config.target /\ ~v.strong
    THEN {"protect_exit"} ELSE {}

(* The adverse stage of a position held long enough and no longer waiting. *)
AdverseStage(v, chosen) == AllowShort(chosen) /\ AdverseRisk(v)
HeldTooShort(v) == age < Config.fullHold /\ ~ExtremeAdverse(v)

AdverseStageKinds(v, chosen) ==
    IF ~AdverseStage(v, chosen) THEN {}
    ELSE {"adverse_reverse", "adverse_stop"}
         \cup (IF v.tf /\ ~v.strong /\ Profit(v) <= Config.target
               THEN {"adverse_recheck_protect"} ELSE {})
         \cup (IF v.tf /\ ~v.strong /\ Profit(v) >= Config.net
               THEN {"adverse_recheck_lock"} ELSE {})

MidKinds(v, chosen, young, confirmed) ==
    IF ~AllowMid(chosen) THEN {}
    ELSE IF /\ ~GreenHold(v, young) /\ age >= Config.lateAge
            /\ v.fav < Config.partMove /\ Profit(v) < Config.target
         THEN {"time_stop"}
    ELSE IF confirmed /\ Profit(v) >= Config.net /\ ~v.strong
         THEN {"lock_exit"}
    ELSE IF Profit(v) >= Config.target THEN {"target_exit"}
    ELSE {}

(* resolve_exit_execution_plan_v1 selects the first candidate that applies.*)
ManagedKinds(v, chosen, young, confirmed) ==
    LET first(K, others) == IF K # {} THEN K ELSE others IN
    first(EmergencyKinds(v, chosen),
    first(ProtectKinds(v, chosen, young, confirmed),
    first(AdverseStageKinds(v, chosen),
    first(MidKinds(v, chosen, young, confirmed), {"none"}))))

(* A selected lock or target exit gives way to holding the rest: the       *)
(* profit is there, little of it was given back, and something protects it.*)
RunnerWanted(v, k) ==
    /\ k \in RunnerKinds
    /\ MaxOf(peak, Profit(v)) >= Config.runnerPeak
    /\ Profit(v) >= Config.net
    /\ Giveback(v) <= Config.runnerGiveback
    /\ v.fav >= Config.runnerMove
    /\ PartialWanted(v) \/ partialDone \/ beMoved \/ v.target # NoStop

(* The higher of two prices: for a SELL it is the one further from profit. *)
RunnerStop(v) ==
    IF ~PartialWanted(v) THEN v.target
    ELSE IF v.target = NoStop THEN Config.buffer
    ELSE IF Side = "BUY" THEN MaxOf(v.target, Config.buffer)
                         ELSE MinOf(v.target, Config.buffer)

-----------------------------------------------------------------------------
(* Orders.                                                                 *)

(* move_stop_to_break_even keeps the stop a safety distance away from the  *)
(* market of now and only ever tightens it.                                *)
StopPrice(target) == MinOf(target, fav - Config.safety)

(* Mutant: the stop goes where it is asked to go. *)
CanMoveStopAnywhere(target) == target # NoStop /\ vol > 0

CanMoveStop(target) == target # NoStop /\ vol > 0 /\ StopPrice(target) > stop

MoveStop(target) ==
    /\ CanMoveStop(target)
    /\ stop' = StopPrice(target)
    /\ UNCHANGED <<fav, vol>>

(* Mutant: what is left is not looked at. *)
ClosePartUnchecked ==
    /\ vol' = vol - Config.part
    /\ stop' = IF vol' = 0 THEN NoStop ELSE stop
    /\ UNCHANGED fav

(* close_position_partial; a part as large as what is left closes it.      *)
ClosePart ==
    /\ vol > 0
    /\ vol' = MaxOf(0, vol - Config.part)
    /\ stop' = IF vol' = 0 THEN NoStop ELSE stop
    /\ UNCHANGED fav

EndPass == pc' = "idle" /\ view' = NoView /\ kind' = "none"

ForgetPosition ==
    /\ peak' = NoPeak /\ partialDone' = FALSE /\ beMoved' = FALSE
    /\ wait' = NoWait
    /\ parts' = 0 /\ adverseFor' = -1

(* A selected exit goes to the runner stage or to the close order.         *)
Select(k) ==
    /\ kind' = k
    /\ pc' = IF ~RunnerWanted(view, k) THEN "close"
             ELSE IF PartialWanted(view) THEN "runnerPart" ELSE "runnerStop"
    /\ view' = IF RunnerWanted(view, k) THEN [view EXCEPT !.target = RunnerStop(view)]
                                        ELSE view

-----------------------------------------------------------------------------
(* One pass of manage_positions over the position.                         *)

StartPass ==
    /\ pc = "idle" /\ vol > 0
    /\ \E tf, strong, gap \in BOOLEAN :
           /\ gap => ~tf /\ ~strong        \* the gap is only asked then
           /\ view' = [NoView EXCEPT !.fav = fav, !.vol = vol, !.tf = tf,
                                     !.strong = strong, !.gap = gap]
    /\ peak' = MaxOf(peak, fav * vol)
    /\ pc' = "guards"
    /\ reverse' = FALSE
    /\ UNCHANGED <<broker, partialDone, beMoved, wait, kind, age, ghosts>>

(* The wait is looked at when the adverse guard is reached; the position   *)
(* is either closed at once or goes through the stages below.              *)
HardGuards ==
    /\ pc = "guards"
    /\ LET v == view
           looks == AdverseRisk(v) /\ (HoldForAdverse \/ ExtremeLoss(v))
       IN  /\ wait' = IF looks THEN WaitAfter(v, ExtremeLoss(v)) ELSE wait
           /\ kind' \in HardGuardKinds(v)
           /\ pc' = IF kind' = "none" THEN "recovery" ELSE "close"
           /\ adverseFor' =
                  IF kind' = "none" /\ AdverseRisk(v) /\ age >= Config.fullHold
                  THEN MaxOf(0, adverseFor) ELSE -1
    /\ UNCHANGED <<broker, peak, partialDone, beMoved, view, age,
                   reverse, parts>>

RecoveryPlan ==
    /\ pc = "recovery"
    /\ \E mode \in RecoveryModes(view) :
           /\ pc' = IF mode \in {"exit", "reverse"} THEN "close" ELSE "part"
           /\ kind' = CASE mode = "exit" -> "recovery_exit"
                        [] mode = "reverse" -> "recovery_reverse"
                        [] OTHER -> "none"
           /\ view' = [view EXCEPT !.hold = (mode = "hold")]
    /\ UNCHANGED <<broker, memory, age, reverse, ghosts>>

TakePart ==
    /\ pc = "part"
    /\ \/ /\ PartialWanted(view) /\ ClosePart
          /\ partialDone' = TRUE /\ parts' = parts + 1
          /\ pc' = "beStop"
       \/ /\ pc' = "stopUp"            \* not wanted, or the order failed
          /\ UNCHANGED <<broker, partialDone, parts>>
    /\ UNCHANGED <<peak, beMoved, wait, view, kind, age, reverse,
                   adverseFor>>

MoveToBreakEven ==
    /\ pc = "beStop" /\ pc' = "stopUp"
    /\ \/ MoveStop(Config.buffer) /\ beMoved' = TRUE
       \/ UNCHANGED <<broker, beMoved>>
    /\ UNCHANGED <<peak, partialDone, wait, view, kind, age, reverse,
                   ghosts>>

(* Mutant: the answer of the order is not looked at. *)
StopUpUnanswered ==
    /\ pc = "stopUp" /\ pc' = "managed"
    /\ \E tight \in BOOLEAN :
           LET target == StopUpTarget(view, tight) IN
           /\ view' = [view EXCEPT !.target = target]
           /\ \/ MoveStop(target)
              \/ UNCHANGED broker
           /\ beMoved' = (beMoved \/ target # NoStop)
    /\ UNCHANGED <<peak, partialDone, wait, kind, age, reverse, ghosts>>

StopUp ==
    /\ pc = "stopUp" /\ pc' = "managed"
    /\ \E tight \in BOOLEAN :
           LET target == StopUpTarget(view, tight) IN
           /\ view' = [view EXCEPT !.target = target]
           /\ \/ MoveStop(target) /\ beMoved' = TRUE
              \/ UNCHANGED <<broker, beMoved>>
    /\ UNCHANGED <<peak, partialDone, wait, kind, age, reverse, ghosts>>

(* The pass is given up while the position is to be held.                  *)
HoldBack ==
    /\ pc = "managed"
    /\ \E chosen \in {"protect", "lock", "hold", "auto"} :
           \/ view.hold /\ UNCHANGED wait
           \/ /\ ~view.hold /\ AdverseStage(view, chosen)
              /\ \/ HeldTooShort(view) /\ UNCHANGED wait
                 \/ /\ ~HeldTooShort(view)
                    /\ DelayAdverse(view, ExtremeAdverse(view))
                    /\ wait' = WaitAfter(view, ExtremeAdverse(view))
    /\ EndPass
    /\ UNCHANGED <<broker, peak, partialDone, beMoved, age, reverse,
                   ghosts>>

(* The managed plan is reached: nothing holds the exit back (any more).    *)
NotHeldBack(chosen) ==
    /\ pc = "managed" /\ ~view.hold
    /\ IF AdverseStage(view, chosen)
       THEN /\ ~HeldTooShort(view)
            /\ \/ ~DelayAdverse(view, ExtremeAdverse(view))
               \/ wait.waited + 1 >= LongestWait(view)     \* late
            /\ wait' = WaitAfter(view, ExtremeAdverse(view))
       ELSE wait' = wait

(* Streaks that are long enough need the opposite confirmation.            *)
ManagedExit ==
    /\ \E chosen \in {"protect", "lock", "hold", "auto"}, young, confirmed \in BOOLEAN :
           /\ NotHeldBack(chosen)
           /\ age < Config.lateAge => young
           /\ confirmed => view.tf
           /\ \E k \in ManagedKinds(view, chosen, young, confirmed) \ {"none"} :
                  Select(k)
    /\ UNCHANGED <<broker, peak, partialDone, beMoved, age, reverse, ghosts>>

(* No candidate applies: an RSI or Bollinger scalp, which the exit model   *)
(* may veto, or a reversal of a position in profit, once confirmed.        *)
NoManagedExit ==
    /\ \E chosen \in {"protect", "lock", "hold", "auto"}, young, confirmed \in BOOLEAN :
           /\ NotHeldBack(chosen)
           /\ age < Config.lateAge => young
           /\ confirmed => view.tf
           /\ "none" \in ManagedKinds(view, chosen, young, confirmed)
           /\ \/ EndPass
              \/ /\ Profit(view) >= Config.net /\ AllowMid(chosen)
                 /\ pc' = "close" /\ kind' = "scalp" /\ UNCHANGED view
              \/ /\ Profit(view) >= Config.net /\ AllowLong(chosen)
                 /\ age >= Config.fullHold
                 /\ pc' = "close" /\ kind' = "reversal" /\ UNCHANGED view
    /\ UNCHANGED <<broker, peak, partialDone, beMoved, age, reverse, ghosts>>

RunnerPart ==
    /\ pc = "runnerPart" /\ pc' = "runnerStop"
    /\ \/ /\ ClosePart
          /\ partialDone' = TRUE /\ parts' = parts + 1
          /\ view' = [view EXCEPT !.hold = TRUE]       \* an action was applied
       \/ UNCHANGED <<broker, partialDone, parts, view>>
    /\ UNCHANGED <<peak, beMoved, wait, kind, age, reverse,
                   adverseFor>>

(* Mutant: the rest is held whatever became of the orders. *)
RunnerHeldAnyway ==
    /\ pc = "runnerStop"
    /\ \/ MoveStop(view.target) /\ beMoved' = TRUE
       \/ UNCHANGED <<broker, beMoved>>
    /\ EndPass
    /\ UNCHANGED <<peak, partialDone, wait, age, reverse, ghosts>>

(* The rest is held if something was done for it; otherwise it is closed.  *)
RunnerStopUp ==
    /\ pc = "runnerStop"
    /\ \/ MoveStop(view.target) /\ beMoved' = TRUE
       \/ UNCHANGED <<broker, beMoved>>
    /\ IF view.hold \/ beMoved' THEN EndPass
                                ELSE pc' = "close" /\ UNCHANGED <<view, kind>>
    /\ UNCHANGED <<peak, partialDone, wait, age, reverse, ghosts>>

(* execute_exit: close_position takes a position it does not see for       *)
(* closed; the memory is cleared whatever the answer was.                  *)
Answer(closed) ==
    /\ reverse' = (closed /\ kind \in Reversing)
    /\ ForgetPosition /\ EndPass
    /\ UNCHANGED <<fav, age>>

CloseAccepted ==
    /\ pc = "close" /\ vol > 0
    /\ vol' = 0 /\ stop' = NoStop
    /\ Answer(TRUE)

CloseRejected ==
    /\ pc = "close" /\ vol > 0
    /\ Answer(FALSE)
    /\ UNCHANGED <<vol, stop>>

NotSeen ==
    /\ pc = "close" /\ (vol = 0 \/ QueryMayFail)
    /\ Answer(TRUE)
    /\ UNCHANGED <<vol, stop>>

-----------------------------------------------------------------------------
(* The broker, the clock and the process.                                  *)

(* The market moves; where it reaches the stop the broker closes. Moves    *)
(* inside a pass matter where the next step sends an order.                *)
Market ==
    /\ vol > 0 /\ pc \notin {"guards", "recovery", "managed"}
    /\ fav' \in Moves \ {fav}
    /\ IF fav' <= stop THEN vol' = 0 /\ stop' = NoStop ELSE UNCHANGED <<vol, stop>>
    /\ UNCHANGED <<memory, pc, view, kind, age, reverse, ghosts>>

Tick ==
    /\ pc = "idle" /\ vol > 0
    /\ age' = MinOf(age + 1, Config.lateAge)
    /\ wait' = IF wait.on
               THEN [wait EXCEPT !.waited = MinOf(wait.waited + 1, Config.waitMax)]
               ELSE wait
    /\ adverseFor' = IF adverseFor >= 0 THEN MinOf(adverseFor + 1, Config.waitMax)
                                        ELSE adverseFor
    /\ UNCHANGED <<broker, peak, partialDone, beMoved, pc, view, kind,
                   reverse, parts>>

Restart ==
    /\ peak # NoPeak
    /\ ForgetPosition /\ EndPass
    /\ reverse' = FALSE
    /\ UNCHANGED <<broker, age>>

(* A new position: a ticket the manager has not seen yet.                  *)
Open ==
    /\ vol = 0 /\ pc = "idle"
    /\ fav' = 0 /\ vol' = Config.volume
    /\ stop' = NoStop
    /\ ForgetPosition /\ EndPass
    /\ age' = 0 /\ reverse' = FALSE

Init ==
    /\ fav = 0 /\ vol = Config.volume
    /\ stop = NoStop
    /\ peak = NoPeak /\ partialDone = FALSE /\ beMoved = FALSE
    /\ wait = NoWait
    /\ pc = "idle" /\ view = NoView /\ kind = "none"
    /\ age = 0 /\ reverse = FALSE
    /\ parts = 0 /\ adverseFor = -1

Manage ==
    \/ StartPass \/ HardGuards \/ RecoveryPlan
    \/ TakePart \/ MoveToBreakEven \/ StopUp
    \/ HoldBack \/ ManagedExit \/ NoManagedExit
    \/ RunnerPart \/ RunnerStopUp

Next ==
    \/ Manage \/ CloseAccepted \/ CloseRejected \/ NotSeen
    \/ Market \/ Tick \/ Restart \/ Open

Spec == Init /\ [][Next]_vars

(* The trading loop comes round for ever, time passes, and the broker does *)
(* not reject every close order.                                           *)
Fairness ==
    /\ WF_vars(Manage)
    /\ WF_vars(CloseRejected \/ NotSeen \/ CloseAccepted)
    /\ SF_vars(Tick)
    /\ SF_vars(CloseAccepted)

FairSpec == Spec /\ Fairness

-----------------------------------------------------------------------------
(* Properties.                                                             *)

Views == [fav : Moves, vol : Nat, tf : BOOLEAN, strong : BOOLEAN,
          gap : BOOLEAN, hold : BOOLEAN, target : Int]

(* Every variable holds a value of its kind; the volume only shrinks below *)
(* the filled one.                                                         *)
TypeOK ==
    /\ fav \in Moves
    /\ vol \in 0 .. Config.volume /\ stop \in Int
    /\ peak \in Int /\ partialDone \in BOOLEAN /\ beMoved \in BOOLEAN
    /\ wait \in [on : BOOLEAN, waited : 0 .. Config.waitMax, worst : Int]
    /\ pc \in {"idle", "guards", "recovery", "close"} \cup Stages
    /\ view \in Views /\ kind \in Kinds
    /\ age \in 0 .. Config.lateAge /\ reverse \in BOOLEAN
    /\ parts \in Nat /\ adverseFor \in -1 .. Config.waitMax

(* No pass holds a position it has seen in an extreme loss: whatever the   *)
(* wait, the recovery plan and the routed stage say, such a pass has gone  *)
(* to the close order before any of them is asked.                         *)
ExtremeNeverHeld ==
    pc \in Stages \cup {"recovery"} => ~ExtremeLoss(view)

(* However passes, part closes, failed orders and restarts interleave, a   *)
(* position is kept in adverse passes for less than the longest wait after *)
(* its minimum hold before an exit is attempted.                           *)
AdverseWaitBounded ==
    pc \in Stages \cup {"recovery"} => adverseFor < Config.waitMax

(* The part close and the runner stage share one part: a second one is     *)
(* closed only after the memory was cleared by an exit attempt or restart. *)
OnePart == parts <= 1

(* A position the manager takes for protected has a stop at the broker.    *)
MovedStopExists == beMoved /\ vol > 0 => stop > NoStop

(* What the stages may do to the position between them, see PositionCare:  *)
(* however passes, failed orders, the market and restarts interleave, an   *)
(* open position only gets tighter stops, loses one part or is closed as a *)
(* whole (move_stop_to_break_even, close_position_partial, close_position).*)
Care == INSTANCE PositionCare WITH
    Full <- Config.volume, Part <- Config.part, None <- NoStop,
    volume <- vol, taken <- parts > 0

ImplementsCare == Care!Spec

(* A selected full exit is given up for a runner only when part of it was  *)
(* closed or the rest has a stop (a restart, which forgets the peak, ends  *)
(* the pass anywhere).                                                     *)
HeldRunnerIsSecured ==
    [][pc = "runnerStop" /\ pc' = "idle" /\ peak' = peak /\ vol' > 0
           => parts' > 0 \/ stop' > NoStop]_vars

(* A position the market keeps against it is closed in the end, however    *)
(* often the close order is rejected, unless restarts go on for ever.      *)
Adverse == vol > 0 => -fav >= Config.adverseMove
AdverseGetsClosed ==
    (<>[]Adverse /\ <>[][~Restart]_vars) => []<>(vol = 0)
=============================================================================
