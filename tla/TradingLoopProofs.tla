------------------------- MODULE TradingLoopProofs -------------------------
(***************************************************************************)
(* Theorems about the trading loop, for every number of positions and      *)
(* every cooldown, lifetime and grace that ConfigAssumption allows:        *)
(*                                                                         *)
(*  - TypeCorrect: every variable keeps its type;                          *)
(*  - LimitHolds: confirmed orders keep to MaxPositions;                   *)
(*  - ReversesAlone: reverse orders start with no confirmed position open; *)
(*  - ReversesFresh: no reverse order uses an outdated request;            *)
(*  - RecyclesSafely: the process re-executes itself only with no          *)
(*    confirmed position open;                                             *)
(*                                                                         *)
(* all but ReversesFresh if the positions were last read with an answer.   *)
(***************************************************************************)
EXTENDS TradingLoop, FiniteSetTheorems, TLAPS

LEMMA Numbers ==
  /\ Cooldown \in Nat /\ Cooldown >= 2 /\ Cooldown > PendingTTL
  /\ PendingTTL \in Nat /\ FlatGrace \in Nat
  /\ PostOrderGrace \in Nat /\ PostOrderGrace >= 2
  /\ MaxPositions \in Nat \ {0} /\ BlockTime \in Nat \ {0}
  /\ Interval \in Nat \ {0}
BY ConfigAssumption

LEMMA OlderTyped ==
  ASSUME NEW cap \in Nat, NEW age \in 0 .. cap
  PROVE  /\ Older(age, cap) \in 0 .. cap
         /\ Older(age, cap) <= age + 1
         /\ age < cap => Older(age, cap) = age + 1
BY DEF Older

LEMMA ShorterTyped ==
  ASSUME NEW cap \in Nat, NEW left \in 0 .. cap
  PROVE  Shorter(left) \in 0 .. cap
BY DEF Shorter

LEMMA AnswerTyped ==
  ASSUME NEW answered \in BOOLEAN
  PROVE  Answer(answered) \subseteq Slots
BY DEF Answer, Listed, InStage

-----------------------------------------------------------------------------
(* Type correctness.                                                       *)

LEMMA BrokerTyped ==
  ASSUME TypeOK, NEW s \in Slots, List(s) \/ Delist(s) \/ CloseByBroker(s)
  PROVE  TypeOK'
<1>1. CASE List(s)
  BY <1>1 DEF List, TypeOK, Stages, Lagging, InStage, pass, timers
<1>2. CASE Delist(s)
  BY <1>2 DEF Delist, TypeOK, Stages, Lagging, InStage, pass, timers
<1>3. CASE CloseByBroker(s)
  BY <1>3 DEF CloseByBroker, TypeOK, Stages, Lagging, InStage, pass, timers
<1> QED
  BY <1>1, <1>2, <1>3

LEMMA TickTyped ==
  ASSUME TypeOK, Tick
  PROVE  TypeOK'
<1>1. sinceEntry' \in 0 .. (Cooldown + 1) /\ sinceOrder' \in 0 .. PostOrderGrace
  BY Numbers, OlderTyped DEF Tick, TypeOK
<1>2. pending' \in {None} \cup 0 .. (PendingTTL + 1)
  BY Numbers, OlderTyped DEF Tick, TypeOK
<1>3. flatFor' \in {None} \cup 0 .. FlatGrace
  BY Numbers, OlderTyped DEF Tick, TypeOK
<1>4. blocked' \in 0 .. BlockTime /\ dueIn' \in 0 .. Interval
  BY Numbers, ShorterTyped DEF Tick, TypeOK
<1>5. late' \subseteq Lagging'
  BY DEF Tick, Lagging, InStage
<1>6. slow' \in BOOLEAN /\ pc' = pc /\ mine' = mine /\ seen' = seen
      /\ request' = request /\ outdated' = outdated /\ position' = position
      /\ unconfirmed' = unconfirmed
  BY DEF Tick
<1> QED
  BY <1>1, <1>2, <1>3, <1>4, <1>5, <1>6 DEF TypeOK, InStage

LEMMA OrderTyped ==
  ASSUME TypeOK,
         OrderFailed \/ \E s \in Slots : OrderDone(s) \/ OrderUnconfirmed(s)
  PROVE  /\ position' \in [Slots -> Stages]
         /\ late' \subseteq Lagging'
         /\ sinceOrder' \in 0 .. PostOrderGrace
         /\ blocked' \in 0 .. BlockTime
         /\ unconfirmed' \subseteq InStage({"filled", "open"})'
<1>1. CASE OrderFailed
  BY <1>1, Numbers DEF OrderFailed, TypeOK, broker, Lagging, InStage
<1>2. CASE \E s \in Slots : OrderDone(s)
  BY <1>2, Numbers DEF OrderDone, TypeOK, Stages, Lagging, InStage
<1>3. CASE \E s \in Slots : OrderUnconfirmed(s)
  BY <1>3, Numbers DEF OrderUnconfirmed, TypeOK, Stages, Lagging, InStage
<1> QED
  BY <1>1, <1>2, <1>3

LEMMA EntryTyped ==
  ASSUME TypeOK, EntryFails \/ NoEntry \/ \E s \in Slots : EntryDone(s)
  PROVE  TypeOK'
<1>1. CASE EntryFails
  BY <1>1, OrderTyped DEF EntryFails, TypeOK
<1>2. CASE NoEntry
  BY <1>2 DEF NoEntry, TypeOK, broker, timers, Lagging, InStage
<1>3. CASE \E s \in Slots : EntryDone(s)
  BY <1>3, OrderTyped, Numbers DEF EntryDone, TypeOK
<1> QED
  BY <1>1, <1>2, <1>3

LEMMA ManageTyped ==
  ASSUME TypeOK, Manage
  PROVE  TypeOK'
BY DEF Manage, TypeOK, Stages, Lagging, InStage, timers

LEMMA CandidateTyped ==
  ASSUME TypeOK, StoreCandidate
  PROVE  /\ pending' \in {None} \cup 0 .. (PendingTTL + 1)
         /\ outdated' \in BOOLEAN
BY Numbers DEF StoreCandidate, PendingAlive, TypeOK

LEMMA ReverseTyped ==
  ASSUME TypeOK,
         \/ HoldReverse \/ PrepareReverse \/ DropReverse \/ ReverseFails
         \/ \E s \in Slots : ReverseDone(s)
  PROVE  TypeOK'
<1>1. CASE HoldReverse
  BY <1>1, CandidateTyped DEF HoldReverse, TypeOK, broker, Lagging, InStage
<1>2. CASE PrepareReverse
  BY <1>2, CandidateTyped DEF PrepareReverse, TypeOK, broker, Lagging, InStage
<1>3. CASE DropReverse
  <2>1. pending' \in {None} \cup 0 .. (PendingTTL + 1)
    BY <1>3 DEF DropReverse
  <2>2. outdated' \in BOOLEAN /\ pc' = "recycle"
    BY <1>3 DEF DropReverse
  <2>3. position' = position /\ late' = late /\ unconfirmed' = unconfirmed
        /\ Lagging' = Lagging /\ InStage({"filled", "open"})' = InStage({"filled", "open"})
    BY <1>3 DEF DropReverse, broker, Lagging, InStage
  <2> QED
    BY <1>3, <2>1, <2>2, <2>3 DEF DropReverse, TypeOK
<1>4. CASE ReverseFails
  BY <1>4, OrderTyped DEF ReverseFails, TypeOK
<1>5. CASE \E s \in Slots : ReverseDone(s)
  <2>1. pending' \in {None} \cup 0 .. (PendingTTL + 1) /\ outdated' \in BOOLEAN
    BY <1>5 DEF ReverseDone
  <2>2. sinceEntry' \in 0 .. (Cooldown + 1) /\ pc' = "recycle"
    BY <1>5, Numbers DEF ReverseDone
  <2> QED
    BY <1>5, <2>1, <2>2, OrderTyped DEF ReverseDone, TypeOK
<1> QED
  BY <1>1, <1>2, <1>3, <1>4, <1>5

LEMMA OthersTyped ==
  ASSUME TypeOK,
         ReadPositions \/ SkipSymbol \/ Recycle \/ Restart \/ UNCHANGED vars
  PROVE  TypeOK'
<1>1. CASE ReadPositions
  BY <1>1, AnswerTyped DEF ReadPositions, TypeOK, broker, timers, Lagging, InStage
<1>2. CASE SkipSymbol
  BY <1>2 DEF SkipSymbol, TypeOK, broker, timers, Lagging, InStage
<1>3. CASE Recycle
  <2>1. flatFor' \in {None} \cup 0 .. FlatGrace
    BY <1>3, Numbers DEF Recycle, FlatSince, TypeOK
  <2>2. dueIn' \in 0 .. Interval /\ seen' \in BOOLEAN
    BY <1>3, Numbers DEF Recycle, TypeOK
  <2>3. pc' \in {"read", "reexec"}
    BY <1>3 DEF Recycle
  <2> QED
    BY <1>3, <2>1, <2>2, <2>3 DEF Recycle, TypeOK, broker, Lagging, InStage
<1>4. CASE Restart
  <2>1. position' \in [Slots -> Stages]
    BY <1>4 DEF Restart, TypeOK, Stages
  <2>2. pending' \in {None} \cup 0 .. (PendingTTL + 1)
        /\ flatFor' \in {None} \cup 0 .. FlatGrace
    BY <1>4 DEF Restart, ForgetAll
  <2>3. late' \subseteq Lagging' /\ unconfirmed' \subseteq InStage({"filled", "open"})'
    BY <1>4 DEF Restart
  <2> QED
    <3>1. sinceEntry' \in 0 .. (Cooldown + 1) /\ sinceOrder' \in 0 .. PostOrderGrace
      BY <1>4, Numbers DEF Restart, ForgetAll
    <3>2. blocked' \in 0 .. BlockTime /\ dueIn' \in 0 .. Interval
      BY <1>4, Numbers DEF Restart, ForgetAll
    <3>3. slow' \in BOOLEAN /\ seen' \in BOOLEAN /\ request' \in BOOLEAN
      BY <1>4 DEF Restart
    <3>4. outdated' \in BOOLEAN
      BY <1>4 DEF Restart, ForgetAll
    <3>5. mine' \subseteq Slots /\ pc' = "read"
      BY <1>4 DEF Restart
    <3> QED
      BY <2>1, <2>2, <2>3, <3>1, <3>2, <3>3, <3>4, <3>5 DEF TypeOK
<1>5. CASE UNCHANGED vars
  BY <1>5 DEF vars, broker, pass, timers, TypeOK, Lagging, InStage
<1> QED
  BY <1>1, <1>2, <1>3, <1>4, <1>5

(* Every age and delay stays within its cap, and only a position that lags *)
(* behind is late.                                                         *)
THEOREM TypeCorrect == Spec => []TypeOK
<1>1. Init => TypeOK
  <2> SUFFICES ASSUME Init PROVE TypeOK
    OBVIOUS
  <2>1. pending \in {None} \cup 0 .. (PendingTTL + 1)
        /\ flatFor \in {None} \cup 0 .. FlatGrace
    BY DEF Init
  <2>2. position \in [Slots -> Stages]
    BY DEF Init, Stages
  <2>3. slow \in BOOLEAN /\ seen \in BOOLEAN /\ request \in BOOLEAN
        /\ outdated \in BOOLEAN
    BY DEF Init
  <2>4. /\ sinceEntry \in 0 .. (Cooldown + 1)
        /\ sinceOrder \in 0 .. PostOrderGrace
        /\ blocked \in 0 .. BlockTime /\ dueIn \in 0 .. Interval
    BY Numbers DEF Init
  <2> QED
    BY <2>1, <2>2, <2>3, <2>4 DEF Init, TypeOK
<1>2. TypeOK /\ [Next]_vars => TypeOK'
  BY BrokerTyped, TickTyped, EntryTyped, ManageTyped, ReverseTyped, OthersTyped
     DEF Next, Pass
<1> QED
  BY <1>1, <1>2, PTL DEF Spec

-----------------------------------------------------------------------------
(* What the cooldown and the grace cover: a position that is not listed    *)
(* yet was opened at most one tick ago.                                    *)

Fresh(s) == IF s \in late THEN 1 ELSE 0

LagInv ==
  \A s \in InStage({"filled"}) \ unconfirmed :
     sinceEntry <= Fresh(s) /\ sinceOrder <= Fresh(s)

LEMMA ListedUnlessFresh ==
  ASSUME TypeOK, LagInv, sinceEntry >= 2 \/ sinceOrder >= 2
  PROVE  Own \subseteq Listed
<1>1. ASSUME NEW s \in InStage({"filled"}) \ unconfirmed
      PROVE  FALSE
  BY <1>1 DEF LagInv, Fresh, TypeOK
<1> QED
  BY <1>1 DEF Own, Listed, InStage

(* A step that opens nothing, keeps the clocks and what is late.           *)
Calm ==
  /\ InStage({"filled"})' \ unconfirmed' \subseteq InStage({"filled"}) \ unconfirmed
  /\ \A s \in InStage({"filled"})' : s \in late => s \in late'
  /\ sinceEntry' = sinceEntry /\ sinceOrder' = sinceOrder

LEMMA CalmKeepsLag ==
  ASSUME TypeOK, LagInv, Calm
  PROVE  LagInv'
<1> SUFFICES ASSUME NEW s \in InStage({"filled"})' \ unconfirmed'
             PROVE  sinceEntry' <= Fresh(s)' /\ sinceOrder' <= Fresh(s)'
  BY DEF LagInv
<1>1. s \in InStage({"filled"}) \ unconfirmed /\ (s \in late => s \in late')
  BY DEF Calm
<1>2. sinceEntry <= Fresh(s) /\ sinceOrder <= Fresh(s)
  BY <1>1 DEF LagInv
<1>3. sinceEntry' = sinceEntry /\ sinceOrder' = sinceOrder
  BY DEF Calm
<1>4. Fresh(s) <= Fresh(s)' /\ Fresh(s) \in Nat /\ Fresh(s)' \in Nat
  BY <1>1 DEF Fresh
<1> QED
  BY <1>2, <1>3, <1>4 DEF TypeOK

LEMMA CalmSteps ==
  ASSUME TypeOK,
         \/ \E s \in Slots : List(s) \/ Delist(s) \/ CloseByBroker(s)
         \/ ReadPositions \/ SkipSymbol \/ NoEntry \/ Manage
         \/ HoldReverse \/ PrepareReverse \/ DropReverse \/ Recycle
         \/ UNCHANGED vars
  PROVE  Calm
<1>1. CASE \E s \in Slots : List(s)
  BY <1>1 DEF List, Calm, InStage, TypeOK, timers
<1>2. CASE \E s \in Slots : Delist(s)
  BY <1>2 DEF Delist, Calm, InStage, TypeOK, timers
<1>3. CASE \E s \in Slots : CloseByBroker(s)
  BY <1>3 DEF CloseByBroker, Calm, InStage, TypeOK, timers
<1>4. CASE ReadPositions
  <2>1. mine' \subseteq Listed
    BY <1>4 DEF ReadPositions, Answer
  <2> QED
    BY <1>4, <2>1 DEF ReadPositions, Calm, InStage, Listed, broker, timers
<1>5. CASE SkipSymbol \/ NoEntry
  BY <1>5 DEF SkipSymbol, NoEntry, Calm, InStage, broker, timers
<1>6. CASE Manage
  BY <1>6 DEF Manage, Calm, InStage, timers, TypeOK
<1>7. CASE HoldReverse \/ PrepareReverse
  BY <1>7 DEF HoldReverse, PrepareReverse, Calm, InStage, broker
<1>8. CASE DropReverse \/ Recycle
  BY <1>8 DEF DropReverse, Recycle, Calm, InStage, broker
<1>9. CASE UNCHANGED vars
  BY <1>9 DEF vars, broker, timers, Calm, InStage
<1> QED
  BY <1>1, <1>2, <1>3, <1>4, <1>5, <1>6, <1>7, <1>8, <1>9

LEMMA UnconfirmedIsCalm ==
  ASSUME TypeOK, sinceEntry' = sinceEntry,
         OrderFailed \/ \E s \in Slots : OrderUnconfirmed(s)
  PROVE  Calm
<1>1. CASE OrderFailed
  BY <1>1 DEF OrderFailed, Calm, InStage, broker
<1>2. CASE \E s \in Slots : OrderUnconfirmed(s)
  BY <1>2 DEF OrderUnconfirmed, Calm, InStage, TypeOK
<1> QED
  BY <1>1, <1>2

LEMMA LagStep ==
  ASSUME TypeOK, TypeOK', LagInv, [Next]_vars
  PROVE  LagInv'
<1>1. CASE Calm
  BY <1>1, CalmKeepsLag
<1>2. CASE EntryFails \/ ReverseFails
  BY <1>2, UnconfirmedIsCalm, CalmKeepsLag DEF EntryFails, ReverseFails
<1>3. CASE \E s \in Slots : EntryDone(s) \/ ReverseDone(s)
  <2>1. sinceEntry' = 0 /\ sinceOrder' = 0
    BY <1>3 DEF EntryDone, ReverseDone, OrderDone
  <2> QED
    BY <2>1 DEF LagInv, Fresh
<1>4. CASE Tick
  <2> SUFFICES ASSUME NEW s \in InStage({"filled"})' \ unconfirmed'
               PROVE  sinceEntry' <= 1 /\ sinceOrder' <= 1 /\ s \in late'
    BY DEF LagInv, Fresh
  <2>1. s \in InStage({"filled"}) \ unconfirmed /\ s \notin late
    BY <1>4 DEF Tick, InStage
  <2>2. sinceEntry = 0 /\ sinceOrder = 0
    BY <2>1 DEF LagInv, Fresh, TypeOK
  <2>3. sinceEntry' <= 1 /\ sinceOrder' <= 1
    BY <1>4, <2>2 DEF Tick, Older
  <2>4. s \in late'
    BY <1>4, <2>1 DEF Tick, Lagging, InStage
  <2> QED
    BY <2>3, <2>4
<1>5. CASE Restart
  BY <1>5 DEF Restart, LagInv, InStage
<1> QED
  BY <1>1, <1>2, <1>3, <1>4, <1>5, CalmSteps DEF Next, Pass

-----------------------------------------------------------------------------
(* What a pass read, and how old the pending reverse is.                   *)

ReadInv ==
  pc = "entry" /\ seen
     => Own \subseteq mine \/ sinceEntry <= (IF slow THEN 2 ELSE 1)

PendingInv ==
  outdated /\ pending # None /\ pending <= PendingTTL => sinceEntry <= pending

LEMMA ReadStep ==
  ASSUME TypeOK, LagInv, ReadInv, [Next]_vars
  PROVE  ReadInv'
<1> SUFFICES ASSUME pc' = "entry", seen'
             PROVE  \/ Own' \subseteq mine'
                    \/ sinceEntry' <= (IF slow' THEN 2 ELSE 1)
  BY DEF ReadInv
<1>1. CASE ReadPositions
  <2>1. mine' = Listed /\ Own' \ Listed \subseteq Own /\ sinceEntry' = sinceEntry
    BY <1>1 DEF ReadPositions, Answer, Own, InStage, broker, timers
  <2>2. CASE sinceEntry >= 2
    BY <2>1, <2>2, ListedUnlessFresh
  <2>3. CASE sinceEntry <= 1
    BY <2>1, <2>3 DEF TypeOK
  <2> QED
    BY <2>2, <2>3 DEF TypeOK
<1>2. CASE Tick
  <2>1. pc = "entry" /\ seen /\ ~slow /\ slow' /\ Own' = Own /\ mine' = mine
    BY <1>2 DEF Tick, Own, InStage
  <2>2. sinceEntry' <= sinceEntry + 1
    BY <1>2 DEF Tick, Older, TypeOK
  <2>3. Own \subseteq mine \/ sinceEntry <= 1
    BY <2>1 DEF ReadInv
  <2>4. sinceEntry \in Nat /\ sinceEntry' \in Nat
    BY <1>2, Numbers DEF TypeOK, Tick, Older
  <2>5. Own' \subseteq mine' \/ sinceEntry' <= 2
    BY <2>1, <2>2, <2>3, <2>4
  <2> QED
    BY <2>1, <2>5
<1>3. CASE \E s \in Slots : List(s) \/ Delist(s) \/ CloseByBroker(s)
  <2>1. Own' \subseteq Own
    BY <1>3 DEF List, Delist, CloseByBroker, Own, InStage, TypeOK
  <2>2. pc = "entry" /\ seen /\ slow' = slow /\ mine' = mine
        /\ sinceEntry' = sinceEntry
    BY <1>3 DEF List, Delist, CloseByBroker, pass, timers
  <2> QED
    BY <2>1, <2>2 DEF ReadInv
<1>4. CASE UNCHANGED vars
  BY <1>4 DEF ReadInv, vars, broker, pass, timers, Own, InStage
<1>5. ~(SkipSymbol \/ NoEntry \/ Manage \/ HoldReverse \/ PrepareReverse
        \/ DropReverse \/ Recycle \/ Restart \/ EntryFails \/ ReverseFails
        \/ \E s \in Slots : EntryDone(s) \/ ReverseDone(s))
  BY DEF SkipSymbol, NoEntry, Manage, HoldReverse, PrepareReverse, DropReverse,
     Recycle, Restart, EntryFails, ReverseFails, EntryDone, ReverseDone
<1> QED
  BY <1>1, <1>2, <1>3, <1>4, <1>5 DEF Next, Pass

LEMMA PendingStep ==
  ASSUME TypeOK, PendingInv, [Next]_vars
  PROVE  PendingInv'
<1> SUFFICES ASSUME outdated', pending' # None, pending' <= PendingTTL
             PROVE  sinceEntry' <= pending'
  BY DEF PendingInv
<1>1. CASE Tick
  <2>1. pending # None /\ pending' = Older(pending, PendingTTL + 1) /\ outdated
    BY <1>1 DEF Tick
  <2>2. pending <= PendingTTL /\ pending' = pending + 1
    BY <2>1, Numbers DEF Older, TypeOK
  <2>3. sinceEntry' <= sinceEntry + 1
    BY <1>1 DEF Tick, Older, TypeOK
  <2>4. sinceEntry <= pending
    BY <2>1, <2>2 DEF PendingInv
  <2>5. sinceEntry \in Nat /\ sinceEntry' \in Nat /\ pending \in Nat
    BY <1>1, <2>1, Numbers DEF TypeOK, Tick, Older
  <2> QED
    BY <2>2, <2>3, <2>4, <2>5
<1>2. CASE \E s \in Slots : EntryDone(s)
  BY <1>2 DEF EntryDone, TypeOK
<1>3. CASE HoldReverse \/ PrepareReverse
  BY <1>3 DEF HoldReverse, PrepareReverse, StoreCandidate, PendingAlive, PendingInv
<1>4. ~(DropReverse \/ Restart \/ \E s \in Slots : ReverseDone(s))
  BY DEF DropReverse, Restart, ForgetAll, ReverseDone
<1>5. CASE \/ \E s \in Slots : List(s) \/ Delist(s) \/ CloseByBroker(s)
           \/ ReadPositions \/ SkipSymbol \/ NoEntry \/ Manage \/ Recycle
           \/ EntryFails \/ ReverseFails \/ UNCHANGED vars
  BY <1>5 DEF List, Delist, CloseByBroker, ReadPositions, SkipSymbol, NoEntry,
     Manage, Recycle, EntryFails, ReverseFails, vars, timers, PendingInv
<1> QED
  BY <1>1, <1>2, <1>3, <1>4, <1>5 DEF Next, Pass

-----------------------------------------------------------------------------
(* The orders and the recycle.                                             *)

LEMMA AloneStep ==
  ASSUME TypeOK, LagInv, ReverseAlone, [Next]_vars
  PROVE  ReverseAlone'
<1> SUFFICES ASSUME pc' = "order", seen'
             PROVE  Own' = {}
  BY DEF ReverseAlone
<1>1. CASE PrepareReverse
  <2>1. Listed = {} /\ Own' = Own /\ sinceEntry > Cooldown
    BY <1>1 DEF PrepareReverse, Answer, CooldownOver, Own, InStage, broker
  <2>2. sinceEntry >= 2
    BY <2>1, Numbers DEF TypeOK
  <2> QED
    BY <2>1, <2>2, ListedUnlessFresh
<1>2. CASE Tick \/ UNCHANGED vars
  BY <1>2 DEF Tick, vars, broker, pass, ReverseAlone, Own, InStage
<1>3. CASE \E s \in Slots : List(s) \/ Delist(s) \/ CloseByBroker(s)
  <2>1. Own' \subseteq Own
    BY <1>3 DEF List, Delist, CloseByBroker, Own, InStage, TypeOK
  <2>2. pc = "order" /\ seen
    BY <1>3 DEF List, Delist, CloseByBroker, pass
  <2> QED
    BY <2>1, <2>2 DEF ReverseAlone
<1>4. ~(ReadPositions \/ SkipSymbol \/ NoEntry \/ Manage \/ HoldReverse
        \/ DropReverse \/ Recycle \/ Restart \/ EntryFails \/ ReverseFails
        \/ \E s \in Slots : EntryDone(s) \/ ReverseDone(s))
  BY DEF ReadPositions, SkipSymbol, NoEntry, Manage, HoldReverse, DropReverse,
     Recycle, Restart, EntryFails, ReverseFails, EntryDone, ReverseDone
<1> QED
  BY <1>1, <1>2, <1>3, <1>4 DEF Next, Pass

LEMMA FreshStep ==
  ASSUME TypeOK, PendingInv, ReverseIsFresh, [Next]_vars
  PROVE  ReverseIsFresh'
<1> SUFFICES ASSUME pc' = "order"
             PROVE  ~outdated'
  BY DEF ReverseIsFresh
<1>1. CASE PrepareReverse
  <2> SUFFICES ASSUME outdated' PROVE FALSE
    OBVIOUS
  <2>1. PendingAlive /\ outdated /\ sinceEntry > Cooldown
    BY <1>1 DEF PrepareReverse, StoreCandidate, CooldownOver
  <2>2. sinceEntry <= pending /\ pending <= PendingTTL /\ pending # None
    BY <2>1 DEF PendingAlive, PendingInv
  <2>3. sinceEntry \in Nat /\ pending \in Nat
    BY <2>2, Numbers DEF TypeOK
  <2> QED
    BY <2>1, <2>2, <2>3, Numbers
<1>2. CASE Tick \/ UNCHANGED vars
  BY <1>2 DEF Tick, vars, pass, ReverseIsFresh
<1>3. CASE \E s \in Slots : List(s) \/ Delist(s) \/ CloseByBroker(s)
  BY <1>3 DEF List, Delist, CloseByBroker, pass, ReverseIsFresh
<1>4. ~(ReadPositions \/ SkipSymbol \/ NoEntry \/ Manage \/ HoldReverse
        \/ DropReverse \/ Recycle \/ Restart \/ EntryFails \/ ReverseFails
        \/ \E s \in Slots : EntryDone(s) \/ ReverseDone(s))
  BY DEF ReadPositions, SkipSymbol, NoEntry, Manage, HoldReverse, DropReverse,
     Recycle, Restart, EntryFails, ReverseFails, EntryDone, ReverseDone
<1> QED
  BY <1>1, <1>2, <1>3, <1>4 DEF Next, Pass

LEMMA RecycleStep ==
  ASSUME TypeOK, LagInv, RecyclesFlat, [Next]_vars
  PROVE  RecyclesFlat'
<1> SUFFICES ASSUME pc' = "reexec", seen'
             PROVE  Own' = {}
  BY DEF RecyclesFlat
<1>1. CASE Recycle
  <2>1. PICK others \in 0 .. 1 : MayRecycle(Cardinality(Listed) + others)
    BY <1>1 DEF Recycle, Answer
  <2>2. IsFiniteSet(Listed)
    BY ConfigAssumption, FS_Subset DEF Listed, InStage
  <2>3. Cardinality(Listed) \in Nat
    BY <2>2, FS_CardinalityType
  <2>4. Cardinality(Listed) = 0 /\ sinceOrder >= 2
    BY <2>1, <2>3, Numbers DEF MayRecycle, TypeOK
  <2>5. Listed = {}
    BY <2>2, <2>4, FS_EmptySet
  <2>6. Own' = Own
    BY <1>1 DEF Recycle, Own, InStage, broker
  <2> QED
    BY <2>4, <2>5, <2>6, ListedUnlessFresh
<1>2. CASE Tick \/ UNCHANGED vars
  BY <1>2 DEF Tick, vars, broker, pass, RecyclesFlat, Own, InStage
<1>3. CASE \E s \in Slots : List(s) \/ Delist(s) \/ CloseByBroker(s)
  <2>1. Own' \subseteq Own
    BY <1>3 DEF List, Delist, CloseByBroker, Own, InStage, TypeOK
  <2>2. pc = "reexec" /\ seen
    BY <1>3 DEF List, Delist, CloseByBroker, pass
  <2> QED
    BY <2>1, <2>2 DEF RecyclesFlat
<1>4. ~(ReadPositions \/ SkipSymbol \/ NoEntry \/ Manage \/ HoldReverse
        \/ PrepareReverse \/ DropReverse \/ Restart \/ EntryFails
        \/ ReverseFails \/ \E s \in Slots : EntryDone(s) \/ ReverseDone(s))
  BY DEF ReadPositions, SkipSymbol, NoEntry, Manage, HoldReverse, PrepareReverse,
     DropReverse, Restart, EntryFails, ReverseFails, EntryDone, ReverseDone
<1> QED
  BY <1>1, <1>2, <1>3, <1>4 DEF Next, Pass

Safe ==
  /\ LagInv /\ ReadInv /\ PendingInv
  /\ ReverseAlone /\ ReverseIsFresh /\ RecyclesFlat

LEMMA AlwaysSafe == Spec => [](TypeOK /\ Safe)
<1>1. Init => Safe
  BY DEF Init, Safe, LagInv, ReadInv, PendingInv, ReverseAlone, ReverseIsFresh,
     RecyclesFlat, InStage
<1>2. TypeOK /\ TypeOK' /\ Safe /\ [Next]_vars => Safe'
  BY LagStep, ReadStep, PendingStep, AloneStep, FreshStep, RecycleStep DEF Safe
<1> QED
  BY <1>1, <1>2, TypeCorrect, PTL DEF Spec

(* When a reverse order is sent after a read that was answered, the flat   *)
(* wait and the cooldown together have seen every confirmed position of    *)
(* the process. After a failed read nothing is said.                       *)
THEOREM ReversesAlone == Spec => []ReverseAlone
BY AlwaysSafe, PTL DEF Safe

(* The cooldown of an entry outlives what was pending when it was made.    *)
THEOREM ReversesFresh == Spec => []ReverseIsFresh
BY AlwaysSafe, PTL DEF Safe

(* The process re-executes itself only with no confirmed position open, if *)
(* its last read was answered: the grace after an order covers the time    *)
(* until it is listed. After a failed read nothing is said.                *)
THEOREM RecyclesSafely == Spec => []RecyclesFlat
BY AlwaysSafe, PTL DEF Safe

LEMMA OneMore ==
  ASSUME TypeOK, Safe, NEW s \in Slots, EntryDone(s) \/ ReverseDone(s), seen
  PROVE  Cardinality(Own') <= MaxPositions
<1>1. Own' = Own \cup {s} /\ s \notin Own /\ IsFiniteSet(Own)
  <2>1. OrderDone(s)
    BY DEF EntryDone, ReverseDone
  <2>2. unconfirmed \subseteq InStage({"filled", "open"})
    BY DEF TypeOK
  <2>3. IsFiniteSet(Own)
    BY ConfigAssumption, FS_Subset DEF Own, InStage
  <2> QED
    BY <2>1, <2>2, <2>3 DEF OrderDone, Own, InStage, TypeOK
<1>2. CASE EntryDone(s)
  <2>1. sinceEntry > Cooldown /\ pc = "entry" /\ Cardinality(mine) < MaxPositions
    BY <1>2 DEF EntryDone, EntryAllowed, CooldownOver
  <2>2. Own \subseteq mine
    BY <2>1, Numbers DEF Safe, ReadInv, TypeOK
  <2>3. IsFiniteSet(mine)
    BY ConfigAssumption, FS_Subset DEF TypeOK
  <2>4. Cardinality(Own) <= Cardinality(mine)
    BY <2>2, <2>3, FS_Subset
  <2>5. Cardinality(Own') = Cardinality(Own) + 1
    BY <1>1, FS_AddElement
  <2>6. Cardinality(Own) \in Nat /\ Cardinality(mine) \in Nat
    BY <1>1, <2>3, FS_CardinalityType
  <2> QED
    BY <2>1, <2>4, <2>5, <2>6, Numbers
<1>3. CASE ReverseDone(s)
  <2>1. Own' = {s}
    BY <1>1, <1>3 DEF ReverseDone, Safe, ReverseAlone
  <2> QED
    BY <2>1, FS_Singleton, Numbers
<1> QED
  BY <1>2, <1>3

(* Confirmed orders entered after answered reads keep to MaxPositions: an  *)
(* entry counts a list that lacks no position it knows of, and a reverse   *)
(* order starts from none. Unconfirmed orders and failed reads may exceed  *)
(* it.                                                                     *)
THEOREM LimitHolds == Spec => PositionsBounded
<1>1. TypeOK /\ Safe /\ [Next]_vars
        => [\A s \in Slots : (EntryDone(s) \/ ReverseDone(s)) /\ seen
              => Cardinality(Own') <= MaxPositions]_vars
  BY OneMore
<1> QED
  BY <1>1, AlwaysSafe, PTL DEF Spec, PositionsBounded

=============================================================================
