---------------------------- MODULE TradingLoop ----------------------------
(***************************************************************************)
(* The trading loop over one symbol: run_trading_application, with the     *)
(* gates of try_open_entry, try_reverse_entry, execute_order and the       *)
(* guarded recycle of the process.                                         *)
(*                                                                         *)
(* A pass reads the positions once, tries an entry, manages the positions  *)
(* it read, tries a reverse entry and, once all symbols are done, decides  *)
(* whether the process re-executes itself. Nothing but the order cooldown  *)
(* covers the time the broker needs to list a position it has opened, and  *)
(* an answer of positions_get that is None counts as no positions.         *)
(*                                                                         *)
(* The broker lists a new position, and delists a closed one, at the       *)
(* latest in the second tick after; a pass lasts less than two ticks; a    *)
(* restart takes longer than listing does. The market, the scores and the  *)
(* other symbols are nondeterministic. ALLOW_IMMEDIATE_REVERSE has its     *)
(* default, False. Ages and delays are counted in ticks and capped where   *)
(* nothing compares them any further.                                      *)
(***************************************************************************)
EXTENDS Integers, FiniteSets

CONSTANTS
    Slots,            \* bound: positions the broker may hold at a time
    MaxPositions,     \* Config.get_max_positions
    Cooldown,         \* ENTRY_COOLDOWN
    PendingTTL,       \* IMMEDIATE_REVERSE_PENDING_TTL_SEC
    BlockTime,        \* ENTRY_MARKET_CLOSED_COOLDOWN_SEC
    Mode,             \* RUNTIME_RECYCLE_MODE
    Interval,         \* RUNTIME_RECYCLE_INTERVAL_SEC
    FlatGrace,        \* RUNTIME_RECYCLE_FLAT_GRACE_SEC
    PostOrderGrace    \* RUNTIME_RECYCLE_POST_ORDER_GRACE_SEC

(* The defaults are a cooldown of 60 s, a pending reverse of 20 s and a    *)
(* grace of 90 s: each covers the listing of a position, and a pending     *)
(* reverse expires before the cooldown of an entry is over.                *)
ASSUME ConfigAssumption ==
    /\ IsFiniteSet(Slots)
    /\ {MaxPositions, BlockTime, Interval} \subseteq Nat \ {0}
    /\ {PendingTTL, FlatGrace} \subseteq Nat
    /\ Cooldown \in Nat /\ Cooldown >= 2 /\ Cooldown > PendingTTL
    /\ PostOrderGrace \in Nat /\ PostOrderGrace >= 2
    /\ Mode \in {"disabled", "log_only", "reexec"}

VARIABLES
    (* The broker. *)
    position,     \* what each slot holds: see Stages
    late,         \* slots whose listing was already due at the last tick
    (* The pass. *)
    pc, slow,     \* slow: a tick fell into this pass
    mine,         \* my_positions, read when the symbol's turn came
    seen,         \* the last positions_get was answered
    request,      \* manage_positions returned a reverse action
    (* The memory of the process. *)
    sinceEntry,   \* age of last_entry_time
    sinceOrder,   \* age of last_order_ts
    pending,      \* age of pending_reverse_by_symbol, None when there is none
    blocked,      \* what is left of order_block_until_by_symbol
    dueIn,        \* what is left until next_due_at_ts
    flatFor,      \* age of flat_since_ts, None when not flat
    (* What the properties speak about. *)
    unconfirmed,  \* positions whose order was executed but not confirmed
    outdated      \* an entry was made after the pending reverse was set

broker == <<position, late>>
pass   == <<pc, slow, mine, seen, request>>
timers == <<sinceEntry, sinceOrder, pending, blocked, dueIn, flatFor>>
vars   == <<broker, pass, timers, unconfirmed, outdated>>

None == -1
(* A slot is empty, executed but not yet listed, open, or closed but still *)
(* listed.                                                                 *)
Stages == {"none", "filled", "open", "closing"}

InStage(stages) == {s \in Slots : position[s] \in stages}
Listed  == InStage({"open", "closing"})
Lagging == InStage({"filled", "closing"})
(* The positions the process has been told of, or has seen.                *)
Own     == InStage({"filled", "open"}) \ unconfirmed

(* What positions_get shows: None is taken for an empty list.              *)
Answer(answered) == IF answered THEN Listed ELSE {}

Older(age, cap) == IF age < cap THEN age + 1 ELSE age
CooldownOver == sinceEntry > Cooldown

(* Mutant: what is left goes below zero. *)
ShorterBelowZero(left) == left - 1

Shorter(left) == IF left > 0 THEN left - 1 ELSE left

(* Mutant: expires_at is not looked at. *)
PendingNeverExpires == pending # None

(* _get_pending_reverse returns the pending reverse.                       *)
PendingAlive == pending # None /\ pending <= PendingTTL

ForgetAll ==
    /\ sinceEntry' = Cooldown + 1
    /\ sinceOrder' = PostOrderGrace
    /\ pending' = None
    /\ blocked' = 0
    /\ dueIn' = Interval
    /\ flatFor' = None
    /\ outdated' = FALSE

Init ==
    /\ position \in [Slots -> {"none", "open"}]
    /\ late = {}
    /\ pc = "read" /\ slow = FALSE /\ mine = {} /\ seen = TRUE
    /\ request = FALSE
    /\ sinceEntry = Cooldown + 1 /\ sinceOrder = PostOrderGrace
    /\ pending = None /\ blocked = 0 /\ dueIn = Interval /\ flatFor = None
    /\ unconfirmed = {} /\ outdated = FALSE
    /\ Cardinality(Own) <= MaxPositions

-----------------------------------------------------------------------------
(* The broker and time.                                                    *)

List(s) ==
    /\ position[s] = "filled"
    /\ position' = [position EXCEPT ![s] = "open"]
    /\ late' = late \ {s}
    /\ UNCHANGED <<pass, timers, unconfirmed, outdated>>

Delist(s) ==
    /\ position[s] = "closing"
    /\ position' = [position EXCEPT ![s] = "none"]
    /\ late' = late \ {s}
    /\ UNCHANGED <<pass, timers, unconfirmed, outdated>>

(* A stop, a target or the user closes a position.                         *)
CloseByBroker(s) ==
    /\ position[s] \in {"filled", "open"}
    /\ position' = [position EXCEPT
           ![s] = IF position[s] = "open" THEN "closing" ELSE "none"]
    /\ late' = late \ {s}
    /\ unconfirmed' = unconfirmed \ {s}
    /\ UNCHANGED <<pass, timers, outdated>>

Tick ==
    /\ late = {} /\ ~slow
    /\ late' = Lagging
    /\ slow' = (pc # "read")
    /\ sinceEntry' = Older(sinceEntry, Cooldown + 1)
    /\ sinceOrder' = Older(sinceOrder, PostOrderGrace)
    /\ pending' = IF pending = None THEN None
                                    ELSE Older(pending, PendingTTL + 1)
    /\ blocked' = Shorter(blocked)
    /\ dueIn' = Shorter(dueIn)
    /\ flatFor' = IF flatFor = None THEN None ELSE Older(flatFor, FlatGrace)
    /\ UNCHANGED <<position, pc, mine, seen, request, unconfirmed, outdated>>

-----------------------------------------------------------------------------
(* execute_order.                                                          *)

(* The order is executed as position s: last_order_ts is set and the block *)
(* of the symbol is lifted.                                                *)
OrderDone(s) ==
    /\ position[s] = "none"
    /\ position' = [position EXCEPT ![s] = "filled"]
    /\ sinceOrder' = 0
    /\ blocked' = 0
    /\ UNCHANGED <<late, unconfirmed>>

(* order_send returns None, or a code other than done, although at least   *)
(* part of the order was executed: it counts as failed.                    *)
OrderUnconfirmed(s) ==
    /\ position[s] = "none"
    /\ position' = [position EXCEPT ![s] = "filled"]
    /\ unconfirmed' = unconfirmed \cup {s}
    /\ UNCHANGED <<late, sinceOrder, blocked>>

(* The order is not executed: a closed market blocks further entries for a *)
(* while.                                                                  *)
OrderFailed ==
    /\ blocked' \in {blocked, BlockTime}
    /\ UNCHANGED <<broker, sinceOrder, unconfirmed>>

-----------------------------------------------------------------------------
(* The pass.                                                               *)

(* Reads the positions of the symbol. One that is listed is known from now *)
(* on, whatever the answer to its order was.                               *)
ReadPositions ==
    /\ pc = "read"
    /\ seen' \in BOOLEAN
    /\ mine' = Answer(seen')
    /\ unconfirmed' = unconfirmed \ mine'
    /\ pc' = "entry"
    /\ UNCHANGED <<broker, slow, request, timers, outdated>>

(* No tick or no candles: the symbol is left out of this pass.             *)
SkipSymbol ==
    /\ pc = "read"
    /\ pc' = "recycle"
    /\ UNCHANGED <<broker, slow, mine, seen, request, timers, unconfirmed,
                   outdated>>

(* Mutant: the cooldown is not looked at. *)
EntryAllowedWithoutCooldown ==
    Cardinality(mine) < MaxPositions /\ blocked = 0

(* The gates an entry has to pass, besides signal and context.             *)
EntryAllowed ==
    /\ Cardinality(mine) < MaxPositions
    /\ CooldownOver
    /\ blocked = 0

EntryDone(s) ==
    /\ pc = "entry" /\ EntryAllowed
    /\ OrderDone(s)
    /\ sinceEntry' = 0
    /\ outdated' = (pending # None)
    /\ pc' = "exit"
    /\ UNCHANGED <<slow, mine, seen, request, pending, dueIn, flatFor>>

EntryFails ==
    /\ pc = "entry" /\ EntryAllowed
    /\ OrderFailed \/ \E s \in Slots : OrderUnconfirmed(s)
    /\ pc' = "exit"
    /\ UNCHANGED <<slow, mine, seen, request, sinceEntry, pending, dueIn,
                   flatFor, outdated>>

NoEntry ==
    /\ pc = "entry"
    /\ pc' = "exit"
    /\ UNCHANGED <<broker, slow, mine, seen, request, timers, unconfirmed,
                   outdated>>

(* manage_positions closes some of the positions it was given. A reverse   *)
(* is asked for after a close that returned True, which a close also does  *)
(* when its query shows no position.                                       *)
Manage ==
    /\ pc = "exit"
    /\ \E closed \in SUBSET {s \in mine : position[s] = "open"} :
          /\ position' = [s \in Slots |->
                 IF s \in closed THEN "closing" ELSE position[s]]
          /\ unconfirmed' = unconfirmed \ closed
    /\ request' \in BOOLEAN
    /\ request' => mine # {}
    /\ mine' = {}
    /\ pc' = "reverse"
    /\ UNCHANGED <<late, slow, seen, timers, outdated>>

(* _resolve_reverse_candidate: a request is stored and replaces a pending  *)
(* one; an expired one is dropped.                                         *)
StoreCandidate ==
    /\ pending' = IF request THEN 0
                  ELSE IF PendingAlive THEN pending ELSE None
    /\ outdated' = (~request /\ PendingAlive /\ outdated)

(* try_reverse_entry returns before the order: there is no candidate, an   *)
(* entry was made lately, or a position is still listed after the wait.    *)
(* The candidate stays.                                                    *)
HoldReverse ==
    /\ pc = "reverse"
    /\ seen' \in BOOLEAN
    /\ \/ ~request /\ ~PendingAlive
       \/ ~CooldownOver
       \/ Answer(seen') # {}
    /\ StoreCandidate
    /\ request' = FALSE
    /\ pc' = "recycle"
    /\ UNCHANGED <<broker, slow, mine, sinceEntry, sinceOrder, blocked, dueIn,
                   flatFor, unconfirmed>>

(* Mutant: the cooldown is not looked at. *)
PrepareReverseWithoutCooldown ==
    /\ pc = "reverse"
    /\ request \/ PendingAlive
    /\ seen' \in BOOLEAN
    /\ Answer(seen') = {}
    /\ StoreCandidate
    /\ request' = FALSE
    /\ pc' = "order"
    /\ UNCHANGED <<broker, slow, mine, sinceEntry, sinceOrder, blocked, dueIn,
                   flatFor, unconfirmed>>

(* The wait ends with no position of the symbol listed.                    *)
PrepareReverse ==
    /\ pc = "reverse"
    /\ request \/ PendingAlive
    /\ CooldownOver
    /\ seen' \in BOOLEAN
    /\ Answer(seen') = {}
    /\ StoreCandidate
    /\ request' = FALSE
    /\ pc' = "order"
    /\ UNCHANGED <<broker, slow, mine, sinceEntry, sinceOrder, blocked, dueIn,
                   flatFor, unconfirmed>>

(* The model or the score decides against the reverse, which is dropped.   *)
DropReverse ==
    /\ pc = "order"
    /\ pending' = None
    /\ outdated' = FALSE
    /\ pc' = "recycle"
    /\ UNCHANGED <<broker, slow, mine, seen, request, sinceEntry, sinceOrder,
                   blocked, dueIn, flatFor, unconfirmed>>

ReverseDone(s) ==
    /\ pc = "order"
    /\ OrderDone(s)
    /\ sinceEntry' = 0
    /\ pending' = None
    /\ outdated' = FALSE
    /\ pc' = "recycle"
    /\ UNCHANGED <<slow, mine, seen, request, dueIn, flatFor>>

(* The order failed: the candidate stays.                                  *)
ReverseFails ==
    /\ pc = "order"
    /\ OrderFailed \/ \E s \in Slots : OrderUnconfirmed(s)
    /\ pc' = "recycle"
    /\ UNCHANGED <<slow, mine, seen, request, sinceEntry, pending, dueIn,
                   flatFor, outdated>>

-----------------------------------------------------------------------------
(* evaluate_runtime_recycle, at the end of the pass.                       *)

FlatSince(count) ==
    IF count > 0 THEN None ELSE IF flatFor = None THEN 0 ELSE flatFor

(* Mutant: the grace after an order is not looked at. *)
MayRecycleAfterOrder(count) ==
    /\ Mode # "disabled" /\ dueIn = 0 /\ count = 0
    /\ FlatSince(count) >= FlatGrace

MayRecycle(count) ==
    /\ Mode # "disabled"
    /\ dueIn = 0
    /\ count = 0
    /\ FlatSince(count) >= FlatGrace
    /\ sinceOrder >= PostOrderGrace

(* positions_get shows the positions of all symbols, so the count may be   *)
(* positive when this symbol has none. Health and drift of the process     *)
(* are left open.                                                          *)
Recycle ==
    /\ pc = "recycle"
    /\ seen' \in BOOLEAN
    /\ \E others \in 0..1 : \E triggered \in BOOLEAN :
          LET count == Cardinality(Answer(seen')) + (IF seen' THEN others ELSE 0)
              acts  == triggered /\ MayRecycle(count)
          IN  /\ flatFor' = FlatSince(count)
              /\ dueIn' = IF acts THEN Interval ELSE dueIn
              /\ pc' = IF acts /\ Mode = "reexec" THEN "reexec" ELSE "read"
    /\ slow' = FALSE
    /\ UNCHANGED <<broker, mine, request, sinceEntry, sinceOrder, pending,
                   blocked, unconfirmed, outdated>>

(* A crash, a stop by the user or os.execv: what the process remembers is  *)
(* gone, and by the time it runs again the broker's list is up to date.    *)
Restart ==
    /\ position' = [s \in Slots |->
           CASE position[s] = "filled"  -> "open"
             [] position[s] = "closing" -> "none"
             [] OTHER -> position[s]]
    /\ late' = {} /\ unconfirmed' = {}
    /\ pc' = "read" /\ slow' = FALSE /\ mine' = {} /\ seen' = TRUE
    /\ request' = FALSE
    /\ ForgetAll

Pass ==
    \/ ReadPositions \/ SkipSymbol
    \/ EntryFails \/ NoEntry
    \/ Manage
    \/ HoldReverse \/ PrepareReverse \/ DropReverse \/ ReverseFails
    \/ Recycle
    \/ \E s \in Slots : EntryDone(s) \/ ReverseDone(s)

Next ==
    \/ \E s \in Slots : List(s) \/ Delist(s) \/ CloseByBroker(s)
    \/ Tick
    \/ Pass
    \/ Restart

Spec == Init /\ [][Next]_vars

-----------------------------------------------------------------------------
TypeOK ==
    /\ position \in [Slots -> Stages]
    /\ late \subseteq Lagging
    /\ pc \in {"read", "entry", "exit", "reverse", "order", "recycle", "reexec"}
    /\ slow \in BOOLEAN /\ seen \in BOOLEAN
    /\ request \in BOOLEAN /\ outdated \in BOOLEAN
    /\ mine \subseteq Slots
    /\ sinceEntry \in 0 .. (Cooldown + 1)
    /\ sinceOrder \in 0 .. PostOrderGrace
    /\ pending \in {None} \cup 0 .. (PendingTTL + 1)
    /\ blocked \in 0 .. BlockTime
    /\ dueIn \in 0 .. Interval
    /\ flatFor \in {None} \cup 0 .. FlatGrace
    /\ unconfirmed \subseteq InStage({"filled", "open"})

(* An entry or a reverse order that the broker confirms, sent after the    *)
(* positions were read successfully, leaves at most MaxPositions of the    *)
(* positions the process knows of open - although the list it counted may  *)
(* lack a position that was opened a moment ago (the count and the         *)
(* cooldown of try_open_entry).                                            *)
PositionsBounded ==
    [][\A s \in Slots :
          (EntryDone(s) \/ ReverseDone(s)) /\ seen
              => Cardinality(Own') <= MaxPositions]_vars

(* A reverse order is sent only when no position the process knows of is   *)
(* open, listed or not, unless the query of the flat wait failed           *)
(* (try_reverse_entry: "We still avoid opening a reverse order while our   *)
(* managed position is visibly alive").                                    *)
ReverseAlone == pc = "order" /\ seen => Own = {}

(* A reverse order never uses a request from before the last entry: the    *)
(* cooldown of the entry outlives the request (try_reverse_entry).         *)
ReverseIsFresh == pc = "order" => ~outdated

(* The process re-executes itself only when no position it knows of is     *)
(* open, not even one that is not listed yet, unless the query failed (the *)
(* safety gate of evaluate_runtime_recycle).                               *)
RecyclesFlat == pc = "reexec" /\ seen => Own = {}

=============================================================================
